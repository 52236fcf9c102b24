-------------------------------- MODULE Stats --------------------------------
(***************************************************************************)
(* compute_stats (src/src/stats.rs): what the report of a run says of each *)
(* source, as functions of the registry.                                   *)
(***************************************************************************)
EXTENDS Registry, FiniteSets, FiniteSetsExt

(* Mutant: the distance of two instants, whichever comes first. *)
Between(later, earlier) ==
  IF later > earlier THEN later - earlier ELSE earlier - later

(* Instant::duration_since, which saturates at zero. *)
Since(later, earlier) == IF later > earlier THEN later - earlier ELSE 0

ArrivalsOf(source, key) ==
  {i \in DOMAIN shreds[key].arrivals : shreds[key].arrivals[i].source = source}

FirstFrom(source, key) ==
  Min({shreds[key].arrivals[i].at : i \in ArrivalsOf(source, key)})

ReceivedKeys(source) == {key \in DOMAIN shreds : ArrivalsOf(source, key) # {}}

Delta(source, key) == Since(FirstFrom(source, key), shreds[key].first_seen)

Won(source, key) == key \in ReceivedKeys(source) /\ Delta(source, key) = 0

TotalUniqueShreds == Cardinality(DOMAIN shreds)
Received(source)  == Cardinality(ReceivedKeys(source))
Missed(source)    == Cardinality(DOMAIN shreds \ ReceivedKeys(source))

(* Mutant: every arrival counts, the first of the source included. *)
DupesCountsAll(source) ==
  Cardinality(UNION {{key} \X ArrivalsOf(source, key) : key \in ReceivedKeys(source)})

(* Of each shred, all arrivals of the source but one. *)
Repeats(source, key) == ArrivalsOf(source, key) \ {Min(ArrivalsOf(source, key))}

Dupes(source) ==
  Cardinality(UNION {{key} \X Repeats(source, key) : key \in ReceivedKeys(source)})

-----------------------------------------------------------------------------
(* A Vec of latencies, as a map from what was measured to the nanoseconds. *)
Latencies(source) == [key \in ReceivedKeys(source) |-> Delta(source, key)]

(* The slots that an entry source was seen in, and how late. *)
SlotsSeen(source) == {s \in DOMAIN slots : source \in DOMAIN slots[s].entry_arrivals}

EntryLatencies(source) ==
  [s \in SlotsSeen(source) |->
     Since(slots[s].entry_arrivals[source], slots[s].first_shred_at)]

(* The value at position i, counted from 0, of the latencies in order. *)
SortedAt(latencies, i) ==
  CHOOSE v \in Range(latencies) :
    /\ Cardinality({k \in DOMAIN latencies : latencies[k] < v}) <= i
    /\ Cardinality({k \in DOMAIN latencies : latencies[k] <= v}) > i

Tenths == 1000  \* a percentage in tenths: 999 is p99.9

(* The rank is computed in f64, where 50, 90, 95 and 99 are exact and 99.9 *)
(* is a little more than 99.9: below 2^40 values the rank of p99.9 comes   *)
(* out right or, if the exact one is a whole number, one too high (first   *)
(* with 41000 values).                                                     *)
RoundsUp(n, p) == p = 999 /\ (n * p) % Tenths = 0

Ranks(n, p) ==
  LET exact == (n * p + Tenths - 1) \div Tenths
  IN IF RoundsUp(n, p) THEN {exact, exact + 1} ELSE {exact}

(* Mutant: the rank is used as an index. *)
PercentilesOneHigher(latencies, p) ==
  LET n == Cardinality(DOMAIN latencies)
  IN IF n = 0 THEN {0} ELSE {SortedAt(latencies, Earlier(rank, n - 1)) : rank \in Ranks(n, p)}

(* percentile: the values it may return; 0 for a source without latencies *)
Percentiles(latencies, p) ==
  LET n == Cardinality(DOMAIN latencies)
      idx(rank) == IF rank = 0 THEN 0 ELSE rank - 1
  IN IF n = 0 THEN {0}
     ELSE {SortedAt(latencies, Earlier(idx(rank), n - 1)) : rank \in Ranks(n, p)}
=============================================================================
