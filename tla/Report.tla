------------------------------- MODULE Report -------------------------------
(***************************************************************************)
(* The end of a run: main waits for the aggregator, for two seconds at     *)
(* most, then computes the statistics (src/src/stats.rs) and writes the    *)
(* log (src/src/output/logfile.rs).  An aggregator that is late is left    *)
(* behind and goes on recording while main reads.                          *)
(*                                                                         *)
(* A DashMap is an array of segments with a lock each.  An iteration holds *)
(* the lock of the segment it is in, so it reads one segment per step; the *)
(* others may change meanwhile.  What has been read is kept in maps of the *)
(* same shape, and the statistics are those of `Stats` for these maps.     *)
(***************************************************************************)
EXTENDS Measurement, FiniteSets

CONSTANTS
  Segments,      \* number of segments of a DashMap
  ShredSegment,  \* shred key -> segment
  SlotSegment    \* slot -> segment

ASSUME ReportAssumption ==
  /\ Segments \in Nat \ {0}
  /\ ShredSegment \in [ShredKey -> 1..Segments] /\ SlotSegment \in [Slots -> 1..Segments]

VARIABLES
  step,          \* main: "recording", "counting", "shreds", "slots", "samples",
                 \*       "log", "done"
  segment,       \* the segment that an iteration reads next
  detached,      \* has main left the aggregator behind?
  total_unique,  \* registry.shreds.len()
  read_shreds, read_slots, read_samples,  \* what compute_stats has read
  logged,        \* what write_log has written
  before         \* history: `heard` when the wait ended

readVars   == <<total_unique, read_shreds, read_slots, read_samples, logged>>
reportVars == <<step, segment, detached, readVars, before>>
vars       == <<measurementVars, reportVars>>

Live   == INSTANCE Stats
Seen   == INSTANCE Stats WITH shreds <- read_shreds, slots <- read_slots,
                              grpc_latencies <- read_samples

-----------------------------------------------------------------------------
Aggregate ==
  /\ step = "recording" \/ detached
  /\ MeasurementNext
  /\ UNCHANGED reportVars

(* The join: an aggregator that has ended has nothing half recorded. *)
EndWait ==
  /\ step = "recording" /\ step' = "counting"
  /\ \/ pending = {} /\ detached' = FALSE
     \/ detached' = TRUE
  /\ before' = heard
  /\ UNCHANGED <<measurementVars, segment, readVars>>

CountShreds ==
  /\ step = "counting" /\ step' = "shreds"
  /\ total_unique' = Cardinality(DOMAIN shreds)
  /\ UNCHANGED <<measurementVars, segment, detached, read_shreds, read_slots,
                 read_samples, logged, before>>

(* Mutant: an iteration keeps its last segment only. *)
OnlySegment(read, map, segment_of) ==
  [k \in {j \in DOMAIN map : segment_of[j] = segment} |-> map[k]]

(* What an iteration over the map has read after one segment more. *)
WithSegment(read, map, segment_of) ==
  LET found == {k \in DOMAIN map : segment_of[k] = segment} IN
  [k \in DOMAIN read \cup found |-> IF k \in found THEN map[k] ELSE read[k]]

IterateThen(next) ==
  IF segment = Segments
    THEN segment' = 1 /\ step' = next
    ELSE segment' = segment + 1 /\ UNCHANGED step

ReadShreds ==
  /\ step = "shreds" /\ IterateThen("slots")
  /\ read_shreds' = WithSegment(read_shreds, shreds, ShredSegment)
  /\ UNCHANGED <<measurementVars, detached, total_unique, read_slots, read_samples,
                 logged, before>>

ReadSlots ==
  /\ step = "slots" /\ IterateThen("samples")
  /\ read_slots' = WithSegment(read_slots, slots, SlotSegment)
  /\ UNCHANGED <<measurementVars, detached, total_unique, read_shreds, read_samples,
                 logged, before>>

(* One get per source. *)
ReadSamples ==
  /\ step = "samples" /\ step' = "log"
  /\ read_samples' = grpc_latencies
  /\ UNCHANGED <<measurementVars, segment, detached, total_unique, read_shreds,
                 read_slots, logged, before>>

WriteLog ==
  /\ step = "log" /\ IterateThen("done")
  /\ logged' = WithSegment(logged, shreds, ShredSegment)
  /\ UNCHANGED <<measurementVars, detached, total_unique, read_shreds, read_slots,
                 read_samples, before>>

Report == CountShreds \/ ReadShreds \/ ReadSlots \/ ReadSamples \/ WriteLog

Init ==
  /\ MeasurementInit
  /\ step = "recording" /\ segment = 1 /\ detached = FALSE /\ total_unique = 0
  /\ read_shreds = NoMap /\ read_slots = NoMap /\ read_samples = NoMap /\ logged = NoMap
  /\ before = {}

Next == Aggregate \/ EndWait \/ Report

Spec == Init /\ [][Next]_vars

-----------------------------------------------------------------------------
(* A line of the log: one entry per source, its earliest arrival. *)

LoggedFrom(source, key) ==
  {i \in DOMAIN logged[key].arrivals : logged[key].arrivals[i].source = source}

(* Mutant: the arrival of the source that was processed first. *)
LogArrivalKeepsFirst(source, key) ==
  LET arrivals == logged[key].arrivals  mine == LoggedFrom(source, key) IN
  arrivals[CHOOSE i \in mine : \A j \in mine : i <= j].at

LogArrival(source, key) ==
  LET arrivals == logged[key].arrivals  mine == LoggedFrom(source, key) IN
  CHOOSE at \in {arrivals[i].at : i \in mine} : \A i \in mine : at <= arrivals[i].at

DeltaNs(source, key) == Live!Since(LogArrival(source, key), logged[key].first_seen)

-----------------------------------------------------------------------------
HeardKeys(source, events) == {e.key : e \in {f \in events : f.source = source}}

ShredsRead == step \in {"slots", "samples", "log", "done"}

(* stats.rs 135-166 measures against the arrival that was processed first, *)
(* not against the earliest one.  Even so the source that was truly first  *)
(* is counted as a winner and no source is reported later than it was.     *)
ReportIsGenerous ==
  \A key \in DOMAIN shreds :
    LET events == {e \in heard : e.key = key}
        first  == Live!Min({e.received_at : e \in events})
    IN
    /\ \A e \in events : e.received_at = first => Live!Won(e.source, key)
    /\ \A source \in Sources :
         key \in Live!ReceivedKeys(source) =>
           Live!Delta(source, key) <= Live!FirstFrom(source, key) - first

(* stats.rs 111-166: a report that is computed while events are recorded   *)
(* has every shred that a source had delivered when the wait ended, and    *)
(* none that it had not delivered by now; once joined it is exact.         *)
ReportIsCurrent ==
  ShredsRead =>
    \A source \in Sources :
      /\ HeardKeys(source, before) \subseteq Seen!ReceivedKeys(source)
      /\ Seen!ReceivedKeys(source) \subseteq HeardKeys(source, heard)

(* stats.rs 111-166: received and missed shreds of a source add up to the  *)
(* number of shreds, duplicates to what it delivered.  With an aggregator  *)
(* left behind the number is read first, so they add up to at least it     *)
(* (and the printed coverage may exceed 100%).                             *)
CoverageAddsUp ==
  ShredsRead =>
    \A source \in Sources :
      LET all == Seen!Received(source) + Seen!Missed(source) IN
      /\ all >= total_unique
      /\ ~detached => /\ all = total_unique
                      /\ Seen!Received(source) + Seen!Dupes(source) = counted[source]

(* logfile.rs 44-71 and stats.rs 135-166 derive the same facts from two    *)
(* passes over the registry: the log lists every arrival that the table    *)
(* counted, with the same first source and no larger a delta, so a shred   *)
(* won in the table is won in the log.                                     *)
LogConfirmsReport ==
  step = "done" =>
    \A source \in Sources : \A key \in Seen!ReceivedKeys(source) :
      /\ key \in DOMAIN logged /\ LoggedFrom(source, key) # {}
      /\ logged[key].first_source = read_shreds[key].first_source
      /\ DeltaNs(source, key) <= Seen!Delta(source, key)
      /\ ~detached => DeltaNs(source, key) = Seen!Delta(source, key)

(* The given share of the source's shreds, and no smaller latency's but    *)
(* where the rank may round up: there the next rank at most.               *)
IsRank(source, p, value) ==
  LET latencies == Seen!Latencies(source)
      within    == {key \in DOMAIN latencies : latencies[key] <= value}
      below     == {key \in DOMAIN latencies : latencies[key] < value}
      n         == Cardinality(DOMAIN latencies)
  IN DOMAIN latencies # {} =>
       /\ Seen!Tenths * Cardinality(within) >= n * p
       /\ Seen!Tenths * Cardinality(below) <= n * p
       /\ ~Seen!RoundsUp(n, p) => Seen!Tenths * Cardinality(below) < n * p

(* stats.rs 68-74: no percentile is a latency that fewer shreds of the     *)
(* source stay within than the given share, and none is larger than it     *)
(* must be, but for p99.9 of a whole number of thousands: its rank in f64  *)
(* may be one too high, never two and never beyond the list.               *)
PercentilesAreRanks ==
  ShredsRead =>
    \A source \in Sources, p \in {500, 900, 950, 990, 999} :
      \A value \in Seen!Percentiles(Seen!Latencies(source), p) : IsRank(source, p, value)

(* stats.rs 184-201: once joined, the slots of an entry source are those   *)
(* it had events for, and its latency in a slot is at least the time from  *)
(* any shred of the slot to its first event: it is never flattered by the  *)
(* order in which shreds and slot events were processed.                   *)
EntriesAreHonest ==
  step \in {"samples", "log", "done"} /\ ~detached =>
    \A source \in Sources :
      /\ Seen!SlotsSeen(source) = {e.slot : e \in {f \in heardSlots : f.source = source}}
      /\ \A slot \in Seen!SlotsSeen(source) :
           LET first == Seen!Min({e.received_at : e \in EntriesOf(source, slot)}) IN
           \A e \in ShredsOf(slot) :
             Seen!EntryLatencies(source)[slot] >= Seen!Since(first, e.received_at)
=============================================================================
