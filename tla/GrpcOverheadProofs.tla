------------------------- MODULE GrpcOverheadProofs -------------------------
(***************************************************************************)
(* The overhead samples: what is remembered is bounded and no sample       *)
(* overstates the overhead, for any slots, window and time, however often  *)
(* the stream is lost.                                                     *)
(***************************************************************************)
EXTENDS GrpcOverhead, FiniteSetTheorems, TLAPS

(* Entries carry times of the past. *)
EntriesOK ==
  \A e \in entries : e.slot \in Slots /\ e.at \in 0..clock

(* While connected, the latest entry of a remembered slot is remembered. *)
LatestIsKept ==
  connected =>
    \A s \in DOMAIN entry_map :
      \E latest \in entry_map[s] : \A e \in entries : e.slot = s => e.at <= latest

NearHighest ==
  \A s \in DOMAIN entry_map : s <= max_slot_seen /\ s + Window >= max_slot_seen

OverheadInv == TypeOK /\ EntriesOK /\ LatestIsKept /\ NearHighest /\ NeverOverstated

-----------------------------------------------------------------------------
LEMMA InitHolds == Init => OverheadInv
<1> SUFFICES ASSUME Init PROVE OverheadInv
  OBVIOUS
<1>1. /\ entry_map = NoMap /\ max_slot_seen = 0 /\ connected = FALSE
      /\ clock = 0 /\ entries = {} /\ last_sample = NoSample
  BY DEF Init
<1>2. DOMAIN entry_map = {}
  BY <1>1 DEF NoMap
<1>3. TypeOK
  <2>1. last_sample \in [slot : Slots \cup {0}, latency : Nat, truth : Nat]
    BY <1>1 DEF NoSample
  <2>2. clock \in 0..MaxClock
    BY <1>1, OverheadAssumption
  <2>3. QED
    BY <1>1, <1>2, <2>1, <2>2 DEF TypeOK
<1>4. EntriesOK /\ LatestIsKept /\ NearHighest
  BY <1>1, <1>2 DEF EntriesOK, LatestIsKept, NearHighest
<1>5. NeverOverstated
  BY <1>1 DEF NeverOverstated, NoSample
<1>6. QED
  BY <1>3, <1>4, <1>5 DEF OverheadInv

LEMMA AdvanceFacts ==
  ASSUME TypeOK, Advance
  PROVE  clock' \in 0..MaxClock /\ clock \in Nat /\ clock' \in Nat /\ clock <= clock'
BY OverheadAssumption DEF TypeOK, Advance

(* The maximum of the remembered times is the latest entry. *)
LEMMA BaselineIsLatest ==
  ASSUME TypeOK, EntriesOK, LatestIsKept, connected, NEW s \in DOMAIN entry_map
  PROVE  /\ Baseline(s) \in 0..clock
         /\ \A e \in entries : e.slot = s => e.at <= Baseline(s)
<1>1. PICK latest \in entry_map[s] : \A e \in entries : e.slot = s => e.at <= latest
  BY DEF LatestIsKept
<1>2. \A t \in entry_map[s] : [slot |-> s, at |-> t] \in entries /\ t \in 0..clock
  <2> SUFFICES ASSUME NEW t \in entry_map[s]
               PROVE  [slot |-> s, at |-> t] \in entries /\ t \in 0..clock
    OBVIOUS
  <2> DEFINE e == [slot |-> s, at |-> t]
  <2>1. e \in entries
    BY DEF TypeOK
  <2>2. e.at = t
    OBVIOUS
  <2> HIDE DEF e
  <2>3. t \in 0..clock
    BY <2>1, <2>2 DEF EntriesOK
  <2>4. QED
    BY <2>1, <2>3 DEF e
<1>3. \A t \in entry_map[s] : t <= latest
  <2> SUFFICES ASSUME NEW t \in entry_map[s] PROVE t <= latest
    OBVIOUS
  <2> DEFINE e == [slot |-> s, at |-> t]
  <2>1. e \in entries
    BY <1>2
  <2>2. e.slot = s /\ e.at = t
    OBVIOUS
  <2> HIDE DEF e
  <2>3. QED
    BY <1>1, <2>1, <2>2
<1>4. \A t \in entry_map[s] : t \in Nat /\ latest \in Nat /\ latest >= t
  <2>1. clock \in Nat
    BY OverheadAssumption DEF TypeOK
  <2>2. \A n \in 0..clock : n \in Nat
    BY <2>1
  <2>3. \A t \in entry_map[s] : t \in Nat
    BY <1>2, <2>2
  <2>4. QED
    BY <1>3, <2>3
<1>5. /\ Baseline(s) \in entry_map[s]
      /\ \A t \in entry_map[s] : Baseline(s) >= t
  BY <1>4 DEF Baseline, Max
<1>6. Baseline(s) = latest
  BY <1>4, <1>5
<1>7. QED
  BY <1>1, <1>2, <1>6

(* A smaller window of a map is that map on fewer slots. *)
LEMMA RetainedFacts ==
  ASSUME NEW slot, NEW map, NEW highest, NEW new, new = Retained(slot, map, highest)
  PROVE  /\ DOMAIN new \subseteq DOMAIN map
         /\ \A s \in DOMAIN new : new[s] = map[s]
         /\ highest > Window => \A s \in DOMAIN new : s >= highest - Window
BY DEF Retained

LEMMA RememberFacts ==
  ASSUME NEW slot, NEW at
  PROVE  /\ DOMAIN Remember(slot, at) = DOMAIN entry_map \cup {slot}
         /\ at \in Remember(slot, at)[slot]
         /\ \A t \in Remember(slot, at)[slot] :
              t = at \/ (slot \in DOMAIN entry_map /\ t \in entry_map[slot])
         /\ \A s \in DOMAIN entry_map \ {slot} : Remember(slot, at)[s] = entry_map[s]
BY DEF Remember

LEMMA EntryKeeps ==
  ASSUME OverheadInv, NEW slot \in Slots, Entry(slot)
  PROVE  OverheadInv'
<1> DEFINE entry == [slot |-> slot, at |-> clock']
<1>1. TypeOK /\ EntriesOK /\ LatestIsKept /\ NearHighest /\ NeverOverstated
  BY DEF OverheadInv
<1>2. /\ entries' = entries \cup {entry} /\ connected' = connected /\ last_sample' = last_sample
      /\ Advance
  BY DEF Entry
<1>3. clock' \in 0..MaxClock /\ clock \in Nat /\ clock' \in Nat /\ clock <= clock'
  BY <1>1, <1>2, AdvanceFacts
<1>4. entry.slot = slot /\ entry.at = clock' /\ slot \in Nat
  BY OverheadAssumption
<1>5. EntriesOK'
  <2> SUFFICES ASSUME NEW e \in entries' PROVE e.slot \in Slots /\ e.at \in 0..clock'
    BY DEF EntriesOK
  <2>1. CASE e = entry
    BY <1>3, <1>4, <2>1
  <2>2. CASE e \in entries
    BY <1>1, <1>3, <2>2 DEF EntriesOK
  <2>3. QED
    BY <1>2, <2>1, <2>2
<1>6. NeverOverstated'
  BY <1>1, <1>2 DEF NeverOverstated
<1>7. CASE ~connected
  <2>1. entry_map' = entry_map /\ max_slot_seen' = max_slot_seen
    BY <1>7 DEF Entry
  <2>2. TypeOK'
    BY <1>1, <1>2, <1>3, <2>1 DEF TypeOK
  <2>3. LatestIsKept' /\ NearHighest'
    BY <1>1, <1>2, <1>7, <2>1 DEF LatestIsKept, NearHighest
  <2>4. QED
    BY <1>5, <1>6, <2>2, <2>3 DEF OverheadInv
<1>8. CASE connected
  <2> DEFINE map == Remember(slot, clock')
  <2>1. max_slot_seen' = Highest(slot) /\ entry_map' = Retained(slot, map, Highest(slot))
    BY <1>8 DEF Entry
  <2>2. /\ DOMAIN map = DOMAIN entry_map \cup {slot} /\ clock' \in map[slot]
        /\ \A t \in map[slot] : t = clock' \/ (slot \in DOMAIN entry_map /\ t \in entry_map[slot])
        /\ \A s \in DOMAIN entry_map \ {slot} : map[s] = entry_map[s]
    BY RememberFacts
  <2> HIDE DEF map
  <2>3. /\ DOMAIN entry_map' \subseteq DOMAIN map
        /\ \A s \in DOMAIN entry_map' : entry_map'[s] = map[s]
        /\ Highest(slot) > Window => \A s \in DOMAIN entry_map' : s >= Highest(slot) - Window
    BY <2>1, RetainedFacts
  <2>4. /\ Highest(slot) \in {slot, max_slot_seen} /\ Highest(slot) \in Nat
        /\ slot <= Highest(slot) /\ max_slot_seen <= Highest(slot) /\ max_slot_seen \in Nat
    BY <1>1, <1>4, OverheadAssumption DEF Highest, TypeOK
  <2>5. DOMAIN entry_map' \subseteq Slots /\ \A s \in DOMAIN entry_map' : s \in Nat
    BY <1>1, <2>2, <2>3, OverheadAssumption DEF TypeOK
  <2>6. ASSUME NEW s \in DOMAIN entry_map'
        PROVE  entry_map'[s] # {} /\ \A t \in entry_map'[s] : [slot |-> s, at |-> t] \in entries'
    BY <1>1, <1>2, <2>2, <2>3, <2>6 DEF TypeOK
  <2>7. TypeOK'
    BY <1>1, <1>2, <1>3, <2>1, <2>4, <2>5, <2>6 DEF TypeOK
  <2>8. ASSUME NEW s \in DOMAIN entry_map'
        PROVE  \E latest \in entry_map'[s] : \A e \in entries' : e.slot = s => e.at <= latest
    <3>1. CASE s = slot
      <4>1. clock' \in entry_map'[s]
        BY <2>2, <2>3, <2>8, <3>1
      <4>2. \A e \in entries' : e.at <= clock'
        BY <1>3, <1>5 DEF EntriesOK
      <4>3. QED
        BY <4>1, <4>2
    <3>2. CASE s # slot
      <4>1. s \in DOMAIN entry_map /\ entry_map'[s] = entry_map[s]
        BY <2>2, <2>3, <2>8, <3>2
      <4>2. \A e \in entries' : e.slot = s => e \in entries
        BY <1>2, <1>4, <3>2
      <4>3. QED
        BY <1>1, <1>8, <4>1, <4>2 DEF LatestIsKept
    <3>3. QED
      BY <3>1, <3>2
  <2>9. LatestIsKept'
    BY <2>8 DEF LatestIsKept
  <2>10. NearHighest'
    <3> SUFFICES ASSUME NEW s \in DOMAIN entry_map'
                 PROVE  s <= Highest(slot) /\ s + Window >= Highest(slot)
      BY <2>1 DEF NearHighest
    <3>1. s \in Nat /\ Window \in Nat
      BY <2>5, OverheadAssumption
    <3>2. s <= Highest(slot)
      <4>1. CASE s = slot
        BY <2>4, <4>1
      <4>2. CASE s \in DOMAIN entry_map
        <5>1. s <= max_slot_seen
          BY <1>1, <4>2 DEF NearHighest
        <5>2. QED
          BY <2>4, <3>1, <5>1
      <4>3. QED
        BY <2>2, <2>3, <4>1, <4>2
    <3>3. s + Window >= Highest(slot)
      BY <2>3, <2>4, <3>1
    <3>4. QED
      BY <3>2, <3>3
  <2>11. QED
    BY <1>5, <1>6, <2>7, <2>9, <2>10 DEF OverheadInv
<1>9. QED
  BY <1>7, <1>8

LEMMA LatencyFacts ==
  ASSUME NEW now \in Nat, NEW later \in Nat, now <= later,
         NEW base \in 0..now, NEW at \in 0..now, at <= base
  PROVE  later - base \in Nat /\ later - at \in Nat /\ later - base <= later - at
OBVIOUS

LEMMA AccountKeeps ==
  ASSUME OverheadInv, NEW cause \in entries, Account(cause)
  PROVE  OverheadInv'
<1>1. TypeOK /\ EntriesOK /\ LatestIsKept /\ NearHighest /\ NeverOverstated
  BY DEF OverheadInv
<1>2. /\ Advance /\ connected /\ connected' = connected /\ entry_map' = entry_map
      /\ max_slot_seen' = max_slot_seen /\ entries' = entries
  BY DEF Account
<1>3. clock' \in 0..MaxClock /\ clock \in Nat /\ clock' \in Nat /\ clock <= clock'
  BY <1>1, <1>2, AdvanceFacts
<1>4. EntriesOK' /\ LatestIsKept' /\ NearHighest'
  BY <1>1, <1>2, <1>3 DEF EntriesOK, LatestIsKept, NearHighest
<1>5. /\ last_sample' \in [slot : Slots \cup {0}, latency : Nat, truth : Nat]
      /\ last_sample'.latency <= last_sample'.truth
  <2>1. CASE cause.slot \notin DOMAIN entry_map
    BY <1>1, <2>1 DEF Account, TypeOK, NeverOverstated
  <2>2. CASE cause.slot \in DOMAIN entry_map
    <3> DEFINE base == Baseline(cause.slot)
    <3>1. base \in 0..clock /\ cause.at <= base
      BY <1>1, <1>2, <2>2, BaselineIsLatest
    <3>2. cause.slot \in Slots /\ cause.at \in 0..clock
      BY <1>1 DEF EntriesOK
    <3>3. last_sample' = [slot |-> cause.slot, latency |-> clock' - base,
                          truth |-> clock' - cause.at]
      BY <2>2 DEF Account
    <3> HIDE DEF base
    <3>4. /\ clock' - base \in Nat /\ clock' - cause.at \in Nat
          /\ clock' - base <= clock' - cause.at
      BY <1>3, <3>1, <3>2, LatencyFacts
    <3>5. QED
      BY <3>2, <3>3, <3>4
  <2>3. QED
    BY <2>1, <2>2
<1>6. TypeOK' /\ NeverOverstated'
  BY <1>1, <1>2, <1>3, <1>5 DEF TypeOK, NeverOverstated
<1>7. QED
  BY <1>4, <1>6 DEF OverheadInv

LEMMA NextKeeps == OverheadInv /\ [Next]_vars => OverheadInv'
<1> SUFFICES ASSUME OverheadInv, [Next]_vars PROVE OverheadInv'
  OBVIOUS
<1>1. CASE Connect
  <2>1. /\ entry_map' = NoMap /\ max_slot_seen' = 0 /\ connected' = TRUE
        /\ clock' = clock /\ entries' = entries /\ last_sample' = last_sample
    BY <1>1 DEF Connect
  <2>2. DOMAIN entry_map' = {}
    BY <2>1 DEF NoMap
  <2>3. QED
    BY <2>1, <2>2 DEF OverheadInv, TypeOK, EntriesOK, LatestIsKept, NearHighest, NeverOverstated
<1>2. CASE Disconnect
  BY <1>2 DEF Disconnect, OverheadInv, TypeOK, EntriesOK, LatestIsKept, NearHighest,
              NeverOverstated
<1>3. ASSUME NEW slot \in Slots, Entry(slot) PROVE OverheadInv'
  BY <1>3, EntryKeeps
<1>4. ASSUME NEW cause \in entries, Account(cause) PROVE OverheadInv'
  BY <1>4, AccountKeeps
<1>5. CASE UNCHANGED vars
  BY <1>5 DEF vars, OverheadInv, TypeOK, EntriesOK, LatestIsKept, NearHighest, NeverOverstated
<1>6. QED
  BY <1>1, <1>2, <1>3, <1>4, <1>5 DEF Next

LEMMA OverheadInvHolds == Spec => []OverheadInv
BY InitHolds, NextKeeps, PTL DEF Spec

(* The slots near the highest one are an interval. *)
LEMMA FewSlots ==
  ASSUME NEW S \in SUBSET Nat, NEW highest \in Nat,
         \A s \in S : s <= highest /\ s + Window >= highest
  PROVE  IsFiniteSet(S) /\ Cardinality(S) <= Window + 1
<1> DEFINE near == (highest - Window)..highest
<1>1. Window \in Nat /\ highest - Window \in Int
  BY OverheadAssumption
<1>2. S \subseteq near
  BY <1>1
<1>3. IsFiniteSet(near) /\ Cardinality(near) = highest - (highest - Window) + 1
  BY <1>1, FS_Interval
<1>4. IsFiniteSet(S) /\ Cardinality(S) <= Cardinality(near)
  BY <1>2, <1>3, FS_Subset
<1>5. QED
  BY <1>1, <1>3, <1>4

-----------------------------------------------------------------------------
(* What is remembered are entries that arrived; no slot without any.       *)
THEOREM TypeCorrect == Spec => []TypeOK
BY OverheadInvHolds, PTL DEF OverheadInv

(* The map never holds more than Window + 1 slots, also when late entries  *)
(* bring slots that were forgotten back.                                   *)
THEOREM MemoryBounded == Spec => []MemoryIsBounded
<1>1. OverheadInv => MemoryIsBounded
  <2> SUFFICES ASSUME OverheadInv PROVE MemoryIsBounded
    OBVIOUS
  <2>1. Slots \cup {0} \subseteq Nat
    BY OverheadAssumption
  <2>2. DOMAIN entry_map \in SUBSET Nat /\ max_slot_seen \in Nat
    BY <2>1 DEF OverheadInv, TypeOK
  <2>3. \A s \in DOMAIN entry_map : s <= max_slot_seen /\ s + Window >= max_slot_seen
    BY DEF OverheadInv, NearHighest
  <2>4. QED
    BY <2>2, <2>3, FewSlots DEF MemoryIsBounded
<1>2. QED
  BY <1>1, OverheadInvHolds, PTL

(* No sample overstates the overhead, whatever entries were missed while   *)
(* the stream was down or forgotten since.                                 *)
THEOREM SamplesNeverOverstate == Spec => []NeverOverstated
BY OverheadInvHolds, PTL DEF OverheadInv
=============================================================================
