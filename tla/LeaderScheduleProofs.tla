------------------------ MODULE LeaderScheduleProofs ------------------------
(***************************************************************************)
(* The leader filter is the validator's schedule, for any length of an     *)
(* epoch and any point of the chain at which the two answers are given.    *)
(***************************************************************************)
EXTENDS LeaderSchedule, TLAPS

(* The first slot of the epoch of a slot. *)
Start(s) == s - IndexOf(s)

LEMMA EpochFacts ==
  ASSUME NEW s \in Nat
  PROVE  /\ EpochOf(s) \in Nat /\ IndexOf(s) \in 0..EpochLength - 1
         /\ s = EpochLength * EpochOf(s) + IndexOf(s)
         /\ Start(s) \in Nat /\ Start(s) = EpochLength * EpochOf(s)
         /\ s = Start(s) + IndexOf(s)
<1>1. EpochLength \in Nat /\ EpochLength > 0
  BY ScheduleAssumption
<1>2. /\ s \div EpochLength \in Nat /\ s % EpochLength \in 0..EpochLength - 1
      /\ s = EpochLength * (s \div EpochLength) + (s % EpochLength)
  BY <1>1, SMTT(30)
<1>3. EpochLength * (s \div EpochLength) \in Nat
  BY <1>1, <1>2
<1>4. QED
  BY <1>1, <1>2, <1>3 DEF EpochOf, IndexOf, Start

(* Slots of one epoch are told apart by their indices, and only they are   *)
(* rebuilt from the epoch's first slot.                                    *)
LEMMA SameEpoch ==
  ASSUME NEW s \in Nat, NEW t \in Nat, EpochOf(s) = EpochOf(t)
  PROVE  Start(t) + IndexOf(s) = s
<1>1. Start(s) = EpochLength * EpochOf(s) /\ Start(t) = EpochLength * EpochOf(t)
  BY EpochFacts
<1>2. Start(s) = Start(t)
  BY <1>1, Zenon
<1>3. s = Start(s) + IndexOf(s)
  BY EpochFacts
<1>4. QED
  BY <1>2, <1>3, Zenon

-----------------------------------------------------------------------------
(* The first answer, until the second is there, is the schedule of its epoch. *)
IndicesOfAsked ==
  fetch = "epoch" => slot_indices = {IndexOf(s) : s \in Schedule(asked)}

ScheduleInv == TypeOK /\ IndicesOfAsked

LEMMA InitHolds == Init => ScheduleInv
BY ScheduleAssumption DEF Init, ScheduleInv, TypeOK, IndicesOfAsked

LEMMA FoundInRange ==
  ASSUME TypeOK
  PROVE  Absolute(slot, IndexOf(slot)) \subseteq 0..LastSlot + EpochLength
<1>1. slot \in 0..LastSlot /\ slot \in Nat /\ LastSlot \in Nat /\ EpochLength \in Nat
  BY ScheduleAssumption DEF TypeOK
<1>2. IndexOf(slot) \in 0..EpochLength - 1 /\ slot - IndexOf(slot) \in Nat
  BY <1>1, EpochFacts DEF Start
<1>3. ASSUME NEW i \in slot_indices
      PROVE  slot - IndexOf(slot) + i \in 0..LastSlot + EpochLength
  <2>1. i \in 0..EpochLength - 1
    BY DEF TypeOK
  <2>2. QED
    BY <1>1, <1>2, <2>1
<1>4. QED
  BY <1>3 DEF Absolute

LEMMA NextKeeps == ScheduleInv /\ [Next]_vars => ScheduleInv'
<1> SUFFICES ASSUME ScheduleInv, [Next]_vars PROVE ScheduleInv'
  OBVIOUS
<1> USE ScheduleAssumption
<1>1. CASE SlotPasses
  BY <1>1 DEF SlotPasses, ScheduleInv, TypeOK, IndicesOfAsked, Schedule, LedIn
<1>2. CASE CallFails
  BY <1>2 DEF CallFails, ScheduleInv, TypeOK, IndicesOfAsked, Schedule, LedIn
<1>3. CASE GetLeaderSchedule
  <2>1. slot_indices' \subseteq 0..EpochLength - 1
    <3>1. \A s \in Schedule(slot) : s \in Nat
      BY DEF Schedule, LedIn, ScheduleInv, TypeOK
    <3>2. \A s \in Schedule(slot) : IndexOf(s) \in 0..EpochLength - 1
      BY <3>1, EpochFacts
    <3>3. QED
      BY <1>3, <3>2 DEF GetLeaderSchedule
  <2>2. TypeOK'
    BY <1>3, <2>1 DEF GetLeaderSchedule, ScheduleInv, TypeOK
  <2>3. IndicesOfAsked'
    BY <1>3 DEF GetLeaderSchedule, IndicesOfAsked, Schedule, LedIn
  <2>4. QED
    BY <2>2, <2>3 DEF ScheduleInv
<1>4. CASE GetEpochInfo
  <2> DEFINE found == Absolute(slot, IndexOf(slot))
  <2>1. found \subseteq 0..LastSlot + EpochLength
    BY FoundInRange DEF ScheduleInv
  <2>2. /\ fetch = "epoch" /\ slot' = slot /\ leads' = leads /\ asked' = asked
        /\ slot_indices' = slot_indices
        /\ \/ fetch' = "failed" /\ leader_slots' = leader_slots
           \/ Upcoming(found, slot) # {} /\ fetch' = "loaded" /\ leader_slots' = found
    BY <1>4 DEF GetEpochInfo
  <2> HIDE DEF found
  <2>3. TypeOK'
    BY <2>1, <2>2 DEF ScheduleInv, TypeOK, Upcoming
  <2>4. IndicesOfAsked'
    BY <2>2 DEF IndicesOfAsked
  <2>5. QED
    BY <2>3, <2>4 DEF ScheduleInv
<1>5. CASE UNCHANGED vars
  BY <1>5 DEF vars, ScheduleInv, TypeOK, IndicesOfAsked, Schedule, LedIn
<1>6. QED
  BY <1>1, <1>2, <1>3, <1>4, <1>5 DEF Next

LEMMA ScheduleInvHolds == Spec => []ScheduleInv
BY InitHolds, NextKeeps, PTL DEF Spec

-----------------------------------------------------------------------------
(* The fetch has its types, and one that failed leaves no filter behind,   *)
(* also when it failed at its very last check.                             *)
THEOREM TypeCorrect == Spec => []TypeOK
BY ScheduleInvHolds, PTL DEF ScheduleInv

(* Two answers of one epoch, wherever in the epoch they were given, make a *)
(* filter of exactly the validator's slots, one of them still ahead.       *)
THEOREM FilterIsRight == Spec => FilterIsSchedule
<1> DEFINE Right ==
      fetch' = "loaded" /\ fetch # "loaded" /\ EpochOf(asked) = EpochOf(slot) =>
        leader_slots' = Schedule(slot) /\ \E s \in leads : s \in leader_slots' /\ s > slot
<1>1. ScheduleInv /\ [Next]_vars => [Right]_vars
  <2> SUFFICES ASSUME ScheduleInv, Next, fetch' = "loaded", fetch # "loaded",
                      EpochOf(asked) = EpochOf(slot)
               PROVE  /\ leader_slots' = Schedule(slot)
                      /\ \E s \in leads : s \in leader_slots' /\ s > slot
    OBVIOUS
  <2> DEFINE found == Absolute(slot, IndexOf(slot))
  <2>1. GetEpochInfo
    BY DEF Next, SlotPasses, CallFails, GetLeaderSchedule
  <2>2. fetch = "epoch" /\ leader_slots' = found /\ Upcoming(found, slot) # {}
    BY <2>1 DEF GetEpochInfo
  <2>3. slot_indices = {IndexOf(s) : s \in Schedule(slot)}
    BY <2>2 DEF ScheduleInv, IndicesOfAsked, Schedule
  <2>4. slot \in Nat /\ \A s \in Schedule(slot) : s \in Nat /\ EpochOf(s) = EpochOf(slot)
    BY DEF ScheduleInv, TypeOK, Schedule, LedIn
  <2>5. \A s \in Schedule(slot) : slot - IndexOf(slot) + IndexOf(s) = s
    BY <2>4, SameEpoch DEF Start
  <2>6. found = {slot - IndexOf(slot) + i : i \in {IndexOf(s) : s \in Schedule(slot)}}
    BY <2>3 DEF Absolute
  <2>7. found = Schedule(slot)
    <3>1. ASSUME NEW s \in found PROVE s \in Schedule(slot)
      <4>1. PICK t \in Schedule(slot) : s = slot - IndexOf(slot) + IndexOf(t)
        BY <2>6, <3>1
      <4>2. QED
        BY <2>5, <4>1
    <3>2. ASSUME NEW s \in Schedule(slot) PROVE s \in found
      <4>1. slot - IndexOf(slot) + IndexOf(s) \in found
        BY <2>6
      <4>2. QED
        BY <2>5, <4>1
    <3>3. QED
      BY <3>1, <3>2
  <2>8. QED
    BY <2>2, <2>7 DEF Upcoming, Schedule, LedIn
<1>2. QED
  BY <1>1, ScheduleInvHolds, PTL DEF Spec, FilterIsSchedule
=============================================================================
