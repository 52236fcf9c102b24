--------------------------- MODULE LeaderSchedule ---------------------------
(***************************************************************************)
(* fetch_leader_slots (src/src/leader.rs): two RPC calls, one for the      *)
(* validator's slot indices in the current epoch and one for the position  *)
(* of that epoch, while the chain goes on.  The result is the leader       *)
(* filter of the whole run (LeaderSlots of RunControl).                    *)
(***************************************************************************)
EXTENDS Naturals

CONSTANTS
  EpochLength,  \* slots per epoch
  LastSlot      \* bound of the chain

ASSUME ScheduleAssumption == EpochLength \in Nat \ {0} /\ LastSlot \in Nat

VARIABLES
  slot,          \* the chain: the current slot
  leads,         \* the slots that the validator leads, of all epochs
  fetch,         \* "schedule", "epoch", then "loaded" or "failed"
  slot_indices,  \* the answer of getLeaderSchedule
  leader_slots,  \* the result
  asked          \* history: the slot at the time of getLeaderSchedule

vars == <<slot, leads, fetch, slot_indices, leader_slots, asked>>

EpochOf(s)    == s \div EpochLength
IndexOf(s)    == s % EpochLength
LedIn(epoch)  == {s \in leads : EpochOf(s) = epoch}

(* The validator's slots of the epoch of s. *)
Schedule(s) == LedIn(EpochOf(s))

-----------------------------------------------------------------------------
SlotPasses ==
  /\ slot < LastSlot /\ slot' = slot + 1
  /\ UNCHANGED <<leads, fetch, slot_indices, leader_slots, asked>>

(* Connection refused, an RPC error, an answer that does not parse. *)
CallFails ==
  /\ fetch \in {"schedule", "epoch"} /\ fetch' = "failed"
  /\ UNCHANGED <<slot, leads, slot_indices, leader_slots, asked>>

GetLeaderSchedule ==
  /\ fetch = "schedule"
  /\ slot_indices' = {IndexOf(s) : s \in Schedule(slot)}
  /\ fetch' = IF slot_indices' = {} THEN "failed" ELSE "epoch"
  /\ asked' = slot
  /\ UNCHANGED <<slot, leads, leader_slots>>

(* Mutant: the indices count from the current slot. *)
AbsoluteFromNow(absolute_slot, slot_index) == {absolute_slot + i : i \in slot_indices}

(* The indices are offsets from the epoch's first slot. *)
Absolute(absolute_slot, slot_index) ==
  {absolute_slot - slot_index + i : i \in slot_indices}

Upcoming(found, current_slot) == {s \in found : s > current_slot}

(* Mutant: the slots are stored before the check of what is upcoming. *)
GetEpochInfoStoresFirst ==
  /\ fetch = "epoch" /\ leader_slots' = Absolute(slot, IndexOf(slot))
  /\ fetch' = IF Upcoming(leader_slots', slot) = {} THEN "failed" ELSE "loaded"
  /\ UNCHANGED <<slot, leads, slot_indices, asked>>

GetEpochInfo ==
  LET found == Absolute(slot, IndexOf(slot)) IN
  /\ fetch = "epoch"
  /\ IF Upcoming(found, slot) = {}
       THEN fetch' = "failed" /\ UNCHANGED leader_slots
       ELSE fetch' = "loaded" /\ leader_slots' = found
  /\ UNCHANGED <<slot, leads, slot_indices, asked>>

Init ==
  /\ slot \in 0..LastSlot /\ leads \in SUBSET (0..LastSlot)
  /\ fetch = "schedule" /\ slot_indices = {} /\ leader_slots = {} /\ asked = 0

Next == SlotPasses \/ CallFails \/ GetLeaderSchedule \/ GetEpochInfo

Spec == Init /\ [][Next]_vars

-----------------------------------------------------------------------------
(* Type invariant; a fetch that fails leaves no filter behind. *)
TypeOK ==
  /\ slot \in 0..LastSlot /\ leads \subseteq 0..LastSlot
  /\ fetch \in {"schedule", "epoch", "loaded", "failed"}
  /\ slot_indices \subseteq 0..EpochLength - 1
  /\ leader_slots \subseteq 0..LastSlot + EpochLength
  /\ fetch = "loaded" <=> leader_slots # {}
  /\ asked \in 0..LastSlot

(* leader.rs 96-129: when both answers are of one epoch, the filter holds  *)
(* exactly the validator's slots of that epoch, and the run has at least   *)
(* one of them ahead of it.                                                *)
FilterIsSchedule ==
  [][fetch' = "loaded" /\ fetch # "loaded" /\ EpochOf(asked) = EpochOf(slot) =>
       leader_slots' = Schedule(slot) /\ \E s \in leads : s \in leader_slots' /\ s > slot]_vars

(* leader.rs 12-13, "return the set of slots assigned to `leader_pubkey`   *)
(* for the current epoch".                                                 *)
SlotsAreAssigned == fetch = "loaded" => leader_slots \subseteq leads
=============================================================================
