----------------------------- MODULE Measurement -----------------------------
(***************************************************************************)
(* The aggregator's work on the registry under any order of events.  It    *)
(* hands events to the registry in the order in which it takes them from   *)
(* the channels, which is not the order of their timestamps: listeners     *)
(* run concurrently, kernel timestamps are taken before an event is        *)
(* queued, and select! picks a channel at random.                          *)
(*                                                                         *)
(* record_shred is two operations on two maps, and others may read between *)
(* them: `pending` holds the event whose second operation is due.  The     *)
(* history variables keep what has been recorded, so that the properties   *)
(* can compare the registry with the truth.                                *)
(***************************************************************************)
EXTENDS Registry

CONSTANTS
  Instants,   \* timestamps that events may carry
  MaxEvents   \* bound of the number of recorded events

ASSUME MeasurementAssumption == Instants \subseteq Nat /\ MaxEvents \in Nat

VARIABLES
  pending,     \* the event that is in `shreds` and not yet in `slots`, if any
  heard,       \* the shred events recorded
  heardSlots,  \* the slot events recorded
  counted,     \* source -> number of shred events recorded
  taken        \* number of events recorded

historyVars     == <<heard, heardSlots, counted, taken>>
measurementVars == <<registryVars, pending, historyVars>>

MeasurementInit ==
  /\ RegistryInit
  /\ pending = {}
  /\ heard = {} /\ heardSlots = {} /\ counted = [s \in Sources |-> 0] /\ taken = 0

TakeOne == pending = {} /\ taken < MaxEvents /\ taken' = taken + 1

(* record_shred up to its second statement. *)
TakeShred(event) ==
  /\ TakeOne
  /\ UpsertShred(event) /\ pending' = {event}
  /\ heard' = heard \cup {event}
  /\ counted' = [counted EXCEPT ![event.source] = @ + 1]
  /\ UNCHANGED <<slots, grpc_latencies, drops, heardSlots>>

FinishShred(event) ==
  /\ event \in pending /\ pending' = {}
  /\ LowerSlot(event.key.slot, event.received_at)
  /\ UNCHANGED <<shreds, grpc_latencies, drops, historyVars>>

TakeSlotEvent(event) ==
  /\ TakeOne
  /\ RecordSlotEvent(event)
  /\ heardSlots' = heardSlots \cup {event}
  /\ UNCHANGED <<pending, heard, counted>>

TakeSample(source, latency_ns) ==
  /\ TakeOne
  /\ RecordGrpcLatency(source, latency_ns)
  /\ UNCHANGED <<pending, heard, heardSlots, counted>>

ShredInputs == [source : Sources, key : ShredKey, received_at : Instants]
SlotInputs  == [source : Sources, slot : Slots, received_at : Instants]

MeasurementNext ==
  \/ \E event \in ShredInputs : TakeShred(event) \/ FinishShred(event)
  \/ \E event \in SlotInputs : TakeSlotEvent(event)
  \/ \E source \in Sources : TakeSample(source, 0)

MeasurementSpec == MeasurementInit /\ [][MeasurementNext]_measurementVars

-----------------------------------------------------------------------------
ShredsOf(slot) == {e \in heard : e.key.slot = slot}
EventsOf(slot) == {e \in heardSlots : e.slot = slot}
EntriesOf(source, slot) == {e \in heardSlots : e.source = source /\ e.slot = slot}
Settled == heard \ pending

(* Type invariant of the registry and its history; the slot of a shred has *)
(* a record, but for the shred whose second map operation is due.          *)
MeasurementTypeOK ==
  /\ RegistryTypeOK
  /\ heard \subseteq ShredInputs /\ heardSlots \subseteq SlotInputs
  /\ pending \subseteq heard /\ \A e, f \in pending : e = f
  /\ \A key \in DOMAIN shreds :
       key.slot \in DOMAIN slots \/ \E e \in pending : e.key = key
  /\ counted \in [Sources -> 0..MaxEvents] /\ taken \in 0..MaxEvents

(* The baseline of the slot latencies (registry.rs 122-134): it is the     *)
(* time of a real event of the slot and no shred of the slot came before   *)
(* it, in whatever order shreds and slot events were processed; only a     *)
(* shred whose second map operation is due may have come before it.        *)
SlotFloor ==
  \A slot \in DOMAIN slots :
    /\ \E e \in ShredsOf(slot) \cup EventsOf(slot) :
         slots[slot].first_shred_at = e.received_at
    /\ \A e \in Settled :
         e.key.slot = slot => slots[slot].first_shred_at <= e.received_at

(* registry.rs 136-156: a source's entry of a slot is its earliest event   *)
(* for the slot, and it has an entry exactly when it had an event.         *)
EntryIsEarliest ==
  \A source \in Sources, slot \in Slots :
    IF EntriesOf(source, slot) = {}
      THEN slot \in DOMAIN slots => source \notin DOMAIN slots[slot].entry_arrivals
      ELSE /\ slot \in DOMAIN slots /\ source \in DOMAIN slots[slot].entry_arrivals
           /\ \E e \in EntriesOf(source, slot) :
                slots[slot].entry_arrivals[source] = e.received_at
           /\ \A e \in EntriesOf(source, slot) :
                slots[slot].entry_arrivals[source] <= e.received_at
=============================================================================
