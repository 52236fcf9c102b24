------------------------------ MODULE Registry ------------------------------
(***************************************************************************)
(* The arrival database of a run (src/src/registry.rs): who delivered each *)
(* shred and when, the first arrival of every slot, the gRPC overhead      *)
(* samples and the drop counters.                                          *)
(*                                                                         *)
(* A DashMap or HashMap is a function whose domain is the set of its keys. *)
(* An Instant is a natural number.  A shred's index and type are one       *)
(* value: they only tell the shreds of a slot apart.                       *)
(***************************************************************************)
EXTENDS Naturals, Sequences

CONSTANTS
  Sources,  \* the SourceIds allocated at startup
  Slots,    \* slot numbers
  Indices   \* (index, shred_type) pairs

ASSUME RegistryAssumption == Slots \subseteq Nat

VARIABLES
  shreds,          \* ShredKey -> ShredRecord
  slots,           \* slot -> SlotRecord
  grpc_latencies,  \* source -> sequence of samples
  drops            \* source -> number of dropped events, 0 if it has no entry

registryVars == <<shreds, slots, grpc_latencies, drops>>

ShredKey    == [slot : Slots, index : Indices]
Arrival     == [source : Sources, at : Nat]
ShredEvent  == [source : Sources, key : ShredKey, received_at : Nat]
SlotEvent   == [source : Sources, slot : Slots, received_at : Nat]
ShredRecord == [first_seen : Nat, first_source : Sources, arrivals : Seq(Arrival)]

(* A map with keys in K and values in V. *)
IsMap(map, K, V) == DOMAIN map \subseteq K /\ map \in [DOMAIN map -> V]
NoMap == [k \in {} |-> 0]

Put(map, key, value) ==
  [k \in DOMAIN map \cup {key} |-> IF k = key THEN value ELSE map[k]]

IsSlotRecord(record) ==
  /\ record = [first_shred_at |-> record.first_shred_at,
               entry_arrivals |-> record.entry_arrivals]
  /\ record.first_shred_at \in Nat
  /\ IsMap(record.entry_arrivals, Sources, Nat)

Earlier(a, b) == IF b < a THEN b ELSE a

ArrivalOf(event) == [source |-> event.source, at |-> event.received_at]

RegistryInit ==
  /\ shreds = NoMap /\ slots = NoMap /\ grpc_latencies = NoMap
  /\ drops = [s \in Sources |-> 0]

-----------------------------------------------------------------------------
(* Mutant: an earlier arrival moves first_seen and not first_source. *)
UpsertShredLowersTime(event) ==
  shreds' = Put(shreds, event.key,
    IF event.key \in DOMAIN shreds
      THEN [shreds[event.key] EXCEPT !.arrivals = Append(@, ArrivalOf(event)),
                                     !.first_seen = Earlier(@, event.received_at)]
      ELSE [first_seen   |-> event.received_at,
            first_source |-> event.source,
            arrivals     |-> <<ArrivalOf(event)>>])

UpsertShred(event) ==
  shreds' = Put(shreds, event.key,
    IF event.key \in DOMAIN shreds
      THEN [shreds[event.key] EXCEPT !.arrivals = Append(@, ArrivalOf(event))]
      ELSE [first_seen   |-> event.received_at,
            first_source |-> event.source,
            arrivals     |-> <<ArrivalOf(event)>>])

(* Mutant: the slot keeps the arrival that was processed first. *)
LowerSlotKeepsFirst(slot, at) ==
  slots' = Put(slots, slot,
    IF slot \in DOMAIN slots
      THEN slots[slot]
      ELSE [first_shred_at |-> at, entry_arrivals |-> NoMap])

LowerSlot(slot, at) ==
  slots' = Put(slots, slot,
    IF slot \in DOMAIN slots
      THEN [slots[slot] EXCEPT !.first_shred_at = Earlier(@, at)]
      ELSE [first_shred_at |-> at, entry_arrivals |-> NoMap])

RecordShred(event) ==
  /\ UpsertShred(event)
  /\ LowerSlot(event.key.slot, event.received_at)
  /\ UNCHANGED <<grpc_latencies, drops>>

(* The earliest of a source's events for the slot. *)
EntryArrival(entries, event) ==
  Put(entries, event.source,
      IF event.source \in DOMAIN entries
        THEN Earlier(entries[event.source], event.received_at)
        ELSE event.received_at)

(* Mutant: the entry of a source is overwritten by its latest event. *)
RecordSlotEventOverwrites(event) ==
  /\ slots' = Put(slots, event.slot,
       IF event.slot \in DOMAIN slots
         THEN [slots[event.slot] EXCEPT
                 !.entry_arrivals = Put(@, event.source, event.received_at)]
         ELSE [first_shred_at |-> event.received_at,
               entry_arrivals |-> Put(NoMap, event.source, event.received_at)])
  /\ UNCHANGED <<shreds, grpc_latencies, drops>>

RecordSlotEvent(event) ==
  /\ slots' = Put(slots, event.slot,
       IF event.slot \in DOMAIN slots
         THEN [slots[event.slot] EXCEPT !.entry_arrivals = EntryArrival(@, event)]
         ELSE [first_shred_at |-> event.received_at,
               entry_arrivals |-> EntryArrival(NoMap, event)])
  /\ UNCHANGED <<shreds, grpc_latencies, drops>>

RecordGrpcLatency(source, latency_ns) ==
  /\ grpc_latencies' = Put(grpc_latencies, source,
       IF source \in DOMAIN grpc_latencies
         THEN Append(grpc_latencies[source], latency_ns)
         ELSE <<latency_ns>>)
  /\ UNCHANGED <<shreds, slots, drops>>

(* DropCounters::inc *)
Drop(source) ==
  /\ drops' = [drops EXCEPT ![source] = @ + 1]
  /\ UNCHANGED <<shreds, slots, grpc_latencies>>

-----------------------------------------------------------------------------
(* Type invariant of the registry.  The fields of a shred record agree: it *)
(* is first seen at its first arrival, from the source of that arrival.    *)
RegistryTypeOK ==
  /\ IsMap(shreds, ShredKey, ShredRecord)
  /\ \A key \in DOMAIN shreds :
       LET record == shreds[key] IN
       /\ record.arrivals # <<>>
       /\ Head(record.arrivals) = [source |-> record.first_source, at |-> record.first_seen]
  /\ DOMAIN slots \subseteq Slots /\ slots = [s \in DOMAIN slots |-> slots[s]]
  /\ \A s \in DOMAIN slots : IsSlotRecord(slots[s])
  /\ IsMap(grpc_latencies, Sources, Seq(Nat))
  /\ drops \in [Sources -> Nat]
=============================================================================
