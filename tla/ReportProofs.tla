---------------------------- MODULE ReportProofs ----------------------------
(***************************************************************************)
(* The registry records faithfully, in any order of events, and the report *)
(* is true to what was recorded: statistics and log, computed from maps    *)
(* that the aggregator may still be changing, for any sources, slots,      *)
(* segments, timestamps and number of events.                              *)
(*                                                                         *)
(* MeasurementInv is the inductive invariant of the registry on its own,   *)
(* baselines and entries of the slots included.  On top of it, ReportInv   *)
(* says whose events the maps hold and what the report has read of them,   *)
(* and CountInv counts them.  The counts of the table are cardinalities of *)
(* finite sets: shreds read, arrivals of a record.                         *)
(***************************************************************************)
EXTENDS Report, FiniteSetTheorems, WellFoundedInduction, TLAPS

(* A shred that has been recorded in both maps has left a slot record. *)
SettledHasSlot == \A e \in Settled : e.key.slot \in DOMAIN slots

(* No source has more events counted than were taken. *)
CountedWasTaken == \A s \in Sources : counted[s] <= taken

MeasurementInv ==
  MeasurementTypeOK /\ CountedWasTaken /\ SettledHasSlot /\ SlotFloor /\ EntryIsEarliest

-----------------------------------------------------------------------------
(* Maps. *)

LEMMA PutFacts ==
  ASSUME NEW map, NEW key, NEW value
  PROVE  /\ DOMAIN Put(map, key, value) = DOMAIN map \cup {key}
         /\ Put(map, key, value)[key] = value
         /\ \A k \in DOMAIN map \ {key} : Put(map, key, value)[k] = map[k]
         /\ Put(map, key, value)
              = [k \in DOMAIN Put(map, key, value) |-> Put(map, key, value)[k]]
BY DEF Put

LEMMA PutIsMap ==
  ASSUME NEW K, NEW V, NEW map, IsMap(map, K, V), NEW key \in K, NEW value \in V
  PROVE  IsMap(Put(map, key, value), K, V)
BY DEF Put, IsMap

LEMMA NoMapIsMap == \A K, V : IsMap(NoMap, K, V) /\ DOMAIN NoMap = {}
BY DEF NoMap, IsMap

LEMMA EarlierFacts ==
  ASSUME NEW m \in Nat, NEW n \in Nat
  PROVE  /\ Earlier(m, n) \in {m, n} /\ Earlier(m, n) \in Nat
         /\ Earlier(m, n) <= m /\ Earlier(m, n) <= n
BY DEF Earlier

-----------------------------------------------------------------------------
(* The registry's methods keep its type. *)

SlotsOK ==
  /\ DOMAIN slots \subseteq Slots /\ slots = [s \in DOMAIN slots |-> slots[s]]
  /\ \A s \in DOMAIN slots : IsSlotRecord(slots[s])

ShredsOK ==
  /\ IsMap(shreds, ShredKey, ShredRecord)
  /\ \A key \in DOMAIN shreds :
       LET record == shreds[key] IN
       /\ record.arrivals # <<>>
       /\ Head(record.arrivals) = [source |-> record.first_source, at |-> record.first_seen]

LEMMA RegistrySplits ==
  RegistryTypeOK <=> /\ ShredsOK /\ SlotsOK
                     /\ IsMap(grpc_latencies, Sources, Seq(Nat))
                     /\ drops \in [Sources -> Nat]
BY DEF RegistryTypeOK, ShredsOK, SlotsOK

LEMMA UpsertShredKeeps ==
  ASSUME ShredsOK, NEW event \in ShredEvent, UpsertShred(event)
  PROVE  ShredsOK' /\ DOMAIN shreds' = DOMAIN shreds \cup {event.key}
<1> DEFINE arrival == ArrivalOf(event)
           old     == shreds[event.key]
           value   == IF event.key \in DOMAIN shreds
                        THEN [old EXCEPT !.arrivals = Append(@, arrival)]
                        ELSE [first_seen   |-> event.received_at,
                              first_source |-> event.source,
                              arrivals     |-> <<arrival>>]
           good(record) ==
             /\ record \in ShredRecord /\ record.arrivals # <<>>
             /\ Head(record.arrivals) = [source |-> record.first_source,
                                         at |-> record.first_seen]
<1>1. arrival \in Arrival /\ arrival = [source |-> event.source, at |-> event.received_at]
  BY DEF ArrivalOf, Arrival, ShredEvent
<1>2. event.key \in ShredKey /\ event.source \in Sources /\ event.received_at \in Nat
  BY DEF ShredEvent
<1>3. \A key \in DOMAIN shreds : good(shreds[key])
  BY DEF ShredsOK, IsMap
<1>4. good(value)
  <2>1. CASE event.key \in DOMAIN shreds
    <3>1. old \in ShredRecord /\ old.arrivals \in Seq(Arrival) /\ old.arrivals # <<>>
      BY <1>3, <2>1 DEF ShredRecord
    <3>2. /\ Append(old.arrivals, arrival) \in Seq(Arrival)
          /\ Append(old.arrivals, arrival) # <<>>
          /\ Head(Append(old.arrivals, arrival)) = Head(old.arrivals)
      BY <1>1, <3>1
    <3>3. /\ value \in ShredRecord /\ value.arrivals = Append(old.arrivals, arrival)
          /\ value.first_seen = old.first_seen /\ value.first_source = old.first_source
      BY <2>1, <3>1, <3>2 DEF ShredRecord
    <3>4. QED
      BY <1>3, <2>1, <3>2, <3>3
  <2>2. CASE event.key \notin DOMAIN shreds
    BY <1>1, <1>2, <2>2 DEF ShredRecord
  <2>3. QED
    BY <2>1, <2>2
<1>5. shreds' = Put(shreds, event.key, value)
  BY DEF UpsertShred
<1> HIDE DEF value
<1>6. IsMap(shreds', ShredKey, ShredRecord)
  BY <1>2, <1>4, <1>5, PutIsMap DEF ShredsOK
<1>7. /\ DOMAIN shreds' = DOMAIN shreds \cup {event.key}
      /\ \A key \in DOMAIN shreds' :
           shreds'[key] = value \/ (key \in DOMAIN shreds /\ shreds'[key] = shreds[key])
  BY <1>5 DEF Put
<1>8. \A key \in DOMAIN shreds' : good(shreds'[key])
  BY <1>3, <1>4, <1>7
<1>9. QED
  BY <1>6, <1>7, <1>8 DEF ShredsOK

LEMMA NewSlotRecord ==
  ASSUME NEW at \in Nat, NEW entries, IsMap(entries, Sources, Nat)
  PROVE  IsSlotRecord([first_shred_at |-> at, entry_arrivals |-> entries])
BY DEF IsSlotRecord

LEMMA PutSlot ==
  ASSUME SlotsOK, NEW slot \in Slots, NEW record, IsSlotRecord(record),
         slots' = Put(slots, slot, record)
  PROVE  /\ SlotsOK'
         /\ DOMAIN slots' = DOMAIN slots \cup {slot} /\ slots'[slot] = record
         /\ \A s \in DOMAIN slots \ {slot} : slots'[s] = slots[s]
<1>1. /\ DOMAIN slots' = DOMAIN slots \cup {slot} /\ slots'[slot] = record
      /\ \A s \in DOMAIN slots \ {slot} : slots'[s] = slots[s]
      /\ slots' = [s \in DOMAIN slots' |-> slots'[s]]
  BY DEF Put
<1>2. DOMAIN slots' \subseteq Slots
  BY <1>1 DEF SlotsOK
<1>3. ASSUME NEW s \in DOMAIN slots' PROVE IsSlotRecord(slots'[s])
  <2>1. CASE s = slot
    BY <1>1, <2>1
  <2>2. CASE s # slot
    <3>1. s \in DOMAIN slots /\ slots'[s] = slots[s]
      BY <1>1, <2>2
    <3>2. IsSlotRecord(slots[s])
      BY <3>1 DEF SlotsOK
    <3>3. QED
      BY <3>1, <3>2
  <2>3. QED
    BY <2>1, <2>2
<1>4. QED
  BY <1>1, <1>2, <1>3 DEF SlotsOK

(* The two parts of a record, with and without an earlier record. *)
FloorOf(slot)   == slots[slot].first_shred_at
EntriesIn(slot) == slots[slot].entry_arrivals

LEMMA SlotParts ==
  ASSUME SlotsOK, NEW slot \in DOMAIN slots
  PROVE  /\ FloorOf(slot) \in Nat /\ IsMap(EntriesIn(slot), Sources, Nat)
         /\ slots[slot] = [first_shred_at |-> FloorOf(slot), entry_arrivals |-> EntriesIn(slot)]
BY DEF SlotsOK, IsSlotRecord, FloorOf, EntriesIn

LEMMA LowerSlotKeeps ==
  ASSUME SlotsOK, NEW slot \in Slots, NEW at \in Nat, LowerSlot(slot, at)
  PROVE  /\ SlotsOK'
         /\ DOMAIN slots' = DOMAIN slots \cup {slot}
         /\ \A s \in DOMAIN slots \ {slot} : slots'[s] = slots[s]
         /\ slot \in DOMAIN slots =>
              /\ FloorOf(slot)' = Earlier(FloorOf(slot), at)
              /\ EntriesIn(slot)' = EntriesIn(slot)
         /\ slot \notin DOMAIN slots =>
              FloorOf(slot)' = at /\ EntriesIn(slot)' = NoMap
<1>1. CASE slot \in DOMAIN slots
  <2> DEFINE record == [first_shred_at |-> Earlier(FloorOf(slot), at),
                        entry_arrivals |-> EntriesIn(slot)]
  <2>1. IsSlotRecord(record)
    BY <1>1, SlotParts, EarlierFacts, NewSlotRecord
  <2>2. [slots[slot] EXCEPT !.first_shred_at = Earlier(@, at)] = record
    BY <1>1, SlotParts DEF FloorOf
  <2>3. slots' = Put(slots, slot, record)
    BY <1>1, <2>2 DEF LowerSlot
  <2>4. record.first_shred_at = Earlier(FloorOf(slot), at)
        /\ record.entry_arrivals = EntriesIn(slot)
    OBVIOUS
  <2> HIDE DEF record
  <2>5. QED
    BY <1>1, <2>1, <2>3, <2>4, PutSlot DEF FloorOf, EntriesIn
<1>2. CASE slot \notin DOMAIN slots
  <2> DEFINE record == [first_shred_at |-> at, entry_arrivals |-> NoMap]
  <2>1. IsSlotRecord(record)
    BY NoMapIsMap, NewSlotRecord
  <2>2. slots' = Put(slots, slot, record)
    BY <1>2 DEF LowerSlot
  <2>3. record.first_shred_at = at /\ record.entry_arrivals = NoMap
    OBVIOUS
  <2> HIDE DEF record
  <2>4. QED
    BY <1>2, <2>1, <2>2, <2>3, PutSlot DEF FloorOf, EntriesIn
<1>3. QED
  BY <1>1, <1>2

LEMMA EntryArrivalIsMap ==
  ASSUME NEW entries, IsMap(entries, Sources, Nat), NEW event \in SlotEvent
  PROVE  IsMap(EntryArrival(entries, event), Sources, Nat)
<1>1. event.source \in Sources /\ event.received_at \in Nat
  BY DEF SlotEvent
<1>2. event.source \in DOMAIN entries => entries[event.source] \in Nat
  BY DEF IsMap
<1>3. QED
  BY <1>1, <1>2, EarlierFacts, PutIsMap DEF EntryArrival

LEMMA RecordSlotEventKeeps ==
  ASSUME SlotsOK, NEW event \in SlotEvent, RecordSlotEvent(event)
  PROVE  /\ SlotsOK'
         /\ DOMAIN slots' = DOMAIN slots \cup {event.slot}
         /\ \A s \in DOMAIN slots \ {event.slot} : slots'[s] = slots[s]
         /\ event.slot \in DOMAIN slots =>
              /\ FloorOf(event.slot)' = FloorOf(event.slot)
              /\ EntriesIn(event.slot)' = EntryArrival(EntriesIn(event.slot), event)
         /\ event.slot \notin DOMAIN slots =>
              /\ FloorOf(event.slot)' = event.received_at
              /\ EntriesIn(event.slot)' = EntryArrival(NoMap, event)
<1>1. event.slot \in Slots /\ event.received_at \in Nat
  BY DEF SlotEvent
<1>2. CASE event.slot \in DOMAIN slots
  <2> DEFINE record == [first_shred_at |-> FloorOf(event.slot),
                        entry_arrivals |-> EntryArrival(EntriesIn(event.slot), event)]
  <2>1. IsSlotRecord(record)
    BY <1>2, SlotParts, EntryArrivalIsMap, NewSlotRecord
  <2>2. [slots[event.slot] EXCEPT !.entry_arrivals = EntryArrival(@, event)] = record
    BY <1>2, SlotParts DEF EntriesIn
  <2>3. slots' = Put(slots, event.slot, record)
    BY <1>2, <2>2 DEF RecordSlotEvent
  <2>4. record.first_shred_at = FloorOf(event.slot)
        /\ record.entry_arrivals = EntryArrival(EntriesIn(event.slot), event)
    OBVIOUS
  <2> HIDE DEF record
  <2>5. QED
    BY <1>1, <1>2, <2>1, <2>3, <2>4, PutSlot DEF FloorOf, EntriesIn
<1>3. CASE event.slot \notin DOMAIN slots
  <2> DEFINE record == [first_shred_at |-> event.received_at,
                        entry_arrivals |-> EntryArrival(NoMap, event)]
  <2>1. IsSlotRecord(record)
    BY <1>1, NoMapIsMap, EntryArrivalIsMap, NewSlotRecord
  <2>2. slots' = Put(slots, event.slot, record)
    BY <1>3 DEF RecordSlotEvent
  <2>3. record.first_shred_at = event.received_at
        /\ record.entry_arrivals = EntryArrival(NoMap, event)
    OBVIOUS
  <2> HIDE DEF record
  <2>4. QED
    BY <1>1, <1>3, <2>1, <2>2, <2>3, PutSlot DEF FloorOf, EntriesIn
<1>4. QED
  BY <1>2, <1>3

-----------------------------------------------------------------------------
(* The inductive invariant. *)

HistoryOK ==
  /\ heard \subseteq ShredInputs /\ heardSlots \subseteq SlotInputs
  /\ pending \subseteq heard /\ \A e, f \in pending : e = f
  /\ \A key \in DOMAIN shreds :
       key.slot \in DOMAIN slots \/ \E e \in pending : e.key = key
  /\ counted \in [Sources -> 0..MaxEvents] /\ taken \in 0..MaxEvents

SamplesOK == IsMap(grpc_latencies, Sources, Seq(Nat)) /\ drops \in [Sources -> Nat]

LEMMA TypeSplits ==
  MeasurementTypeOK <=> ShredsOK /\ SlotsOK /\ SamplesOK /\ HistoryOK
BY RegistrySplits DEF MeasurementTypeOK, HistoryOK, SamplesOK

LEMMA NextTypeSplits ==
  (ShredsOK /\ SlotsOK /\ SamplesOK /\ HistoryOK => MeasurementTypeOK)'
BY TypeSplits, PTL

LEMMA InputsAreEvents ==
  ShredInputs \subseteq ShredEvent /\ SlotInputs \subseteq SlotEvent
BY MeasurementAssumption DEF ShredInputs, ShredEvent, SlotInputs, SlotEvent

LEMMA InitHolds == MeasurementInit => MeasurementInv
<1> SUFFICES ASSUME MeasurementInit PROVE MeasurementInv
  OBVIOUS
<1> USE MeasurementAssumption
<1>1. /\ shreds = NoMap /\ slots = NoMap /\ grpc_latencies = NoMap
      /\ drops = [s \in Sources |-> 0] /\ pending = {} /\ heard = {} /\ heardSlots = {}
      /\ counted = [s \in Sources |-> 0] /\ taken = 0
  BY DEF MeasurementInit, RegistryInit
<1>2. DOMAIN shreds = {} /\ DOMAIN slots = {}
  BY <1>1, NoMapIsMap
<1>3. ShredsOK
  BY <1>1, <1>2, NoMapIsMap DEF ShredsOK
<1>4. SlotsOK
  BY <1>1, <1>2 DEF SlotsOK, NoMap
<1>5. SamplesOK
  BY <1>1, NoMapIsMap DEF SamplesOK
<1>6. HistoryOK
  BY <1>1, <1>2 DEF HistoryOK
<1>7. CountedWasTaken
  <2>1. ASSUME NEW s \in Sources PROVE counted[s] = 0
    BY <1>1
  <2>2. taken = 0 /\ 0 <= 0
    BY <1>1
  <2>3. ASSUME NEW s \in Sources PROVE counted[s] <= taken
    BY <2>1, <2>2
  <2>4. QED
    BY <2>3 DEF CountedWasTaken
<1>8. SettledHasSlot /\ SlotFloor
  BY <1>1, <1>2 DEF SettledHasSlot, SlotFloor, Settled
<1>9. EntryIsEarliest
  BY <1>1, <1>2 DEF EntryIsEarliest, EntriesOf
<1>10. QED
  BY <1>3, <1>4, <1>5, <1>6, <1>7, <1>8, <1>9, TypeSplits DEF MeasurementInv

LEMMA TakeShredKeeps ==
  ASSUME MeasurementInv, NEW e \in ShredInputs, TakeShred(e)
  PROVE  MeasurementInv'
<1> USE MeasurementAssumption
<1>1. e \in ShredEvent /\ e.source \in Sources
  BY InputsAreEvents DEF ShredInputs
<1>2. ShredsOK /\ SlotsOK /\ SamplesOK /\ HistoryOK
  BY TypeSplits DEF MeasurementInv
<1>3. ShredsOK' /\ DOMAIN shreds' = DOMAIN shreds \cup {e.key}
  BY <1>1, <1>2, UpsertShredKeeps DEF TakeShred
<1>4. /\ pending = {} /\ pending' = {e} /\ taken' = taken + 1 /\ taken < MaxEvents
      /\ heard' = heard \cup {e} /\ heardSlots' = heardSlots
      /\ slots' = slots /\ grpc_latencies' = grpc_latencies /\ drops' = drops
      /\ counted' = [counted EXCEPT ![e.source] = @ + 1]
  BY DEF TakeShred, TakeOne
<1>5. SlotsOK' /\ SamplesOK'
  BY <1>2, <1>4 DEF SlotsOK, SamplesOK
<1>6. counted' \in [Sources -> 0..MaxEvents] /\ taken' \in 0..MaxEvents /\ CountedWasTaken'
  BY <1>1, <1>2, <1>4 DEF HistoryOK, CountedWasTaken, MeasurementInv
<1>7. HistoryOK'
  BY <1>2, <1>3, <1>4, <1>6 DEF HistoryOK
<1>8. Settled' \subseteq Settled
  BY <1>4 DEF Settled
<1>9. SettledHasSlot'
  BY <1>4, <1>8 DEF SettledHasSlot, MeasurementInv
<1>10. SlotFloor'
  BY <1>4, <1>8 DEF SlotFloor, ShredsOf, EventsOf, MeasurementInv
<1>11. EntryIsEarliest'
  BY <1>4 DEF EntryIsEarliest, EntriesOf, MeasurementInv
<1>12. QED
  BY <1>3, <1>5, <1>6, <1>7, <1>9, <1>10, <1>11, NextTypeSplits DEF MeasurementInv

LEMMA FinishShredKeeps ==
  ASSUME MeasurementInv, NEW e \in ShredInputs, FinishShred(e)
  PROVE  MeasurementInv'
<1> USE MeasurementAssumption
<1> DEFINE slot == e.key.slot
<1>1. e \in ShredEvent /\ slot \in Slots /\ e.received_at \in Nat
  BY InputsAreEvents DEF ShredEvent, ShredKey
<1>2. ShredsOK /\ SlotsOK /\ SamplesOK /\ HistoryOK
  BY TypeSplits DEF MeasurementInv
<1>3. /\ e \in pending /\ pending' = {} /\ LowerSlot(slot, e.received_at)
      /\ shreds' = shreds /\ grpc_latencies' = grpc_latencies /\ drops' = drops
      /\ heard' = heard /\ heardSlots' = heardSlots /\ counted' = counted /\ taken' = taken
  BY DEF FinishShred, historyVars
<1>4. /\ SlotsOK'
      /\ DOMAIN slots' = DOMAIN slots \cup {slot}
      /\ \A s \in DOMAIN slots \ {slot} : slots'[s] = slots[s]
      /\ slot \in DOMAIN slots =>
           /\ FloorOf(slot)' = Earlier(FloorOf(slot), e.received_at)
           /\ EntriesIn(slot)' = EntriesIn(slot)
      /\ slot \notin DOMAIN slots =>
           FloorOf(slot)' = e.received_at /\ EntriesIn(slot)' = NoMap
  BY <1>1, <1>2, <1>3, LowerSlotKeeps
<1> HIDE DEF slot
<1>5. ShredsOK' /\ SamplesOK'
  BY <1>2, <1>3 DEF ShredsOK, SamplesOK
<1>6. \A f \in pending : f = e
  BY <1>2, <1>3 DEF HistoryOK
<1>7. HistoryOK'
  BY <1>2, <1>3, <1>4, <1>6 DEF HistoryOK, slot
<1>8. CountedWasTaken'
  BY <1>3 DEF CountedWasTaken, MeasurementInv
<1>9. Settled' = Settled \cup {e} /\ e \in heard /\ heard = Settled \cup {e}
  BY <1>2, <1>3, <1>6 DEF Settled, HistoryOK
<1>10. SettledHasSlot'
  BY <1>4, <1>9 DEF SettledHasSlot, MeasurementInv, slot
<1>11. SlotFloor'
  <2> SUFFICES ASSUME NEW s \in DOMAIN slots'
               PROVE  /\ \E f \in (ShredsOf(s) \cup EventsOf(s))' : FloorOf(s)' = f.received_at
                      /\ \A f \in Settled' : f.key.slot = s => FloorOf(s)' <= f.received_at
    BY DEF SlotFloor, FloorOf
  <2>1. ShredsOf(s)' = ShredsOf(s) /\ EventsOf(s)' = EventsOf(s)
    BY <1>3 DEF ShredsOf, EventsOf
  <2>2. \A f \in Settled : f.received_at \in Nat
    BY <1>2, InputsAreEvents DEF Settled, HistoryOK, ShredEvent
  <2>3. e \in ShredsOf(slot)
    BY <1>9 DEF ShredsOf, slot
  <2>4. CASE s # slot
    <3>1. s \in DOMAIN slots /\ FloorOf(s)' = FloorOf(s)
      BY <1>4, <2>4 DEF FloorOf
    <3>2. QED
      BY <1>9, <2>1, <2>4, <3>1 DEF SlotFloor, MeasurementInv, slot, FloorOf
  <2>5. CASE s = slot /\ slot \in DOMAIN slots
    <3>1. /\ \E f \in ShredsOf(slot) \cup EventsOf(slot) : FloorOf(slot) = f.received_at
          /\ \A f \in Settled : f.key.slot = slot => FloorOf(slot) <= f.received_at
      BY <2>5 DEF SlotFloor, MeasurementInv, FloorOf
    <3>2. FloorOf(slot) \in Nat
      BY <1>2, <2>5, SlotParts
    <3>3. /\ FloorOf(slot)' \in {FloorOf(slot), e.received_at} /\ FloorOf(slot)' \in Nat
          /\ FloorOf(slot)' <= FloorOf(slot) /\ FloorOf(slot)' <= e.received_at
      BY <1>1, <1>4, <2>5, <3>2, EarlierFacts
    <3>4. \A f \in Settled' : f.key.slot = slot => FloorOf(slot)' <= f.received_at
      BY <1>9, <2>2, <3>1, <3>2, <3>3
    <3>5. QED
      BY <2>1, <2>3, <2>5, <3>1, <3>3, <3>4
  <2>6. CASE s = slot /\ slot \notin DOMAIN slots
    <3>1. FloorOf(slot)' = e.received_at
      BY <1>4, <2>6
    <3>2. \A f \in Settled : f.key.slot # slot
      BY <2>6 DEF SettledHasSlot, MeasurementInv
    <3>3. QED
      BY <1>1, <1>9, <2>1, <2>3, <2>6, <3>1, <3>2
  <2>7. QED
    BY <2>4, <2>5, <2>6
<1>12. EntryIsEarliest'
  <2>1. ASSUME NEW s \in Slots, NEW source \in Sources
        PROVE  EntriesOf(source, s)' = EntriesOf(source, s)
    BY <1>3 DEF EntriesOf
  <2>2. ASSUME NEW s \in DOMAIN slots
        PROVE  s \in DOMAIN slots' /\ EntriesIn(s)' = EntriesIn(s)
    BY <1>4 DEF EntriesIn
  <2>3. ASSUME slot \notin DOMAIN slots
        PROVE  DOMAIN EntriesIn(slot)' = {}
    BY <1>4, <2>3, NoMapIsMap
  <2>4. ASSUME NEW source \in Sources, NEW s \in Slots
        PROVE  IF EntriesOf(source, s) = {}
                 THEN s \in DOMAIN slots' => source \notin DOMAIN EntriesIn(s)'
                 ELSE /\ s \in DOMAIN slots' /\ source \in DOMAIN EntriesIn(s)'
                      /\ \E f \in EntriesOf(source, s) : EntriesIn(s)'[source] = f.received_at
                      /\ \A f \in EntriesOf(source, s) : EntriesIn(s)'[source] <= f.received_at
    <3>1. IF EntriesOf(source, s) = {}
            THEN s \in DOMAIN slots => source \notin DOMAIN EntriesIn(s)
            ELSE /\ s \in DOMAIN slots /\ source \in DOMAIN EntriesIn(s)
                 /\ \E f \in EntriesOf(source, s) : EntriesIn(s)[source] = f.received_at
                 /\ \A f \in EntriesOf(source, s) : EntriesIn(s)[source] <= f.received_at
      BY DEF EntryIsEarliest, MeasurementInv, EntriesIn
    <3>2. CASE s \in DOMAIN slots
      BY <2>2, <3>1, <3>2
    <3>3. CASE s \notin DOMAIN slots
      BY <1>4, <2>3, <3>1, <3>3
    <3>4. QED
      BY <3>2, <3>3
  <2>5. QED
    BY <2>1, <2>4 DEF EntryIsEarliest, EntriesIn
<1>13. QED
  BY <1>4, <1>5, <1>7, <1>8, <1>10, <1>11, <1>12, NextTypeSplits DEF MeasurementInv

LEMMA TakeSlotEventKeeps ==
  ASSUME MeasurementInv, NEW e \in SlotInputs, TakeSlotEvent(e)
  PROVE  MeasurementInv'
<1> USE MeasurementAssumption
<1> DEFINE slot == e.slot
<1>1. e \in SlotEvent /\ slot \in Slots /\ e.received_at \in Nat /\ e.source \in Sources
  BY InputsAreEvents DEF SlotEvent
<1>2. ShredsOK /\ SlotsOK /\ SamplesOK /\ HistoryOK
  BY TypeSplits DEF MeasurementInv
<1>3. /\ pending = {} /\ pending' = {} /\ taken' = taken + 1 /\ taken < MaxEvents
      /\ shreds' = shreds /\ grpc_latencies' = grpc_latencies /\ drops' = drops
      /\ heard' = heard /\ heardSlots' = heardSlots \cup {e} /\ counted' = counted
      /\ RecordSlotEvent(e)
  BY DEF TakeSlotEvent, TakeOne, RecordSlotEvent
<1>4. /\ SlotsOK'
      /\ DOMAIN slots' = DOMAIN slots \cup {slot}
      /\ \A s \in DOMAIN slots \ {slot} : slots'[s] = slots[s]
      /\ slot \in DOMAIN slots =>
           /\ FloorOf(slot)' = FloorOf(slot)
           /\ EntriesIn(slot)' = EntryArrival(EntriesIn(slot), e)
      /\ slot \notin DOMAIN slots =>
           /\ FloorOf(slot)' = e.received_at
           /\ EntriesIn(slot)' = EntryArrival(NoMap, e)
  BY <1>1, <1>2, <1>3, RecordSlotEventKeeps
<1>5. ShredsOK' /\ SamplesOK'
  BY <1>2, <1>3 DEF ShredsOK, SamplesOK
<1>6. counted' \in [Sources -> 0..MaxEvents] /\ taken' \in 0..MaxEvents /\ CountedWasTaken'
  BY <1>2, <1>3 DEF HistoryOK, CountedWasTaken, MeasurementInv
<1>7. HistoryOK'
  BY <1>2, <1>3, <1>4, <1>6 DEF HistoryOK
<1>8. Settled' = Settled
  BY <1>3 DEF Settled
<1>9. SettledHasSlot'
  BY <1>4, <1>8 DEF SettledHasSlot, MeasurementInv
<1>10. SlotFloor'
  <2> SUFFICES ASSUME NEW s \in DOMAIN slots'
               PROVE  /\ \E f \in (ShredsOf(s) \cup EventsOf(s))' : FloorOf(s)' = f.received_at
                      /\ \A f \in Settled' : f.key.slot = s => FloorOf(s)' <= f.received_at
    BY DEF SlotFloor, FloorOf
  <2>1. ShredsOf(s)' = ShredsOf(s) /\ EventsOf(s) \subseteq EventsOf(s)'
    BY <1>3 DEF ShredsOf, EventsOf
  <2>2. CASE s \in DOMAIN slots
    <3>1. FloorOf(s)' = FloorOf(s)
      BY <1>4, <2>2 DEF FloorOf
    <3>2. QED
      BY <1>8, <2>1, <2>2, <3>1 DEF SlotFloor, MeasurementInv, FloorOf
  <2>3. CASE s \notin DOMAIN slots
    <3>1. s = slot /\ FloorOf(s)' = e.received_at
      BY <1>4, <2>3
    <3>2. \A f \in Settled' : f.key.slot # s
      BY <1>8, <2>3 DEF SettledHasSlot, MeasurementInv
    <3>3. e \in EventsOf(s)'
      BY <1>3, <3>1 DEF EventsOf
    <3>4. QED
      BY <3>1, <3>2, <3>3
  <2>4. QED
    BY <2>2, <2>3
<1>11. EntryIsEarliest'
  <2> DEFINE Entry(source, s, entries, events) ==
        IF events = {}
          THEN s \in DOMAIN slots' => source \notin DOMAIN entries
          ELSE /\ s \in DOMAIN slots' /\ source \in DOMAIN entries
               /\ \E f \in events : entries[source] = f.received_at
               /\ \A f \in events : entries[source] <= f.received_at
  <2>1. ASSUME NEW source \in Sources, NEW s \in Slots
        PROVE  IF EntriesOf(source, s) = {}
                 THEN s \in DOMAIN slots => source \notin DOMAIN EntriesIn(s)
                 ELSE /\ s \in DOMAIN slots /\ source \in DOMAIN EntriesIn(s)
                      /\ \E f \in EntriesOf(source, s) : EntriesIn(s)[source] = f.received_at
                      /\ \A f \in EntriesOf(source, s) : EntriesIn(s)[source] <= f.received_at
    BY DEF EntryIsEarliest, MeasurementInv, EntriesIn
  <2>2. ASSUME NEW source \in Sources, NEW s \in Slots
        PROVE  Entry(source, s, EntriesIn(s)', EntriesOf(source, s)')
    <3>1. CASE s # slot
      <4>1. EntriesOf(source, s)' = EntriesOf(source, s)
        BY <1>3, <3>1 DEF EntriesOf
      <4>2. s \in DOMAIN slots' <=> s \in DOMAIN slots
        BY <1>4, <3>1
      <4>3. s \in DOMAIN slots => EntriesIn(s)' = EntriesIn(s)
        BY <1>4, <3>1 DEF EntriesIn
      <4>4. QED
        BY <2>1, <4>1, <4>2, <4>3
    <3>2. CASE s = slot
      <4> DEFINE old == IF slot \in DOMAIN slots THEN EntriesIn(slot) ELSE NoMap
      <4>1. EntriesIn(slot)' = EntryArrival(old, e) /\ slot \in DOMAIN slots'
        BY <1>4
      <4>2. IF EntriesOf(source, slot) = {}
              THEN source \notin DOMAIN old
              ELSE /\ source \in DOMAIN old
                   /\ \E f \in EntriesOf(source, slot) : old[source] = f.received_at
                   /\ \A f \in EntriesOf(source, slot) : old[source] <= f.received_at
        BY <2>1, <3>2, NoMapIsMap
      <4> HIDE DEF old
      <4>3. CASE source # e.source
        <5>1. EntriesOf(source, slot)' = EntriesOf(source, slot)
          BY <1>3, <4>3 DEF EntriesOf
        <5>2. /\ source \in DOMAIN EntriesIn(slot)' <=> source \in DOMAIN old
              /\ source \in DOMAIN old => EntriesIn(slot)'[source] = old[source]
          BY <4>1, <4>3 DEF EntryArrival, Put
        <5>3. QED
          BY <3>2, <4>1, <4>2, <5>1, <5>2
      <4>4. CASE source = e.source
        <5>1. EntriesOf(source, slot)' = EntriesOf(source, slot) \cup {e}
          BY <1>3, <4>4 DEF EntriesOf
        <5>2. /\ source \in DOMAIN EntriesIn(slot)'
              /\ EntriesIn(slot)'[source] =
                   IF source \in DOMAIN old THEN Earlier(old[source], e.received_at)
                                            ELSE e.received_at
          BY <4>1, <4>4 DEF EntryArrival, Put
        <5>3. \A f \in EntriesOf(source, slot) : f.received_at \in Nat
          BY <1>2, InputsAreEvents DEF EntriesOf, HistoryOK, SlotEvent
        <5>4. CASE EntriesOf(source, slot) = {}
          BY <1>1, <3>2, <4>1, <4>2, <5>1, <5>2, <5>4
        <5>5. CASE EntriesOf(source, slot) # {}
          <6>1. /\ source \in DOMAIN old /\ old[source] \in Nat
                /\ \E f \in EntriesOf(source, slot) : old[source] = f.received_at
                /\ \A f \in EntriesOf(source, slot) : old[source] <= f.received_at
            BY <4>2, <5>3, <5>5
          <6> DEFINE new == Earlier(old[source], e.received_at)
          <6>2. /\ new \in {old[source], e.received_at} /\ new \in Nat
                /\ new <= old[source] /\ new <= e.received_at
            BY <1>1, <6>1, EarlierFacts
          <6>3. EntriesIn(slot)'[source] = new
            BY <5>2, <6>1
          <6> HIDE DEF new
          <6>4. \A f \in EntriesOf(source, slot)' : new <= f.received_at
            BY <5>1, <5>3, <6>1, <6>2
          <6>5. \E f \in EntriesOf(source, slot)' : new = f.received_at
            BY <5>1, <6>1, <6>2
          <6>6. QED
            BY <3>2, <4>1, <5>1, <5>2, <6>3, <6>4, <6>5
        <5>6. QED
          BY <5>4, <5>5
      <4>5. QED
        BY <4>3, <4>4
    <3>3. QED
      BY <3>1, <3>2
  <2>3. QED
    BY <2>2 DEF EntryIsEarliest, EntriesIn
<1>12. QED
  BY <1>4, <1>5, <1>6, <1>7, <1>9, <1>10, <1>11, NextTypeSplits DEF MeasurementInv

LEMMA TakeSampleKeeps ==
  ASSUME MeasurementInv, NEW source \in Sources, NEW ns \in Nat, TakeSample(source, ns)
  PROVE  MeasurementInv'
<1> USE MeasurementAssumption
<1>1. ShredsOK /\ SlotsOK /\ SamplesOK /\ HistoryOK
  BY TypeSplits DEF MeasurementInv
<1>2. /\ pending' = pending /\ taken' = taken + 1 /\ taken < MaxEvents
      /\ shreds' = shreds /\ slots' = slots /\ drops' = drops
      /\ heard' = heard /\ heardSlots' = heardSlots /\ counted' = counted
      /\ RecordGrpcLatency(source, ns)
  BY DEF TakeSample, TakeOne, RecordGrpcLatency
<1>3. IsMap(grpc_latencies', Sources, Seq(Nat))
  <2> DEFINE value == IF source \in DOMAIN grpc_latencies
                        THEN Append(grpc_latencies[source], ns) ELSE <<ns>>
  <2>1. value \in Seq(Nat)
    BY <1>1 DEF SamplesOK, IsMap
  <2>2. grpc_latencies' = Put(grpc_latencies, source, value)
    BY <1>2 DEF RecordGrpcLatency
  <2>3. QED
    BY <1>1, <2>1, <2>2, PutIsMap DEF SamplesOK
<1>4. ShredsOK' /\ SlotsOK' /\ SamplesOK'
  BY <1>1, <1>2, <1>3 DEF ShredsOK, SlotsOK, SamplesOK
<1>5. HistoryOK' /\ CountedWasTaken'
  BY <1>1, <1>2 DEF HistoryOK, CountedWasTaken, MeasurementInv
<1>6. SettledHasSlot' /\ SlotFloor'
  BY <1>2 DEF SettledHasSlot, SlotFloor, Settled, ShredsOf, EventsOf, MeasurementInv
<1>7. EntryIsEarliest'
  BY <1>2 DEF EntryIsEarliest, EntriesOf, MeasurementInv
<1>8. QED
  BY <1>4, <1>5, <1>6, <1>7, NextTypeSplits DEF MeasurementInv

LEMMA StutterKeeps == MeasurementInv /\ UNCHANGED measurementVars => MeasurementInv'
<1> SUFFICES ASSUME MeasurementInv, UNCHANGED measurementVars PROVE MeasurementInv'
  OBVIOUS
<1>1. ShredsOK /\ SlotsOK /\ SamplesOK /\ HistoryOK
  BY TypeSplits DEF MeasurementInv
<1>2. /\ pending' = pending /\ taken' = taken /\ shreds' = shreds /\ slots' = slots
      /\ grpc_latencies' = grpc_latencies /\ drops' = drops /\ heard' = heard
      /\ heardSlots' = heardSlots /\ counted' = counted
  BY DEF measurementVars, registryVars, historyVars
<1>3. ShredsOK' /\ SlotsOK' /\ SamplesOK' /\ HistoryOK'
  BY <1>1, <1>2 DEF ShredsOK, SlotsOK, SamplesOK, HistoryOK
<1>4. CountedWasTaken' /\ SettledHasSlot' /\ SlotFloor'
  BY <1>2 DEF CountedWasTaken, SettledHasSlot, SlotFloor, Settled, ShredsOf, EventsOf,
              MeasurementInv
<1>5. EntryIsEarliest'
  BY <1>2 DEF EntryIsEarliest, EntriesOf, MeasurementInv
<1>6. QED
  BY <1>3, <1>4, <1>5, NextTypeSplits DEF MeasurementInv

LEMMA MeasurementStepKeeps == MeasurementInv /\ MeasurementNext => MeasurementInv'
<1> SUFFICES ASSUME MeasurementInv, MeasurementNext PROVE MeasurementInv'
  OBVIOUS
<1>1. ASSUME NEW e \in ShredInputs, TakeShred(e) PROVE MeasurementInv'
  BY <1>1, TakeShredKeeps
<1>2. ASSUME NEW e \in ShredInputs, FinishShred(e) PROVE MeasurementInv'
  BY <1>2, FinishShredKeeps
<1>3. ASSUME NEW e \in SlotInputs, TakeSlotEvent(e) PROVE MeasurementInv'
  BY <1>3, TakeSlotEventKeeps
<1>4. ASSUME NEW source \in Sources, TakeSample(source, 0) PROVE MeasurementInv'
  BY <1>4, TakeSampleKeeps
<1>5. QED
  BY <1>1, <1>2, <1>3, <1>4 DEF MeasurementNext

LEMMA MeasurementInvHolds == MeasurementSpec => []MeasurementInv
<1>1. MeasurementInit => MeasurementInv
  BY InitHolds
<1>2. MeasurementInv /\ [MeasurementNext]_measurementVars => MeasurementInv'
  BY MeasurementStepKeeps, StutterKeeps
<1>3. QED
  BY <1>1, <1>2, PTL DEF MeasurementSpec

-----------------------------------------------------------------------------
(* The arrivals of a record. *)
ArrivalsIn(record) == {record.arrivals[i] : i \in DOMAIN record.arrivals}

(* A record is only ever appended to. *)
Grows(old, new) ==
  /\ new.first_seen = old.first_seen /\ new.first_source = old.first_source
  /\ ArrivalsIn(old) \subseteq ArrivalsIn(new)

(* The registry's arrivals are the events recorded. *)
ArrivalsAreHeard ==
  /\ \A e \in heard :
       e.key \in DOMAIN shreds /\ ArrivalOf(e) \in ArrivalsIn(shreds[e.key])
  /\ \A key \in DOMAIN shreds : \A a \in ArrivalsIn(shreds[key]) :
       [source |-> a.source, key |-> key, received_at |-> a.at] \in heard

-----------------------------------------------------------------------------
(* Minima and saturating differences. *)

LEMMA MinFacts ==
  ASSUME NEW S \in SUBSET Nat, S # {}
  PROVE  /\ Live!Min(S) \in S /\ Live!Min(S) \in Nat
         /\ \A n \in S : Live!Min(S) <= n
<1> DEFINE R == {p \in Nat \X Nat : p[1] < p[2]}
<1>1. IsWellFoundedOn(R, Nat)
  BY NatLessThanWellFounded DEF OpToRel
<1> HIDE DEF R
<1>2. PICK m \in S : \A n \in S : ~(<<n, m>> \in R)
  BY <1>1, WFMin
<1>3. ASSUME NEW n \in S PROVE m <= n
  <2>1. n < m => <<n, m>> \in R
    BY SMT DEF R
  <2>2. QED
    BY <1>2, <2>1
<1>4. QED
  BY <1>3 DEF Live!Min

LEMMA SeenMinFacts ==
  ASSUME NEW S \in SUBSET Nat, S # {}
  PROVE  /\ Seen!Min(S) \in S /\ Seen!Min(S) \in Nat
         /\ \A n \in S : Seen!Min(S) <= n
BY MinFacts DEF Live!Min, Seen!Min

LEMMA SinceFacts ==
  ASSUME NEW m \in Nat, NEW n \in Nat
  PROVE  /\ Live!Since(m, n) = 0 <=> m <= n
         /\ Live!Since(m, n) \in Nat /\ Seen!Since(m, n) = Live!Since(m, n)
         /\ \A k \in Nat : k <= m => Live!Since(k, n) <= Live!Since(m, n)
         /\ \A k \in Nat : n <= k => Live!Since(m, k) <= Live!Since(m, n)
         /\ \A k \in Nat : k <= n /\ k <= m => Live!Since(m, n) <= m - k
BY DEF Live!Since, Seen!Since

(* The times of a source in a record, and their least. *)
TimesOf(source, record) == {a.at : a \in {b \in ArrivalsIn(record) : b.source = source}}

LEMMA TimesAreNaturals ==
  ASSUME NEW record \in ShredRecord, NEW source
  PROVE  TimesOf(source, record) \subseteq Nat
<1>1. record.arrivals \in Seq(Arrival)
  BY DEF ShredRecord
<1>2. \A i \in DOMAIN record.arrivals : record.arrivals[i] \in Arrival
  BY <1>1
<1>3. \A a \in ArrivalsIn(record) : a.at \in Nat
  BY <1>2 DEF ArrivalsIn, Arrival
<1>4. QED
  BY <1>3 DEF TimesOf

LEMMA FromFacts ==
  ASSUME NEW record, NEW source, NEW mine,
         mine = {i \in DOMAIN record.arrivals : record.arrivals[i].source = source}
  PROVE  /\ mine # {} <=> \E a \in ArrivalsIn(record) : a.source = source
         /\ mine # {} <=> TimesOf(source, record) # {}
         /\ {record.arrivals[i].at : i \in mine} = TimesOf(source, record)
BY DEF ArrivalsIn, TimesOf

LEMMA LiveFacts ==
  ASSUME NEW source, NEW key \in DOMAIN shreds
  PROVE  /\ key \in Live!ReceivedKeys(source) <=> TimesOf(source, shreds[key]) # {}
         /\ key \in Live!ReceivedKeys(source)
              <=> \E a \in ArrivalsIn(shreds[key]) : a.source = source
         /\ Live!FirstFrom(source, key) = Live!Min(TimesOf(source, shreds[key]))
<1> DEFINE mine == Live!ArrivalsOf(source, key)
<1>1. mine = {i \in DOMAIN shreds[key].arrivals : shreds[key].arrivals[i].source = source}
  BY DEF Live!ArrivalsOf
<1>2. /\ mine # {} <=> \E a \in ArrivalsIn(shreds[key]) : a.source = source
      /\ mine # {} <=> TimesOf(source, shreds[key]) # {}
      /\ {shreds[key].arrivals[i].at : i \in mine} = TimesOf(source, shreds[key])
  BY <1>1, FromFacts
<1>3. key \in Live!ReceivedKeys(source) <=> mine # {}
  BY DEF Live!ReceivedKeys
<1>4. Live!FirstFrom(source, key) = Live!Min({shreds[key].arrivals[i].at : i \in mine})
  BY Zenon DEF Live!FirstFrom
<1> HIDE DEF mine
<1>5. Live!FirstFrom(source, key) = Live!Min(TimesOf(source, shreds[key]))
  BY <1>2, <1>4, Zenon
<1>6. QED
  BY <1>2, <1>3, <1>5

LEMMA SeenFacts ==
  ASSUME NEW source, NEW key \in DOMAIN read_shreds
  PROVE  /\ key \in Seen!ReceivedKeys(source) <=> TimesOf(source, read_shreds[key]) # {}
         /\ key \in Seen!ReceivedKeys(source)
              <=> \E a \in ArrivalsIn(read_shreds[key]) : a.source = source
         /\ Seen!FirstFrom(source, key) = Seen!Min(TimesOf(source, read_shreds[key]))
<1> DEFINE mine == Seen!ArrivalsOf(source, key)
<1>1. mine = {i \in DOMAIN read_shreds[key].arrivals : read_shreds[key].arrivals[i].source = source}
  BY DEF Seen!ArrivalsOf
<1>2. /\ mine # {} <=> \E a \in ArrivalsIn(read_shreds[key]) : a.source = source
      /\ mine # {} <=> TimesOf(source, read_shreds[key]) # {}
      /\ {read_shreds[key].arrivals[i].at : i \in mine} = TimesOf(source, read_shreds[key])
  BY <1>1, FromFacts
<1>3. key \in Seen!ReceivedKeys(source) <=> mine # {}
  BY DEF Seen!ReceivedKeys
<1>4. Seen!FirstFrom(source, key) = Seen!Min({read_shreds[key].arrivals[i].at : i \in mine})
  BY Zenon DEF Seen!FirstFrom
<1> HIDE DEF mine
<1>5. Seen!FirstFrom(source, key) = Seen!Min(TimesOf(source, read_shreds[key]))
  BY <1>2, <1>4, Zenon
<1>6. QED
  BY <1>2, <1>3, <1>5

LEMMA LogFacts ==
  ASSUME NEW source, NEW key \in DOMAIN logged, logged[key] \in ShredRecord,
         TimesOf(source, logged[key]) # {}
  PROVE  /\ LoggedFrom(source, key) # {}
         /\ LogArrival(source, key) \in TimesOf(source, logged[key])
         /\ \A at \in TimesOf(source, logged[key]) : LogArrival(source, key) <= at
<1> DEFINE mine  == LoggedFrom(source, key)
           times == TimesOf(source, logged[key])
           record == logged[key]
<1>1. /\ mine # {} /\ {record.arrivals[i].at : i \in mine} = times
  BY FromFacts DEF LoggedFrom
<1>2. times \in SUBSET Nat
  BY TimesAreNaturals
<1>3. /\ Live!Min(times) \in times
      /\ \A at \in times : Live!Min(times) <= at
  BY <1>2, MinFacts
<1>4. \E at \in {record.arrivals[i].at : i \in mine} : \A i \in mine : at <= record.arrivals[i].at
  BY <1>1, <1>3
<1>5. /\ LogArrival(source, key) \in {record.arrivals[i].at : i \in mine}
      /\ \A i \in mine : LogArrival(source, key) <= record.arrivals[i].at
  BY <1>4 DEF LogArrival
<1>6. QED
  BY <1>1, <1>5

-----------------------------------------------------------------------------
(* The registry keeps what it is told. *)

LEMMA AppendArrivals ==
  ASSUME NEW arrivals \in Seq(Arrival), NEW arrival \in Arrival,
         NEW old, old.arrivals = arrivals,
         NEW new, new.arrivals = Append(arrivals, arrival)
  PROVE  ArrivalsIn(new) = ArrivalsIn(old) \cup {arrival}
<1>1. /\ DOMAIN new.arrivals = 1..Len(arrivals) + 1 /\ Len(arrivals) \in Nat
      /\ DOMAIN old.arrivals = 1..Len(arrivals)
      /\ new.arrivals[Len(arrivals) + 1] = arrival
      /\ \A i \in 1..Len(arrivals) : new.arrivals[i] = old.arrivals[i]
  OBVIOUS
<1>2. ASSUME NEW a \in ArrivalsIn(new) PROVE a \in ArrivalsIn(old) \cup {arrival}
  BY <1>1 DEF ArrivalsIn
<1>3. ASSUME NEW a \in ArrivalsIn(old) PROVE a \in ArrivalsIn(new)
  BY <1>1 DEF ArrivalsIn
<1>4. arrival \in ArrivalsIn(new)
  BY <1>1 DEF ArrivalsIn
<1>5. QED
  BY <1>2, <1>3, <1>4

LEMMA UpsertGrows ==
  ASSUME ShredsOK, NEW event \in ShredEvent, UpsertShred(event)
  PROVE  /\ \A key \in DOMAIN shreds :
              key \in DOMAIN shreds' /\ Grows(shreds[key], shreds'[key])
         /\ event.key \in DOMAIN shreds'
         /\ ArrivalOf(event) \in ArrivalsIn(shreds'[event.key])
         /\ \A key \in DOMAIN shreds' : \A a \in ArrivalsIn(shreds'[key]) :
              \/ key \in DOMAIN shreds /\ a \in ArrivalsIn(shreds[key])
              \/ key = event.key /\ a = ArrivalOf(event)
<1> DEFINE arrival == ArrivalOf(event)
           old     == shreds[event.key]
           value   == IF event.key \in DOMAIN shreds
                        THEN [old EXCEPT !.arrivals = Append(@, arrival)]
                        ELSE [first_seen   |-> event.received_at,
                              first_source |-> event.source,
                              arrivals     |-> <<arrival>>]
<1>1. arrival \in Arrival
  BY DEF ArrivalOf, Arrival, ShredEvent
<1>2. shreds' = Put(shreds, event.key, value)
  BY DEF UpsertShred
<1>3. ASSUME event.key \in DOMAIN shreds
      PROVE  /\ value.first_seen = old.first_seen /\ value.first_source = old.first_source
             /\ ArrivalsIn(value) = ArrivalsIn(old) \cup {arrival}
  <2>1. old \in ShredRecord /\ old.arrivals \in Seq(Arrival)
    BY <1>3 DEF ShredsOK, IsMap, ShredRecord
  <2>2. /\ value.first_seen = old.first_seen /\ value.first_source = old.first_source
        /\ value.arrivals = Append(old.arrivals, arrival)
    BY <1>3, <2>1 DEF ShredRecord
  <2> HIDE DEF value
  <2>3. QED
    BY <1>1, <2>1, <2>2, AppendArrivals
<1>4. ASSUME event.key \notin DOMAIN shreds PROVE ArrivalsIn(value) = {arrival}
  <2>1. value.arrivals = <<arrival>>
    BY <1>4
  <2> HIDE DEF value
  <2>2. QED
    BY <2>1 DEF ArrivalsIn
<1> HIDE DEF value
<1>5. /\ DOMAIN shreds' = DOMAIN shreds \cup {event.key} /\ shreds'[event.key] = value
      /\ \A key \in DOMAIN shreds \ {event.key} : shreds'[key] = shreds[key]
  BY <1>2 DEF Put
<1>6. ASSUME NEW key \in DOMAIN shreds PROVE Grows(shreds[key], shreds'[key])
  BY <1>3, <1>5 DEF Grows
<1>7. arrival \in ArrivalsIn(value)
  BY <1>3, <1>4
<1>8. ASSUME NEW key \in DOMAIN shreds', NEW a \in ArrivalsIn(shreds'[key])
      PROVE  \/ key \in DOMAIN shreds /\ a \in ArrivalsIn(shreds[key])
             \/ key = event.key /\ a = arrival
  BY <1>3, <1>4, <1>5
<1>9. QED
  BY <1>5, <1>6, <1>7, <1>8

(* What a step of the aggregator leaves of what others have read. *)
ShredsGrow ==
  /\ heard \subseteq heard'
  /\ \A key \in DOMAIN shreds :
       key \in DOMAIN shreds' /\ Grows(shreds[key], shreds'[key])

LEMMA UnchangedGrows ==
  shreds' = shreds /\ heard' = heard =>
    ShredsGrow /\ (ArrivalsAreHeard => ArrivalsAreHeard')
BY DEF ShredsGrow, Grows, ArrivalsAreHeard

LEMMA AggregateGrows ==
  ASSUME MeasurementInv, ArrivalsAreHeard, MeasurementNext
  PROVE  ShredsGrow /\ ArrivalsAreHeard'
<1>1. ASSUME NEW e \in ShredInputs, TakeShred(e) PROVE ShredsGrow /\ ArrivalsAreHeard'
  <2>1. ShredsOK /\ e \in ShredEvent /\ UpsertShred(e) /\ heard' = heard \cup {e}
    BY <1>1, TypeSplits, InputsAreEvents DEF MeasurementInv, TakeShred
  <2>2. /\ \A key \in DOMAIN shreds :
              key \in DOMAIN shreds' /\ Grows(shreds[key], shreds'[key])
        /\ e.key \in DOMAIN shreds' /\ ArrivalOf(e) \in ArrivalsIn(shreds'[e.key])
        /\ \A key \in DOMAIN shreds' : \A a \in ArrivalsIn(shreds'[key]) :
             \/ key \in DOMAIN shreds /\ a \in ArrivalsIn(shreds[key])
             \/ key = e.key /\ a = ArrivalOf(e)
    BY <2>1, UpsertGrows
  <2>3. ShredsGrow
    BY <2>1, <2>2 DEF ShredsGrow
  <2>4. ASSUME NEW f \in heard'
        PROVE  f.key \in DOMAIN shreds' /\ ArrivalOf(f) \in ArrivalsIn(shreds'[f.key])
    BY <2>1, <2>2 DEF ArrivalsAreHeard, Grows
  <2>5. e = [source |-> ArrivalOf(e).source, key |-> e.key, received_at |-> ArrivalOf(e).at]
    BY <2>1 DEF ArrivalOf, ShredEvent
  <2>6. ASSUME NEW key \in DOMAIN shreds', NEW a \in ArrivalsIn(shreds'[key])
        PROVE  [source |-> a.source, key |-> key, received_at |-> a.at] \in heard'
    <3>1. CASE key \in DOMAIN shreds /\ a \in ArrivalsIn(shreds[key])
      BY <2>1, <3>1 DEF ArrivalsAreHeard
    <3>2. CASE key = e.key /\ a = ArrivalOf(e)
      BY <2>1, <2>5, <3>2
    <3>3. QED
      BY <2>2, <3>1, <3>2
  <2>7. QED
    BY <2>3, <2>4, <2>6 DEF ArrivalsAreHeard
<1>2. ASSUME NEW e \in ShredInputs, FinishShred(e) PROVE shreds' = shreds /\ heard' = heard
  BY <1>2 DEF FinishShred, historyVars
<1>3. ASSUME NEW e \in SlotInputs, TakeSlotEvent(e) PROVE shreds' = shreds /\ heard' = heard
  BY <1>3 DEF TakeSlotEvent, RecordSlotEvent
<1>4. ASSUME NEW source \in Sources, TakeSample(source, 0)
      PROVE  shreds' = shreds /\ heard' = heard
  BY <1>4 DEF TakeSample, RecordGrpcLatency
<1>5. QED
  BY <1>1, <1>2, <1>3, <1>4, UnchangedGrows DEF MeasurementNext

-----------------------------------------------------------------------------
(* The inductive invariant of the report.                                  *)

SlotsRead == step \in {"samples", "log", "done"}

(* The iterations have passed the segment. *)
InShreds(key) == ShredsRead \/ (step = "shreds" /\ ShredSegment[key] < segment)
InSlots(slot) == SlotsRead \/ (step = "slots" /\ SlotSegment[slot] < segment)
InLog(key)    == step = "done" \/ (step = "log" /\ ShredSegment[key] < segment)

StepOK ==
  /\ step \in {"recording", "counting", "shreds", "slots", "samples", "log", "done"}
  /\ segment \in 1..Segments /\ detached \in BOOLEAN /\ before \subseteq heard
  /\ step \in {"recording", "counting"} => read_shreds = NoMap
  /\ step \in {"recording", "counting", "samples"} => segment = 1
  /\ step = "recording" => ~detached /\ read_slots = NoMap /\ logged = NoMap
  /\ step # "recording" /\ ~detached => pending = {}

(* What an iteration has read of a record is what it was then. *)
ReadIsOlder ==
  \A key \in DOMAIN read_shreds :
    /\ key \in DOMAIN shreds /\ read_shreds[key] \in ShredRecord
    /\ Grows(read_shreds[key], shreds[key])
    /\ ~detached => read_shreds[key] = shreds[key]

LogIsNewer ==
  /\ \A key \in DOMAIN logged :
       logged[key] \in ShredRecord /\ (~detached => logged[key] = shreds[key])
  /\ \A key \in DOMAIN read_shreds :
       InLog(key) => key \in DOMAIN logged /\ Grows(read_shreds[key], logged[key])

BeforeIsRead ==
  \A e \in before :
    InShreds(e.key) => /\ e.key \in DOMAIN read_shreds
                       /\ ArrivalOf(e) \in ArrivalsIn(read_shreds[e.key])

SlotsAreRead ==
  ~detached =>
    /\ DOMAIN read_slots \subseteq DOMAIN slots
    /\ \A slot \in DOMAIN read_slots : read_slots[slot] = slots[slot]
    /\ \A slot \in DOMAIN slots : InSlots(slot) => slot \in DOMAIN read_slots

ReadInv == StepOK /\ ReadIsOlder /\ LogIsNewer /\ BeforeIsRead /\ SlotsAreRead
ReportInv == MeasurementInv /\ ArrivalsAreHeard /\ ReadInv

LEMMA ReportInitHolds == Init => ReportInv
<1> SUFFICES ASSUME Init PROVE ReportInv
  OBVIOUS
<1>1. MeasurementInv
  BY InitHolds DEF Init
<1>2. /\ heard = {} /\ pending = {} /\ shreds = NoMap /\ slots = NoMap
      /\ step = "recording" /\ segment = 1 /\ detached = FALSE /\ before = {}
      /\ read_shreds = NoMap /\ read_slots = NoMap /\ logged = NoMap
  BY DEF Init, MeasurementInit, RegistryInit
<1>3. DOMAIN NoMap = {}
  BY NoMapIsMap
<1>4. ArrivalsAreHeard /\ ReadIsOlder /\ LogIsNewer /\ BeforeIsRead /\ SlotsAreRead
  BY <1>2, <1>3 DEF ArrivalsAreHeard, ReadIsOlder, LogIsNewer, BeforeIsRead, SlotsAreRead
<1>5. 1 \in 1..Segments
  BY ReportAssumption
<1>6. StepOK
  BY <1>2, <1>5 DEF StepOK
<1>7. QED
  BY <1>1, <1>4, <1>6 DEF ReportInv, ReadInv

LEMMA WithSegmentFacts ==
  ASSUME NEW read, NEW map, NEW segment_of, NEW new, new = WithSegment(read, map, segment_of)
  PROVE  /\ \A k : k \in DOMAIN new
              <=> k \in DOMAIN read \/ (k \in DOMAIN map /\ segment_of[k] = segment)
         /\ \A k \in DOMAIN new : IF k \in DOMAIN map /\ segment_of[k] = segment
                                    THEN new[k] = map[k]
                                    ELSE k \in DOMAIN read /\ new[k] = read[k]
BY DEF WithSegment

LEMMA GrowsFacts ==
  /\ \A r : Grows(r, r)
  /\ \A r, s, t : Grows(r, s) /\ Grows(s, t) => Grows(r, t)
BY DEF Grows

(* An iteration is at its next segment, or has passed all of them. *)
LEMMA IterateFacts ==
  ASSUME segment \in 1..Segments, NEW next, IterateThen(next)
  PROVE  /\ segment' \in 1..Segments
         /\ step' = step \/ step' = next
         /\ \A n \in 1..Segments : step' = step /\ step # next /\ n < segment'
                                     => n < segment \/ n = segment
         /\ \A n \in 1..Segments : step' = next /\ step # next
                                     => segment' = 1 /\ (n < segment \/ n = segment)
BY ReportAssumption DEF IterateThen

LEMMA AggregateKeeps ==
  ASSUME ReportInv, Aggregate
  PROVE  ReportInv'
<1>1. MeasurementInv' /\ ShredsGrow /\ ArrivalsAreHeard'
  BY AggregateGrows, MeasurementStepKeeps DEF ReportInv, Aggregate
<1>2. /\ step' = step /\ segment' = segment /\ detached' = detached /\ before' = before
      /\ read_shreds' = read_shreds /\ read_slots' = read_slots /\ logged' = logged
  BY DEF Aggregate, reportVars, readVars
<1>3. StepOK /\ ReadIsOlder /\ LogIsNewer /\ BeforeIsRead /\ SlotsAreRead
  BY DEF ReportInv, ReadInv
<1>4. StepOK'
  BY <1>1, <1>2, <1>3 DEF StepOK, Aggregate, ShredsGrow
<1>5. BeforeIsRead'
  BY <1>2, <1>3 DEF BeforeIsRead, InShreds, ShredsRead
<1>6. CASE step = "recording"
  <2>1. DOMAIN read_shreds = {} /\ DOMAIN logged = {} /\ DOMAIN read_slots = {}
    BY <1>3, <1>6, NoMapIsMap DEF StepOK
  <2>2. ReadIsOlder' /\ LogIsNewer'
    BY <1>2, <2>1 DEF ReadIsOlder, LogIsNewer
  <2>3. SlotsAreRead'
    BY <1>2, <1>6, <2>1 DEF SlotsAreRead, InSlots, SlotsRead
  <2>4. QED
    BY <1>1, <1>4, <1>5, <2>2, <2>3 DEF ReportInv, ReadInv
<1>7. CASE detached
  <2>1. ReadIsOlder'
    BY <1>1, <1>2, <1>3, <1>7, GrowsFacts DEF ReadIsOlder, ShredsGrow
  <2>2. LogIsNewer' /\ SlotsAreRead'
    BY <1>2, <1>3, <1>7 DEF LogIsNewer, InLog, SlotsAreRead
  <2>3. QED
    BY <1>1, <1>4, <1>5, <2>1, <2>2 DEF ReportInv, ReadInv
<1>8. QED
  BY <1>6, <1>7 DEF Aggregate

LEMMA SegmentFacts ==
  ASSUME MeasurementInv
  PROVE  /\ \A key \in DOMAIN shreds : ShredSegment[key] \in 1..Segments
         /\ \A e \in heard : ShredSegment[e.key] \in 1..Segments
         /\ \A slot \in DOMAIN slots : SlotSegment[slot] \in 1..Segments
<1>1. DOMAIN shreds \subseteq ShredKey /\ DOMAIN slots \subseteq Slots /\ heard \subseteq ShredInputs
  BY TypeSplits DEF MeasurementInv, ShredsOK, IsMap, SlotsOK, HistoryOK
<1>2. \A e \in heard : e.key \in ShredKey
  BY <1>1 DEF ShredInputs
<1>3. QED
  BY <1>1, <1>2, ReportAssumption

(* main only reads the registry. *)
LEMMA MainReads ==
  ASSUME ReportInv, measurementVars' = measurementVars
  PROVE  /\ MeasurementInv' /\ ArrivalsAreHeard'
         /\ pending' = pending /\ heard' = heard /\ shreds' = shreds /\ slots' = slots
<1>1. pending' = pending /\ heard' = heard /\ shreds' = shreds /\ slots' = slots
  BY DEF measurementVars, registryVars, historyVars
<1>2. QED
  BY <1>1, StutterKeeps, UnchangedGrows DEF ReportInv

LEMMA EndWaitKeeps ==
  ASSUME ReportInv, EndWait
  PROVE  ReportInv'
<1>1. StepOK
  BY DEF ReportInv, ReadInv
<1>2. /\ step = "recording" /\ step' = "counting" /\ before' = heard
      /\ detached' \in BOOLEAN /\ (~detached' => pending = {})
      /\ measurementVars' = measurementVars /\ segment' = segment
      /\ read_shreds' = read_shreds /\ read_slots' = read_slots /\ logged' = logged
  BY DEF EndWait, readVars
<1>3. /\ MeasurementInv' /\ ArrivalsAreHeard'
      /\ pending' = pending /\ heard' = heard /\ shreds' = shreds /\ slots' = slots
  BY <1>2, MainReads
<1>4. DOMAIN read_shreds' = {} /\ DOMAIN logged' = {} /\ DOMAIN read_slots' = {}
  BY <1>1, <1>2, NoMapIsMap DEF StepOK
<1>5. ReadIsOlder' /\ LogIsNewer'
  BY <1>4 DEF ReadIsOlder, LogIsNewer
<1>6. BeforeIsRead' /\ SlotsAreRead'
  BY <1>2, <1>4 DEF BeforeIsRead, InShreds, ShredsRead, SlotsAreRead, InSlots, SlotsRead
<1>7. StepOK'
  BY <1>1, <1>2, <1>3 DEF StepOK
<1>8. QED
  BY <1>3, <1>5, <1>6, <1>7 DEF ReportInv, ReadInv

(* The two steps that read neither map. *)
LEMMA QuietKeeps ==
  ASSUME ReportInv, CountShreds \/ ReadSamples
  PROVE  ReportInv'
<1>1. /\ measurementVars' = measurementVars /\ segment' = segment /\ detached' = detached
      /\ read_shreds' = read_shreds /\ read_slots' = read_slots /\ logged' = logged
      /\ before' = before
      /\ \/ step = "counting" /\ step' = "shreds"
         \/ step = "samples" /\ step' = "log"
  BY DEF CountShreds, ReadSamples
<1>2. /\ MeasurementInv' /\ ArrivalsAreHeard'
      /\ pending' = pending /\ heard' = heard /\ shreds' = shreds /\ slots' = slots
  BY <1>1, MainReads
<1>3. StepOK /\ ReadIsOlder /\ LogIsNewer /\ BeforeIsRead /\ SlotsAreRead
  BY DEF ReportInv, ReadInv
<1>4. StepOK'
  BY <1>1, <1>2, <1>3 DEF StepOK
<1>5. ReadIsOlder'
  BY <1>1, <1>2, <1>3 DEF ReadIsOlder
<1>6. segment = 1 /\ 1 \in 1..Segments
  BY <1>1, <1>3, ReportAssumption DEF StepOK
<1>7. ASSUME NEW n \in 1..Segments PROVE ~(n < segment')
  BY <1>1, <1>6
<1>8. LogIsNewer'
  <2>1. \A key \in DOMAIN read_shreds : ShredSegment[key] \in 1..Segments
    BY <1>3, SegmentFacts DEF ReadIsOlder, ReportInv
  <2>2. \A key \in DOMAIN read_shreds : ~InLog(key)'
    BY <1>1, <1>7, <2>1 DEF InLog
  <2>3. QED
    BY <1>1, <1>2, <1>3, <2>2 DEF LogIsNewer
<1>9. BeforeIsRead'
  <2>1. \A e \in before : ShredSegment[e.key] \in 1..Segments
    BY <1>3, SegmentFacts DEF StepOK, ReportInv
  <2>2. \A e \in before : InShreds(e.key)' => InShreds(e.key)
    BY <1>1, <1>7, <2>1 DEF InShreds, ShredsRead
  <2>3. QED
    BY <1>1, <1>2, <1>3, <2>2 DEF BeforeIsRead
<1>10. SlotsAreRead'
  BY <1>1, <1>2, <1>3 DEF SlotsAreRead, InSlots, SlotsRead
<1>11. QED
  BY <1>2, <1>4, <1>5, <1>8, <1>9, <1>10 DEF ReportInv, ReadInv

LEMMA ReadShredsKeeps ==
  ASSUME ReportInv, ReadShreds
  PROVE  ReportInv'
<1>1. /\ step = "shreds" /\ IterateThen("slots") /\ measurementVars' = measurementVars
      /\ detached' = detached /\ before' = before /\ read_slots' = read_slots
      /\ logged' = logged /\ read_shreds' = WithSegment(read_shreds, shreds, ShredSegment)
  BY DEF ReadShreds
<1>2. /\ MeasurementInv' /\ ArrivalsAreHeard'
      /\ pending' = pending /\ heard' = heard /\ shreds' = shreds /\ slots' = slots
  BY <1>1, MainReads
<1>3. StepOK /\ ReadIsOlder /\ LogIsNewer /\ BeforeIsRead /\ SlotsAreRead /\ ArrivalsAreHeard
  BY DEF ReportInv, ReadInv
<1>4. /\ segment' \in 1..Segments /\ (step' = "shreds" \/ step' = "slots")
      /\ \A n \in 1..Segments : n < segment' /\ step' = "shreds" => n < segment \/ n = segment
      /\ \A n \in 1..Segments : step' = "slots" => segment' = 1 /\ (n < segment \/ n = segment)
  <2>1. segment \in 1..Segments
    BY <1>3 DEF StepOK
  <2>2. "shreds" # "slots"
    OBVIOUS
  <2>3. QED
    BY <1>1, <2>1, <2>2, IterateFacts
<1>5. StepOK'
  BY <1>1, <1>2, <1>3, <1>4 DEF StepOK
<1>6. /\ \A k : k \in DOMAIN read_shreds'
              <=> k \in DOMAIN read_shreds \/ (k \in DOMAIN shreds /\ ShredSegment[k] = segment)
      /\ \A k \in DOMAIN read_shreds' : IF k \in DOMAIN shreds /\ ShredSegment[k] = segment
                                    THEN read_shreds'[k] = shreds[k]
                                    ELSE k \in DOMAIN read_shreds /\ read_shreds'[k] = read_shreds[k]
  BY <1>1, WithSegmentFacts
<1>7. \A k \in DOMAIN shreds : shreds[k] \in ShredRecord
  BY TypeSplits DEF ReportInv, MeasurementInv, ShredsOK, IsMap
<1>8. ReadIsOlder'
  <2> SUFFICES ASSUME NEW key \in DOMAIN read_shreds'
               PROVE  /\ key \in DOMAIN shreds /\ read_shreds'[key] \in ShredRecord
                      /\ Grows(read_shreds'[key], shreds[key])
                      /\ ~detached => read_shreds'[key] = shreds[key]
    BY <1>1, <1>2 DEF ReadIsOlder
  <2>1. CASE key \in DOMAIN shreds /\ ShredSegment[key] = segment
    BY <1>6, <1>7, <2>1, GrowsFacts
  <2>2. CASE ~(key \in DOMAIN shreds /\ ShredSegment[key] = segment)
    BY <1>3, <1>6, <2>2 DEF ReadIsOlder
  <2>3. QED
    BY <2>1, <2>2
<1>9. LogIsNewer'
  BY <1>1, <1>2, <1>3, <1>4 DEF LogIsNewer, InLog
<1>10. BeforeIsRead'
  <2> SUFFICES ASSUME NEW e \in before, InShreds(e.key)'
               PROVE  /\ e.key \in DOMAIN read_shreds'
                      /\ ArrivalOf(e) \in ArrivalsIn(read_shreds'[e.key])
    BY <1>1 DEF BeforeIsRead
  <2>1. /\ e \in heard /\ e.key \in DOMAIN shreds
        /\ ArrivalOf(e) \in ArrivalsIn(shreds[e.key]) /\ ShredSegment[e.key] \in 1..Segments
    BY <1>3, SegmentFacts DEF StepOK, ArrivalsAreHeard, ReportInv
  <2>2. ShredSegment[e.key] < segment \/ ShredSegment[e.key] = segment
    BY <1>4, <2>1 DEF InShreds, ShredsRead
  <2>3. CASE ShredSegment[e.key] = segment
    BY <1>6, <2>1, <2>3
  <2>4. CASE ShredSegment[e.key] < segment /\ ShredSegment[e.key] # segment
    <3>1. InShreds(e.key)
      BY <1>1, <2>4 DEF InShreds
    <3>2. e.key \in DOMAIN read_shreds /\ ArrivalOf(e) \in ArrivalsIn(read_shreds[e.key])
      BY <1>3, <3>1 DEF BeforeIsRead
    <3>3. QED
      BY <1>6, <2>4, <3>2
  <2>5. QED
    BY <2>2, <2>3, <2>4
<1>11. SlotsAreRead'
  <2>1. \A slot \in DOMAIN slots : ~InSlots(slot)'
    BY <1>4, SegmentFacts DEF InSlots, SlotsRead, ReportInv
  <2>2. QED
    BY <1>1, <1>2, <1>3, <2>1 DEF SlotsAreRead
<1>12. QED
  BY <1>2, <1>5, <1>8, <1>9, <1>10, <1>11 DEF ReportInv, ReadInv

LEMMA ReadSlotsKeeps ==
  ASSUME ReportInv, ReadSlots
  PROVE  ReportInv'
<1>1. /\ step = "slots" /\ IterateThen("samples") /\ measurementVars' = measurementVars
      /\ detached' = detached /\ before' = before /\ read_shreds' = read_shreds
      /\ logged' = logged /\ read_slots' = WithSegment(read_slots, slots, SlotSegment)
  BY DEF ReadSlots
<1>2. /\ MeasurementInv' /\ ArrivalsAreHeard'
      /\ pending' = pending /\ heard' = heard /\ shreds' = shreds /\ slots' = slots
  BY <1>1, MainReads
<1>3. StepOK /\ ReadIsOlder /\ LogIsNewer /\ BeforeIsRead /\ SlotsAreRead
  BY DEF ReportInv, ReadInv
<1>4. /\ segment' \in 1..Segments /\ (step' = "slots" \/ step' = "samples")
      /\ \A n \in 1..Segments : n < segment' /\ step' = "slots" => n < segment \/ n = segment
      /\ \A n \in 1..Segments : step' = "samples" => segment' = 1 /\ (n < segment \/ n = segment)
  <2>1. segment \in 1..Segments
    BY <1>3 DEF StepOK
  <2>2. "slots" # "samples"
    OBVIOUS
  <2>3. QED
    BY <1>1, <2>1, <2>2, IterateFacts
<1>5. step' = "samples" => segment' = 1
  BY <1>1 DEF IterateThen
<1>6. StepOK'
  BY <1>1, <1>2, <1>3, <1>4, <1>5 DEF StepOK
<1>7. /\ \A k : k \in DOMAIN read_slots'
              <=> k \in DOMAIN read_slots \/ (k \in DOMAIN slots /\ SlotSegment[k] = segment)
      /\ \A k \in DOMAIN read_slots' : IF k \in DOMAIN slots /\ SlotSegment[k] = segment
                                    THEN read_slots'[k] = slots[k]
                                    ELSE k \in DOMAIN read_slots /\ read_slots'[k] = read_slots[k]
  BY <1>1, WithSegmentFacts
<1>8. ReadIsOlder' /\ LogIsNewer' /\ BeforeIsRead'
  BY <1>1, <1>2, <1>3, <1>4 DEF ReadIsOlder, LogIsNewer, InLog, BeforeIsRead, InShreds, ShredsRead
<1>9. SlotsAreRead'
  <2> SUFFICES ASSUME ~detached
               PROVE  /\ DOMAIN read_slots' \subseteq DOMAIN slots
                      /\ \A slot \in DOMAIN read_slots' : read_slots'[slot] = slots[slot]
                      /\ \A slot \in DOMAIN slots : InSlots(slot)' => slot \in DOMAIN read_slots'
    BY <1>1, <1>2 DEF SlotsAreRead
  <2>1. /\ DOMAIN read_slots \subseteq DOMAIN slots
        /\ \A slot \in DOMAIN read_slots : read_slots[slot] = slots[slot]
        /\ \A slot \in DOMAIN slots : InSlots(slot) => slot \in DOMAIN read_slots
    BY <1>3 DEF SlotsAreRead
  <2>2. ASSUME NEW slot \in DOMAIN slots, InSlots(slot)' PROVE slot \in DOMAIN read_slots'
    <3>1. SlotSegment[slot] \in 1..Segments
      BY SegmentFacts DEF ReportInv
    <3>2. SlotSegment[slot] < segment \/ SlotSegment[slot] = segment
      BY <1>4, <2>2, <3>1 DEF InSlots, SlotsRead
    <3>3. QED
      BY <1>1, <1>7, <2>1, <3>2 DEF InSlots
  <2>3. QED
    BY <1>7, <2>1, <2>2
<1>10. QED
  BY <1>2, <1>6, <1>8, <1>9 DEF ReportInv, ReadInv

LEMMA WriteLogKeeps ==
  ASSUME ReportInv, WriteLog
  PROVE  ReportInv'
<1>1. /\ step = "log" /\ IterateThen("done") /\ measurementVars' = measurementVars
      /\ detached' = detached /\ before' = before /\ read_shreds' = read_shreds
      /\ read_slots' = read_slots /\ logged' = WithSegment(logged, shreds, ShredSegment)
  BY DEF WriteLog
<1>2. /\ MeasurementInv' /\ ArrivalsAreHeard'
      /\ pending' = pending /\ heard' = heard /\ shreds' = shreds /\ slots' = slots
  BY <1>1, MainReads
<1>3. StepOK /\ ReadIsOlder /\ LogIsNewer /\ BeforeIsRead /\ SlotsAreRead
  BY DEF ReportInv, ReadInv
<1>4. /\ segment' \in 1..Segments /\ (step' = "log" \/ step' = "done")
      /\ \A n \in 1..Segments : n < segment' /\ step' = "log" => n < segment \/ n = segment
      /\ \A n \in 1..Segments : step' = "done" => segment' = 1 /\ (n < segment \/ n = segment)
  <2>1. segment \in 1..Segments
    BY <1>3 DEF StepOK
  <2>2. "log" # "done"
    OBVIOUS
  <2>3. QED
    BY <1>1, <2>1, <2>2, IterateFacts
<1>5. StepOK'
  BY <1>1, <1>2, <1>3, <1>4 DEF StepOK
<1>6. /\ \A k : k \in DOMAIN logged'
              <=> k \in DOMAIN logged \/ (k \in DOMAIN shreds /\ ShredSegment[k] = segment)
      /\ \A k \in DOMAIN logged' : IF k \in DOMAIN shreds /\ ShredSegment[k] = segment
                                    THEN logged'[k] = shreds[k]
                                    ELSE k \in DOMAIN logged /\ logged'[k] = logged[k]
  BY <1>1, WithSegmentFacts
<1>7. \A k \in DOMAIN shreds : shreds[k] \in ShredRecord
  BY TypeSplits DEF ReportInv, MeasurementInv, ShredsOK, IsMap
<1>8. ReadIsOlder' /\ BeforeIsRead' /\ SlotsAreRead'
  BY <1>1, <1>2, <1>3, <1>4 DEF ReadIsOlder, BeforeIsRead, InShreds, ShredsRead,
                                SlotsAreRead, InSlots, SlotsRead
<1>9. LogIsNewer'
  <2>1. ASSUME NEW key \in DOMAIN logged'
        PROVE  logged'[key] \in ShredRecord /\ (~detached => logged'[key] = shreds[key])
    <3>1. CASE key \in DOMAIN shreds /\ ShredSegment[key] = segment
      BY <1>6, <1>7, <3>1
    <3>2. CASE ~(key \in DOMAIN shreds /\ ShredSegment[key] = segment)
      BY <1>3, <1>6, <3>2 DEF LogIsNewer
    <3>3. QED
      BY <3>1, <3>2
  <2>2. ASSUME NEW key \in DOMAIN read_shreds, InLog(key)'
        PROVE  key \in DOMAIN logged' /\ Grows(read_shreds[key], logged'[key])
    <3>1. key \in DOMAIN shreds /\ Grows(read_shreds[key], shreds[key])
      BY <1>3 DEF ReadIsOlder
    <3>2. ShredSegment[key] \in 1..Segments
      BY <3>1, SegmentFacts DEF ReportInv
    <3>3. ShredSegment[key] < segment \/ ShredSegment[key] = segment
      BY <1>4, <2>2, <3>2 DEF InLog
    <3>4. CASE ShredSegment[key] = segment
      BY <1>6, <3>1, <3>4
    <3>5. CASE ShredSegment[key] < segment /\ ShredSegment[key] # segment
      <4>1. InLog(key)
        BY <1>1, <3>5 DEF InLog
      <4>2. key \in DOMAIN logged /\ Grows(read_shreds[key], logged[key])
        BY <1>3, <4>1 DEF LogIsNewer
      <4>3. QED
        BY <1>6, <3>5, <4>2
    <3>6. QED
      BY <3>3, <3>4, <3>5
  <2>3. QED
    BY <1>1, <1>2, <2>1, <2>2 DEF LogIsNewer
<1>10. QED
  BY <1>2, <1>5, <1>8, <1>9 DEF ReportInv, ReadInv

LEMMA ReportStutterKeeps == ReportInv /\ UNCHANGED vars => ReportInv'
<1> SUFFICES ASSUME ReportInv, UNCHANGED vars PROVE ReportInv'
  OBVIOUS
<1>1. /\ measurementVars' = measurementVars /\ step' = step /\ segment' = segment
      /\ detached' = detached /\ before' = before /\ read_shreds' = read_shreds
      /\ read_slots' = read_slots /\ logged' = logged
  BY DEF vars, reportVars, readVars
<1>2. /\ MeasurementInv' /\ ArrivalsAreHeard'
      /\ pending' = pending /\ heard' = heard /\ shreds' = shreds /\ slots' = slots
  BY <1>1, MainReads
<1>3. StepOK /\ ReadIsOlder /\ LogIsNewer /\ BeforeIsRead /\ SlotsAreRead
  BY DEF ReportInv, ReadInv
<1>4. StepOK' /\ ReadIsOlder'
  BY <1>1, <1>2, <1>3 DEF StepOK, ReadIsOlder
<1>5. LogIsNewer' /\ BeforeIsRead'
  BY <1>1, <1>2, <1>3 DEF LogIsNewer, InLog, BeforeIsRead, InShreds, ShredsRead
<1>6. SlotsAreRead'
  BY <1>1, <1>2, <1>3 DEF SlotsAreRead, InSlots, SlotsRead
<1>7. QED
  BY <1>2, <1>4, <1>5, <1>6 DEF ReportInv, ReadInv

LEMMA ReportInvHolds == Spec => []ReportInv
<1>1. Init => ReportInv
  BY ReportInitHolds
<1>2. ReportInv /\ [Next]_vars => ReportInv'
  BY AggregateKeeps, EndWaitKeeps, QuietKeeps, ReadShredsKeeps, ReadSlotsKeeps,
     WriteLogKeeps, ReportStutterKeeps DEF Next, Report
<1>3. QED
  BY <1>1, <1>2, PTL DEF Spec

-----------------------------------------------------------------------------
(* What the report says follows from the invariant. *)

LEMMA GenerousFollows == ReportInv => ReportIsGenerous
<1> SUFFICES ASSUME ReportInv, NEW key \in DOMAIN shreds
             PROVE  LET events == {e \in heard : e.key = key}
                        first  == Live!Min({e.received_at : e \in events})
                    IN /\ \A e \in events : e.received_at = first => Live!Won(e.source, key)
                       /\ \A source \in Sources :
                            key \in Live!ReceivedKeys(source) =>
                              Live!Delta(source, key) <= Live!FirstFrom(source, key) - first
  BY DEF ReportIsGenerous
<1> DEFINE events == {e \in heard : e.key = key}
           times  == {e.received_at : e \in events}
           first  == Live!Min(times)
           record == shreds[key]
<1>1. /\ record \in ShredRecord /\ record.arrivals # <<>> /\ record.arrivals \in Seq(Arrival)
      /\ Head(record.arrivals) = [source |-> record.first_source, at |-> record.first_seen]
      /\ record.first_seen \in Nat
  BY TypeSplits DEF ReportInv, MeasurementInv, ShredsOK, IsMap, ShredRecord
<1>2. \A e \in heard : e.received_at \in Nat
  BY TypeSplits, InputsAreEvents DEF ReportInv, MeasurementInv, HistoryOK, ShredEvent
<1>3. \A a \in ArrivalsIn(record) : a.at \in times
  <2> SUFFICES ASSUME NEW a \in ArrivalsIn(record) PROVE a.at \in times
    OBVIOUS
  <2> DEFINE e == [source |-> a.source, key |-> key, received_at |-> a.at]
  <2>1. e \in heard
    BY DEF ArrivalsAreHeard, ReportInv
  <2>2. e.key = key /\ e.received_at = a.at
    OBVIOUS
  <2> HIDE DEF e
  <2>3. QED
    BY <2>1, <2>2
<1>4. record.first_seen \in times
  <2>1. 1 \in DOMAIN record.arrivals /\ record.arrivals[1] = Head(record.arrivals)
    BY <1>1
  <2>2. Head(record.arrivals) \in ArrivalsIn(record)
    BY <2>1 DEF ArrivalsIn
  <2>3. QED
    BY <1>1, <1>3, <2>2
<1>5. times \in SUBSET Nat
  BY <1>2
<1>6. first \in Nat /\ \A n \in times : first <= n
  BY <1>4, <1>5, MinFacts
<1> HIDE DEF first
<1>7. ASSUME NEW source, TimesOf(source, record) # {}
      PROVE  /\ Live!FirstFrom(source, key) \in TimesOf(source, record)
             /\ Live!FirstFrom(source, key) \in Nat
             /\ \A n \in TimesOf(source, record) : Live!FirstFrom(source, key) <= n
  <2>1. TimesOf(source, record) \in SUBSET Nat
    BY <1>1, TimesAreNaturals
  <2>2. Live!FirstFrom(source, key) = Live!Min(TimesOf(source, record))
    BY LiveFacts
  <2>3. QED
    BY <1>7, <2>1, <2>2, MinFacts
<1>8. ASSUME NEW e \in events, e.received_at = first PROVE Live!Won(e.source, key)
  <2>1. ArrivalOf(e) \in ArrivalsIn(record)
    BY DEF ArrivalsAreHeard, ReportInv
  <2>2. e.received_at \in TimesOf(e.source, record)
    BY <2>1 DEF TimesOf, ArrivalOf
  <2>3. key \in Live!ReceivedKeys(e.source)
    BY <2>2, LiveFacts
  <2>4. Live!FirstFrom(e.source, key) <= first /\ Live!FirstFrom(e.source, key) \in Nat
    BY <1>7, <1>8, <2>2
  <2>5. first <= record.first_seen
    BY <1>4, <1>6
  <2>6. record.first_seen \in Nat
    BY <1>1
  <2>7. Live!FirstFrom(e.source, key) <= record.first_seen
    BY <1>6, <2>4, <2>5, <2>6
  <2>8. Live!Delta(e.source, key) = 0
    BY <2>4, <2>6, <2>7, SinceFacts DEF Live!Delta
  <2>9. QED
    BY <2>3, <2>8 DEF Live!Won
<1>9. ASSUME NEW source \in Sources, key \in Live!ReceivedKeys(source)
      PROVE  Live!Delta(source, key) <= Live!FirstFrom(source, key) - first
  <2>1. TimesOf(source, record) # {}
    BY <1>9, LiveFacts
  <2>2. Live!FirstFrom(source, key) \in Nat /\ first <= Live!FirstFrom(source, key)
    BY <1>3, <1>6, <1>7, <2>1 DEF TimesOf
  <2>3. QED
    BY <1>1, <1>4, <1>6, <2>2, SinceFacts DEF Live!Delta
<1>10. QED
  BY <1>8, <1>9 DEF first

LEMMA CurrentFollows == ReportInv => ReportIsCurrent
<1> SUFFICES ASSUME ReportInv, ShredsRead, NEW source \in Sources
             PROVE  /\ HeardKeys(source, before) \subseteq Seen!ReceivedKeys(source)
                    /\ Seen!ReceivedKeys(source) \subseteq HeardKeys(source, heard)
  BY DEF ReportIsCurrent
<1>1. ReadIsOlder /\ BeforeIsRead /\ ArrivalsAreHeard
  BY DEF ReportInv, ReadInv
<1>2. ASSUME NEW e \in before, e.source = source PROVE e.key \in Seen!ReceivedKeys(source)
  <2>1. e.key \in DOMAIN read_shreds /\ ArrivalOf(e) \in ArrivalsIn(read_shreds[e.key])
    BY <1>1 DEF BeforeIsRead, InShreds
  <2>2. ArrivalOf(e).source = source
    BY <1>2 DEF ArrivalOf
  <2>3. QED
    BY <2>1, <2>2, SeenFacts
<1>3. ASSUME NEW key \in Seen!ReceivedKeys(source) PROVE key \in HeardKeys(source, heard)
  <2>1. key \in DOMAIN read_shreds
    BY <1>3 DEF Seen!ReceivedKeys
  <2>2. PICK a \in ArrivalsIn(read_shreds[key]) : a.source = source
    BY <1>3, <2>1, SeenFacts
  <2>3. key \in DOMAIN shreds /\ a \in ArrivalsIn(shreds[key])
    BY <1>1, <2>1 DEF ReadIsOlder, Grows
  <2> DEFINE e == [source |-> a.source, key |-> key, received_at |-> a.at]
  <2>4. e \in heard
    BY <1>1, <2>3 DEF ArrivalsAreHeard
  <2>5. e.source = source /\ e.key = key
    BY <2>2
  <2> HIDE DEF e
  <2>6. QED
    BY <2>4, <2>5 DEF HeardKeys
<1>4. QED
  BY <1>2, <1>3 DEF HeardKeys

LEMMA LogFollows == ReportInv => LogConfirmsReport
<1> SUFFICES ASSUME ReportInv, step = "done", NEW source \in Sources,
                    NEW key \in Seen!ReceivedKeys(source)
             PROVE  /\ key \in DOMAIN logged /\ LoggedFrom(source, key) # {}
                    /\ logged[key].first_source = read_shreds[key].first_source
                    /\ DeltaNs(source, key) <= Seen!Delta(source, key)
                    /\ ~detached => DeltaNs(source, key) = Seen!Delta(source, key)
  BY DEF LogConfirmsReport
<1>1. key \in DOMAIN read_shreds
  BY DEF Seen!ReceivedKeys
<1>2. /\ key \in DOMAIN logged /\ Grows(read_shreds[key], logged[key])
      /\ logged[key] \in ShredRecord /\ read_shreds[key] \in ShredRecord
      /\ ~detached => logged[key] = read_shreds[key]
  BY <1>1 DEF ReportInv, ReadInv, LogIsNewer, ReadIsOlder, InLog
<1> DEFINE read   == TimesOf(source, read_shreds[key])
           lines  == TimesOf(source, logged[key])
           table  == Seen!FirstFrom(source, key)
           log    == LogArrival(source, key)
<1>3. read # {} /\ table = Seen!Min(read)
  BY <1>1, SeenFacts
<1>4. read \subseteq lines
  BY <1>2 DEF TimesOf, Grows
<1>5. read \in SUBSET Nat /\ lines \in SUBSET Nat
  BY <1>2, TimesAreNaturals
<1>6. table \in read /\ table \in Nat /\ \A n \in read : table <= n
  BY <1>3, <1>5, SeenMinFacts
<1>7. /\ LoggedFrom(source, key) # {} /\ log \in lines /\ \A n \in lines : log <= n
  BY <1>2, <1>3, <1>4, LogFacts
<1> HIDE DEF table, log, read, lines
<1>8. log <= table /\ log \in Nat
  BY <1>4, <1>5, <1>6, <1>7
<1>9. logged[key].first_seen = read_shreds[key].first_seen /\ read_shreds[key].first_seen \in Nat
  BY <1>2 DEF Grows, ShredRecord
<1>10. /\ DeltaNs(source, key) = Live!Since(log, logged[key].first_seen)
       /\ Seen!Delta(source, key) = Seen!Since(table, read_shreds[key].first_seen)
  BY DEF DeltaNs, Seen!Delta, log, table
<1>11. DeltaNs(source, key) <= Seen!Delta(source, key)
  <2> DEFINE seen == read_shreds[key].first_seen
  <2>1. seen \in Nat /\ DeltaNs(source, key) = Live!Since(log, seen)
    BY <1>9, <1>10
  <2>2. Seen!Delta(source, key) = Live!Since(table, seen)
    BY <1>6, <1>10, <2>1, SinceFacts
  <2> HIDE DEF seen
  <2>3. Live!Since(log, seen) <= Live!Since(table, seen)
    BY <1>6, <1>8, <2>1, SinceFacts
  <2>4. QED
    BY <2>1, <2>2, <2>3
<1>12. ASSUME ~detached PROVE DeltaNs(source, key) = Seen!Delta(source, key)
  <2>1. read = lines
    BY <1>2, <1>12 DEF read, lines
  <2>2. log = table
    BY <1>6, <1>7, <1>8, <2>1
  <2>3. QED
    BY <1>6, <1>9, <1>10, <2>2, SinceFacts
<1>13. logged[key].first_source = read_shreds[key].first_source
  BY <1>2 DEF Grows
<1>14. QED
  BY <1>2, <1>7, <1>11, <1>12, <1>13

LEMMA EntriesFollow == ReportInv => EntriesAreHonest
<1> SUFFICES ASSUME ReportInv, SlotsRead, ~detached, NEW source \in Sources
             PROVE  /\ Seen!SlotsSeen(source)
                         = {e.slot : e \in {f \in heardSlots : f.source = source}}
                    /\ \A slot \in Seen!SlotsSeen(source) :
                         LET first == Seen!Min({e.received_at : e \in EntriesOf(source, slot)}) IN
                         \A e \in ShredsOf(slot) :
                           Seen!EntryLatencies(source)[slot] >= Seen!Since(first, e.received_at)
  BY DEF EntriesAreHonest, SlotsRead
<1>1. /\ DOMAIN read_slots = DOMAIN slots /\ pending = {}
      /\ \A slot \in DOMAIN slots : read_slots[slot] = slots[slot]
  BY DEF ReportInv, ReadInv, SlotsAreRead, InSlots, StepOK, SlotsRead
<1>2. /\ SlotsOK /\ HistoryOK /\ SlotFloor /\ EntryIsEarliest /\ Settled = heard
  BY <1>1, TypeSplits DEF ReportInv, MeasurementInv, Settled
<1>3. ASSUME NEW slot
      PROVE  slot \in Seen!SlotsSeen(source) <=> slot \in Slots /\ EntriesOf(source, slot) # {}
  <2>1. slot \in Seen!SlotsSeen(source)
          <=> slot \in DOMAIN slots /\ source \in DOMAIN slots[slot].entry_arrivals
    BY <1>1 DEF Seen!SlotsSeen
  <2>2. DOMAIN slots \subseteq Slots
    BY <1>2 DEF SlotsOK
  <2>3. QED
    BY <1>2, <2>1, <2>2 DEF EntryIsEarliest
<1>4. \A e \in heardSlots : e.slot \in Slots /\ e.received_at \in Nat
  BY <1>2, InputsAreEvents DEF HistoryOK, SlotEvent
<1>5. Seen!SlotsSeen(source) = {e.slot : e \in {f \in heardSlots : f.source = source}}
  <2>1. ASSUME NEW slot \in Seen!SlotsSeen(source)
        PROVE  slot \in {e.slot : e \in {f \in heardSlots : f.source = source}}
    BY <1>3, <2>1 DEF EntriesOf
  <2>2. ASSUME NEW e \in heardSlots, e.source = source PROVE e.slot \in Seen!SlotsSeen(source)
    <3>1. e \in EntriesOf(source, e.slot)
      BY <2>2 DEF EntriesOf
    <3>2. QED
      BY <1>3, <1>4, <3>1
  <2>3. QED
    BY <2>1, <2>2
<1>6. ASSUME NEW slot \in Seen!SlotsSeen(source), NEW e \in ShredsOf(slot)
      PROVE  Seen!EntryLatencies(source)[slot]
               >= Seen!Since(Seen!Min({f.received_at : f \in EntriesOf(source, slot)}), e.received_at)
  <2> DEFINE times == {f.received_at : f \in EntriesOf(source, slot)}
             entry == slots[slot].entry_arrivals[source]
             floor == slots[slot].first_shred_at
  <2>1. slot \in Slots /\ EntriesOf(source, slot) # {}
    BY <1>3
  <2>2. slot \in DOMAIN slots /\ entry \in times /\ \A n \in times : entry <= n
    BY <1>2, <2>1 DEF EntryIsEarliest
  <2>3. times \in SUBSET Nat /\ times # {}
    BY <1>4, <2>1 DEF EntriesOf
  <2>4. Seen!Min(times) \in times /\ Seen!Min(times) \in Nat /\ \A n \in times : Seen!Min(times) <= n
    <3> HIDE DEF times
    <3>1. QED
      BY <2>3, SeenMinFacts
  <2>5. floor \in Nat
    BY <1>2, <2>2 DEF SlotsOK, IsSlotRecord
  <2>6. e.received_at \in Nat /\ e \in heard /\ e.key.slot = slot
    BY <1>2, InputsAreEvents DEF ShredsOf, HistoryOK, ShredEvent
  <2>7. floor <= e.received_at
    BY <1>2, <2>2, <2>6 DEF SlotFloor
  <2>8. Seen!EntryLatencies(source)[slot] = Seen!Since(entry, floor)
    BY <1>1, <2>2 DEF Seen!EntryLatencies
  <2> HIDE DEF times, entry, floor
  <2>9. entry \in Nat
    BY <2>2, <2>3
  <2>10. entry = Seen!Min(times)
    BY <2>2, <2>4, <2>9
  <2>11. Seen!Since(entry, e.received_at) <= Seen!Since(entry, floor)
    <3>1. Live!Since(entry, e.received_at) <= Live!Since(entry, floor)
      BY <2>5, <2>6, <2>7, <2>9, SinceFacts
    <3>2. QED
      BY <2>5, <2>6, <2>9, <3>1, SinceFacts
  <2>12. Seen!Since(entry, e.received_at) \in Nat /\ Seen!Since(entry, floor) \in Nat
    BY <2>5, <2>6, <2>9, SinceFacts
  <2>13. QED
    BY <2>8, <2>10, <2>11, <2>12 DEF times
<1>7. QED
  BY <1>5, <1>6

-----------------------------------------------------------------------------
(* What is counted.  An arrival is a key and a position in its record.     *)

From(source, record)  == {i \in DOMAIN record.arrivals : record.arrivals[i].source = source}
AllFrom(source, map)  == UNION {{key} \X From(source, map[key]) : key \in DOMAIN map}

ShredsAreCounted ==
  /\ IsFiniteSet(DOMAIN shreds)
  /\ \A s \in Sources : /\ IsFiniteSet(AllFrom(s, shreds))
                        /\ counted[s] = Cardinality(AllFrom(s, shreds))

(* The shreds that total_unique counts are there when their segment is     *)
(* read; once the aggregator has ended they are all there are.             *)
CountedAreRead ==
  step \notin {"recording", "counting"} =>
    \E keys \in SUBSET DOMAIN shreds :
      /\ Cardinality(keys) = total_unique
      /\ ~detached => keys = DOMAIN shreds
      /\ \A key \in keys : InShreds(key) => key \in DOMAIN read_shreds

CountInv == ShredsAreCounted /\ CountedAreRead

LEMMA DisjointUnion ==
  ASSUME NEW S, NEW T, IsFiniteSet(S), IsFiniteSet(T), S \cap T = {}
  PROVE  Cardinality(S \cup T) = Cardinality(S) + Cardinality(T)
<1>1. Cardinality(S \cap T) = 0
  BY FS_EmptySet
<1>2. Cardinality(S) \in Nat /\ Cardinality(T) \in Nat
  BY FS_CardinalityType
<1>3. Cardinality(S \cup T) = Cardinality(S) + Cardinality(T) - Cardinality(S \cap T)
  BY FS_Union
<1>4. QED
  BY <1>1, <1>2, <1>3

LEMMA CountStarts == Init => CountInv
<1> SUFFICES ASSUME Init PROVE CountInv
  OBVIOUS
<1>1. shreds = NoMap /\ counted = [s \in Sources |-> 0] /\ step = "recording"
  BY DEF Init, MeasurementInit, RegistryInit
<1>2. DOMAIN shreds = {}
  BY <1>1, NoMapIsMap
<1>3. ASSUME NEW s \in Sources PROVE AllFrom(s, shreds) = {} /\ counted[s] = 0
  BY <1>1, <1>2 DEF AllFrom
<1>4. ShredsAreCounted
  BY <1>2, <1>3, FS_EmptySet DEF ShredsAreCounted
<1>5. CountedAreRead
  BY <1>1 DEF CountedAreRead
<1>6. QED
  BY <1>4, <1>5 DEF CountInv

(* A new arrival is one pair more, of its source only.                     *)
LEMMA UpsertCounts ==
  ASSUME ShredsOK, NEW event \in ShredEvent, UpsertShred(event)
  PROVE  /\ DOMAIN shreds' = DOMAIN shreds \cup {event.key}
         /\ \A s : s # event.source => AllFrom(s, shreds') = AllFrom(s, shreds)
         /\ \E i : /\ <<event.key, i>> \notin AllFrom(event.source, shreds)
                   /\ AllFrom(event.source, shreds')
                        = AllFrom(event.source, shreds) \cup {<<event.key, i>>}
<1> DEFINE arrival == ArrivalOf(event)
           key     == event.key
           old     == shreds[key]
           value   == IF key \in DOMAIN shreds
                        THEN [old EXCEPT !.arrivals = Append(@, arrival)]
                        ELSE [first_seen   |-> event.received_at,
                              first_source |-> event.source,
                              arrivals     |-> <<arrival>>]
           mine(s) == IF key \in DOMAIN shreds THEN From(s, old) ELSE {}
           n       == IF key \in DOMAIN shreds THEN Len(old.arrivals) + 1 ELSE 1
<1>1. arrival.source = event.source /\ arrival \in Arrival
  BY DEF ArrivalOf, Arrival, ShredEvent
<1>2. shreds' = Put(shreds, key, value)
  BY DEF UpsertShred
<1>3. \A s : From(s, value) = mine(s) \cup (IF s = event.source THEN {n} ELSE {}) /\ n \notin mine(s)
  <2>1. CASE key \in DOMAIN shreds
    <3>1. old \in ShredRecord /\ old.arrivals \in Seq(Arrival)
      BY <2>1 DEF ShredsOK, IsMap, ShredRecord
    <3>2. value.arrivals = Append(old.arrivals, arrival)
      BY <2>1, <3>1 DEF ShredRecord
    <3> DEFINE q == old.arrivals
    <3> HIDE DEF value
    <3>3. /\ DOMAIN value.arrivals = DOMAIN q \cup {n} /\ n \notin DOMAIN q
          /\ value.arrivals[n] = arrival
          /\ \A i \in DOMAIN q : value.arrivals[i] = q[i]
      BY <1>1, <2>1, <3>1, <3>2
    <3> HIDE DEF n
    <3>4. ASSUME NEW s
          PROVE  /\ From(s, value) = From(s, old) \cup (IF s = event.source THEN {n} ELSE {})
                 /\ n \notin From(s, old)
      BY <1>1, <3>3 DEF From
    <3>5. QED
      BY <2>1, <3>4
  <2>2. CASE key \notin DOMAIN shreds
    <3>1. value.arrivals = <<arrival>> /\ n = 1
      BY <2>2
    <3> HIDE DEF value, n
    <3>2. DOMAIN value.arrivals = {1} /\ value.arrivals[1] = arrival
      BY <3>1
    <3>3. QED
      BY <1>1, <2>2, <3>1, <3>2 DEF From
  <2>3. QED
    BY <2>1, <2>2
<1> HIDE DEF value, n
<1>4. /\ DOMAIN shreds' = DOMAIN shreds \cup {key} /\ shreds'[key] = value
      /\ \A k \in DOMAIN shreds \ {key} : shreds'[k] = shreds[k]
  BY <1>2 DEF Put
<1>5. ASSUME NEW s
      PROVE  /\ \A p : p \in AllFrom(s, shreds')
                  <=> p \in AllFrom(s, shreds) \/ (s = event.source /\ p = <<key, n>>)
             /\ <<key, n>> \notin AllFrom(s, shreds)
  <2>1. From(s, value) = mine(s) \cup (IF s = event.source THEN {n} ELSE {}) /\ n \notin mine(s)
    BY <1>3
  <2>2. \A k \in DOMAIN shreds \ {key} : From(s, shreds'[k]) = From(s, shreds[k])
    BY <1>4
  <2>3. \A k, i : <<k, i>> \in AllFrom(s, shreds)
                    <=> k \in DOMAIN shreds /\ i \in From(s, shreds[k])
    BY DEF AllFrom
  <2>4. \A k, i : <<k, i>> \in AllFrom(s, shreds')
                    <=> k \in DOMAIN shreds' /\ i \in From(s, shreds'[k])
    BY DEF AllFrom
  <2>5. \A k, i : <<k, i>> \in AllFrom(s, shreds')
                    <=> \/ <<k, i>> \in AllFrom(s, shreds)
                        \/ s = event.source /\ <<k, i>> = <<key, n>>
    BY <1>4, <2>1, <2>2, <2>3, <2>4
  <2>6. \A p : p \in AllFrom(s, shreds) \cup AllFrom(s, shreds') => p = <<p[1], p[2]>>
    BY DEF AllFrom
  <2>7. QED
    BY <2>1, <2>3, <2>5, <2>6
<1>6. ASSUME NEW s, s # event.source PROVE AllFrom(s, shreds') = AllFrom(s, shreds)
  BY <1>5, <1>6
<1>7. /\ AllFrom(event.source, shreds') = AllFrom(event.source, shreds) \cup {<<key, n>>}
      /\ <<key, n>> \notin AllFrom(event.source, shreds)
  BY <1>5
<1>8. QED
  BY <1>4, <1>6, <1>7

LEMMA AggregateCounts ==
  ASSUME MeasurementInv, ShredsAreCounted, MeasurementNext
  PROVE  ShredsAreCounted'
<1>1. ASSUME NEW e \in ShredInputs, TakeShred(e) PROVE ShredsAreCounted'
  <2>1. /\ ShredsOK /\ e \in ShredEvent /\ UpsertShred(e) /\ e.source \in Sources
        /\ counted' = [counted EXCEPT ![e.source] = @ + 1]
        /\ counted \in [Sources -> 0..MaxEvents]
    BY <1>1, TypeSplits, InputsAreEvents DEF MeasurementInv, TakeShred, HistoryOK, ShredEvent
  <2>2. PICK i : /\ <<e.key, i>> \notin AllFrom(e.source, shreds)
                 /\ AllFrom(e.source, shreds') = AllFrom(e.source, shreds) \cup {<<e.key, i>>}
    BY <2>1, UpsertCounts
  <2>3. DOMAIN shreds' = DOMAIN shreds \cup {e.key}
        /\ \A s : s # e.source => AllFrom(s, shreds') = AllFrom(s, shreds)
    BY <2>1, UpsertCounts
  <2>4. IsFiniteSet(DOMAIN shreds')
    BY <2>3, FS_AddElement DEF ShredsAreCounted
  <2>5. ASSUME NEW s \in Sources
        PROVE  IsFiniteSet(AllFrom(s, shreds')) /\ counted'[s] = Cardinality(AllFrom(s, shreds'))
    <3>1. IsFiniteSet(AllFrom(s, shreds)) /\ counted[s] = Cardinality(AllFrom(s, shreds))
      BY DEF ShredsAreCounted
    <3>2. CASE s = e.source
      <4>1. counted'[s] = counted[s] + 1
        BY <2>1, <3>2
      <4>2. /\ IsFiniteSet(AllFrom(s, shreds'))
            /\ Cardinality(AllFrom(s, shreds')) = Cardinality(AllFrom(s, shreds)) + 1
        BY <2>2, <3>1, <3>2, FS_AddElement
      <4>3. QED
        BY <3>1, <4>1, <4>2
    <3>3. CASE s # e.source
      BY <2>1, <2>3, <3>1, <3>3
    <3>4. QED
      BY <3>2, <3>3
  <2>6. QED
    BY <2>4, <2>5 DEF ShredsAreCounted, AllFrom, From
<1>2. CASE UNCHANGED <<shreds, counted>>
  BY <1>2 DEF ShredsAreCounted, AllFrom, From
<1>3. ASSUME NEW e \in ShredInputs, FinishShred(e) PROVE UNCHANGED <<shreds, counted>>
  BY <1>3 DEF FinishShred, historyVars
<1>4. ASSUME NEW e \in SlotInputs, TakeSlotEvent(e) PROVE UNCHANGED <<shreds, counted>>
  BY <1>4 DEF TakeSlotEvent, RecordSlotEvent
<1>5. ASSUME NEW source \in Sources, TakeSample(source, 0) PROVE UNCHANGED <<shreds, counted>>
  BY <1>5 DEF TakeSample, RecordGrpcLatency
<1>6. QED
  BY <1>1, <1>2, <1>3, <1>4, <1>5 DEF MeasurementNext

LEMMA CountStays ==
  ASSUME CountInv, UNCHANGED <<measurementVars, total_unique, detached, read_shreds>>,
         step' \in {"recording", "counting"} \/ step \notin {"recording", "counting"},
         \A key \in DOMAIN shreds : InShreds(key)' => InShreds(key)
  PROVE  CountInv'
<1>1. UNCHANGED <<shreds, counted>>
  BY DEF measurementVars, registryVars, historyVars
<1>2. ShredsAreCounted'
  BY <1>1 DEF CountInv, ShredsAreCounted, AllFrom, From
<1>3. CountedAreRead'
  <2> SUFFICES ASSUME step' \notin {"recording", "counting"} PROVE CountedAreRead'
    BY DEF CountedAreRead
  <2>1. PICK keys \in SUBSET DOMAIN shreds :
          /\ Cardinality(keys) = total_unique
          /\ ~detached => keys = DOMAIN shreds
          /\ \A key \in keys : InShreds(key) => key \in DOMAIN read_shreds
    BY DEF CountInv, CountedAreRead
  <2>2. QED
    BY <1>1, <2>1 DEF CountedAreRead
<1>4. QED
  BY <1>2, <1>3 DEF CountInv

LEMMA AggregateCounted ==
  ASSUME ReportInv, CountInv, Aggregate
  PROVE  CountInv'
<1>1. ShredsAreCounted' /\ ShredsGrow
  BY AggregateCounts, AggregateGrows DEF Aggregate, ReportInv, CountInv
<1>2. UNCHANGED <<step, segment, detached, total_unique, read_shreds>>
  BY DEF Aggregate, reportVars, readVars
<1>3. CASE step = "recording"
  BY <1>1, <1>2, <1>3 DEF CountInv, CountedAreRead
<1>4. CASE detached
  <2> SUFFICES ASSUME step \notin {"recording", "counting"} PROVE CountedAreRead'
    BY <1>1, <1>2 DEF CountInv, CountedAreRead
  <2>1. PICK keys \in SUBSET DOMAIN shreds :
          /\ Cardinality(keys) = total_unique
          /\ \A key \in keys : InShreds(key) => key \in DOMAIN read_shreds
    BY DEF CountInv, CountedAreRead
  <2>2. keys \in SUBSET DOMAIN shreds'
    BY <1>1 DEF ShredsGrow
  <2>3. \A key \in keys : InShreds(key)' => key \in DOMAIN read_shreds'
    BY <1>2, <2>1 DEF InShreds, ShredsRead
  <2>4. QED
    BY <1>2, <1>4, <2>1, <2>2, <2>3 DEF CountedAreRead
<1>5. QED
  BY <1>3, <1>4 DEF Aggregate

LEMMA CountShredsCounts ==
  ASSUME ReportInv, CountInv, CountShreds
  PROVE  CountInv'
<1>1. /\ step = "counting" /\ step' = "shreds" /\ total_unique' = Cardinality(DOMAIN shreds)
      /\ UNCHANGED <<shreds, counted, segment, detached, read_shreds>>
  BY DEF CountShreds, measurementVars, registryVars, historyVars
<1>2. ShredsAreCounted'
  BY <1>1 DEF CountInv, ShredsAreCounted, AllFrom, From
<1>3. segment = 1
  BY <1>1 DEF ReportInv, ReadInv, StepOK
<1>4. \A key \in DOMAIN shreds : ShredSegment[key] \in Nat /\ ShredSegment[key] >= 1
  BY SegmentFacts, ReportAssumption DEF ReportInv
<1>5. \A key \in DOMAIN shreds : ~InShreds(key)'
  BY <1>1, <1>3, <1>4 DEF InShreds, ShredsRead
<1>6. CountedAreRead'
  BY <1>1, <1>5 DEF CountedAreRead
<1>7. QED
  BY <1>2, <1>6 DEF CountInv

LEMMA ReadShredsCounted ==
  ASSUME ReportInv, CountInv, ReadShreds
  PROVE  CountInv'
<1>1. /\ step = "shreds" /\ IterateThen("slots")
      /\ UNCHANGED <<shreds, counted, detached, total_unique>>
      /\ read_shreds' = WithSegment(read_shreds, shreds, ShredSegment)
  BY DEF ReadShreds, measurementVars, registryVars, historyVars
<1>2. ShredsAreCounted'
  BY <1>1 DEF CountInv, ShredsAreCounted, AllFrom, From
<1>3. \A k : k \in DOMAIN read_shreds'
         <=> k \in DOMAIN read_shreds \/ (k \in DOMAIN shreds /\ ShredSegment[k] = segment)
  BY <1>1, WithSegmentFacts
<1>4. ASSUME NEW key \in DOMAIN shreds, InShreds(key)'
      PROVE  InShreds(key) \/ ShredSegment[key] = segment
  <2>1. segment \in 1..Segments /\ ShredSegment[key] \in 1..Segments
    BY SegmentFacts DEF ReportInv, ReadInv, StepOK
  <2>2. "shreds" # "slots"
    OBVIOUS
  <2>3. /\ step' = "shreds" \/ step' = "slots"
        /\ step' = "shreds" /\ ShredSegment[key] < segment'
             => ShredSegment[key] < segment \/ ShredSegment[key] = segment
        /\ step' = "slots" => ShredSegment[key] < segment \/ ShredSegment[key] = segment
    BY <1>1, <2>1, <2>2, IterateFacts
  <2>4. ShredSegment[key] < segment \/ ShredSegment[key] = segment
    BY <1>4, <2>3 DEF InShreds, ShredsRead
  <2>5. QED
    BY <1>1, <2>4 DEF InShreds
<1>5. PICK keys \in SUBSET DOMAIN shreds :
        /\ Cardinality(keys) = total_unique
        /\ ~detached => keys = DOMAIN shreds
        /\ \A key \in keys : InShreds(key) => key \in DOMAIN read_shreds
  BY <1>1 DEF CountInv, CountedAreRead
<1>6. \A key \in keys : InShreds(key)' => key \in DOMAIN read_shreds'
  BY <1>3, <1>4, <1>5
<1>7. CountedAreRead'
  BY <1>1, <1>5, <1>6 DEF CountedAreRead
<1>8. QED
  BY <1>2, <1>7 DEF CountInv

LEMMA CountKept == ReportInv /\ CountInv /\ [Next]_vars => CountInv'
<1> SUFFICES ASSUME ReportInv, CountInv, [Next]_vars PROVE CountInv'
  OBVIOUS
<1>1. CASE EndWait
  <2>1. step' = "counting" /\ UNCHANGED <<shreds, counted>>
    BY <1>1 DEF EndWait, measurementVars, registryVars, historyVars
  <2>2. QED
    BY <2>1 DEF CountInv, ShredsAreCounted, CountedAreRead, AllFrom, From
<1>2. CASE ReadSlots
  <2>1. /\ step = "slots" /\ step' \in {"slots", "samples"}
        /\ UNCHANGED <<measurementVars, total_unique, detached, read_shreds>>
    BY <1>2 DEF ReadSlots, IterateThen
  <2>2. QED
    BY <2>1, CountStays DEF InShreds, ShredsRead
<1>3. CASE ReadSamples
  BY <1>3, CountStays DEF ReadSamples, InShreds, ShredsRead
<1>4. CASE WriteLog
  <2>1. /\ step = "log" /\ step' \in {"log", "done"}
        /\ UNCHANGED <<measurementVars, total_unique, detached, read_shreds>>
    BY <1>4 DEF WriteLog, IterateThen
  <2>2. QED
    BY <2>1, CountStays DEF InShreds, ShredsRead
<1>5. CASE UNCHANGED vars
  <2>1. UNCHANGED <<measurementVars, total_unique, detached, read_shreds, step, segment>>
    BY <1>5 DEF vars, reportVars, readVars
  <2>2. \A key : InShreds(key)' <=> InShreds(key)
    BY <2>1 DEF InShreds, ShredsRead
  <2>3. step' \in {"recording", "counting"} \/ step \notin {"recording", "counting"}
    BY <2>1
  <2>4. QED
    BY <2>1, <2>2, <2>3, CountStays
<1>6. QED
  BY <1>1, <1>2, <1>3, <1>4, <1>5, AggregateCounted, CountShredsCounts, ReadShredsCounted
     DEF Next, Report

LEMMA CountInvHolds == Spec => [](ReportInv /\ CountInv)
<1>1. Init => ReportInv /\ CountInv
  BY ReportInitHolds, CountStarts
<1>2. ReportInv /\ CountInv /\ [Next]_vars => CountInv'
  BY CountKept
<1>3. QED
  BY <1>1, <1>2, ReportInvHolds, PTL DEF Spec

(* What main has read is finite; of an aggregator that has ended it is all.*)
LEMMA ReadFacts ==
  ASSUME ReportInv, CountInv, ShredsRead
  PROVE  /\ IsFiniteSet(DOMAIN read_shreds)
         /\ total_unique \in Nat /\ total_unique <= Cardinality(DOMAIN read_shreds)
         /\ ~detached => /\ total_unique = Cardinality(DOMAIN read_shreds)
                         /\ DOMAIN read_shreds = DOMAIN shreds
                         /\ \A s : AllFrom(s, read_shreds) = AllFrom(s, shreds)
<1>1. DOMAIN read_shreds \subseteq DOMAIN shreds /\ IsFiniteSet(DOMAIN shreds)
      /\ \A key \in DOMAIN read_shreds : ~detached => read_shreds[key] = shreds[key]
  BY DEF ReportInv, ReadInv, ReadIsOlder, CountInv, ShredsAreCounted
<1>2. IsFiniteSet(DOMAIN read_shreds)
  BY <1>1, FS_Subset
<1>3. PICK keys \in SUBSET DOMAIN shreds :
        /\ Cardinality(keys) = total_unique
        /\ ~detached => keys = DOMAIN shreds
        /\ \A key \in keys : InShreds(key) => key \in DOMAIN read_shreds
  BY DEF CountInv, CountedAreRead, ShredsRead
<1>4. keys \subseteq DOMAIN read_shreds
  BY <1>3 DEF InShreds
<1>5. IsFiniteSet(keys) /\ Cardinality(keys) <= Cardinality(DOMAIN read_shreds)
      /\ Cardinality(keys) \in Nat
  BY <1>2, <1>4, FS_Subset, FS_CardinalityType
<1>6. ASSUME ~detached
      PROVE  /\ keys = DOMAIN read_shreds /\ DOMAIN read_shreds = DOMAIN shreds
             /\ \A s : AllFrom(s, read_shreds) = AllFrom(s, shreds)
  <2>1. keys = DOMAIN read_shreds /\ DOMAIN read_shreds = DOMAIN shreds
    BY <1>1, <1>3, <1>4, <1>6
  <2>2. QED
    BY <1>1, <1>6, <2>1 DEF AllFrom
<1>7. QED
  BY <1>2, <1>3, <1>5, <1>6

LEMMA SameCount == \A S : Seen!Cardinality(S) = Cardinality(S)
BY Zenon DEF Seen!Cardinality, Cardinality

(* Of each shred of a source, all of its arrivals but one are duplicates.  *)
LEMMA DupesCount ==
  ASSUME NEW source, IsFiniteSet(DOMAIN read_shreds), IsFiniteSet(AllFrom(source, read_shreds)),
         \A key \in DOMAIN read_shreds : read_shreds[key] \in ShredRecord
  PROVE  Seen!Received(source) + Seen!Dupes(source) = Cardinality(AllFrom(source, read_shreds))
<1> DEFINE keys    == Seen!ReceivedKeys(source)
           first   == [key \in keys |-> <<key, Seen!Min(Seen!ArrivalsOf(source, key))>>]
           firsts  == {first[key] : key \in keys}
           repeats == UNION {{key} \X Seen!Repeats(source, key) : key \in keys}
           all     == AllFrom(source, read_shreds)
<1>1. keys \subseteq DOMAIN read_shreds /\ IsFiniteSet(keys)
  BY FS_Subset DEF Seen!ReceivedKeys
<1>2. ASSUME NEW key \in keys
      PROVE  /\ Seen!ArrivalsOf(source, key) = From(source, read_shreds[key])
             /\ Seen!Min(Seen!ArrivalsOf(source, key)) \in Seen!ArrivalsOf(source, key)
  <2>1. Seen!ArrivalsOf(source, key) # {}
    BY DEF Seen!ReceivedKeys
  <2>2. read_shreds[key].arrivals \in Seq(Arrival)
    BY <1>1 DEF ShredRecord
  <2>3. Seen!ArrivalsOf(source, key) = From(source, read_shreds[key])
    BY DEF Seen!ArrivalsOf, From
  <2>4. Seen!ArrivalsOf(source, key) \in SUBSET Nat
    BY <2>2, <2>3 DEF From
  <2>5. QED
    BY <2>1, <2>3, <2>4, SeenMinFacts
<1>3. \A key \in DOMAIN read_shreds \ keys : From(source, read_shreds[key]) = {}
  BY DEF Seen!ReceivedKeys, Seen!ArrivalsOf, From
<1>4. all = firsts \cup repeats /\ firsts \cap repeats = {}
  <2> HIDE DEF keys
  <2>1. \A p : p \in firsts <=> \E key \in keys : p = <<key, Seen!Min(Seen!ArrivalsOf(source, key))>>
    OBVIOUS
  <2>2. \A p : p \in repeats
          <=> \E key \in keys : \E i \in From(source, read_shreds[key]) :
                p = <<key, i>> /\ i # Seen!Min(Seen!ArrivalsOf(source, key))
    BY <1>2 DEF Seen!Repeats
  <2>3. \A p : p \in all
          <=> \E key \in keys : \E i \in From(source, read_shreds[key]) : p = <<key, i>>
    BY <1>1, <1>3 DEF AllFrom
  <2> HIDE DEF firsts, repeats, all
  <2>4. \A p : p \in all <=> p \in firsts \/ p \in repeats
    BY <1>2, <2>1, <2>2, <2>3
  <2>5. \A p : ~(p \in firsts /\ p \in repeats)
    BY <2>1, <2>2
  <2>6. QED
    BY <2>4, <2>5
<1>5. Cardinality(firsts) = Cardinality(keys) /\ IsFiniteSet(firsts)
  <2> HIDE DEF keys
  <2>1. first \in Bijection(keys, firsts)
    BY DEF Bijection, Injection, IsInjective, Surjection
  <2>2. ExistsBijection(keys, firsts)
    BY <2>1 DEF ExistsBijection
  <2>3. QED
    BY <1>1, <2>2, FS_Bijection
<1>6. IsFiniteSet(repeats)
  BY <1>4, FS_Subset
<1>7. Seen!Received(source) = Cardinality(keys) /\ Seen!Dupes(source) = Cardinality(repeats)
  <2>1. Seen!Received(source) = Cardinality(keys)
    BY SameCount DEF Seen!Received
  <2>2. Seen!Dupes(source) = Cardinality(repeats)
    BY SameCount DEF Seen!Dupes
  <2>3. QED
    BY <2>1, <2>2
<1> HIDE DEF keys, firsts, repeats, all
<1>8. Cardinality(all) = Cardinality(firsts) + Cardinality(repeats)
  BY <1>4, <1>5, <1>6, DisjointUnion
<1>9. QED
  BY <1>5, <1>7, <1>8 DEF all

LEMMA CoverageFollows == ReportInv /\ CountInv => CoverageAddsUp
<1> SUFFICES ASSUME ReportInv, CountInv, ShredsRead, NEW source \in Sources
             PROVE  LET all == Seen!Received(source) + Seen!Missed(source) IN
                    /\ all >= total_unique
                    /\ ~detached =>
                         /\ all = total_unique
                         /\ Seen!Received(source) + Seen!Dupes(source) = counted[source]
  BY DEF CoverageAddsUp
<1> DEFINE keys == Seen!ReceivedKeys(source)
           rest == DOMAIN read_shreds \ keys
<1>1. keys \subseteq DOMAIN read_shreds
  BY DEF Seen!ReceivedKeys
<1>2. Seen!Received(source) = Cardinality(keys) /\ Seen!Missed(source) = Cardinality(rest)
  <2>1. Seen!Received(source) = Cardinality(keys)
    BY SameCount DEF Seen!Received
  <2>2. Seen!Missed(source) = Cardinality(rest)
    BY SameCount DEF Seen!Missed
  <2>3. QED
    BY <2>1, <2>2
<1> HIDE DEF keys
<1>3. IsFiniteSet(keys) /\ IsFiniteSet(rest) /\ keys \cap rest = {}
      /\ keys \cup rest = DOMAIN read_shreds
  BY <1>1, ReadFacts, FS_Subset
<1> HIDE DEF rest
<1>4. Cardinality(keys) + Cardinality(rest) = Cardinality(DOMAIN read_shreds)
  BY <1>3, DisjointUnion
<1>5. ASSUME ~detached
      PROVE  Seen!Received(source) + Seen!Dupes(source) = counted[source]
  <2>1. IsFiniteSet(AllFrom(source, shreds)) /\ counted[source] = Cardinality(AllFrom(source, shreds))
    BY DEF CountInv, ShredsAreCounted
  <2>2. AllFrom(source, read_shreds) = AllFrom(source, shreds) /\ IsFiniteSet(DOMAIN read_shreds)
    BY <1>5, ReadFacts
  <2>3. \A key \in DOMAIN read_shreds : read_shreds[key] \in ShredRecord
    BY DEF ReportInv, ReadInv, ReadIsOlder
  <2>4. QED
    BY <2>1, <2>2, <2>3, DupesCount
<1>6. Cardinality(DOMAIN read_shreds) \in Nat
  BY ReadFacts, FS_CardinalityType
<1>7. QED
  BY <1>2, <1>4, <1>5, <1>6, ReadFacts

-----------------------------------------------------------------------------
(* Percentiles.  There is a value at every position of a list of latencies:*)
(* the least value with enough latencies up to it.                         *)

LEMMA LargestFacts ==
  ASSUME NEW D, IsFiniteSet(D), D # {}, NEW f \in [D -> Nat]
  PROVE  \E k \in D : \A j \in D : f[j] <= f[k]
<1> DEFINE Above(k) == {j \in D : f[j] > f[k]}
           Counts   == {Cardinality(Above(k)) : k \in D}
<1>1. \A k \in D : IsFiniteSet(Above(k)) /\ Cardinality(Above(k)) \in Nat
  BY FS_Subset, FS_CardinalityType
<1>2. Counts \in SUBSET Nat /\ Counts # {}
  BY <1>1
<1>3. Live!Min(Counts) \in Counts /\ \A n \in Counts : Live!Min(Counts) <= n
  BY <1>2, MinFacts
<1>4. PICK k \in D : \A j \in D : Cardinality(Above(k)) <= Cardinality(Above(j))
  BY <1>3
<1>5. ASSUME NEW j \in D, f[j] > f[k] PROVE FALSE
  <2>1. Above(j) \subseteq Above(k) /\ j \in Above(k) /\ j \notin Above(j)
    BY <1>5
  <2> HIDE DEF Above
  <2>2. /\ Cardinality(Above(j)) <= Cardinality(Above(k))
        /\ Cardinality(Above(j)) # Cardinality(Above(k))
    BY <1>1, <2>1, FS_Subset
  <2>3. QED
    BY <1>1, <1>4, <2>2
<1>6. QED
  BY <1>5

Within(latencies, v) == {k \in DOMAIN latencies : latencies[k] <= v}
Below(latencies, v)  == {k \in DOMAIN latencies : latencies[k] < v}

LEMMA SortedFacts ==
  ASSUME NEW latencies, IsFiniteSet(DOMAIN latencies), latencies \in [DOMAIN latencies -> Nat],
         NEW i \in Nat, i < Cardinality(DOMAIN latencies)
  PROVE  /\ Cardinality(Below(latencies, Seen!SortedAt(latencies, i))) <= i
         /\ Cardinality(Within(latencies, Seen!SortedAt(latencies, i))) > i
<1> DEFINE D     == DOMAIN latencies
           Reach == {v \in {latencies[k] : k \in D} : Cardinality(Within(latencies, v)) > i}
<1>1. \A v : /\ IsFiniteSet(Within(latencies, v)) /\ Cardinality(Within(latencies, v)) \in Nat
             /\ IsFiniteSet(Below(latencies, v)) /\ Cardinality(Below(latencies, v)) \in Nat
  BY FS_Subset, FS_CardinalityType DEF Within, Below
<1>2. Cardinality(D) \in Nat /\ D # {}
  BY FS_CardinalityType, FS_EmptySet
<1>3. Reach # {}
  <2>1. PICK k \in D : \A j \in D : latencies[j] <= latencies[k]
    BY <1>2, LargestFacts
  <2>2. Within(latencies, latencies[k]) = D
    BY <2>1 DEF Within
  <2>3. latencies[k] \in Reach
    BY <2>1, <2>2
  <2>4. QED
    BY <2>3
<1>4. Reach \in SUBSET Nat
  OBVIOUS
<1>5. PICK v \in Reach : v \in Nat /\ \A w \in Reach : v <= w
  BY <1>3, <1>4, MinFacts
<1>6. Cardinality(Below(latencies, v)) <= i
  <2> SUFFICES ASSUME Cardinality(Below(latencies, v)) > i PROVE FALSE
    BY <1>1
  <2>1. Below(latencies, v) # {}
    BY FS_EmptySet
  <2> DEFINE B == Below(latencies, v)
             f == [k \in B |-> latencies[k]]
  <2>2. f \in [B -> Nat] /\ B \subseteq D
    BY DEF Below
  <2>3. \E k \in B : \A j \in B : f[j] <= f[k]
    <3> HIDE DEF B, f
    <3>1. IsFiniteSet(B) /\ B # {}
      BY <1>1, <2>1 DEF B
    <3>2. QED
      BY <2>2, <3>1, LargestFacts
  <2>4. PICK k \in B : \A j \in B : latencies[j] <= latencies[k]
    BY <2>3
  <2>5. latencies[k] \in Nat /\ latencies[k] < v /\ k \in D
    BY <2>4 DEF Below
  <2>6. Within(latencies, latencies[k]) = B
    BY <1>5, <2>4, <2>5 DEF Within, Below
  <2>7. latencies[k] \in Reach
    BY <2>5, <2>6
  <2>8. QED
    BY <1>5, <2>5, <2>7
<1>7. \E u \in Seen!Range(latencies) :
        /\ Seen!Cardinality({k \in DOMAIN latencies : latencies[k] < u}) <= i
        /\ Seen!Cardinality({k \in DOMAIN latencies : latencies[k] <= u}) > i
  <2>1. v \in Seen!Range(latencies) /\ Cardinality(Within(latencies, v)) > i
    BY DEF Seen!Range
  <2>2. QED
    BY <1>6, <2>1, SameCount DEF Within, Below
<1> DEFINE u == Seen!SortedAt(latencies, i)
<1>8. /\ Seen!Cardinality({k \in DOMAIN latencies : latencies[k] < u}) <= i
      /\ Seen!Cardinality({k \in DOMAIN latencies : latencies[k] <= u}) > i
  BY <1>7, Zenon DEF Seen!SortedAt
<1> HIDE DEF u
<1>9. Cardinality(Below(latencies, u)) <= i /\ Cardinality(Within(latencies, u)) > i
  BY <1>8, SameCount DEF Within, Below
<1>10. QED
  BY <1>9 DEF u

(* Every rank that the code may compute for a list lies in it and is the   *)
(* smallest that reaches the share, or the next one where it may round up. *)
LEMMA RanksAreClose ==
  ASSUME NEW n \in Nat, n > 0, NEW p \in {500, 900, 950, 990, 999},
         NEW rank \in Seen!Ranks(n, p)
  PROVE  /\ rank \in Nat /\ 1 <= rank /\ rank <= n
         /\ 1000 * rank >= n * p /\ 1000 * (rank - 1) <= n * p
         /\ ~Seen!RoundsUp(n, p) => 1000 * (rank - 1) < n * p
<1> DEFINE exact == (n * p + Seen!Tenths - 1) \div Seen!Tenths
<1>1. rank = exact \/ (Seen!RoundsUp(n, p) /\ rank = exact + 1)
  BY DEF Seen!Ranks
<1>2. CASE p # 999
  <2>1. rank = exact
    BY <1>1, <1>2 DEF Seen!RoundsUp
  <2>2. CASE p = 500
    BY <2>1, <2>2 DEF Seen!Tenths
  <2>3. CASE p = 900
    BY <2>1, <2>3 DEF Seen!Tenths
  <2>4. CASE p = 950
    BY <2>1, <2>4 DEF Seen!Tenths
  <2>5. CASE p = 990
    BY <2>1, <2>5 DEF Seen!Tenths
  <2>6. QED
    BY <1>2, <2>2, <2>3, <2>4, <2>5
<1>3. CASE p = 999
  <2>1. CASE rank = exact
    BY <1>3, <2>1 DEF Seen!Tenths
  <2>2. CASE Seen!RoundsUp(n, p) /\ rank = exact + 1
    <3>1. (n * 999) % 1000 = 0
      BY <1>3, <2>2 DEF Seen!RoundsUp, Seen!Tenths
    <3>2. rank = (n * 999 + 999) \div 1000 + 1
      BY <1>3, <2>2 DEF Seen!Tenths
    <3> HIDE DEF exact
    <3>3. PICK k \in Nat : n * 999 = 1000 * k
      <4> DEFINE m == n * 999
      <4>1. m \in Nat /\ m % 1000 = 0
        BY <3>1
      <4> HIDE DEF m
      <4>2. m = 1000 * (m \div 1000) /\ m \div 1000 \in Nat
        BY <4>1
      <4>3. QED
        BY <4>2 DEF m
    <3>4. rank = k + 1 /\ k < n
      BY <3>2, <3>3
    <3>5. QED
      BY <1>3, <2>2, <3>3, <3>4
  <2>3. QED
    BY <1>1, <2>1, <2>2
<1>4. QED
  BY <1>2, <1>3

LEMMA PercentilesFollow == ReportInv /\ CountInv => PercentilesAreRanks
<1> SUFFICES ASSUME ReportInv, CountInv, ShredsRead,
                    NEW source \in Sources, NEW p \in {500, 900, 950, 990, 999},
                    NEW value \in Seen!Percentiles(Seen!Latencies(source), p)
             PROVE  IsRank(source, p, value)
  BY DEF PercentilesAreRanks
<1> DEFINE latencies == Seen!Latencies(source)
           D         == DOMAIN latencies
           n         == Cardinality(D)
<1> SUFFICES ASSUME D # {}
             PROVE  /\ Seen!Tenths * Cardinality(Within(latencies, value)) >= n * p
                    /\ Seen!Tenths * Cardinality(Below(latencies, value)) <= n * p
                    /\ ~Seen!RoundsUp(n, p) =>
                         Seen!Tenths * Cardinality(Below(latencies, value)) < n * p
  BY DEF IsRank, Within, Below
<1>1. D = Seen!ReceivedKeys(source) /\ D \subseteq DOMAIN read_shreds
  BY DEF Seen!Latencies, Seen!ReceivedKeys
<1>2. IsFiniteSet(D) /\ n \in Nat /\ n > 0
  <2>1. IsFiniteSet(D)
    BY <1>1, ReadFacts, FS_Subset
  <2>2. QED
    BY <2>1, FS_EmptySet, FS_CardinalityType
<1>3. latencies \in [D -> Nat]
  <2>1. ASSUME NEW key \in D PROVE Seen!Delta(source, key) \in Nat
    <3>1. read_shreds[key] \in ShredRecord /\ key \in DOMAIN read_shreds
      BY <1>1 DEF ReportInv, ReadInv, ReadIsOlder
    <3>2. TimesOf(source, read_shreds[key]) # {} /\ TimesOf(source, read_shreds[key]) \in SUBSET Nat
      BY <1>1, <3>1, SeenFacts, TimesAreNaturals
    <3>3. Seen!FirstFrom(source, key) \in Nat
      BY <3>1, <3>2, SeenFacts, SeenMinFacts
    <3>4. read_shreds[key].first_seen \in Nat
      BY <3>1 DEF ShredRecord
    <3>5. QED
      BY <3>3, <3>4 DEF Seen!Delta, Seen!Since
  <2>2. QED
    BY <1>1, <2>1 DEF Seen!Latencies
<1>4. PICK rank \in Seen!Ranks(n, p) :
        value = Seen!SortedAt(latencies, Seen!Earlier(IF rank = 0 THEN 0 ELSE rank - 1, n - 1))
  <2>1. Seen!Cardinality(DOMAIN latencies) = n
    BY SameCount
  <2>2. value \in Seen!Percentiles(latencies, p)
    OBVIOUS
  <2> HIDE DEF latencies, n
  <2>3. QED
    BY <1>2, <2>1, <2>2 DEF Seen!Percentiles
<1> HIDE DEF latencies, n
<1>5. /\ rank \in Nat /\ 1 <= rank /\ rank <= n
      /\ 1000 * rank >= n * p /\ 1000 * (rank - 1) <= n * p
      /\ ~Seen!RoundsUp(n, p) => 1000 * (rank - 1) < n * p
  BY <1>2, RanksAreClose
<1>6. /\ Cardinality(Below(latencies, value)) <= rank - 1
      /\ Cardinality(Within(latencies, value)) > rank - 1
  <2>1. rank - 1 \in Nat /\ rank - 1 < Cardinality(DOMAIN latencies)
    BY <1>2, <1>5 DEF n
  <2>2. value = Seen!SortedAt(latencies, rank - 1)
    BY <1>2, <1>4, <1>5 DEF Seen!Earlier
  <2>3. QED
    BY <1>2, <1>3, <2>1, <2>2, SortedFacts
<1>7. /\ Cardinality(Below(latencies, value)) \in Nat
      /\ Cardinality(Within(latencies, value)) \in Nat
  BY <1>2, FS_Subset, FS_CardinalityType DEF Within, Below
<1>8. p \in Nat /\ n * p \in Nat
  BY <1>2
<1>9. /\ 1000 * Cardinality(Within(latencies, value)) >= n * p
      /\ 1000 * Cardinality(Below(latencies, value)) <= n * p
      /\ ~Seen!RoundsUp(n, p) => 1000 * Cardinality(Below(latencies, value)) < n * p
  BY <1>5, <1>6, <1>7, <1>8
<1>10. QED
  BY <1>9 DEF Seen!Tenths

-----------------------------------------------------------------------------
(* The registry has its type; the fields of a shred record agree, and the  *)
(* slot of every recorded shred has a record but for the one whose second  *)
(* map operation is due.                                                   *)
THEOREM MeasurementTypeCorrect == MeasurementSpec => []MeasurementTypeOK
BY MeasurementInvHolds, PTL DEF MeasurementInv

(* In whatever order events are processed, the baseline of a slot is the   *)
(* time of a real event and no settled shred of the slot came before it.   *)
THEOREM BaselineIsFloor == MeasurementSpec => []SlotFloor
BY MeasurementInvHolds, PTL DEF MeasurementInv

(* In whatever order events are processed, a source has an entry in a slot *)
(* exactly when it had an event for it, and it is the earliest of them.    *)
THEOREM EntriesAreEarliest == MeasurementSpec => []EntryIsEarliest
BY MeasurementInvHolds, PTL DEF MeasurementInv

(* The source that was truly first with a shred is among its winners and   *)
(* no source is reported later than it was, in whatever order the arrivals *)
(* were processed.                                                         *)
THEOREM ReportGenerous == Spec => []ReportIsGenerous
BY ReportInvHolds, GenerousFollows, PTL

(* Statistics that are computed while the aggregator goes on recording     *)
(* lack nothing that was delivered when the wait ended, invent nothing.    *)
THEOREM ReportCurrent == Spec => []ReportIsCurrent
BY ReportInvHolds, CurrentFollows, PTL

(* Table and log agree although they read the registry one after the       *)
(* other while it grows: a shred won in the table is won in the log.       *)
THEOREM LogConfirms == Spec => []LogConfirmsReport
BY ReportInvHolds, LogFollows, PTL

(* Once joined, no entry latency is less than the time from any shred of   *)
(* the slot to the source's first event for it.                            *)
THEOREM EntriesHonest == Spec => []EntriesAreHonest
BY ReportInvHolds, EntriesFollow, PTL

(* The registry's type, the slots' baseline and their entries hold on to   *)
(* the end of the report.                                                  *)
THEOREM RegistryHoldsOn == Spec => [](MeasurementTypeOK /\ SlotFloor /\ EntryIsEarliest)
BY ReportInvHolds, PTL DEF ReportInv, MeasurementInv

(* Received and missed shreds of a source add up to what was counted, or   *)
(* to more if the aggregator went on recording; once joined they are equal *)
(* and received plus duplicate shreds are the events that were counted     *)
(* (stats.rs 111-166).                                                     *)
THEOREM CoverageHolds == Spec => []CoverageAddsUp
BY CountInvHolds, CoverageFollows, PTL

(* For every number of shreds, no percentile is too low and none too high, *)
(* but p99.9 of a whole number of thousands, by one rank at most           *)
(* (stats.rs 68-74).                                                       *)
THEOREM PercentilesHold == Spec => []PercentilesAreRanks
BY CountInvHolds, PercentilesFollow, PTL
=============================================================================
