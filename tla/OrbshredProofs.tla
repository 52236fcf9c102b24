--------------------------- MODULE OrbshredProofs ---------------------------
(***************************************************************************)
(* The whole run, for any sources, listeners, streams and capacities: it   *)
(* implements the control plane (RunControl) and the ledger of its events  *)
(* (Ledger), keeps its type, loses no event uncounted, records a range     *)
(* from its start on and the events of a source in their order.            *)
(*                                                                         *)
(* PipelineOK is inductive by itself.  EventsOK adds what keeps two events *)
(* apart: a number belongs to one packet of one listener, and an event     *)
(* that has been sent is none that a waiting packet may still produce.  On *)
(* top of these, each in a section of its own: BooksAgree for the          *)
(* accounting, RangeOK for the range, OrderOK for the order, and PhasesOK  *)
(* and RegistryOK for the types.                                           *)
(***************************************************************************)
EXTENDS Orbshred, SequenceTheorems, FiniteSetTheorems, TLAPS

Packet   == [key : R!ShredKey, to : SUBSET Sources, nr : Nat, at : Nat \cup {NoStamp}]
Delivery == [source : Sources, key : R!ShredKey, nr : Nat, received_at : Nat]
Sample   == [source : Sources, sampled_at : Nat]

(* The packets of a listener are for its sources. *)
PacketsOf(l) == {p \in Packet : p.to \subseteq Routes[l]}

ListenersOK ==
  /\ listener \in [Listeners ->
       {"absent", "starting", "bound", "polling", "receiving", "forwarding", "stopped"}]
  /\ DOMAIN inbox = Listeners /\ DOMAIN batch = Listeners
  /\ inbox = [l \in Listeners |-> inbox[l]] /\ batch = [l \in Listeners |-> batch[l]]
  /\ \A l \in Listeners :
       /\ inbox[l] \in Seq(PacketsOf(l)) /\ batch[l] \in Seq(PacketsOf(l))
       /\ listener[l] = "forwarding" => batch[l] # <<>>

ChannelsOK ==
  /\ shred_q \in Seq(Delivery) /\ Len(shred_q) <= ShredCap
  /\ slot_q \in Seq(R!SlotEvent) /\ Len(slot_q) <= SlotCap
  /\ grpc_q \in Seq(Sample) /\ Len(grpc_q) <= GrpcCap

(* The aggregator outlives main's senders. *)
OthersOK ==
  /\ clock \in Nat /\ drops \in [Sources -> Nat]
  /\ held => agg = "running"

PipelineOK == ListenersOK /\ ChannelsOK /\ OthersOK

-----------------------------------------------------------------------------
LEMMA SettingsFacts ==
  /\ ShredCap \in Nat /\ ShredCap > 0 /\ SlotCap \in Nat /\ SlotCap > 0
  /\ GrpcCap \in Nat /\ GrpcCap > 0
  /\ \A l \in Listeners : Routes[l] \subseteq Sources /\ BatchSize[l] \in Nat /\ BatchSize[l] > 0
BY PipelineAssumption

LEMMA PacketFacts ==
  ASSUME NEW l \in Listeners, NEW p \in PacketsOf(l)
  PROVE  /\ p.key \in R!ShredKey /\ p.to \subseteq Sources /\ p.to \subseteq Routes[l]
         /\ p.nr \in Nat /\ p.at \in Nat \cup {NoStamp}
         /\ \A at \in Nat : [p EXCEPT !.at = at] \in PacketsOf(l)
         /\ \A to \in SUBSET p.to : [p EXCEPT !.to = to] \in PacketsOf(l)
<1>1. p \in Packet /\ p.to \subseteq Routes[l]
  BY DEF PacketsOf
<1>2. /\ p.key \in R!ShredKey /\ p.to \subseteq Sources
      /\ p.nr \in Nat /\ p.at \in Nat \cup {NoStamp}
  BY <1>1 DEF Packet
<1>3. ASSUME NEW at \in Nat PROVE [p EXCEPT !.at = at] \in PacketsOf(l)
  BY <1>1 DEF PacketsOf, Packet
<1>4. ASSUME NEW to \in SUBSET p.to PROVE [p EXCEPT !.to = to] \in PacketsOf(l)
  BY <1>1, <1>2 DEF PacketsOf, Packet
<1>5. QED
  BY <1>1, <1>2, <1>3, <1>4

LEMMA PipelineInit == Init => PipelineOK
<1> SUFFICES ASSUME Init PROVE PipelineOK
  OBVIOUS
<1>1. ListenersOK
  BY DEF Init, ListenersOK
<1>2. ChannelsOK
  BY SettingsFacts DEF Init, ChannelsOK
<1>3. OthersOK
  BY PipelineAssumption DEF Init, OthersOK, R!RegistryInit
<1>4. QED
  BY <1>1, <1>2, <1>3 DEF PipelineOK
-----------------------------------------------------------------------------
(* Listeners and their packets. *)

LEMMA QueueFacts ==
  ASSUME NEW S, NEW q \in Seq(S), q # <<>>
  PROVE  /\ Head(q) \in S /\ Tail(q) \in Seq(S) /\ Len(Tail(q)) <= Len(q)
         /\ 1 \in DOMAIN q /\ q[1] = Head(q)
OBVIOUS

LEMMA ListenerSet ==
  ASSUME ListenersOK, NEW l \in Listeners,
         NEW state \in {"starting", "bound", "polling", "receiving", "forwarding", "stopped"},
         NEW waiting \in Seq(PacketsOf(l)), NEW taken \in Seq(PacketsOf(l)),
         state = "forwarding" => taken # <<>>,
         listener' = [listener EXCEPT ![l] = state],
         inbox' = [inbox EXCEPT ![l] = waiting],
         batch' = [batch EXCEPT ![l] = taken]
  PROVE  ListenersOK'
BY DEF ListenersOK

LEMMA ListenerFacts ==
  ASSUME ListenersOK, NEW l \in Listeners
  PROVE  /\ inbox[l] \in Seq(PacketsOf(l)) /\ batch[l] \in Seq(PacketsOf(l))
         /\ listener[l] = "forwarding" => batch[l] # <<>>
         /\ listener = [listener EXCEPT ![l] = listener[l]]
         /\ inbox = [inbox EXCEPT ![l] = inbox[l]]
         /\ batch = [batch EXCEPT ![l] = batch[l]]
BY DEF ListenersOK

LEMMA ForwardedKeeps ==
  ASSUME ListenersOK, NEW l \in Listeners, listener[l] = "forwarding",
         NEW to \in SUBSET Head(batch[l]).to, Forwarded(l, to)
  PROVE  ListenersOK'
<1> DEFINE rest == IF to = {} THEN Tail(batch[l]) ELSE [batch[l] EXCEPT ![1].to = to]
<1>1. Head(batch[l]) \in PacketsOf(l) /\ Tail(batch[l]) \in Seq(PacketsOf(l))
      /\ 1 \in DOMAIN batch[l] /\ batch[l][1] = Head(batch[l])
  BY ListenerFacts, QueueFacts
<1>2. [Head(batch[l]) EXCEPT !.to = to] \in PacketsOf(l)
  BY <1>1, PacketFacts
<1>3. [batch[l] EXCEPT ![1] = [Head(batch[l]) EXCEPT !.to = to]] \in Seq(PacketsOf(l))
  BY <1>1, <1>2, ListenerFacts
<1>4. [batch[l] EXCEPT ![1].to = to]
        = [batch[l] EXCEPT ![1] = [Head(batch[l]) EXCEPT !.to = to]]
  BY <1>1
<1>5. rest \in Seq(PacketsOf(l))
  BY <1>1, <1>3, <1>4
<1>6. /\ batch' = [batch EXCEPT ![l] = rest]
      /\ listener' = [listener EXCEPT ![l] = IF rest = <<>> THEN "polling" ELSE "forwarding"]
      /\ inbox' = [inbox EXCEPT ![l] = inbox[l]]
  BY ListenerFacts DEF Forwarded
<1> HIDE DEF rest
<1>7. QED
  BY <1>5, <1>6, ListenerSet, ListenerFacts

LEMMA ReceivedFacts ==
  ASSUME ListenersOK, NEW l \in Listeners, inbox[l] # <<>>
  PROVE  /\ Received(l) \in Seq(PacketsOf(l)) /\ Received(l) # <<>>
         /\ SubSeq(inbox[l], Len(Received(l)) + 1, Len(inbox[l])) \in Seq(PacketsOf(l))
<1> DEFINE n == IF Len(inbox[l]) < BatchSize[l] THEN Len(inbox[l]) ELSE BatchSize[l]
<1>1. inbox[l] \in Seq(PacketsOf(l)) /\ Len(inbox[l]) \in Nat /\ Len(inbox[l]) > 0
  BY ListenerFacts
<1>2. n \in Nat /\ n > 0 /\ n <= Len(inbox[l])
  BY <1>1, SettingsFacts
<1>3. Received(l) = SubSeq(inbox[l], 1, n)
  BY DEF Received
<1> HIDE DEF n
<1>4. Received(l) \in Seq(PacketsOf(l)) /\ Len(Received(l)) = n
  BY <1>1, <1>2, <1>3
<1>5. SubSeq(inbox[l], Len(Received(l)) + 1, Len(inbox[l])) \in Seq(PacketsOf(l))
  BY <1>1, <1>2, <1>4
<1>6. QED
  BY <1>2, <1>4, <1>5

(* The time read for a frame replaces its missing stamp. *)
LEMMA ReadFacts ==
  ASSUME ListenersOK, clock \in Nat, NEW l \in Listeners, ReadClock(l)
  PROVE  /\ clock' \in Nat /\ clock' = clock + 1
         /\ batch' = [batch EXCEPT ![l] = [batch[l] EXCEPT ![1].at = clock']]
         /\ [batch[l] EXCEPT ![1].at = clock'] \in Seq(PacketsOf(l))
         /\ [batch[l] EXCEPT ![1].at = clock'] # <<>>
         /\ listener[l] = "forwarding"
<1>1. /\ clock' \in Nat /\ clock' = clock + 1
      /\ batch' = [batch EXCEPT ![l] = [batch[l] EXCEPT ![1].at = clock']]
  BY DEF ReadClock
<1>2. batch[l] \in Seq(PacketsOf(l)) /\ batch[l] # <<>> /\ listener[l] = "forwarding"
  BY ListenerFacts DEF ReadClock
<1>3. Head(batch[l]) \in PacketsOf(l) /\ 1 \in DOMAIN batch[l] /\ batch[l][1] = Head(batch[l])
  BY <1>2, QueueFacts
<1>4. [batch[l] EXCEPT ![1].at = clock']
        = [batch[l] EXCEPT ![1] = [Head(batch[l]) EXCEPT !.at = clock']]
  BY <1>3
<1>5. [Head(batch[l]) EXCEPT !.at = clock'] \in PacketsOf(l)
  BY <1>1, <1>3, PacketFacts
<1>6. /\ [batch[l] EXCEPT ![1] = [Head(batch[l]) EXCEPT !.at = clock']] \in Seq(PacketsOf(l))
      /\ [batch[l] EXCEPT ![1] = [Head(batch[l]) EXCEPT !.at = clock']] # <<>>
  BY <1>2, <1>3, <1>5
<1>7. QED
  BY <1>1, <1>2, <1>4, <1>6

LEMMA ListenerStepKeeps ==
  ASSUME ListenersOK, clock \in Nat, NEW l \in Listeners, ListenerStep(l)
  PROVE  ListenersOK'
<1>1. CASE Bind(l) \/ Configure(l)
  BY <1>1, ListenerFacts, ListenerSet DEF Bind, Configure
<1>2. CASE Poll(l) \/ ReceiveNothing(l)
  BY <1>2, ListenerFacts, ListenerSet DEF Poll, ReceiveNothing
<1>3. CASE SkipUnmatched(l)
  BY <1>3, ForwardedKeeps DEF SkipUnmatched
<1>4. CASE Receive(l)
  BY <1>4, ReceivedFacts, ListenerFacts, ListenerSet DEF Receive
<1>5. CASE ReadClock(l)
  <2>1. listener' = [listener EXCEPT ![l] = "forwarding"] /\ inbox' = [inbox EXCEPT ![l] = inbox[l]]
    BY <1>5, ReadFacts, ListenerFacts DEF ReadClock
  <2>2. QED
    BY <1>5, <2>1, ReadFacts, ListenerFacts, ListenerSet
<1>6. ASSUME NEW source \in Sources, Forward(l, source) PROVE ListenersOK'
  BY <1>6, ForwardedKeeps DEF Forward
<1>7. QED
  BY <1>1, <1>2, <1>3, <1>4, <1>5, <1>6 DEF ListenerStep

(* Whatever CLOCK_REALTIME does, a stamp converts to an instant. *)
LEMMA TimesAreInstants ==
  ASSUME NEW l \in Listeners, clock' \in Nat
  PROVE  KernelTimes(l) \subseteq Nat \cup {NoStamp}
<1>1. ClockSteps \subseteq Int /\ Anchor \in Nat
  BY PipelineAssumption
<1>2. \A delta \in Int : InstantFrom(delta) \in Nat
  BY <1>1 DEF InstantFrom
<1>3. \A step \in ClockSteps : InstantFrom(clock' - Anchor + step) \in Nat
  BY <1>1, <1>2
<1>4. QED
  BY <1>3, Zenon DEF KernelTimes

LEMMA ArrivalKeeps ==
  ASSUME ListenersOK, clock \in Nat, NEW l \in Listeners, PacketArrives(l)
  PROVE  ListenersOK'
<1>1. PICK key \in R!ShredKey, to \in SUBSET Routes[l], at \in KernelTimes(l) :
        inbox' = [inbox EXCEPT ![l] =
                    Append(@, [key |-> key, to |-> to, nr |-> clock', at |-> at])]
  BY DEF PacketArrives
<1> DEFINE packet == [key |-> key, to |-> to, nr |-> clock', at |-> at]
<1>2. clock' \in Nat
  BY DEF PacketArrives
<1>3. packet \in PacketsOf(l)
  BY <1>2, SettingsFacts, TimesAreInstants DEF PacketsOf, Packet
<1>4. Append(inbox[l], packet) \in Seq(PacketsOf(l))
  BY <1>3, ListenerFacts
<1>5. inbox' = [inbox EXCEPT ![l] = Append(inbox[l], packet)]
  BY <1>1
<1> HIDE DEF packet
<1>6. /\ listener[l] \in {"bound", "polling", "receiving", "forwarding"}
      /\ UNCHANGED <<listener, batch>>
  BY DEF PacketArrives
<1>7. QED
  BY <1>4, <1>5, <1>6, ListenerFacts, ListenerSet

-----------------------------------------------------------------------------
(* Channels. *)

LEMMA AcceptFacts ==
  ASSUME NEW S, NEW q \in Seq(S), NEW cap \in Nat, Len(q) <= cap, NEW e \in S
  PROVE  /\ Accepts(q, cap) => Append(q, e) \in Seq(S) /\ Len(Append(q, e)) <= cap
         /\ ~Accepts(q, cap) => agg # "running" \/ Len(q) = cap
<1>1. Len(q) \in Nat /\ Append(q, e) \in Seq(S) /\ Len(Append(q, e)) = Len(q) + 1
  OBVIOUS
<1>2. QED
  BY <1>1 DEF Accepts

(* What a step of a listener does to the channel and the counters. *)
LEMMA ForwardFacts ==
  ASSUME PipelineOK, NEW l \in Listeners, NEW source \in Sources, Forward(l, source)
  PROVE  /\ shred_q' \in Seq(Delivery) /\ Len(shred_q') <= ShredCap
         /\ drops' \in [Sources -> Nat]
         /\ \A s \in Sources : held /\ drops'[s] # drops[s] => ChannelFull(s)
<1> DEFINE packet == Head(batch[l])
           event  == [source |-> source, key |-> packet.key, nr |-> packet.nr,
                      received_at |-> packet.at]
<1>1. /\ listener[l] = "forwarding" /\ source \in packet.to
      /\ packet.at # NoStamp
      /\ IF Accepts(shred_q, ShredCap)
           THEN shred_q' = Append(shred_q, event) /\ UNCHANGED registryVars
           ELSE R!Drop(source) /\ UNCHANGED shred_q
  BY DEF Forward
<1>2. packet \in PacketsOf(l)
  BY <1>1, ListenerFacts, QueueFacts DEF PipelineOK
<1>3. /\ packet.key \in R!ShredKey /\ packet.nr \in Nat /\ packet.at \in Nat
      /\ source \in Routes[l]
  BY <1>1, <1>2, PacketFacts
<1>4. event \in Delivery
  BY <1>3 DEF Delivery
<1> HIDE DEF event, packet
<1>5. /\ shred_q \in Seq(Delivery) /\ Len(shred_q) <= ShredCap /\ drops \in [Sources -> Nat]
      /\ held => agg = "running"
  BY DEF PipelineOK, ChannelsOK, OthersOK
<1>6. CASE Accepts(shred_q, ShredCap)
  <2>1. shred_q' = Append(shred_q, event) /\ drops' = drops
    BY <1>1, <1>6 DEF registryVars
  <2>2. QED
    BY <1>4, <1>5, <1>6, <2>1, AcceptFacts, SettingsFacts
<1>7. CASE ~Accepts(shred_q, ShredCap)
  <2>1. drops' = [drops EXCEPT ![source] = @ + 1] /\ shred_q' = shred_q
    BY <1>1, <1>7 DEF R!Drop
  <2>2. held => Len(shred_q) = ShredCap
    BY <1>4, <1>5, <1>7, AcceptFacts, SettingsFacts
  <2>3. ASSUME NEW s \in Sources, held, drops'[s] # drops[s] PROVE ChannelFull(s)
    <3>1. s = source
      BY <1>5, <2>1, <2>3
    <3>2. QED
      BY <1>3, <2>2, <2>3, <3>1 DEF ChannelFull
  <2>4. drops' \in [Sources -> Nat]
    BY <1>5, <2>1
  <2>5. QED
    BY <1>5, <2>1, <2>3, <2>4
<1>8. QED
  BY <1>6, <1>7

LEMMA LostFacts ==
  ASSUME NEW source \in Sources, NEW lost, IsFiniteSet(lost), drops \in [Sources -> Nat],
         CountLost(source, lost)
  PROVE  /\ drops' \in [Sources -> Nat]
         /\ \A s \in Sources : drops'[s] # drops[s] => s = source /\ lost # {}
<1>1. Cardinality(lost) \in Nat /\ Cardinality({}) = 0
  BY FS_CardinalityType, FS_EmptySet
<1>2. drops' = [drops EXCEPT ![source] = drops[source] + Cardinality(lost)]
  BY DEF CountLost
<1>3. drops' \in [Sources -> Nat]
  BY <1>1, <1>2
<1>4. ASSUME NEW s \in Sources, drops'[s] # drops[s] PROVE s = source /\ lost # {}
  <2>1. s = source
    BY <1>2, <1>4
  <2>2. lost # {}
    BY <1>1, <1>2, <1>4, <2>1
  <2>3. QED
    BY <2>1, <2>2
<1>5. QED
  BY <1>3, <1>4

(* What an update does to the channels and the counters. *)
LEMMA UpdateFacts ==
  ASSUME PipelineOK, NEW t \in Streams, NEW source \in Sources, NEW slot \in Slots,
         NEW sampled \in BOOLEAN, Update(t, source, slot, sampled)
  PROVE  /\ slot_q' \in Seq(R!SlotEvent) /\ Len(slot_q') <= SlotCap
         /\ grpc_q' \in Seq(Sample) /\ Len(grpc_q') <= GrpcCap
         /\ drops' \in [Sources -> Nat] /\ clock' \in Nat
         /\ \A s \in Sources : held /\ drops'[s] # drops[s] => ChannelFull(s)
<1> DEFINE event    == [source |-> source, slot |-> slot, received_at |-> clock']
           sample   == [source |-> source, sampled_at |-> clock']
           sent     == IF sampled THEN {event, sample} ELSE {event}
           accepted == {e \in sent : IF e = event THEN Accepts(slot_q, SlotCap)
                                                 ELSE Accepts(grpc_q, GrpcCap)}
<1>1. /\ source \in StreamSources[t]
      /\ sampled => t \in GrpcStreams /\ source \in AccountSources
      /\ clock' = clock + 1
      /\ slot_q' = IF event \in accepted THEN Append(slot_q, event) ELSE slot_q
      /\ grpc_q' = IF sample \in accepted THEN Append(grpc_q, sample) ELSE grpc_q
      /\ CountLost(source, sent \ accepted)
  BY DEF Update
<1>2. /\ slot_q \in Seq(R!SlotEvent) /\ Len(slot_q) <= SlotCap
      /\ grpc_q \in Seq(Sample) /\ Len(grpc_q) <= GrpcCap
      /\ drops \in [Sources -> Nat] /\ clock \in Nat
      /\ held => agg = "running"
  BY DEF PipelineOK, ChannelsOK, OthersOK
<1>3. clock' \in Nat
  BY <1>1, <1>2
<1>4. event \in R!SlotEvent /\ sample \in Sample
  BY <1>3 DEF R!SlotEvent, Sample
<1>5. sample # event
  <2>1. DOMAIN event = {"source", "slot", "received_at"}
        /\ DOMAIN sample = {"source", "sampled_at"}
    OBVIOUS
  <2>2. QED
    BY <2>1
<1>6. IsFiniteSet(sent) /\ IsFiniteSet(sent \ accepted)
  <2>1. IsFiniteSet({event}) /\ IsFiniteSet({event} \cup {sample})
    <3> HIDE DEF event, sample
    <3>1. QED
      BY FS_Singleton, FS_AddElement
  <2>2. sent \subseteq {event} \cup {sample}
    OBVIOUS
  <2>3. QED
    BY <2>1, <2>2, FS_Subset
<1>7. /\ event \in accepted => Accepts(slot_q, SlotCap)
      /\ sample \in accepted => Accepts(grpc_q, GrpcCap)
  BY <1>5
<1>8. sent \ accepted # {} =>
        ~Accepts(slot_q, SlotCap) \/ (sampled /\ ~Accepts(grpc_q, GrpcCap))
  BY <1>5
<1> HIDE DEF event, sample, sent, accepted
<1>9. drops' \in [Sources -> Nat]
      /\ \A s \in Sources : drops'[s] # drops[s] => s = source /\ sent \ accepted # {}
  BY <1>1, <1>2, <1>6, LostFacts
<1>10. /\ slot_q' \in Seq(R!SlotEvent) /\ Len(slot_q') <= SlotCap
       /\ ~Accepts(slot_q, SlotCap) => agg # "running" \/ Len(slot_q) = SlotCap
  BY <1>1, <1>2, <1>4, <1>7, AcceptFacts, SettingsFacts
<1>11. /\ grpc_q' \in Seq(Sample) /\ Len(grpc_q') <= GrpcCap
       /\ ~Accepts(grpc_q, GrpcCap) => agg # "running" \/ Len(grpc_q) = GrpcCap
  BY <1>1, <1>2, <1>4, <1>7, AcceptFacts, SettingsFacts
<1>12. ASSUME NEW s \in Sources, held, drops'[s] # drops[s] PROVE ChannelFull(s)
  <2>1. s = source /\ agg = "running" /\ sent \ accepted # {}
    BY <1>2, <1>9, <1>12
  <2>2. Len(slot_q) = SlotCap \/ (source \in AccountSources /\ Len(grpc_q) = GrpcCap)
    BY <1>1, <1>8, <1>10, <1>11, <2>1
  <2>3. QED
    BY <1>1, <2>1, <2>2 DEF ChannelFull
<1>13. QED
  BY <1>3, <1>9, <1>10, <1>11, <1>12

-----------------------------------------------------------------------------
(* Every step keeps the pipeline in order. *)

LEMMA ListenKeeps ==
  ASSUME PipelineOK, NEW l \in Listeners, Listen(l)
  PROVE  /\ PipelineOK' /\ UNCHANGED controlVars
         /\ \A s \in Sources : held /\ drops'[s] # drops[s] => ChannelFull(s)
<1>1. ListenerStep(l) /\ UNCHANGED <<controlVars, slot_q, grpc_q, held, agg>>
  BY DEF Listen, mainVars
<1>2. ListenersOK'
  BY <1>1, ListenerStepKeeps DEF PipelineOK, OthersOK
<1>3. /\ shred_q' \in Seq(Delivery) /\ Len(shred_q') <= ShredCap
      /\ drops' \in [Sources -> Nat] /\ clock' \in Nat
      /\ \A s \in Sources : held /\ drops'[s] # drops[s] => ChannelFull(s)
  <2>1. CASE \E source \in Sources : Forward(l, source) /\ UNCHANGED clock
    BY <2>1, ForwardFacts DEF PipelineOK, OthersOK
  <2>2. CASE ReadClock(l) /\ UNCHANGED <<shred_q, registryVars>>
    BY <2>2 DEF ReadClock, PipelineOK, OthersOK, ChannelsOK, registryVars
  <2>3. CASE UNCHANGED <<clock, shred_q, registryVars>>
    BY <2>3 DEF PipelineOK, OthersOK, ChannelsOK, registryVars
  <2>4. QED
    BY <1>1, <2>1, <2>2, <2>3 DEF ListenerStep
<1>4. ChannelsOK' /\ OthersOK'
  BY <1>1, <1>3 DEF PipelineOK, ChannelsOK, OthersOK
<1>5. QED
  BY <1>1, <1>2, <1>3, <1>4 DEF PipelineOK

LEMMA TrafficKeeps ==
  ASSUME PipelineOK, Traffic
  PROVE  PipelineOK' /\ UNCHANGED <<controlVars, drops>>
<1>1. PICK l \in Listeners : PacketArrives(l)
  BY DEF Traffic
<1>2. UNCHANGED <<controlVars, shred_q, slot_q, grpc_q, held, agg, drops>>
  BY DEF Traffic, channelVars, mainVars, registryVars
<1>3. clock \in Nat /\ clock' \in Nat
  BY <1>1 DEF PipelineOK, OthersOK, PacketArrives
<1>4. ListenersOK'
  BY <1>1, <1>3, ArrivalKeeps DEF PipelineOK
<1>5. ChannelsOK' /\ OthersOK'
  BY <1>2, <1>3 DEF PipelineOK, ChannelsOK, OthersOK
<1>6. QED
  BY <1>2, <1>4, <1>5 DEF PipelineOK

LEMMA TasksKeep ==
  ASSUME PipelineOK, Tasks
  PROVE  /\ PipelineOK' /\ UNCHANGED controlVars
         /\ \A s \in Sources : held /\ drops'[s] # drops[s] => ChannelFull(s)
<1>1. CASE TaskStep /\ UNCHANGED <<controlVars, inbox, batch, channelVars, mainVars, agg,
                                   registryVars, clock>>
  <2>1. listener' \in [Listeners ->
          {"absent", "starting", "bound", "polling", "receiving", "forwarding", "stopped"}]
        /\ \A l \in Listeners : listener'[l] = "forwarding" => listener[l] = "forwarding"
    BY <1>1 DEF TaskStep, DirectModeStarts, DirectModeEnds, PipelineOK, ListenersOK
  <2>2. ListenersOK'
    BY <1>1, <2>1 DEF PipelineOK, ListenersOK
  <2>3. ChannelsOK' /\ OthersOK' /\ drops' = drops
    BY <1>1 DEF PipelineOK, ChannelsOK, OthersOK, channelVars, mainVars, registryVars
  <2>4. QED
    BY <1>1, <2>2, <2>3 DEF PipelineOK
<1>2. ASSUME NEW t \in Streams, NEW source \in Sources, NEW slot \in Slots,
             NEW sampled \in BOOLEAN, Update(t, source, slot, sampled),
             UNCHANGED <<controlVars, listenerVars, shred_q, mainVars, agg>>
      PROVE  /\ PipelineOK' /\ UNCHANGED controlVars
             /\ \A s \in Sources : held /\ drops'[s] # drops[s] => ChannelFull(s)
  <2>1. ListenersOK'
    BY <1>2 DEF PipelineOK, ListenersOK, listenerVars
  <2>2. ChannelsOK' /\ OthersOK'
    BY <1>2, UpdateFacts DEF PipelineOK, ChannelsOK, OthersOK, mainVars
  <2>3. QED
    BY <1>2, <2>1, <2>2, UpdateFacts DEF PipelineOK
<1>3. QED
  BY <1>1, <1>2 DEF Tasks

(* The slot of a queued event is one that events may carry, so what the    *)
(* aggregator does with it is a step of the control plane.                 *)
LEMMA AggregateKeeps ==
  ASSUME PipelineOK, Aggregate
  PROVE  /\ PipelineOK' /\ UNCHANGED drops
         /\ \/ UNCHANGED controlVars
            \/ \E slot \in Slots : HandleShred(slot) \/ HandleSlotEvent(slot)
<1>1. ListenersOK' /\ clock' \in Nat /\ held' = held
  BY DEF Aggregate, listenerVars, mainVars, PipelineOK, ListenersOK, OthersOK
<1>2. CASE TakeShred
  <2>1. Head(shred_q) \in Delivery /\ Tail(shred_q) \in Seq(Delivery)
        /\ Len(Tail(shred_q)) <= Len(shred_q)
    BY <1>2, QueueFacts DEF TakeShred, PipelineOK, ChannelsOK
  <2>2. Head(shred_q).key.slot \in Slots /\ HandleShred(Head(shred_q).key.slot)
    BY <1>2, <2>1 DEF TakeShred, Delivery, R!ShredKey
  <2>3. shred_q' = Tail(shred_q) /\ UNCHANGED <<slot_q, grpc_q, agg, drops>>
    BY <1>2 DEF TakeShred, Record, R!RecordShred, registryVars
  <2>4. Len(Tail(shred_q)) <= ShredCap
    BY <1>2, <2>1, SettingsFacts DEF TakeShred, PipelineOK, ChannelsOK
  <2>5. QED
    BY <1>1, <2>1, <2>2, <2>3, <2>4 DEF PipelineOK, ChannelsOK, OthersOK
<1>3. CASE TakeSlotEvent
  <2>1. Head(slot_q) \in R!SlotEvent /\ Tail(slot_q) \in Seq(R!SlotEvent)
        /\ Len(Tail(slot_q)) <= Len(slot_q)
    BY <1>3, QueueFacts DEF TakeSlotEvent, PipelineOK, ChannelsOK
  <2>2. Head(slot_q).slot \in Slots /\ HandleSlotEvent(Head(slot_q).slot)
    BY <1>3, <2>1 DEF TakeSlotEvent, R!SlotEvent
  <2>3. slot_q' = Tail(slot_q) /\ UNCHANGED <<shred_q, grpc_q, agg, drops>>
    BY <1>3 DEF TakeSlotEvent, R!RecordSlotEvent, registryVars
  <2>4. Len(Tail(slot_q)) <= SlotCap
    BY <1>3, <2>1, SettingsFacts DEF TakeSlotEvent, PipelineOK, ChannelsOK
  <2>5. QED
    BY <1>1, <2>1, <2>2, <2>3, <2>4 DEF PipelineOK, ChannelsOK, OthersOK
<1>4. CASE TakeSample
  <2>1. Tail(grpc_q) \in Seq(Sample) /\ Len(Tail(grpc_q)) <= Len(grpc_q)
    BY <1>4, QueueFacts DEF TakeSample, PipelineOK, ChannelsOK
  <2>2. grpc_q' = Tail(grpc_q) /\ UNCHANGED <<controlVars, shred_q, slot_q, agg, drops>>
    BY <1>4 DEF TakeSample, R!RecordGrpcLatency
  <2>3. Len(Tail(grpc_q)) <= GrpcCap
    BY <1>4, <2>1, SettingsFacts DEF TakeSample, PipelineOK, ChannelsOK
  <2>4. QED
    BY <1>1, <2>1, <2>2, <2>3 DEF PipelineOK, ChannelsOK, OthersOK
<1>5. CASE AggregatorBreaks
  <2>1. ~held /\ UNCHANGED <<controlVars, shred_q, slot_q, grpc_q, drops>>
    BY <1>5 DEF AggregatorBreaks, ChannelEnds, ShredClosed, SlotClosed, GrpcClosed,
         channelVars, registryVars
  <2>2. QED
    BY <1>1, <2>1 DEF PipelineOK, ChannelsOK, OthersOK
<1>6. QED
  BY <1>2, <1>3, <1>4, <1>5 DEF Aggregate

LEMMA FinishKeeps ==
  ASSUME PipelineOK, Finish
  PROVE  PipelineOK' /\ UNCHANGED <<controlVars, drops>>
<1>1. UNCHANGED <<controlVars, listenerVars, channelVars, agg, registryVars, clock>>
  BY DEF Finish
<1>2. ListenersOK' /\ ChannelsOK'
  BY <1>1 DEF PipelineOK, ListenersOK, ChannelsOK, listenerVars, channelVars
<1>3. held' => held
  BY DEF Finish, DropSenders, JoinAggregator, JoinTimesOut, Reported, Exit
<1>4. OthersOK' /\ UNCHANGED <<controlVars, drops>>
  BY <1>1, <1>3 DEF PipelineOK, OthersOK, registryVars
<1>5. QED
  BY <1>2, <1>4 DEF PipelineOK

LEMMA QuietKeeps ==
  ASSUME PipelineOK,
         UNCHANGED <<listenerVars, channelVars, mainVars, agg, registryVars, clock>>
  PROVE  PipelineOK' /\ UNCHANGED drops
BY DEF PipelineOK, ListenersOK, ChannelsOK, OthersOK, listenerVars, channelVars, mainVars,
       registryVars

(* A step of the run is a step of the control plane or none, and loses     *)
(* events to full channels only while main holds its senders.              *)
StepIsFair ==
  /\ [ControlNext]_controlVars
  /\ \A s \in Sources : held /\ drops'[s] # drops[s] => ChannelFull(s)

LEMMA StepKeeps == PipelineOK /\ [Next]_vars => PipelineOK' /\ StepIsFair
<1> SUFFICES ASSUME PipelineOK, [Next]_vars PROVE PipelineOK' /\ StepIsFair
  OBVIOUS
<1>1. ASSUME NEW l \in Listeners, Listen(l) PROVE PipelineOK' /\ StepIsFair
  BY <1>1, ListenKeeps DEF StepIsFair
<1>2. CASE Traffic
  BY <1>2, TrafficKeeps DEF StepIsFair
<1>3. CASE Tasks
  BY <1>3, TasksKeep DEF StepIsFair
<1>4. CASE Aggregate
  BY <1>4, AggregateKeeps DEF StepIsFair, ControlNext
<1>5. CASE Finish
  BY <1>5, FinishKeeps DEF StepIsFair
<1>6. CASE Control(Timers) \/ Control(Main)
  BY <1>6, QuietKeeps DEF StepIsFair, Control, ControlNext
<1>7. CASE UNCHANGED vars
  BY <1>7, QuietKeeps DEF StepIsFair, vars
<1>8. QED
  BY <1>1, <1>2, <1>3, <1>4, <1>5, <1>6, <1>7 DEF Next

LEMMA PipelineHolds == Safety => []PipelineOK
BY PipelineInit, StepKeeps, PTL DEF Safety

(* main.rs 307-459: the run is the control plane with channels and threads *)
(* around it.  Whatever the listeners, the streams, the aggregator and     *)
(* main's shutdown do, the token, the flag and the timers go through steps *)
(* of RunControl.                                                          *)
THEOREM RunImplementsControl == Safety => ControlSafety
<1>1. Init => ControlInit
  BY DEF Init
<1>2. StepIsFair => [ControlNext]_controlVars
  BY DEF StepIsFair
<1>3. QED
  BY <1>1, <1>2, PipelineHolds, StepKeeps, PTL DEF Safety, ControlSafety

(* main.rs 463-465, raw_udp.rs 92-100, yellowstone.rs 160-217: while main  *)
(* holds its senders the aggregator is there, and a source loses an event  *)
(* only to a full channel, whatever is configured and however early other  *)
(* sources end.                                                            *)
THEOREM DropsMeanFull == Safety => DropsMeanFullChannel
<1>1. StepIsFair => [\A source \in Sources :
        held /\ drops'[source] # drops[source] => ChannelFull(source)]_vars
  BY DEF StepIsFair
<1>2. QED
  BY <1>1, PipelineHolds, StepKeeps, PTL DEF Safety, DropsMeanFullChannel

-----------------------------------------------------------------------------
(* Events are told apart by their numbers: a number belongs to one packet, *)
(* and a packet has events for the routes already served only.             *)

Nrs(queue)       == {queue[i].nr : i \in DOMAIN queue}
OneNr(queue) == \A i, j \in DOMAIN queue : queue[i].nr = queue[j].nr => i = j
OneEach(queue)  == \A i, j \in DOMAIN queue : queue[i] = queue[j] => i = j
Line(l)         == Nrs(inbox[l]) \cup Nrs(batch[l])

NumbersOK ==
  \A l \in Listeners :
    /\ OneNr(inbox[l]) /\ OneNr(batch[l]) /\ Nrs(inbox[l]) \cap Nrs(batch[l]) = {}
    /\ Line(l) \subseteq 1..clock
    /\ \A m \in Listeners : l # m => Line(l) \cap Line(m) = {}

(* No event of the packet for any of the routes it still has. *)
Unserved(event, l) ==
  /\ event.nr \notin Nrs(inbox[l])
  /\ \A i \in DOMAIN batch[l] :
       event.nr = batch[l][i].nr => event.source \notin batch[l][i].to

SentOK ==
  \A e \in DOMAIN fate :
    /\ e \in Delivery \cup R!SlotEvent \cup Sample
    /\ e \in Delivery => e.nr <= clock
    /\ e \in R!SlotEvent => e.received_at <= clock
    /\ e \in Sample => e.sampled_at <= clock
    /\ e \in Delivery => \A l \in Listeners : Unserved(e, l)

QueuesOK ==
  /\ OneEach(shred_q) /\ OneEach(slot_q) /\ OneEach(grpc_q)
  /\ Queued \subseteq DOMAIN fate

(* Each arrival has a receipt. *)
BooksOK ==
  /\ DOMAIN receipts = DOMAIN shreds
  /\ \A key \in DOMAIN shreds :
       /\ shreds[key] \in R!ShredRecord /\ receipts[key] \in Seq(Nat)
       /\ Len(receipts[key]) = Len(shreds[key].arrivals)
  /\ \A source \in DOMAIN grpc_latencies : grpc_latencies[source] \in Seq(Nat)

EventsOK == NumbersOK /\ SentOK /\ QueuesOK /\ BooksOK

-----------------------------------------------------------------------------
(* Queues as sets. *)

LEMMA AppendElems ==
  ASSUME NEW S, NEW q \in Seq(S), NEW e \in S
  PROVE  /\ Elems(Append(q, e)) = Elems(q) \cup {e}
         /\ OneEach(q) /\ e \notin Elems(q) => OneEach(Append(q, e))
<1>1. /\ DOMAIN q = 1..Len(q) /\ Len(q) \in Nat /\ DOMAIN Append(q, e) = 1..Len(q) + 1
      /\ Append(q, e)[Len(q) + 1] = e
      /\ \A i \in 1..Len(q) : Append(q, e)[i] = q[i]
  OBVIOUS
<1>2. Elems(Append(q, e)) = Elems(q) \cup {e}
  <2>1. 1..Len(q) + 1 = (1..Len(q)) \cup {Len(q) + 1}
    BY <1>1
  <2>2. QED
    BY <1>1, <2>1, Zenon DEF Elems
<1>3. ASSUME OneEach(q), e \notin Elems(q) PROVE OneEach(Append(q, e))
  <2>1. \A i \in 1..Len(q) : q[i] # e
    BY <1>1, <1>3 DEF Elems
  <2>2. QED
    BY <1>1, <1>3, <2>1 DEF OneEach
<1>4. QED
  BY <1>2, <1>3

LEMMA TailElems ==
  ASSUME NEW S, NEW q \in Seq(S), q # <<>>, OneEach(q)
  PROVE  /\ Elems(Tail(q)) = Elems(q) \ {Head(q)} /\ Head(q) \in Elems(q)
         /\ OneEach(Tail(q))
<1>1. /\ DOMAIN q = 1..Len(q) /\ Len(q) \in Nat \ {0} /\ DOMAIN Tail(q) = 1..Len(q) - 1
      /\ Head(q) = q[1] /\ \A i \in 1..Len(q) - 1 : Tail(q)[i] = q[i + 1]
  OBVIOUS
<1>2. OneEach(Tail(q))
  <2>1. ASSUME NEW i \in 1..Len(q) - 1, NEW j \in 1..Len(q) - 1, Tail(q)[i] = Tail(q)[j]
        PROVE  i = j
    <3>1. i + 1 \in DOMAIN q /\ j + 1 \in DOMAIN q /\ q[i + 1] = q[j + 1]
      BY <1>1, <2>1
    <3>2. i + 1 = j + 1
      BY <3>1 DEF OneEach
    <3>3. QED
      BY <3>2
  <2>2. QED
    BY <1>1, <2>1 DEF OneEach
<1>3. Elems(Tail(q)) = {q[i] : i \in 2..Len(q)}
  <2>1. \A i \in 1..Len(q) - 1 : i + 1 \in 2..Len(q)
    BY <1>1
  <2>2. \A i \in 2..Len(q) : i - 1 \in 1..Len(q) - 1 /\ Tail(q)[i - 1] = q[i]
    BY <1>1
  <2>3. ASSUME NEW e \in Elems(Tail(q)) PROVE e \in {q[i] : i \in 2..Len(q)}
    <3>1. PICK i \in 1..Len(q) - 1 : e = Tail(q)[i]
      BY <1>1, <2>3 DEF Elems
    <3>2. e = q[i + 1] /\ i + 1 \in 2..Len(q)
      BY <1>1, <2>1, <3>1
    <3>3. QED
      BY <3>2
  <2>4. ASSUME NEW i \in 2..Len(q) PROVE q[i] \in Elems(Tail(q))
    BY <1>1, <2>2 DEF Elems
  <2>5. QED
    BY <2>3, <2>4
<1>4. \A i \in 2..Len(q) : i \in DOMAIN q /\ q[i] # q[1]
  BY <1>1 DEF OneEach
<1>5. DOMAIN q = {1} \cup 2..Len(q)
  BY <1>1
<1>6. Elems(q) = {q[1]} \cup {q[i] : i \in 2..Len(q)}
  BY <1>5, Zenon DEF Elems
<1>7. QED
  BY <1>1, <1>2, <1>3, <1>4, <1>6

LEMMA NumberElems ==
  ASSUME NEW S, NEW q \in Seq(S)
  PROVE  /\ \A p \in S : /\ Nrs(Append(q, p)) = Nrs(q) \cup {p.nr}
                         /\ OneNr(q) /\ p.nr \notin Nrs(q) => OneNr(Append(q, p))
         /\ q # <<>> => /\ Nrs(Tail(q)) \subseteq Nrs(q) /\ Head(q).nr \in Nrs(q)
                        /\ OneNr(q) => OneNr(Tail(q)) /\ Head(q).nr \notin Nrs(Tail(q))
<1>1. DOMAIN q = 1..Len(q) /\ Len(q) \in Nat
  OBVIOUS
<1>2. ASSUME NEW p \in S
      PROVE  /\ Nrs(Append(q, p)) = Nrs(q) \cup {p.nr}
             /\ OneNr(q) /\ p.nr \notin Nrs(q) => OneNr(Append(q, p))
  <2>1. /\ DOMAIN Append(q, p) = 1..Len(q) + 1 /\ Append(q, p)[Len(q) + 1] = p
        /\ \A i \in 1..Len(q) : Append(q, p)[i] = q[i]
    OBVIOUS
  <2>2. 1..Len(q) + 1 = (1..Len(q)) \cup {Len(q) + 1}
    BY <1>1
  <2>3. Nrs(Append(q, p)) = Nrs(q) \cup {p.nr}
    <3>1. ASSUME NEW a \in Nrs(Append(q, p)) PROVE a \in Nrs(q) \cup {p.nr}
      <4>1. PICK i \in 1..Len(q) + 1 : a = Append(q, p)[i].nr
        BY <2>1, <3>1 DEF Nrs
      <4>2. QED
        BY <1>1, <2>1, <2>2, <4>1 DEF Nrs
    <3>2. ASSUME NEW i \in 1..Len(q) PROVE q[i].nr \in Nrs(Append(q, p))
      BY <2>1, <2>2, <3>2 DEF Nrs
    <3>3. p.nr \in Nrs(Append(q, p))
      BY <2>1, <2>2 DEF Nrs
    <3>4. QED
      BY <1>1, <3>1, <3>2, <3>3 DEF Nrs
  <2>4. ASSUME OneNr(q), p.nr \notin Nrs(q) PROVE OneNr(Append(q, p))
    <3>1. \A i \in 1..Len(q) : q[i].nr # p.nr
      BY <1>1, <2>4 DEF Nrs
    <3>2. QED
      BY <1>1, <2>1, <2>4, <3>1 DEF OneNr
  <2>5. QED
    BY <2>3, <2>4
<1>3. ASSUME q # <<>>
      PROVE  /\ Nrs(Tail(q)) \subseteq Nrs(q) /\ Head(q).nr \in Nrs(q)
             /\ OneNr(q) => OneNr(Tail(q)) /\ Head(q).nr \notin Nrs(Tail(q))
  <2>1. /\ Len(q) \in Nat \ {0} /\ DOMAIN Tail(q) = 1..Len(q) - 1 /\ 1 \in DOMAIN q
        /\ Head(q) = q[1] /\ \A i \in 1..Len(q) - 1 : Tail(q)[i] = q[i + 1]
    BY <1>3
  <2>2. \A i \in 1..Len(q) - 1 : i + 1 \in DOMAIN q /\ i + 1 # 1
    BY <1>1, <2>1
  <2>3. Nrs(Tail(q)) \subseteq Nrs(q) /\ Head(q).nr \in Nrs(q)
    BY <2>1, <2>2 DEF Nrs
  <2>4. ASSUME OneNr(q) PROVE Head(q).nr \notin Nrs(Tail(q))
    BY <2>1, <2>2, <2>4 DEF Nrs, OneNr
  <2>5. ASSUME OneNr(q), NEW i \in DOMAIN Tail(q), NEW j \in DOMAIN Tail(q),
               Tail(q)[i].nr = Tail(q)[j].nr
        PROVE  i = j
    <3>1. q[i + 1].nr = q[j + 1].nr /\ i + 1 \in DOMAIN q /\ j + 1 \in DOMAIN q
      BY <2>1, <2>2, <2>5
    <3>2. i + 1 = j + 1
      BY <2>5, <3>1 DEF OneNr
    <3>3. QED
      BY <2>1, <2>5, <3>2
  <2>6. QED
    BY <2>3, <2>4, <2>5 DEF OneNr
<1>4. QED
  BY <1>2, <1>3

-----------------------------------------------------------------------------
(* The three kinds of events are different records. *)
LEMMA KindsDiffer ==
  /\ Delivery \cap R!SlotEvent = {} /\ Delivery \cap Sample = {}
  /\ R!SlotEvent \cap Sample = {}
<1>1. \A e \in Delivery : DOMAIN e = {"source", "key", "nr", "received_at"}
  BY DEF Delivery
<1>2. \A e \in R!SlotEvent : DOMAIN e = {"source", "slot", "received_at"}
  BY DEF R!SlotEvent
<1>3. \A e \in Sample : DOMAIN e = {"source", "sampled_at"}
  BY DEF Sample
<1>4. /\ "key" \notin {"source", "slot", "received_at"}
      /\ "key" \notin {"source", "sampled_at"} /\ "slot" \notin {"source", "sampled_at"}
  OBVIOUS
<1>5. QED
  BY <1>1, <1>2, <1>3, <1>4

(* A listener whose numbers are its own or new keeps the numbers apart. *)
LEMMA NumbersStep ==
  ASSUME ListenersOK, NumbersOK, clock \in Nat, clock' \in Nat, clock <= clock',
         NEW l \in Listeners, NEW waiting, NEW taken,
         inbox' = [inbox EXCEPT ![l] = waiting], batch' = [batch EXCEPT ![l] = taken],
         OneNr(waiting), OneNr(taken), Nrs(waiting) \cap Nrs(taken) = {},
         \A a \in Nrs(waiting) \cup Nrs(taken) :
           a \in Line(l) \/ (a \in Nat /\ clock < a /\ a <= clock')
  PROVE  NumbersOK'
<1>1. /\ DOMAIN inbox = Listeners /\ DOMAIN batch = Listeners
      /\ inbox'[l] = waiting /\ batch'[l] = taken
      /\ \A m \in Listeners : m # l => inbox'[m] = inbox[m] /\ batch'[m] = batch[m]
  BY DEF ListenersOK
<1>2. Line(l)' = Nrs(waiting) \cup Nrs(taken)
  BY <1>1 DEF Line, Nrs
<1>3. \A m \in Listeners : m # l => Line(m)' = Line(m)
  BY <1>1 DEF Line, Nrs
<1>4. \A m \in Listeners : Line(m) \subseteq 1..clock
  BY DEF NumbersOK
<1>5. \A m \in Listeners : Line(m)' \subseteq 1..clock'
  <2>1. 1..clock \subseteq 1..clock'
    OBVIOUS
  <2>2. \A a \in Nrs(waiting) \cup Nrs(taken) : a \in 1..clock'
    BY <1>4, <2>1
  <2>3. QED
    BY <1>2, <1>3, <1>4, <2>1, <2>2
<1>6. ASSUME NEW m \in Listeners, m # l PROVE Line(m)' \cap Line(l)' = {}
  <2>1. \A a \in Line(m) : a \notin Line(l) /\ ~(clock < a)
    BY <1>4, <1>6 DEF NumbersOK
  <2>2. QED
    BY <1>2, <1>3, <1>6, <2>1
<1>7. ASSUME NEW m \in Listeners, NEW n \in Listeners, m # n
      PROVE  Line(m)' \cap Line(n)' = {}
  <2>1. CASE m # l /\ n # l
    BY <1>3, <1>7, <2>1 DEF NumbersOK
  <2>2. CASE m = l
    BY <1>6, <1>7, <2>2
  <2>3. CASE n = l
    BY <1>6, <1>7, <2>3
  <2>4. QED
    BY <2>1, <2>2, <2>3
<1>8. ASSUME NEW m \in Listeners
      PROVE  /\ OneNr(inbox'[m]) /\ OneNr(batch'[m])
             /\ Nrs(inbox'[m]) \cap Nrs(batch'[m]) = {}
  BY <1>1 DEF NumbersOK
<1>9. QED
  BY <1>5, <1>7, <1>8 DEF NumbersOK, OneNr, Nrs

(* The ledger counts like the run. *)
LEMMA LedgerCounts ==
  \A S : L!Cardinality(S) = Cardinality(S) /\ (L!IsFiniteSet(S) <=> IsFiniteSet(S))
<1>1. \A S : L!Cardinality(S) = Cardinality(S)
  BY DEF L!Cardinality, Cardinality
<1>2. \A S : L!IsFiniteSet(S) <=> IsFiniteSet(S)
  BY DEF L!IsFiniteSet, IsFiniteSet
<1>3. QED
  BY <1>1, <1>2

(* What a step does to the fates: nothing, or a source sends new events,   *)
(* some of which are refused, or an event that was queued is settled.      *)
FatesStay ==
  fate' = fate /\ Queued' = Queued /\ ShredsBooked' = ShredsBooked /\ drops' = drops

Sends(source, new, accepted) ==
  /\ IsFiniteSet(new) /\ new \cap DOMAIN fate = {} /\ accepted \subseteq new
  /\ \A e \in new : e.source = source
  /\ DOMAIN fate' = DOMAIN fate \cup new
  /\ \A e \in DOMAIN fate : fate'[e] = fate[e]
  /\ \A e \in new : fate'[e] = IF e \in accepted THEN "queued" ELSE "dropped"
  /\ Queued' = Queued \cup accepted /\ ShredsBooked' = ShredsBooked
  /\ drops' = [drops EXCEPT ![source] = @ + Cardinality(new \ accepted)]

Settles(event, f) ==
  /\ DOMAIN fate' = DOMAIN fate /\ fate'[event] = f
  /\ \A e \in DOMAIN fate : e # event => fate'[e] = fate[e]
  /\ Queued' = Queued \ {event} /\ drops' = drops
  /\ ShredsBooked' = ShredsBooked \cup {e \in {event} : e \in Delivery /\ f = "recorded"}

FateStep ==
  \/ FatesStay
  \/ \E source \in Sources : \E new, accepted : Sends(source, new, accepted)
  \/ \E event \in Queued, f \in {"recorded", "skipped"} : Settles(event, f)

(* Such a step is one of the ledger, or none. *)
LedgerStep == (L!Next \/ UNCHANGED L!vars) /\ FateStep

LEMMA SendStep ==
  ASSUME NEW source \in Sources, NEW new, NEW accepted, Sends(source, new, accepted),
         new # {}, accepted # {} => agg = "running", Queued \subseteq DOMAIN fate,
         UNCHANGED <<shreds, grpc_latencies, receipts, agg>>
  PROVE  LedgerStep
<1>1. /\ IsFiniteSet(new) /\ new \cap DOMAIN fate = {} /\ accepted \subseteq new
      /\ \A e \in new : e.source = source
      /\ DOMAIN fate' = DOMAIN fate \cup new /\ Queued' = Queued \cup accepted
      /\ drops' = [drops EXCEPT ![source] = @ + Cardinality(new \ accepted)]
  BY DEF Sends
<1>2. DOMAIN fate' \ DOMAIN fate = new /\ Queued' \ Queued = accepted
  BY <1>1
<1>3. (ShredsBooked \cup SamplesBooked)' = ShredsBooked \cup SamplesBooked
  BY DEF ShredsBooked, SamplesBooked, Elems
<1>4. UNCHANGED <<ShredsBooked \cup SamplesBooked, agg = "running">>
  BY <1>3, Zenon
<1>5. L!Send(source, new, accepted)
  BY <1>1, <1>4, LedgerCounts, Zenon DEF L!Send
<1>6. L!Next
  BY <1>2, <1>5 DEF L!Next
<1>7. QED
  BY <1>6 DEF LedgerStep, FateStep

LEMMA StillStep ==
  ASSUME fate' = fate,
         UNCHANGED <<shred_q, slot_q, grpc_q, shreds, grpc_latencies, receipts, drops, agg>>
  PROVE  LedgerStep
<1>1. UNCHANGED L!vars
  BY DEF L!vars, Queued, ShredsBooked, SamplesBooked, Elems
<1>2. FatesStay
  BY DEF FatesStay, Queued, ShredsBooked, Elems
<1>3. QED
  BY <1>1, <1>2 DEF LedgerStep, FateStep

LEMMA SettleStep ==
  ASSUME NEW event \in Queued, NEW f \in {"recorded", "skipped"}, Settles(event, f),
         agg = "running",
         \/ (ShredsBooked \cup SamplesBooked)' = ShredsBooked \cup SamplesBooked
         \/ (ShredsBooked \cup SamplesBooked)' = ShredsBooked \cup SamplesBooked \cup {event},
         UNCHANGED agg
  PROVE  LedgerStep
<1>1. DOMAIN fate' = DOMAIN fate /\ Queued' = Queued \ {event} /\ drops' = drops
  BY DEF Settles
<1>2. L!Settle(event)
  BY <1>1 DEF L!Settle
<1>3. QED
  BY <1>2 DEF LedgerStep, FateStep, L!Next

LEMMA NoDrop ==
  ASSUME drops \in [Sources -> Nat], NEW source \in Sources
  PROVE  drops = [drops EXCEPT ![source] = @ + Cardinality({})]
<1>1. Cardinality({}) = 0
  BY FS_EmptySet
<1>2. QED
  BY <1>1

-----------------------------------------------------------------------------
(* Every step keeps the events apart and is a step of the ledger or none. *)

LEMMA NumbersStill ==
  ASSUME EventsOK, DOMAIN fate' = DOMAIN fate, UNCHANGED <<inbox, batch, clock>>
  PROVE  NumbersOK' /\ SentOK'
<1>1. NumbersOK'
  <2>1. \A l \in Listeners : Line(l)' = Line(l)
    BY DEF Line, Nrs
  <2>2. inbox' = inbox /\ batch' = batch /\ clock' = clock
    OBVIOUS
  <2>3. \A l \in Listeners :
          /\ OneNr(inbox'[l]) /\ OneNr(batch'[l])
          /\ Nrs(inbox'[l]) \cap Nrs(batch'[l]) = {} /\ Line(l)' \subseteq 1..clock'
    BY <2>1, <2>2 DEF EventsOK, NumbersOK
  <2>4. \A l, m \in Listeners : l # m => Line(l)' \cap Line(m)' = {}
    BY <2>1 DEF EventsOK, NumbersOK
  <2>5. QED
    BY <2>3, <2>4 DEF NumbersOK, OneNr, Nrs
<1>2. SentOK'
  BY DEF EventsOK, SentOK, Unserved, Nrs
<1>3. QED
  BY <1>1, <1>2

LEMMA EventsStill ==
  ASSUME EventsOK, fate' = fate,
         UNCHANGED <<inbox, batch, clock, shred_q, slot_q, grpc_q, registryVars, agg>>
  PROVE  EventsOK' /\ LedgerStep
<1>1. NumbersOK' /\ SentOK'
  BY NumbersStill
<1>2. QueuesOK' /\ BooksOK'
  BY DEF EventsOK, QueuesOK, BooksOK, registryVars, Queued, Elems, OneEach
<1>3. LedgerStep
  BY StillStep DEF registryVars
<1>4. QED
  BY <1>1, <1>2, <1>3 DEF EventsOK

(* A listener that sends nothing and takes over what it had, or new packets. *)
LEMMA EventsMove ==
  ASSUME PipelineOK, EventsOK, clock' \in Nat, clock <= clock',
         NEW l \in Listeners, NEW waiting, NEW taken,
         inbox' = [inbox EXCEPT ![l] = waiting], batch' = [batch EXCEPT ![l] = taken],
         OneNr(waiting), OneNr(taken), Nrs(waiting) \cap Nrs(taken) = {},
         \A a \in Nrs(waiting) \cup Nrs(taken) :
           a \in Line(l) \/ (a \in Nat /\ clock < a /\ a <= clock'),
         \A e \in DOMAIN fate : e \in Delivery /\ Unserved(e, l) =>
           /\ e.nr \notin Nrs(waiting)
           /\ \A i \in DOMAIN taken :
                e.nr = taken[i].nr => e.source \notin taken[i].to,
         UNCHANGED <<fate, shred_q, slot_q, grpc_q, registryVars, agg>>
  PROVE  EventsOK' /\ LedgerStep
<1>1. ListenersOK /\ clock \in Nat
  BY DEF PipelineOK, OthersOK
<1>2. NumbersOK'
  BY <1>1, NumbersStep DEF EventsOK
<1>3. ASSUME NEW e \in DOMAIN fate'
      PROVE  /\ e \in Delivery \cup R!SlotEvent \cup Sample
             /\ e \in Delivery => e.nr <= clock'
             /\ e \in R!SlotEvent => e.received_at <= clock'
             /\ e \in Sample => e.sampled_at <= clock'
             /\ e \in Delivery => \A m \in Listeners : Unserved(e, m)'
  <2>1. /\ e \in DOMAIN fate /\ e \in Delivery \cup R!SlotEvent \cup Sample
        /\ e \in Delivery => e.nr <= clock
        /\ e \in R!SlotEvent => e.received_at <= clock
        /\ e \in Sample => e.sampled_at <= clock
        /\ e \in Delivery => \A m \in Listeners : Unserved(e, m)
    BY <1>3 DEF EventsOK, SentOK
  <2>2. /\ e \in Delivery => e.nr \in Nat
        /\ e \in R!SlotEvent => e.received_at \in Nat
        /\ e \in Sample => e.sampled_at \in Nat
    BY DEF Delivery, R!SlotEvent, Sample
  <2>3. ASSUME e \in Delivery, NEW m \in Listeners PROVE Unserved(e, m)'
    <3>1. Unserved(e, m)
      BY <2>1, <2>3
    <3>2. m = l => /\ e.nr \notin Nrs(waiting)
                   /\ \A i \in DOMAIN taken :
                        e.nr = taken[i].nr => e.source \notin taken[i].to
      BY <2>1, <2>3, <3>1
    <3>3. /\ inbox'[m] = IF m = l THEN waiting ELSE inbox[m]
          /\ batch'[m] = IF m = l THEN taken ELSE batch[m]
      BY <1>1, <2>3 DEF ListenersOK
    <3>4. QED
      BY <3>1, <3>2, <3>3 DEF Unserved, Nrs
  <2>4. QED
    BY <1>1, <2>1, <2>2, <2>3
<1>4. SentOK'
  BY <1>3 DEF SentOK
<1>5. QueuesOK' /\ BooksOK'
  BY DEF EventsOK, QueuesOK, BooksOK, registryVars, Queued, Elems, OneEach
<1>6. LedgerStep
  BY StillStep DEF registryVars
<1>7. QED
  BY <1>2, <1>4, <1>5, <1>6 DEF EventsOK

LEMMA SplitNumbers ==
  ASSUME NEW S, NEW q \in Seq(S), OneNr(q), NEW n \in 1..Len(q)
  PROVE  LET rest == SubSeq(q, n + 1, Len(q)) IN
         /\ Nrs(rest) \subseteq Nrs(q) /\ OneNr(rest)
         /\ \A i \in 1..n : q[i].nr \in Nrs(q) /\ q[i].nr \notin Nrs(rest)
<1> DEFINE rest == SubSeq(q, n + 1, Len(q))
<1>1. /\ Len(q) \in Nat /\ DOMAIN q = 1..Len(q) /\ DOMAIN rest = 1..Len(q) - n
      /\ \A i \in 1..Len(q) - n : i + n \in DOMAIN q /\ rest[i] = q[i + n]
  OBVIOUS
<1> HIDE DEF rest
<1>2. Nrs(rest) \subseteq Nrs(q)
  BY <1>1 DEF Nrs
<1>3. ASSUME NEW i \in DOMAIN rest, NEW j \in DOMAIN rest, rest[i].nr = rest[j].nr
      PROVE  i = j
  <2>1. /\ i + n \in DOMAIN q /\ j + n \in DOMAIN q /\ i \in Nat /\ j \in Nat /\ n \in Nat
        /\ q[i + n].nr = q[j + n].nr
    BY <1>1, <1>3
  <2>2. i + n = j + n
    BY <2>1, Zenon DEF OneNr
  <2>3. QED
    BY <2>1, <2>2
<1>4. ASSUME NEW i \in 1..n PROVE q[i].nr \in Nrs(q) /\ q[i].nr \notin Nrs(rest)
  <2>1. i \in DOMAIN q
    BY <1>1
  <2>2. ASSUME NEW j \in DOMAIN rest PROVE q[i].nr # rest[j].nr
    <3>1. j + n \in DOMAIN q /\ rest[j] = q[j + n] /\ j + n # i
      BY <1>1, <2>2
    <3>2. QED
      BY <2>1, <3>1 DEF OneNr
  <2>3. QED
    BY <2>1, <2>2 DEF Nrs
<1>5. QED
  BY <1>2, <1>3, <1>4 DEF OneNr, rest

LEMMA ReceiveEvents ==
  ASSUME PipelineOK, EventsOK, NEW l \in Listeners, Receive(l),
         UNCHANGED <<clock, fate, shred_q, slot_q, grpc_q, registryVars, agg>>
  PROVE  EventsOK' /\ LedgerStep
<1> DEFINE n     == IF Len(inbox[l]) < BatchSize[l] THEN Len(inbox[l]) ELSE BatchSize[l]
           taken == Received(l)
           rest  == SubSeq(inbox[l], n + 1, Len(inbox[l]))
<1>1. inbox[l] \in Seq(PacketsOf(l)) /\ inbox[l] # <<>> /\ clock \in Nat
  BY ListenerFacts DEF PipelineOK, OthersOK, Receive
<1>2. n \in 1..Len(inbox[l])
  BY <1>1, SettingsFacts
<1>3. taken = SubSeq(inbox[l], 1, n)
  BY DEF Received
<1> HIDE DEF n
<1>4. /\ DOMAIN taken = 1..n /\ Len(taken) = n
      /\ \A i \in 1..n : taken[i] = inbox[l][i]
  BY <1>1, <1>2, <1>3
<1>5. inbox' = [inbox EXCEPT ![l] = rest] /\ batch' = [batch EXCEPT ![l] = taken]
  BY <1>4 DEF Receive
<1>6. /\ OneNr(inbox[l]) /\ Nrs(rest) \subseteq Nrs(inbox[l]) /\ OneNr(rest)
      /\ \A i \in 1..n : inbox[l][i].nr \in Nrs(inbox[l]) /\ inbox[l][i].nr \notin Nrs(rest)
  BY <1>1, <1>2, SplitNumbers DEF EventsOK, NumbersOK
<1> HIDE DEF taken, rest
<1>7. OneNr(taken)
  <2>1. 1..n \subseteq DOMAIN inbox[l]
    BY <1>1, <1>2
  <2>2. QED
    BY <1>4, <1>6, <2>1 DEF OneNr
<1>8. \A a \in Nrs(taken) : a \in Nrs(inbox[l]) /\ a \notin Nrs(rest)
  BY <1>4, <1>6 DEF Nrs
<1>9. Nrs(rest) \cap Nrs(taken) = {} /\ \A a \in Nrs(rest) \cup Nrs(taken) : a \in Line(l)
  BY <1>6, <1>8 DEF Line
<1>10. ASSUME NEW e \in DOMAIN fate, e \in Delivery, Unserved(e, l)
       PROVE  /\ e.nr \notin Nrs(rest)
              /\ \A i \in DOMAIN taken : e.nr = taken[i].nr => e.source \notin taken[i].to
  <2>1. e.nr \notin Nrs(inbox[l])
    BY <1>10 DEF Unserved
  <2>2. QED
    BY <1>4, <1>6, <2>1
<1>11. clock' \in Nat /\ clock <= clock'
  BY <1>1
<1>12. QED
  BY <1>5, <1>6, <1>7, <1>9, <1>10, <1>11, EventsMove

(* Reading the clock for a frame leaves its number alone. *)
LEMMA ReadNumbers ==
  ASSUME ListenersOK, NEW l \in Listeners, batch[l] # <<>>, NEW at,
         NEW taken, taken = [batch[l] EXCEPT ![1].at = at]
  PROVE  /\ DOMAIN taken = DOMAIN batch[l]
         /\ \A i \in DOMAIN taken :
              taken[i].nr = batch[l][i].nr /\ taken[i].to = batch[l][i].to
<1>1. /\ batch[l] \in Seq(PacketsOf(l)) /\ DOMAIN taken = DOMAIN batch[l]
      /\ taken[1] = [batch[l][1] EXCEPT !.at = at] /\ 1 \in DOMAIN batch[l]
      /\ \A i \in DOMAIN batch[l] : i # 1 => taken[i] = batch[l][i]
  BY ListenerFacts, QueueFacts
<1>2. batch[l][1] \in PacketsOf(l)
  BY <1>1
<1>3. taken[1].nr = batch[l][1].nr /\ taken[1].to = batch[l][1].to
  BY <1>1, <1>2 DEF PacketsOf, Packet
<1>4. QED
  BY <1>1, <1>3

LEMMA ReadEvents ==
  ASSUME PipelineOK, EventsOK, NEW l \in Listeners, ReadClock(l),
         UNCHANGED <<fate, shred_q, slot_q, grpc_q, registryVars, agg>>
  PROVE  EventsOK' /\ LedgerStep
<1>a. PICK taken : taken = [batch[l] EXCEPT ![1].at = clock']
  OBVIOUS
<1>1. /\ clock \in Nat /\ clock' \in Nat /\ clock <= clock' /\ ListenersOK
      /\ batch[l] # <<>>
      /\ inbox' = [inbox EXCEPT ![l] = inbox[l]] /\ batch' = [batch EXCEPT ![l] = taken]
  BY <1>a, ReadFacts, ListenerFacts DEF PipelineOK, OthersOK, ReadClock
<1>2. /\ DOMAIN taken = DOMAIN batch[l]
      /\ \A i \in DOMAIN taken : taken[i].nr = batch[l][i].nr /\ taken[i].to = batch[l][i].to
  BY <1>1, <1>a, ReadNumbers
<1>3. /\ OneNr(inbox[l]) /\ OneNr(batch[l]) /\ Nrs(inbox[l]) \cap Nrs(batch[l]) = {}
  BY DEF EventsOK, NumbersOK
<1>4. OneNr(taken) /\ Nrs(taken) = Nrs(batch[l])
  BY <1>2, <1>3 DEF OneNr, Nrs
<1>5. \A a \in Nrs(inbox[l]) \cup Nrs(taken) : a \in Line(l)
  BY <1>4 DEF Line
<1>6. \A e \in DOMAIN fate : e \in Delivery /\ Unserved(e, l) =>
        /\ e.nr \notin Nrs(inbox[l])
        /\ \A i \in DOMAIN taken : e.nr = taken[i].nr => e.source \notin taken[i].to
  BY <1>2 DEF Unserved
<1>7. QED
  BY <1>1, <1>3, <1>4, <1>5, <1>6, EventsMove

(* What is left of a batch when its first packet has been served. *)
Rest(l, to) == IF to = {} THEN Tail(batch[l]) ELSE [batch[l] EXCEPT ![1].to = to]

LEMMA RestFacts ==
  ASSUME ListenersOK, NEW l \in Listeners, batch[l] # <<>>, OneNr(batch[l]),
         NEW to \in SUBSET Head(batch[l]).to
  PROVE  LET rest == Rest(l, to) IN
         /\ Nrs(rest) \subseteq Nrs(batch[l]) /\ OneNr(rest)
         /\ Head(batch[l]).nr \in Nrs(batch[l])
         /\ \A i \in DOMAIN rest : \E j \in DOMAIN batch[l] :
              /\ rest[i].nr = batch[l][j].nr /\ rest[i].to \subseteq batch[l][j].to
              /\ batch[l][j].nr = Head(batch[l]).nr => rest[i].to \subseteq to
<1> DEFINE q == batch[l]
           rest == Rest(l, to)
<1>1. /\ q \in Seq(PacketsOf(l)) /\ Len(q) \in Nat \ {0} /\ DOMAIN q = 1..Len(q)
      /\ Head(q) = q[1] /\ 1 \in DOMAIN q
  BY ListenerFacts
<1>2. \A j \in DOMAIN q : q[j].nr = Head(q).nr => j = 1
  BY <1>1 DEF OneNr
<1>3. Head(q).nr \in Nrs(q)
  BY <1>1 DEF Nrs
<1>4. CASE to = {}
  <2>1. /\ rest = Tail(q) /\ DOMAIN rest = 1..Len(q) - 1
        /\ \A i \in 1..Len(q) - 1 : i + 1 \in DOMAIN q /\ i + 1 # 1 /\ rest[i] = q[i + 1]
    BY <1>1, <1>4 DEF Rest
  <2>2. Nrs(rest) \subseteq Nrs(q) /\ OneNr(rest)
    BY <1>1, <2>1, NumberElems
  <2>3. ASSUME NEW i \in DOMAIN rest
        PROVE  \E j \in DOMAIN q :
                 /\ rest[i].nr = q[j].nr /\ rest[i].to \subseteq q[j].to
                 /\ q[j].nr = Head(q).nr => rest[i].to \subseteq to
    <3>1. i + 1 \in DOMAIN q /\ rest[i] = q[i + 1] /\ q[i + 1].nr # Head(q).nr
      BY <1>2, <2>1, <2>3
    <3>2. QED
      BY <3>1
  <2>4. QED
    BY <1>3, <2>2, <2>3
<1>5. CASE to # {}
  <2>1. q[1] \in PacketsOf(l)
    BY <1>1
  <2>2. /\ DOMAIN rest = DOMAIN q /\ rest[1] = [q[1] EXCEPT !.to = to]
        /\ \A i \in DOMAIN q : i # 1 => rest[i] = q[i]
    BY <1>1, <1>5 DEF Rest
  <2>3. rest[1].nr = q[1].nr /\ rest[1].to = to
    BY <2>1, <2>2 DEF PacketsOf, Packet
  <2>4. \A i \in DOMAIN q : rest[i].nr = q[i].nr
    BY <2>2, <2>3
  <2>5. Nrs(rest) \subseteq Nrs(q) /\ OneNr(rest)
    BY <2>2, <2>4 DEF Nrs, OneNr
  <2>6. ASSUME NEW i \in DOMAIN rest
        PROVE  \E j \in DOMAIN q :
                 /\ rest[i].nr = q[j].nr /\ rest[i].to \subseteq q[j].to
                 /\ q[j].nr = Head(q).nr => rest[i].to \subseteq to
    <3>1. /\ i \in DOMAIN q /\ rest[i].nr = q[i].nr /\ rest[i].to \subseteq q[i].to
          /\ q[i].nr = Head(q).nr => rest[i].to \subseteq to
      BY <1>1, <1>2, <2>2, <2>3, <2>4, <2>6
    <3>2. QED
      BY <3>1
  <2>7. QED
    BY <1>3, <2>5, <2>6
<1>6. QED
  BY <1>4, <1>5

LEMMA SkipEvents ==
  ASSUME PipelineOK, EventsOK, NEW l \in Listeners, SkipUnmatched(l),
         UNCHANGED <<clock, fate, shred_q, slot_q, grpc_q, registryVars, agg>>
  PROVE  EventsOK' /\ LedgerStep
<1> DEFINE rest == Rest(l, {})
<1>1. /\ batch[l] # <<>> /\ ListenersOK /\ clock \in Nat
      /\ inbox' = [inbox EXCEPT ![l] = inbox[l]] /\ batch' = [batch EXCEPT ![l] = rest]
  BY ListenerFacts DEF SkipUnmatched, Forwarded, Rest, PipelineOK, OthersOK
<1>2. /\ OneNr(inbox[l]) /\ OneNr(batch[l]) /\ Nrs(inbox[l]) \cap Nrs(batch[l]) = {}
  BY DEF EventsOK, NumbersOK
<1>3. /\ Nrs(rest) \subseteq Nrs(batch[l]) /\ OneNr(rest)
      /\ \A i \in DOMAIN rest : \E j \in DOMAIN batch[l] :
           rest[i].nr = batch[l][j].nr /\ rest[i].to \subseteq batch[l][j].to
  BY <1>1, <1>2, RestFacts
<1> HIDE DEF rest
<1>4. \A e \in DOMAIN fate : e \in Delivery /\ Unserved(e, l) =>
        /\ e.nr \notin Nrs(inbox[l])
        /\ \A i \in DOMAIN rest : e.nr = rest[i].nr => e.source \notin rest[i].to
  BY <1>3 DEF Unserved
<1>5. \A a \in Nrs(inbox[l]) \cup Nrs(rest) : a \in Line(l)
  BY <1>3 DEF Line
<1>6. Nrs(inbox[l]) \cap Nrs(rest) = {} /\ clock' \in Nat /\ clock <= clock'
  BY <1>1, <1>2, <1>3
<1>7. QED
  BY <1>1, <1>2, <1>3, <1>4, <1>5, <1>6, EventsMove

LEMMA ArrivalEvents ==
  ASSUME PipelineOK, EventsOK, NEW l \in Listeners, PacketArrives(l),
         UNCHANGED <<fate, shred_q, slot_q, grpc_q, registryVars, agg>>
  PROVE  EventsOK' /\ LedgerStep
<1>1. PICK key \in R!ShredKey, to \in SUBSET Routes[l], at \in KernelTimes(l) :
        inbox' = [inbox EXCEPT ![l] =
                    Append(@, [key |-> key, to |-> to, nr |-> clock', at |-> at])]
  BY DEF PacketArrives
<1> DEFINE packet == [key |-> key, to |-> to, nr |-> clock', at |-> at]
           queue  == Append(inbox[l], packet)
<1>2. /\ clock \in Nat /\ clock' = clock + 1 /\ clock' \in Nat /\ ListenersOK
      /\ inbox[l] \in Seq(PacketsOf(l)) /\ batch' = [batch EXCEPT ![l] = batch[l]]
  BY ListenerFacts DEF PipelineOK, OthersOK, PacketArrives
<1>3. packet \in PacketsOf(l) /\ packet.nr = clock'
  BY <1>2, SettingsFacts, TimesAreInstants DEF PacketsOf, Packet
<1>4. inbox' = [inbox EXCEPT ![l] = queue]
  BY <1>1
<1>5. /\ OneNr(inbox[l]) /\ OneNr(batch[l]) /\ Nrs(inbox[l]) \cap Nrs(batch[l]) = {}
      /\ Nrs(inbox[l]) \subseteq Line(l) /\ Nrs(batch[l]) \subseteq Line(l)
      /\ Line(l) \subseteq 1..clock
  BY DEF EventsOK, NumbersOK, Line
<1> HIDE DEF packet
<1>6. clock' \notin 1..clock
  BY <1>2
<1>7. Nrs(queue) = Nrs(inbox[l]) \cup {clock'} /\ OneNr(queue)
  BY <1>2, <1>3, <1>5, <1>6, NumberElems
<1> HIDE DEF queue
<1>8. Nrs(queue) \cap Nrs(batch[l]) = {}
  BY <1>5, <1>6, <1>7
<1>9. \A a \in Nrs(queue) \cup Nrs(batch[l]) :
        a \in Line(l) \/ (a \in Nat /\ clock < a /\ a <= clock')
  BY <1>2, <1>5, <1>7
<1>10. ASSUME NEW e \in DOMAIN fate, e \in Delivery, Unserved(e, l)
       PROVE  /\ e.nr \notin Nrs(queue)
              /\ \A i \in DOMAIN batch[l] :
                   e.nr = batch[l][i].nr => e.source \notin batch[l][i].to
  <2>1. e.nr <= clock /\ e.nr \in Nat
    BY <1>10 DEF EventsOK, SentOK, Delivery
  <2>2. QED
    BY <1>2, <1>7, <1>10, <2>1 DEF Unserved
<1>11. clock <= clock'
  BY <1>2
<1>12. QED
  BY <1>2, <1>4, <1>5, <1>7, <1>8, <1>9, <1>10, <1>11, EventsMove

LEMMA ForwardEvents ==
  ASSUME PipelineOK, EventsOK, NEW l \in Listeners, NEW source \in Sources,
         Forward(l, source), UNCHANGED <<clock, slot_q, grpc_q, agg>>
  PROVE  EventsOK' /\ LedgerStep
<1>a. PICK packet : packet = Head(batch[l])
  OBVIOUS
<1>b. PICK event :
        event = [source |-> source, key |-> packet.key, nr |-> packet.nr,
                 received_at |-> packet.at]
  OBVIOUS
<1>c. PICK to : to = packet.to \ {source}
  OBVIOUS
<1>d. PICK rest : rest = Rest(l, to)
  OBVIOUS
<1>1. /\ listener[l] = "forwarding" /\ source \in packet.to /\ packet.at # NoStamp
      /\ IF Accepts(shred_q, ShredCap)
           THEN /\ shred_q' = Append(shred_q, event) /\ UNCHANGED registryVars
                /\ fate'[event] = "queued"
           ELSE /\ R!Drop(source) /\ UNCHANGED <<shred_q, receipts>>
                /\ fate'[event] = "dropped"
      /\ DOMAIN fate' = DOMAIN fate \cup {event}
      /\ \A e \in DOMAIN fate : e # event => fate'[e] = fate[e]
      /\ inbox' = [inbox EXCEPT ![l] = inbox[l]] /\ batch' = [batch EXCEPT ![l] = rest]
  BY <1>a, <1>b, <1>c, <1>d, ListenerFacts
     DEF Forward, Forwarded, Rest, SetFate, R!Put, PipelineOK
<1>2. /\ ListenersOK /\ batch[l] # <<>> /\ packet \in PacketsOf(l)
      /\ 1 \in DOMAIN batch[l] /\ batch[l][1] = packet
      /\ shred_q \in Seq(Delivery) /\ drops \in [Sources -> Nat] /\ clock \in Nat
  BY <1>1, <1>a, ListenerFacts, QueueFacts DEF PipelineOK, ChannelsOK, OthersOK
<1>3. event \in Delivery /\ event.nr = packet.nr /\ event.source = source
  BY <1>1, <1>2, <1>b, PacketFacts DEF Delivery
<1>4. to \in SUBSET packet.to /\ source \notin to
  BY <1>c
<1>5. /\ OneNr(inbox[l]) /\ OneNr(batch[l]) /\ Nrs(inbox[l]) \cap Nrs(batch[l]) = {}
      /\ Line(l) \subseteq 1..clock
  BY DEF EventsOK, NumbersOK
<1>6. /\ Nrs(rest) \subseteq Nrs(batch[l]) /\ OneNr(rest) /\ packet.nr \in Nrs(batch[l])
      /\ \A i \in DOMAIN rest : \E j \in DOMAIN batch[l] :
           /\ rest[i].nr = batch[l][j].nr /\ rest[i].to \subseteq batch[l][j].to
           /\ batch[l][j].nr = packet.nr => rest[i].to \subseteq to
  <2>1. to \in SUBSET Head(batch[l]).to
    BY <1>4, <1>a
  <2>2. /\ Nrs(rest) \subseteq Nrs(batch[l]) /\ OneNr(rest)
        /\ Head(batch[l]).nr \in Nrs(batch[l])
        /\ \A i \in DOMAIN rest : \E j \in DOMAIN batch[l] :
             /\ rest[i].nr = batch[l][j].nr /\ rest[i].to \subseteq batch[l][j].to
             /\ batch[l][j].nr = Head(batch[l]).nr => rest[i].to \subseteq to
    BY <1>2, <1>5, <1>d, <2>1, RestFacts
  <2>3. QED
    BY <1>a, <2>2
<1>7. event \notin DOMAIN fate
  <2>1. ~Unserved(event, l)
    BY <1>1, <1>2, <1>3 DEF Unserved
  <2>2. QED
    BY <1>3, <2>1 DEF EventsOK, SentOK
<1>8. NumbersOK'
  <2>1. \A a \in Nrs(inbox[l]) \cup Nrs(rest) : a \in Line(l)
    BY <1>6 DEF Line
  <2>2. Nrs(inbox[l]) \cap Nrs(rest) = {} /\ clock' \in Nat /\ clock <= clock'
    BY <1>2, <1>5, <1>6
  <2>3. QED
    BY <1>1, <1>2, <1>5, <1>6, <2>1, <2>2, NumbersStep DEF EventsOK
<1>9. \A m \in Listeners : /\ inbox'[m] = inbox[m]
                           /\ batch'[m] = IF m = l THEN rest ELSE batch[m]
  BY <1>1, <1>2 DEF ListenersOK
<1>10. ASSUME NEW e \in DOMAIN fate, e \in Delivery, NEW m \in Listeners
       PROVE  Unserved(e, m)'
  <2>1. Unserved(e, m)
    BY <1>10 DEF EventsOK, SentOK
  <2>2. CASE m = l
    BY <1>6, <1>9, <2>1, <2>2 DEF Unserved, Nrs
  <2>3. CASE m # l
    BY <1>9, <2>1, <2>3 DEF Unserved, Nrs
  <2>4. QED
    BY <2>2, <2>3
<1>11. ASSUME NEW m \in Listeners PROVE Unserved(event, m)'
  <2>1. packet.nr \in Line(l)
    BY <1>6 DEF Line
  <2>2. CASE m = l
    <3>1. packet.nr \notin Nrs(inbox'[m])
      BY <1>5, <1>6, <1>9, <2>2
    <3>2. \A i \in DOMAIN rest : packet.nr = rest[i].nr => source \notin rest[i].to
      BY <1>4, <1>6
    <3>3. QED
      BY <1>3, <1>9, <2>2, <3>1, <3>2 DEF Unserved, Nrs
  <2>3. CASE m # l
    <3>1. packet.nr \notin Nrs(inbox[m]) /\ packet.nr \notin Nrs(batch[m])
      BY <2>1, <2>3 DEF EventsOK, NumbersOK, Line
    <3>2. \A i \in DOMAIN batch[m] : batch[m][i].nr # packet.nr
      BY <3>1 DEF Nrs
    <3>3. QED
      BY <1>3, <1>9, <2>3, <3>1, <3>2 DEF Unserved, Nrs
  <2>4. QED
    BY <2>2, <2>3
<1>12. packet.nr <= clock
  BY <1>2, <1>5, <1>6 DEF Line
<1>13. SentOK'
  <2>1. ASSUME NEW e \in DOMAIN fate'
        PROVE  /\ e \in Delivery \cup R!SlotEvent \cup Sample
               /\ e \in Delivery => e.nr <= clock'
               /\ e \in R!SlotEvent => e.received_at <= clock'
               /\ e \in Sample => e.sampled_at <= clock'
               /\ e \in Delivery => \A m \in Listeners : Unserved(e, m)'
    <3>1. CASE e = event
      BY <1>3, <1>11, <1>12, <3>1, KindsDiffer
    <3>2. CASE e \in DOMAIN fate
      BY <1>10, <3>2 DEF EventsOK, SentOK
    <3>3. QED
      BY <1>1, <2>1, <3>1, <3>2
  <2>2. QED
    BY <2>1 DEF SentOK
<1>14. Queued \subseteq DOMAIN fate /\ event \notin Queued /\ event \notin Elems(shred_q)
       /\ OneEach(shred_q)
  BY <1>7 DEF EventsOK, QueuesOK, Queued
<1>15. IsFiniteSet({event}) /\ Cardinality({event}) = 1
  BY FS_Singleton
<1>16. UNCHANGED <<shreds, grpc_latencies, receipts>>
  BY <1>1 DEF R!Drop, registryVars
<1>17. BooksOK'
  BY <1>16 DEF EventsOK, BooksOK
<1>18. /\ {event} # {} /\ {event} \cap DOMAIN fate = {} /\ {} \subseteq {event}
       /\ \A e \in {event} : e.source = source
  BY <1>3, <1>7
<1>19. QueuesOK' /\ LedgerStep
  <2>1. CASE Accepts(shred_q, ShredCap)
    <3>1. shred_q' = Append(shred_q, event) /\ drops' = drops /\ agg = "running"
      BY <1>1, <2>1 DEF registryVars, Accepts
    <3>2. Elems(shred_q') = Elems(shred_q) \cup {event} /\ OneEach(shred_q')
      BY <1>2, <1>3, <1>14, <3>1, AppendElems
    <3>3. Queued' = Queued \cup {event}
      BY <3>2 DEF Queued, Elems
    <3>4. QueuesOK'
      BY <1>1, <1>14, <3>2, <3>3 DEF EventsOK, QueuesOK, OneEach
    <3>5. {event} \ {event} = {}
      OBVIOUS
    <3>6. drops' = [drops EXCEPT ![source] = @ + Cardinality({event} \ {event})]
      BY <1>2, <3>1, <3>5, NoDrop
    <3>7. Sends(source, {event}, {event})
      BY <1>1, <1>7, <1>15, <1>16, <1>18, <2>1, <3>3, <3>6 DEF Sends, ShredsBooked, Elems
    <3>8. LedgerStep
      BY <1>1, <1>14, <1>16, <1>18, <3>1, <3>7, SendStep
    <3>9. QED
      BY <3>4, <3>8
  <2>2. CASE ~Accepts(shred_q, ShredCap)
    <3>1. shred_q' = shred_q /\ drops' = [drops EXCEPT ![source] = @ + 1]
      BY <1>1, <2>2 DEF R!Drop
    <3>2. Queued' = Queued \cup {}
      BY <3>1 DEF Queued, Elems
    <3>3. QueuesOK'
      BY <1>1, <3>1, <3>2 DEF EventsOK, QueuesOK, OneEach
    <3>4. {event} \ {} = {event}
      OBVIOUS
    <3>5. drops' = [drops EXCEPT ![source] = @ + Cardinality({event} \ {})]
      BY <1>15, <3>1, <3>4
    <3>6. Sends(source, {event}, {})
      BY <1>1, <1>7, <1>15, <1>16, <1>18, <2>2, <3>2, <3>5 DEF Sends, ShredsBooked, Elems
    <3>7. LedgerStep
      BY <1>1, <1>14, <1>16, <1>18, <3>6, SendStep
    <3>8. QED
      BY <3>3, <3>7
  <2>3. QED
    BY <2>1, <2>2
<1>20. QED
  BY <1>8, <1>13, <1>17, <1>19 DEF EventsOK

LEMMA UpdateEvents ==
  ASSUME PipelineOK, EventsOK, NEW t \in Streams, NEW source \in Sources, NEW slot \in Slots,
         NEW sampled \in BOOLEAN, Update(t, source, slot, sampled),
         UNCHANGED <<listenerVars, shred_q, agg>>
  PROVE  EventsOK' /\ LedgerStep
<1>a. PICK event : event = [source |-> source, slot |-> slot, received_at |-> clock + 1]
  OBVIOUS
<1>b. PICK sample : sample = [source |-> source, sampled_at |-> clock + 1]
  OBVIOUS
<1>c. PICK sent : sent = IF sampled THEN {event, sample} ELSE {event}
  OBVIOUS
<1>d. PICK accepted :
        accepted = {e \in sent : IF e = event THEN Accepts(slot_q, SlotCap)
                                              ELSE Accepts(grpc_q, GrpcCap)}
  OBVIOUS
<1>1. /\ clock' = clock + 1
      /\ slot_q' = IF event \in accepted THEN Append(slot_q, event) ELSE slot_q
      /\ grpc_q' = IF sample \in accepted THEN Append(grpc_q, sample) ELSE grpc_q
      /\ DOMAIN fate' = DOMAIN fate \cup sent
      /\ \A e \in DOMAIN fate : e \notin sent => fate'[e] = fate[e]
      /\ \A e \in sent : fate'[e] = IF e \in accepted THEN "queued" ELSE "dropped"
      /\ drops' = [drops EXCEPT ![source] = @ + Cardinality(sent \ accepted)]
      /\ UNCHANGED <<shreds, grpc_latencies, receipts>>
  BY <1>a, <1>b, <1>c, <1>d DEF Update, CountLost
<1>2. /\ clock \in Nat /\ clock' \in Nat /\ clock < clock' /\ ListenersOK
      /\ slot_q \in Seq(R!SlotEvent) /\ grpc_q \in Seq(Sample)
  BY <1>1 DEF PipelineOK, OthersOK, ChannelsOK
<1>3. /\ event \in R!SlotEvent /\ event.received_at = clock' /\ event.source = source
      /\ sample \in Sample /\ sample.sampled_at = clock' /\ sample.source = source
  BY <1>1, <1>2, <1>a, <1>b DEF R!SlotEvent, Sample
<1>4. sample # event /\ sample \notin R!SlotEvent /\ event \notin Sample
      /\ sample \notin Delivery /\ event \notin Delivery
  BY <1>3, KindsDiffer
<1>5. sent # {} /\ sent \subseteq {event, sample} /\ accepted \subseteq sent
  BY <1>c, <1>d
<1>6. IsFiniteSet(sent)
  <2>1. IsFiniteSet({event}) /\ IsFiniteSet({event} \cup {sample})
    BY FS_Singleton, FS_AddElement
  <2>2. sent \subseteq {event} \cup {sample}
    BY <1>5
  <2>3. QED
    BY <2>1, <2>2, FS_Subset
<1>7. event \notin DOMAIN fate /\ sample \notin DOMAIN fate
  <2>1. ~(clock' <= clock)
    BY <1>2
  <2>2. QED
    BY <1>3, <2>1 DEF EventsOK, SentOK
<1>8. accepted # {} => agg = "running"
  BY <1>d DEF Accepts
<1>9. NumbersOK'
  <2>1. \A l \in Listeners : Line(l)' = Line(l)
    BY DEF Line, Nrs, listenerVars
  <2>2. inbox' = inbox /\ batch' = batch /\ 1..clock \subseteq 1..clock'
    BY <1>2 DEF listenerVars
  <2>3. \A l \in Listeners :
          /\ OneNr(inbox'[l]) /\ OneNr(batch'[l])
          /\ Nrs(inbox'[l]) \cap Nrs(batch'[l]) = {} /\ Line(l)' \subseteq 1..clock'
    BY <2>1, <2>2 DEF EventsOK, NumbersOK
  <2>4. \A l, m \in Listeners : l # m => Line(l)' \cap Line(m)' = {}
    BY <2>1 DEF EventsOK, NumbersOK
  <2>5. QED
    BY <2>3, <2>4 DEF NumbersOK, OneNr, Nrs
<1>10. SentOK'
  <2>1. ASSUME NEW e \in DOMAIN fate'
        PROVE  /\ e \in Delivery \cup R!SlotEvent \cup Sample
               /\ e \in Delivery => e.nr <= clock'
               /\ e \in R!SlotEvent => e.received_at <= clock'
               /\ e \in Sample => e.sampled_at <= clock'
               /\ e \in Delivery => \A m \in Listeners : Unserved(e, m)'
    <3>1. CASE e = event \/ e = sample
      BY <1>2, <1>3, <1>4, <3>1
    <3>2. CASE e \in DOMAIN fate
      <4>1. /\ e \in Delivery \cup R!SlotEvent \cup Sample
            /\ e \in Delivery => e.nr <= clock
            /\ e \in R!SlotEvent => e.received_at <= clock
            /\ e \in Sample => e.sampled_at <= clock
            /\ e \in Delivery => \A m \in Listeners : Unserved(e, m)
        BY <3>2 DEF EventsOK, SentOK
      <4>2. /\ e \in Delivery => e.nr \in Nat
            /\ e \in R!SlotEvent => e.received_at \in Nat
            /\ e \in Sample => e.sampled_at \in Nat
        BY DEF Delivery, R!SlotEvent, Sample
      <4>3. \A m \in Listeners : Unserved(e, m) => Unserved(e, m)'
        BY DEF Unserved, Nrs, listenerVars
      <4>4. QED
        BY <1>2, <4>1, <4>2, <4>3
    <3>3. QED
      BY <1>1, <1>5, <2>1, <3>1, <3>2
  <2>2. QED
    BY <2>1 DEF SentOK
<1>11. /\ OneEach(shred_q) /\ OneEach(slot_q) /\ OneEach(grpc_q) /\ Queued \subseteq DOMAIN fate
       /\ event \notin Elems(slot_q) /\ sample \notin Elems(grpc_q)
  BY <1>7 DEF EventsOK, QueuesOK, Queued
<1>12. OneEach(slot_q') /\ Elems(slot_q') = Elems(slot_q) \cup (accepted \cap {event})
  <2>1. CASE event \in accepted
    BY <1>1, <1>2, <1>3, <1>11, <2>1, AppendElems
  <2>2. CASE event \notin accepted
    BY <1>1, <1>11, <2>2
  <2>3. QED
    BY <2>1, <2>2
<1>13. OneEach(grpc_q') /\ Elems(grpc_q') = Elems(grpc_q) \cup (accepted \cap {sample})
  <2>1. CASE sample \in accepted
    BY <1>1, <1>2, <1>3, <1>11, <2>1, AppendElems
  <2>2. CASE sample \notin accepted
    BY <1>1, <1>11, <2>2
  <2>3. QED
    BY <2>1, <2>2
<1>14. Queued' = Queued \cup accepted
  <2>1. Queued' = Elems(shred_q) \cup Elems(slot_q') \cup Elems(grpc_q')
    BY DEF Queued, Elems
  <2>2. accepted = (accepted \cap {event}) \cup (accepted \cap {sample})
    BY <1>5
  <2>3. QED
    BY <1>12, <1>13, <2>1, <2>2 DEF Queued
<1>15. QueuesOK'
  <2>1. Queued' \subseteq DOMAIN fate'
    BY <1>1, <1>5, <1>11, <1>14
  <2>2. QED
    BY <1>11, <1>12, <1>13, <2>1 DEF QueuesOK, OneEach
<1>16. BooksOK'
  BY <1>1 DEF EventsOK, BooksOK
<1>17. sent \cap DOMAIN fate = {} /\ \A e \in sent : e.source = source
  BY <1>3, <1>5, <1>7
<1>18. Sends(source, sent, accepted)
  <2>1. ShredsBooked' = ShredsBooked
    BY <1>1 DEF ShredsBooked, Elems
  <2>2. \A e \in DOMAIN fate : fate'[e] = fate[e]
    BY <1>1, <1>17
  <2>3. QED
    BY <1>1, <1>5, <1>6, <1>14, <1>17, <2>1, <2>2 DEF Sends
<1>19. LedgerStep
  BY <1>1, <1>5, <1>8, <1>11, <1>18, SendStep
<1>20. QED
  BY <1>9, <1>10, <1>15, <1>16, <1>19 DEF EventsOK

(* The registry and the receipts after one more shred has been recorded:   *)
(* an arrival and its receipt, after those that the shred had.             *)
Arrived(key) == IF key \in DOMAIN shreds THEN Len(shreds[key].arrivals) ELSE 0

LEMMA RecordFacts ==
  ASSUME BooksOK, NEW event \in Delivery, Record(event),
         NEW n, n = Arrived(event.key)
  PROVE  /\ BooksOK' /\ UNCHANGED <<grpc_latencies, drops>> /\ n \in Nat
         /\ DOMAIN shreds' = DOMAIN shreds \cup {event.key}
         /\ \A key \in DOMAIN shreds :
              key # event.key => shreds'[key] = shreds[key] /\ receipts'[key] = receipts[key]
         /\ DOMAIN shreds'[event.key].arrivals = 1..n + 1
         /\ shreds'[event.key].arrivals[n + 1]
              = [source |-> event.source, at |-> event.received_at]
         /\ receipts'[event.key][n + 1] = event.nr
         /\ \A i \in 1..n :
              /\ event.key \in DOMAIN shreds /\ i \in DOMAIN shreds[event.key].arrivals
              /\ shreds'[event.key].arrivals[i] = shreds[event.key].arrivals[i]
              /\ receipts'[event.key][i] = receipts[event.key][i]
         /\ event.key \in DOMAIN shreds => DOMAIN shreds[event.key].arrivals = 1..n
<1>a. PICK key : key = event.key
  OBVIOUS
<1>b. PICK arrival : arrival = [source |-> event.source, at |-> event.received_at]
  OBVIOUS
<1>c. PICK value : value = IF key \in DOMAIN shreds
                             THEN [shreds[key] EXCEPT !.arrivals = Append(@, arrival)]
                             ELSE [first_seen   |-> event.received_at,
                                   first_source |-> event.source,
                                   arrivals     |-> <<arrival>>]
  OBVIOUS
<1>d. PICK receipt : receipt = IF key \in DOMAIN receipts THEN Append(receipts[key], event.nr)
                                                          ELSE <<event.nr>>
  OBVIOUS
<1>1. /\ shreds' = R!Put(shreds, key, value) /\ receipts' = R!Put(receipts, key, receipt)
      /\ UNCHANGED <<grpc_latencies, drops>>
  BY <1>a, <1>b, <1>c, <1>d DEF Record, R!RecordShred, R!UpsertShred, R!ArrivalOf
<1>2. /\ arrival \in R!Arrival /\ key \in R!ShredKey
      /\ event.source \in Sources /\ event.received_at \in Nat /\ event.nr \in Nat
  BY <1>a, <1>b DEF Delivery, R!Arrival
<1>3. /\ DOMAIN shreds' = DOMAIN shreds \cup {key} /\ DOMAIN receipts' = DOMAIN receipts \cup {key}
      /\ shreds'[key] = value /\ receipts'[key] = receipt
      /\ \A k \in DOMAIN shreds : k # key => shreds'[k] = shreds[k]
      /\ \A k \in DOMAIN receipts : k # key => receipts'[k] = receipts[k]
  BY <1>1 DEF R!Put
<1>4. DOMAIN receipts = DOMAIN shreds
  BY DEF BooksOK
<1>5. /\ value \in R!ShredRecord /\ receipt \in Seq(Nat) /\ n \in Nat
      /\ Len(value.arrivals) = n + 1 /\ Len(receipt) = n + 1
      /\ value.arrivals[n + 1] = arrival /\ receipt[n + 1] = event.nr
      /\ \A i \in 1..n : /\ key \in DOMAIN shreds /\ i \in DOMAIN shreds[key].arrivals
                         /\ value.arrivals[i] = shreds[key].arrivals[i]
                         /\ receipt[i] = receipts[key][i]
      /\ key \in DOMAIN shreds => DOMAIN shreds[key].arrivals = 1..n
  <2>1. CASE key \in DOMAIN shreds
    <3>a. PICK old : old = shreds[key]
      OBVIOUS
    <3>b. PICK was : was = receipts[key]
      OBVIOUS
    <3>1. /\ old \in R!ShredRecord /\ old.arrivals \in Seq(R!Arrival)
          /\ was \in Seq(Nat) /\ Len(was) = Len(old.arrivals) /\ n = Len(old.arrivals)
      BY <1>a, <2>1, <3>a, <3>b DEF BooksOK, R!ShredRecord, Arrived
    <3>2. Append(old.arrivals, arrival) \in Seq(R!Arrival)
      BY <1>2, <3>1
    <3>3. value = [old EXCEPT !.arrivals = Append(old.arrivals, arrival)]
      BY <1>c, <2>1, <3>a
    <3>4. value.arrivals = Append(old.arrivals, arrival) /\ value \in R!ShredRecord
      BY <3>1, <3>2, <3>3 DEF R!ShredRecord
    <3>5. receipt = Append(was, event.nr)
      BY <1>4, <1>d, <2>1, <3>b
    <3>6. /\ n \in Nat /\ DOMAIN old.arrivals = 1..n /\ DOMAIN was = 1..n
          /\ Len(Append(old.arrivals, arrival)) = n + 1
          /\ Append(old.arrivals, arrival)[n + 1] = arrival
          /\ \A i \in 1..n : Append(old.arrivals, arrival)[i] = old.arrivals[i]
      BY <1>2, <3>1
    <3>7. /\ Append(was, event.nr) \in Seq(Nat) /\ Len(Append(was, event.nr)) = n + 1
          /\ Append(was, event.nr)[n + 1] = event.nr
          /\ \A i \in 1..n : Append(was, event.nr)[i] = was[i]
      BY <1>2, <3>1
    <3>8. QED
      BY <2>1, <3>a, <3>b, <3>4, <3>5, <3>6, <3>7
  <2>2. CASE key \notin DOMAIN shreds
    <3>1. n = 0 /\ receipt = <<event.nr>>
      BY <1>4, <1>a, <1>d, <2>2 DEF Arrived
    <3>2. value.arrivals = <<arrival>> /\ value \in R!ShredRecord
      BY <1>2, <1>c, <2>2 DEF R!ShredRecord
    <3>3. QED
      BY <1>2, <2>2, <3>1, <3>2
  <2>3. QED
    BY <2>1, <2>2
<1>6. value.arrivals \in Seq(R!Arrival)
  BY <1>5 DEF R!ShredRecord
<1>7. DOMAIN value.arrivals = 1..n + 1
  BY <1>5, <1>6
<1>8. BooksOK'
  <2>1. \A k \in DOMAIN shreds' :
          /\ shreds'[k] \in R!ShredRecord /\ receipts'[k] \in Seq(Nat)
          /\ Len(receipts'[k]) = Len(shreds'[k].arrivals)
    BY <1>3, <1>4, <1>5 DEF BooksOK
  <2>2. DOMAIN receipts' = DOMAIN shreds'
    BY <1>3, <1>4
  <2>3. QED
    BY <1>1, <2>1, <2>2 DEF BooksOK
<1>9. QED
  BY <1>1, <1>3, <1>4, <1>5, <1>7, <1>8, <1>a, <1>b

(* The event that an arrival of a shred is. *)
Delivered(key, i) ==
  [source |-> shreds[key].arrivals[i].source, key |-> key, nr |-> receipts[key][i],
   received_at |-> shreds[key].arrivals[i].at]

LEMMA BookedFacts ==
  \A e : e \in ShredsBooked <=>
           \E key \in DOMAIN shreds : \E i \in DOMAIN shreds[key].arrivals : e = Delivered(key, i)
BY DEF ShredsBooked, Delivered

LEMMA BookedFactsPrimed ==
  (\A e : e \in ShredsBooked <=>
            \E key \in DOMAIN shreds :
              \E i \in DOMAIN shreds[key].arrivals : e = Delivered(key, i))'
BY BookedFacts, PTL

(* The registry shows a shred that is recorded, and a sample. *)
LEMMA ShredIsBooked ==
  ASSUME BooksOK, NEW event \in Delivery, Record(event)
  PROVE  /\ BooksOK' /\ UNCHANGED <<grpc_latencies, drops>>
         /\ ShredsBooked' = ShredsBooked \cup {event}
         /\ (ShredsBooked \cup SamplesBooked)' = ShredsBooked \cup SamplesBooked \cup {event}
<1>a. PICK n : n = Arrived(event.key)
  OBVIOUS
<1>b. PICK key : key = event.key
  OBVIOUS
<1>1. /\ BooksOK' /\ UNCHANGED <<grpc_latencies, drops>> /\ n \in Nat
      /\ DOMAIN shreds' = DOMAIN shreds \cup {key}
      /\ \A k \in DOMAIN shreds :
           k # key => shreds'[k] = shreds[k] /\ receipts'[k] = receipts[k]
      /\ DOMAIN shreds'[key].arrivals = 1..n + 1
      /\ shreds'[key].arrivals[n + 1] = [source |-> event.source, at |-> event.received_at]
      /\ receipts'[key][n + 1] = event.nr
      /\ \A i \in 1..n : /\ key \in DOMAIN shreds /\ i \in DOMAIN shreds[key].arrivals
                         /\ shreds'[key].arrivals[i] = shreds[key].arrivals[i]
                         /\ receipts'[key][i] = receipts[key][i]
      /\ key \in DOMAIN shreds => DOMAIN shreds[key].arrivals = 1..n
  BY <1>a, <1>b, RecordFacts
<1>2. 1..n + 1 = (1..n) \cup {n + 1}
  BY <1>1
<1>3. Delivered(key, n + 1)' = event
  <2>1. /\ Delivered(key, n + 1)'
             = [source |-> shreds'[key].arrivals[n + 1].source, key |-> key,
                nr |-> receipts'[key][n + 1], received_at |-> shreds'[key].arrivals[n + 1].at]
        /\ shreds'[key].arrivals[n + 1].source = event.source
        /\ shreds'[key].arrivals[n + 1].at = event.received_at
    BY <1>1 DEF Delivered
  <2>2. event = [source |-> event.source, key |-> event.key, nr |-> event.nr,
                 received_at |-> event.received_at]
    BY DEF Delivery
  <2>3. QED
    BY <1>1, <1>b, <2>1, <2>2
<1>4. \A i \in 1..n : Delivered(key, i)' = Delivered(key, i)
  BY <1>1 DEF Delivered
<1>5. \A k \in DOMAIN shreds : k # key =>
        shreds'[k] = shreds[k] /\ \A i : Delivered(k, i)' = Delivered(k, i)
  BY <1>1 DEF Delivered
<1>6. ASSUME NEW e \in ShredsBooked' PROVE e \in ShredsBooked \cup {event}
  <2>a. PICK k \in DOMAIN shreds' : \E i \in DOMAIN shreds'[k].arrivals : e = Delivered(k, i)'
    BY <1>6, BookedFactsPrimed
  <2>1. PICK i \in DOMAIN shreds'[k].arrivals : e = Delivered(k, i)'
    BY <2>a
  <2>2. CASE k # key
    BY <1>1, <1>5, <2>1, <2>2, BookedFacts
  <2>3. CASE k = key
    <3>1. CASE i \in 1..n
      BY <1>1, <1>4, <2>1, <2>3, <3>1, BookedFacts
    <3>2. CASE i = n + 1
      BY <1>3, <2>1, <2>3, <3>2
    <3>3. QED
      BY <1>1, <1>2, <2>1, <2>3, <3>1, <3>2
  <2>4. QED
    BY <2>2, <2>3
<1>7. ASSUME NEW e \in ShredsBooked PROVE e \in ShredsBooked'
  <2>a. PICK k \in DOMAIN shreds : \E i \in DOMAIN shreds[k].arrivals : e = Delivered(k, i)
    BY <1>7, BookedFacts
  <2>1. PICK i \in DOMAIN shreds[k].arrivals : e = Delivered(k, i)
    BY <2>a
  <2>2. CASE k # key
    BY <1>1, <1>5, <2>1, <2>2, BookedFactsPrimed
  <2>3. CASE k = key
    <3>1. i \in 1..n /\ i \in DOMAIN shreds'[k].arrivals /\ k \in DOMAIN shreds'
      BY <1>1, <1>2, <2>1, <2>3
    <3>2. QED
      BY <1>4, <2>1, <2>3, <3>1, BookedFactsPrimed
  <2>4. QED
    BY <2>2, <2>3
<1>8. event \in ShredsBooked'
  <2>1. key \in DOMAIN shreds' /\ n + 1 \in DOMAIN shreds'[key].arrivals
    BY <1>1, <1>2
  <2>2. QED
    BY <1>3, <2>1, BookedFactsPrimed
<1>9. ShredsBooked' = ShredsBooked \cup {event}
  BY <1>6, <1>7, <1>8
<1>10. SamplesBooked' = SamplesBooked
  BY <1>1 DEF SamplesBooked, Elems
<1>11. QED
  BY <1>1, <1>9, <1>10

LEMMA SampleIsBooked ==
  ASSUME BooksOK, NEW event \in Sample, R!RecordGrpcLatency(event.source, event.sampled_at),
         UNCHANGED receipts
  PROVE  /\ BooksOK' /\ UNCHANGED drops
         /\ ShredsBooked' = ShredsBooked
         /\ (ShredsBooked \cup SamplesBooked)' = ShredsBooked \cup SamplesBooked \cup {event}
<1> DEFINE s     == event.source
           at    == event.sampled_at
           value == IF s \in DOMAIN grpc_latencies THEN Append(grpc_latencies[s], at) ELSE <<at>>
           of(source, samples) == {[source |-> source, sampled_at |-> n] : n \in Elems(samples)}
<1>1. grpc_latencies' = R!Put(grpc_latencies, s, value) /\ UNCHANGED <<shreds, drops>>
  BY DEF R!RecordGrpcLatency
<1>2. s \in Sources /\ at \in Nat /\ [source |-> s, sampled_at |-> at] = event
  BY DEF Sample
<1>3. /\ value \in Seq(Nat)
      /\ Elems(value)
           = (IF s \in DOMAIN grpc_latencies THEN Elems(grpc_latencies[s]) ELSE {}) \cup {at}
  <2>1. CASE s \in DOMAIN grpc_latencies
    <3>1. grpc_latencies[s] \in Seq(Nat)
      BY <2>1 DEF BooksOK
    <3>2. QED
      BY <1>2, <2>1, <3>1, AppendElems
  <2>2. CASE s \notin DOMAIN grpc_latencies
    <3>1. Elems(<<at>>) = {at}
      BY DEF Elems
    <3>2. QED
      BY <1>2, <2>2, <3>1
  <2>3. QED
    BY <2>1, <2>2
<1> HIDE DEF value
<1>4. /\ DOMAIN grpc_latencies' = DOMAIN grpc_latencies \cup {s} /\ grpc_latencies'[s] = value
      /\ \A x \in DOMAIN grpc_latencies : x # s => grpc_latencies'[x] = grpc_latencies[x]
  BY <1>1 DEF R!Put
<1>5. BooksOK'
  BY <1>1, <1>3, <1>4 DEF BooksOK
<1>6. of(s, value)
        = (IF s \in DOMAIN grpc_latencies THEN of(s, grpc_latencies[s]) ELSE {}) \cup {event}
  BY <1>2, <1>3
<1>7. SamplesBooked = UNION {of(x, grpc_latencies[x]) : x \in DOMAIN grpc_latencies}
  BY DEF SamplesBooked
<1>8. SamplesBooked' = UNION {of(x, grpc_latencies'[x]) : x \in DOMAIN grpc_latencies'}
  BY DEF SamplesBooked, Elems
<1> HIDE DEF of
<1>9. SamplesBooked' = SamplesBooked \cup {event}
  <2>1. ASSUME NEW e \in SamplesBooked' PROVE e \in SamplesBooked \cup {event}
    <3>1. PICK x \in DOMAIN grpc_latencies' : e \in of(x, grpc_latencies'[x])
      BY <1>8, <2>1
    <3>2. QED
      BY <1>4, <1>6, <1>7, <3>1
  <2>2. ASSUME NEW e \in SamplesBooked PROVE e \in SamplesBooked'
    <3>1. PICK x \in DOMAIN grpc_latencies : e \in of(x, grpc_latencies[x])
      BY <1>7, <2>2
    <3>2. x \in DOMAIN grpc_latencies' /\ e \in of(x, grpc_latencies'[x])
      BY <1>4, <1>6, <3>1
    <3>3. QED
      BY <1>8, <3>2
  <2>3. event \in SamplesBooked'
    BY <1>4, <1>6, <1>8
  <2>4. QED
    BY <2>1, <2>2, <2>3
<1>10. ShredsBooked' = ShredsBooked
  BY <1>1 DEF ShredsBooked, Elems
<1>11. QED
  BY <1>1, <1>5, <1>9, <1>10

(* The aggregator takes an event, which is booked or passed over. *)
LEMMA TakenEvents ==
  ASSUME EventsOK, NEW event \in Queued, NEW f \in {"recorded", "skipped"},
         agg = "running", Queued' = Queued \ {event},
         OneEach(shred_q'), OneEach(slot_q'), OneEach(grpc_q'),
         SetFate(event, f), BooksOK',
         ShredsBooked' = ShredsBooked \cup {e \in {event} : e \in Delivery /\ f = "recorded"},
         \/ (ShredsBooked \cup SamplesBooked)' = ShredsBooked \cup SamplesBooked
         \/ (ShredsBooked \cup SamplesBooked)' = ShredsBooked \cup SamplesBooked \cup {event},
         UNCHANGED <<inbox, batch, clock, drops, agg>>
  PROVE  EventsOK' /\ LedgerStep
<1>1. Queued \subseteq DOMAIN fate
  BY DEF EventsOK, QueuesOK
<1>2. /\ DOMAIN fate' = DOMAIN fate /\ fate'[event] = f
      /\ \A e \in DOMAIN fate : e # event => fate'[e] = fate[e]
  BY <1>1 DEF SetFate, R!Put
<1>3. NumbersOK' /\ SentOK'
  BY <1>2, NumbersStill
<1>4. QueuesOK'
  BY <1>1, <1>2 DEF QueuesOK, OneEach
<1>5. Settles(event, f)
  BY <1>2 DEF Settles
<1>6. LedgerStep
  BY <1>5, SettleStep
<1>7. QED
  BY <1>3, <1>4, <1>6 DEF EventsOK

LEMMA ElemsIn ==
  ASSUME NEW S, NEW q \in Seq(S)
  PROVE  Elems(q) \subseteq S
BY DEF Elems

LEMMA BooksStill ==
  ASSUME EventsOK, UNCHANGED <<shreds, grpc_latencies, receipts>>
  PROVE  /\ BooksOK'
         /\ ShredsBooked' = ShredsBooked
         /\ (ShredsBooked \cup SamplesBooked)' = ShredsBooked \cup SamplesBooked
<1>1. BooksOK'
  BY DEF EventsOK, BooksOK
<1>2. ShredsBooked' = ShredsBooked /\ SamplesBooked' = SamplesBooked
  BY DEF ShredsBooked, SamplesBooked, Elems
<1>3. QED
  BY <1>1, <1>2

LEMMA TakeShredEvents ==
  ASSUME PipelineOK, EventsOK, agg = "running", TakeShred, UNCHANGED <<listenerVars, clock>>
  PROVE  EventsOK' /\ LedgerStep
<1>a. PICK event : event = Head(shred_q)
  OBVIOUS
<1>1. /\ shred_q # <<>> /\ shred_q' = Tail(shred_q) /\ UNCHANGED <<slot_q, grpc_q, agg>>
      /\ \/ Record(event) /\ SetFate(event, "recorded")
         \/ UNCHANGED registryVars /\ SetFate(event, "skipped")
      /\ UNCHANGED <<inbox, batch, clock>>
  BY <1>a DEF TakeShred, Record, listenerVars
<1>2. /\ shred_q \in Seq(Delivery) /\ event \in Delivery
      /\ slot_q \in Seq(R!SlotEvent) /\ grpc_q \in Seq(Sample)
  BY <1>1, <1>a, QueueFacts DEF PipelineOK, ChannelsOK
<1>3. OneEach(shred_q) /\ OneEach(slot_q') /\ OneEach(grpc_q')
  BY <1>1 DEF EventsOK, QueuesOK, OneEach
<1>4. /\ Elems(shred_q') = Elems(shred_q) \ {event} /\ event \in Elems(shred_q)
      /\ OneEach(shred_q')
  BY <1>1, <1>2, <1>3, <1>a, TailElems
<1>5. event \notin Elems(slot_q) \cup Elems(grpc_q)
  BY <1>2, ElemsIn, KindsDiffer
<1>6. Queued' = Elems(shred_q') \cup Elems(slot_q) \cup Elems(grpc_q)
  BY <1>1 DEF Queued, Elems
<1>7. event \in Queued /\ Queued' = Queued \ {event}
  BY <1>4, <1>5, <1>6 DEF Queued
<1>8. CASE Record(event) /\ SetFate(event, "recorded")
  <2>1. {event} = {e \in {event} : e \in Delivery /\ "recorded" = "recorded"}
    BY <1>2
  <2>2. QED
    BY <1>1, <1>2, <1>3, <1>4, <1>7, <1>8, <2>1, ShredIsBooked, TakenEvents DEF EventsOK
<1>9. CASE UNCHANGED registryVars /\ SetFate(event, "skipped")
  <2>1. UNCHANGED <<shreds, grpc_latencies, receipts, drops>>
    BY <1>9 DEF registryVars
  <2>2. {e \in {event} : e \in Delivery /\ "skipped" = "recorded"} = {}
    OBVIOUS
  <2>3. QED
    BY <1>1, <1>3, <1>4, <1>7, <1>9, <2>1, <2>2, BooksStill, TakenEvents
<1>10. QED
  BY <1>1, <1>8, <1>9

LEMMA TakeSlotEvents ==
  ASSUME PipelineOK, EventsOK, agg = "running", TakeSlotEvent,
         UNCHANGED <<listenerVars, clock>>
  PROVE  EventsOK' /\ LedgerStep
<1>a. PICK event : event = Head(slot_q)
  OBVIOUS
<1>1. /\ slot_q # <<>> /\ slot_q' = Tail(slot_q) /\ UNCHANGED <<shred_q, grpc_q, agg>>
      /\ SetFate(event, "recorded") \/ SetFate(event, "skipped")
      /\ UNCHANGED <<shreds, grpc_latencies, receipts, drops>>
      /\ UNCHANGED <<inbox, batch, clock>>
  BY <1>a DEF TakeSlotEvent, R!RecordSlotEvent, registryVars, listenerVars
<1>2. /\ slot_q \in Seq(R!SlotEvent) /\ event \in R!SlotEvent
      /\ shred_q \in Seq(Delivery) /\ grpc_q \in Seq(Sample)
  BY <1>1, <1>a, QueueFacts DEF PipelineOK, ChannelsOK
<1>3. OneEach(slot_q) /\ OneEach(shred_q') /\ OneEach(grpc_q')
  BY <1>1 DEF EventsOK, QueuesOK, OneEach
<1>4. /\ Elems(slot_q') = Elems(slot_q) \ {event} /\ event \in Elems(slot_q)
      /\ OneEach(slot_q')
  BY <1>1, <1>2, <1>3, <1>a, TailElems
<1>5. event \notin Elems(shred_q) \cup Elems(grpc_q)
  BY <1>2, ElemsIn, KindsDiffer
<1>6. Queued' = Elems(shred_q) \cup Elems(slot_q') \cup Elems(grpc_q)
  BY <1>1 DEF Queued, Elems
<1>7. event \in Queued /\ Queued' = Queued \ {event}
  BY <1>4, <1>5, <1>6 DEF Queued
<1>8. \A f : {e \in {event} : e \in Delivery /\ f = "recorded"} = {}
  BY <1>2, KindsDiffer
<1>9. QED
  BY <1>1, <1>3, <1>4, <1>7, <1>8, BooksStill, TakenEvents

LEMMA TakeSampleEvents ==
  ASSUME PipelineOK, EventsOK, agg = "running", TakeSample, UNCHANGED <<listenerVars, clock>>
  PROVE  EventsOK' /\ LedgerStep
<1>a. PICK event : event = Head(grpc_q)
  OBVIOUS
<1>1. /\ grpc_q # <<>> /\ grpc_q' = Tail(grpc_q) /\ UNCHANGED <<shred_q, slot_q, agg>>
      /\ SetFate(event, "recorded")
      /\ R!RecordGrpcLatency(event.source, event.sampled_at)
      /\ UNCHANGED <<inbox, batch, clock, receipts>>
  BY <1>a DEF TakeSample, listenerVars
<1>2. /\ grpc_q \in Seq(Sample) /\ event \in Sample
      /\ shred_q \in Seq(Delivery) /\ slot_q \in Seq(R!SlotEvent)
  BY <1>1, <1>a, QueueFacts DEF PipelineOK, ChannelsOK
<1>3. OneEach(grpc_q) /\ OneEach(shred_q') /\ OneEach(slot_q')
  BY <1>1 DEF EventsOK, QueuesOK, OneEach
<1>4. /\ Elems(grpc_q') = Elems(grpc_q) \ {event} /\ event \in Elems(grpc_q)
      /\ OneEach(grpc_q')
  BY <1>1, <1>2, <1>3, <1>a, TailElems
<1>5. event \notin Elems(shred_q) \cup Elems(slot_q)
  BY <1>2, ElemsIn, KindsDiffer
<1>6. Queued' = Elems(shred_q) \cup Elems(slot_q) \cup Elems(grpc_q')
  BY <1>1 DEF Queued, Elems
<1>7. event \in Queued /\ Queued' = Queued \ {event}
  BY <1>4, <1>5, <1>6 DEF Queued
<1>8. {e \in {event} : e \in Delivery /\ "recorded" = "recorded"} = {}
  BY <1>2, KindsDiffer
<1>9. QED
  BY <1>1, <1>2, <1>3, <1>4, <1>7, <1>8, SampleIsBooked, TakenEvents DEF EventsOK

LEMMA AggregateEvents ==
  ASSUME PipelineOK, EventsOK, Aggregate
  PROVE  EventsOK' /\ LedgerStep
<1>1. agg = "running" /\ UNCHANGED <<listenerVars, clock>>
  BY DEF Aggregate
<1>2. CASE TakeShred
  BY <1>1, <1>2, TakeShredEvents
<1>3. CASE TakeSlotEvent
  BY <1>1, <1>3, TakeSlotEvents
<1>4. CASE TakeSample
  BY <1>1, <1>4, TakeSampleEvents
<1>5. CASE AggregatorBreaks
  <2>1. /\ agg' = "stopped" /\ fate' = fate /\ UNCHANGED <<shred_q, slot_q, grpc_q>>
        /\ UNCHANGED <<shreds, grpc_latencies, receipts, drops>>
        /\ UNCHANGED <<inbox, batch, clock>>
    BY <1>1, <1>5 DEF AggregatorBreaks, channelVars, registryVars, listenerVars
  <2>2. NumbersOK' /\ SentOK'
    BY <2>1, NumbersStill
  <2>3. QueuesOK' /\ Queued' = Queued
    BY <2>1 DEF EventsOK, QueuesOK, Queued, Elems, OneEach
  <2>4. /\ BooksOK' /\ ShredsBooked' = ShredsBooked
        /\ (ShredsBooked \cup SamplesBooked)' = ShredsBooked \cup SamplesBooked
    BY <2>1, BooksStill
  <2>5. (agg = "running")' = FALSE /\ (agg = "running") = TRUE
    BY <1>1, <2>1
  <2>6. L!Close
    BY <1>1, <2>1, <2>3, <2>4, <2>5, Zenon DEF L!Close
  <2>7. FatesStay
    BY <2>1, <2>3, <2>4 DEF FatesStay
  <2>8. QED
    BY <2>2, <2>3, <2>4, <2>6, <2>7 DEF EventsOK, LedgerStep, FateStep, L!Next
<1>6. QED
  BY <1>2, <1>3, <1>4, <1>5 DEF Aggregate

LEMMA ListenEvents ==
  ASSUME PipelineOK, EventsOK, NEW l \in Listeners, Listen(l)
  PROVE  EventsOK' /\ LedgerStep
<1>1. ListenerStep(l) /\ UNCHANGED <<slot_q, grpc_q, agg>>
  BY DEF Listen
<1>2. CASE /\ Bind(l) \/ Configure(l) \/ Poll(l) \/ ReceiveNothing(l)
           /\ UNCHANGED <<clock, shred_q, registryVars, fate>>
  <2>1. UNCHANGED <<inbox, batch>>
    BY <1>2 DEF Bind, Configure, Poll, ReceiveNothing
  <2>2. QED
    BY <1>1, <1>2, <2>1, EventsStill
<1>3. CASE SkipUnmatched(l) /\ UNCHANGED <<clock, shred_q, registryVars, fate>>
  BY <1>1, <1>3, SkipEvents
<1>4. CASE Receive(l) /\ UNCHANGED <<clock, shred_q, registryVars, fate>>
  BY <1>1, <1>4, ReceiveEvents
<1>5. CASE ReadClock(l) /\ UNCHANGED <<shred_q, registryVars, fate>>
  BY <1>1, <1>5, ReadEvents
<1>6. ASSUME NEW source \in Sources, Forward(l, source), UNCHANGED clock
      PROVE  EventsOK' /\ LedgerStep
  BY <1>1, <1>6, ForwardEvents
<1>7. QED
  BY <1>1, <1>2, <1>3, <1>4, <1>5, <1>6 DEF ListenerStep

LEMMA EventsInit == Init => EventsOK /\ L!Init
<1> SUFFICES ASSUME Init PROVE EventsOK /\ L!Init
  OBVIOUS
<1>1. /\ shreds = R!NoMap /\ grpc_latencies = R!NoMap /\ fate = R!NoMap
      /\ receipts = R!NoMap /\ drops = [s \in Sources |-> 0] /\ agg = "running"
      /\ shred_q = <<>> /\ slot_q = <<>> /\ grpc_q = <<>>
      /\ \A l \in Listeners : inbox[l] = <<>> /\ batch[l] = <<>>
  BY DEF Init, R!RegistryInit
<1>2. DOMAIN R!NoMap = {} /\ DOMAIN <<>> = {}
  BY DEF R!NoMap
<1>3. Elems(<<>>) = {} /\ Nrs(<<>>) = {} /\ OneNr(<<>>) /\ OneEach(<<>>)
  BY <1>2 DEF Elems, Nrs, OneNr, OneEach
<1>4. Queued = {} /\ ShredsBooked = {} /\ SamplesBooked = {}
  BY <1>1, <1>2, <1>3 DEF Queued, ShredsBooked, SamplesBooked
<1>5. \A l \in Listeners : Line(l) = {}
  BY <1>1, <1>3 DEF Line
<1>6. NumbersOK
  BY <1>1, <1>3, <1>5 DEF NumbersOK
<1>7. SentOK /\ QueuesOK /\ BooksOK
  BY <1>1, <1>2, <1>3, <1>4 DEF SentOK, QueuesOK, BooksOK
<1>8. (agg = "running") = TRUE
  BY <1>1
<1>9. L!Init
  BY <1>1, <1>2, <1>4, <1>8, Zenon DEF L!Init
<1>10. QED
  BY <1>6, <1>7, <1>9 DEF EventsOK

LEMMA EventsStep == PipelineOK /\ EventsOK /\ [Next]_vars => EventsOK' /\ LedgerStep
<1> SUFFICES ASSUME PipelineOK, EventsOK, [Next]_vars PROVE EventsOK' /\ LedgerStep
  OBVIOUS
<1>1. ASSUME NEW l \in Listeners, Listen(l) PROVE EventsOK' /\ LedgerStep
  BY <1>1, ListenEvents
<1>2. CASE Traffic
  <2>1. PICK l \in Listeners : PacketArrives(l)
    BY <1>2 DEF Traffic
  <2>2. UNCHANGED <<fate, shred_q, slot_q, grpc_q, registryVars, agg>>
    BY <1>2 DEF Traffic, channelVars
  <2>3. QED
    BY <2>1, <2>2, ArrivalEvents
<1>3. CASE Tasks
  <2>1. CASE UNCHANGED <<inbox, batch, channelVars, agg, registryVars, clock, fate>>
    BY <2>1, EventsStill DEF channelVars
  <2>2. ASSUME NEW t \in Streams, NEW source \in Sources, NEW slot \in Slots,
               NEW sampled \in BOOLEAN, Update(t, source, slot, sampled),
               UNCHANGED <<listenerVars, shred_q, agg>>
        PROVE  EventsOK' /\ LedgerStep
    BY <2>2, UpdateEvents
  <2>3. QED
    BY <1>3, <2>1, <2>2 DEF Tasks
<1>4. CASE Aggregate
  BY <1>4, AggregateEvents
<1>5. CASE UNCHANGED <<listenerVars, channelVars, agg, registryVars, clock, fate>>
  BY <1>5, EventsStill DEF listenerVars, channelVars
<1>6. CASE Finish \/ Control(Timers) \/ Control(Main) \/ UNCHANGED vars
  BY <1>5, <1>6 DEF Finish, Control, vars
<1>7. QED
  BY <1>1, <1>2, <1>3, <1>4, <1>6 DEF Next

LEMMA EventsHold == Safety => [](PipelineOK /\ EventsOK)
BY PipelineInit, StepKeeps, EventsInit, EventsStep, PTL DEF Safety

(* main.rs 347-439, raw_udp.rs 92-100, pcap.rs 298-314, yellowstone.rs     *)
(* 160-217: for any sources, listeners, batches and capacities, the run is *)
(* a run of the ledger.  An event is sent once, then is either counted as  *)
(* a drop or under way; it is taken once; nothing is sent on its way after *)
(* the aggregator has ended.                                               *)
THEOREM RunImplementsLedger == Safety => ImplementsLedger
<1>1. LedgerStep => [L!Next]_(L!vars)
  BY DEF LedgerStep
<1>2. QED
  BY <1>1, EventsInit, EventsHold, EventsStep, PTL DEF Safety, ImplementsLedger, L!Spec
-----------------------------------------------------------------------------
(* The books agree with the fates of the events. *)

Lost(source) == {e \in Events("dropped") : e.source = source}

BooksAgree ==
  /\ \A source \in Sources :
       IsFiniteSet(Lost(source)) /\ drops[source] = Cardinality(Lost(source))
  /\ Events("queued") = Queued
  /\ ShredsBooked = ShredEvents("recorded")

LEMMA BooksInit == Init => BooksAgree
<1> SUFFICES ASSUME Init PROVE BooksAgree
  OBVIOUS
<1>1. /\ shreds = R!NoMap /\ fate = R!NoMap /\ drops = [s \in Sources |-> 0]
      /\ shred_q = <<>> /\ slot_q = <<>> /\ grpc_q = <<>>
  BY DEF Init, R!RegistryInit
<1>2. DOMAIN R!NoMap = {} /\ DOMAIN <<>> = {}
  BY DEF R!NoMap
<1>3. \A f : Events(f) = {}
  BY <1>1, <1>2 DEF Events
<1>4. Queued = {} /\ ShredsBooked = {} /\ ShredEvents("recorded") = {}
  BY <1>1, <1>2, <1>3 DEF Queued, Elems, ShredsBooked, ShredEvents
<1>5. \A source \in Sources : Lost(source) = {}
  BY <1>3 DEF Lost
<1>6. IsFiniteSet({}) /\ Cardinality({}) = 0
  BY FS_EmptySet
<1>7. QED
  BY <1>1, <1>3, <1>4, <1>5, <1>6 DEF BooksAgree

(* A shred event is recognised by its key. *)
LEMMA ShredsByKey ==
  ASSUME NEW e \in Delivery \cup R!SlotEvent \cup Sample
  PROVE  "key" \in DOMAIN e <=> e \in Delivery
<1>1. e \in Delivery => DOMAIN e = {"source", "key", "nr", "received_at"}
  BY DEF Delivery
<1>2. e \in R!SlotEvent => DOMAIN e = {"source", "slot", "received_at"}
  BY DEF R!SlotEvent
<1>3. e \in Sample => DOMAIN e = {"source", "sampled_at"}
  BY DEF Sample
<1>4. QED
  BY <1>1, <1>2, <1>3, KindsDiffer

LEMMA DisjointUnion ==
  ASSUME NEW S, NEW T, IsFiniteSet(S), IsFiniteSet(T), S \cap T = {}
  PROVE  /\ IsFiniteSet(S \cup T)
         /\ Cardinality(S \cup T) = Cardinality(S) + Cardinality(T)
<1>1. Cardinality(S \cap T) = 0
  BY FS_EmptySet
<1>2. Cardinality(S) \in Nat /\ Cardinality(T) \in Nat
  BY FS_CardinalityType
<1>3. /\ IsFiniteSet(S \cup T)
      /\ Cardinality(S \cup T) = Cardinality(S) + Cardinality(T) - Cardinality(S \cap T)
  BY FS_Union
<1>4. QED
  BY <1>1, <1>2, <1>3

LEMMA SendsAgree ==
  ASSUME PipelineOK, BooksAgree, NEW source \in Sources, NEW new, NEW accepted,
         Sends(source, new, accepted)
  PROVE  BooksAgree'
<1> DEFINE refused == new \ accepted
<1>1. /\ IsFiniteSet(new) /\ new \cap DOMAIN fate = {} /\ accepted \subseteq new
      /\ \A e \in new : e.source = source
      /\ DOMAIN fate' = DOMAIN fate \cup new
      /\ \A e \in DOMAIN fate : fate'[e] = fate[e]
      /\ \A e \in new : fate'[e] = IF e \in accepted THEN "queued" ELSE "dropped"
      /\ Queued' = Queued \cup accepted /\ ShredsBooked' = ShredsBooked
      /\ drops' = [drops EXCEPT ![source] = @ + Cardinality(refused)]
      /\ drops \in [Sources -> Nat]
  BY DEF Sends, PipelineOK, OthersOK
<1>2. /\ Events("queued")' = Events("queued") \cup accepted
      /\ Events("dropped")' = Events("dropped") \cup refused
      /\ Events("recorded")' = Events("recorded")
  BY <1>1 DEF Events
<1>3. Events("queued")' = Queued' /\ ShredsBooked' = ShredEvents("recorded")'
  BY <1>1, <1>2 DEF BooksAgree, ShredEvents
<1>4. ASSUME NEW s \in Sources
      PROVE  IsFiniteSet(Lost(s)') /\ drops'[s] = Cardinality(Lost(s)')
  <2>1. IsFiniteSet(Lost(s)) /\ drops[s] = Cardinality(Lost(s))
    BY DEF BooksAgree
  <2>2. CASE s = source
    <3>1. Lost(s)' = Lost(s) \cup refused
      BY <1>1, <1>2, <2>2 DEF Lost
    <3>2. Lost(s) \cap refused = {}
      BY <1>1 DEF Lost, Events
    <3>3. IsFiniteSet(refused)
      BY <1>1, FS_Difference
    <3> HIDE DEF refused
    <3>4. /\ IsFiniteSet(Lost(s) \cup refused)
          /\ Cardinality(Lost(s) \cup refused) = Cardinality(Lost(s)) + Cardinality(refused)
      BY <2>1, <3>2, <3>3, DisjointUnion
    <3>5. drops'[s] = drops[s] + Cardinality(refused)
      BY <1>1, <2>2
    <3>6. QED
      BY <2>1, <3>1, <3>4, <3>5
  <2>3. CASE s # source
    <3>1. Lost(s)' = Lost(s)
      BY <1>1, <1>2, <2>3 DEF Lost
    <3>2. drops'[s] = drops[s]
      BY <1>1, <2>3
    <3>3. QED
      BY <2>1, <3>1, <3>2
  <2>4. QED
    BY <2>2, <2>3
<1>5. QED
  BY <1>3, <1>4 DEF BooksAgree

LEMMA SettlesAgree ==
  ASSUME EventsOK, BooksAgree, NEW event \in Queued, NEW f \in {"recorded", "skipped"},
         Settles(event, f)
  PROVE  BooksAgree'
<1>1. /\ DOMAIN fate' = DOMAIN fate /\ fate'[event] = f
      /\ \A e \in DOMAIN fate : e # event => fate'[e] = fate[e]
      /\ Queued' = Queued \ {event} /\ drops' = drops
      /\ ShredsBooked'
           = ShredsBooked \cup {e \in {event} : e \in Delivery /\ f = "recorded"}
  BY DEF Settles
<1>2. event \in DOMAIN fate /\ fate[event] = "queued"
  BY DEF BooksAgree, Events
<1>3. /\ Events("queued")' = Events("queued") \ {event}
      /\ Events("dropped")' = Events("dropped")
      /\ Events("recorded")' = Events("recorded") \cup {e \in {event} : f = "recorded"}
  BY <1>1, <1>2 DEF Events
<1>4. "key" \in DOMAIN event <=> event \in Delivery
  BY <1>2, ShredsByKey DEF EventsOK, SentOK
<1>5. ShredsBooked' = ShredEvents("recorded")'
  BY <1>1, <1>3, <1>4 DEF BooksAgree, ShredEvents
<1>6. \A s \in Sources : Lost(s)' = Lost(s)
  BY <1>3 DEF Lost
<1>7. QED
  BY <1>1, <1>3, <1>5, <1>6 DEF BooksAgree

LEMMA FatesAgree == PipelineOK /\ EventsOK /\ BooksAgree /\ FateStep => BooksAgree'
<1> SUFFICES ASSUME PipelineOK, EventsOK, BooksAgree, FateStep PROVE BooksAgree'
  OBVIOUS
<1>1. CASE FatesStay
  <2>1. \A f : Events(f)' = Events(f)
    BY <1>1 DEF FatesStay, Events
  <2>2. \A s \in Sources : Lost(s)' = Lost(s)
    BY <2>1 DEF Lost
  <2>3. QED
    BY <1>1, <2>1, <2>2 DEF FatesStay, BooksAgree, ShredEvents
<1>2. QED
  BY <1>1, SendsAgree, SettlesAgree DEF FateStep

LEMMA BooksHold == Safety => [](PipelineOK /\ EventsOK /\ BooksAgree)
<1>1. LedgerStep => FateStep
  BY DEF LedgerStep
<1>2. QED
  BY <1>1, PipelineInit, StepKeeps, EventsInit, EventsStep, BooksInit, FatesAgree, PTL DEF Safety

(* raw_udp.rs 92-100, pcap.rs 298-314, yellowstone.rs 160-217, main.rs     *)
(* 347-439: for any sources and capacities and any interleaving, what the  *)
(* sources produced is partitioned: the drop counters, the channels, the   *)
(* arrivals of the registry and what the window skipped.                   *)
THEOREM NothingIsLost == Safety => []Accounting
<1>1. BooksAgree => Accounting
  BY DEF BooksAgree, Accounting, Lost
<1>2. QED
  BY <1>1, BooksHold, PTL
-----------------------------------------------------------------------------
(* The start of the range. *)

(* A shred of StartSlot has been taken, recorded or skipped. *)
StartTaken ==
  \E e \in ShredEvents("recorded") \cup ShredEvents("skipped") : e.key.slot = StartSlot

RangeOK ==
  /\ StartConfigured /\ start_slot_checked /\ ~cancelled => StartTaken
  /\ ShredEvents("recorded") # {} => start_slot_checked

(* What is settled stays settled. *)
LEMMA SettledStay ==
  ASSUME BooksAgree, FateStep, NEW f \in {"recorded", "skipped"}
  PROVE  ShredEvents(f) \subseteq ShredEvents(f)'
<1>1. \A event \in Queued : fate[event] = "queued"
  BY DEF BooksAgree, Events
<1>2. \A e \in Events(f) : e \in DOMAIN fate' /\ fate'[e] = f
  <2>1. CASE FatesStay
    BY <2>1 DEF FatesStay, Events
  <2>2. ASSUME NEW source \in Sources, NEW new, NEW accepted, Sends(source, new, accepted)
        PROVE  \A e \in Events(f) : e \in DOMAIN fate' /\ fate'[e] = f
    BY <2>2 DEF Sends, Events
  <2>3. ASSUME NEW event \in Queued, NEW g \in {"recorded", "skipped"}, Settles(event, g)
        PROVE  \A e \in Events(f) : e \in DOMAIN fate' /\ fate'[e] = f
    BY <1>1, <2>3 DEF Settles, Events
  <2>4. QED
    BY <2>1, <2>2, <2>3 DEF FateStep
<1>3. QED
  BY <1>2 DEF ShredEvents, Events

LEMMA RecordedStay ==
  ASSUME BooksAgree, BooksAgree', UNCHANGED <<shreds, receipts>>
  PROVE  ShredEvents("recorded")' = ShredEvents("recorded")
<1>1. ShredsBooked' = ShredsBooked
  BY DEF ShredsBooked, Elems
<1>2. ShredsBooked = ShredEvents("recorded") /\ ShredsBooked' = ShredEvents("recorded")'
  BY Zenon DEF BooksAgree
<1>3. QED
  BY <1>1, <1>2

(* Only taking a shred moves the start of the range or adds to the shreds. *)
LEMMA StepOrTake ==
  ASSUME [Next]_vars
  PROVE  \/ TakeShred /\ agg = "running"
         \/ UNCHANGED <<shreds, receipts, start_slot_checked>> /\ (cancelled => cancelled')
<1>1. ASSUME NEW l \in Listeners, Listen(l)
      PROVE  UNCHANGED <<shreds, receipts, start_slot_checked, cancelled>>
  BY <1>1 DEF Listen, ListenerStep, Forward, R!Drop, registryVars, controlVars, window
<1>2. CASE Traffic \/ Finish \/ UNCHANGED vars
  <2>1. UNCHANGED <<controlVars, registryVars>>
    BY <1>2 DEF Traffic, Finish, vars
  <2>2. QED
    BY <2>1 DEF registryVars, controlVars, window
<1>3. CASE Tasks
  <2>1. ASSUME NEW t \in Streams, NEW source \in Sources, NEW slot \in Slots,
               NEW sampled \in BOOLEAN, Update(t, source, slot, sampled)
        PROVE  UNCHANGED <<shreds, receipts>>
    BY <2>1 DEF Update
  <2>2. UNCHANGED controlVars /\ UNCHANGED <<shreds, receipts>>
    BY <1>3, <2>1 DEF Tasks, registryVars
  <2>3. QED
    BY <2>2 DEF controlVars, window
<1>4. CASE Aggregate
  <2>1. CASE TakeShred
    BY <1>4, <2>1 DEF Aggregate
  <2>2. CASE TakeSlotEvent
    <3>1. UNCHANGED <<shreds, receipts>>
      BY <2>2 DEF TakeSlotEvent, R!RecordSlotEvent, registryVars
    <3>2. UNCHANGED <<start_slot_checked, cancelled>>
      BY <2>2 DEF TakeSlotEvent, HandleSlotEvent, BeforeStart, PastEnd, WithinRange, Unmoved
    <3>3. QED
      BY <3>1, <3>2
  <2>3. CASE TakeSample \/ AggregatorBreaks
    BY <2>3 DEF TakeSample, AggregatorBreaks, R!RecordGrpcLatency, registryVars, controlVars,
                window
  <2>4. QED
    BY <1>4, <2>1, <2>2, <2>3 DEF Aggregate
<1>5. CASE Control(Timers) \/ Control(Main)
  <2>1. UNCHANGED <<shreds, receipts, start_slot_checked>>
    BY <1>5 DEF Control, Timers, Monitor, MonitorStops, MonitorSeesActivity,
       MonitorCountsSilence, GraceExpires, Tick, Main, DurationElapses,
       ObserveCancellation, CtrlC, Wake, registryVars, window
  <2>2. cancelled' = TRUE \/ cancelled' = cancelled
    BY <1>5 DEF Control, Timers, Monitor, MonitorStops, MonitorSeesActivity,
       MonitorCountsSilence, GraceExpires, Tick, Main, DurationElapses,
       ObserveCancellation, CtrlC, Wake, Cancel
  <2>3. QED
    BY <2>1, <2>2
<1>6. QED
  BY <1>1, <1>2, <1>3, <1>4, <1>5 DEF Next

LEMMA RangeTake ==
  ASSUME PipelineOK, EventsOK, BooksAgree, BooksAgree', RangeOK, FateStep, TakeShred
  PROVE  RangeOK'
<1>a. PICK event : event = Head(shred_q)
  OBVIOUS
<1>b. PICK slot : slot = event.key.slot
  OBVIOUS
<1>1. /\ shred_q # <<>> /\ HandleShred(slot)
      /\ IF RecordsShred(slot)
           THEN Record(event) /\ SetFate(event, "recorded")
           ELSE UNCHANGED registryVars /\ SetFate(event, "skipped")
  BY <1>a, <1>b, Zenon DEF TakeShred, Record
<1>2. event \in Delivery /\ slot \in Nat /\ StartSlot \in Nat
  <2>1. event \in Delivery
    BY <1>1, <1>a, QueueFacts DEF PipelineOK, ChannelsOK
  <2>2. slot \in Slots
    BY <1>b, <2>1 DEF Delivery, R!ShredKey
  <2>3. QED
    BY <2>1, <2>2, SlotAssumption
<1>3. event \in (ShredEvents("recorded") \cup ShredEvents("skipped"))'
  BY <1>1, <1>2 DEF SetFate, R!Put, ShredEvents, Events, Delivery
<1>4. StartTaken => StartTaken'
  BY SettledStay DEF StartTaken
<1>5. CASE slot < StartSlot
  <2>1. UNCHANGED <<cancelled, start_slot_checked>> /\ ~RecordsShred(slot)
    BY <1>1, <1>2, <1>5
       DEF HandleShred, BeforeStart, StartMissed, Missed, Unmoved, RecordsShred, InWindow
  <2>2. ShredEvents("recorded")' = ShredEvents("recorded")
    BY <1>1, <2>1, RecordedStay DEF registryVars
  <2>3. QED
    BY <1>4, <2>1, <2>2 DEF RangeOK
<1>6. CASE Missed(slot)
  BY <1>1, <1>2, <1>6 DEF HandleShred, BeforeStart, StartMissed, Missed, Cancel, RangeOK
<1>7. CASE StartSlot <= slot /\ ~Missed(slot)
  <2>1. start_slot_checked' = TRUE /\ cancelled' = cancelled
    BY <1>1, <1>2, <1>7
       DEF HandleShred, BeforeStart, StartMissed, PastEnd, WithinRange, Unmoved
  <2>2. CASE slot = StartSlot
    <3>1. StartTaken'
      BY <1>b, <1>3, <2>2 DEF StartTaken
    <3>2. QED
      BY <2>1, <3>1 DEF RangeOK
  <2>3. CASE slot # StartSlot
    <3>1. StartConfigured => start_slot_checked
      BY <1>2, <1>7, <2>3 DEF Missed
    <3>2. QED
      BY <1>4, <2>1, <3>1 DEF RangeOK
  <2>4. QED
    BY <2>2, <2>3
<1>8. QED
  BY <1>2, <1>5, <1>6, <1>7

LEMMA RangeStep ==
  PipelineOK /\ EventsOK /\ BooksAgree /\ BooksAgree' /\ RangeOK /\ FateStep /\ [Next]_vars
    => RangeOK'
<1> SUFFICES ASSUME PipelineOK, EventsOK, BooksAgree, BooksAgree', RangeOK, FateStep,
                    [Next]_vars
             PROVE  RangeOK'
  OBVIOUS
<1>1. CASE TakeShred
  BY <1>1, RangeTake
<1>2. CASE /\ UNCHANGED <<shreds, receipts, start_slot_checked>>
           /\ cancelled => cancelled'
  <2>1. ShredEvents("recorded")' = ShredEvents("recorded")
    BY <1>2, RecordedStay
  <2>2. StartTaken => StartTaken'
    BY SettledStay DEF StartTaken
  <2>3. QED
    BY <1>2, <2>1, <2>2 DEF RangeOK
<1>3. QED
  BY <1>1, <1>2, StepOrTake

LEMMA RangeInit == Init => RangeOK
<1> SUFFICES ASSUME Init PROVE RangeOK
  OBVIOUS
<1>1. start_slot_checked = FALSE /\ fate = R!NoMap
  BY DEF Init, ControlInit
<1>2. ShredEvents("recorded") = {}
  BY <1>1 DEF ShredEvents, Events, R!NoMap
<1>3. QED
  BY <1>1, <1>2 DEF RangeOK

(* main.rs 368-379: for any slots and window, whatever is queued and in    *)
(* whatever order it is taken, a run that has not been cancelled has had a *)
(* shred of its start slot before it records one of a later slot.          *)
THEOREM RangeHasItsStart == Safety => []RangeIsWhole
<1>1. LedgerStep => FateStep
  BY DEF LedgerStep
<1>2. RangeOK => RangeIsWhole
  BY DEF RangeOK, RangeIsWhole, StartTaken
<1>3. QED
  BY <1>1, <1>2, BooksHold, PipelineInit, StepKeeps, EventsInit, EventsStep, BooksInit,
     FatesAgree, RangeInit, RangeStep, PTL DEF Safety
-----------------------------------------------------------------------------
(* The order of the events of a source that has one listener: what waits   *)
(* for the listener, what it holds, what is queued and what is recorded    *)
(* are ordered by their numbers, one after the other.                      *)

(* Is l the only listener of the source? *)
Sole(source, l) == source \in Routes[l] /\ \A m \in Listeners : source \in Routes[m] => m = l
HasSole(source) == \E l \in Listeners : Sole(source, l)

Rising(queue) == \A i, j \in DOMAIN queue : i < j => queue[i].nr < queue[j].nr

LinesRise ==
  \A l \in Listeners :
    /\ Rising(inbox[l]) /\ Rising(batch[l])
    /\ \A a \in Nrs(batch[l]), b \in Nrs(inbox[l]) : a < b

(* What was sent is no later than what the listener still has. *)
Passed(event, l) ==
  /\ \A i \in DOMAIN batch[l] : event.nr <= batch[l][i].nr
  /\ \A b \in Nrs(inbox[l]) : event.nr < b

SentFirst ==
  \A e \in DOMAIN fate, l \in Listeners :
    e \in Delivery /\ Sole(e.source, l) => Passed(e, l)

QueueRises ==
  \A i, j \in DOMAIN shred_q :
    i < j /\ shred_q[i].source = shred_q[j].source /\ HasSole(shred_q[i].source)
      => shred_q[i].nr < shred_q[j].nr

BookedFirst ==
  \A e \in ShredsBooked, i \in DOMAIN shred_q :
    e.source = shred_q[i].source /\ HasSole(e.source) => e.nr < shred_q[i].nr

RecordsRise ==
  \A key \in DOMAIN shreds : \A i, j \in DOMAIN shreds[key].arrivals :
    /\ i < j /\ shreds[key].arrivals[i].source = shreds[key].arrivals[j].source
    /\ HasSole(shreds[key].arrivals[i].source)
    => receipts[key][i] < receipts[key][j]

OrderOK == LinesRise /\ SentFirst /\ QueueRises /\ BookedFirst /\ RecordsRise

LEMMA OrderInit == Init => OrderOK
<1> SUFFICES ASSUME Init PROVE OrderOK
  OBVIOUS
<1>1. /\ shreds = R!NoMap /\ fate = R!NoMap /\ shred_q = <<>>
      /\ \A l \in Listeners : inbox[l] = <<>> /\ batch[l] = <<>>
  BY DEF Init, R!RegistryInit
<1>2. DOMAIN R!NoMap = {} /\ DOMAIN <<>> = {}
  BY DEF R!NoMap
<1>3. LinesRise
  BY <1>1, <1>2 DEF LinesRise, Rising, Nrs
<1>4. SentFirst /\ RecordsRise
  BY <1>1, <1>2 DEF SentFirst, RecordsRise
<1>5. QueueRises /\ BookedFirst
  BY <1>1, <1>2 DEF QueueRises, BookedFirst
<1>6. QED
  BY <1>3, <1>4, <1>5 DEF OrderOK

(* A listener moves what it had, in its order. *)
LEMMA OrderMoves ==
  ASSUME PipelineOK, OrderOK, NEW l \in Listeners, NEW waiting, NEW taken,
         inbox' = [inbox EXCEPT ![l] = waiting], batch' = [batch EXCEPT ![l] = taken],
         Rising(waiting), Rising(taken),
         \A a \in Nrs(taken), b \in Nrs(waiting) : a < b,
         \A e \in DOMAIN fate : e \in Delivery /\ Passed(e, l) =>
           /\ \A i \in DOMAIN taken : e.nr <= taken[i].nr
           /\ \A b \in Nrs(waiting) : e.nr < b,
         UNCHANGED <<fate, shred_q, shreds, receipts>>
  PROVE  OrderOK'
<1>1. \A m \in Listeners : /\ inbox'[m] = IF m = l THEN waiting ELSE inbox[m]
                           /\ batch'[m] = IF m = l THEN taken ELSE batch[m]
  BY DEF PipelineOK, ListenersOK
<1>2. LinesRise'
  <2>1. ASSUME NEW m \in Listeners
        PROVE  /\ Rising(inbox'[m]) /\ Rising(batch'[m])
               /\ \A a \in Nrs(batch'[m]), b \in Nrs(inbox'[m]) : a < b
    BY <1>1 DEF OrderOK, LinesRise
  <2>2. QED
    BY <2>1 DEF LinesRise, Rising, Nrs
<1>3. ASSUME NEW e \in DOMAIN fate, NEW m \in Listeners, e \in Delivery, Sole(e.source, m)
      PROVE  Passed(e, m)'
  <2>1. Passed(e, m)
    BY <1>3 DEF OrderOK, SentFirst
  <2>2. CASE m = l
    BY <1>1, <1>3, <2>1, <2>2 DEF Passed, Nrs
  <2>3. CASE m # l
    BY <1>1, <2>1, <2>3 DEF Passed, Nrs
  <2>4. QED
    BY <2>2, <2>3
<1>4. SentFirst'
  BY <1>3 DEF SentFirst, Sole
<1>5. QueueRises' /\ RecordsRise'
  BY DEF OrderOK, QueueRises, RecordsRise
<1>6. ShredsBooked' = ShredsBooked
  BY DEF ShredsBooked, Elems
<1>7. BookedFirst'
  BY <1>6 DEF OrderOK, BookedFirst
<1>8. QED
  BY <1>2, <1>4, <1>5, <1>7 DEF OrderOK

LEMMA OrderReceive ==
  ASSUME PipelineOK, OrderOK, NEW l \in Listeners, Receive(l),
         UNCHANGED <<fate, shred_q, shreds, receipts>>
  PROVE  OrderOK'
<1>a. PICK n : n = IF Len(inbox[l]) < BatchSize[l] THEN Len(inbox[l]) ELSE BatchSize[l]
  OBVIOUS
<1>b. PICK q : q = inbox[l]
  OBVIOUS
<1>c. PICK taken : taken = Received(l)
  OBVIOUS
<1>d. PICK rest : rest = SubSeq(q, n + 1, Len(q))
  OBVIOUS
<1>1. q \in Seq(PacketsOf(l)) /\ q # <<>> /\ Len(q) \in Nat /\ DOMAIN q = 1..Len(q)
  BY <1>b, ListenerFacts DEF PipelineOK, Receive
<1>2. n \in 1..Len(q)
  BY <1>1, <1>a, <1>b, SettingsFacts
<1>3. taken = SubSeq(q, 1, n)
  BY <1>a, <1>b, <1>c DEF Received
<1>4. /\ DOMAIN taken = 1..n /\ Len(taken) = n
      /\ \A i \in 1..n : taken[i] = q[i] /\ i \in DOMAIN q
  BY <1>1, <1>2, <1>3
<1>5. inbox' = [inbox EXCEPT ![l] = rest] /\ batch' = [batch EXCEPT ![l] = taken]
  BY <1>4, <1>b, <1>c, <1>d DEF Receive
<1>6. /\ DOMAIN rest = 1..Len(q) - n
      /\ \A i \in 1..Len(q) - n : i + n \in DOMAIN q /\ rest[i] = q[i + n]
  BY <1>1, <1>2, <1>d
<1>7. \A i, j \in DOMAIN q : i < j => q[i].nr < q[j].nr
  BY <1>b DEF OrderOK, LinesRise, Rising
<1>8. Rising(taken)
  BY <1>4, <1>7 DEF Rising
<1>9. Rising(rest)
  <2>1. ASSUME NEW i \in 1..Len(q) - n, NEW j \in 1..Len(q) - n, i < j
        PROVE  rest[i].nr < rest[j].nr
    <3>1. i + n < j + n /\ i + n \in DOMAIN q /\ j + n \in DOMAIN q
      BY <1>2, <1>6, <2>1
    <3>2. q[i + n].nr < q[j + n].nr
      BY <1>7, <3>1
    <3>3. QED
      BY <1>6, <2>1, <3>2
  <2>2. QED
    BY <1>6, <2>1 DEF Rising
<1>10. ASSUME NEW x \in Nrs(taken), NEW y \in Nrs(rest) PROVE x < y
  <2>1. PICK i \in 1..n : x = q[i].nr
    BY <1>4, <1>10 DEF Nrs
  <2>2. PICK j \in 1..Len(q) - n : y = q[j + n].nr
    BY <1>6, <1>10 DEF Nrs
  <2>3. i \in DOMAIN q /\ j + n \in DOMAIN q /\ i < j + n
    BY <1>1, <1>2, <1>6
  <2>4. QED
    BY <1>7, <2>1, <2>2, <2>3
<1>11. ASSUME NEW e \in DOMAIN fate, e \in Delivery, Passed(e, l)
       PROVE  /\ \A i \in DOMAIN taken : e.nr <= taken[i].nr
              /\ \A y \in Nrs(rest) : e.nr < y
  <2>1. e.nr \in Nat /\ \A i \in DOMAIN q : q[i].nr \in Nat
    <3>1. \A i \in DOMAIN q : q[i] \in PacketsOf(l)
      BY <1>1
    <3>2. QED
      BY <1>11, <3>1, PacketFacts DEF Delivery
  <2>2. \A i \in DOMAIN q : e.nr < q[i].nr
    BY <1>11, <1>b DEF Passed, Nrs
  <2>3. \A i \in DOMAIN taken : e.nr <= taken[i].nr
    BY <1>4, <2>1, <2>2
  <2>4. \A y \in Nrs(rest) : e.nr < y
    BY <1>6, <2>2 DEF Nrs
  <2>5. QED
    BY <2>3, <2>4
<1>12. QED
  BY <1>5, <1>8, <1>9, <1>10, <1>11, OrderMoves

LEMMA OrderRead ==
  ASSUME PipelineOK, OrderOK, NEW l \in Listeners, ReadClock(l),
         UNCHANGED <<fate, shred_q, shreds, receipts>>
  PROVE  OrderOK'
<1>a. PICK taken : taken = [batch[l] EXCEPT ![1].at = clock']
  OBVIOUS
<1>1. /\ ListenersOK /\ batch[l] # <<>>
      /\ inbox' = [inbox EXCEPT ![l] = inbox[l]] /\ batch' = [batch EXCEPT ![l] = taken]
  BY <1>a, ReadFacts, ListenerFacts DEF PipelineOK, OthersOK, ReadClock
<1>2. DOMAIN taken = DOMAIN batch[l] /\ \A i \in DOMAIN taken : taken[i].nr = batch[l][i].nr
  BY <1>1, <1>a, ReadNumbers
<1>3. /\ Rising(inbox[l]) /\ Rising(batch[l])
      /\ \A x \in Nrs(batch[l]), y \in Nrs(inbox[l]) : x < y
  BY DEF OrderOK, LinesRise
<1>4. Rising(taken) /\ Nrs(taken) = Nrs(batch[l])
  BY <1>2, <1>3 DEF Rising, Nrs
<1>5. \A e : Passed(e, l) =>
        /\ \A i \in DOMAIN taken : e.nr <= taken[i].nr
        /\ \A y \in Nrs(inbox[l]) : e.nr < y
  BY <1>2 DEF Passed
<1>6. QED
  BY <1>1, <1>3, <1>4, <1>5, OrderMoves

LEMMA OrderArrival ==
  ASSUME PipelineOK, EventsOK, OrderOK, NEW l \in Listeners, PacketArrives(l),
         UNCHANGED <<fate, shred_q, shreds, receipts>>
  PROVE  OrderOK'
<1>1. PICK key \in R!ShredKey, to \in SUBSET Routes[l], at \in KernelTimes(l) :
        inbox' = [inbox EXCEPT ![l] =
                    Append(@, [key |-> key, to |-> to, nr |-> clock', at |-> at])]
  BY DEF PacketArrives
<1>a. PICK packet : packet = [key |-> key, to |-> to, nr |-> clock', at |-> at]
  OBVIOUS
<1>b. PICK queue : queue = Append(inbox[l], packet)
  OBVIOUS
<1>2. /\ clock \in Nat /\ clock' = clock + 1 /\ inbox[l] \in Seq(PacketsOf(l))
      /\ batch' = [batch EXCEPT ![l] = batch[l]]
  BY ListenerFacts DEF PipelineOK, OthersOK, PacketArrives
<1>3. packet \in PacketsOf(l) /\ packet.nr = clock + 1
  BY <1>2, <1>a, SettingsFacts, TimesAreInstants DEF PacketsOf, Packet
<1>4. inbox' = [inbox EXCEPT ![l] = queue]
  BY <1>1, <1>a, <1>b
<1>5. Nrs(inbox[l]) \subseteq 1..clock /\ Nrs(batch[l]) \subseteq 1..clock
  BY DEF EventsOK, NumbersOK, Line
<1>6. /\ DOMAIN inbox[l] = 1..Len(inbox[l]) /\ Len(inbox[l]) \in Nat
      /\ DOMAIN queue = 1..Len(inbox[l]) + 1 /\ queue[Len(inbox[l]) + 1] = packet
      /\ \A i \in 1..Len(inbox[l]) : queue[i] = inbox[l][i]
  BY <1>2, <1>3, <1>b
<1>7. Nrs(queue) = Nrs(inbox[l]) \cup {clock + 1}
  BY <1>2, <1>3, <1>b, NumberElems
<1>8. Rising(queue)
  <2>1. ASSUME NEW i \in DOMAIN queue, NEW j \in DOMAIN queue, i < j
        PROVE  queue[i].nr < queue[j].nr
    <3>1. i \in DOMAIN inbox[l] /\ queue[i] = inbox[l][i]
      BY <1>6, <2>1
    <3>2. CASE j \in DOMAIN inbox[l]
      BY <1>6, <2>1, <3>1, <3>2 DEF OrderOK, LinesRise, Rising
    <3>3. CASE j \notin DOMAIN inbox[l]
      <4>1. queue[j].nr = clock + 1
        BY <1>3, <1>6, <3>3
      <4>2. inbox[l][i].nr \in 1..clock
        BY <1>5, <3>1 DEF Nrs
      <4>3. QED
        BY <1>2, <3>1, <4>1, <4>2
    <3>4. QED
      BY <3>2, <3>3
  <2>2. QED
    BY <2>1 DEF Rising
<1>9. Rising(batch[l])
  BY DEF OrderOK, LinesRise
<1>10. \A x \in Nrs(batch[l]), y \in Nrs(queue) : x < y
  <2>1. \A x \in Nrs(batch[l]) : x < clock + 1
    BY <1>2, <1>5
  <2>2. QED
    BY <1>7, <2>1 DEF OrderOK, LinesRise
<1>11. ASSUME NEW e \in DOMAIN fate, e \in Delivery, Passed(e, l)
       PROVE  /\ \A i \in DOMAIN batch[l] : e.nr <= batch[l][i].nr
              /\ \A y \in Nrs(queue) : e.nr < y
  <2>1. e.nr < clock + 1
    BY <1>2, <1>11 DEF EventsOK, SentOK, Delivery
  <2>2. QED
    BY <1>7, <1>11, <2>1 DEF Passed
<1>12. QED
  BY <1>2, <1>4, <1>8, <1>9, <1>10, <1>11, OrderMoves

(* What is left of a batch is not earlier than its first packet. *)
LEMMA RestRises ==
  ASSUME ListenersOK, NEW l \in Listeners, batch[l] # <<>>, Rising(batch[l]),
         NEW to \in SUBSET Head(batch[l]).to
  PROVE  LET rest == Rest(l, to) IN
         /\ Rising(rest) /\ Nrs(rest) \subseteq Nrs(batch[l])
         /\ Head(batch[l]).nr \in Nrs(batch[l]) /\ Head(batch[l]).nr \in Nat
         /\ \A i \in DOMAIN batch[l] : Head(batch[l]).nr <= batch[l][i].nr
         /\ \A i \in DOMAIN rest : \E j \in DOMAIN batch[l] : rest[i].nr = batch[l][j].nr
<1>a. PICK q : q = batch[l]
  OBVIOUS
<1>b. PICK rest : rest = Rest(l, to)
  OBVIOUS
<1>1. /\ q \in Seq(PacketsOf(l)) /\ Len(q) \in Nat \ {0} /\ DOMAIN q = 1..Len(q)
      /\ Head(q) = q[1] /\ 1 \in DOMAIN q
  BY <1>a, ListenerFacts
<1>2. \A i \in DOMAIN q : q[i] \in PacketsOf(l) /\ q[i].nr \in Nat
  <2>1. \A i \in DOMAIN q : q[i] \in PacketsOf(l)
    BY <1>1
  <2>2. QED
    BY <2>1, PacketFacts
<1>3. \A i, j \in DOMAIN q : i < j => q[i].nr < q[j].nr
  BY <1>a DEF Rising
<1>4. Head(q).nr \in Nrs(q) /\ Head(q).nr \in Nat
  BY <1>1, <1>2 DEF Nrs
<1>5. \A i \in DOMAIN q : Head(q).nr <= q[i].nr
  <2>1. ASSUME NEW i \in DOMAIN q PROVE q[1].nr <= q[i].nr
    <3>1. i = 1 \/ 1 < i
      BY <1>1, <2>1
    <3>2. QED
      BY <1>1, <1>2, <1>3, <3>1
  <2>2. QED
    BY <1>1, <2>1
<1>6. CASE to = {}
  <2>1. /\ DOMAIN rest = 1..Len(q) - 1
        /\ \A i \in 1..Len(q) - 1 : i + 1 \in DOMAIN q /\ rest[i] = q[i + 1]
    BY <1>1, <1>6, <1>a, <1>b DEF Rest
  <2>2. \A i \in DOMAIN rest : \E j \in DOMAIN q : rest[i].nr = q[j].nr
    BY <2>1
  <2>3. ASSUME NEW i \in DOMAIN rest, NEW j \in DOMAIN rest, i < j
        PROVE  rest[i].nr < rest[j].nr
    <3>1. i + 1 < j + 1 /\ i + 1 \in DOMAIN q /\ j + 1 \in DOMAIN q
      BY <2>1, <2>3
    <3>2. q[i + 1].nr < q[j + 1].nr
      BY <1>3, <3>1
    <3>3. QED
      BY <2>1, <2>3, <3>2
  <2>4. QED
    BY <1>4, <1>5, <1>a, <1>b, <2>2, <2>3 DEF Rising, Nrs
<1>7. CASE to # {}
  <2>1. q[1] \in PacketsOf(l)
    BY <1>1
  <2>2. /\ DOMAIN rest = DOMAIN q /\ rest[1] = [q[1] EXCEPT !.to = to]
        /\ \A i \in DOMAIN q : i # 1 => rest[i] = q[i]
    BY <1>1, <1>7, <1>a, <1>b DEF Rest
  <2>3. rest[1].nr = q[1].nr
    BY <2>1, <2>2 DEF PacketsOf, Packet
  <2>4. \A i \in DOMAIN q : rest[i].nr = q[i].nr
    BY <2>2, <2>3
  <2>5. QED
    BY <1>3, <1>4, <1>5, <1>a, <1>b, <2>2, <2>4 DEF Rising, Nrs
<1>8. QED
  BY <1>6, <1>7

LEMMA OrderSkip ==
  ASSUME PipelineOK, OrderOK, NEW l \in Listeners, SkipUnmatched(l),
         UNCHANGED <<fate, shred_q, shreds, receipts>>
  PROVE  OrderOK'
<1>a. PICK rest : rest = Rest(l, {})
  OBVIOUS
<1>1. /\ batch[l] # <<>> /\ ListenersOK
      /\ inbox' = [inbox EXCEPT ![l] = inbox[l]] /\ batch' = [batch EXCEPT ![l] = rest]
  BY <1>a, ListenerFacts DEF SkipUnmatched, Forwarded, Rest, PipelineOK
<1>2. /\ Rising(inbox[l]) /\ Rising(batch[l])
      /\ \A x \in Nrs(batch[l]), y \in Nrs(inbox[l]) : x < y
  BY DEF OrderOK, LinesRise
<1>3. /\ Rising(rest) /\ Nrs(rest) \subseteq Nrs(batch[l])
      /\ \A i \in DOMAIN rest : \E j \in DOMAIN batch[l] : rest[i].nr = batch[l][j].nr
  BY <1>1, <1>2, <1>a, RestRises
<1>4. \A e : Passed(e, l) =>
        /\ \A i \in DOMAIN rest : e.nr <= rest[i].nr
        /\ \A y \in Nrs(inbox[l]) : e.nr < y
  BY <1>3 DEF Passed
<1>5. \A x \in Nrs(rest), y \in Nrs(inbox[l]) : x < y
  BY <1>2, <1>3
<1>6. QED
  BY <1>1, <1>2, <1>3, <1>4, <1>5, OrderMoves

(* A packet is forwarded behind every event its source has sent. *)
LEMMA OrderForward ==
  ASSUME PipelineOK, EventsOK, BooksAgree, OrderOK, NEW l \in Listeners,
         NEW source \in Sources, Forward(l, source)
  PROVE  OrderOK'
<1>a. PICK packet : packet = Head(batch[l])
  OBVIOUS
<1>b. PICK event :
        event = [source |-> source, key |-> packet.key, nr |-> packet.nr,
                 received_at |-> packet.at]
  OBVIOUS
<1>c. PICK to : to = packet.to \ {source}
  OBVIOUS
<1>d. PICK rest : rest = Rest(l, to)
  OBVIOUS
<1>1. /\ listener[l] = "forwarding" /\ source \in packet.to /\ packet.at # NoStamp
      /\ shred_q' = Append(shred_q, event) \/ shred_q' = shred_q
      /\ UNCHANGED <<shreds, receipts>> /\ DOMAIN fate' = DOMAIN fate \cup {event}
      /\ inbox' = [inbox EXCEPT ![l] = inbox[l]] /\ batch' = [batch EXCEPT ![l] = rest]
  BY <1>a, <1>b, <1>c, <1>d, ListenerFacts
     DEF Forward, Forwarded, Rest, SetFate, R!Put, R!Drop, registryVars, PipelineOK
<1>2. /\ ListenersOK /\ batch[l] # <<>> /\ packet \in PacketsOf(l)
      /\ 1 \in DOMAIN batch[l] /\ batch[l][1] = packet
      /\ shred_q \in Seq(Delivery)
  BY <1>1, <1>a, ListenerFacts, QueueFacts DEF PipelineOK, ChannelsOK
<1>3. event \in Delivery /\ event.nr = packet.nr /\ event.source = source
  BY <1>1, <1>2, <1>b, PacketFacts DEF Delivery
<1>4. to \in SUBSET Head(batch[l]).to /\ source \in Routes[l]
  BY <1>1, <1>2, <1>a, <1>c, PacketFacts
<1>5. /\ Rising(inbox[l]) /\ Rising(batch[l])
      /\ \A x \in Nrs(batch[l]), y \in Nrs(inbox[l]) : x < y
  BY DEF OrderOK, LinesRise
<1>6. /\ Rising(rest) /\ Nrs(rest) \subseteq Nrs(batch[l])
      /\ packet.nr \in Nrs(batch[l]) /\ packet.nr \in Nat
      /\ \A i \in DOMAIN batch[l] : packet.nr <= batch[l][i].nr
      /\ \A i \in DOMAIN rest : \E j \in DOMAIN batch[l] : rest[i].nr = batch[l][j].nr
  BY <1>2, <1>4, <1>5, <1>a, <1>d, RestRises
<1>7. \A m \in Listeners : /\ inbox'[m] = inbox[m]
                           /\ batch'[m] = IF m = l THEN rest ELSE batch[m]
  BY <1>1, <1>2 DEF ListenersOK
<1>8. LinesRise'
  <2>1. ASSUME NEW m \in Listeners
        PROVE  /\ Rising(inbox'[m]) /\ Rising(batch'[m])
               /\ \A x \in Nrs(batch'[m]), y \in Nrs(inbox'[m]) : x < y
    BY <1>5, <1>6, <1>7 DEF OrderOK, LinesRise
  <2>2. QED
    BY <2>1 DEF LinesRise, Rising, Nrs
<1>9. SentFirst'
  <2>1. ASSUME NEW e \in DOMAIN fate', NEW m \in Listeners, e \in Delivery,
               Sole(e.source, m)
        PROVE  /\ \A i \in DOMAIN batch'[m] : e.nr <= batch'[m][i].nr
               /\ \A y \in Nrs(inbox'[m]) : e.nr < y
    <3>1. CASE e = event
      <4>1. m = l
        BY <1>3, <1>4, <2>1, <3>1 DEF Sole
      <4>2. \A i \in DOMAIN rest : packet.nr <= rest[i].nr
        BY <1>6
      <4>3. \A y \in Nrs(inbox[l]) : packet.nr < y
        BY <1>5, <1>6
      <4>4. QED
        BY <1>3, <1>7, <3>1, <4>1, <4>2, <4>3
    <3>2. CASE e \in DOMAIN fate
      <4>1. /\ \A i \in DOMAIN batch[m] : e.nr <= batch[m][i].nr
            /\ \A y \in Nrs(inbox[m]) : e.nr < y
        BY <2>1, <3>2 DEF OrderOK, SentFirst, Passed
      <4>2. \A i \in DOMAIN rest : \E j \in DOMAIN batch[l] : rest[i].nr = batch[l][j].nr
        BY <1>6
      <4>3. QED
        BY <1>7, <4>1, <4>2
    <3>3. QED
      BY <1>1, <2>1, <3>1, <3>2
  <2>2. QED
    BY <2>1 DEF SentFirst, Passed, Sole, Nrs
<1>10. ASSUME NEW e \in DOMAIN fate, e \in Delivery, e.source = source, HasSole(source)
       PROVE  e.nr < packet.nr
  <2>1. PICK m \in Listeners : Sole(source, m)
    BY <1>10 DEF HasSole
  <2>2. m = l
    BY <1>4, <2>1 DEF Sole
  <2>3. Passed(e, l) /\ Unserved(e, l)
    BY <1>10, <2>1, <2>2 DEF OrderOK, SentFirst, EventsOK, SentOK
  <2>4. e.nr <= packet.nr /\ e.nr # packet.nr
    BY <1>1, <1>2, <1>10, <2>3 DEF Passed, Unserved
  <2>5. e.nr \in Nat
    BY <1>10 DEF Delivery
  <2>6. QED
    BY <1>6, <2>4, <2>5
<1>11. /\ \A i \in DOMAIN shred_q : shred_q[i] \in DOMAIN fate /\ shred_q[i] \in Delivery
       /\ ShredsBooked \subseteq DOMAIN fate
  <2>1. \A i \in DOMAIN shred_q : shred_q[i] \in Queued /\ shred_q[i] \in Delivery
    BY <1>2 DEF Queued, Elems
  <2>2. Queued \subseteq DOMAIN fate
    BY DEF EventsOK, QueuesOK
  <2>3. ShredsBooked \subseteq DOMAIN fate
    BY DEF BooksAgree, ShredEvents, Events
  <2>4. QED
    BY <2>1, <2>2, <2>3
<1>12. \A e \in ShredsBooked : e \in Delivery
  BY <1>11, ShredsByKey DEF BooksAgree, ShredEvents, EventsOK, SentOK
<1>13. ShredsBooked' = ShredsBooked /\ RecordsRise'
  BY <1>1 DEF ShredsBooked, Elems, OrderOK, RecordsRise
<1>14. QueueRises' /\ BookedFirst'
  <2>1. CASE shred_q' = shred_q
    BY <1>13, <2>1 DEF OrderOK, QueueRises, BookedFirst
  <2>2. CASE shred_q' = Append(shred_q, event)
    <3>1. /\ DOMAIN shred_q = 1..Len(shred_q) /\ Len(shred_q) \in Nat
          /\ DOMAIN shred_q' = 1..Len(shred_q) + 1 /\ shred_q'[Len(shred_q) + 1] = event
          /\ \A i \in 1..Len(shred_q) : shred_q'[i] = shred_q[i]
      BY <1>2, <1>3, <2>2
    <3>2. ASSUME NEW i \in DOMAIN shred_q', NEW j \in DOMAIN shred_q', i < j,
                 shred_q'[i].source = shred_q'[j].source, HasSole(shred_q'[i].source)
          PROVE  shred_q'[i].nr < shred_q'[j].nr
      <4>1. i \in DOMAIN shred_q /\ shred_q'[i] = shred_q[i]
        BY <3>1, <3>2
      <4>2. CASE j \in DOMAIN shred_q
        BY <3>1, <3>2, <4>1, <4>2 DEF OrderOK, QueueRises
      <4>3. CASE j \notin DOMAIN shred_q
        <5>1. shred_q'[j] = event
          BY <3>1, <4>3
        <5>2. QED
          BY <1>3, <1>10, <1>11, <3>2, <4>1, <5>1
      <4>4. QED
        BY <4>2, <4>3
    <3>3. ASSUME NEW e \in ShredsBooked, NEW i \in DOMAIN shred_q',
                 e.source = shred_q'[i].source, HasSole(e.source)
          PROVE  e.nr < shred_q'[i].nr
      <4>1. CASE i \in DOMAIN shred_q
        BY <3>1, <3>3, <4>1 DEF OrderOK, BookedFirst
      <4>2. CASE i \notin DOMAIN shred_q
        <5>1. shred_q'[i] = event
          BY <3>1, <4>2
        <5>2. QED
          BY <1>3, <1>10, <1>11, <1>12, <3>3, <5>1
      <4>3. QED
        BY <4>1, <4>2
    <3>4. QED
      BY <1>13, <3>2, <3>3 DEF QueueRises, BookedFirst, HasSole, Sole
  <2>3. QED
    BY <1>1, <2>1, <2>2
<1>15. QED
  BY <1>8, <1>9, <1>13, <1>14 DEF OrderOK

LEMMA OrderTake ==
  ASSUME PipelineOK, EventsOK, OrderOK, TakeShred, UNCHANGED <<inbox, batch>>
  PROVE  OrderOK'
<1>a. PICK event : event = Head(shred_q)
  OBVIOUS
<1>1. /\ shred_q # <<>> /\ shred_q' = Tail(shred_q)
      /\ Record(event) \/ UNCHANGED registryVars
      /\ DOMAIN fate' = DOMAIN fate \cup {event}
  BY <1>a DEF TakeShred, Record, SetFate, R!Put
<1>2. shred_q \in Seq(Delivery) /\ event \in Delivery
  BY <1>1, <1>a, QueueFacts DEF PipelineOK, ChannelsOK
<1>3. /\ Len(shred_q) \in Nat \ {0} /\ DOMAIN shred_q = 1..Len(shred_q)
      /\ 1 \in DOMAIN shred_q /\ event = shred_q[1]
      /\ DOMAIN shred_q' = 1..Len(shred_q) - 1
      /\ \A i \in 1..Len(shred_q) - 1 : i + 1 \in DOMAIN shred_q /\ shred_q'[i] = shred_q[i + 1]
  BY <1>1, <1>2, <1>a
<1>4. event \in DOMAIN fate
  <2>1. event \in Queued
    BY <1>3 DEF Queued, Elems
  <2>2. QED
    BY <2>1 DEF EventsOK, QueuesOK
<1>5. LinesRise' /\ SentFirst'
  <2>1. DOMAIN fate' = DOMAIN fate
    BY <1>1, <1>4
  <2>2. LinesRise'
    BY DEF OrderOK, LinesRise, Rising, Nrs
  <2>3. SentFirst'
    BY <2>1 DEF OrderOK, SentFirst, Passed, Sole, Nrs
  <2>4. QED
    BY <2>2, <2>3
<1>6. QueueRises'
  <2>1. ASSUME NEW i \in DOMAIN shred_q', NEW j \in DOMAIN shred_q', i < j,
               shred_q'[i].source = shred_q'[j].source, HasSole(shred_q'[i].source)
        PROVE  shred_q'[i].nr < shred_q'[j].nr
    <3>1. /\ i + 1 \in DOMAIN shred_q /\ j + 1 \in DOMAIN shred_q /\ i + 1 < j + 1
          /\ shred_q'[i] = shred_q[i + 1] /\ shred_q'[j] = shred_q[j + 1]
      BY <1>3, <2>1
    <3>2. QED
      BY <2>1, <3>1 DEF OrderOK, QueueRises
  <2>2. QED
    BY <2>1 DEF QueueRises, HasSole, Sole
<1>7. \A i \in DOMAIN shred_q' :
        event.source = shred_q'[i].source /\ HasSole(event.source)
          => event.nr < shred_q'[i].nr
  <2>1. ASSUME NEW i \in DOMAIN shred_q', event.source = shred_q'[i].source,
               HasSole(event.source)
        PROVE  event.nr < shred_q'[i].nr
    <3>1. i + 1 \in DOMAIN shred_q /\ 1 < i + 1 /\ shred_q'[i] = shred_q[i + 1]
      BY <1>3, <2>1
    <3>2. QED
      BY <1>3, <2>1, <3>1 DEF OrderOK, QueueRises
  <2>2. QED
    BY <2>1
<1>8. ShredsBooked' \subseteq ShredsBooked \cup {event}
  <2>1. CASE Record(event)
    BY <1>2, <2>1, ShredIsBooked DEF EventsOK
  <2>2. CASE UNCHANGED registryVars
    BY <2>2 DEF registryVars, ShredsBooked, Elems
  <2>3. QED
    BY <1>1, <2>1, <2>2
<1>9. BookedFirst'
  <2>1. ASSUME NEW e \in ShredsBooked', NEW i \in DOMAIN shred_q',
               e.source = shred_q'[i].source, HasSole(e.source)
        PROVE  e.nr < shred_q'[i].nr
    <3>1. CASE e = event
      BY <1>7, <2>1, <3>1
    <3>2. CASE e \in ShredsBooked
      BY <1>3, <2>1, <3>2 DEF OrderOK, BookedFirst
    <3>3. QED
      BY <1>8, <2>1, <3>1, <3>2
  <2>2. QED
    BY <2>1 DEF BookedFirst, HasSole, Sole
<1>10. RecordsRise'
  <2>1. CASE UNCHANGED registryVars
    BY <2>1 DEF registryVars, OrderOK, RecordsRise, HasSole, Sole
  <2>2. CASE Record(event)
    <3>a. PICK key : key = event.key
      OBVIOUS
    <3>b. PICK n : n = Arrived(event.key)
      OBVIOUS
    <3>1. /\ n \in Nat /\ DOMAIN shreds' = DOMAIN shreds \cup {key}
          /\ \A k \in DOMAIN shreds :
               k # key => shreds'[k] = shreds[k] /\ receipts'[k] = receipts[k]
          /\ DOMAIN shreds'[key].arrivals = 1..n + 1
          /\ shreds'[key].arrivals[n + 1] = [source |-> event.source, at |-> event.received_at]
          /\ receipts'[key][n + 1] = event.nr
          /\ \A i \in 1..n : /\ key \in DOMAIN shreds /\ i \in DOMAIN shreds[key].arrivals
                             /\ shreds'[key].arrivals[i] = shreds[key].arrivals[i]
                             /\ receipts'[key][i] = receipts[key][i]
      BY <1>2, <2>2, <3>a, <3>b, RecordFacts DEF EventsOK
    <3>2. shreds'[key].arrivals[n + 1].source = event.source
      BY <3>1
    <3>3. ASSUME NEW k \in DOMAIN shreds',
                 NEW i \in DOMAIN shreds'[k].arrivals, NEW j \in DOMAIN shreds'[k].arrivals,
                 i < j, shreds'[k].arrivals[i].source = shreds'[k].arrivals[j].source,
                 HasSole(shreds'[k].arrivals[i].source)
          PROVE  receipts'[k][i] < receipts'[k][j]
      <4>1. CASE k # key
        BY <3>1, <3>3, <4>1 DEF OrderOK, RecordsRise
      <4>2. CASE k = key
        <5>1. i \in 1..n /\ (j \in 1..n \/ j = n + 1)
          BY <3>1, <3>3, <4>2
        <5>2. /\ key \in DOMAIN shreds /\ i \in DOMAIN shreds[key].arrivals
              /\ shreds'[key].arrivals[i] = shreds[key].arrivals[i]
              /\ receipts'[key][i] = receipts[key][i]
          BY <3>1, <5>1
        <5>3. CASE j \in 1..n
          <6>1. /\ j \in DOMAIN shreds[key].arrivals
                /\ shreds'[key].arrivals[j] = shreds[key].arrivals[j]
                /\ receipts'[key][j] = receipts[key][j]
            BY <3>1, <5>3
          <6>2. QED
            BY <3>3, <4>2, <5>2, <6>1 DEF OrderOK, RecordsRise
        <5>4. CASE j = n + 1
          <6>a. PICK e : e = Delivered(key, i)
            OBVIOUS
          <6>1. e.source = shreds[key].arrivals[i].source /\ e.nr = receipts[key][i]
            BY <6>a DEF Delivered
          <6>2. e \in ShredsBooked
            BY <5>2, <6>a, BookedFacts
          <6>3. e.source = event.source /\ HasSole(e.source)
            BY <3>2, <3>3, <4>2, <5>2, <5>4, <6>1
          <6>4. e.nr < event.nr
            BY <1>3, <6>2, <6>3 DEF OrderOK, BookedFirst
          <6>5. QED
            BY <3>1, <4>2, <5>2, <5>4, <6>1, <6>4
        <5>5. QED
          BY <5>1, <5>3, <5>4
      <4>3. QED
        BY <4>1, <4>2
    <3>4. QED
      BY <3>3 DEF RecordsRise, HasSole, Sole
  <2>3. QED
    BY <1>1, <2>1, <2>2
<1>11. QED
  BY <1>5, <1>6, <1>9, <1>10 DEF OrderOK

LEMMA OrderStill ==
  ASSUME OrderOK, UNCHANGED <<inbox, batch, shred_q, shreds, receipts>>,
         \A e \in DOMAIN fate' : e \in DOMAIN fate \/ e \notin Delivery
  PROVE  OrderOK'
<1>1. LinesRise'
  BY DEF OrderOK, LinesRise, Rising, Nrs
<1>2. SentFirst'
  BY DEF OrderOK, SentFirst, Passed, Sole, Nrs
<1>3. ShredsBooked' = ShredsBooked
  BY DEF ShredsBooked, Elems
<1>4. QueueRises' /\ BookedFirst' /\ RecordsRise'
  BY <1>3 DEF OrderOK, QueueRises, BookedFirst, RecordsRise, HasSole, Sole
<1>5. QED
  BY <1>1, <1>2, <1>4 DEF OrderOK

LEMMA OrderListens ==
  ASSUME PipelineOK, EventsOK, BooksAgree, OrderOK, NEW l \in Listeners, Listen(l)
  PROVE  OrderOK'
<1>1. ListenerStep(l)
  BY DEF Listen
<1>2. CASE /\ Bind(l) \/ Configure(l) \/ Poll(l) \/ ReceiveNothing(l)
           /\ UNCHANGED <<shred_q, registryVars, fate>>
  BY <1>2, OrderStill DEF Bind, Configure, Poll, ReceiveNothing, registryVars
<1>3. CASE SkipUnmatched(l) /\ UNCHANGED <<shred_q, registryVars, fate>>
  BY <1>3, OrderSkip DEF registryVars
<1>4. CASE Receive(l) /\ UNCHANGED <<shred_q, registryVars, fate>>
  BY <1>4, OrderReceive DEF registryVars
<1>5. CASE ReadClock(l) /\ UNCHANGED <<shred_q, registryVars, fate>>
  BY <1>5, OrderRead DEF registryVars
<1>6. ASSUME NEW source \in Sources, Forward(l, source) PROVE OrderOK'
  BY <1>6, OrderForward
<1>7. QED
  BY <1>1, <1>2, <1>3, <1>4, <1>5, <1>6 DEF ListenerStep

LEMMA OrderTasks ==
  ASSUME PipelineOK, OrderOK, Tasks
  PROVE  OrderOK'
<1>1. CASE UNCHANGED <<inbox, batch, channelVars, registryVars, fate>>
  BY <1>1, OrderStill DEF channelVars, registryVars
<1>2. ASSUME NEW t \in Streams, NEW source \in Sources, NEW slot \in Slots,
             NEW sampled \in BOOLEAN, Update(t, source, slot, sampled),
             UNCHANGED <<listenerVars, shred_q>>
      PROVE  OrderOK'
  <2>a. PICK event : event = [source |-> source, slot |-> slot, received_at |-> clock']
    OBVIOUS
  <2>b. PICK sample : sample = [source |-> source, sampled_at |-> clock']
    OBVIOUS
  <2>1. UNCHANGED <<shreds, receipts>> /\ DOMAIN fate' \subseteq DOMAIN fate \cup {event, sample}
    BY <1>2, <2>a, <2>b DEF Update
  <2>2. clock' \in Nat
    BY <1>2, UpdateFacts
  <2>3. event \in R!SlotEvent /\ sample \in Sample
    BY <2>2, <2>a, <2>b DEF R!SlotEvent, Sample
  <2>4. event \notin Delivery /\ sample \notin Delivery
    BY <2>3, KindsDiffer
  <2>5. QED
    BY <1>2, <2>1, <2>4, OrderStill DEF listenerVars
<1>3. QED
  BY <1>1, <1>2 DEF Tasks

LEMMA OrderAggregate ==
  ASSUME PipelineOK, EventsOK, OrderOK, Aggregate
  PROVE  OrderOK'
<1>1. UNCHANGED <<inbox, batch>>
  BY DEF Aggregate, listenerVars
<1>2. CASE TakeShred
  BY <1>1, <1>2, OrderTake
<1>3. CASE TakeSlotEvent
  <2>1. UNCHANGED <<shreds, receipts, shred_q>>
    BY <1>3 DEF TakeSlotEvent, R!RecordSlotEvent, registryVars
  <2>2. Head(slot_q) \in R!SlotEvent /\ DOMAIN fate' = DOMAIN fate \cup {Head(slot_q)}
    BY <1>3, QueueFacts DEF TakeSlotEvent, SetFate, R!Put, PipelineOK, ChannelsOK
  <2>3. QED
    BY <1>1, <2>1, <2>2, OrderStill, KindsDiffer
<1>4. CASE TakeSample
  <2>1. UNCHANGED <<shreds, receipts, shred_q>>
    BY <1>4 DEF TakeSample, R!RecordGrpcLatency
  <2>2. Head(grpc_q) \in Sample /\ DOMAIN fate' = DOMAIN fate \cup {Head(grpc_q)}
    BY <1>4, QueueFacts DEF TakeSample, SetFate, R!Put, PipelineOK, ChannelsOK
  <2>3. QED
    BY <1>1, <2>1, <2>2, OrderStill, KindsDiffer
<1>5. CASE AggregatorBreaks
  BY <1>1, <1>5, OrderStill DEF AggregatorBreaks, channelVars, registryVars
<1>6. QED
  BY <1>2, <1>3, <1>4, <1>5 DEF Aggregate

LEMMA OrderStep ==
  PipelineOK /\ EventsOK /\ BooksAgree /\ OrderOK /\ [Next]_vars => OrderOK'
<1> SUFFICES ASSUME PipelineOK, EventsOK, BooksAgree, OrderOK, [Next]_vars PROVE OrderOK'
  OBVIOUS
<1>1. ASSUME NEW l \in Listeners, Listen(l) PROVE OrderOK'
  BY <1>1, OrderListens
<1>2. CASE Traffic
  <2>1. PICK l \in Listeners : PacketArrives(l)
    BY <1>2 DEF Traffic
  <2>2. UNCHANGED <<fate, shred_q, shreds, receipts>>
    BY <1>2 DEF Traffic, channelVars, registryVars
  <2>3. QED
    BY <2>1, <2>2, OrderArrival
<1>3. CASE Tasks
  BY <1>3, OrderTasks
<1>4. CASE Aggregate
  BY <1>4, OrderAggregate
<1>5. CASE UNCHANGED <<listenerVars, channelVars, registryVars, fate>>
  BY <1>5, OrderStill DEF listenerVars, channelVars, registryVars
<1>6. CASE Finish \/ Control(Timers) \/ Control(Main) \/ UNCHANGED vars
  BY <1>5, <1>6 DEF Finish, Control, vars
<1>7. QED
  BY <1>1, <1>2, <1>3, <1>4, <1>6 DEF Next

LEMMA OneListener ==
  ASSUME NEW source, Cardinality({l \in Listeners : source \in Routes[l]}) = 1
  PROVE  HasSole(source)
<1>1. IsFiniteSet({l \in Listeners : source \in Routes[l]})
  BY PipelineAssumption, FS_Subset
<1>2. PICK l : {m \in Listeners : source \in Routes[m]} = {l}
  BY <1>1, FS_Singleton
<1>3. QED
  BY <1>2 DEF HasSole, Sole

(* raw_udp.rs 92-100, pcap.rs 298-314, kernel_ts.rs 117-273, registry.rs   *)
(* 111-120: for any batches, capacities and steps of CLOCK_REALTIME, and   *)
(* whatever is dropped in between, the arrivals that one listener          *)
(* delivered for a source are recorded in the order in which the kernel    *)
(* received their packets, also those that carry no timestamp.             *)
THEOREM SourcesInOrder == Safety => []SourceOrder
<1>1. LedgerStep => FateStep
  BY DEF LedgerStep
<1>2. OrderOK => SourceOrder
  BY OneListener DEF OrderOK, RecordsRise, SourceOrder
<1>3. QED
  BY <1>1, <1>2, PipelineInit, StepKeeps, EventsInit, EventsStep, BooksInit,
     FatesAgree, OrderInit, OrderStep, PTL DEF Safety

-----------------------------------------------------------------------------
(* The types of the run.  The control plane: the monitor stops at its      *)
(* limit, so the silent seconds never pass it.                             *)

ControlOK == ControlTypeOK /\ (monitor # "stopped" => silent_secs < SilenceLimit)

LEMMA SilenceFacts == SilenceLimit \in Nat \ {0} /\ SilenceTimeout <= SilenceLimit
BY TimeAssumption DEF SilenceLimit

LEMMA ControlStarts == ControlInit => ControlOK
<1> SUFFICES ASSUME ControlInit PROVE ControlOK
  OBVIOUS
<1> USE SilenceFacts, TimeAssumption
<1>1. ControlFlags
  BY Zenon DEF ControlInit, ControlFlags
<1>2. QED
  BY <1>1 DEF ControlInit, ControlOK, ControlTypeOK, Off, Arm, TimedRun

LEMMA HandlersKeepControl ==
  ASSUME ControlOK, NEW slot \in Slots, HandleShred(slot) \/ HandleSlotEvent(slot)
  PROVE  ControlOK'
<1> USE SilenceFacts, TimeAssumption
<1>1. ControlFlags'
  BY Zenon DEF ControlOK, ControlTypeOK, ControlFlags, HandleShred, HandleSlotEvent,
       BeforeStart, StartMissed, PastEnd, WithinRange, SetActivity, Unmoved, Cancel
<1>2. UNCHANGED <<silent_secs, monitor, duration, main>>
  BY DEF HandleShred, HandleSlotEvent
<1>3. grace' \in {grace, Arm(GraceSecs)}
  BY DEF HandleShred, HandleSlotEvent, BeforeStart, StartMissed, PastEnd, WithinRange, Unmoved
<1>4. QED
  BY <1>1, <1>2, <1>3 DEF ControlOK, ControlTypeOK, Arm

LEMMA TimersKeepControl ==
  ASSUME ControlOK, Timers
  PROVE  ControlOK'
<1> USE SilenceFacts, TimeAssumption
<1>1. ControlFlags'
  BY Zenon DEF ControlOK, ControlTypeOK, ControlFlags, Timers, Monitor, MonitorStops,
       MonitorSeesActivity, MonitorCountsSilence, GraceExpires, Tick, Cancel, window
<1>2. CASE MonitorStops \/ MonitorSeesActivity
  BY <1>1, <1>2 DEF ControlOK, ControlTypeOK, MonitorStops, MonitorSeesActivity, timers
<1>3. CASE MonitorCountsSilence
  <2>1. /\ UNCHANGED <<grace, duration, main>>
        /\ silent_secs' = silent_secs + 1 /\ silent_secs < SilenceLimit
        /\ \/ monitor' = "stopped"
           \/ monitor' = "asleep" /\ ~(silent_secs + 1 >= SilenceTimeout)
    BY <1>3 DEF ControlOK, ControlTypeOK, MonitorCountsSilence, timers
  <2>2. silent_secs' \in 0..SilenceLimit
    BY <2>1 DEF ControlOK, ControlTypeOK
  <2>3. monitor' # "stopped" => silent_secs' < SilenceLimit
    BY <2>1 DEF ControlOK, ControlTypeOK
  <2>4. QED
    BY <1>1, <2>1, <2>2, <2>3 DEF ControlOK, ControlTypeOK
<1>4. CASE GraceExpires
  BY <1>1, <1>4 DEF ControlOK, ControlTypeOK, GraceExpires, Off
<1>5. CASE Tick
  <2>1. /\ UNCHANGED <<silent_secs, main>>
        /\ grace' = Elapse(grace) /\ duration' = Elapse(duration)
        /\ monitor' = IF monitor = "asleep" THEN "due" ELSE monitor
    BY <1>5 DEF Tick
  <2>2. QED
    BY <1>1, <2>1 DEF ControlOK, ControlTypeOK, Elapse, Due
<1>6. QED
  BY <1>2, <1>3, <1>4, <1>5 DEF Timers, Monitor

LEMMA ControlStays ==
  ASSUME ControlOK, UNCHANGED controlVars
  PROVE  ControlOK'
<1>1. UNCHANGED <<cancelled, activity, silent_secs, monitor, range_end_triggered,
                  start_slot_checked, grace, duration, main>>
  BY DEF controlVars, window, timers
<1>2. QED
  BY <1>1 DEF ControlOK, ControlTypeOK, ControlFlags

LEMMA ControlKept == ControlOK /\ [ControlNext]_controlVars => ControlOK'
<1> SUFFICES ASSUME ControlOK, [ControlNext]_controlVars PROVE ControlOK'
  OBVIOUS
<1>1. CASE Main
  <2>1. ControlFlags'
    BY <1>1, Zenon DEF Main, DurationElapses, ObserveCancellation, CtrlC, Wake, Cancel,
         ControlOK, ControlTypeOK, ControlFlags, window
  <2>2. /\ UNCHANGED <<silent_secs, monitor, grace>>
        /\ main' = "stopping" /\ duration' = 0
    BY <1>1 DEF Main, DurationElapses, ObserveCancellation, CtrlC, Wake, Off
  <2>3. QED
    BY <2>1, <2>2, TimeAssumption DEF ControlOK, ControlTypeOK
<1>2. QED
  BY <1>1, HandlersKeepControl, TimersKeepControl, ControlStays DEF ControlNext

LEMMA ControlHolds == ControlSafety => []ControlOK
BY ControlStarts, ControlKept, PTL DEF ControlSafety

-----------------------------------------------------------------------------
(* The phases of the threads and tasks.  Only a thread that forwards holds *)
(* packets, so a direct-mode listener is fresh when it is spawned.         *)

HoldersForward ==
  \A l \in Listeners : /\ batch[l] # <<>> => listener[l] = "forwarding"
                       /\ Len(batch[l]) <= BatchSize[l]

SpawnedOnce == direct = "connecting" => \A l \in DirectListeners : listener[l] = "absent"

StagesOK ==
  /\ stream \in [Streams -> {"waiting", "connecting", "streaming", "stopped"}]
  /\ direct \in {"connecting", "heartbeating", "stopped"}
  /\ agg \in {"running", "stopped"}
  /\ held \in BOOLEAN /\ report \in {"pending", "done", "exited"}

PhasesOK == HoldersForward /\ SpawnedOnce /\ StagesOK

LEMMA PhasesStart == Init => PhasesOK
<1> SUFFICES ASSUME Init PROVE PhasesOK
  OBVIOUS
<1>1. HoldersForward
  BY SettingsFacts DEF Init, HoldersForward
<1>2. SpawnedOnce
  BY PipelineAssumption DEF Init, SpawnedOnce
<1>3. StagesOK
  BY DEF Init, StagesOK
<1>4. QED
  BY <1>1, <1>2, <1>3 DEF PhasesOK

LEMMA ListenerPhase ==
  ASSUME ListenersOK, HoldersForward, SpawnedOnce, NEW l \in Listeners,
         NEW state, NEW taken, Len(taken) <= BatchSize[l],
         listener[l] # "absent", taken # <<>> => state = "forwarding",
         listener' = [listener EXCEPT ![l] = state], batch' = [batch EXCEPT ![l] = taken],
         direct' = direct
  PROVE  HoldersForward' /\ SpawnedOnce'
<1>1. /\ listener'[l] = state /\ batch'[l] = taken
      /\ \A m \in Listeners : m # l => listener'[m] = listener[m] /\ batch'[m] = batch[m]
  BY DEF ListenersOK
<1>2. HoldersForward'
  BY <1>1 DEF HoldersForward
<1>3. SpawnedOnce'
  BY <1>1, PipelineAssumption DEF SpawnedOnce
<1>4. QED
  BY <1>2, <1>3

LEMMA ForwardedPhase ==
  ASSUME ListenersOK, HoldersForward, SpawnedOnce, NEW l \in Listeners,
         listener[l] = "forwarding", NEW to, Forwarded(l, to), direct' = direct
  PROVE  HoldersForward' /\ SpawnedOnce'
<1>1. batch[l] \in Seq(PacketsOf(l)) /\ batch[l] # <<>> /\ Len(batch[l]) <= BatchSize[l]
  BY ListenerFacts DEF HoldersForward
<1>2. Len(Rest(l, to)) <= BatchSize[l]
  <2>1. Len(Tail(batch[l])) <= Len(batch[l]) /\ Len([batch[l] EXCEPT ![1].to = to]) = Len(batch[l])
    BY <1>1
  <2>2. Len(batch[l]) \in Nat /\ Len(Tail(batch[l])) \in Nat /\ BatchSize[l] \in Nat
    BY <1>1, SettingsFacts
  <2>3. QED
    BY <1>1, <2>1, <2>2 DEF Rest
<1>3. /\ batch' = [batch EXCEPT ![l] = Rest(l, to)]
      /\ listener' = [listener EXCEPT ![l] = IF Rest(l, to) = <<>> THEN "polling"
                                                                   ELSE "forwarding"]
  BY DEF Forwarded, Rest
<1>4. QED
  BY <1>2, <1>3, ListenerPhase

LEMMA ListenPhases ==
  ASSUME PipelineOK, PhasesOK, NEW l \in Listeners, Listen(l)
  PROVE  PhasesOK'
<1>1. ListenersOK /\ HoldersForward /\ SpawnedOnce /\ batch[l] \in Seq(PacketsOf(l))
      /\ batch = [batch EXCEPT ![l] = batch[l]] /\ Len(batch[l]) <= BatchSize[l]
  BY ListenerFacts DEF PipelineOK, PhasesOK, HoldersForward
<1>2. UNCHANGED <<stream, direct, agg, held, report>>
  BY DEF Listen, taskVars, mainVars
<1>3. HoldersForward' /\ SpawnedOnce'
  <2>1. CASE Bind(l) \/ Configure(l) \/ Poll(l) \/ ReceiveNothing(l)
    <3>1. /\ listener[l] # "absent" /\ listener[l] # "forwarding" /\ batch' = batch
          /\ \E state : listener' = [listener EXCEPT ![l] = state]
      BY <2>1 DEF Bind, Configure, Poll, ReceiveNothing
    <3>2. batch[l] = <<>>
      BY <1>1, <3>1 DEF HoldersForward
    <3>3. QED
      BY <1>1, <1>2, <3>1, <3>2, ListenerPhase
  <2>2. CASE SkipUnmatched(l)
    BY <1>1, <1>2, <2>2, ForwardedPhase DEF SkipUnmatched
  <2>3. CASE Receive(l)
    <3> DEFINE n == IF Len(inbox[l]) < BatchSize[l] THEN Len(inbox[l]) ELSE BatchSize[l]
    <3>1. inbox[l] \in Seq(PacketsOf(l)) /\ BatchSize[l] \in Nat
      BY <1>1, ListenerFacts, SettingsFacts
    <3>2. n \in Nat /\ n <= Len(inbox[l]) /\ n <= BatchSize[l] /\ Len(inbox[l]) \in Nat
      BY <3>1
    <3>3. Received(l) = SubSeq(inbox[l], 1, n)
      BY DEF Received
    <3> HIDE DEF n
    <3>4. Len(Received(l)) = n
      BY <3>1, <3>2, <3>3
    <3>5. /\ listener[l] = "receiving" /\ batch' = [batch EXCEPT ![l] = Received(l)]
          /\ listener' = [listener EXCEPT ![l] = "forwarding"]
      BY <2>3 DEF Receive
    <3>6. QED
      BY <1>1, <1>2, <3>2, <3>4, <3>5, ListenerPhase
  <2>4. CASE ReadClock(l)
    <3>1. /\ listener[l] = "forwarding" /\ listener = [listener EXCEPT ![l] = "forwarding"]
          /\ listener' = listener
          /\ batch' = [batch EXCEPT ![l] = [batch[l] EXCEPT ![1].at = clock']]
      BY <1>1, <2>4, ListenerFacts DEF ReadClock
    <3>2. Len([batch[l] EXCEPT ![1].at = clock']) = Len(batch[l])
      BY <1>1
    <3>3. QED
      BY <1>1, <1>2, <3>1, <3>2, ListenerPhase
  <2>5. ASSUME NEW source \in Sources, Forward(l, source)
        PROVE  HoldersForward' /\ SpawnedOnce'
    BY <1>1, <1>2, <2>5, ForwardedPhase DEF Forward
  <2>6. QED
    BY <2>1, <2>2, <2>3, <2>4, <2>5 DEF Listen, ListenerStep
<1>4. QED
  BY <1>2, <1>3 DEF PhasesOK, StagesOK

LEMMA TasksPhases ==
  ASSUME PipelineOK, PhasesOK, Tasks
  PROVE  PhasesOK'
<1>1. UNCHANGED <<batch, agg, held, report>>
  BY DEF Tasks, mainVars, listenerVars
<1>2. stream' \in [Streams -> {"waiting", "connecting", "streaming", "stopped"}]
  <2>1. CASE TaskStep
    BY <2>1 DEF TaskStep, Retry, StreamConnects, StreamFails, StreamEnds, PhasesOK, StagesOK
  <2>2. CASE stream' = stream
    BY <2>2 DEF PhasesOK, StagesOK
  <2>3. QED
    BY <2>1, <2>2 DEF Tasks, taskVars
<1>3. CASE TaskStep /\ DirectModeStarts
  <2>1. /\ direct = "connecting" /\ direct' = "heartbeating"
        /\ listener' = [l \in Listeners |->
                          IF l \in DirectListeners THEN "starting" ELSE listener[l]]
    BY <1>3 DEF DirectModeStarts
  <2>2. \A l \in DirectListeners : listener[l] = "absent"
    BY <2>1 DEF PhasesOK, SpawnedOnce
  <2>3. HoldersForward'
    BY <1>1, <2>1, <2>2 DEF PhasesOK, HoldersForward
  <2>4. QED
    BY <1>1, <1>2, <2>1, <2>3 DEF PhasesOK, SpawnedOnce, StagesOK
<1>4. CASE listener' = listener /\ direct' \in {direct, "stopped"}
  <2>1. HoldersForward' /\ SpawnedOnce'
    BY <1>1, <1>4 DEF PhasesOK, HoldersForward, SpawnedOnce
  <2>2. QED
    BY <1>1, <1>2, <1>4, <2>1 DEF PhasesOK, StagesOK
<1>5. QED
  BY <1>3, <1>4 DEF Tasks, TaskStep, DirectModeEnds, taskVars, listenerVars

LEMMA PhasesKept == PipelineOK /\ PhasesOK /\ [Next]_vars => PhasesOK'
<1> SUFFICES ASSUME PipelineOK, PhasesOK, [Next]_vars PROVE PhasesOK'
  OBVIOUS
<1>1. CASE UNCHANGED <<listener, batch, direct, stream>>
  <2>1. HoldersForward' /\ SpawnedOnce'
    BY <1>1 DEF PhasesOK, HoldersForward, SpawnedOnce
  <2>2. CASE Aggregate
    <3>1. agg' \in {agg, "stopped"} /\ UNCHANGED <<held, report>>
      BY <2>2 DEF Aggregate, TakeShred, TakeSlotEvent, TakeSample, AggregatorBreaks, mainVars
    <3>2. QED
      BY <1>1, <2>1, <3>1 DEF PhasesOK, StagesOK
  <2>3. CASE Finish
    <3>1. agg' = agg /\ held' \in BOOLEAN /\ report' \in {"pending", "done", "exited"}
      BY <2>3, Zenon DEF Finish, DropSenders, JoinAggregator, JoinTimesOut, Reported, Exit,
                         PhasesOK, StagesOK
    <3>2. QED
      BY <1>1, <2>1, <3>1 DEF PhasesOK, StagesOK
  <2>4. CASE UNCHANGED <<agg, held, report>>
    BY <1>1, <2>1, <2>4 DEF PhasesOK, StagesOK
  <2>5. CASE Traffic \/ Control(Timers) \/ Control(Main) \/ UNCHANGED vars
    BY <2>4, <2>5 DEF Traffic, Control, vars, mainVars
  <2>6. CASE Tasks
    BY <2>6, TasksPhases
  <2>7. CASE \E l \in Listeners : Listen(l)
    BY <2>7, ListenPhases
  <2>8. QED
    BY <2>2, <2>3, <2>5, <2>6, <2>7 DEF Next
<1>2. CASE Traffic
  BY <1>1, <1>2 DEF Traffic, PacketArrives, taskVars
<1>3. CASE Aggregate \/ Finish \/ Control(Timers) \/ Control(Main) \/ UNCHANGED vars
  BY <1>1, <1>3 DEF Aggregate, Finish, Control, vars, listenerVars, taskVars
<1>4. QED
  BY <1>2, <1>3, TasksPhases, ListenPhases DEF Next

-----------------------------------------------------------------------------
(* Maps, and the types of what the registry's methods write. *)

LEMMA PutFacts ==
  ASSUME NEW map, NEW key, NEW value
  PROVE  /\ DOMAIN R!Put(map, key, value) = DOMAIN map \cup {key}
         /\ R!Put(map, key, value)[key] = value
         /\ \A k \in DOMAIN map \ {key} : R!Put(map, key, value)[k] = map[k]
         /\ R!Put(map, key, value)
              = [k \in DOMAIN R!Put(map, key, value) |-> R!Put(map, key, value)[k]]
BY DEF R!Put

LEMMA PutIsMap ==
  ASSUME NEW K, NEW V, NEW map, R!IsMap(map, K, V), NEW key \in K, NEW value \in V
  PROVE  R!IsMap(R!Put(map, key, value), K, V)
BY DEF R!Put, R!IsMap

LEMMA NoMapIsMap == \A K, V : R!IsMap(R!NoMap, K, V) /\ DOMAIN R!NoMap = {}
BY DEF R!NoMap, R!IsMap

LEMMA EarlierFacts ==
  ASSUME NEW m \in Nat, NEW n \in Nat
  PROVE  /\ R!Earlier(m, n) \in {m, n} /\ R!Earlier(m, n) \in Nat
         /\ R!Earlier(m, n) <= m /\ R!Earlier(m, n) <= n
BY DEF R!Earlier

-----------------------------------------------------------------------------
(* The registry's methods keep its type. *)

SlotsOK ==
  /\ DOMAIN slots \subseteq Slots /\ slots = [s \in DOMAIN slots |-> slots[s]]
  /\ \A s \in DOMAIN slots : R!IsSlotRecord(slots[s])

ShredsOK ==
  /\ R!IsMap(shreds, R!ShredKey, R!ShredRecord)
  /\ \A key \in DOMAIN shreds :
       LET record == shreds[key] IN
       /\ record.arrivals # <<>>
       /\ Head(record.arrivals) = [source |-> record.first_source, at |-> record.first_seen]


LEMMA UpsertShredKeeps ==
  ASSUME ShredsOK, NEW event \in Delivery, R!UpsertShred(event)
  PROVE  ShredsOK' /\ DOMAIN shreds' = DOMAIN shreds \cup {event.key}
<1> DEFINE arrival == R!ArrivalOf(event)
           old     == shreds[event.key]
           value   == IF event.key \in DOMAIN shreds
                        THEN [old EXCEPT !.arrivals = Append(@, arrival)]
                        ELSE [first_seen   |-> event.received_at,
                              first_source |-> event.source,
                              arrivals     |-> <<arrival>>]
           good(record) ==
             /\ record \in R!ShredRecord /\ record.arrivals # <<>>
             /\ Head(record.arrivals) = [source |-> record.first_source,
                                         at |-> record.first_seen]
<1>1. arrival \in R!Arrival /\ arrival = [source |-> event.source, at |-> event.received_at]
  BY DEF R!ArrivalOf, R!Arrival, Delivery
<1>2. event.key \in R!ShredKey /\ event.source \in Sources /\ event.received_at \in Nat
  BY DEF Delivery
<1>3. \A key \in DOMAIN shreds : good(shreds[key])
  BY DEF ShredsOK, R!IsMap
<1>4. good(value)
  <2>1. CASE event.key \in DOMAIN shreds
    <3>1. old \in R!ShredRecord /\ old.arrivals \in Seq(R!Arrival) /\ old.arrivals # <<>>
      BY <1>3, <2>1 DEF R!ShredRecord
    <3>2. /\ Append(old.arrivals, arrival) \in Seq(R!Arrival)
          /\ Append(old.arrivals, arrival) # <<>>
          /\ Head(Append(old.arrivals, arrival)) = Head(old.arrivals)
      BY <1>1, <3>1
    <3>3. /\ value \in R!ShredRecord /\ value.arrivals = Append(old.arrivals, arrival)
          /\ value.first_seen = old.first_seen /\ value.first_source = old.first_source
      BY <2>1, <3>1, <3>2 DEF R!ShredRecord
    <3>4. QED
      BY <1>3, <2>1, <3>2, <3>3
  <2>2. CASE event.key \notin DOMAIN shreds
    BY <1>1, <1>2, <2>2 DEF R!ShredRecord
  <2>3. QED
    BY <2>1, <2>2
<1>5. shreds' = R!Put(shreds, event.key, value)
  BY DEF R!UpsertShred
<1> HIDE DEF value
<1>6. R!IsMap(shreds', R!ShredKey, R!ShredRecord)
  BY <1>2, <1>4, <1>5, PutIsMap DEF ShredsOK
<1>7. /\ DOMAIN shreds' = DOMAIN shreds \cup {event.key}
      /\ \A key \in DOMAIN shreds' :
           shreds'[key] = value \/ (key \in DOMAIN shreds /\ shreds'[key] = shreds[key])
  BY <1>5 DEF R!Put
<1>8. \A key \in DOMAIN shreds' : good(shreds'[key])
  BY <1>3, <1>4, <1>7
<1>9. QED
  BY <1>6, <1>7, <1>8 DEF ShredsOK

LEMMA NewSlotRecord ==
  ASSUME NEW at \in Nat, NEW entries, R!IsMap(entries, Sources, Nat)
  PROVE  R!IsSlotRecord([first_shred_at |-> at, entry_arrivals |-> entries])
BY DEF R!IsSlotRecord

LEMMA PutSlot ==
  ASSUME SlotsOK, NEW slot \in Slots, NEW record, R!IsSlotRecord(record),
         slots' = R!Put(slots, slot, record)
  PROVE  /\ SlotsOK'
         /\ DOMAIN slots' = DOMAIN slots \cup {slot} /\ slots'[slot] = record
         /\ \A s \in DOMAIN slots \ {slot} : slots'[s] = slots[s]
<1>1. /\ DOMAIN slots' = DOMAIN slots \cup {slot} /\ slots'[slot] = record
      /\ \A s \in DOMAIN slots \ {slot} : slots'[s] = slots[s]
      /\ slots' = [s \in DOMAIN slots' |-> slots'[s]]
  BY DEF R!Put
<1>2. DOMAIN slots' \subseteq Slots
  BY <1>1 DEF SlotsOK
<1>3. ASSUME NEW s \in DOMAIN slots' PROVE R!IsSlotRecord(slots'[s])
  <2>1. CASE s = slot
    BY <1>1, <2>1
  <2>2. CASE s # slot
    <3>1. s \in DOMAIN slots /\ slots'[s] = slots[s]
      BY <1>1, <2>2
    <3>2. R!IsSlotRecord(slots[s])
      BY <3>1 DEF SlotsOK
    <3>3. QED
      BY <3>1, <3>2
  <2>3. QED
    BY <2>1, <2>2
<1>4. QED
  BY <1>1, <1>2, <1>3 DEF SlotsOK

(* The two parts of a record, with and without an earlier record. *)
FloorOf(slot)   == slots[slot].first_shred_at
EntriesIn(slot) == slots[slot].entry_arrivals

LEMMA SlotParts ==
  ASSUME SlotsOK, NEW slot \in DOMAIN slots
  PROVE  /\ FloorOf(slot) \in Nat /\ R!IsMap(EntriesIn(slot), Sources, Nat)
         /\ slots[slot] = [first_shred_at |-> FloorOf(slot), entry_arrivals |-> EntriesIn(slot)]
BY DEF SlotsOK, R!IsSlotRecord, FloorOf, EntriesIn

LEMMA LowerSlotKeeps ==
  ASSUME SlotsOK, NEW slot \in Slots, NEW at \in Nat, R!LowerSlot(slot, at)
  PROVE  /\ SlotsOK'
         /\ DOMAIN slots' = DOMAIN slots \cup {slot}
         /\ \A s \in DOMAIN slots \ {slot} : slots'[s] = slots[s]
         /\ slot \in DOMAIN slots =>
              /\ FloorOf(slot)' = R!Earlier(FloorOf(slot), at)
              /\ EntriesIn(slot)' = EntriesIn(slot)
         /\ slot \notin DOMAIN slots =>
              FloorOf(slot)' = at /\ EntriesIn(slot)' = R!NoMap
<1>1. CASE slot \in DOMAIN slots
  <2> DEFINE record == [first_shred_at |-> R!Earlier(FloorOf(slot), at),
                        entry_arrivals |-> EntriesIn(slot)]
  <2>1. R!IsSlotRecord(record)
    BY <1>1, SlotParts, EarlierFacts, NewSlotRecord
  <2>2. [slots[slot] EXCEPT !.first_shred_at = R!Earlier(@, at)] = record
    BY <1>1, SlotParts DEF FloorOf
  <2>3. slots' = R!Put(slots, slot, record)
    BY <1>1, <2>2 DEF R!LowerSlot
  <2>4. record.first_shred_at = R!Earlier(FloorOf(slot), at)
        /\ record.entry_arrivals = EntriesIn(slot)
    OBVIOUS
  <2> HIDE DEF record
  <2>5. QED
    BY <1>1, <2>1, <2>3, <2>4, PutSlot DEF FloorOf, EntriesIn
<1>2. CASE slot \notin DOMAIN slots
  <2> DEFINE record == [first_shred_at |-> at, entry_arrivals |-> R!NoMap]
  <2>1. R!IsSlotRecord(record)
    BY NoMapIsMap, NewSlotRecord
  <2>2. slots' = R!Put(slots, slot, record)
    BY <1>2 DEF R!LowerSlot
  <2>3. record.first_shred_at = at /\ record.entry_arrivals = R!NoMap
    OBVIOUS
  <2> HIDE DEF record
  <2>4. QED
    BY <1>2, <2>1, <2>2, <2>3, PutSlot DEF FloorOf, EntriesIn
<1>3. QED
  BY <1>1, <1>2

LEMMA EntryArrivalIsMap ==
  ASSUME NEW entries, R!IsMap(entries, Sources, Nat), NEW event \in R!SlotEvent
  PROVE  R!IsMap(R!EntryArrival(entries, event), Sources, Nat)
<1>1. event.source \in Sources /\ event.received_at \in Nat
  BY DEF R!SlotEvent
<1>2. event.source \in DOMAIN entries => entries[event.source] \in Nat
  BY DEF R!IsMap
<1>3. QED
  BY <1>1, <1>2, EarlierFacts, PutIsMap DEF R!EntryArrival

LEMMA RecordSlotEventKeeps ==
  ASSUME SlotsOK, NEW event \in R!SlotEvent, R!RecordSlotEvent(event)
  PROVE  /\ SlotsOK'
         /\ DOMAIN slots' = DOMAIN slots \cup {event.slot}
         /\ \A s \in DOMAIN slots \ {event.slot} : slots'[s] = slots[s]
         /\ event.slot \in DOMAIN slots =>
              /\ FloorOf(event.slot)' = FloorOf(event.slot)
              /\ EntriesIn(event.slot)' = R!EntryArrival(EntriesIn(event.slot), event)
         /\ event.slot \notin DOMAIN slots =>
              /\ FloorOf(event.slot)' = event.received_at
              /\ EntriesIn(event.slot)' = R!EntryArrival(R!NoMap, event)
<1>1. event.slot \in Slots /\ event.received_at \in Nat
  BY DEF R!SlotEvent
<1>2. CASE event.slot \in DOMAIN slots
  <2> DEFINE record == [first_shred_at |-> FloorOf(event.slot),
                        entry_arrivals |-> R!EntryArrival(EntriesIn(event.slot), event)]
  <2>1. R!IsSlotRecord(record)
    BY <1>2, SlotParts, EntryArrivalIsMap, NewSlotRecord
  <2>2. [slots[event.slot] EXCEPT !.entry_arrivals = R!EntryArrival(@, event)] = record
    BY <1>2, SlotParts DEF EntriesIn
  <2>3. slots' = R!Put(slots, event.slot, record)
    BY <1>2, <2>2 DEF R!RecordSlotEvent
  <2>4. record.first_shred_at = FloorOf(event.slot)
        /\ record.entry_arrivals = R!EntryArrival(EntriesIn(event.slot), event)
    OBVIOUS
  <2> HIDE DEF record
  <2>5. QED
    BY <1>1, <1>2, <2>1, <2>3, <2>4, PutSlot DEF FloorOf, EntriesIn
<1>3. CASE event.slot \notin DOMAIN slots
  <2> DEFINE record == [first_shred_at |-> event.received_at,
                        entry_arrivals |-> R!EntryArrival(R!NoMap, event)]
  <2>1. R!IsSlotRecord(record)
    BY <1>1, NoMapIsMap, EntryArrivalIsMap, NewSlotRecord
  <2>2. slots' = R!Put(slots, event.slot, record)
    BY <1>3 DEF R!RecordSlotEvent
  <2>3. record.first_shred_at = event.received_at
        /\ record.entry_arrivals = R!EntryArrival(R!NoMap, event)
    OBVIOUS
  <2> HIDE DEF record
  <2>4. QED
    BY <1>1, <1>3, <2>1, <2>2, <2>3, PutSlot DEF FloorOf, EntriesIn
<1>4. QED
  BY <1>2, <1>3

-----------------------------------------------------------------------------
(* The registry of the run: what the aggregator takes from the channels is *)
(* well typed, so is what it records, and the slot of a shred has a record.*)

RegistryOK ==
  /\ ShredsOK /\ SlotsOK /\ R!IsMap(grpc_latencies, Sources, Seq(Nat))
  /\ \A key \in DOMAIN shreds : key.slot \in DOMAIN slots

LEMMA RegistryStarts == Init => RegistryOK
<1> SUFFICES ASSUME Init PROVE RegistryOK
  OBVIOUS
<1>1. shreds = R!NoMap /\ slots = R!NoMap /\ grpc_latencies = R!NoMap
  BY DEF Init, R!RegistryInit
<1>2. DOMAIN shreds = {} /\ DOMAIN slots = {}
  BY <1>1, NoMapIsMap
<1>3. ShredsOK
  BY <1>1, <1>2, NoMapIsMap DEF ShredsOK
<1>4. SlotsOK
  BY <1>1, <1>2 DEF SlotsOK, R!NoMap
<1>5. QED
  BY <1>1, <1>2, <1>3, <1>4, NoMapIsMap DEF RegistryOK

LEMMA RecordShredKeeps ==
  ASSUME RegistryOK, NEW event \in Delivery, R!RecordShred(event)
  PROVE  RegistryOK'
<1>1. event.key.slot \in Slots /\ event.received_at \in Nat
  BY DEF Delivery, R!ShredKey
<1>2. ShredsOK' /\ DOMAIN shreds' = DOMAIN shreds \cup {event.key}
  BY UpsertShredKeeps DEF RegistryOK, R!RecordShred
<1>3. SlotsOK' /\ DOMAIN slots' = DOMAIN slots \cup {event.key.slot}
  BY <1>1, LowerSlotKeeps DEF RegistryOK, R!RecordShred
<1>4. grpc_latencies' = grpc_latencies
  BY DEF R!RecordShred
<1>5. QED
  BY <1>2, <1>3, <1>4 DEF RegistryOK

LEMMA RecordSampleKeeps ==
  ASSUME RegistryOK, NEW source \in Sources, NEW at \in Nat, R!RecordGrpcLatency(source, at)
  PROVE  RegistryOK'
<1> DEFINE value == IF source \in DOMAIN grpc_latencies THEN Append(grpc_latencies[source], at)
                                                        ELSE <<at>>
<1>1. grpc_latencies' = R!Put(grpc_latencies, source, value)
  BY DEF R!RecordGrpcLatency
<1>2. value \in Seq(Nat)
  BY DEF RegistryOK, R!IsMap
<1> HIDE DEF value
<1>3. R!IsMap(grpc_latencies', Sources, Seq(Nat))
  BY <1>1, <1>2, PutIsMap DEF RegistryOK
<1>4. UNCHANGED <<shreds, slots>>
  BY DEF R!RecordGrpcLatency
<1>5. QED
  BY <1>3, <1>4 DEF RegistryOK, ShredsOK, SlotsOK

LEMMA RegistryStays ==
  ASSUME RegistryOK, UNCHANGED <<shreds, slots, grpc_latencies>>
  PROVE  RegistryOK'
BY DEF RegistryOK, ShredsOK, SlotsOK

LEMMA AggregateRecords ==
  ASSUME PipelineOK, RegistryOK, Aggregate
  PROVE  RegistryOK'
<1>1. CASE UNCHANGED registryVars
  BY <1>1, RegistryStays DEF registryVars
<1>2. CASE TakeShred
  <2>1. Head(shred_q) \in Delivery
    BY <1>2, QueueFacts DEF TakeShred, PipelineOK, ChannelsOK
  <2>2. R!RecordShred(Head(shred_q)) \/ UNCHANGED registryVars
    BY <1>2 DEF TakeShred, Record
  <2>3. QED
    BY <1>1, <2>1, <2>2, RecordShredKeeps
<1>3. CASE TakeSlotEvent
  <2>1. Head(slot_q) \in R!SlotEvent
    BY <1>3, QueueFacts DEF TakeSlotEvent, PipelineOK, ChannelsOK
  <2>2. CASE R!RecordSlotEvent(Head(slot_q))
    <3>1. SlotsOK' /\ DOMAIN slots \subseteq DOMAIN slots'
      BY <2>1, <2>2, RecordSlotEventKeeps DEF RegistryOK
    <3>2. UNCHANGED <<shreds, grpc_latencies>>
      BY <2>2 DEF R!RecordSlotEvent
    <3>3. QED
      BY <3>1, <3>2 DEF RegistryOK, ShredsOK
  <2>3. QED
    BY <1>1, <1>3, <2>2 DEF TakeSlotEvent
<1>4. CASE TakeSample
  <2>1. Head(grpc_q) \in Sample
    BY <1>4, QueueFacts DEF TakeSample, PipelineOK, ChannelsOK
  <2>2. Head(grpc_q).source \in Sources /\ Head(grpc_q).sampled_at \in Nat
    BY <2>1 DEF Sample
  <2>3. QED
    BY <1>4, <2>2, RecordSampleKeeps DEF TakeSample
<1>5. CASE AggregatorBreaks
  BY <1>1, <1>5 DEF AggregatorBreaks
<1>6. QED
  BY <1>2, <1>3, <1>4, <1>5 DEF Aggregate

LEMMA RegistryKept == PipelineOK /\ RegistryOK /\ [Next]_vars => RegistryOK'
<1> SUFFICES ASSUME PipelineOK, RegistryOK, [Next]_vars PROVE RegistryOK'
  OBVIOUS
<1>1. CASE UNCHANGED <<shreds, slots, grpc_latencies>>
  BY <1>1, RegistryStays
<1>2. CASE \E l \in Listeners : Listen(l)
  <2>1. UNCHANGED <<shreds, slots, grpc_latencies>>
    BY <1>2 DEF Listen, ListenerStep, Forward, R!Drop, registryVars
  <2>2. QED
    BY <1>1, <2>1
<1>3. CASE Tasks
  <2>1. CASE \E t \in Streams, source \in Sources, slot \in Slots, sampled \in BOOLEAN :
               Update(t, source, slot, sampled)
    BY <1>1, <2>1 DEF Update
  <2>2. CASE UNCHANGED registryVars
    BY <1>1, <2>2 DEF registryVars
  <2>3. QED
    BY <1>3, <2>1, <2>2 DEF Tasks
<1>4. CASE Traffic \/ Finish \/ Control(Timers) \/ Control(Main) \/ UNCHANGED vars
  BY <1>1, <1>4 DEF Traffic, Finish, Control, vars, registryVars
<1>5. QED
  BY <1>2, <1>3, <1>4, AggregateRecords DEF Next

(* The type invariant of the run, for any configuration: the fields of a   *)
(* shred record agree with its first arrival and the shred's slot has a    *)
(* record (registry.rs 108-133), a thread holds packets only while it      *)
(* forwards them and never more than its batch (raw_udp.rs 72-101),        *)
(* channels stay within their capacities (main.rs 145-147), the monitor    *)
(* within its timeout (main.rs 307-334).                                   *)
THEOREM RunTypes == Safety => []TypeOK
<1> DEFINE Inv == PipelineOK /\ PhasesOK /\ RegistryOK
<1>1. Init => Inv
  BY PipelineInit, PhasesStart, RegistryStarts
<1>2. Inv /\ [Next]_vars => Inv'
  BY StepKeeps, PhasesKept, RegistryKept
<1>3. Inv /\ ControlOK => TypeOK
  <2> SUFFICES ASSUME Inv, ControlOK PROVE TypeOK
    OBVIOUS
  <2>1. R!RegistryTypeOK /\ \A key \in DOMAIN shreds : key.slot \in DOMAIN slots
    BY DEF RegistryOK, ShredsOK, SlotsOK, PipelineOK, OthersOK, R!RegistryTypeOK
  <2>2. /\ listener \in [Listeners ->
             {"absent", "starting", "bound", "polling", "receiving", "forwarding", "stopped"}]
        /\ Len(shred_q) <= ShredCap /\ Len(slot_q) <= SlotCap /\ Len(grpc_q) <= GrpcCap
    BY DEF PipelineOK, ListenersOK, ChannelsOK
  <2>3. \A l \in Listeners : (listener[l] = "forwarding" <=> batch[l] # <<>>)
                             /\ Len(batch[l]) <= BatchSize[l]
    BY DEF PipelineOK, ListenersOK, PhasesOK, HoldersForward
  <2>4. clock \in Nat
    BY DEF PipelineOK, OthersOK
  <2>5. QED
    BY <2>1, <2>2, <2>3, <2>4 DEF TypeOK, ControlOK, PhasesOK, StagesOK
<1> HIDE DEF Inv
<1>4. QED
  BY <1>1, <1>2, <1>3, RunImplementsControl, ControlHolds, PTL DEF Safety
=============================================================================
