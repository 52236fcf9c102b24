------------------------------ MODULE Orbshred ------------------------------
(***************************************************************************)
(* A whole run (src/src/main.rs): listener threads and gRPC tasks produce  *)
(* events, bounded channels carry them to the aggregator, the aggregator   *)
(* filters them (RunControl) and records them (Registry), and main stops   *)
(* everything and computes the report (Stats).                             *)
(*                                                                         *)
(* A listener is a blocking thread around one socket: raw UDP, Jito UDP,   *)
(* DoubleZero multicast or AF_PACKET capture.  A stream is a task around   *)
(* one gRPC subscription: Yellowstone or Jito entries.  A packet carries a *)
(* shred key and the routes that match it: one source for a UDP socket,    *)
(* any of the sources sharing a capture socket, none if it does not parse. *)
(*                                                                         *)
(* The clock is the monotonic one of Instant::now; it advances with every  *)
(* reading and with every packet, whose number is the time at which the    *)
(* kernel received it.  The kernel stamps packets with CLOCK_REALTIME,     *)
(* which may be stepped at any time, so timestamps need not be ordered     *)
(* like what they stamp.  Nothing relates the clock to the seconds of      *)
(* RunControl, and nothing bounds the speed of a thread: a deadline of     *)
(* main may pass before a thread takes its next step.                      *)
(***************************************************************************)
EXTENDS RunControl, Integers, Sequences, FiniteSets

CONSTANTS
  Sources, Indices,        \* as in Registry
  Listeners,               \* listener threads
  Routes,                  \* listener -> sources it serves
  KernelStamps,            \* listener -> does SO_TIMESTAMPNS succeed?
  ClockSteps,              \* how far CLOCK_REALTIME may have been stepped since
                           \* the start of the run
  Anchor,                  \* the instant of the ClockAnchor, taken at the start
  BatchSize,               \* listener -> frames per receive call
  Streams,                 \* gRPC tasks
  StreamSources,           \* stream -> sources it produces events for
  AccountSources,          \* the sources of account updates
  GrpcStreams,             \* the streams that hold grpc_tx (Yellowstone)
  DirectMode,              \* is there a Jito direct-mode task holding shred_tx?
  DirectListeners,         \* the listeners that task spawns
  ShredCap, SlotCap, GrpcCap,  \* capacities of the channels
  MaxStamps                \* bound of the clock, from the anchor

ASSUME PipelineAssumption ==
  /\ IsFiniteSet(Listeners) /\ Routes \in [Listeners -> SUBSET Sources]
  /\ KernelStamps \in [Listeners -> BOOLEAN]
  /\ BatchSize \in [Listeners -> Nat \ {0}]
  /\ \A l \in Listeners : KernelStamps[l] \/ BatchSize[l] = 1
  /\ ClockSteps \subseteq Int /\ Anchor \in Nat
  /\ StreamSources \in [Streams -> SUBSET Sources]
  /\ AccountSources \subseteq Sources /\ GrpcStreams \subseteq Streams
  /\ DirectMode \in BOOLEAN /\ DirectListeners \subseteq Listeners
  /\ ShredCap \in Nat \ {0} /\ SlotCap \in Nat \ {0} /\ GrpcCap \in Nat \ {0}
  /\ MaxStamps \in Nat

VARIABLES
  listener,  \* listener -> "absent", "starting", "bound", "polling",
             \*             "receiving", "forwarding", "stopped"
  inbox,     \* listener -> packets in the socket buffer
  batch,     \* listener -> packets received and not yet forwarded
  stream,    \* stream -> "waiting", "connecting", "streaming", "stopped"
  direct,    \* the direct-mode task: "connecting", "heartbeating", "stopped"
  shred_q, slot_q, grpc_q,  \* the channels
  held,      \* does main still hold its senders?
  agg,       \* the aggregator task: "running" or "stopped"
  report,    \* "pending", then "done", then "exited"
  shreds, slots, grpc_latencies, drops,  \* the registry
  clock      \* the time of the last reading or packet

VARIABLES
  fate,      \* history: event -> "queued", "dropped", "recorded" or "skipped"
  receipts   \* history: shred key -> the numbers of the packets its arrivals are of

R == INSTANCE Stats

registryVars == <<shreds, slots, grpc_latencies, drops, receipts>>
listenerVars == <<listener, inbox, batch>>
taskVars     == <<stream, direct>>
channelVars  == <<shred_q, slot_q, grpc_q>>
mainVars     == <<held, report>>
vars == <<controlVars, listenerVars, taskVars, channelVars, mainVars, agg,
          registryVars, clock, fate>>

Elems(queue) == {queue[i] : i \in DOMAIN queue}

Gone(l) == listener[l] \in {"absent", "stopped"}

ShredClosed == ~held /\ direct = "stopped" /\ \A l \in Listeners : Gone(l)
SlotClosed  == ~held /\ \A t \in Streams : stream[t] = "stopped"

(* Mutant: main does not keep its own grpc_tx until the end. *)
GrpcClosedEarly == \A t \in GrpcStreams : stream[t] = "stopped"

GrpcClosed  == ~held /\ \A t \in GrpcStreams : stream[t] = "stopped"

SetFate(event, f) == fate' = R!Put(fate, event, f)

(* Mutant: room for one event more than the capacity. *)
AcceptsOneMore(queue, cap) == agg = "running" /\ Len(queue) <= cap

(* Sender::try_send fails when the channel is full or its receiver gone. *)
Accepts(queue, cap) == agg = "running" /\ Len(queue) < cap

(* Nothing moves after the end of the process. *)
Running == report # "exited"

-----------------------------------------------------------------------------
(* Listener threads. *)

(* Bind the socket; a listener that cannot returns and drops its sender.   *)
Bind(l) ==
  /\ listener[l] = "starting"
  /\ \E next \in {"bound", "stopped"} : listener' = [listener EXCEPT ![l] = next]
  /\ UNCHANGED <<inbox, batch>>

(* The other socket options, SO_TIMESTAMPNS the last of them. *)
Configure(l) ==
  /\ listener[l] = "bound"
  /\ \E next \in {"polling", "stopped"} : listener' = [listener EXCEPT ![l] = next]
  /\ UNCHANGED <<inbox, batch>>

NoStamp == -1

(* ClockAnchor::instant_from_realtime_ns, of a time relative to the anchor; *)
(* an Instant is not before its epoch, here zero.                           *)
InstantFrom(delta) == IF Anchor + delta >= 0 THEN Anchor + delta ELSE Anchor

(* The timestamps that a packet which the kernel receives now may carry,   *)
(* as the anchor converts them: none if the option is not (yet) set.       *)
KernelTimes(l) ==
  IF KernelStamps[l] /\ listener[l] # "bound"
    THEN {InstantFrom(clock' - Anchor + step) : step \in ClockSteps}
    ELSE {NoStamp}

PacketArrives(l) ==
  /\ listener[l] \in {"bound", "polling", "receiving", "forwarding"}
  /\ clock < Anchor + MaxStamps /\ clock' = clock + 1
  /\ \E key \in R!ShredKey, to \in SUBSET Routes[l], at \in KernelTimes(l) :
       inbox' = [inbox EXCEPT ![l] =
                   Append(@, [key |-> key, to |-> to, nr |-> clock', at |-> at])]
  /\ UNCHANGED <<listener, batch>>

Poll(l) ==
  /\ listener[l] = "polling"
  /\ listener' = [listener EXCEPT ![l] = IF cancelled THEN "stopped" ELSE "receiving"]
  /\ UNCHANGED <<inbox, batch>>

(* recvmmsg: the frames that wait, up to the size of the batch. *)
Received(l) ==
  SubSeq(inbox[l], 1, IF Len(inbox[l]) < BatchSize[l] THEN Len(inbox[l]) ELSE BatchSize[l])

(* Mutant: the frames of a batch are handled from the last to the first. *)
ReceiveReversed(l) ==
  /\ listener[l] = "receiving" /\ inbox[l] # <<>>
  /\ batch' = [batch EXCEPT ![l] =
                 [i \in DOMAIN Received(l) |-> Received(l)[Len(Received(l)) + 1 - i]]]
  /\ inbox' = [inbox EXCEPT ![l] = SubSeq(@, Len(Received(l)) + 1, Len(@))]
  /\ listener' = [listener EXCEPT ![l] = "forwarding"]

(* recvmmsg, recvmsg or recv returns. *)
Receive(l) ==
  /\ listener[l] = "receiving" /\ inbox[l] # <<>>
  /\ batch' = [batch EXCEPT ![l] = Received(l)]
  /\ inbox' = [inbox EXCEPT ![l] = SubSeq(@, Len(Received(l)) + 1, Len(@))]
  /\ listener' = [listener EXCEPT ![l] = "forwarding"]

(* The receive timeout of 100 ms, or an error that is logged. *)
ReceiveNothing(l) ==
  /\ listener[l] = "receiving"
  /\ listener' = [listener EXCEPT ![l] = "polling"]
  /\ UNCHANGED <<inbox, batch>>

(* The batch without its first packet, or without one route of it. *)
Forwarded(l, to) ==
  LET rest == IF to = {} THEN Tail(batch[l])
                         ELSE [batch[l] EXCEPT ![1].to = to]
  IN /\ batch' = [batch EXCEPT ![l] = rest]
     /\ listener' = [listener EXCEPT ![l] = IF rest = <<>> THEN "polling" ELSE @]
     /\ UNCHANGED inbox

SkipUnmatched(l) ==
  /\ listener[l] = "forwarding" /\ Head(batch[l]).to = {}
  /\ Forwarded(l, {})

(* A frame without a timestamp of the kernel gets the time at which the    *)
(* loop comes to it.                                                       *)
ReadClock(l) ==
  /\ listener[l] = "forwarding" /\ Head(batch[l]).to # {} /\ Head(batch[l]).at = NoStamp
  /\ clock' = clock + 1
  /\ batch' = [batch EXCEPT ![l][1].at = clock']
  /\ UNCHANGED <<listener, inbox>>

(* Mutant: a failed try_send is not counted. *)
ForwardUncounted(l, source) ==
  LET packet == Head(batch[l])
      event  == [source |-> source, key |-> packet.key, nr |-> packet.nr,
                 received_at |-> packet.at]
  IN
  /\ listener[l] = "forwarding" /\ source \in packet.to /\ packet.at # NoStamp
  /\ IF Accepts(shred_q, ShredCap)
       THEN shred_q' = Append(shred_q, event) /\ SetFate(event, "queued")
       ELSE SetFate(event, "dropped") /\ UNCHANGED shred_q
  /\ UNCHANGED registryVars
  /\ Forwarded(l, packet.to \ {source})

Forward(l, source) ==
  LET packet == Head(batch[l])
      event  == [source |-> source, key |-> packet.key, nr |-> packet.nr,
                 received_at |-> packet.at]
  IN
  /\ listener[l] = "forwarding" /\ source \in packet.to /\ packet.at # NoStamp
  /\ IF Accepts(shred_q, ShredCap)
       THEN /\ shred_q' = Append(shred_q, event) /\ SetFate(event, "queued")
            /\ UNCHANGED registryVars
       ELSE SetFate(event, "dropped") /\ R!Drop(source) /\ UNCHANGED <<shred_q, receipts>>
  /\ Forwarded(l, packet.to \ {source})

ListenerStep(l) ==
  \/ /\ \/ Bind(l) \/ Configure(l) \/ Poll(l)
        \/ Receive(l) \/ ReceiveNothing(l) \/ SkipUnmatched(l)
     /\ UNCHANGED <<clock, shred_q, registryVars, fate>>
  \/ ReadClock(l) /\ UNCHANGED <<shred_q, registryVars, fate>>
  \/ \E source \in Sources : Forward(l, source) /\ UNCHANGED clock

(* Mutant: a listener that cannot start cancels the run. *)
ListenOrCancel(l) ==
  /\ Running /\ ListenerStep(l)
  /\ IF listener[l] = "starting" /\ listener'[l] = "stopped"
       THEN cancelled' = TRUE
       ELSE UNCHANGED cancelled
  /\ UNCHANGED <<activity, silent_secs, monitor, window, timers, main, taskVars, slot_q,
                 grpc_q, mainVars, agg>>

Listen(l) ==
  /\ Running /\ ListenerStep(l)
  /\ UNCHANGED <<controlVars, taskVars, slot_q, grpc_q, mainVars, agg>>

Traffic == \E l \in Listeners :
  /\ Running /\ PacketArrives(l)
  /\ UNCHANGED <<controlVars, taskVars, channelVars, mainVars, agg, registryVars, fate>>

-----------------------------------------------------------------------------
(* gRPC tasks.  Connecting, authenticating and sending a heartbeat are not *)
(* part of a select! with the token: they end when the peer lets them.     *)

(* The top of the retry loop, at once or after the 2 s of a failure. *)
Retry(t) ==
  /\ stream[t] = "waiting"
  /\ stream' = [stream EXCEPT ![t] = IF cancelled THEN "stopped" ELSE "connecting"]

StreamConnects(t) ==
  /\ stream[t] = "connecting"
  /\ stream' = [stream EXCEPT ![t] = "streaming"]

StreamFails(t) ==
  /\ stream[t] \in {"connecting", "streaming"}
  /\ stream' = [stream EXCEPT ![t] = "waiting"]

(* The peer ends the stream, or the task sees the cancellation. *)
StreamEnds(t) ==
  /\ stream[t] = "streaming"
  /\ stream' = [stream EXCEPT ![t] = "stopped"]

(* Connected and authenticated: spawn the listener, start the heartbeats. *)
DirectModeStarts ==
  /\ direct = "connecting" /\ direct' = "heartbeating"
  /\ listener' = [l \in Listeners |->
                    IF l \in DirectListeners THEN "starting" ELSE listener[l]]

DirectModeEnds ==
  /\ direct = "connecting" \/ (direct = "heartbeating" /\ cancelled)
  /\ direct' = "stopped" /\ UNCHANGED listener

TaskStep ==
  \/ /\ \E t \in Streams :
          Retry(t) \/ StreamConnects(t) \/ StreamFails(t) \/ StreamEnds(t)
     /\ UNCHANGED <<direct, listener>>
  \/ (DirectModeStarts \/ DirectModeEnds) /\ UNCHANGED stream

(* Mutant: an update that neither channel accepts counts as one drop. *)
CountLostOnce(source, lost) ==
  drops' = [drops EXCEPT ![source] = IF lost = {} THEN @ ELSE @ + 1]

CountLost(source, lost) == drops' = [drops EXCEPT ![source] = @ + Cardinality(lost)]

(* A notification: a slot event and, for an account update whose slot has  *)
(* an entry, a gRPC overhead sample (identified by its time).              *)
Update(t, source, slot, sampled) ==
  LET event    == [source |-> source, slot |-> slot, received_at |-> clock']
      sample   == [source |-> source, sampled_at |-> clock']
      sent     == IF sampled THEN {event, sample} ELSE {event}
      accepted == {e \in sent : IF e = event THEN Accepts(slot_q, SlotCap)
                                             ELSE Accepts(grpc_q, GrpcCap)}
  IN
  /\ stream[t] = "streaming" /\ source \in StreamSources[t] /\ clock < Anchor + MaxStamps
  /\ sampled => t \in GrpcStreams /\ source \in AccountSources
  /\ clock' = clock + 1
  /\ slot_q' = IF event \in accepted THEN Append(slot_q, event) ELSE slot_q
  /\ grpc_q' = IF sample \in accepted THEN Append(grpc_q, sample) ELSE grpc_q
  /\ fate' = [e \in DOMAIN fate \cup sent |->
                IF e \notin sent THEN fate[e]
                ELSE IF e \in accepted THEN "queued" ELSE "dropped"]
  /\ CountLost(source, sent \ accepted)
  /\ UNCHANGED <<shreds, slots, grpc_latencies, receipts>>

Tasks ==
  \/ /\ Running /\ TaskStep
     /\ UNCHANGED <<controlVars, inbox, batch, channelVars, mainVars, agg, registryVars,
                    clock, fate>>
  \/ /\ Running
     /\ \E t \in Streams, source \in Sources, slot \in Slots, sampled \in BOOLEAN :
          Update(t, source, slot, sampled)
     /\ UNCHANGED <<controlVars, listenerVars, taskVars, shred_q, mainVars, agg>>

-----------------------------------------------------------------------------
(* The aggregator: any ready branch of its select! may run. *)

Record(event) ==
  /\ R!RecordShred(event) /\ SetFate(event, "recorded")
  /\ receipts' = R!Put(receipts, event.key,
       IF event.key \in DOMAIN receipts THEN Append(receipts[event.key], event.nr)
                                        ELSE <<event.nr>>)

(* Mutant: shreds are handled like slot events, with no check of the start. *)
TakeShredUnchecked ==
  LET event == Head(shred_q)  slot == event.key.slot IN
  /\ shred_q # <<>> /\ shred_q' = Tail(shred_q)
  /\ HandleSlotEvent(slot)
  /\ IF InWindow(slot)
       THEN Record(event)
       ELSE UNCHANGED registryVars /\ SetFate(event, "skipped")
  /\ UNCHANGED <<slot_q, grpc_q, agg>>

TakeShred ==
  LET event == Head(shred_q)  slot == event.key.slot IN
  /\ shred_q # <<>> /\ shred_q' = Tail(shred_q)
  /\ HandleShred(slot)
  /\ IF RecordsShred(slot)
       THEN Record(event)
       ELSE UNCHANGED registryVars /\ SetFate(event, "skipped")
  /\ UNCHANGED <<slot_q, grpc_q, agg>>

TakeSlotEvent ==
  LET event == Head(slot_q) IN
  /\ slot_q # <<>> /\ slot_q' = Tail(slot_q)
  /\ HandleSlotEvent(event.slot)
  /\ IF InWindow(event.slot)
       THEN R!RecordSlotEvent(event) /\ SetFate(event, "recorded") /\ UNCHANGED receipts
       ELSE UNCHANGED registryVars /\ SetFate(event, "skipped")
  /\ UNCHANGED <<shred_q, grpc_q, agg>>

TakeSample ==
  LET event == Head(grpc_q) IN
  /\ grpc_q # <<>> /\ grpc_q' = Tail(grpc_q)
  /\ R!RecordGrpcLatency(event.source, event.sampled_at)
  /\ SetFate(event, "recorded")
  /\ UNCHANGED <<controlVars, shred_q, slot_q, agg, receipts>>

(* recv() returns None: a channel without senders has run empty. *)
ChannelEnds ==
  \/ ShredClosed /\ shred_q = <<>>
  \/ SlotClosed /\ slot_q = <<>>
  \/ GrpcClosed /\ grpc_q = <<>>

AggregatorBreaks ==
  /\ ChannelEnds /\ agg' = "stopped"
  /\ UNCHANGED <<controlVars, channelVars, registryVars, fate>>

Aggregate ==
  /\ Running /\ agg = "running"
  /\ TakeShred \/ TakeSlotEvent \/ TakeSample \/ AggregatorBreaks
  /\ UNCHANGED <<listenerVars, taskVars, mainVars, clock>>

-----------------------------------------------------------------------------
(* main after its wait. *)

(* The 200 ms are over. *)
DropSenders == main = "stopping" /\ held /\ held' = FALSE /\ UNCHANGED report

(* The aggregator has ended, or it is late and left behind. *)
Reported == ~held /\ report = "pending" /\ report' = "done" /\ UNCHANGED held
JoinAggregator == agg = "stopped" /\ Reported

(* Mutant: the join has no timeout. *)
JoinNeverTimesOut == FALSE

JoinTimesOut == agg = "running" /\ Reported

(* The runtime waits for its blocking threads, and drops its tasks. *)
Exit ==
  /\ report = "done" /\ \A l \in Listeners : Gone(l)
  /\ report' = "exited" /\ UNCHANGED held

Finish ==
  /\ Running
  /\ DropSenders \/ JoinAggregator \/ JoinTimesOut \/ Exit
  /\ UNCHANGED <<controlVars, listenerVars, taskVars, channelVars, agg, registryVars,
                 clock, fate>>

Control(step) ==
  /\ Running /\ step
  /\ UNCHANGED <<listenerVars, taskVars, channelVars, mainVars, agg, registryVars, clock,
                 fate>>

-----------------------------------------------------------------------------
Init ==
  /\ ControlInit /\ R!RegistryInit
  /\ listener = [l \in Listeners |-> IF l \in DirectListeners THEN "absent" ELSE "starting"]
  /\ inbox = [l \in Listeners |-> <<>>] /\ batch = [l \in Listeners |-> <<>>]
  /\ stream = [t \in Streams |-> "waiting"]
  /\ direct = IF DirectMode THEN "connecting" ELSE "stopped"
  /\ shred_q = <<>> /\ slot_q = <<>> /\ grpc_q = <<>>
  /\ held = TRUE /\ agg = "running" /\ report = "pending"
  /\ clock = Anchor /\ fate = R!NoMap /\ receipts = R!NoMap

Next ==
  \/ \E l \in Listeners : Listen(l)
  \/ Traffic \/ Tasks \/ Aggregate \/ Finish
  \/ Control(Timers) \/ Control(Main)

(* Threads and timers run; the network, the peers and the user owe nothing. *)
Fairness ==
  /\ \A l \in Listeners : WF_vars(Listen(l))
  /\ WF_vars(Aggregate)
  /\ WF_vars(Finish)
  /\ WF_vars(Control(Timers))
  /\ WF_vars(Control(DurationElapses \/ ObserveCancellation))

Safety == Init /\ [][Next]_vars
Spec   == Safety /\ Fairness

-----------------------------------------------------------------------------
Events(f)      == {e \in DOMAIN fate : fate[e] = f}
ShredEvents(f) == {e \in Events(f) : "key" \in DOMAIN e}
Queued         == Elems(shred_q) \cup Elems(slot_q) \cup Elems(grpc_q)

(* Type invariant of the pipeline. *)
TypeOK ==
  /\ ControlTypeOK /\ R!RegistryTypeOK
  /\ \A key \in DOMAIN shreds : key.slot \in DOMAIN slots
  /\ listener \in [Listeners ->
       {"absent", "starting", "bound", "polling", "receiving", "forwarding", "stopped"}]
  /\ \A l \in Listeners :
       /\ listener[l] = "forwarding" <=> batch[l] # <<>>
       /\ Len(batch[l]) <= BatchSize[l]
  /\ stream \in [Streams -> {"waiting", "connecting", "streaming", "stopped"}]
  /\ direct \in {"connecting", "heartbeating", "stopped"}
  /\ agg \in {"running", "stopped"}
  /\ Len(shred_q) <= ShredCap /\ Len(slot_q) <= SlotCap /\ Len(grpc_q) <= GrpcCap
  /\ held \in BOOLEAN /\ report \in {"pending", "done", "exited"}
  /\ clock \in Nat

(* Is a channel that the source sends to full? *)
ChannelFull(source) ==
  \/ (\E l \in Listeners : source \in Routes[l]) /\ Len(shred_q) = ShredCap
  \/ /\ \E t \in Streams : source \in StreamSources[t]
     /\ Len(slot_q) = SlotCap \/ (source \in AccountSources /\ Len(grpc_q) = GrpcCap)

(* The events that the registry shows one by one: arrivals of shreds and   *)
(* overhead samples.                                                       *)
ShredsBooked ==
  UNION {{[source |-> shreds[key].arrivals[i].source, key |-> key, nr |-> receipts[key][i],
           received_at |-> shreds[key].arrivals[i].at] :
            i \in DOMAIN shreds[key].arrivals} : key \in DOMAIN shreds}
SamplesBooked ==
  UNION {{[source |-> source, sampled_at |-> at] : at \in Elems(grpc_latencies[source])} :
           source \in DOMAIN grpc_latencies}

(* The run implements the ledger of its events (main.rs 347-439,           *)
(* raw_udp.rs 92-100, pcap.rs 298-314, yellowstone.rs 160-217): every      *)
(* event is sent once, then counted as a drop or queued, then taken once;  *)
(* what waits when the aggregator ends is stranded, neither recorded nor   *)
(* counted, and whatever is sent afterwards is a drop.                     *)
L == INSTANCE Ledger WITH sent    <- DOMAIN fate,
                          transit <- Queued,
                          booked  <- ShredsBooked \cup SamplesBooked,
                          open    <- agg = "running"
ImplementsLedger == L!Spec

(* Nothing is lost or counted twice on the way (raw_udp.rs 92-100,         *)
(* pcap.rs 298-314, yellowstone.rs 160-217, main.rs 347-439): the drop     *)
(* counters, the channels and the arrivals of the registry partition what  *)
(* the sources produced.                                                   *)
Accounting ==
  /\ \A source \in Sources :
       drops[source] = Cardinality({e \in Events("dropped") : e.source = source})
  /\ Events("queued") = Queued
  /\ ShredsBooked = ShredEvents("recorded")

(* Until main drops its senders (main.rs 463-465) the aggregator is there: *)
(* a source loses an event only because a channel it sends to is full,     *)
(* whichever sources are configured and however early they end.            *)
DropsMeanFullChannel ==
  [][\A source \in Sources :
       held /\ drops'[source] # drops[source] => ChannelFull(source)]_vars

(* A source with a listener of its own is recorded in the order in which   *)
(* the kernel received its packets, through batches and channels and       *)
(* whatever their timestamps say: its first arrival is the one the         *)
(* duplicates come after.                                                  *)
SourceOrder ==
  \A key \in DOMAIN shreds :
    LET arrivals == shreds[key].arrivals IN
    \A i, j \in DOMAIN arrivals :
      /\ i < j /\ arrivals[i].source = arrivals[j].source
      /\ Cardinality({l \in Listeners : arrivals[i].source \in Routes[l]}) = 1
      => receipts[key][i] < receipts[key][j]

(* main.rs 368-379: a run that is still on has not missed the start of its *)
(* range: a shred of a later slot is recorded only after one of StartSlot. *)
RangeIsWhole ==
  StartConfigured /\ ~cancelled /\ (\E e \in ShredEvents("recorded") : e.key.slot > StartSlot)
    => \E e \in ShredEvents("recorded") \cup ShredEvents("skipped") :
         e.key.slot = StartSlot

(* main.rs 441-487: a cancelled run ends, even if gRPC tasks hang in a     *)
(* connect or a heartbeat and keep the channels open.                      *)
RunEnds == cancelled ~> report = "exited"

(* README 86-87, "FIRST ARRIVAL WINS. For each shred, which source         *)
(* delivered it first": a source that won a shred had it first.            *)
WinnerDeliveredFirst ==
  \A key \in DOMAIN shreds, source \in Sources :
    R!Won(source, key) =>
      \A a \in Elems(shreds[key].arrivals) : R!FirstFrom(source, key) <= a.at
=============================================================================
