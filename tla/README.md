# A TLA+ model of orbshred

orbshred measures which of several Solana shred feeds delivers shreds first.
Listener threads and gRPC tasks stamp what they receive and push events through
bounded channels to one aggregator task; the aggregator keeps those inside the
slot window in a registry; control tasks decide when the run is over; at the end
`main` computes statistics from the registry and writes a log. The model follows
`src/src/`.

## 1. The system

| component | code | state | operations | what makes it correct |
|---|---|---|---|---|
| run control | `main.rs` 105-120, 307-459 | `CancellationToken`, `activity` flag, `silent_secs`, `range_end_triggered`, `start_slot_checked`, timers | classify a slot, silence monitor wake-up, grace task, main's `select!` | the run is cut only by a real silence, a full grace period, a missed start, its duration or the user, and is cut when it should be |
| aggregator, channels, shutdown | `main.rs` 138-148, 336-487 | three bounded channels, who holds senders, aggregator task | `select!` over three receivers, `None` branches, drop senders, join with timeout, report | nothing is lost uncounted while the run is on, order per source, the run ends |
| registry | `registry.rs` | `shreds`, `slots`, `grpc_latencies`, drop counters | `record_shred` (two map operations), `record_slot_event`, `record_grpc_latency`, `inc` | results do not depend on the processing order beyond what is stated |
| statistics and log | `stats.rs`, `output/logfile.rs` | none: functions of the registry | `compute_stats`, `write_log` | counts add up, nobody is reported later than it was, table and log agree, also next to an aggregator that was left behind |
| raw UDP, Jito UDP, DoubleZero | `sources/raw_udp.rs`, `jito.rs` 183-288, `doublezero.rs` | socket buffer, current batch | bind, poll the token, receive (batch or single), stamp, forward | packets are forwarded in order or counted as drops, the thread stops when cancelled |
| packet capture | `sources/pcap.rs`, `bpf_filter.rs` | BPF program, routes | filter, extract payload, match routes | exactly the datagrams of the port, each to the sources it belongs to |
| Yellowstone | `sources/yellowstone.rs` | `entry_map`, `max_slot_seen`, connection | retry loop, slot / entry / account updates | bounded memory, samples that never overstate |
| Jito direct mode and gRPC | `sources/jito.rs` 59-178, 305-495 | tokens with expiries, ttl of the subscription | authenticate, refresh, heartbeat, wait, subscribe | tokens outlast the calls that carry them, the subscription holds, a hanging peer cannot keep the run from ending |
| leader schedule | `leader.rs` | none | two RPC calls | the slots are the validator's |
| shred parser, kernel timestamps | `shred.rs`, `kernel_ts.rs` | clock anchor | `parse_shred_key`, `recvmmsg`, conversion | a key for every real shred, one order per source whatever the timestamps say |
| configuration, command line, tables, plot, affinity, protocols | the rest | none during a run | parse, print | not modelled, see section 7 |

How they interact: every listener and gRPC task owns clones of `shred_tx` or
`slot_tx` (Yellowstone also `grpc_tx`), of the token and of the drop counters.
The aggregator owns the receivers, the token and the `activity` flag; the
silence monitor shares flag and token; the grace task and `main` share the
token. The aggregator and main share the registry's maps, without a common lock.
Nothing is persisted, so there is no crash recovery of orbshred itself. What is
hard here: interleavings of threads that stamp, queue and process at different
times; a polled flag; several independent ways of cancelling; bounded channels;
tasks that await a remote peer without looking at the token; deadlines of a
remote engine that must be met by a loop of slow calls; maps that are read while
they are written; a two-call RPC fetch that races the chain; hand-written BPF.
`PROJECT.json` lists these hazards line by line.

## 2. Modules

| module | models | uses |
|---|---|---|
| `RunControl` | slot window, leader filter, silence monitor, grace task, main's wait | |
| `RunControlHistory` | the same with history variables, and the properties that need them | `RunControl` |
| `Registry` | the registry, one operator per method | |
| `Stats` | what `compute_stats` derives: counts, deltas, percentiles, entry latencies | `Registry` |
| `Measurement` | the aggregator's work on the registry under any order of events | `Registry` |
| `Report` | the end of a run: join, statistics, log, an aggregator left behind | `Measurement`, two instances of `Stats` |
| `Ledger` | abstract specification: what becomes of the events that sources send | |
| `Orbshred` | the whole run: listeners, gRPC tasks, channels, aggregator, shutdown | `RunControl`, instances of `Stats` and `Ledger` |
| `JitoSession` | tokens, heartbeats and the engine's patience in direct mode | |
| `PacketCapture` | BPF program, payload extraction, shred parser, routes, on one frame | |
| `LeaderSchedule` | `fetch_leader_slots` against an advancing chain | |
| `GrpcOverhead` | entry map and overhead samples of a Yellowstone connection | |
| `MCReport`, `MCOrbshred`, `MCPacketCapture` | instances for TLC | |
| `RunControlProofs`, `LedgerProofs`, `ReportProofs`, `OrbshredProofs`, `PacketCaptureProofs`, `JitoSessionProofs`, `LeaderScheduleProofs`, `GrpcOverheadProofs` | theorems, section 5 | the module they name, TLAPS |

Operators marked `Mutant` are plausible mistakes in the definition that follows
them. They are part of no specification; each property has one that breaks it.

### RunControl

`HandleShred(slot)` and `HandleSlotEvent(slot)` are the two event branches of
the aggregator; their disjuncts follow the `continue`s of the code: before the
range, missed start (shreds only), beyond the range, inside the range. Which of
the last group is recorded (`RecordsShred`, `InWindow`) matters to `Orbshred`
only; for the control plane an event skipped by the leader filter and a recorded
one do the same. `MonitorStops`, `MonitorSeesActivity` and
`MonitorCountsSilence` are the paths of one wake-up, `GraceExpires` is the end
of the grace sleep, `DurationElapses`, `ObserveCancellation` and `CtrlC` are the
branches of main's `select!`, each followed by main's own `cancel()`.

Time is counted in seconds by `Tick`. A second passes only when nothing is due,
so a task runs within a second of its deadline; everything else may interleave
at will between deadline and task.

`end_slot.unwrap_or(u64::MAX)` appears as the assumption that without a
configured end no slot lies beyond `EndSlot`. A timeout of 0 acts like 1
(`SilenceLimit`), as in the code, which counts before it compares.

### Registry, Stats, Measurement, Report

A map is a function on the set of its keys. An `Instant` is a natural number and
`duration_since` saturates at zero (`Since`). `Measurement` feeds the registry
every sequence of events with arbitrary timestamps, more than any interleaving
of sources could produce. `record_shred` changes two maps one after the other;
`TakeShred` is the first operation, `FinishShred` the second, and `pending`
holds the event in between.

`Report` adds main: `EndWait` is the end of the join, either because the
aggregator has ended (nothing is pending then) or because two seconds are over
(`detached`: it goes on). `CountShreds` is `registry.shreds.len()`; an iteration
over a `DashMap` holds the lock of one segment at a time, so `ReadShreds`,
`ReadSlots` and `WriteLog` read one segment per step, and what they have read
is kept in maps of the same shape. `Stats` is instantiated twice: `Live` for the
registry, `Seen` for what main has read. A percentile given as a share `p` in
tenths of a percent is `values[ceil(n * p) - 1]`. The code computes the rank in
`f64` (`stats.rs` 72): 50, 90, 95 and 99 are exact there, while 99.9 is a little
more than itself, so that where `n * 99.9 / 100` is a whole number the rank comes
out right or one too high (41000 values give 40960 and not 40959). `Ranks` is
the set of both, `Percentiles` the set of values that may be printed; every
property of percentiles is about all of them. Rounding errors stay below a
thousandth, the least distance to the next rank, up to 2^40 values.

### Orbshred and Ledger

A listener passes through `starting`, `bound` (the socket receives, but
`SO_TIMESTAMPNS` is not set yet), `polling` (looks at the token), `receiving`,
`forwarding` (one `try_send` at a time) and `stopped`; one that direct mode
spawns starts `absent`. A packet in a socket buffer carries a shred key, the
routes that match (none when it does not parse), its number in the order in
which the kernel received packets, and its timestamp, if it has one.

Timestamps (`kernel_ts.rs`) are modelled apart from that order. The kernel stamps
with `CLOCK_REALTIME`, which may have been stepped by any of `ClockSteps` when a
packet arrives; `InstantFrom` converts the stamp through the anchor taken at the
start, and falls back to the anchor where an `Instant` cannot go (46-54). A
packet received before the option is set, or by a listener whose system refuses
it, has no stamp (`NoStamp`): the loop reads the clock when it comes to it
(`ReadClock`, lines 159 and 266, `raw_udp.rs` 137), later than packets behind it
in the batch got theirs. (A kernel that fills in the time of the receive call
for such a packet gives one that is no less late.) So arrivals of one
listener may carry timestamps out of order. A listener without the option
receives one packet per call (`raw_udp.rs` 125-150), hence the assumption that
relates `KernelStamps` and `BatchSize`.

A stream is the retry
loop of a gRPC task, with `Update` for a notification, which may send to both
channels. `ShredClosed`, `SlotClosed` and `GrpcClosed` say when the last sender
is gone. `DropSenders`, `JoinAggregator`, `JoinTimesOut` and `Exit` are main
after its wait; the runtime waits for the blocking listeners and drops its
tasks. `Control(...)` takes the timers and main's wait from `RunControl`,
`TakeShred` and `TakeSlotEvent` contain its event handlers.

The clock is the monotonic one and advances with every packet and every
reading. The seconds of `RunControl` are not tied to it and threads have no
minimal speed, so any deadline may pass between two steps of a thread; this
covers a slow aggregator that outlasts the join. Two history variables: `fate`
says of every event produced whether it is queued, dropped, recorded or skipped
by the window, and `receipts` keeps, next to the arrivals of a shred, the numbers
of the packets they came from.

`Update` sends the slot event and the overhead sample of an account update in
one step (`yellowstone.rs` 193 and 215). What the aggregator takes between the
two is covered by the order of the steps, except that it could end exactly
there, which only decides whether the sample is counted as a drop or stranded.

Two abstract specifications stand above the run. `RunControl!ControlSafety`:
whatever threads and channels do, the control plane goes through its own steps
only. `Ledger`: an event is sent once; it is refused and counted at once, or
travels; it is taken once, and then the registry shows it or not; when the
aggregator has ended, what travels stays where it is and whatever is sent is
refused. The refinement mapping is

| `Ledger` | `Orbshred` |
|---|---|
| `sent` | the events that have a `fate` |
| `transit` | the elements of the three channels |
| `booked` | the arrivals and samples that the registry shows |
| `drops` | the drop counters |
| `open` | the aggregator is running |

`Ledger` implies `Balanced`: drops, events under way and events booked never
exceed what a source sent.

### JitoSession

`pc` is the call under way, the top of the heartbeat loop, its wait, or the end.
`challenge` and `tokens` are `authenticate`, `refresh` is the other branch of
`try_refresh`; a failed renewal is logged and the heartbeat goes out with the
old token. Deadlines count down, in units of half a second: `access` and
`refresh` until the tokens expire, `wait` until the next turn, `sending` until
the engine stops. An expiry that is missing from an answer reads as 1970
(`access_told`, `refresh_told`). The engine is external: it may handle a call at
any moment while the call is open, answer late, refuse an expired or unknown
token, or restart and forget all sessions; calls may break before or after they
were handled, until `sound`.

### PacketCapture

A frame is a record of the header fields at the offsets that program and parser
read, its captured size and the slot of its shred; any other offset reads
`noise`. `build_bpf_filter` is the program as data, `Filter` executes one
instruction per step with the operators of the test machine in `bpf_filter.rs`,
and `Capture` is one turn of the capture loop. The length field of a first
fragment is assumed to count the whole datagram (`PlausibleFragment`). An
`early` frame was queued between the creation of the socket and the attachment
of the filter and skips the program, as in the kernel.

### LeaderSchedule, GrpcOverhead

`GetLeaderSchedule` and `GetEpochInfo` are the two calls with the checks that
follow each; `SlotPasses` may happen between them. In `GrpcOverhead` the
validator is external: it produces entries and account updates, each caused by
an entry of its slot, and the stream keeps that order, except that entries are
missed while it is disconnected. `Window` stands for the constant 300.

## 3. Runs

| run | configuration | shows |
|---|---|---|
| `control_range` | slots 1..4, range 2..3, leader of slot 2, timeout 3 s, grace 2 s | type invariant; `SilenceIsNoticed`, `SilenceIsReal`: polling once a second measures silence to within a second and never cancels early; `WindowCutIsJustified`; under fairness `RangeEndStopsTheRun` and `SilenceStopsTheRun` |
| `control_timed` | one slot, no range, 4 s | `DurationStopsTheRun` whatever the traffic |
| `report` | 2 sources, 2 shreds of a slot in 2 segments, 3 instants, 3 events, aggregator possibly left behind | type invariant; baseline of the slot latencies (`SlotFloor`), `EntryIsEarliest`, `ReportIsGenerous` (the truly first source always wins, nobody is reported later than it was), `ReportIsCurrent`, `CoverageAddsUp`, `LogConfirmsReport`, `PercentilesAreRanks`, `EntriesAreHonest` |
| `pipeline` | UDP listener with batches of 2, spawned by direct mode, a Yellowstone stream, channels of 1, 3 packets, before or after the option is set and before or after the clock is set back by 3 | `SourceOrder`, `DropsMeanFullChannel`, the run implements `RunControl`, and `RunEnds` although gRPC tasks may hang |
| `mixed` | capture socket of 2 sources, userland stamps, next to Yellowstone with an account; start slot 1, 2 packets or notifications | type invariant, `Accounting` (drop counters, channels and registry partition what was produced), `RangeIsWhole`, and the run implements `Ledger` |
| `jito_session` | ttl of 5 or 5.5 s, margin of 6 s, calls of up to 0.5 s, failures, restarts, missing expiries | `TokensLast`, `SubscriptionHolds`; under fairness `Recovers` and `StopsWhenCancelled` |
| `packet_capture` | all combinations of the header fields, 3 sources on one port, filtered or early | `FilterIsExact`, `WholeDatagramsOnly`, `ProvidersAreSplit` |
| `leader_schedule` | 3 epochs of 3 slots, every set of leader slots, every start | `FilterIsSchedule` when both answers are of one epoch |
| `grpc_overhead` | 3 slots, window 1, 4 instants, reconnects | `MemoryIsBounded`, `NeverOverstated` |
| `missed_start` | as `control_range` | violated: `MissedMeansPast` |
| `later_winner` | two UDP listeners, 3 packets | violated: `WinnerDeliveredFirst` |
| `epoch_rollover` | as `leader_schedule` | violated: `SlotsAreAssigned` |

### Bounds

- `Slots` has a value before, at, inside (led and not led) and beyond the range:
  the code only compares a slot with the window and looks it up in a set.
- `SilenceTimeout` 3 allows a reset in the middle of a count, `GraceSecs` 2 is
  the code's value. `HistoryBound` caps the history counters beyond every
  deadline (an assumption states this).
- Channels of one or two events make the full and the empty channel reachable in
  a few steps; the code never looks at a length otherwise.
- `MaxStamps` bounds the clock, and with it the traffic of a run: two allow a
  notification next to a routed packet, three a batch of two with a packet
  before or behind it; the third of `later_winner` is not needed for its trace.
  A reading for a missing timestamp can exceed the bound. Several listeners are
  the subject of `later_winner` and of the theorems, which hold for any number.
- In `pipeline` a step of -3 puts the stamps after it at or before the anchor
  (1): the first packet's at the anchor, since the `Instant` it stands for does
  not exist, the second's at 0. Stamps before the step, and readings for packets
  that have none, are later, whichever packet they belong to.
- In `report`, three events let a source overtake another with a slot event or a
  duplicate between, and leave one to be recorded while main reads; two segments
  are the fewest with a map half read. Three shreds are too few for the rank of
  p99.9 to round up; that case is the theorem's (section 5). Nothing tells
  sources apart, so they are symmetric. The proofs of section 5 have no such bounds.
- In `jito_session` the shortest wait (500 ms) and the ttl after a failure (1 s)
  are the code's; the margin of 60 s and the lifetimes are scaled down in the
  order that `EngineAssumption` demands: half a ttl suffices for the calls of a
  turn, and the margin for a turn and the calls of the next.
- Frame sizes lie at and around every length check of filter and parser. Of the
  header lengths one is too short and two are valid, of the fragment offsets one
  is zero; a header shorter than 20 bytes is given the length 0, whatever it is.
- Three epochs allow an epoch boundary before, between and after the calls.
- `CHECK_DEADLOCK FALSE` stands where the system stops: after the end of the
  process, the last frame, the answer of the RPC, the last instant or event.

## 4. Fairness

`ControlFairness`: a timer that is due fires and time passes (tokio's timer
wheel); main's `select!` takes a ready branch. Nothing is assumed of traffic,
leader slots or Ctrl+C. The properties hold under unbounded traffic.

`Orbshred!Fairness`: each listener thread, the aggregator and main keep running,
timers fire. A socket receive times out after 100 ms, so a listener is never
blocked for ever (`ReceiveNothing`). No fairness for gRPC tasks: a connect, an
authentication or a heartbeat awaits the peer outside of a `select!` with the
token and may hang for ever. This is why `RunEnds` is interesting: such a task
keeps a sender, the aggregator then never sees its channel closed, and only the
timeout of the join lets the report and the end of the run happen.

`JitoSession!Fairness`: the task runs, time passes, and the engine handles a
call. The last is an assumption on the engine and not on the code, which has no
timeout for a call; it is what `Recovers` and `StopsWhenCancelled` are worth
asking under, and the session that hangs is the subject of `RunEnds`. Calls may
break as long as they like; `Recovers` starts when they have stopped to.

## 5. What is proved

TLAPS checks the following for all values of the constants that satisfy the
named assumptions.

**Control plane** (`RunControlProofs`; `SlotAssumption`, `TimeAssumption`,
`HistoryAssumption`): `TypeCorrect`, `SilenceNoticed`, `SilenceReal`
and `WindowCutJustified`, from the inductive invariant `RunInv`. The type invariant is not inductive: to bound `silent_secs` one has to
know that a monitor that has not stopped counts less than the limit. Nor are the
silence properties: they speak of `idle`, the seconds since the flag was last
set, which the code does not have. `MonitorInv` says that while the flag is
clear the monitor's count `n` brackets `idle` between `n` and `n + 1`, one more
when a wake-up is pending, and that `idle` is at most the pending wake-up while
the flag is set. `GraceInv` says that an armed grace timer and the seconds since
the range ended add up to the grace period, which fails if later traffic arms
the timer again. `CauseInv` and `EnteredInv` tie the history to the token and to
`start_slot_checked`.

**Registry** (`ReportProofs`; `RegistryAssumption`,
`MeasurementAssumption`): `MeasurementTypeCorrect`, `BaselineIsFloor` and
`EntriesAreEarliest`, for any number of events in any order. `MeasurementInv`
adds to the three properties that a shred recorded in both maps has left a slot
record, without which the baseline could be set by a later one, and that no
source has more events counted than were taken.

**Report and log** (`ReportProofs`, with `ReportAssumption`): `ReportGenerous`,
`ReportCurrent`, `LogConfirms`, `EntriesHonest`, and `RegistryHoldsOn` (the
registry's invariants survive the concurrent main). `ReportInv` joins
`MeasurementInv` with `ArrivalsAreHeard` (the arrivals of the map are the events
recorded) and `ReadInv`, which describes a map half read: what has been read of
a record is a prefix in time of what the registry has now (`ReadIsOlder`), what
is logged is newer than what was read (`LogIsNewer`), everything recorded when
the wait ended is read once its segment has passed (`BeforeIsRead`), and after a
clean join nothing changes any more.

`CoverageHolds` and `PercentilesHold` are about numbers. `CountInv` says that a
source has been counted once for every arrival that the map shows of it, and
that the shreds which `total_unique` counted are read when their segment is.
The counts are cardinalities, so that no sum over a set has to be unfolded:
received shreds are the keys read, duplicates are all arrivals but one of every
shred, and both together are the arrivals. That a value exists at every position
of a sorted list of latencies is `SortedFacts`. `RanksAreClose` is about the five
percentages that the code asks for: every rank that `f64` may give is at least
the exact one, and above it only for p99.9 of a whole number of thousands, by
one, where it is still inside the list. So no percentile is too low, and which
may be too high, and by how much, is part of `PercentilesAreRanks`.

**Ledger** (`LedgerProofs`): `LedgerBalances`, by induction over sends,
settlements and the end of the aggregator.

**Whole run** (`OrbshredProofs`; `PipelineAssumption` and the control plane's):

- `RunImplementsControl`: the run implements `RunControl`. This needs
  `PipelineOK`, that queued events carry slots that events may carry.
- `DropsMeanFull`: `DropsMeanFullChannel`, which needs that the aggregator
  outlives main's senders (`OthersOK`).
- `RunImplementsLedger`: the run implements `Ledger`. What is hard is that an
  event that is sent was never sent before, although a packet is forwarded to
  one route after the other and a batch waits for its turn. `EventsOK` says why:
  a number belongs to one packet of one listener (`NumbersOK`), and no event sent
  so far is one that a waiting packet may still produce (`SentOK`); a channel
  holds an event once and only events that were sent (`QueuesOK`). Timestamps
  do not help here, since two packets may carry the same one.
- `NothingIsLost`: `Accounting`. The property counts events and drops; the
  invariant behind it, `BooksAgree`, names them: drops are the events with the
  fate "dropped", channels hold those that are "queued", the arrivals of the
  registry are those "recorded". Every step changes fates in one of three ways
  (`FateStep`), and in each the books follow.
- `RangeHasItsStart`: `RangeIsWhole`. `RangeOK` adds what the flag
  `start_slot_checked` stands for: while the run has not been cancelled, a shred
  of the start slot has been taken, and nothing is recorded before the flag is
  set.
- `SourcesInOrder`: `SourceOrder`. Order is an invariant of the whole way of an
  event, and of every two consecutive parts of it (`OrderOK`), and it is the order
  of reception, not of timestamps, which steps of the clock and late readings
  disturb (`TimesAreInstants` and `ReadFacts` are all that is known of them):
  socket buffer and batch rise, what has been sent is older than what waits, the channel rises per
  source, what is booked is older than what is queued, records rise. Drops take
  events out and cannot disturb it. It is stated for sources that one listener
  serves; a source with several has no order to keep.
- `RunTypes`: `TypeOK`. The phases of a thread decide what it may hold
  (`PhasesOK`: packets only while forwarding, no spawned listener before direct
  mode connects). `RegistryOK` is the type of the registry for the events that
  the channels can hold (`PipelineOK`): what is recorded carries an instant,
  never `NoStamp`.

`PipelineAssumption` says among other things that the set of listeners is
finite, as the code starts them from the entries of its configuration, and that
a clock steps by whole units. `ClockSteps`, `Anchor` and the bound `MaxStamps`
are arbitrary.

**Packet capture** (`PacketCaptureProofs`; `CaptureAssumption`): `TypeCorrect`,
`FilterExact`, `WholeDatagrams` and `ProvidersSplit`, for any port, size, length
field, fragment offset, header length and set of addresses. `StepsFollow`
resolves the jumps of the program, instruction by instruction; `PathOK` states
for each instruction what the jumps to it have established (that the tag was
seen, that the accumulator holds the protocol, that the offset is zero), up to
the two returns, one of which is reached with a wanted packet and one without.
The payload extraction then has to reject only what the filter lets through, a
first fragment and a broken header (`WholeFollows`). `ProvidersSplit` has a
hypothesis on the configuration, `RoutesSplit`: a source per provider with
disjoint addresses and one source that excludes them all, as in
`config.example.toml` 50-64. `MCPacketCapture` asserts it of the instance that
TLC checks.

**Jito session** (`JitoSessionProofs`; `EngineAssumption`): `TypeCorrect`,
`TokensOutlastCalls` and `SubscriptionIsKept`. `SessionInv` bounds what is left
of the tokens and of the engine's patience by what the session still has to do
before the next heartbeat: at most three calls from the top of the loop, two
while it authenticates, one while the heartbeat is under way.

**Leader schedule, gRPC overhead** (`LeaderScheduleProofs`,
`GrpcOverheadProofs`): `TypeCorrect` and `FilterIsRight` for any epoch length,
from the fact that the first answer is the schedule of the epoch it was asked
in; `TypeCorrect`, `MemoryBounded` and `SamplesNeverOverstate` for any window,
from the fact that while connected the latest entry of a remembered slot is
remembered.

Every invariant and every refinement that the passing runs check is a theorem.
Only model-checked are the liveness properties (`RangeEndStopsTheRun`,
`SilenceStopsTheRun`, `DurationStopsTheRun`, `RunEnds`, `Recovers`,
`StopsWhenCancelled`): they rest on fairness and so on `ENABLED`, which the
prover does not reason about. The refinement theorems are about the safety part
of the run (`Safety`). The properties of section 6 are false of the code and are
refuted on the instance of their run.

## 6. Where code and documentation disagree

Each of the first three has a run that TLC refutes.

- `missed_start`: a run started before `start_slot` is stopped as "already in the
  past" when no shred of `start_slot` itself arrives before a later one, for
  instance because that slot was skipped; the warning also calls this the first
  shred received.
- `later_winner`: `first_seen` is what was processed first. A source stamped
  earlier but processed later wins as well, since the difference saturates at
  zero, so two sources can win one shred.
- `epoch_rollover`: indices of one epoch are added to the first slot of the next
  when the epoch changes between the two calls.

The models also contain these, which need no run to be seen:

- shreds beyond `end_slot` do not count as activity, so a timeout of one or two
  seconds ends the run inside its grace period although shreds arrive
  (`config.rs` 17: "if no shreds are received");
- `duration_secs = 0` without a range is announced as one second (`main.rs` 118)
  and lasts until silence or Ctrl+C; `DurationStopsTheRun` is about positive
  durations;
- a listener that still forwards when the aggregator has stopped counts drops
  although no channel is full (README "because the bounded aggregator channel
  was full"); `DropsMeanFullChannel` holds up to the release of the senders;
- events that wait in a channel when another channel has ended the aggregator
  are neither recorded nor counted (`Ledger!Close` leaves them in `transit`);
- with an aggregator left behind, the number of shreds is read before the shreds
  are, so the printed coverage may exceed 100 % (`CoverageAddsUp` states what
  does hold);
- a slot event processed before the first shred of a slot becomes
  `first_shred_at` (`registry.rs` 71: "across all shred-level sources");
  `SlotFloor` and `EntriesAreHonest` state what does hold;
- frames queued before the filter is attached are captured whatever their port,
  since the capture loop does not look at it;
- the BPF program accepts a first fragment (`bpf_filter.rs` 10-12: "drops ...
  fragmented IPv4"; its own test expects the code's behaviour); the parser
  rejects it by its length (`WholeDatagramsOnly`);
- addresses that do not parse are skipped, and a list of which none parses is no
  filter at all (`config.rs` 64-65: "only shreds from these IPs"); `RoutesSplit`,
  and with it `ProvidersAreSplit`, is about lists that keep an address;
- an account update is measured against the latest entry of its slot, not
  against the entry that caused it (`yellowstone.rs` 199-201); `NeverOverstated`
  is the direction that holds;
- an engine that restarts and forgets its tokens refuses heartbeats until the
  tokens look expired to the client, since a refused heartbeat does not make it
  authenticate (`jito.rs` 361-390); `Recovers` holds because they do in the end;
- p99.9 of a whole number of thousands of shreds, 41000 for one, may be the
  latency one rank above the exact one (`stats.rs` 72);
- a frame that carries no kernel timestamp is stamped when it is read, later
  than frames behind it (`kernel_ts.rs` 266), and a step of `CLOCK_REALTIME`
  moves all later stamps of the kernel (`kernel_ts.rs` 15-18 calls drift
  negligible): reported latencies follow the timestamps, so they are then wrong.
  `ReportIsGenerous` and its kin are stated for arbitrary timestamps, as given;
  what does not depend on them is `SourceOrder`.

Outside of the models, noticed on the way:

- a shred source that received nothing has a p50 of 0 and heads the table of
  latencies, "fastest first" (`table.rs` 183-203).

## 7. Not modelled

- Configuration, command line, naming and start of the sources (`main.rs`
  1-303), tables, plot, affinity: sequential code or pure output without state
  shared with the run. The configuration fields are CONSTANTS.
- The protocol definitions and the code generated from them.
- Parsing of the control messages that carry timestamps (`kernel_ts.rs` 137-152,
  245-263), and the drift of the clocks between steps.
- Shred type counts, mean, minimum, maximum and the slot range of the
  statistics: single passes over what the modelled ones are computed from.
- Contents of shreds beyond their key, socket options and buffer sizes, binding
  to an interface, joining a multicast group, CPU pinning.

## 8. Plan

Done: all modules of section 2, both refinements, and the proofs of every
invariant and refinement that the passing runs check.

Left, in order of importance:

1. Steps towards liveness that need no `ENABLED`: for `RunEnds` and
   `SilenceStopsTheRun`, that what blocks the end of a run stays put until the
   step that removes it, and that the remaining work never grows.
2. The two `try_send`s of an account update as two steps.
3. Start-up: an error of one source while others already listen.
