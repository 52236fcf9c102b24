----------------------------- MODULE RunControl -----------------------------
(***************************************************************************)
(* The control plane of a benchmark run (src/src/main.rs): what decides    *)
(* when the run stops and which slots it measures.                         *)
(*                                                                         *)
(* Four tasks share one CancellationToken and one AtomicBool:              *)
(*   - the aggregator classifies the slot of every event it takes from a   *)
(*     channel (slot window, leader filter) and refreshes `activity`;      *)
(*   - the silence monitor wakes once a second, swaps `activity` to false  *)
(*     and cancels after SilenceTimeout silent seconds in a row;           *)
(*   - the grace task, spawned at the first event beyond EndSlot, cancels  *)
(*     GraceSecs later;                                                    *)
(*   - main waits for the duration, for a cancellation or for Ctrl+C.      *)
(*                                                                         *)
(* In this module an event is only the slot it carries and it can be       *)
(* handled at any moment.  RunControlHistory adds the history variables    *)
(* that its properties need; Orbshred adds channels, listeners, registry   *)
(* and shutdown, and implements this module.                               *)
(*                                                                         *)
(* Time advances in whole seconds.  A timer variable is 0 when no timer is *)
(* armed, 1 when it is due and n + 1 when n seconds are left; a second     *)
(* passes only when nothing is due, so every task is assumed to run within *)
(* a second of its deadline.                                               *)
(***************************************************************************)
EXTENDS Naturals

CONSTANTS
  Slots,            \* the slots that events may carry
  StartConfigured,  \* is start_slot present in the configuration?
  StartSlot,        \* config.start_slot.unwrap_or(0)
  EndConfigured,    \* is end_slot present in the configuration?
  EndSlot,          \* config.end_slot.unwrap_or(u64::MAX)
  LeaderFilter,     \* is leader_pubkey set?
  LeaderSlots,      \* the slots fetched from the leader schedule
  SilenceTimeout,   \* config.silence_timeout_secs
  DurationSecs,     \* config.duration_secs
  GraceSecs         \* the sleep of the grace task

ASSUME SlotAssumption ==
  /\ Slots \subseteq Nat /\ StartSlot \in Nat /\ EndSlot \in Nat
  /\ StartConfigured \in BOOLEAN /\ EndConfigured \in BOOLEAN
  /\ ~StartConfigured => StartSlot = 0
  /\ ~EndConfigured => \A s \in Slots : s <= EndSlot
  /\ LeaderFilter \in BOOLEAN /\ LeaderSlots \subseteq Nat

ASSUME TimeAssumption ==
  /\ SilenceTimeout \in Nat /\ DurationSecs \in Nat /\ GraceSecs \in Nat

VARIABLES
  cancelled,            \* the CancellationToken
  activity,             \* the AtomicBool shared by aggregator and monitor
  silent_secs,          \* local of the silence monitor
  monitor,              \* "asleep", "due" (its sleep ended) or "stopped"
  range_end_triggered,  \* locals of the aggregator
  start_slot_checked,
  grace,                \* timer of the grace task
  duration,             \* timer of main's select!
  main                  \* "waiting", then "stopping"

timers  == <<grace, duration>>
window  == <<range_end_triggered, start_slot_checked>>
controlVars == <<cancelled, activity, silent_secs, monitor, window, timers,
                 main>>

Off     == 0
Due     == 1
Arm(n)  == n + 1
Elapse(timer) == IF timer > Due THEN timer - 1 ELSE timer

RangeMode == StartConfigured \/ EndConfigured
TimedRun  == DurationSecs > 0 /\ ~RangeMode

(* The silent wake-up in a row at which the monitor gives up. *)
SilenceLimit == IF SilenceTimeout = 0 THEN 1 ELSE SilenceTimeout

-----------------------------------------------------------------------------
(* The aggregator's treatment of a slot. *)

Cancel == cancelled' = TRUE

Leads(slot)    == LeaderFilter => slot \in LeaderSlots
InWindow(slot) == StartSlot <= slot /\ slot <= EndSlot /\ Leads(slot)

(* The first shred at or beyond start_slot is beyond it. *)
Missed(slot) == StartConfigured /\ ~start_slot_checked /\ slot > StartSlot

RecordsShred(slot) == InWindow(slot) /\ ~Missed(slot)

SetActivity == activity' = TRUE
Unmoved     == UNCHANGED <<cancelled, range_end_triggered, grace>>

BeforeStart(slot) == slot < StartSlot /\ SetActivity /\ Unmoved

(* Mutant: every event beyond EndSlot arms the grace timer again. *)
PastEndRearms(slot) ==
  /\ slot > EndSlot
  /\ RangeMode
  /\ range_end_triggered' = TRUE /\ grace' = Arm(GraceSecs)
  /\ UNCHANGED <<cancelled, activity>>

PastEnd(slot) ==
  /\ slot > EndSlot
  /\ IF RangeMode /\ ~range_end_triggered
       THEN range_end_triggered' = TRUE /\ grace' = Arm(GraceSecs)
       ELSE UNCHANGED <<range_end_triggered, grace>>
  /\ UNCHANGED <<cancelled, activity>>

(* Recorded or skipped by the leader filter: both refresh `activity`. *)
WithinRange(slot) ==
  StartSlot <= slot /\ slot <= EndSlot /\ SetActivity /\ Unmoved

StartMissed(slot) ==
  /\ Missed(slot)
  /\ start_slot_checked' = TRUE
  /\ Cancel
  /\ UNCHANGED <<activity, range_end_triggered, grace>>

HandleShred(slot) ==
  /\ \/ BeforeStart(slot) /\ UNCHANGED start_slot_checked
     \/ StartMissed(slot)
     \/ /\ StartSlot <= slot /\ ~Missed(slot)
        /\ start_slot_checked' = TRUE
        /\ PastEnd(slot) \/ WithinRange(slot)
  /\ UNCHANGED <<silent_secs, monitor, duration, main>>

HandleSlotEvent(slot) ==
  /\ \/ BeforeStart(slot)
     \/ StartSlot <= slot /\ (PastEnd(slot) \/ WithinRange(slot))
  /\ UNCHANGED <<silent_secs, monitor, start_slot_checked, duration, main>>

-----------------------------------------------------------------------------
(* The silence monitor and the grace task. *)

MonitorStops ==
  /\ monitor = "due" /\ cancelled
  /\ monitor' = "stopped"
  /\ UNCHANGED <<cancelled, activity, silent_secs, window, timers, main>>

(* Mutant: the silent seconds are not reset. *)
MonitorSeesActivityKeepsCount ==
  /\ monitor = "due" /\ ~cancelled /\ activity
  /\ activity' = FALSE /\ monitor' = "asleep"
  /\ UNCHANGED <<cancelled, silent_secs, window, timers, main>>

(* Mutant: the flag is loaded where it should be swapped. *)
MonitorLoadsActivity ==
  /\ monitor = "due" /\ ~cancelled /\ activity
  /\ silent_secs' = 0 /\ monitor' = "asleep"
  /\ UNCHANGED <<cancelled, activity, window, timers, main>>

MonitorSeesActivity ==
  /\ monitor = "due" /\ ~cancelled /\ activity
  /\ activity' = FALSE /\ silent_secs' = 0 /\ monitor' = "asleep"
  /\ UNCHANGED <<cancelled, window, timers, main>>

(* Mutant: one silent second too many. *)
MonitorCountsOneMore ==
  /\ monitor = "due" /\ ~cancelled /\ ~activity
  /\ silent_secs' = silent_secs + 1
  /\ IF silent_secs + 1 > SilenceTimeout
       THEN monitor' = "stopped" /\ Cancel
       ELSE monitor' = "asleep" /\ UNCHANGED cancelled
  /\ UNCHANGED <<activity, window, timers, main>>

MonitorCountsSilence ==
  /\ monitor = "due" /\ ~cancelled /\ ~activity
  /\ silent_secs' = silent_secs + 1
  /\ IF silent_secs + 1 >= SilenceTimeout
       THEN monitor' = "stopped" /\ Cancel
       ELSE monitor' = "asleep" /\ UNCHANGED cancelled
  /\ UNCHANGED <<activity, window, timers, main>>

Monitor == MonitorStops \/ MonitorSeesActivity \/ MonitorCountsSilence

GraceExpires ==
  /\ grace = Due
  /\ grace' = Off
  /\ Cancel
  /\ UNCHANGED <<activity, silent_secs, monitor, window, duration, main>>

-----------------------------------------------------------------------------
(* main's wait: whichever branch wins, main cancels the token itself. *)

Wake ==
  /\ main = "waiting" /\ main' = "stopping"
  /\ duration' = Off
  /\ Cancel
  /\ UNCHANGED <<activity, silent_secs, monitor, window, grace>>

DurationElapses     == duration = Due /\ Wake
ObserveCancellation == cancelled /\ Wake
CtrlC               == Wake

(* Mutant: the duration elapses in silent seconds only. *)
TickWhileSilent ==
  /\ monitor # "due" /\ grace # Due /\ duration # Due
  /\ monitor' = IF monitor = "asleep" THEN "due" ELSE monitor
  /\ grace' = Elapse(grace)
  /\ duration' = IF activity THEN duration ELSE Elapse(duration)
  /\ UNCHANGED <<cancelled, activity, silent_secs, window, main>>

Tick ==
  /\ monitor # "due" /\ grace # Due /\ duration # Due
  /\ monitor' = IF monitor = "asleep" THEN "due" ELSE monitor
  /\ grace' = Elapse(grace) /\ duration' = Elapse(duration)
  /\ UNCHANGED <<cancelled, activity, silent_secs, window, main>>

-----------------------------------------------------------------------------
ControlInit ==
  /\ cancelled = FALSE /\ activity = TRUE
  /\ silent_secs = 0 /\ monitor = "asleep"
  /\ range_end_triggered = FALSE /\ start_slot_checked = FALSE
  /\ grace = Off
  /\ duration = IF TimedRun THEN Arm(DurationSecs) ELSE Off
  /\ main = "waiting"

Timers == Monitor \/ GraceExpires \/ Tick
Main   == DurationElapses \/ ObserveCancellation \/ CtrlC

ControlNext ==
  \/ \E slot \in Slots : HandleShred(slot) \/ HandleSlotEvent(slot)
  \/ Timers
  \/ Main

(* Timers fire and time passes; traffic and Ctrl+C owe nothing. *)
ControlFairness ==
  /\ WF_controlVars(Monitor)
  /\ WF_controlVars(GraceExpires)
  /\ WF_controlVars(Tick)
  /\ WF_controlVars(DurationElapses \/ ObserveCancellation)

ControlSafety == ControlInit /\ [][ControlNext]_controlVars
ControlSpec   == ControlSafety /\ ControlFairness

-----------------------------------------------------------------------------
ControlFlags ==
  /\ cancelled \in BOOLEAN /\ activity \in BOOLEAN
  /\ range_end_triggered \in BOOLEAN /\ start_slot_checked \in BOOLEAN

(* Type invariant of the control plane. *)
ControlTypeOK ==
  /\ ControlFlags
  /\ silent_secs \in 0..SilenceLimit
  /\ monitor \in {"asleep", "due", "stopped"}
  /\ grace \in 0..GraceSecs + 1 /\ duration \in 0..DurationSecs + 1
  /\ main \in {"waiting", "stopping"}

(* main.rs 307-334: a run that stops hearing from its sources stops: it is *)
(* cancelled, or the aggregator sets the flag that the monitor cleared     *)
(* again and again.                                                        *)
SilenceStopsTheRun ==
  <>cancelled \/ []<><<~activity /\ activity'>>_controlVars

(* main.rs 341-391 and 441-456: once an event beyond EndSlot has been seen *)
(* main stops, whatever traffic goes on.                                   *)
RangeEndStopsTheRun == range_end_triggered ~> main = "stopping"

(* main.rs 444-450: a timed run stops, whatever traffic goes on. *)
DurationStopsTheRun == TimedRun => <>(main = "stopping")
=============================================================================
