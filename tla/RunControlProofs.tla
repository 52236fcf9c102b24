-------------------------- MODULE RunControlProofs --------------------------
(***************************************************************************)
(* The safety properties of the control plane, for every slot window,      *)
(* leader schedule, timeout and duration.  All of them follow from one     *)
(* inductive invariant, which ties the seconds counted by the monitor and  *)
(* by the grace timer to the seconds that have really passed.              *)
(***************************************************************************)
EXTENDS RunControlHistory, TLAPS

Pending(b) == IF b THEN 1 ELSE 0

(* The monitor's count against the time since `activity` was last set: a   *)
(* count of n means at least n and at most n + 1 silent seconds, one more  *)
(* when a wake-up is pending.                                              *)
MonitorInv ==
  /\ ~cancelled => monitor # "stopped"
  /\ monitor # "stopped" =>
       /\ silent_secs < SilenceLimit
       /\ ~activity => silent_secs + Pending(monitor = "due") <= idle
  /\ ~cancelled =>
       /\ activity  => idle <= Pending(monitor = "due")
       /\ ~activity => idle <= silent_secs + 1 + Pending(monitor = "due")

(* An armed grace timer and the time since the first event beyond EndSlot  *)
(* add up to the grace period.                                             *)
GraceInv ==
  grace # Off =>
    RangeMode /\ range_end_triggered /\ overrun + grace = GraceSecs + 1

CauseInv   == cancelled <=> cause # "none"
EnteredInv == entered <=> start_slot_checked

RunInv == RunTypeOK /\ MonitorInv /\ GraceInv /\ CauseInv /\ EnteredInv

LEMMA LimitFacts ==
  /\ SilenceLimit \in Nat \ {0} /\ SilenceTimeout <= SilenceLimit
  /\ SilenceLimit < HistoryBound
BY TimeAssumption, HistoryAssumption DEF SilenceLimit

LEMMA RunInvInit == RunInit => RunInv
<1> SUFFICES ASSUME RunInit PROVE RunInv
  OBVIOUS
<1> USE LimitFacts, TimeAssumption, HistoryAssumption
<1>1. RunFlags
  BY Zenon DEF RunInit, ControlInit, RunFlags, ControlFlags
<1>2. ControlTypeOK
  BY <1>1 DEF RunInit, ControlInit, RunFlags, ControlTypeOK, Off, Arm, TimedRun
<1>3. RunTypeOK
  BY <1>1, <1>2 DEF RunInit, RunTypeOK, Causes
<1>4. MonitorInv
  BY DEF RunInit, ControlInit, MonitorInv, Pending
<1>5. GraceInv /\ CauseInv /\ EnteredInv
  BY DEF RunInit, ControlInit, GraceInv, CauseInv, EnteredInv
<1>6. QED
  BY <1>3, <1>4, <1>5 DEF RunInv

(* An event taken by the aggregator leaves the monitor alone and, when it  *)
(* sets `activity`, starts the silence anew.                               *)
LEMMA RunInvShred ==
  ASSUME RunInv, NEW slot \in Slots, ShredStep(slot)
  PROVE  RunInv'
<1> USE LimitFacts, TimeAssumption, HistoryAssumption, SlotAssumption
<1>1. RunFlags'
  BY Zenon DEF RunInv, RunTypeOK, RunFlags, ControlFlags, ShredStep, HandleShred,
       ShredHistory, BeforeStart, StartMissed, PastEnd, WithinRange, SetActivity, Unmoved,
       Cancel
<1>2. ControlTypeOK'
  BY <1>1 DEF RunInv, RunTypeOK, RunFlags, ControlTypeOK, ShredStep, HandleShred,
       BeforeStart, StartMissed, PastEnd, WithinRange, Unmoved, Arm
<1>3. RunTypeOK'
  BY <1>1, <1>2 DEF RunInv, RunTypeOK, ShredStep, ShredHistory, Heard, Blame, Causes
<1>4. MonitorInv'
  <2>1. UNCHANGED <<silent_secs, monitor>> /\ (cancelled => cancelled')
    BY DEF ShredStep, HandleShred, BeforeStart, StartMissed, PastEnd, WithinRange, Unmoved,
         Cancel
  <2>2. \/ activity' = TRUE /\ idle' = 0
        \/ UNCHANGED <<activity, idle>>
    <3>1. CASE Refreshes(slot) /\ ~Missed(slot)
      BY <3>1 DEF ShredStep, HandleShred, ShredHistory, Heard, BeforeStart, StartMissed,
                  PastEnd, WithinRange, SetActivity, Refreshes
    <3>2. CASE ~(Refreshes(slot) /\ ~Missed(slot))
      BY <3>2 DEF ShredStep, HandleShred, ShredHistory, Heard, BeforeStart, StartMissed,
                  PastEnd, WithinRange, Refreshes, Missed
    <3>3. QED
      BY <3>1, <3>2
  <2>3. QED
    BY <2>1, <2>2 DEF RunInv, RunTypeOK, ControlTypeOK, MonitorInv, Pending
<1>5. GraceInv'
  BY DEF RunInv, RunTypeOK, ControlTypeOK, ShredStep, HandleShred, ShredHistory, Heard,
       GraceInv, BeforeStart, StartMissed, PastEnd, WithinRange, Unmoved, Off, Arm
<1>6. CauseInv'
  BY DEF RunInv, ShredStep, HandleShred, ShredHistory, Heard, Blame, CauseInv,
       BeforeStart, StartMissed, PastEnd, WithinRange, Unmoved, Cancel
<1>7. EnteredInv'
  <2>1. CASE slot < StartSlot
    <3>1. ~(slot >= StartSlot) /\ ~(slot > StartSlot)
      BY <2>1
    <3>2. UNCHANGED start_slot_checked
      BY <2>1, <3>1 DEF ShredStep, HandleShred, BeforeStart, StartMissed, Missed
    <3>3. entered' <=> entered
      BY <3>1, Zenon DEF ShredStep, ShredHistory
    <3>4. QED
      BY <3>2, <3>3 DEF RunInv, EnteredInv
  <2>2. CASE slot >= StartSlot
    <3>1. start_slot_checked' = TRUE
      BY <2>2 DEF ShredStep, HandleShred, BeforeStart, StartMissed
    <3>2. entered'
      BY <2>2, Zenon DEF ShredStep, ShredHistory
    <3>3. QED
      BY <3>1, <3>2 DEF EnteredInv
  <2>3. QED
    BY <2>1, <2>2
<1>8. QED
  BY <1>3, <1>4, <1>5, <1>6, <1>7 DEF RunInv

LEMMA RunInvSlotEvent ==
  ASSUME RunInv, NEW slot \in Slots, SlotEventStep(slot)
  PROVE  RunInv'
<1> USE LimitFacts, TimeAssumption, HistoryAssumption, SlotAssumption
<1>1. RunFlags'
  BY Zenon DEF RunInv, RunTypeOK, RunFlags, ControlFlags, SlotEventStep, HandleSlotEvent,
       BeforeStart, PastEnd, WithinRange, SetActivity, Unmoved
<1>2. ControlTypeOK'
  BY <1>1 DEF RunInv, RunTypeOK, RunFlags, ControlTypeOK, SlotEventStep, HandleSlotEvent,
       BeforeStart, PastEnd, WithinRange, Unmoved, Arm
<1>3. RunTypeOK'
  BY <1>1, <1>2 DEF RunInv, RunTypeOK, SlotEventStep, Heard, Blame, Causes
<1>4. MonitorInv'
  <2>1. UNCHANGED <<silent_secs, monitor, cancelled>>
    BY DEF SlotEventStep, HandleSlotEvent, BeforeStart, PastEnd, WithinRange, Unmoved
  <2>2. \/ activity' = TRUE /\ idle' = 0
        \/ UNCHANGED <<activity, idle>>
    <3>1. CASE Refreshes(slot)
      BY <3>1 DEF SlotEventStep, HandleSlotEvent, Heard, BeforeStart, PastEnd, WithinRange,
                  SetActivity, Refreshes
    <3>2. CASE ~Refreshes(slot)
      BY <3>2 DEF SlotEventStep, HandleSlotEvent, Heard, BeforeStart, PastEnd, WithinRange,
                  Refreshes
    <3>3. QED
      BY <3>1, <3>2
  <2>3. QED
    BY <2>1, <2>2 DEF RunInv, RunTypeOK, ControlTypeOK, MonitorInv, Pending
<1>5. GraceInv'
  BY DEF RunInv, RunTypeOK, ControlTypeOK, SlotEventStep, HandleSlotEvent, Heard,
       GraceInv, BeforeStart, PastEnd, WithinRange, Unmoved, Off, Arm
<1>6. CauseInv' /\ EnteredInv'
  BY DEF RunInv, SlotEventStep, HandleSlotEvent, Heard, Blame, CauseInv, EnteredInv,
       BeforeStart, PastEnd, WithinRange, Unmoved
<1>7. QED
  BY <1>3, <1>4, <1>5, <1>6 DEF RunInv

LEMMA RunInvMonitor ==
  ASSUME RunInv, MonitorStep
  PROVE  RunInv'
<1> USE LimitFacts, TimeAssumption, HistoryAssumption
<1>1. RunFlags'
  BY Zenon DEF RunInv, RunTypeOK, RunFlags, ControlFlags, MonitorStep, Monitor,
       MonitorStops, MonitorSeesActivity, MonitorCountsSilence, Remember, Cancel, window
<1>2. ControlTypeOK'
  BY <1>1 DEF RunInv, RunTypeOK, RunFlags, ControlTypeOK, MonitorStep, Monitor,
       MonitorStops, MonitorSeesActivity, MonitorCountsSilence, MonitorInv, timers
<1>3. RunTypeOK'
  BY <1>1, <1>2 DEF RunInv, RunTypeOK, MonitorStep, Remember, Blame, Causes
<1>4. MonitorInv'
  <2>1. CASE MonitorStops
    BY <2>1 DEF RunInv, MonitorInv, MonitorStep, Remember, MonitorStops
  <2>2. CASE MonitorSeesActivity
    BY <2>2 DEF RunInv, RunTypeOK, MonitorInv, MonitorStep, Remember, MonitorSeesActivity,
                Pending
  <2>3. CASE MonitorCountsSilence
    BY <2>3 DEF RunInv, RunTypeOK, ControlTypeOK, MonitorInv, MonitorStep, Remember,
                MonitorCountsSilence, Cancel, Pending, SilenceLimit
  <2>4. QED
    BY <2>1, <2>2, <2>3 DEF MonitorStep, Monitor
<1>5. GraceInv' /\ CauseInv' /\ EnteredInv'
  BY DEF RunInv, GraceInv, CauseInv, EnteredInv, MonitorStep, Monitor, MonitorStops,
       MonitorSeesActivity, MonitorCountsSilence, Remember, Blame, Cancel, window, timers
<1>6. QED
  BY <1>3, <1>4, <1>5 DEF RunInv

LEMMA RunInvGrace ==
  ASSUME RunInv, GraceStep
  PROVE  RunInv'
<1> USE LimitFacts, TimeAssumption, HistoryAssumption DEF GraceStep, GraceExpires
<1>1. RunFlags'
  BY Zenon DEF RunInv, RunTypeOK, RunFlags, ControlFlags, Remember, Cancel, window
<1>2. RunTypeOK'
  BY <1>1 DEF RunInv, RunTypeOK, RunFlags, ControlTypeOK, Remember, Blame, Causes, Off
<1>3. MonitorInv' /\ GraceInv' /\ CauseInv' /\ EnteredInv'
  BY DEF RunInv, MonitorInv, GraceInv, CauseInv, EnteredInv, Remember, Blame, Cancel,
         window, Off
<1>4. QED
  BY <1>2, <1>3 DEF RunInv

LEMMA RunInvMain ==
  ASSUME RunInv, MainStep
  PROVE  RunInv'
<1> USE LimitFacts, TimeAssumption, HistoryAssumption DEF Wake
<1>1. Wake /\ Remember("main")
  BY DEF MainStep, Main, DurationElapses, ObserveCancellation, CtrlC
<1>2. RunFlags'
  BY <1>1, Zenon DEF RunInv, RunTypeOK, RunFlags, ControlFlags, Remember, Cancel, window
<1>3. RunTypeOK'
  BY <1>1, <1>2 DEF RunInv, RunTypeOK, RunFlags, ControlTypeOK, Remember, Blame, Causes, Off
<1>4. MonitorInv' /\ GraceInv' /\ CauseInv' /\ EnteredInv'
  BY <1>1 DEF RunInv, MonitorInv, GraceInv, CauseInv, EnteredInv, Remember, Blame, Cancel,
              window, Off
<1>5. QED
  BY <1>3, <1>4 DEF RunInv

(* A second passes for the history exactly as it passes for the timers.    *)
LEMMA RunInvSecond ==
  ASSUME RunInv, SecondPasses
  PROVE  RunInv'
<1> USE LimitFacts, TimeAssumption, HistoryAssumption DEF SecondPasses, Tick
<1>1. RunFlags'
  BY Zenon DEF RunInv, RunTypeOK, RunFlags, ControlFlags, window
<1>2. RunTypeOK'
  BY <1>1 DEF RunInv, RunTypeOK, RunFlags, ControlTypeOK, Elapse, Older, Due
<1>3. MonitorInv'
  BY DEF RunInv, RunTypeOK, ControlTypeOK, MonitorInv, Older, Pending
<1>4. GraceInv'
  BY DEF RunInv, RunTypeOK, ControlTypeOK, GraceInv, Older, Elapse, Off, Due, window
<1>5. CauseInv' /\ EnteredInv'
  BY DEF RunInv, CauseInv, EnteredInv, window
<1>6. QED
  BY <1>2, <1>3, <1>4, <1>5 DEF RunInv

LEMMA RunInvStutter ==
  ASSUME RunInv, UNCHANGED runVars
  PROVE  RunInv'
BY DEF RunInv, RunTypeOK, RunFlags, ControlTypeOK, ControlFlags, MonitorInv, GraceInv,
       CauseInv, EnteredInv, runVars, controlVars, historyVars, window, timers, Pending

(* The inductive invariant of the control plane (main.rs 307-459). *)
THEOREM RunInvariant == RunSpec => []RunInv
<1>1. RunInv /\ [RunNext]_runVars => RunInv'
  BY RunInvShred, RunInvSlotEvent, RunInvMonitor, RunInvGrace, RunInvMain, RunInvSecond,
     RunInvStutter DEF RunNext
<1>2. QED
  BY <1>1, RunInvInit, PTL DEF RunSpec

(* Type correctness of the control plane. *)
THEOREM TypeCorrect == RunSpec => []RunTypeOK
BY RunInvariant, PTL DEF RunInv

(* main.rs 309-334: polling a flag once a second notices every silence,    *)
(* at most one second late.                                                *)
THEOREM SilenceNoticed == RunSpec => []SilenceIsNoticed
<1>1. RunInv => SilenceIsNoticed
  BY LimitFacts, HistoryAssumption
     DEF RunInv, RunTypeOK, ControlTypeOK, MonitorInv, SilenceIsNoticed, Pending
<1>2. QED
  BY <1>1, RunInvariant, PTL

(* main.rs 319-328: the monitor cancels only after a silence as long as    *)
(* the timeout.                                                            *)
THEOREM SilenceReal == RunSpec => SilenceIsReal
<1>1. RunInv /\ [RunNext]_runVars =>
        [cause = "none" /\ cause' = "silence" => idle >= SilenceTimeout]_runVars
  <2>1. SUFFICES ASSUME RunInv, RunNext, cause = "none", cause' = "silence"
                 PROVE  idle >= SilenceTimeout
    OBVIOUS
  <2>2. MonitorStep
    BY <2>1 DEF RunNext, ShredStep, ShredHistory, SlotEventStep, Heard, GraceStep, MainStep,
                SecondPasses, Remember, Blame
  <2>3. MonitorCountsSilence /\ ~activity /\ silent_secs + 1 >= SilenceTimeout
    BY <2>1, <2>2 DEF MonitorStep, Monitor, MonitorStops, MonitorSeesActivity,
                      MonitorCountsSilence, Remember, Blame
  <2>4. QED
    BY <2>1, <2>3, TimeAssumption, HistoryAssumption
       DEF RunInv, RunTypeOK, ControlTypeOK, MonitorInv, MonitorCountsSilence, Pending
<1>2. QED
  BY <1>1, RunInvariant, PTL DEF RunSpec, SilenceIsReal

(* main.rs 368-390, 415-422: the slot window cuts a run short only after   *)
(* the full grace period, or when its first shred of the range is late.    *)
THEOREM WindowCutJustified == RunSpec => WindowCutIsJustified
<1>1. RunInv /\ [RunNext]_runVars =>
        [/\ cause = "none" /\ cause' = "range_end" =>
               RangeMode /\ range_end_triggered /\ overrun = GraceSecs
         /\ cause = "none" /\ cause' = "missed" =>
               StartConfigured /\ ~entered]_runVars
  <2>1. SUFFICES ASSUME RunInv, RunNext, cause = "none"
                 PROVE  /\ cause' = "range_end" =>
                             RangeMode /\ range_end_triggered /\ overrun = GraceSecs
                        /\ cause' = "missed" => StartConfigured /\ ~entered
    OBVIOUS
  <2>2. ASSUME cause' = "range_end"
        PROVE  RangeMode /\ range_end_triggered /\ overrun = GraceSecs
    <3>1. GraceStep
      BY <2>1, <2>2 DEF RunNext, ShredStep, ShredHistory, SlotEventStep, Heard, MonitorStep,
                        MainStep, SecondPasses, Remember, Blame
    <3>2. QED
      BY <2>1, <3>1, TimeAssumption, HistoryAssumption
         DEF RunInv, RunTypeOK, ControlTypeOK, GraceInv, GraceStep, GraceExpires, Due, Off
  <2>3. ASSUME cause' = "missed"
        PROVE  StartConfigured /\ ~entered
    <3>1. PICK slot \in Slots : ShredStep(slot) \/ SlotEventStep(slot)
      BY <2>1, <2>3 DEF RunNext, GraceStep, MonitorStep, MainStep, SecondPasses, Remember,
                        Blame
    <3>2. ~cancelled /\ cancelled'
      BY <2>1, <2>3, <3>1 DEF ShredStep, ShredHistory, SlotEventStep, Heard, Blame
    <3>3. HandleShred(slot) /\ StartMissed(slot)
      BY <3>1, <3>2 DEF ShredStep, HandleShred, SlotEventStep, HandleSlotEvent, BeforeStart,
                        PastEnd, WithinRange, Unmoved
    <3>4. QED
      BY <2>1, <3>3 DEF StartMissed, Missed, RunInv, EnteredInv
  <2>4. QED
    BY <2>2, <2>3
<1>2. QED
  BY <1>1, RunInvariant, PTL DEF RunSpec, WindowCutIsJustified
=============================================================================
