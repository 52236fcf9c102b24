------------------------- MODULE RunControlHistory -------------------------
(***************************************************************************)
(* RunControl with history variables: what cancelled the run first, how    *)
(* long the aggregator has been silent, and which shreds it has handled.   *)
(* No step of RunControl reads them; the properties of the control plane   *)
(* that relate a decision to the past that led to it are stated here.      *)
(***************************************************************************)
EXTENDS RunControl

CONSTANT HistoryBound  \* bound of the second counters idle and overrun

ASSUME HistoryAssumption ==
  HistoryBound \in Nat /\ HistoryBound > SilenceTimeout + 1
  /\ HistoryBound > GraceSecs + 1

VARIABLES
  cause,    \* what cancelled the run first
  idle,     \* seconds since the aggregator last set `activity`
  overrun,  \* seconds since the first event beyond EndSlot
  early,    \* has a shred below StartSlot been handled?
  entered   \* has a shred at or beyond StartSlot been handled?

historyVars == <<cause, idle, overrun, early, entered>>
runVars     == <<controlVars, historyVars>>

Causes == {"none", "silence", "range_end", "missed", "main"}

Blame(reason) == cause' = IF ~cancelled /\ cancelled' THEN reason ELSE cause

Older(n) == IF n < HistoryBound THEN n + 1 ELSE n

Refreshes(slot) == slot < StartSlot \/ slot <= EndSlot

(* The aggregator has just taken an event; refreshed tells whether it set  *)
(* `activity`, which is not visible when the flag was set already.         *)
Heard(refreshed) ==
  /\ idle' = IF refreshed THEN 0 ELSE idle
  /\ overrun' = IF range_end_triggered' # range_end_triggered THEN 0 ELSE overrun
  /\ Blame("missed")

ShredHistory(slot) ==
  /\ Heard(Refreshes(slot) /\ ~Missed(slot))
  /\ early' = (early \/ slot < StartSlot)
  /\ entered' = (entered \/ slot >= StartSlot)

Remember(reason) ==
  Blame(reason) /\ UNCHANGED <<idle, overrun, early, entered>>

RunInit ==
  /\ ControlInit
  /\ cause = "none" /\ idle = 0 /\ overrun = 0
  /\ early = FALSE /\ entered = FALSE

ShredStep(slot) == HandleShred(slot) /\ ShredHistory(slot)
SlotEventStep(slot) ==
  /\ HandleSlotEvent(slot)
  /\ Heard(Refreshes(slot)) /\ UNCHANGED <<early, entered>>
MonitorStep  == Monitor /\ Remember("silence")
GraceStep    == GraceExpires /\ Remember("range_end")
MainStep     == Main /\ Remember("main")
SecondPasses ==
  /\ Tick
  /\ idle' = Older(idle) /\ overrun' = Older(overrun)
  /\ UNCHANGED <<cause, early, entered>>

RunNext ==
  \/ \E slot \in Slots : ShredStep(slot) \/ SlotEventStep(slot)
  \/ MonitorStep \/ GraceStep \/ MainStep \/ SecondPasses

RunSpec == RunInit /\ [][RunNext]_runVars

(* The fairness of RunControl; its actions are not restricted here. *)
FairRunSpec == RunSpec /\ ControlFairness

-----------------------------------------------------------------------------
RunFlags == ControlFlags /\ early \in BOOLEAN /\ entered \in BOOLEAN

(* Type invariant of the control plane with its history. *)
RunTypeOK ==
  /\ ControlTypeOK /\ RunFlags
  /\ cause \in Causes
  /\ idle \in 0..HistoryBound /\ overrun \in 0..HistoryBound

(* The monitor polls a flag that the aggregator keeps setting              *)
(* (main.rs 309-334) and yet measures silence: while the run is alive the  *)
(* time since `activity` was last set never exceeds the timeout by more    *)
(* than the second the monitor may sleep.                                  *)
SilenceIsNoticed ==
  ~cancelled =>
    idle <= SilenceLimit + (IF monitor = "due" THEN 1 ELSE 0)

(* The monitor (main.rs 319-328) cancels a run only when `activity` has    *)
(* not been set for SilenceTimeout seconds, whatever the aggregator did    *)
(* between two of its wake-ups.                                            *)
SilenceIsReal ==
  [][cause = "none" /\ cause' = "silence" => idle >= SilenceTimeout]_runVars

(* A run is cut short by its slot window only as configured: the grace     *)
(* task (main.rs 382-390, 415-422) leaves the stragglers of the range      *)
(* exactly GraceSecs after the first event beyond EndSlot, and a start     *)
(* slot is declared missed (main.rs 368-379) only when no shred of the     *)
(* range came before.                                                      *)
WindowCutIsJustified ==
  [][/\ cause = "none" /\ cause' = "range_end" =>
          RangeMode /\ range_end_triggered /\ overrun = GraceSecs
     /\ cause = "none" /\ cause' = "missed" =>
          StartConfigured /\ ~entered]_runVars

(* The warning of main.rs 371-375, "start_slot {} is already in the past": *)
(* a run that has handled a shred below start_slot was started in time and *)
(* is not stopped as missed.                                               *)
MissedMeansPast == [][cause = "none" /\ cause' = "missed" => ~early]_runVars
=============================================================================
