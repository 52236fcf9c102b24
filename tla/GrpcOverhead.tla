---------------------------- MODULE GrpcOverhead ----------------------------
(***************************************************************************)
(* The gRPC overhead samples of a Yellowstone stream                       *)
(* (connect_and_stream, src/src/sources/yellowstone.rs): entries of recent *)
(* slots are remembered with their times of arrival, and an account update *)
(* is measured against the latest entry of its slot.                       *)
(*                                                                         *)
(* The validator is external.  It produces entries and updates of          *)
(* accounts; an update is caused by one entry of its slot, and the stream  *)
(* delivers it after that entry (yellowstone.rs 199-200), or the entry was *)
(* produced while the stream was down.                                     *)
(***************************************************************************)
EXTENDS Naturals, Sequences, FiniteSets, FiniteSetsExt

CONSTANTS
  Slots,     \* slots of entries and updates
  Window,    \* slots that are kept behind the highest one
  MaxClock   \* bound of the clock

ASSUME OverheadAssumption == Slots \subseteq Nat /\ Window \in Nat /\ MaxClock \in Nat

VARIABLES
  entry_map,      \* slot -> times of the entries remembered
  max_slot_seen,
  connected,
  clock,
  entries,        \* the validator: entries so far, as [slot, at]
  last_sample     \* history: the last sample, as [slot, latency, truth]

vars == <<entry_map, max_slot_seen, connected, clock, entries, last_sample>>

NoMap    == [s \in {} |-> {}]
NoSample == [slot |-> 0, latency |-> 0, truth |-> 0]

-----------------------------------------------------------------------------
Advance == clock < MaxClock /\ clock' \in {clock, clock + 1}

(* Each connection starts without entries. *)
Connect ==
  /\ ~connected /\ connected' = TRUE
  /\ entry_map' = NoMap /\ max_slot_seen' = 0
  /\ UNCHANGED <<clock, entries, last_sample>>

Disconnect ==
  /\ connected /\ connected' = FALSE
  /\ UNCHANGED <<entry_map, max_slot_seen, clock, entries, last_sample>>

Highest(slot) == IF slot > max_slot_seen THEN slot ELSE max_slot_seen

(* Mutant: the window is counted from the entry's slot. *)
RetainedBehind(slot, map, highest) ==
  IF slot > Window
    THEN [s \in {t \in DOMAIN map : t >= slot - Window} |-> map[s]]
    ELSE map

(* The map without the slots that are more than Window behind. *)
Retained(slot, map, highest) ==
  IF highest > Window
    THEN [s \in {t \in DOMAIN map : t >= highest - Window} |-> map[s]]
    ELSE map

(* Mutant: every entry goes to the highest slot. *)
RememberAtHighest(slot, at) ==
  LET key == Highest(slot) IN
  [s \in DOMAIN entry_map \cup {key} |->
     (IF s \in DOMAIN entry_map THEN entry_map[s] ELSE {})
       \cup (IF s = key THEN {at} ELSE {})]

Remember(slot, at) ==
  [s \in DOMAIN entry_map \cup {slot} |->
     (IF s \in DOMAIN entry_map THEN entry_map[s] ELSE {})
       \cup (IF s = slot THEN {at} ELSE {})]

Entry(slot) ==
  /\ Advance
  /\ entries' = entries \cup {[slot |-> slot, at |-> clock']}
  /\ IF connected
       THEN /\ max_slot_seen' = Highest(slot)
            /\ entry_map' = Retained(slot, Remember(slot, clock'), Highest(slot))
       ELSE UNCHANGED <<max_slot_seen, entry_map>>
  /\ UNCHANGED <<connected, last_sample>>

(* Mutant: the first entry of the slot is the baseline. *)
EarliestBaseline(slot) == Min(entry_map[slot])

Baseline(slot) == Max(entry_map[slot])

(* An update, caused by an entry of its slot. *)
Account(cause) ==
  /\ Advance /\ connected
  /\ last_sample' =
       IF cause.slot \in DOMAIN entry_map
         THEN [slot |-> cause.slot, latency |-> clock' - Baseline(cause.slot),
               truth |-> clock' - cause.at]
         ELSE last_sample
  /\ UNCHANGED <<entry_map, max_slot_seen, connected, entries>>

Init ==
  /\ entry_map = NoMap /\ max_slot_seen = 0 /\ connected = FALSE
  /\ clock = 0 /\ entries = {} /\ last_sample = NoSample

Next ==
  \/ Connect \/ Disconnect
  \/ \E slot \in Slots : Entry(slot)
  \/ \E cause \in entries : Account(cause)

Spec == Init /\ [][Next]_vars

-----------------------------------------------------------------------------
(* Type invariant; what is remembered are entries that arrived. *)
TypeOK ==
  /\ DOMAIN entry_map \subseteq Slots
  /\ \A s \in DOMAIN entry_map :
       entry_map[s] # {} /\ \A t \in entry_map[s] : [slot |-> s, at |-> t] \in entries
  /\ max_slot_seen \in Slots \cup {0} /\ connected \in BOOLEAN /\ clock \in 0..MaxClock
  /\ last_sample \in [slot : Slots \cup {0}, latency : Nat, truth : Nat]

(* yellowstone.rs 178-181: late entries and slots out of order included,   *)
(* the map holds at most Window + 1 slots, all near the highest one.       *)
MemoryIsBounded ==
  /\ Cardinality(DOMAIN entry_map) <= Window + 1
  /\ \A s \in DOMAIN entry_map : s <= max_slot_seen /\ s + Window >= max_slot_seen

(* yellowstone.rs 202-213: a sample never overstates the overhead, even if *)
(* entries were missed while the stream was down or forgotten since.       *)
NeverOverstated == last_sample.latency <= last_sample.truth
=============================================================================
