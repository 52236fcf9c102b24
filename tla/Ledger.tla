------------------------------- MODULE Ledger -------------------------------
(***************************************************************************)
(* What a run promises of the events that its sources send: each is either *)
(* counted as a drop at once, or travels to the aggregator, which books it *)
(* in the registry or passes it over, once.  What still travels when the   *)
(* aggregator ends stays there for ever, uncounted.                        *)
(*                                                                         *)
(* Orbshred implements this specification.                                 *)
(***************************************************************************)
EXTENDS Naturals, FiniteSets

CONSTANT Sources

VARIABLES
  sent,     \* the events that sources have sent
  transit,  \* those on their way to the aggregator
  booked,   \* those that the registry shows
  drops,    \* source -> number of events it could not send
  open      \* is the aggregator there?

vars == <<sent, transit, booked, drops, open>>

Init ==
  /\ sent = {} /\ transit = {} /\ booked = {}
  /\ drops = [s \in Sources |-> 0] /\ open = TRUE

(* A source sends new events; some may be refused, and are counted. *)
Send(source, new, accepted) ==
  /\ new # {} /\ IsFiniteSet(new) /\ new \cap sent = {}
  /\ \A e \in new : e.source = source
  /\ accepted \subseteq new /\ (accepted # {} => open)
  /\ sent' = sent \cup new
  /\ transit' = transit \cup accepted
  /\ drops' = [drops EXCEPT ![source] = @ + Cardinality(new \ accepted)]
  /\ UNCHANGED <<booked, open>>

(* The registry keeps only the earliest slot event of a source, and what   *)
(* lies outside of the window is passed over.                              *)
Settle(event) ==
  /\ open /\ event \in transit
  /\ transit' = transit \ {event}
  /\ booked' = booked \/ booked' = booked \cup {event}
  /\ UNCHANGED <<sent, drops, open>>

Close ==
  /\ open /\ open' = FALSE
  /\ UNCHANGED <<sent, transit, booked, drops>>

(* The parameters of Send follow from the step. *)
Next ==
  \/ \E source \in Sources : Send(source, sent' \ sent, transit' \ transit)
  \/ \E event \in transit : Settle(event)
  \/ Close

Spec == Init /\ [][Next]_vars

-----------------------------------------------------------------------------
Of(source, events) == {e \in events : e.source = source}

(* The balance of a source (registry.rs 13-38, table.rs "drops"): drops,   *)
(* events under way and events in the registry are no more than it sent;   *)
(* nothing is counted twice, whenever the run is stopped.                  *)
Balanced ==
  \A source \in Sources :
    drops[source] + Cardinality(Of(source, transit)) + Cardinality(Of(source, booked))
      <= Cardinality(Of(source, sent))
=============================================================================
