---------------------------- MODULE LedgerProofs ----------------------------
(***************************************************************************)
(* The balance of the ledger, for any set of sources and any number of     *)
(* events.                                                                 *)
(***************************************************************************)
EXTENDS Ledger, FiniteSetTheorems, TLAPS

(* An event is in one place at a time, and only sent events are anywhere.  *)
LedgerTypeOK ==
  /\ drops \in [Sources -> Nat]
  /\ IsFiniteSet(sent)
  /\ transit \subseteq sent /\ booked \subseteq sent /\ transit \cap booked = {}

LedgerInv == LedgerTypeOK /\ Balanced

(* Sets of events are split by source like any other. *)
LEMMA OfIsFinite ==
  ASSUME NEW S, IsFiniteSet(S), NEW source
  PROVE  IsFiniteSet(Of(source, S)) /\ Cardinality(Of(source, S)) \in Nat
BY FS_Subset, FS_CardinalityType DEF Of

LEMMA OfDisjointUnion ==
  ASSUME NEW S, NEW T, IsFiniteSet(S), IsFiniteSet(T), S \cap T = {}, NEW source
  PROVE  Cardinality(Of(source, S \cup T))
           = Cardinality(Of(source, S)) + Cardinality(Of(source, T))
<1>1. Of(source, S \cup T) = Of(source, S) \cup Of(source, T)
  BY DEF Of
<1>2. Of(source, S) \cap Of(source, T) = {}
  BY DEF Of
<1>3. Cardinality(Of(source, S) \cap Of(source, T)) = 0
  BY <1>2, FS_EmptySet
<1>4. /\ IsFiniteSet(Of(source, S)) /\ Cardinality(Of(source, S)) \in Nat
      /\ IsFiniteSet(Of(source, T)) /\ Cardinality(Of(source, T)) \in Nat
  BY OfIsFinite
<1>5. Cardinality(Of(source, S) \cup Of(source, T))
        = Cardinality(Of(source, S)) + Cardinality(Of(source, T)) - 0
  BY <1>3, <1>4, FS_Union
<1>6. Cardinality(Of(source, S \cup T)) = Cardinality(Of(source, S) \cup Of(source, T))
  BY <1>1, Zenon
<1>7. QED
  BY <1>4, <1>5, <1>6

LEMMA SendKeeps ==
  ASSUME LedgerInv, NEW source \in Sources, NEW new, NEW accepted,
         Send(source, new, accepted)
  PROVE  LedgerInv'
<1> USE DEF LedgerInv, LedgerTypeOK, Send
<1>1. IsFiniteSet(new) /\ IsFiniteSet(accepted) /\ IsFiniteSet(new \ accepted)
  BY FS_Subset
<1>2. IsFiniteSet(transit) /\ IsFiniteSet(booked)
  BY FS_Subset
<1>3. Cardinality(new \ accepted) \in Nat
  BY <1>1, FS_CardinalityType
<1>4. IsFiniteSet(sent \cup new)
  BY <1>1, FS_Union
<1>5. LedgerTypeOK'
  BY <1>3, <1>4
<1>6. ASSUME NEW s \in Sources
      PROVE  drops'[s] + Cardinality(Of(s, transit')) + Cardinality(Of(s, booked'))
               <= Cardinality(Of(s, sent'))
  <2> DEFINE dropped == Cardinality(Of(s, new \ accepted))
             kept    == Cardinality(Of(s, accepted))
  <2>1. transit \cap accepted = {}
    OBVIOUS
  <2>2. Cardinality(Of(s, transit')) = Cardinality(Of(s, transit)) + kept
    BY <1>1, <1>2, <2>1, OfDisjointUnion
  <2>3. Cardinality(Of(s, sent')) = Cardinality(Of(s, sent)) + Cardinality(Of(s, new))
    BY <1>1, OfDisjointUnion
  <2>4. new = accepted \cup (new \ accepted) /\ accepted \cap (new \ accepted) = {}
    OBVIOUS
  <2>5. Cardinality(Of(s, new)) = kept + dropped
    BY <1>1, <2>4, OfDisjointUnion
  <2>6. drops'[s] = drops[s] + dropped
    <3>1. CASE s = source
      <4>1. Of(s, new \ accepted) = new \ accepted
        BY <3>1 DEF Of
      <4>2. QED
        BY <3>1, <4>1
    <3>2. CASE s # source
      <4>1. Of(s, new \ accepted) = {}
        BY <3>2 DEF Of
      <4>2. dropped = 0
        BY <4>1, FS_EmptySet
      <4>3. drops'[s] = drops[s] /\ drops[s] \in Nat
        BY <3>2
      <4>4. QED
        BY <4>2, <4>3
    <3>3. QED
      BY <3>1, <3>2
  <2>7. drops[s] + Cardinality(Of(s, transit)) + Cardinality(Of(s, booked))
          <= Cardinality(Of(s, sent))
    BY DEF Balanced
  <2>8. /\ drops[s] \in Nat /\ dropped \in Nat /\ kept \in Nat
        /\ Cardinality(Of(s, transit)) \in Nat /\ Cardinality(Of(s, booked)) \in Nat
        /\ Cardinality(Of(s, sent)) \in Nat
    BY <1>1, <1>2, OfIsFinite
  <2>9. booked' = booked
    OBVIOUS
  <2> HIDE DEF dropped, kept, LedgerInv, LedgerTypeOK, Send
  <2>10. QED
    BY <2>2, <2>3, <2>5, <2>6, <2>7, <2>8, <2>9
<1>7. Balanced'
  BY <1>6 DEF Balanced
<1>8. QED
  BY <1>5, <1>7

LEMMA SettleKeeps ==
  ASSUME LedgerInv, NEW event \in transit, Settle(event)
  PROVE  LedgerInv'
<1> USE DEF LedgerInv, LedgerTypeOK, Settle
<1>1. IsFiniteSet(transit) /\ IsFiniteSet(booked)
  BY FS_Subset
<1>2. LedgerTypeOK'
  OBVIOUS
<1>3. IsFiniteSet(transit') /\ IsFiniteSet({event})
  BY <1>1, FS_RemoveElement, FS_Singleton
<1>4. ASSUME NEW s \in Sources
      PROVE  drops'[s] + Cardinality(Of(s, transit')) + Cardinality(Of(s, booked'))
               <= Cardinality(Of(s, sent'))
  <2> DEFINE one == Cardinality(Of(s, {event}))
  <2>1. transit = transit' \cup {event} /\ transit' \cap {event} = {}
    OBVIOUS
  <2>2. Cardinality(Of(s, transit)) = Cardinality(Of(s, transit')) + one
    BY <1>3, <2>1, OfDisjointUnion
  <2>3. booked \cap {event} = {}
    OBVIOUS
  <2>4. Cardinality(Of(s, booked \cup {event})) = Cardinality(Of(s, booked)) + one
    BY <1>1, <1>3, <2>3, OfDisjointUnion
  <2>5. drops[s] + Cardinality(Of(s, transit)) + Cardinality(Of(s, booked))
          <= Cardinality(Of(s, sent))
    BY DEF Balanced
  <2>6. /\ drops[s] \in Nat /\ one \in Nat
        /\ Cardinality(Of(s, transit')) \in Nat /\ Cardinality(Of(s, booked)) \in Nat
        /\ Cardinality(Of(s, sent)) \in Nat
    BY <1>1, <1>3, OfIsFinite
  <2>7. drops' = drops /\ sent' = sent /\ (booked' = booked \/ booked' = booked \cup {event})
    OBVIOUS
  <2> HIDE DEF one, LedgerInv, LedgerTypeOK, Settle
  <2>8. \/ Cardinality(Of(s, booked')) = Cardinality(Of(s, booked))
        \/ Cardinality(Of(s, booked')) = Cardinality(Of(s, booked \cup {event}))
    BY <2>7, Zenon
  <2>9. drops'[s] = drops[s] /\ Cardinality(Of(s, sent')) = Cardinality(Of(s, sent))
    BY <2>7, Zenon
  <2>10. QED
    BY <2>2, <2>4, <2>5, <2>6, <2>8, <2>9
<1>5. Balanced'
  BY <1>4 DEF Balanced
<1>6. QED
  BY <1>2, <1>5

LEMMA LedgerInvInit == Init => LedgerInv
<1> SUFFICES ASSUME Init PROVE LedgerInv
  OBVIOUS
<1>1. LedgerTypeOK
  BY FS_EmptySet DEF Init, LedgerTypeOK
<1>2. \A s \in Sources : Of(s, {}) = {}
  BY DEF Of
<1>3. Balanced
  BY <1>2, FS_EmptySet DEF Init, Balanced
<1>4. QED
  BY <1>1, <1>3 DEF LedgerInv

LEMMA LedgerInvNext == LedgerInv /\ [Next]_vars => LedgerInv'
<1> SUFFICES ASSUME LedgerInv, [Next]_vars PROVE LedgerInv'
  OBVIOUS
<1>1. CASE \E source \in Sources : Send(source, sent' \ sent, transit' \ transit)
  BY <1>1, SendKeeps
<1>2. CASE \E event \in transit : Settle(event)
  BY <1>2, SettleKeeps
<1>3. CASE Close
  BY <1>3 DEF Close, LedgerInv, LedgerTypeOK, Balanced, Of
<1>4. CASE UNCHANGED vars
  BY <1>4 DEF vars, LedgerInv, LedgerTypeOK, Balanced, Of
<1>5. QED
  BY <1>1, <1>2, <1>3, <1>4 DEF Next

(* registry.rs 13-38 and main.rs 347-439: no event is counted twice.       *)
(* Drops, events under way and events in the registry never exceed what a  *)
(* source sent, whatever is refused and however the run ends.              *)
THEOREM LedgerBalances == Spec => []Balanced
<1>1. LedgerInv => Balanced
  BY DEF LedgerInv
<1>2. QED
  BY <1>1, LedgerInvInit, LedgerInvNext, PTL DEF Spec
=============================================================================
