-------------------------- MODULE JitoSessionProofs --------------------------
(***************************************************************************)
(* The timing of a session, for every margin, ttl and lifetime of tokens   *)
(* that EngineAssumption allows.  An invariant bounds what is left of the  *)
(* tokens and of the engine's patience by what the session has still to do *)
(* before the next heartbeat.                                              *)
(***************************************************************************)
EXTENDS JitoSession, TLAPS

(* An answer is younger than its call, and a heartbeat that was granted    *)
(* has extended the engine's patience since.                               *)
AnswersOK ==
  /\ answer # {} => pc \in Calls
  /\ \A a \in answer :
       /\ a.age <= open_for
       /\ pc = "heartbeat" /\ a.granted => sending = a.ttl - a.age

(* The first authentication comes before everything else. *)
FirstTokens ==
  ~listening => ~kept /\ pc \in {"challenge", "tokens", "stopped"}

SendingLasts ==
  kept => /\ pc = "waiting" => sending > wait + 3 * MaxCall
          /\ pc = "turn" => sending > 3 * MaxCall
          /\ pc = "challenge" => sending > 3 * MaxCall - open_for
          /\ pc \in {"tokens", "refresh"} => sending > 2 * MaxCall - open_for
          /\ pc = "heartbeat" => sending > MaxCall - open_for

AccessLasts ==
  listening /\ renewals_failed = 0 =>
    /\ pc = "waiting" => access > wait + 4 * MaxCall
    /\ pc = "turn" => access > 4 * MaxCall
    /\ pc = "challenge" => access > 4 * MaxCall - open_for
    /\ pc \in {"tokens", "refresh"} => access > 3 * MaxCall - open_for
    /\ pc = "heartbeat" => access >= Margin - MaxCall - open_for

(* One renewal may fail: the token outlasts the heartbeat that follows. *)
RetryLasts ==
  /\ pc = "heartbeat" /\ renewals_failed = 1 => access > MaxCall - open_for
  /\ pc = "refresh" => refresh >= Margin - open_for

Timing     == AnswersOK /\ FirstTokens /\ SendingLasts /\ AccessLasts /\ RetryLasts
SessionInv == TypeOK /\ Timing

-----------------------------------------------------------------------------
(* Constants. *)

LEMMA Constant ==
  /\ MaxCall \in Nat /\ MaxCall >= 1 /\ Margin \in Nat /\ Margin > 6 * MaxCall
  /\ AccessLife \in Nat /\ RefreshLife \in Nat /\ AccessLife >= Margin /\ RefreshLife >= Margin
  /\ Ttls \subseteq Nat
<1>1. /\ MaxCall \in Nat /\ MaxCall >= 1 /\ Margin \in Nat /\ RetryTtl \in Nat /\ MinWait \in Nat
      /\ AccessLife \in Nat /\ RefreshLife \in Nat /\ AccessLife >= Margin
      /\ RefreshLife >= Margin /\ Ttls \subseteq Nat
      /\ Margin > Greater(RetryTtl \div 2, MinWait) + 6 * MaxCall
  BY EngineAssumption
<1>2. Greater(RetryTtl \div 2, MinWait) \in Nat
  BY <1>1 DEF Greater
<1>3. QED
  BY <1>1, <1>2

(* The waits that EngineAssumption bounds. *)
LEMMA WaitFacts ==
  /\ \A ttl \in Ttls : ttl > Wait(ttl) + 4 * MaxCall
  /\ \A ttl \in Ttls \cup {RetryTtl} :
       Wait(ttl) \in Nat /\ Margin > Wait(ttl) + 6 * MaxCall
<1>1. \A ttl \in Ttls \cup {RetryTtl} : ttl \in Nat
  BY EngineAssumption
<1>2. \A ttl \in Ttls \cup {RetryTtl} : Wait(ttl) \in Nat
  BY <1>1, EngineAssumption DEF Wait, Greater
<1>3. QED
  BY <1>2, EngineAssumption DEF Wait

LEMMA LowerFacts ==
  ASSUME NEW n \in Nat
  PROVE  Lower(n) \in Nat /\ Lower(n) <= n /\ (n > 0 => Lower(n) = n - 1)
BY DEF Lower

-----------------------------------------------------------------------------
(* The type invariant in parts. *)

BoolsOK ==
  /\ access_told \in BOOLEAN /\ refresh_told \in BOOLEAN /\ listening \in BOOLEAN
  /\ cancelled \in BOOLEAN /\ known \in BOOLEAN /\ sound \in BOOLEAN /\ kept \in BOOLEAN

CallOK ==
  /\ pc \in Calls \cup {"turn", "waiting", "stopped"} /\ open_for \in 0..MaxCall
  /\ answer \subseteq [granted : BOOLEAN, age : 0..MaxCall, ttl : Ttls]
  /\ \A a, b \in answer : a = b
  /\ pc \in {"turn", "refresh", "heartbeat", "waiting"} => listening

ClocksOK ==
  /\ access \in 0..AccessLife /\ refresh \in 0..RefreshLife /\ wait \in Nat /\ sending \in Nat
  /\ renewals_failed \in 0..2

LEMMA TypeSplits == TypeOK <=> BoolsOK /\ CallOK /\ ClocksOK
<1>1. {access_told, refresh_told, listening, cancelled, known, sound, kept} \subseteq BOOLEAN
        <=> BoolsOK
  BY Zenon DEF BoolsOK
<1>2. QED
  BY <1>1, Zenon DEF TypeOK, CallOK, ClocksOK

LEMMA NextTypeSplits == (BoolsOK /\ CallOK /\ ClocksOK => TypeOK)'
BY TypeSplits, PTL

(* The clocks as numbers. *)
LEMMA ClockTypes ==
  ASSUME CallOK, ClocksOK
  PROVE  /\ access \in Nat /\ refresh \in Nat /\ wait \in Nat /\ sending \in Nat
         /\ open_for \in Nat /\ open_for <= MaxCall /\ renewals_failed \in 0..2
BY Constant DEF CallOK, ClocksOK

LEMMA InitHolds == Init => SessionInv
<1> SUFFICES ASSUME Init PROVE SessionInv
  OBVIOUS
<1>1. BoolsOK
  BY Zenon DEF Init, BoolsOK
<1>2. CallOK /\ ClocksOK
  BY Constant DEF Init, CallOK, ClocksOK, Calls, TokenCalls
<1>3. Timing
  BY DEF Init, Timing, AnswersOK, FirstTokens, SendingLasts, AccessLasts, RetryLasts
<1>4. QED
  BY <1>1, <1>2, <1>3, TypeSplits DEF SessionInv

(* The one answer of a call that was granted. *)
LEMMA GrantedFacts ==
  ASSUME CallOK, AnswersOK, NEW call, Granted(call)
  PROVE  \E a \in answer :
           /\ answer = {a} /\ a.granted /\ pc = call /\ Age = a.age
           /\ a.age \in Nat /\ a.age <= open_for /\ a.age <= MaxCall /\ a.ttl \in Ttls
<1>1. PICK a \in answer : a.granted /\ pc = call
  BY DEF Granted
<1>2. answer = {a}
  BY DEF CallOK
<1>3. a.age \in 0..MaxCall /\ a.ttl \in Ttls /\ a.age <= open_for
  BY DEF CallOK, AnswersOK
<1>4. {b.age : b \in answer} = {a.age}
  BY <1>2
<1>5. Age = a.age
  BY <1>4 DEF Age
<1>6. QED
  BY <1>1, <1>2, <1>3, <1>5, Constant

-----------------------------------------------------------------------------
(* The session. *)

LEMMA TurnKeeps ==
  ASSUME SessionInv, Turn, UNCHANGED <<known, cancelled, sound, sending>>
  PROVE  SessionInv'
<1>1. BoolsOK /\ CallOK /\ ClocksOK /\ Timing
  BY TypeSplits DEF SessionInv
<1>2. /\ pc = "turn" /\ listening /\ open_for' = 0 /\ answer' = {}
      /\ pc' \in {"stopped", "heartbeat", "challenge", "refresh"}
      /\ pc' = "heartbeat" => ~Renew(AccessLeft)
      /\ pc' = "refresh" => ~Renew(RefreshLeft)
  BY <1>1 DEF Turn, Leave, Begin, RenewalCall, CallOK
<1>3. /\ wait' = wait /\ access' = access /\ refresh' = refresh
      /\ access_told' = access_told /\ refresh_told' = refresh_told /\ listening' = listening
      /\ renewals_failed' = renewals_failed /\ kept' = kept
      /\ known' = known /\ cancelled' = cancelled /\ sound' = sound /\ sending' = sending
  BY DEF Turn, tokenVars, historyVars
<1>4. BoolsOK'
  BY <1>1, <1>3, Zenon DEF BoolsOK
<1>5. CallOK' /\ ClocksOK'
  BY <1>1, <1>2, <1>3, Constant DEF CallOK, ClocksOK, Calls, TokenCalls
<1>6. AnswersOK' /\ FirstTokens'
  BY <1>1, <1>2, <1>3 DEF AnswersOK, FirstTokens, Timing
<1>7. /\ access \in Nat /\ refresh \in Nat /\ sending \in Nat /\ renewals_failed \in 0..2
  BY <1>1, ClockTypes
<1>8. /\ kept => sending > 3 * MaxCall
      /\ renewals_failed = 0 => access > 4 * MaxCall
  BY <1>1, <1>2 DEF Timing, SendingLasts, AccessLasts
<1>9. /\ pc' = "heartbeat" => access >= Margin
      /\ pc' = "refresh" => refresh >= Margin
  BY <1>2, <1>7, Constant DEF Renew, AccessLeft, RefreshLeft
<1>10. SendingLasts'
  BY <1>2, <1>3, <1>7, <1>8, Constant DEF SendingLasts
<1>11. AccessLasts' /\ RetryLasts'
  BY <1>2, <1>3, <1>7, <1>8, <1>9, Constant DEF AccessLasts, RetryLasts
<1>12. QED
  BY <1>4, <1>5, <1>6, <1>10, <1>11, NextTypeSplits DEF SessionInv, Timing

LEMMA ChallengeKeeps ==
  ASSUME SessionInv, ChallengeReceived, UNCHANGED <<known, cancelled, sound, sending>>
  PROVE  SessionInv'
<1>1. BoolsOK /\ CallOK /\ ClocksOK /\ Timing
  BY TypeSplits DEF SessionInv
<1>2. /\ pc = "challenge" /\ pc' = "tokens" /\ open_for' = 0 /\ answer' = {}
      /\ wait' = wait /\ access' = access /\ refresh' = refresh
      /\ access_told' = access_told /\ refresh_told' = refresh_told /\ listening' = listening
      /\ renewals_failed' = renewals_failed /\ kept' = kept
      /\ known' = known /\ cancelled' = cancelled /\ sound' = sound /\ sending' = sending
  BY DEF ChallengeReceived, Granted, Begin, tokenVars, historyVars
<1>3. BoolsOK'
  BY <1>1, <1>2, Zenon DEF BoolsOK
<1>4. CallOK' /\ ClocksOK'
  BY <1>1, <1>2, Constant DEF CallOK, ClocksOK, Calls, TokenCalls
<1>5. AnswersOK' /\ FirstTokens' /\ RetryLasts'
  BY <1>1, <1>2 DEF AnswersOK, FirstTokens, RetryLasts, Timing, Calls, TokenCalls
<1>6. SendingLasts' /\ AccessLasts'
  BY <1>1, <1>2, ClockTypes, Constant DEF SendingLasts, AccessLasts, Timing
<1>7. QED
  BY <1>3, <1>4, <1>5, <1>6, NextTypeSplits DEF SessionInv, Timing

LEMMA TokensKeep ==
  ASSUME SessionInv, TokensReceived, known' = TRUE, UNCHANGED <<cancelled, sound, sending>>
  PROVE  SessionInv'
<1>1. BoolsOK /\ CallOK /\ ClocksOK /\ Timing
  BY TypeSplits DEF SessionInv
<1>2. PICK a \in answer :
        /\ answer = {a} /\ pc = "tokens" /\ Age = a.age
        /\ a.age \in Nat /\ a.age <= open_for /\ a.age <= MaxCall
  BY <1>1, GrantedFacts DEF TokensReceived, Timing
<1>3. /\ access' = AccessLife - a.age /\ refresh' = RefreshLife - a.age
      /\ listening' = TRUE /\ open_for' = 0 /\ answer' = {}
      /\ listening => pc' = "heartbeat"
      /\ ~listening => pc' = "turn"
      /\ renewals_failed' = 0 /\ wait' = wait /\ kept' = kept
      /\ cancelled' = cancelled /\ sound' = sound /\ sending' = sending
  BY <1>2 DEF TokensReceived, Begin, Leave
<1>4. access_told' \in BOOLEAN /\ refresh_told' \in BOOLEAN
  BY DEF TokensReceived
<1>5. BoolsOK'
  BY <1>1, <1>3, <1>4, Zenon DEF BoolsOK
<1>6. /\ access' \in 0..AccessLife /\ refresh' \in 0..RefreshLife
      /\ access' >= Margin - MaxCall /\ access' > 4 * MaxCall /\ access' \in Nat
  BY <1>2, <1>3, Constant
<1>7. pc' \in {"heartbeat", "turn"} /\ listening'
  BY <1>3
<1>8. CallOK' /\ ClocksOK'
  BY <1>1, <1>3, <1>6, <1>7, Constant DEF CallOK, ClocksOK, Calls, TokenCalls
<1>9. AnswersOK' /\ FirstTokens'
  BY <1>3, <1>7 DEF AnswersOK, FirstTokens
<1>10. kept => listening /\ sending > 2 * MaxCall - open_for
  BY <1>1, <1>2 DEF Timing, FirstTokens, SendingLasts
<1>11. SendingLasts'
  BY <1>1, <1>3, <1>10, ClockTypes, Constant DEF SendingLasts
<1>12. AccessLasts' /\ RetryLasts'
  BY <1>3, <1>6, <1>7, Constant DEF AccessLasts, RetryLasts
<1>13. QED
  BY <1>5, <1>8, <1>9, <1>11, <1>12, NextTypeSplits DEF SessionInv, Timing

LEMMA AccessKeeps ==
  ASSUME SessionInv, AccessReceived, UNCHANGED <<known, cancelled, sound, sending>>
  PROVE  SessionInv'
<1>1. BoolsOK /\ CallOK /\ ClocksOK /\ Timing
  BY TypeSplits DEF SessionInv
<1>2. PICK a \in answer :
        /\ answer = {a} /\ pc = "refresh" /\ Age = a.age
        /\ a.age \in Nat /\ a.age <= open_for /\ a.age <= MaxCall
  BY <1>1, GrantedFacts DEF AccessReceived, Timing
<1>3. /\ access' = AccessLife - a.age /\ refresh' = refresh
      /\ refresh_told' = refresh_told
      /\ listening' = listening /\ open_for' = 0 /\ answer' = {} /\ pc' = "heartbeat"
      /\ renewals_failed' = 0 /\ wait' = wait /\ kept' = kept
      /\ known' = known /\ cancelled' = cancelled /\ sound' = sound /\ sending' = sending
  BY <1>2 DEF AccessReceived, Begin
<1>4. access_told' \in BOOLEAN
  BY DEF AccessReceived
<1>5. BoolsOK'
  BY <1>1, <1>3, <1>4, Zenon DEF BoolsOK
<1>6. access' \in 0..AccessLife /\ access' >= Margin - MaxCall /\ access' \in Nat
  BY <1>2, <1>3, Constant
<1>7. listening
  BY <1>1, <1>2 DEF CallOK
<1>8. CallOK' /\ ClocksOK'
  BY <1>1, <1>3, <1>6, <1>7, Constant DEF CallOK, ClocksOK, Calls, TokenCalls
<1>9. AnswersOK' /\ FirstTokens'
  BY <1>3, <1>7 DEF AnswersOK, FirstTokens
<1>10. SendingLasts'
  BY <1>1, <1>2, <1>3, ClockTypes, Constant DEF SendingLasts, Timing
<1>11. AccessLasts' /\ RetryLasts'
  BY <1>3, <1>6, Constant DEF AccessLasts, RetryLasts
<1>12. QED
  BY <1>5, <1>8, <1>9, <1>10, <1>11, NextTypeSplits DEF SessionInv, Timing

LEMMA TokenFailureKeeps ==
  ASSUME SessionInv, TokenCallFails, UNCHANGED <<known, cancelled, sound, sending>>
  PROVE  SessionInv'
<1>1. BoolsOK /\ CallOK /\ ClocksOK /\ Timing
  BY TypeSplits DEF SessionInv
<1>2. /\ pc \in {"challenge", "tokens", "refresh"} /\ open_for' = 0 /\ answer' = {}
      /\ listening => pc' = "heartbeat"
      /\ ~listening => pc' = "stopped"
      /\ renewals_failed' = IF renewals_failed = 2 THEN 2 ELSE renewals_failed + 1
      /\ wait' = wait /\ access' = access /\ refresh' = refresh
      /\ access_told' = access_told /\ refresh_told' = refresh_told /\ listening' = listening
      /\ kept' = kept
      /\ known' = known /\ cancelled' = cancelled /\ sound' = sound /\ sending' = sending
  BY DEF TokenCallFails, TokenCalls, Begin, Leave, tokenVars
<1>3. BoolsOK'
  BY <1>1, <1>2, Zenon DEF BoolsOK
<1>4. /\ access \in Nat /\ refresh \in Nat /\ sending \in Nat /\ renewals_failed \in 0..2
      /\ open_for \in Nat /\ open_for <= MaxCall
  BY <1>1, ClockTypes
<1>5. pc' \in {"heartbeat", "stopped"} /\ (pc' = "heartbeat" => listening)
  BY <1>2
<1>6. renewals_failed' \in 0..2 /\ (renewals_failed' = 1 => renewals_failed = 0)
      /\ renewals_failed' # 0
  BY <1>2, <1>4
<1>7. CallOK' /\ ClocksOK'
  BY <1>1, <1>2, <1>5, <1>6, Constant DEF CallOK, ClocksOK, Calls, TokenCalls
<1>8. AnswersOK' /\ FirstTokens'
  BY <1>1, <1>2 DEF AnswersOK, FirstTokens, Timing
<1>9. SendingLasts'
  BY <1>1, <1>2, <1>4, <1>5, Constant DEF SendingLasts, Timing
<1>10. AccessLasts' /\ RetryLasts'
  BY <1>1, <1>2, <1>4, <1>5, <1>6, Constant DEF AccessLasts, RetryLasts, Timing
<1>11. QED
  BY <1>3, <1>7, <1>8, <1>9, <1>10, NextTypeSplits DEF SessionInv, Timing

LEMMA AfterHeartbeat ==
  ASSUME NEW m \in Nat, NEW margin \in Nat, NEW waiting \in Nat, NEW left \in Nat, NEW open \in Nat,
         open <= m, margin > waiting + 6 * m, left >= margin - m - open
  PROVE  left > waiting + 4 * m
OBVIOUS

LEMMA HeartbeatKeeps ==
  ASSUME SessionInv, HeartbeatAnswered, UNCHANGED <<known, cancelled, sound, sending>>
  PROVE  SessionInv'
<1>1. BoolsOK /\ CallOK /\ ClocksOK /\ Timing
  BY TypeSplits DEF SessionInv
<1>2. PICK a \in answer :
        /\ answer = {a} /\ a.granted /\ pc = "heartbeat" /\ a.ttl \in Ttls
        /\ a.age \in Nat /\ a.age <= open_for /\ a.age <= MaxCall
  BY <1>1, GrantedFacts DEF HeartbeatAnswered, Timing
<1>3. /\ pc' = "waiting" /\ open_for' = 0 /\ answer' = {} /\ wait' = Wait(a.ttl) /\ kept' = TRUE
      /\ access' = access /\ refresh' = refresh /\ listening' = listening
      /\ access_told' = access_told /\ refresh_told' = refresh_told
      /\ renewals_failed' = renewals_failed
      /\ known' = known /\ cancelled' = cancelled /\ sound' = sound /\ sending' = sending
  BY <1>2 DEF HeartbeatAnswered, Leave, tokenVars
<1>4. BoolsOK'
  BY <1>1, <1>3, Zenon DEF BoolsOK
<1>5. /\ listening /\ sending = a.ttl - a.age
      /\ renewals_failed = 0 => access >= Margin - MaxCall - open_for
  BY <1>1, <1>2 DEF CallOK, Timing, AnswersOK, AccessLasts
<1>6. /\ wait' \in Nat /\ a.ttl \in Nat
      /\ a.ttl > wait' + 4 * MaxCall /\ Margin > wait' + 6 * MaxCall
  BY <1>2, <1>3, WaitFacts, Constant
<1>7. /\ access \in Nat /\ sending \in Nat /\ open_for \in Nat /\ open_for <= MaxCall
  BY <1>1, ClockTypes
<1>8. CallOK' /\ ClocksOK'
  BY <1>1, <1>3, <1>5, <1>6, Constant DEF CallOK, ClocksOK
<1>9. AnswersOK' /\ FirstTokens' /\ RetryLasts'
  BY <1>3, <1>5 DEF AnswersOK, FirstTokens, RetryLasts
<1>10. SendingLasts'
  <2>1. sending > wait' + 3 * MaxCall
    BY <1>2, <1>5, <1>6, Constant
  <2>2. QED
    BY <1>3, <2>1 DEF SendingLasts
<1>11. AccessLasts'
  <2>1. renewals_failed = 0 => access > wait' + 4 * MaxCall
    BY <1>5, <1>6, <1>7, Constant, AfterHeartbeat
  <2>2. QED
    BY <1>3, <2>1 DEF AccessLasts
<1>12. QED
  BY <1>4, <1>8, <1>9, <1>10, <1>11, NextTypeSplits DEF SessionInv, Timing

LEMMA HeartbeatFailureKeeps ==
  ASSUME SessionInv, HeartbeatFails, UNCHANGED <<known, cancelled, sound, sending>>
  PROVE  SessionInv'
<1>1. BoolsOK /\ CallOK /\ ClocksOK /\ Timing
  BY TypeSplits DEF SessionInv
<1>2. /\ pc = "heartbeat" /\ pc' = "waiting" /\ open_for' = 0 /\ answer' = {}
      /\ wait' = Wait(RetryTtl) /\ kept' = FALSE
      /\ access' = access /\ refresh' = refresh /\ listening' = listening
      /\ access_told' = access_told /\ refresh_told' = refresh_told
      /\ renewals_failed' = renewals_failed
      /\ known' = known /\ cancelled' = cancelled /\ sound' = sound /\ sending' = sending
  BY DEF HeartbeatFails, Leave, tokenVars
<1>3. BoolsOK'
  BY <1>1, <1>2, Zenon DEF BoolsOK
<1>4. /\ listening
      /\ renewals_failed = 0 => access >= Margin - MaxCall - open_for
  BY <1>1, <1>2 DEF CallOK, Timing, AccessLasts
<1>5. wait' \in Nat /\ Margin > wait' + 6 * MaxCall
  BY <1>2, WaitFacts
<1>6. access \in Nat /\ open_for \in Nat /\ open_for <= MaxCall
  BY <1>1, ClockTypes
<1>7. CallOK' /\ ClocksOK'
  BY <1>1, <1>2, <1>4, <1>5, Constant DEF CallOK, ClocksOK
<1>8. AnswersOK' /\ FirstTokens' /\ RetryLasts' /\ SendingLasts'
  BY <1>2, <1>4 DEF AnswersOK, FirstTokens, RetryLasts, SendingLasts
<1>9. AccessLasts'
  <2>1. renewals_failed = 0 => access > wait' + 4 * MaxCall
    BY <1>4, <1>5, <1>6, Constant, AfterHeartbeat
  <2>2. QED
    BY <1>2, <2>1 DEF AccessLasts
<1>10. QED
  BY <1>3, <1>7, <1>8, <1>9, NextTypeSplits DEF SessionInv, Timing

LEMMA WaitEndsKeeps ==
  ASSUME SessionInv, WaitEnds, UNCHANGED <<known, cancelled, sound, sending>>
  PROVE  SessionInv'
<1>1. BoolsOK /\ CallOK /\ ClocksOK /\ Timing
  BY TypeSplits DEF SessionInv
<1>2. /\ pc = "waiting" /\ open_for' = 0 /\ answer' = {}
      /\ pc' = "stopped" \/ (pc' = "turn" /\ wait = 0)
      /\ wait' = wait /\ kept' = kept
      /\ access' = access /\ refresh' = refresh /\ listening' = listening
      /\ access_told' = access_told /\ refresh_told' = refresh_told
      /\ renewals_failed' = renewals_failed
      /\ known' = known /\ cancelled' = cancelled /\ sound' = sound /\ sending' = sending
  BY DEF WaitEnds, Leave, tokenVars, historyVars
<1>3. BoolsOK'
  BY <1>1, <1>2, Zenon DEF BoolsOK
<1>4. CallOK' /\ ClocksOK'
  BY <1>1, <1>2, Constant DEF CallOK, ClocksOK
<1>5. AnswersOK' /\ FirstTokens' /\ RetryLasts'
  BY <1>1, <1>2 DEF AnswersOK, FirstTokens, RetryLasts, CallOK
<1>6. SendingLasts' /\ AccessLasts'
  BY <1>1, <1>2, ClockTypes, Constant DEF SendingLasts, AccessLasts, Timing
<1>7. QED
  BY <1>3, <1>4, <1>5, <1>6, NextTypeSplits DEF SessionInv, Timing

LEMMA SessionKeeps == SessionInv /\ Session => SessionInv'
<1> SUFFICES ASSUME SessionInv, Session PROVE SessionInv'
  OBVIOUS
<1>1. UNCHANGED <<cancelled, sound, sending>>
  BY DEF Session
<1>2. CASE TokensReceived /\ known' = TRUE
  BY <1>1, <1>2, TokensKeep
<1>3. CASE /\ \/ Turn \/ ChallengeReceived \/ AccessReceived \/ TokenCallFails
              \/ HeartbeatAnswered \/ HeartbeatFails \/ WaitEnds
           /\ UNCHANGED known
  BY <1>1, <1>3, TurnKeeps, ChallengeKeeps, AccessKeeps, TokenFailureKeeps, HeartbeatKeeps,
     HeartbeatFailureKeeps, WaitEndsKeeps
<1>4. QED
  BY <1>2, <1>3 DEF Session

-----------------------------------------------------------------------------
(* The engine, the user and time. *)

LEMMA HandleKeeps ==
  ASSUME SessionInv, Handle
  PROVE  SessionInv'
<1>1. BoolsOK /\ CallOK /\ ClocksOK /\ Timing
  BY TypeSplits DEF SessionInv
<1>2. /\ pc \in Calls /\ pc' = pc /\ open_for' = open_for
      /\ wait' = wait /\ kept' = kept
      /\ access' = access /\ refresh' = refresh /\ listening' = listening
      /\ access_told' = access_told /\ refresh_told' = refresh_told
      /\ renewals_failed' = renewals_failed
      /\ known' = known /\ cancelled' = cancelled /\ sound' = sound
  BY DEF Handle, tokenVars, historyVars
<1>3. PICK ttl \in Ttls :
        /\ answer' = {[granted |-> Honoured, age |-> 0, ttl |-> ttl]}
        /\ sending' = IF pc = "heartbeat" /\ Honoured THEN ttl ELSE sending
  BY DEF Handle
<1>4. Honoured \in BOOLEAN
  <2>1. CASE pc = "heartbeat"
    BY <2>1 DEF Honoured
  <2>2. CASE pc = "refresh"
    BY <2>2 DEF Honoured
  <2>3. CASE pc # "heartbeat" /\ pc # "refresh"
    BY <2>3 DEF Honoured
  <2>4. QED
    BY <2>1, <2>2, <2>3
<1>5. BoolsOK'
  BY <1>1, <1>2, Zenon DEF BoolsOK
<1> DEFINE reply == [granted |-> Honoured, age |-> 0, ttl |-> ttl]
<1>6. /\ reply \in [granted : BOOLEAN, age : 0..MaxCall, ttl : Ttls] /\ reply.age = 0
      /\ reply.ttl = ttl /\ reply.granted = Honoured
  BY <1>4, Constant
<1>7. answer' = {reply}
  BY <1>3
<1> HIDE DEF reply
<1>8. /\ access \in Nat /\ sending \in Nat /\ open_for \in Nat /\ open_for <= MaxCall
      /\ ttl \in Nat /\ ttl > Wait(ttl) + 4 * MaxCall /\ Wait(ttl) \in Nat
  BY <1>1, ClockTypes, WaitFacts, Constant
<1>9. sending' \in Nat /\ (sending' = sending \/ (pc = "heartbeat" /\ sending' = ttl))
  BY <1>3, <1>8
<1>10. CallOK' /\ ClocksOK'
  BY <1>1, <1>2, <1>6, <1>7, <1>9 DEF CallOK, ClocksOK
<1>11. AnswersOK'
  BY <1>2, <1>3, <1>6, <1>7, <1>8 DEF AnswersOK
<1>12. FirstTokens' /\ RetryLasts' /\ AccessLasts'
  BY <1>1, <1>2 DEF FirstTokens, RetryLasts, AccessLasts, Timing
<1>13. SendingLasts'
  <2>1. ttl > MaxCall - open_for
    BY <1>8, Constant
  <2>2. QED
    BY <1>1, <1>2, <1>9, <2>1 DEF SendingLasts, Timing
<1>14. QED
  BY <1>5, <1>10, <1>11, <1>12, <1>13, NextTypeSplits DEF SessionInv, Timing

LEMMA RestartKeeps ==
  ASSUME SessionInv, Restart
  PROVE  SessionInv'
<1>1. BoolsOK /\ CallOK /\ ClocksOK /\ Timing
  BY TypeSplits DEF SessionInv
<1>2. /\ pc' = pc /\ open_for' = open_for
      /\ wait' = wait /\ kept' = FALSE /\ sending' = 0 /\ known' = FALSE
      /\ access' = access /\ refresh' = refresh /\ listening' = listening
      /\ access_told' = access_told /\ refresh_told' = refresh_told
      /\ renewals_failed' = renewals_failed
      /\ cancelled' = cancelled /\ sound' = sound
      /\ answer' = {[a EXCEPT !.granted = FALSE] : a \in answer}
  BY DEF Restart, tokenVars
<1>3. BoolsOK'
  BY <1>1, <1>2, Zenon DEF BoolsOK
<1>4. ASSUME NEW a \in answer
      PROVE  /\ [a EXCEPT !.granted = FALSE] \in [granted : BOOLEAN, age : 0..MaxCall, ttl : Ttls]
             /\ ~[a EXCEPT !.granted = FALSE].granted
             /\ [a EXCEPT !.granted = FALSE].age = a.age
  BY <1>1 DEF CallOK
<1>5. CallOK'
  BY <1>1, <1>2, <1>4 DEF CallOK
<1>6. AnswersOK'
  BY <1>1, <1>2, <1>4 DEF AnswersOK, Timing
<1>7. ClocksOK'
  BY <1>1, <1>2 DEF ClocksOK
<1>8. FirstTokens' /\ RetryLasts' /\ AccessLasts' /\ SendingLasts'
  BY <1>1, <1>2 DEF FirstTokens, RetryLasts, AccessLasts, SendingLasts, Timing
<1>9. QED
  BY <1>3, <1>5, <1>6, <1>7, <1>8, NextTypeSplits DEF SessionInv, Timing

(* Neither soundness nor the cancellation token is a clock. *)
LEMMA FlagKeeps ==
  ASSUME SessionInv, BecomeSound \/ Cancel \/ UNCHANGED vars
  PROVE  SessionInv'
<1>1. BoolsOK /\ CallOK /\ ClocksOK /\ Timing
  BY TypeSplits DEF SessionInv
<1>2. /\ pc' = pc /\ open_for' = open_for /\ answer' = answer
      /\ wait' = wait /\ kept' = kept /\ sending' = sending /\ known' = known
      /\ access' = access /\ refresh' = refresh /\ listening' = listening
      /\ access_told' = access_told /\ refresh_told' = refresh_told
      /\ renewals_failed' = renewals_failed
  BY DEF BecomeSound, Cancel, vars, tokenVars, historyVars, engineVars
<1>3. cancelled' \in {cancelled, TRUE} /\ sound' \in {sound, TRUE}
  BY DEF BecomeSound, Cancel, vars, engineVars
<1>4. BoolsOK'
  BY <1>1, <1>2, <1>3, Zenon DEF BoolsOK
<1>5. CallOK' /\ ClocksOK'
  BY <1>1, <1>2 DEF CallOK, ClocksOK
<1>6. AnswersOK'
  BY <1>1, <1>2 DEF AnswersOK, Timing
<1>7. FirstTokens' /\ RetryLasts' /\ AccessLasts' /\ SendingLasts'
  BY <1>1, <1>2 DEF FirstTokens, RetryLasts, AccessLasts, SendingLasts, Timing
<1>8. QED
  BY <1>4, <1>5, <1>6, <1>7, NextTypeSplits DEF SessionInv, Timing

LEMMA TickKeeps ==
  ASSUME SessionInv, Tick
  PROVE  SessionInv'
<1>1. BoolsOK /\ CallOK /\ ClocksOK /\ Timing
  BY TypeSplits DEF SessionInv
<1>2. /\ pc' = pc /\ kept' = kept /\ known' = known /\ listening' = listening
      /\ access_told' = access_told /\ refresh_told' = refresh_told
      /\ renewals_failed' = renewals_failed /\ cancelled' = cancelled /\ sound' = sound
      /\ wait' = Lower(wait) /\ access' = Lower(access) /\ refresh' = Lower(refresh)
      /\ sending' = Lower(sending)
      /\ answer' = {[a EXCEPT !.age = @ + 1] : a \in answer}
  BY DEF Tick, historyVars
<1>3. /\ access \in Nat /\ refresh \in Nat /\ wait \in Nat /\ sending \in Nat
      /\ open_for \in Nat /\ open_for <= MaxCall
  BY <1>1, ClockTypes
<1>4. /\ access' \in Nat /\ access' <= access /\ (access > 0 => access' = access - 1)
      /\ refresh' \in Nat /\ refresh' <= refresh /\ (refresh > 0 => refresh' = refresh - 1)
      /\ wait' \in Nat /\ (wait > 0 => wait' = wait - 1)
      /\ sending' \in Nat /\ (sending > 0 => sending' = sending - 1)
  BY <1>2, <1>3, LowerFacts
<1>5. \/ pc = "waiting" /\ wait > 0 /\ open_for' = open_for
      \/ pc \in Calls /\ open_for < MaxCall /\ open_for' = open_for + 1
  BY DEF Tick, Calls, TokenCalls
<1>6. BoolsOK'
  BY <1>1, <1>2, Zenon DEF BoolsOK
<1>7. ASSUME NEW a \in answer
      PROVE  /\ [a EXCEPT !.age = @ + 1] \in [granted : BOOLEAN, age : 0..MaxCall, ttl : Ttls]
             /\ [a EXCEPT !.age = @ + 1].granted = a.granted
             /\ [a EXCEPT !.age = @ + 1].ttl = a.ttl
             /\ [a EXCEPT !.age = @ + 1].age = a.age + 1 /\ a.age + 1 <= open_for'
             /\ a.age \in Nat
  <2>1. /\ a \in [granted : BOOLEAN, age : 0..MaxCall, ttl : Ttls]
        /\ pc \in Calls /\ a.age <= open_for
    BY <1>1 DEF CallOK, AnswersOK, Timing
  <2>2. open_for < MaxCall /\ open_for' = open_for + 1
    BY <1>5, <2>1 DEF Calls, TokenCalls
  <2>3. a.age \in Nat /\ a.age + 1 \in 0..MaxCall /\ a.age + 1 <= open_for'
    BY <1>3, <2>1, <2>2, Constant
  <2>4. QED
    BY <2>1, <2>3
<1>8. CallOK'
  <2>1. answer' \subseteq [granted : BOOLEAN, age : 0..MaxCall, ttl : Ttls]
    BY <1>2, <1>7
  <2>2. \A a, b \in answer' : a = b
    BY <1>1, <1>2 DEF CallOK
  <2>3. open_for' \in 0..MaxCall
    BY <1>3, <1>5, Constant
  <2>4. QED
    BY <1>1, <1>2, <2>1, <2>2, <2>3 DEF CallOK
<1>9. ClocksOK'
  <2>1. access' \in 0..AccessLife /\ refresh' \in 0..RefreshLife
    BY <1>1, <1>3, <1>4, Constant DEF ClocksOK
  <2>2. QED
    BY <1>1, <1>2, <1>4, <2>1 DEF ClocksOK
<1>10. AnswersOK'
  <2> SUFFICES ASSUME NEW a \in answer
               PROVE  /\ pc \in Calls /\ a.age + 1 <= open_for'
                      /\ pc = "heartbeat" /\ a.granted => sending' = a.ttl - (a.age + 1)
    BY <1>2, <1>7 DEF AnswersOK
  <2>1. pc \in Calls /\ a.age + 1 <= open_for' /\ a.age \in Nat
    BY <1>1, <1>7 DEF AnswersOK, Timing
  <2>2. ASSUME pc = "heartbeat", a.granted PROVE sending' = a.ttl - (a.age + 1)
    <3>1. sending = a.ttl - a.age /\ a.age <= open_for
      BY <1>1, <2>2 DEF AnswersOK, Timing
    <3>2. a.ttl \in Ttls
      BY <1>1 DEF CallOK
    <3>3. a.ttl \in Nat /\ a.ttl > 4 * MaxCall
      <4>1. Wait(a.ttl) \in Nat /\ a.ttl > Wait(a.ttl) + 4 * MaxCall /\ a.ttl \in Nat
        BY <3>2, WaitFacts, Constant
      <4>2. QED
        BY <4>1, Constant
    <3>4. sending > 0
      BY <1>3, <2>1, <3>1, <3>3, Constant
    <3>5. QED
      BY <1>3, <1>4, <2>1, <3>1, <3>3, <3>4
  <2>3. QED
    BY <2>1, <2>2
<1>11. FirstTokens'
  BY <1>1, <1>2 DEF FirstTokens, Timing
<1>12. SendingLasts'
  <2>1. CASE pc = "waiting"
    BY <1>1, <1>2, <1>3, <1>4, <1>5, <2>1, Constant DEF SendingLasts, Timing, Calls, TokenCalls
  <2>2. CASE pc \in Calls /\ open_for < MaxCall /\ open_for' = open_for + 1
    BY <1>1, <1>2, <1>3, <1>4, <2>2, Constant DEF SendingLasts, Timing, Calls, TokenCalls
  <2>3. QED
    BY <1>5, <2>1, <2>2
<1>13. AccessLasts'
  <2>1. CASE pc = "waiting"
    BY <1>1, <1>2, <1>3, <1>4, <1>5, <2>1, Constant DEF AccessLasts, Timing, Calls, TokenCalls
  <2>2. CASE pc \in Calls /\ open_for < MaxCall /\ open_for' = open_for + 1
    BY <1>1, <1>2, <1>3, <1>4, <2>2, Constant DEF AccessLasts, Timing, Calls, TokenCalls
  <2>3. QED
    BY <1>5, <2>1, <2>2
<1>14. RetryLasts'
  BY <1>1, <1>2, <1>3, <1>4, <1>5, Constant DEF RetryLasts, Timing, Calls, TokenCalls
<1>15. QED
  BY <1>6, <1>8, <1>9, <1>10, <1>11, <1>12, <1>13, <1>14, NextTypeSplits DEF SessionInv, Timing

LEMMA SessionInvHolds == Spec => []SessionInv
<1>1. Init => SessionInv
  BY InitHolds
<1>2. SessionInv /\ [Next]_vars => SessionInv'
  BY SessionKeeps, HandleKeeps, RestartKeeps, FlagKeeps, TickKeeps DEF Next
<1>3. QED
  BY <1>1, <1>2, PTL DEF Spec

-----------------------------------------------------------------------------
(* Without a first token there is no loop, and one answer per call.        *)
THEOREM TypeCorrect == Spec => []TypeOK
BY SessionInvHolds, PTL DEF SessionInv

(* No call carries a token that expires on the way unless two renewals in  *)
(* a row failed, whatever the ttl, the margin and the length of a call.    *)
THEOREM TokensOutlastCalls == Spec => []TokensLast
<1>1. SessionInv => TokensLast
  <2> SUFFICES ASSUME SessionInv, renewals_failed < 2
               PROVE  (pc = "heartbeat" => access > 0) /\ (pc = "refresh" => refresh > 0)
    BY DEF TokensLast
  <2>1. CallOK /\ ClocksOK /\ AccessLasts /\ RetryLasts
    BY TypeSplits DEF SessionInv, Timing
  <2>2. /\ access \in Nat /\ refresh \in Nat /\ renewals_failed \in {0, 1}
        /\ open_for \in Nat /\ open_for <= MaxCall
    BY <2>1, ClockTypes
  <2>3. QED
    BY <2>1, <2>2, Constant DEF AccessLasts, RetryLasts, CallOK
<1>2. QED
  BY <1>1, SessionInvHolds, PTL

(* From the first heartbeat that succeeds, the engine sends until one      *)
(* fails or the session stops, whatever is renewed in between.             *)
THEOREM SubscriptionIsKept == Spec => []SubscriptionHolds
<1>1. SessionInv => SubscriptionHolds
  <2> SUFFICES ASSUME SessionInv, kept, pc # "stopped" PROVE sending > 0
    BY DEF SubscriptionHolds
  <2>1. CallOK /\ ClocksOK /\ SendingLasts
    BY TypeSplits DEF SessionInv, Timing
  <2>2. sending \in Nat /\ wait \in Nat /\ open_for \in Nat /\ open_for <= MaxCall
    BY <2>1, ClockTypes
  <2>3. QED
    BY <2>1, <2>2, Constant DEF SendingLasts, CallOK, Calls, TokenCalls
<1>2. QED
  BY <1>1, SessionInvHolds, PTL
=============================================================================
