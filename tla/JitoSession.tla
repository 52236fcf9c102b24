----------------------------- MODULE JitoSession -----------------------------
(***************************************************************************)
(* The direct-mode session with a Jito block engine                        *)
(* (src/src/sources/jito.rs, run_direct_mode and run_heartbeat_loop): it   *)
(* authenticates, then sends heartbeats that keep the engine sending       *)
(* shreds, and renews its tokens between heartbeats.                       *)
(*                                                                         *)
(* Time is counted in units of half a second; every deadline is a variable *)
(* that counts down.  The engine is external: it handles a call at some    *)
(* moment while the call is open, and its answer takes time as well.  A    *)
(* call may break before or after the engine has handled it.  The code has *)
(* no timeout for a call; here an engine ends every call within MaxCall,   *)
(* and Orbshred contains the session that hangs.                           *)
(***************************************************************************)
EXTENDS Integers, FiniteSets

CONSTANTS
  Margin,       \* renew a token with less than this left: 60 s
  MinWait,      \* between heartbeats: 500 ms
  RetryTtl,     \* the ttl after a failed heartbeat: 1000 ms
  Ttls,         \* ttl_ms that the engine answers
  AccessLife, RefreshLife,  \* lifetimes of the tokens it issues
  MaxCall       \* the longest that a call takes

Greater(m, n) == IF m > n THEN m ELSE n
Lower(n)      == IF n = 0 THEN 0 ELSE n - 1

(* Mutant: the next heartbeat at the end of the ttl. *)
WaitWholeTtl(ttl) == Greater(ttl, MinWait)

Wait(ttl) == Greater(ttl \div 2, MinWait)

(* An engine for which half a ttl suffices for the calls of a turn (two to *)
(* authenticate, one heartbeat, after the answer to the last), and the     *)
(* margin for a turn and the calls of the next.                            *)
ASSUME EngineAssumption ==
  /\ Margin \in Nat /\ MinWait \in Nat \ {0} /\ RetryTtl \in Nat /\ MaxCall \in Nat \ {0}
  /\ AccessLife \in Nat /\ RefreshLife \in Nat /\ Ttls \subseteq Nat
  /\ \A ttl \in Ttls : ttl > Greater(ttl \div 2, MinWait) + 4 * MaxCall
  /\ \A ttl \in Ttls \cup {RetryTtl} :
       Margin > Greater(ttl \div 2, MinWait) + 6 * MaxCall
  /\ AccessLife >= Margin /\ RefreshLife >= Margin

VARIABLES
  pc,         \* "turn": the top of the loop; a call; "waiting" or "stopped"
  open_for,   \* how long the call has been open
  answer,     \* the engine's answer to it, if there is one yet
  wait,       \* until the next heartbeat
  access, refresh,            \* until the tokens expire
  access_told, refresh_told,  \* did their answers carry an expiry?
  listening,  \* has the first authentication started the listener?
  cancelled,
  known,      \* does the engine know the tokens?
  sound,      \* have calls stopped breaking for good?
  sending     \* until the engine stops sending shreds

VARIABLES
  renewals_failed,  \* history: failed renewals in a row, at most 2
  kept              \* history: has a heartbeat succeeded, and none failed since?

tokenVars   == <<access, refresh, access_told, refresh_told>>
engineVars  == <<known, sound, sending>>
historyVars == <<renewals_failed, kept>>
vars == <<pc, open_for, answer, wait, tokenVars, listening, cancelled, engineVars,
          historyVars>>

TokenCalls == {"challenge", "tokens", "refresh"}
Calls      == TokenCalls \cup {"heartbeat"}

Begin(call) == pc' = call /\ open_for' = 0 /\ answer' = {}
Leave(next) == pc' = next /\ open_for' = 0 /\ answer' = {}

-----------------------------------------------------------------------------
(* The session. *)

(* An expiry that is missing or invalid reads as 1970. *)
AccessLeft  == IF access_told THEN access ELSE 0
RefreshLeft == IF refresh_told THEN refresh ELSE 0

(* Mutant: a token is renewed when it has expired. *)
RenewExpired(left) == left = 0

Renew(left) == left < Margin

(* Mutant: the refresh token serves for ever. *)
NeverReauthenticates == "refresh"

(* try_refresh *)
RenewalCall == IF Renew(RefreshLeft) THEN "challenge" ELSE "refresh"

(* Mutant: only the wait looks at the token. *)
TurnUncancelled ==
  /\ pc = "turn"
  /\ Begin(IF Renew(AccessLeft) THEN RenewalCall ELSE "heartbeat")
  /\ UNCHANGED <<wait, tokenVars, listening, historyVars>>

Turn ==
  /\ pc = "turn"
  /\ IF cancelled THEN Leave("stopped")
     ELSE Begin(IF Renew(AccessLeft) THEN RenewalCall ELSE "heartbeat")
  /\ UNCHANGED <<wait, tokenVars, listening, historyVars>>

Granted(call) == pc = call /\ \E a \in answer : a.granted
Age           == CHOOSE n \in {a.age : a \in answer} : TRUE

(* authenticate *)
ChallengeReceived ==
  /\ Granted("challenge") /\ Begin("tokens")
  /\ UNCHANGED <<wait, tokenVars, listening, historyVars>>

TokensReceived ==
  /\ Granted("tokens")
  /\ access' = AccessLife - Age /\ refresh' = RefreshLife - Age
  /\ access_told' \in BOOLEAN /\ refresh_told' \in BOOLEAN
  /\ listening' = TRUE
  /\ IF listening THEN Begin("heartbeat") ELSE Leave("turn")
  /\ renewals_failed' = 0 /\ UNCHANGED <<wait, kept>>

AccessReceived ==
  /\ Granted("refresh")
  /\ access' = AccessLife - Age /\ access_told' \in BOOLEAN
  /\ Begin("heartbeat")
  /\ renewals_failed' = 0 /\ UNCHANGED <<wait, refresh, refresh_told, listening, kept>>

(* A call fails: the engine refused it, or it broke. *)
Fails == ~sound \/ \E a \in answer : ~a.granted

(* Mutant: the first authentication may fail as well. *)
TokenCallFailsAnyway ==
  /\ pc \in TokenCalls /\ Fails /\ Begin("heartbeat")
  /\ renewals_failed' = IF renewals_failed = 2 THEN 2 ELSE renewals_failed + 1
  /\ UNCHANGED <<wait, tokenVars, listening, kept>>

(* A failed renewal is logged and the old tokens are kept; the first       *)
(* authentication must succeed.                                            *)
TokenCallFails ==
  /\ pc \in TokenCalls /\ Fails
  /\ IF listening THEN Begin("heartbeat") ELSE Leave("stopped")
  /\ renewals_failed' = IF renewals_failed = 2 THEN 2 ELSE renewals_failed + 1
  /\ UNCHANGED <<wait, tokenVars, listening, kept>>

HeartbeatAnswered ==
  /\ Granted("heartbeat") /\ Leave("waiting")
  /\ \E a \in answer : wait' = Wait(a.ttl)
  /\ kept' = TRUE /\ UNCHANGED <<tokenVars, listening, renewals_failed>>

HeartbeatFails ==
  /\ pc = "heartbeat" /\ Fails /\ Leave("waiting")
  /\ wait' = Wait(RetryTtl)
  /\ kept' = FALSE /\ UNCHANGED <<tokenVars, listening, renewals_failed>>

WaitEnds ==
  /\ pc = "waiting"
  /\ \/ wait = 0 /\ Leave("turn")
     \/ cancelled /\ Leave("stopped")
  /\ UNCHANGED <<wait, tokenVars, listening, historyVars>>

Session ==
  /\ \/ TokensReceived /\ known' = TRUE
     \/ /\ \/ Turn \/ ChallengeReceived \/ AccessReceived \/ TokenCallFails
           \/ HeartbeatAnswered \/ HeartbeatFails \/ WaitEnds
        /\ UNCHANGED known
  /\ UNCHANGED <<cancelled, sound, sending>>

-----------------------------------------------------------------------------
(* The engine, the network, the user and time. *)

Honoured ==
  CASE pc = "heartbeat" -> known /\ access > 0
    [] pc = "refresh"   -> known /\ refresh > 0
    [] OTHER            -> TRUE

Handle ==
  /\ pc \in Calls /\ answer = {}
  /\ \E ttl \in Ttls :
       /\ answer' = {[granted |-> Honoured, age |-> 0, ttl |-> ttl]}
       /\ sending' = IF pc = "heartbeat" /\ Honoured THEN ttl ELSE sending
  /\ UNCHANGED <<pc, open_for, wait, tokenVars, listening, cancelled, known, sound,
                 historyVars>>

(* The engine restarts and has lost its sessions. *)
Restart ==
  /\ ~sound
  /\ known' = FALSE /\ sending' = 0
  /\ answer' = {[a EXCEPT !.granted = FALSE] : a \in answer}
  /\ kept' = FALSE
  /\ UNCHANGED <<pc, open_for, wait, tokenVars, listening, cancelled, sound,
                 renewals_failed>>

BecomeSound ==
  /\ ~sound /\ sound' = TRUE
  /\ UNCHANGED <<pc, open_for, answer, wait, tokenVars, listening, cancelled, known,
                 sending, historyVars>>

Cancel ==
  /\ ~cancelled /\ cancelled' = TRUE
  /\ UNCHANGED <<pc, open_for, answer, wait, tokenVars, listening, engineVars,
                 historyVars>>

Tick ==
  /\ \/ pc \in Calls /\ open_for < MaxCall
     \/ pc = "waiting" /\ wait > 0
  /\ open_for' = IF pc \in Calls THEN open_for + 1 ELSE open_for
  /\ answer' = {[a EXCEPT !.age = @ + 1] : a \in answer}
  /\ wait' = Lower(wait) /\ access' = Lower(access) /\ refresh' = Lower(refresh)
  /\ sending' = Lower(sending)
  /\ UNCHANGED <<pc, access_told, refresh_told, listening, cancelled, known, sound,
                 historyVars>>

Init ==
  /\ pc = "challenge" /\ open_for = 0 /\ answer = {} /\ wait = 0
  /\ access = 0 /\ refresh = 0 /\ access_told = FALSE /\ refresh_told = FALSE
  /\ listening = FALSE /\ cancelled = FALSE
  /\ known = FALSE /\ sound = FALSE /\ sending = 0
  /\ renewals_failed = 0 /\ kept = FALSE

Next == Session \/ Handle \/ Restart \/ BecomeSound \/ Cancel \/ Tick

(* The task runs, the engine answers and time passes. *)
Fairness == WF_vars(Session) /\ WF_vars(Handle) /\ WF_vars(Tick)

Spec == Init /\ [][Next]_vars /\ Fairness

-----------------------------------------------------------------------------
(* Type invariant of the session; without a first token there is no loop. *)
TypeOK ==
  /\ pc \in Calls \cup {"turn", "waiting", "stopped"}
  /\ open_for \in 0..MaxCall
  /\ answer \subseteq [granted : BOOLEAN, age : 0..MaxCall, ttl : Ttls]
  /\ \A a, b \in answer : a = b
  /\ access \in 0..AccessLife /\ refresh \in 0..RefreshLife /\ wait \in Nat /\ sending \in Nat
  /\ {access_told, refresh_told, listening, cancelled, known, sound, kept} \subseteq BOOLEAN
  /\ renewals_failed \in 0..2
  /\ pc \in {"turn", "refresh", "heartbeat", "waiting"} => listening

(* The margin of jito.rs 361-362 and 406-407, against turns that are as    *)
(* long as the ttl and calls that take their time: no call carries a token *)
(* that expires on the way, unless renewals failed twice in a row.         *)
TokensLast ==
  answer = {} /\ renewals_failed < 2 =>
    /\ pc = "heartbeat" => access > 0
    /\ pc = "refresh" => refresh > 0

(* jito.rs 395, "Re-heartbeat at half the TTL": as long as heartbeats      *)
(* succeed, the engine does not stop sending, whatever is renewed between  *)
(* them and whether or not that works.                                     *)
SubscriptionHolds == kept /\ pc # "stopped" => sending > 0

(* However the tokens were lost, by expiry, by failed renewals or by a     *)
(* restart of the engine: once calls succeed again, so do heartbeats (for  *)
(* an engine that forgot the tokens only when they would have expired).    *)
Recovers == sound ~> kept \/ pc = "stopped"

(* jito.rs 359 and 397-400: the session sees the cancellation, at the      *)
(* latest after the calls of its turn.                                     *)
StopsWhenCancelled == cancelled ~> pc = "stopped"
=============================================================================
