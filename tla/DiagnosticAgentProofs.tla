------------------------ MODULE DiagnosticAgentProofs ------------------------
(***************************************************************************)
(* The diagnosis uses the router as CircuitBreaker describes it, for any   *)
(* number of alerts, coroutines, tool calls, turns and attempts; hence the *)
(* breaker stays open for its window.  Conversations answer every call.    *)
(***************************************************************************)
EXTENDS DiagnosticAgent, TLAPS

(* Every step of a conversation is a step of its caller, or none.          *)
LEMMA ConversesIsRouted ==
  ASSUME NEW c \in Callers, Converses(c)
  PROVE  Reply(c) \/ UNCHANGED vars
<1>1. CASE \E calls \in SUBSET ToolCalls \ {{}} : WantsTools(c, calls)
  BY <1>1 DEF WantsTools
<1>2. CASE \E t \in ToolCalls : ToolEnds(c, t)
  BY <1>2 DEF ToolEnds
<1>3. CASE Concludes(c)
  BY <1>3 DEF Concludes, Reply
<1>4. CASE Raises(c)
  BY <1>4 DEF Raises, Reply
<1> QED BY <1>1, <1>2, <1>3, <1>4 DEF Converses

LEMMA StepIsRouted ==
  ASSUME [AgentNext]_agentVars
  PROVE  [Next]_vars
<1>1. CASE \E a \in Alerts : Ask(a) \/ TimesOut(a)
  BY <1>1 DEF Ask, TimesOut
<1>2. CASE \E a \in Alerts, c \in Callers : Pickup(a, c)
  BY <1>2 DEF Pickup, Next
<1>3. CASE \E c \in Callers : Converses(c)
  BY <1>3, ConversesIsRouted DEF Next
<1>4. CASE \E c \in Callers : IsCancelled(c)
  BY <1>4 DEF IsCancelled, Next
<1>5. CASE Crash
  BY <1>5 DEF Crash, Next
<1>6. CASE Tick /\ UNCHANGED <<talk, wait>>
  BY <1>6 DEF Next
<1>7. CASE UNCHANGED agentVars
  BY <1>7 DEF agentVars
<1> QED BY <1>1, <1>2, <1>3, <1>4, <1>5, <1>6, <1>7 DEF AgentNext

(* Each conversation with the primary gives the breaker one result, and    *)
(* nothing else gives any: the agent implements the router of              *)
(* CircuitBreaker.                                                         *)
THEOREM AgentImplementsRouter == AgentSpec => ImplementsRouter
<1>1. AgentInit => Init
  BY DEF AgentInit
<1>2. [AgentNext]_agentVars => [Next]_vars
  BY StepIsRouted
<1> QED BY <1>1, <1>2, PTL DEF AgentSpec, ImplementsRouter, Spec

-----------------------------------------------------------------------------
(* The router and the breaker.                                             *)

(* A result leaves the breaker well typed, whatever its state.             *)
LEMMA RecordTyped ==
  ASSUME TypeOK, RecordSuccess \/ RecordFailure
  PROVE  /\ state' \in {"CLOSED", "OPEN", "HALF_OPEN"}
         /\ successes' \in 0..MaxResults /\ failures' \in 0..MaxResults
         /\ opened' \in 0..Window /\ started' \in 0..Window
<1> USE BreakerAssumption DEF TypeOK
<1>1. /\ Kept(successes) \in 0..MaxResults /\ Kept(failures) \in 0..MaxResults
      /\ Plus(Kept(successes)) \in 0..MaxResults
      /\ Plus(Kept(failures)) \in 0..MaxResults
  BY DEF Kept, Plus
<1>2. CASE RecordSuccess
  BY <1>1, <1>2 DEF RecordSuccess, NewWindow
<1>3. CASE RecordFailure
  BY <1>1, <1>3 DEF RecordFailure, NewWindow
<1> QED BY <1>2, <1>3

LEMMA RouterTypeStep == TypeOK /\ [Next]_vars => TypeOK'
<1> SUFFICES ASSUME TypeOK, [Next]_vars PROVE TypeOK'
  OBVIOUS
<1> USE DEF TypeOK, Goto
<1>1. ASSUME NEW c \in Callers, Call(c) PROVE TypeOK'
  BY <1>1 DEF Call, CallPrimary, Refused, breaker
<1>2. ASSUME NEW c \in Callers, PrimarySucceeds(c) PROVE TypeOK'
  <2>1. RecordSuccess
    BY <1>2 DEF PrimarySucceeds
  <2> QED BY <1>2, <2>1, RecordTyped DEF PrimarySucceeds
<1>3. ASSUME NEW c \in Callers, PrimaryFails(c) PROVE TypeOK'
  <2>1. RecordFailure
    BY <1>3 DEF PrimaryFails
  <2>2. within' \in [1..Window -> 0..MaxResults]
    BY <1>3, BreakerAssumption DEF PrimaryFails, Plus
  <2> QED BY <1>3, <2>1, <2>2, RecordTyped DEF PrimaryFails
<1>4. ASSUME NEW c \in Callers, FallbackEnds(c) \/ Cancelled(c) PROVE TypeOK'
  BY <1>4 DEF FallbackEnds, Cancelled, breaker
<1>5. CASE Restart
  BY <1>5, BreakerAssumption DEF Restart
<1>6. CASE Tick
  <2>1. within' \in [1..Window -> 0..MaxResults]
    <3>1. ASSUME NEW k \in 1..Window, k # 1 PROVE within[k - 1] \in 0..MaxResults
      BY <3>1, BreakerAssumption
    <3> QED BY <1>6, <3>1, BreakerAssumption DEF Tick
  <2> QED BY <1>6, <2>1, BreakerAssumption DEF Tick, Later
<1>7. CASE UNCHANGED vars
  BY <1>7 DEF vars, breaker
<1> QED BY <1>1, <1>2, <1>3, <1>4, <1>5, <1>6, <1>7 DEF Next, Reply

(* The breaker's counters stay in their bounds and its ages in the window, *)
(* with any number of calls in flight.                                     *)
THEOREM RouterTypeCorrect == Spec => []TypeOK
<1>1. Init => TypeOK
  BY BreakerAssumption DEF Init, TypeOK
<1> QED BY <1>1, RouterTypeStep, PTL DEF Spec

(* An open breaker is left for HALF_OPEN only, after a full window, by a   *)
(* call: no late result closes it (record_success, record_failure).        *)
THEOREM BreakerStaysOpen == AgentSpec => OpenForAWindow
<1>1. TypeOK /\ [Next]_vars
        => [state = "OPEN" /\ state' # "OPEN"
              => (opened = Window /\ state' = "HALF_OPEN") \/ Restart]_vars
  <2> SUFFICES ASSUME TypeOK, Next, state = "OPEN", state' # "OPEN"
               PROVE  (opened = Window /\ state' = "HALF_OPEN") \/ Restart
    OBVIOUS
  <2>1. ASSUME NEW c \in Callers, Call(c) PROVE opened = Window /\ state' = "HALF_OPEN"
    BY <2>1, BreakerAssumption DEF Call, CallPrimary, Refused, breaker, TypeOK
  <2>2. ASSUME NEW c \in Callers, Reply(c) PROVE FALSE
    BY <2>2 DEF Reply, PrimarySucceeds, PrimaryFails, FallbackEnds, RecordSuccess,
                RecordFailure, breaker
  <2>3. ASSUME NEW c \in Callers, Cancelled(c) PROVE FALSE
    BY <2>3 DEF Cancelled, breaker
  <2>4. CASE Tick
    BY <2>4 DEF Tick
  <2> QED BY <2>1, <2>2, <2>3, <2>4 DEF Next
<1>2. Spec => OpenForAWindow
  BY <1>1, RouterTypeCorrect, PTL DEF Spec, OpenForAWindow
<1> QED BY <1>2, AgentImplementsRouter DEF ImplementsRouter

-----------------------------------------------------------------------------
(* The failures counted in the window the breaker is in.                   *)

(* A window that is not over counts only failures recorded since it began. *)
Monotone    == \A j, k \in 1..Window : j <= k => within[j] <= within[k]
FreshCounts == state = "CLOSED" /\ started < Window => failures <= within[started + 1]
FreshInv    == TypeOK /\ Monotone /\ FreshCounts

LEMMA PlusMonotone ==
  ASSUME NEW m \in 0..MaxResults, NEW n \in 0..MaxResults, m <= n
  PROVE  /\ Plus(m) <= Plus(n) /\ m <= Plus(n) /\ Plus(m) <= m + 1
         /\ Plus(m) \in 0..MaxResults
  BY BreakerAssumption DEF Plus

(* What a failure leaves in the counter, unless it is counted in a window  *)
(* begun by it, was there when the window began or is the failure itself.  *)
LEMMA KeptIsFresh ==
  ASSUME FreshInv, state = "CLOSED"
  PROVE  Kept(failures) \in 0..MaxResults /\ Kept(failures) <= within[Window]
<1> USE BreakerAssumption DEF FreshInv, TypeOK
<1>1. CASE started = Window
  BY <1>1 DEF Kept, Expired
<1>2. CASE started < Window
  <2>1. failures <= within[started + 1] /\ started + 1 \in 1..Window
    BY <1>2 DEF FreshCounts
  <2>2. within[started + 1] <= within[Window] /\ Window \in 1..Window
    BY <2>1 DEF Monotone
  <2> QED BY <1>2, <2>1, <2>2 DEF Kept, Expired
<1> QED BY <1>1, <1>2

LEMMA FreshStep == FreshInv /\ [Next]_vars => FreshInv'
<1> SUFFICES ASSUME FreshInv, [Next]_vars PROVE Monotone' /\ FreshCounts'
  BY RouterTypeStep DEF FreshInv
<1> USE BreakerAssumption DEF FreshInv, TypeOK
<1>1. ASSUME UNCHANGED within, FreshCounts' PROVE Monotone' /\ FreshCounts'
  BY <1>1 DEF Monotone
<1>2. ASSUME NEW c \in Callers, Call(c) PROVE Monotone' /\ FreshCounts'
  BY <1>1, <1>2 DEF Call, CallPrimary, Refused, breaker, FreshCounts
<1>3. ASSUME NEW c \in Callers, PrimarySucceeds(c) PROVE Monotone' /\ FreshCounts'
  <2>1. RecordSuccess /\ UNCHANGED within
    BY <1>3 DEF PrimarySucceeds
  <2>2. FreshCounts'
    BY <2>1 DEF RecordSuccess, NewWindow, Kept, Expired, FreshCounts
  <2> QED BY <1>1, <2>1, <2>2
<1>4. ASSUME NEW c \in Callers, PrimaryFails(c) PROVE Monotone' /\ FreshCounts'
  <2>1. RecordFailure
    BY <1>4 DEF PrimaryFails
  <2>2. CASE state # "CLOSED"
    <3>1. UNCHANGED within
      BY <1>4, <2>2 DEF PrimaryFails
    <3>2. FreshCounts'
      BY <2>1, <2>2 DEF RecordFailure, NewWindow, Expired, FreshCounts
    <3> QED BY <1>1, <3>1, <3>2
  <2>3. CASE state = "CLOSED"
    <3>1. within' = [k \in 1..Window |-> Plus(within[k])]
      BY <1>4, <2>3 DEF PrimaryFails
    <3>2. Monotone'
      <4> SUFFICES ASSUME NEW j \in 1..Window, NEW k \in 1..Window, j <= k
                   PROVE  within'[j] <= within'[k]
        BY DEF Monotone
      <4>1. within[j] <= within[k] /\ within[j] \in 0..MaxResults /\ within[k] \in 0..MaxResults
        BY DEF Monotone
      <4> QED BY <3>1, <4>1, PlusMonotone
    <3>3. /\ started' = (IF Expired THEN 0 ELSE started)
          /\ failures' = Plus(Kept(failures))
      BY <2>1, <2>3 DEF RecordFailure, NewWindow
    <3>4. ASSUME started' < Window PROVE failures' <= within'[started' + 1]
      <4>1. started' + 1 \in 1..Window /\ within[started' + 1] \in 0..MaxResults
        BY <3>3, <3>4
      <4>2. Kept(failures) \in 0..MaxResults /\ Kept(failures) <= within[started' + 1]
        BY <2>3, <3>3, <3>4, <4>1 DEF Kept, Expired, FreshCounts
      <4> QED BY <3>1, <3>3, <4>1, <4>2, PlusMonotone
    <3> QED BY <3>2, <3>4 DEF FreshCounts
  <2> QED BY <2>2, <2>3
<1>5. ASSUME NEW c \in Callers, FallbackEnds(c) \/ Cancelled(c)
      PROVE  Monotone' /\ FreshCounts'
  BY <1>1, <1>5 DEF FallbackEnds, Cancelled, breaker, FreshCounts
<1>6. CASE Restart
  BY <1>6 DEF Restart, Monotone, FreshCounts
<1>7. CASE Tick
  <2>1. within' = [k \in 1..Window |-> IF k = 1 THEN 0 ELSE within[k - 1]]
    BY <1>7 DEF Tick
  <2>2. Monotone'
    <3> SUFFICES ASSUME NEW j \in 1..Window, NEW k \in 1..Window, j <= k
                 PROVE  within'[j] <= within'[k]
      BY DEF Monotone
    <3>1. CASE j = 1
      <4>1. within'[j] = 0
        BY <2>1, <3>1
      <4>2. k # 1 => k - 1 \in 1..Window
        OBVIOUS
      <4>3. within'[k] \in 0..MaxResults
        BY <2>1, <4>2
      <4> QED BY <4>1, <4>3
    <3>2. CASE j # 1
      <4>1. j - 1 \in 1..Window /\ k - 1 \in 1..Window /\ j - 1 <= k - 1 /\ k # 1
        BY <3>2
      <4> QED BY <2>1, <3>2, <4>1 DEF Monotone
    <3> QED BY <3>1, <3>2
  <2>3. ASSUME state' = "CLOSED", started' < Window
        PROVE  failures' <= within'[started' + 1]
    <3>1. started < Window /\ started' = started + 1 /\ failures' = failures /\ state = "CLOSED"
      BY <1>7, <2>3 DEF Tick, Later
    <3>2. /\ started' + 1 \in 1..Window /\ started' + 1 # 1
          /\ (started' + 1) - 1 = started + 1
      BY <2>3, <3>1
    <3>3. within'[started' + 1] = within[started + 1]
      BY <2>1, <3>2
    <3> QED BY <3>1, <3>3 DEF FreshCounts
  <2> QED BY <2>2, <2>3 DEF FreshCounts
<1>8. CASE UNCHANGED vars
  BY <1>1, <1>8 DEF vars, breaker, FreshCounts
<1> QED BY <1>2, <1>3, <1>4, <1>5, <1>6, <1>7, <1>8 DEF Next, Reply

LEMMA TimesMonotone ==
  ASSUME NEW a \in Nat, NEW b \in Nat, NEW n \in Nat, a <= b
  PROVE  a * n <= b * n /\ n * a <= n * b /\ a * n \in Nat /\ n * b \in Nat
  BY SMT

(* The breaker leaves CLOSED for failures of the window just past only,    *)
(* however late the results of calls come in and however long nobody has   *)
(* looked at the counters (record_failure, _reset_closed_window).          *)
THEOREM BreakerTripsOnFreshFailures == AgentSpec => TripsOnFreshFailures
<1>1. Init => FreshInv
  BY BreakerAssumption DEF Init, FreshInv, TypeOK, Monotone, FreshCounts
<1>2. FreshInv /\ [Next]_vars
        => [state = "CLOSED" /\ state' = "OPEN"
              => (within[Window] + 1) * Den > Num * MinResults]_vars
  <2> SUFFICES ASSUME FreshInv, Next, state = "CLOSED", state' = "OPEN"
               PROVE  (within[Window] + 1) * Den > Num * MinResults
    OBVIOUS
  <2>1. PICK c \in Callers : PrimaryFails(c)
    BY DEF Next, Call, CallPrimary, Refused, Reply, PrimarySucceeds, RecordSuccess,
           FallbackEnds, Cancelled, breaker, Restart, Tick
  <2>2. /\ failures' = Plus(Kept(failures)) /\ successes' = Kept(successes)
        /\ Trips(successes', failures')
    BY <2>1 DEF PrimaryFails, RecordFailure
  <2>3. /\ Kept(failures) \in 0..MaxResults /\ Kept(failures) <= within[Window]
        /\ within[Window] \in 0..MaxResults /\ successes' \in Nat
    BY <2>2, KeptIsFresh, BreakerAssumption DEF FreshInv, TypeOK, Kept
  <2>4. failures' \in Nat /\ failures' <= within[Window] + 1
    BY <2>2, <2>3, PlusMonotone, BreakerAssumption
  <2>5. failures' * Den <= (within[Window] + 1) * Den
    BY <2>3, <2>4, TimesMonotone, BreakerAssumption
  <2>6. Num * MinResults <= Num * (successes' + failures')
    <3>1. MinResults <= successes' + failures' /\ successes' + failures' \in Nat
      BY <2>2, <2>3, <2>4 DEF Trips
    <3> QED BY <3>1, TimesMonotone, BreakerAssumption
  <2>7. failures' * Den > Num * (successes' + failures')
    BY <2>2 DEF Trips
  <2> DEFINE x == failures' * Den
             y == (within[Window] + 1) * Den
             u == Num * MinResults
             v == Num * (successes' + failures')
  <2>8. x \in Int /\ y \in Int /\ u \in Int /\ v \in Int
    BY <2>3, <2>4, BreakerAssumption
  <2>9. x <= y /\ u <= v /\ x > v
    BY <2>5, <2>6, <2>7
  <2> HIDE DEF x, y, u, v
  <2>10. y > u
    BY <2>8, <2>9
  <2> QED BY <2>10 DEF y, u
<1>3. Spec => TripsOnFreshFailures
  BY <1>1, <1>2, FreshStep, PTL DEF Spec, TripsOnFreshFailures
<1> QED BY <1>3, AgentImplementsRouter DEF ImplementsRouter

-----------------------------------------------------------------------------
(* The conversations.                                                      *)

LEMMA AgentTypeStep == AgentTypeOK /\ [AgentNext]_agentVars => AgentTypeOK'
<1> SUFFICES ASSUME AgentTypeOK, [AgentNext]_agentVars PROVE AgentTypeOK'
  OBVIOUS
<1> DEFINE Talking == [turn : 0..MaxTurns, todo : SUBSET ToolCalls,
                       unanswered : SUBSET ToolCalls]
           Waiting == [tries : 0..MaxAttempts, by : Callers \cup {NoCaller}]
<1>1. TypeOK'
  BY StepIsRouted, RouterTypeStep DEF AgentTypeOK
<1>2. NoTalk \in Talking /\ NoWait \in Waiting
  BY AgentAssumption DEF NoTalk, NoWait
<1>3. ASSUME NEW a \in Alerts PROVE NextAttempt(a) \in Waiting
  BY <1>2, AgentAssumption DEF NextAttempt, AgentTypeOK
<1>4. talk \in [Callers -> Talking] /\ wait \in [Alerts -> Waiting]
  BY DEF AgentTypeOK
<1> SUFFICES talk' \in [Callers -> Talking] /\ wait' \in [Alerts -> Waiting]
  BY <1>1 DEF AgentTypeOK
<1>5. ASSUME NEW a \in Alerts, Ask(a) \/ TimesOut(a)
      PROVE  talk' \in [Callers -> Talking] /\ wait' \in [Alerts -> Waiting]
  BY <1>3, <1>4, <1>5, AgentAssumption DEF Ask, TimesOut
<1>6. ASSUME NEW a \in Alerts, NEW c \in Callers, Pickup(a, c)
      PROVE  talk' \in [Callers -> Talking] /\ wait' \in [Alerts -> Waiting]
  BY <1>4, <1>6 DEF Pickup
<1>7. ASSUME NEW c \in Callers, NEW calls \in SUBSET ToolCalls, WantsTools(c, calls)
      PROVE  talk' \in [Callers -> Talking] /\ wait' \in [Alerts -> Waiting]
  <2>1. NextTurn(talk[c].turn) \in 0..MaxTurns
    BY <1>4, <1>7, AgentAssumption DEF WantsTools, Asked, NextTurn
  <2> QED BY <1>4, <1>7, <2>1 DEF WantsTools
<1>8. ASSUME NEW c \in Callers, NEW t \in ToolCalls, ToolEnds(c, t)
      PROVE  talk' \in [Callers -> Talking] /\ wait' \in [Alerts -> Waiting]
  BY <1>4, <1>8 DEF ToolEnds, ToolRuns, ToolRaises, Answered
<1>9. ASSUME NEW c \in Callers, Concludes(c) \/ Raises(c)
      PROVE  talk' \in [Callers -> Talking] /\ wait' \in [Alerts -> Waiting]
  <2>1. talk' \in [Callers -> Talking]
    BY <1>2, <1>4, <1>9 DEF Concludes, Raises, Fresh
  <2>2. wait' = wait \/ Return(c)
    BY <1>9 DEF Concludes, Raises
  <2> QED BY <1>2, <1>4, <2>1, <2>2 DEF Return
<1>10. ASSUME NEW c \in Callers, IsCancelled(c)
       PROVE  talk' \in [Callers -> Talking] /\ wait' \in [Alerts -> Waiting]
  BY <1>2, <1>3, <1>4, <1>10 DEF IsCancelled, Fresh
<1>11. CASE Crash
  BY <1>2, <1>4, <1>11 DEF Crash
<1>12. CASE UNCHANGED <<talk, wait>>
  BY <1>4, <1>12
<1> QED BY <1>5, <1>6, <1>7, <1>8, <1>9, <1>10, <1>11, <1>12
        DEF AgentNext, Converses, agentVars

(* No conversation has more turns than max_turns, no diagnosis more        *)
(* attempts than its retry policy.                                         *)
THEOREM AgentTypeCorrect == AgentSpec => []AgentTypeOK
<1>1. AgentInit => AgentTypeOK
  BY BreakerAssumption, AgentAssumption
  DEF AgentInit, AgentTypeOK, Init, TypeOK, NoTalk, NoWait
<1> QED BY <1>1, AgentTypeStep, PTL DEF AgentSpec

(* What has no tool message is what is still to be executed.               *)
UnansweredIsTodo == \A c \in Callers : talk[c].unanswered = talk[c].todo

LEMMA TodoStep ==
  AgentTypeOK /\ UnansweredIsTodo /\ [AgentNext]_agentVars => UnansweredIsTodo'
<1> SUFFICES ASSUME AgentTypeOK, UnansweredIsTodo, [AgentNext]_agentVars,
                    NEW d \in Callers
             PROVE  talk'[d].unanswered = talk'[d].todo
  BY DEF UnansweredIsTodo
<1> USE DEF AgentTypeOK, UnansweredIsTodo
<1>1. ASSUME NEW c \in Callers, NEW calls \in SUBSET ToolCalls, WantsTools(c, calls)
      PROVE  talk'[d].unanswered = talk'[d].todo
  BY <1>1 DEF WantsTools
<1>2. ASSUME NEW c \in Callers, NEW t \in ToolCalls, ToolEnds(c, t)
      PROVE  talk'[d].unanswered = talk'[d].todo
  BY <1>2 DEF ToolEnds, ToolRuns, ToolRaises, Answered
<1>3. ASSUME NEW c \in Callers, Fresh(c)
      PROVE  talk'[d].unanswered = talk'[d].todo
  BY <1>3 DEF Fresh, NoTalk
<1>4. CASE Crash
  BY <1>4 DEF Crash, NoTalk
<1>5. CASE UNCHANGED talk
  BY <1>5
<1> QED BY <1>1, <1>2, <1>3, <1>4, <1>5
        DEF AgentNext, Converses, Concludes, Raises, IsCancelled, Ask, TimesOut,
            Pickup, agentVars

(* Every request to the model carries an answer to each tool call before   *)
(* it, however many calls a turn has and whichever of them fail.           *)
THEOREM CallsAlwaysAnswered == AgentSpec => []CallsAreAnswered
<1>1. AgentInit => UnansweredIsTodo
  BY DEF AgentInit, UnansweredIsTodo, NoTalk
<1>2. UnansweredIsTodo => CallsAreAnswered
  BY DEF UnansweredIsTodo, CallsAreAnswered, Asked
<1> QED BY <1>1, <1>2, TodoStep, AgentTypeCorrect, PTL DEF AgentSpec
=============================================================================
