---------------------------- MODULE CircuitBreaker ----------------------------
(***************************************************************************)
(* The breaker of the primary LLM, src/llm/circuit_breaker.py, and the     *)
(* router that asks it, src/llm/router.py.  invoke() and                   *)
(* diagnose_with_agent() take the same path: the primary if the breaker    *)
(* lets them, its result recorded; after a failure or a refusal the        *)
(* fallback, whose result is not recorded.                                 *)
(*                                                                         *)
(* The breaker's methods hold a lock and never await inside it, so each is *)
(* one step; between check() and the record the call is in flight, and any *)
(* number of others may be.  Time is counted in ticks.                     *)
(***************************************************************************)
EXTENDS Integers, FiniteSets

CONSTANTS
  Callers,          \* coroutines that use the router, each again and again
  Window,           \* window_sec
  Num, Den,         \* threshold = Num / Den            (code: 0.3)
  MinResults,       \* results needed before it trips   (code: 3)
  MaxResults        \* bound: results counted in one window

ASSUME BreakerAssumption ==
  /\ Window \in Nat \ {0} /\ MinResults \in Nat \ {0}
  /\ IsFiniteSet(Callers)
  /\ Num \in Nat /\ Den \in Nat \ {0} /\ Num < Den
  /\ MaxResults \in Nat /\ MaxResults >= MinResults

VARIABLES
  state,       \* "CLOSED", "OPEN" or "HALF_OPEN"
  successes,   \* _successes
  failures,    \* _failures
  opened,      \* ticks since _opened_at, at most Window
  started,     \* ticks since _window_started_at, at most Window
  call,        \* call[c]: which model the call of c is waiting for
  within       \* within[k]: failures recorded while CLOSED in the last k ticks

breaker == <<state, successes, failures, opened, started>>
vars    == <<breaker, call, within>>

TypeOK ==
  /\ state \in {"CLOSED", "OPEN", "HALF_OPEN"}
  /\ successes \in 0..MaxResults /\ failures \in 0..MaxResults
  /\ opened \in 0..Window /\ started \in 0..Window
  /\ call \in [Callers -> {"idle", "primary", "fallback"}]
  /\ within \in [1..Window -> 0..MaxResults]

Init ==
  /\ state = "CLOSED" /\ successes = 0 /\ failures = 0
  /\ opened = Window /\ started = 0
  /\ call = [c \in Callers |-> "idle"]
  /\ within = [k \in 1..Window |-> 0]

Goto(c, model) == call' = [call EXCEPT ![c] = model]

-----------------------------------------------------------------------------
(* check() and the choice of the model.                                    *)

(* A bound on the model, not in the code: no more calls start in a window  *)
(* than could be counted in it.                                            *)
InFlight  == {c \in Callers : call[c] = "primary"}
Countable == successes + failures + Cardinality(InFlight) < MaxResults \/ started = Window

(* Mutant: check() raises in OPEN without looking at the time.             *)
CallPrimaryNeverAgain(c) ==
  /\ call[c] = "idle"
  /\ \/ state = "CLOSED" /\ Countable
     \/ state = "HALF_OPEN"
  /\ Goto(c, "primary")
  /\ UNCHANGED <<breaker, within>>

CallPrimary(c) ==
  /\ call[c] = "idle"
  /\ \/ state = "CLOSED" /\ Countable /\ UNCHANGED state
     \/ state = "OPEN" /\ opened >= Window /\ state' = "HALF_OPEN"
     \/ state = "HALF_OPEN" /\ UNCHANGED state
  /\ Goto(c, "primary")
  /\ UNCHANGED <<successes, failures, opened, started, within>>

(* CircuitBreakerOpen. *)
Refused(c) ==
  /\ call[c] = "idle"
  /\ state = "OPEN" /\ opened < Window
  /\ Goto(c, "fallback")
  /\ UNCHANGED <<breaker, within>>

-----------------------------------------------------------------------------
(* record_success() and record_failure().                                  *)

(* The counters after _reset_closed_window_if_expired.                     *)
Expired == state = "CLOSED" /\ started >= Window

(* Mutant: the window is never reset.                                      *)
KeptForever(n) == n

Kept(n) == IF Expired THEN 0 ELSE n
NewWindow == started' = IF Expired THEN 0 ELSE started

Plus(n) == IF n < MaxResults THEN n + 1 ELSE n

(* Mutant: any success closes an open breaker.                             *)
RecordSuccessEager ==
  IF state # "CLOSED"
  THEN /\ state' = "CLOSED" /\ successes' = 0 /\ failures' = 0
       /\ opened' = Window /\ started' = 0
  ELSE /\ NewWindow
       /\ successes' = Plus(Kept(successes)) /\ failures' = Kept(failures)
       /\ UNCHANGED <<state, opened>>

RecordSuccess ==
  IF state = "HALF_OPEN"
  THEN /\ state' = "CLOSED" /\ successes' = 0 /\ failures' = 0
       /\ opened' = Window /\ started' = 0
  ELSE /\ NewWindow
       /\ successes' = Plus(Kept(successes)) /\ failures' = Kept(failures)
       /\ UNCHANGED <<state, opened>>

Trips(s, f) == s + f >= MinResults /\ f * Den > Num * (s + f)

RecordFailure ==
  IF state = "HALF_OPEN"
  THEN state' = "OPEN" /\ opened' = 0 /\ UNCHANGED <<successes, failures, started>>
  ELSE /\ NewWindow
       /\ successes' = Kept(successes) /\ failures' = Plus(Kept(failures))
       /\ IF Trips(successes', failures')
          THEN state' = "OPEN" /\ opened' = 0
          ELSE UNCHANGED <<state, opened>>

PrimarySucceeds(c) ==
  /\ call[c] = "primary"
  /\ RecordSuccess
  /\ Goto(c, "idle")
  /\ UNCHANGED within

(* An exception, the timeout and an agent that exceeds its turns are all   *)
(* failures; the fallback is tried at once.                                *)
PrimaryFails(c) ==
  /\ call[c] = "primary"
  /\ RecordFailure
  /\ Goto(c, "fallback")
  /\ within' = IF state = "CLOSED" THEN [k \in 1..Window |-> Plus(within[k])] ELSE within

(* The task is cancelled: CancelledError is no Exception, nothing is       *)
(* recorded.                                                               *)
Cancelled(c) ==
  /\ call[c] # "idle"
  /\ Goto(c, "idle")
  /\ UNCHANGED <<breaker, within>>

(* The fallback answers, or LLMUnavailable is raised: the call is over.    *)
FallbackEnds(c) ==
  /\ call[c] = "fallback"
  /\ Goto(c, "idle")
  /\ UNCHANGED <<breaker, within>>

-----------------------------------------------------------------------------
(* The process is restarted: the breaker lives in its memory only. *)
Restart ==
  /\ state' = "CLOSED" /\ successes' = 0 /\ failures' = 0
  /\ opened' = Window /\ started' = 0
  /\ call' = [c \in Callers |-> "idle"]
  /\ within' = [k \in 1..Window |-> 0]

Later(n) == IF n < Window THEN n + 1 ELSE n

Tick ==
  /\ opened' = Later(opened) /\ started' = Later(started)
  /\ within' = [k \in 1..Window |-> IF k = 1 THEN 0 ELSE within[k - 1]]
  /\ UNCHANGED <<state, successes, failures, call>>

Call(c) == CallPrimary(c) \/ Refused(c)
Reply(c) == PrimarySucceeds(c) \/ PrimaryFails(c) \/ FallbackEnds(c)

Next ==
  \/ \E c \in Callers : Call(c) \/ Reply(c) \/ Cancelled(c)
  \/ Restart \/ Tick

Spec == Init /\ [][Next]_vars

-----------------------------------------------------------------------------
(* Properties.                                                             *)

(* The breaker leaves CLOSED only for failures of the window just past:    *)
(* more than the threshold's share of MinResults, none of them older than  *)
(* window_sec, however long ago the counters were last looked at.          *)
TripsOnFreshFailures ==
  [][state = "CLOSED" /\ state' = "OPEN"
       => (within[Window] + 1) * Den > Num * MinResults]_vars

(* Once open, it stays open for a full window after the failure that       *)
(* opened it, whatever results of calls from before still come in; only a  *)
(* restart of the process forgets it.                                      *)
OpenForAWindow ==
  [][state = "OPEN" /\ state' # "OPEN"
       => (opened = Window /\ state' = "HALF_OPEN") \/ Restart]_vars

(* A primary that has recovered is used again: when from some time on no   *)
(* call to it fails or is cut off, the breaker does not stay open, or half *)
(* open, although late failures pushed its opening time.                   *)
CutOff(c) == call[c] = "primary" /\ Cancelled(c) /\ ~PrimarySucceeds(c)
RecoversInTheEnd ==
  <>[][~Restart /\ \A c \in Callers : ~PrimaryFails(c) /\ ~CutOff(c)]_vars
    => <>[](state = "CLOSED")
=============================================================================
