--------------------------- MODULE DiagnosticAgent ---------------------------
(***************************************************************************)
(* The diagnosis of an alert: the workflow's activity agent_diagnose       *)
(* (src/workflows/alert_workflow.py, src/activities/llm.py), which has the *)
(* router hold a conversation with a model (src/llm/agent.py) that may     *)
(* have tools run on the hosts (src/llm/diagnostic_tools.py).              *)
(*                                                                         *)
(* A conversation belongs to one model.  Its messages are abstracted to    *)
(* the turns taken, the calls of the last turn still to be executed, and   *)
(* those without a tool message.  The callers of CircuitBreaker are the    *)
(* coroutines of the activity's attempts.  An attempt that Temporal has    *)
(* timed out may be cancelled, now or later, or go on talking.             *)
(***************************************************************************)
EXTENDS CircuitBreaker

CONSTANTS
  Alerts,       \* workflows, each diagnosing one alert after another
  ToolCalls,    \* tool calls of one turn
  MaxTurns,     \* max_turns                                    (code: 5)
  MaxAttempts,  \* maximum_attempts of agent_diagnose           (code: 2)
  NoCaller

ASSUME AgentAssumption ==
  /\ MaxTurns \in Nat \ {0} /\ MaxAttempts \in Nat \ {0}
  /\ NoCaller \notin Callers

VARIABLES
  talk,   \* talk[c]: the conversation of the coroutine c
  wait    \* wait[a]: the attempt whose result the workflow of a awaits

agentVars == <<vars, talk, wait>>

NoTalk == [turn |-> 0, todo |-> {}, unanswered |-> {}]
NoWait == [tries |-> 0, by |-> NoCaller]

AgentTypeOK ==
  /\ TypeOK
  /\ talk \in [Callers -> [turn : 0..MaxTurns, todo : SUBSET ToolCalls,
                           unanswered : SUBSET ToolCalls]]
  /\ wait \in [Alerts -> [tries : 0..MaxAttempts, by : Callers \cup {NoCaller}]]

AgentInit ==
  /\ Init
  /\ talk = [c \in Callers |-> NoTalk]
  /\ wait = [a \in Alerts |-> NoWait]

-----------------------------------------------------------------------------
(* The workflow's side: _safe_agent_call, with Temporal's retry policy.    *)

Ask(a) ==
  /\ wait[a].tries = 0
  /\ wait' = [wait EXCEPT ![a] = [tries |-> 1, by |-> NoCaller]]
  /\ UNCHANGED <<vars, talk>>

(* A worker takes the attempt; the router asks the breaker.                *)
Pickup(a, c) ==
  /\ wait[a].tries > 0 /\ wait[a].by = NoCaller
  /\ Call(c)
  /\ wait' = [wait EXCEPT ![a].by = c]
  /\ UNCHANGED talk

(* Mutant: no maximum_attempts, which is Temporal's default.               *)
NextAttemptForever(a) == [tries |-> wait[a].tries, by |-> NoCaller]

NextAttempt(a) ==
  IF wait[a].tries < MaxAttempts
  THEN [tries |-> wait[a].tries + 1, by |-> NoCaller] ELSE NoWait

(* start_to_close_timeout.  After the last attempt the workflow goes on    *)
(* with agent_failed.  The coroutine is not told at once.                  *)
TimesOut(a) ==
  /\ wait[a].by # NoCaller
  /\ wait' = [wait EXCEPT ![a] = NextAttempt(a)]
  /\ UNCHANGED <<vars, talk>>

(* agent_diagnose returns, be it a plan, null or agent_failed: what comes  *)
(* from an attempt that has timed out is dropped.                          *)
Return(c) == wait' = [a \in Alerts |-> IF wait[a].by = c THEN NoWait ELSE wait[a]]

-----------------------------------------------------------------------------
(* One conversation: DiagnosticAgent.diagnose.                             *)

Talks(c) == call[c] # "idle"
Asked(c) == Talks(c) /\ talk[c].todo = {} /\ talk[c].turn < MaxTurns
Fresh(c) == talk' = [talk EXCEPT ![c] = NoTalk]

(* Mutant: the loop runs until the model proposes something.               *)
NextTurnUncounted(n) == n

NextTurn(n) == n + 1

(* The model wants tools.  A provider takes the next request only when     *)
(* every call of the turn before has its tool message.                     *)
WantsTools(c, calls) ==
  /\ Asked(c) /\ talk[c].unanswered = {}
  /\ talk' = [talk EXCEPT ![c] = [turn |-> NextTurn(@.turn), todo |-> calls,
                                  unanswered |-> calls]]
  /\ UNCHANGED <<vars, wait>>

Answered(c, t) ==
  talk' = [talk EXCEPT ![c].todo = @ \ {t}, ![c].unanswered = @ \ {t}]

(* One tool: its parameters pass the validators and a shell command runs   *)
(* on the host.  The output, cut to size, is the tool message; of a run    *)
(* that failed or timed out, its status.                                   *)
ToolRuns(c, t) ==
  /\ t \in talk[c].todo
  /\ Answered(c, t)

(* Mutant: an unknown tool, or one that raises, is skipped.                *)
ToolRaisesSkipped(c, t) ==
  /\ t \in talk[c].todo
  /\ talk' = [talk EXCEPT ![c].todo = @ \ {t}]

(* Arguments that do not parse, an unknown name, parameters a validator    *)
(* refuses, a crash: the error is the tool message.                        *)
ToolRaises(c, t) ==
  /\ t \in talk[c].todo
  /\ Answered(c, t)

ToolEnds(c, t) ==
  /\ Talks(c)
  /\ ToolRuns(c, t) \/ ToolRaises(c, t)
  /\ UNCHANGED <<vars, wait>>

(* propose_action, alone or among other calls, which are not executed:     *)
(* a plan, or none.                                                        *)
Concludes(c) ==
  /\ Asked(c)
  /\ PrimarySucceeds(c) \/ FallbackEnds(c)
  /\ Fresh(c) /\ Return(c)

(* The conversation raises: the request fails, is not supported by the     *)
(* client or times out; the model calls no tool; its proposal cannot be    *)
(* parsed; or the turns are used up.  After the primary, the fallback      *)
(* starts from nothing; after the fallback, agent_failed is returned.      *)
Raises(c) ==
  /\ Talks(c) /\ talk[c].todo = {}
  /\ \/ PrimaryFails(c) /\ UNCHANGED wait
     \/ FallbackEnds(c) /\ Return(c)
  /\ Fresh(c)

(* Mutant: "except BaseException": a cancelled conversation with the       *)
(* primary is recorded as its failure.                                     *)
IsCancelledRecorded(c) ==
  /\ Talks(c)
  /\ IF call[c] = "primary" THEN RecordFailure ELSE UNCHANGED breaker
  /\ Goto(c, "idle") /\ Fresh(c) /\ UNCHANGED within
  /\ wait' = [a \in Alerts |-> IF wait[a].by = c THEN NextAttempt(a) ELSE wait[a]]

(* Temporal cancels the coroutine: the worker has noticed the timeout, or  *)
(* shuts down and reports the attempt as cancelled.                        *)
IsCancelled(c) ==
  /\ Cancelled(c)
  /\ Fresh(c)
  /\ wait' = [a \in Alerts |-> IF wait[a].by = c THEN NextAttempt(a) ELSE wait[a]]

(* The process dies: its attempts are noticed when they time out.          *)
Crash == Restart /\ talk' = [c \in Callers |-> NoTalk] /\ UNCHANGED wait

Converses(c) ==
  \/ \E calls \in SUBSET ToolCalls \ {{}} : WantsTools(c, calls)
  \/ \E t \in ToolCalls : ToolEnds(c, t)
  \/ Concludes(c) \/ Raises(c)

AgentNext ==
  \/ \E a \in Alerts : Ask(a) \/ TimesOut(a) \/ \E c \in Callers : Pickup(a, c)
  \/ \E c \in Callers : Converses(c) \/ IsCancelled(c)
  \/ Crash
  \/ Tick /\ UNCHANGED <<talk, wait>>

AgentSpec == AgentInit /\ [][AgentNext]_agentVars

(* Alerts keep coming and are picked up; every request and every tool run  *)
(* has a timeout of its own (60 s, 30 s), so a conversation goes on; time  *)
(* passes, Temporal's too.                                                 *)
AgentFairSpec ==
  /\ AgentSpec
  /\ WF_agentVars(Tick /\ UNCHANGED <<talk, wait>>)
  /\ \A c \in Callers : WF_agentVars(Converses(c))
  /\ \A a \in Alerts :
       /\ WF_agentVars(Ask(a)) /\ WF_agentVars(TimesOut(a))
       /\ WF_agentVars(\E c \in Callers : Pickup(a, c))

-----------------------------------------------------------------------------
(* Properties.                                                             *)

(* Whatever goes wrong with a tool, the next request carries an answer to  *)
(* every tool call of the turn before: providers refuse it otherwise, and  *)
(* each diagnosis would count as a failure of the model.                   *)
CallsAreAnswered == \A c \in Callers : Asked(c) => talk[c].unanswered = {}

(* A conversation ends, also one nobody waits for any more, with a model   *)
(* that goes on asking for tools; it does not keep a thread and the model  *)
(* busy for ever.                                                          *)
EveryTalkEnds == \A c \in Callers : Talks(c) ~> ~Talks(c)

(* The workflow gets its answer, a plan or the word that there is none,    *)
(* although processes die and attempts time out again and again.           *)
EveryAlertIsAnswered == \A a \in Alerts : wait[a].tries > 0 ~> wait[a].tries = 0

(* The agent uses the router as CircuitBreaker has it: one result for each *)
(* conversation with the primary, none for the fallback's, for tools or    *)
(* for attempts that were cut off.                                         *)
ImplementsRouter == Spec
=============================================================================
