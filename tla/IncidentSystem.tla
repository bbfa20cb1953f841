--------------------------- MODULE IncidentSystem ---------------------------
(***************************************************************************)
(* The alert workflow composed with what it leaves open: the agent's       *)
(* advice behind the choice of a runbook, the phases of the playbook's     *)
(* thread, and the listener that turns clicks into signals.  The           *)
(* composition implements AlertWorkflow, so what is shown there holds      *)
(* here; the properties below need the parts together.                     *)
(***************************************************************************)
EXTENDS RunbookExecution, ApprovalListener

VARIABLE
  planned   \* planned[a]: the agent gave a plan (plan_dict is not None)

sysVars == <<vars, thread, listener, planned>>

SystemTypeOK ==
  /\ TypeOK /\ ThreadTypeOK /\ ListenerTypeOK
  /\ planned \in [Alerts -> BOOLEAN]

SystemInit ==
  /\ Init /\ ThreadInit /\ ListenerInit
  /\ planned = [a \in Alerts |-> FALSE]

-----------------------------------------------------------------------------

(* What the agent says: a plan for a runbook that is known or is not;      *)
(* "none", nothing to repair; or nothing, it failed.  The last two both    *)
(* come as a null plan.                                                    *)
Advices == {"plan", "unknown plan", "no repair", "failed"}
IsPlan(d) == d \in {"plan", "unknown plan"}

(* The diagnosis is over.  A known plan always gives a runbook; without    *)
(* one, and for an unknown one, the keywords of the alert decide.          *)
Advises(a) ==
  IF pc[a] = "agent_diagnose" /\ pc'[a] # "agent_diagnose"
  THEN \E d \in Advices :
         /\ planned' = [planned EXCEPT ![a] = IsPlan(d)]
         /\ d = "plan" => pc'[a] = "evaluate_policy"
  ELSE UNCHANGED planned

(* Mutant: a null plan is judged like any other.                           *)
JudgedWithoutPlan(a) == TRUE

(* Policy allows only by a rule on the confidence of a plan                *)
(* (PlanlessNeverAllowed in PolicyEngineProofs), known runbook or not.     *)
JudgedByPlan(a) == policy'[a] = "allow" => planned[a]

Flow(a) ==
  /\ Step(a)
  /\ ThreadFollows(a) /\ Advises(a) /\ JudgedByPlan(a)
  /\ UNCHANGED listener

Thread(a) ==
  /\ ThreadStep(a) \/ ThreadEnds(a) \/ ThreadKilled(a)
  /\ UNCHANGED <<listener, planned>>

Shutdown(a) == WorkerStops(a) /\ UNCHANGED <<thread, listener, planned>>

Clicking == Listener /\ UNCHANGED <<thread, planned>>

Time == Tick /\ UNCHANGED <<thread, listener, planned>>

SystemNext ==
  \/ \E a \in Alerts : Flow(a) \/ Thread(a) \/ Shutdown(a)
  \/ Clicking \/ Time

SystemSpec == SystemInit /\ [][SystemNext]_sysVars

(* An alert's workflow goes on, time passes, and a wait for a signal times *)
(* out.  Nobody has to click, no thread has to end, and Temporal need not  *)
(* answer a signal.                                                        *)
SystemFairSpec ==
  /\ SystemSpec
  /\ \A a \in Alerts : WF_sysVars(Flow(a))
  /\ WF_sysVars(WaitTimesOut /\ UNCHANGED <<thread, planned>>)
  /\ WF_sysVars(Time)

-----------------------------------------------------------------------------
(* Properties.                                                             *)

(* The listener's signals, the thread's phases and the agent's advice add  *)
(* no behaviour to the workflow: the composition is one of its runs.       *)
ImplementsWorkflow == Spec

(* What the group is told agrees with what was done to the host: a verdict *)
(* or message that says nothing was run is never given after a task of the *)
(* playbook has run, not even when the thread died in the middle, and      *)
(* success is claimed only of a host that was acted on.                    *)
VerdictFitsHost ==
  \A a \in Alerts :
    /\ label[a] \in NothingRun => ~touched[a]
    /\ label[a] \in {"approved", "auto_approved"} =>
         CASE ResultMessage(a) = "handled" -> touched[a]
           [] ResultMessage(a) = "dry run failed, nothing was done" -> ~touched[a]
           [] ResultMessage(a) = "done but not verified" -> touched[a]
           [] OTHER -> phase[a] = "returned"

(* A click answered with "received" is not lost: the workflow has a        *)
(* decision, this one or an earlier one, and will act on no other.         *)
ConfirmedIsHeard ==
  \A a \in Alerts : toast[a] = "received" => decision[a] # "none"

(* A runbook the agent did not ask for, chosen by keywords after it found  *)
(* nothing to repair or failed, acts on a host only by a human's click.    *)
UnplannedNeedsApproval ==
  \A a \in Alerts :
    touched[a] /\ ~planned[a] => decision[a] = "approve"

(* Every click gets an answer, also when Temporal gives none: the listener *)
(* is never stuck with one click while others wait.                        *)
EveryPressIsAnswered == [](press # NoPress => <>(press = NoPress))
=============================================================================
