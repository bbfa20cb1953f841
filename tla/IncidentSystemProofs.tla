------------------------ MODULE IncidentSystemProofs -------------------------
(***************************************************************************)
(* The composition of the workflow with agent, thread and listener         *)
(* implements the workflow alone, for any number of alerts, hosts,         *)
(* attempts and orphaned signals; so the theorems of AlertWorkflowProofs   *)
(* hold of it as well.  Beyond them: a confirmed click is heard, a host is *)
(* acted on without a plan only by a human's word, and what the group is   *)
(* told fits what was done to the host.                                    *)
(***************************************************************************)
EXTENDS IncidentSystem, AlertWorkflowProofs

-----------------------------------------------------------------------------
(* The listener's variables keep their types: what it signals is a click   *)
(* on the card of an alert.                                                *)

LEMMA ListenerTypeInit == ListenerInit => ListenerTypeOK
  BY DEF ListenerInit, ListenerTypeOK, Toasts

LEMMA ListenerStepTyped ==
  ASSUME ListenerTypeOK, Listener
  PROVE  ListenerTypeOK'
<1> USE DEF ListenerTypeOK, Toasts
<1>1. ASSUME NEW a \in Alerts, NEW c \in Clicks, Press(a, c) PROVE ListenerTypeOK'
  <2>1. press' \in [alert : Alerts, click : Clicks, signal : {"sent", "taken"}]
    BY <1>1 DEF Press
  <2>2. toast' \in [Alerts -> {"none", "received", "timed out", "failed"}]
    BY <1>1 DEF Press, Show
  <2> QED BY <1>1, <2>1, <2>2 DEF Press
<1>2. ASSUME NEW a \in Alerts, NEW c \in Clicks, OrphanArrives(a, c) PROVE ListenerTypeOK'
  BY <1>2 DEF OrphanArrives
<1>3. CASE SignalArrives
  <2>1. press \in [alert : Alerts, click : Clicks, signal : {"sent", "taken"}]
    <3>1. press.signal = "sent"
      BY <1>3 DEF SignalArrives
    <3>2. NoPress.signal = "none"
      BY DEF NoPress
    <3> QED BY <3>1, <3>2
  <2>2. press' \in [alert : Alerts, click : Clicks, signal : {"sent", "taken"}]
    BY <1>3, <2>1 DEF SignalArrives
  <2> QED BY <1>3, <2>2 DEF SignalArrives
<1>4. CASE Answer
  BY <1>4 DEF Answer, Show
<1>5. CASE WaitTimesOut
  <2>1. press \in [alert : Alerts, click : Clicks, signal : {"sent", "taken"}]
    BY <1>5 DEF WaitTimesOut
  <2>2. orphans' \subseteq Alerts \X Clicks
    <3>1. <<press.alert, press.click>> \in Alerts \X Clicks
      BY <2>1
    <3>2. orphans' = orphans \/ orphans' = orphans \cup {<<press.alert, press.click>>}
      BY <1>5 DEF WaitTimesOut, MayBeOrphaned
    <3> QED BY <3>1, <3>2
  <2>3. toast' \in [Alerts -> {"none", "received", "timed out", "failed"}]
    BY <1>5 DEF WaitTimesOut, Show
  <2> QED BY <1>5, <2>2, <2>3 DEF WaitTimesOut
<1> QED BY <1>1, <1>2, <1>3, <1>4, <1>5 DEF Listener

LEMMA ListenerTypeStep == ListenerTypeOK /\ [SystemNext]_sysVars => ListenerTypeOK'
<1> SUFFICES ASSUME ListenerTypeOK, [SystemNext]_sysVars PROVE ListenerTypeOK'
  OBVIOUS
<1>1. CASE Clicking
  BY <1>1, ListenerStepTyped DEF Clicking
<1>2. CASE UNCHANGED listener
  BY <1>2 DEF listener, ListenerTypeOK
<1> QED BY <1>1, <1>2 DEF SystemNext, Flow, Thread, Shutdown, Time, sysVars

-----------------------------------------------------------------------------
(* The refinement.                                                         *)

(* A phase of the thread leaves the workflow alone; its end, by itself or  *)
(* with the process, is the end of the playbook.                           *)
LEMMA ThreadIsARun ==
  ASSUME NEW a \in Alerts, Thread(a)
  PROVE  FinishRun(a) \/ UNCHANGED vars
  BY DEF Thread, ThreadStep, ThreadEnds, ThreadKilled

(* Whatever the listener does is a click of the workflow's, or nothing.    *)
LEMMA ListenerIsAClick ==
  ASSUME ListenerTypeOK, Listener
  PROVE  (\E a \in Alerts, c \in Clicks : Approve(a, c)) \/ UNCHANGED vars
<1>1. CASE \E a \in Alerts, c \in Clicks : Press(a, c)
  BY <1>1 DEF Press
<1>2. CASE \E a \in Alerts, c \in Clicks : OrphanArrives(a, c)
  BY <1>2 DEF OrphanArrives, SignalWorkflow
<1>3. CASE SignalArrives
  <2>1. press.alert \in Alerts /\ press.click \in Clicks
    BY <1>3 DEF SignalArrives, ListenerTypeOK, NoPress
  <2> QED BY <1>3, <2>1 DEF SignalArrives, SignalWorkflow
<1>4. CASE Answer \/ WaitTimesOut
  BY <1>4 DEF Answer, WaitTimesOut
<1> QED BY <1>1, <1>2, <1>3, <1>4 DEF Listener

LEMMA StepIsAStep == ListenerTypeOK /\ [SystemNext]_sysVars => [Next]_vars
<1> SUFFICES ASSUME ListenerTypeOK, [SystemNext]_sysVars PROVE [Next]_vars
  OBVIOUS
<1>1. ASSUME NEW a \in Alerts, Flow(a) PROVE Next
  BY <1>1 DEF Flow, Next
<1>2. ASSUME NEW a \in Alerts, Thread(a) PROVE [Next]_vars
  BY <1>2, ThreadIsARun DEF Next
<1>3. CASE Clicking
  BY <1>3, ListenerIsAClick DEF Clicking, Next
<1>4. CASE Time
  BY <1>4 DEF Time, Next
<1>5. CASE UNCHANGED sysVars
  BY <1>5 DEF sysVars
<1>6. ASSUME NEW a \in Alerts, Shutdown(a) PROVE Next
  BY <1>6 DEF Shutdown, Next
<1> QED BY <1>1, <1>2, <1>3, <1>4, <1>5, <1>6 DEF SystemNext

(* The composed system is a run of the workflow: the detail of agent,      *)
(* thread and listener adds no behaviour.                                  *)
THEOREM SystemImplementsWorkflow == SystemSpec => ImplementsWorkflow
<1>1. SystemInit => Init /\ ListenerTypeOK
  BY ListenerTypeInit DEF SystemInit
<1>2. ListenerTypeOK /\ [SystemNext]_sysVars => ListenerTypeOK'
  BY ListenerTypeStep
<1>3. ListenerTypeOK /\ [SystemNext]_sysVars => [Next]_vars
  BY StepIsAStep
<1> QED BY <1>1, <1>2, <1>3, PTL DEF SystemSpec, ImplementsWorkflow, Spec

(* What is proved of the workflow holds of the composition: first of all,  *)
(* that two playbooks run on a host at once only when one of them was      *)
(* picked up late or given up.                                             *)
THEOREM SystemRemediationsAreExclusive == SystemSpec => []ProtectedRunsAreExclusive
<1>1. SystemSpec => Spec
  BY SystemImplementsWorkflow DEF ImplementsWorkflow
<1> QED BY <1>1, RemediationsAreExclusive, PTL

(* Through the workflow the composition meets the contract: a click sent   *)
(* twice, a late signal or a thread that dies adds nothing to what the     *)
(* contract lets happen to a host and be said of it.                       *)
THEOREM SystemMeetsContract == SystemSpec => ImplementsContract
<1>1. SystemSpec => Spec
  BY SystemImplementsWorkflow DEF ImplementsWorkflow
<1> QED BY <1>1, WorkflowMeetsContract, PTL

(* However long playbooks take, the composition runs none without          *)
(* authority, misreports none, announces nothing that is not audited and   *)
(* leaves none behind that nobody was told of.                             *)
THEOREM SystemKeepsItsWord ==
  SystemSpec => [](/\ ExecutionAuthorised /\ OutcomeTruthful
                  /\ AuditBeforeNotice /\ OverrunsAreKnown)
<1>1. SystemSpec => Spec
  BY SystemImplementsWorkflow DEF ImplementsWorkflow
<1> QED BY <1>1, RunsAreAuthorised, OutcomesAreTruthful, NoticesAreAudited,
        OverrunsAreReported, PTL

-----------------------------------------------------------------------------
(* Confirmed clicks.                                                       *)

(* A decision is never taken back or replaced.                             *)
LEMMA DecisionsStay ==
  ASSUME TypeOK, [Next]_vars, NEW a \in Alerts, decision[a] # "none"
  PROVE  decision'[a] = decision[a]
<1> USE DEF choices
<1>1. ASSUME NEW b \in Alerts, Step(b) \/ WorkerStops(b) PROVE decision' = decision
  BY <1>1
  DEF Step, AgentDiagnose, EvaluatePolicy, SendCard, ApprovalArrives,
      ApprovalTimeout, TryAcquireMutex, PickUp, StartRun, RunbookReturns, RunbookRaises,
      WorkerStops, GiveUp, ReleaseMutex, WriteAudit, LabelFeedback, SendResult,
      PostSummary, DecrPendingGauge
<1>2. ASSUME NEW b \in Alerts, FinishRun(b) PROVE decision' = decision
  BY <1>2 DEF FinishRun
<1>3. ASSUME NEW b \in Alerts, NEW click \in Clicks, Approve(b, click)
      PROVE  decision'[a] = decision[a]
  BY <1>3 DEF Approve, TypeOK, DataTypeOK
<1>4. CASE Tick
  BY <1>4 DEF Tick
<1>5. CASE UNCHANGED vars
  BY <1>5 DEF vars
<1> QED BY <1>1, <1>2, <1>3, <1>4, <1>5 DEF Next

(* What makes it inductive: once Temporal has taken the signal of the      *)
(* click being handled, the workflow has a decision.                       *)
TakenIsHeard == press.signal = "taken" => decision[press.alert] # "none"

HeardInv == TypeOK /\ ListenerTypeOK /\ TakenIsHeard /\ ConfirmedIsHeard

(* After a signal the workflow has a decision, this click or an older one. *)
LEMMA SignalIsHeard ==
  ASSUME TypeOK, NEW a \in Alerts, NEW c \in Clicks, SignalWorkflow(a, c)
  PROVE  decision'[a] # "none"
<1>1. CASE Approve(a, c)
  <2>1. decision'[a] = c
    BY <1>1 DEF Approve, TypeOK, DataTypeOK
  <2> QED BY <2>1 DEF Clicks
<1>2. CASE decision[a] # "none" /\ UNCHANGED vars
  BY <1>2 DEF vars, choices
<1> QED BY <1>1, <1>2 DEF SignalWorkflow

LEMMA HeardStep == HeardInv /\ [SystemNext]_sysVars => HeardInv'
<1> SUFFICES ASSUME HeardInv, [SystemNext]_sysVars PROVE HeardInv'
  OBVIOUS
<1> USE DEF HeardInv
<1>1. ListenerTypeOK' /\ TypeOK' /\ [Next]_vars
  BY ListenerTypeStep, StepIsAStep, NextTypeOK
<1>2. \A a \in Alerts : decision[a] # "none" => decision'[a] # "none"
  BY <1>1, DecisionsStay
<1>3. press # NoPress => press.alert \in Alerts /\ press.click \in Clicks
  BY DEF ListenerTypeOK
<1>4. NoPress.signal = "none"
  BY DEF NoPress
<1>5. CASE UNCHANGED listener
  BY <1>1, <1>2, <1>3, <1>4, <1>5 DEF listener, TakenIsHeard, ConfirmedIsHeard
<1>6. ASSUME NEW a \in Alerts, NEW c \in Clicks, Press(a, c)
      PROVE  TakenIsHeard' /\ ConfirmedIsHeard'
  BY <1>2, <1>6 DEF Press, Show, TakenIsHeard, ConfirmedIsHeard, ListenerTypeOK
<1>7. ASSUME NEW a \in Alerts, NEW c \in Clicks, OrphanArrives(a, c)
      PROVE  TakenIsHeard' /\ ConfirmedIsHeard'
  BY <1>2, <1>3, <1>4, <1>7 DEF OrphanArrives, TakenIsHeard, ConfirmedIsHeard
<1>8. CASE SignalArrives
  <2>1. press.signal = "sent" /\ SignalWorkflow(press.alert, press.click)
    BY <1>8 DEF SignalArrives
  <2>2. decision'[press.alert] # "none"
    <3>1. press # NoPress
      BY <1>4, <2>1
    <3>2. press.alert \in Alerts /\ press.click \in Clicks
      BY <3>1, <1>3
    <3> QED BY <2>1, <3>2, SignalIsHeard
  <2>3. press'.alert = press.alert /\ toast' = toast
    BY <1>8 DEF SignalArrives
  <2> QED BY <1>1, <1>2, <2>2, <2>3 DEF TakenIsHeard, ConfirmedIsHeard
<1>9. CASE Answer
  <2>1. press # NoPress /\ press' = NoPress
    BY <1>9 DEF Answer
  <2>2. ASSUME NEW a \in Alerts, toast'[a] = "received"
        PROVE  decision[a] # "none"
    <3>1. CASE a = press.alert /\ press.signal = "taken"
      BY <3>1 DEF TakenIsHeard
    <3>2. CASE a # press.alert
      <4>1. toast'[a] = toast[a]
        BY <1>9, <3>2 DEF Answer, Show, ListenerTypeOK
      <4> QED BY <2>2, <4>1 DEF ConfirmedIsHeard
    <3>3. CASE a = press.alert /\ press.signal # "taken"
      <4>1. toast'[a] = "failed"
        BY <1>9, <3>3 DEF Answer, Show, ListenerTypeOK
      <4> QED BY <2>2, <4>1
    <3> QED BY <3>1, <3>2, <3>3
  <2> QED BY <1>1, <1>2, <1>4, <2>1, <2>2 DEF TakenIsHeard, ConfirmedIsHeard
<1>10. CASE WaitTimesOut
  <2>1. press # NoPress /\ press' = NoPress
    BY <1>10 DEF WaitTimesOut
  <2>2. ASSUME NEW a \in Alerts, toast'[a] = "received"
        PROVE  decision[a] # "none"
    <3>1. toast'[a] = IF a = press.alert THEN "timed out" ELSE toast[a]
      BY <1>10 DEF WaitTimesOut, Show, ListenerTypeOK
    <3> QED BY <2>2, <3>1 DEF ConfirmedIsHeard
  <2> QED BY <1>1, <1>2, <1>4, <2>1, <2>2 DEF TakenIsHeard, ConfirmedIsHeard
<1> QED
  BY <1>1, <1>5, <1>6, <1>7, <1>8, <1>9, <1>10
  DEF SystemNext, Flow, Thread, Shutdown, Clicking, Time, Listener, sysVars

(* A click that the card confirmed is not lost: the workflow has a         *)
(* decision, whatever signals are late, lost or still under way.           *)
THEOREM ConfirmedClicksAreHeard == SystemSpec => []ConfirmedIsHeard
<1>1. SystemInit => HeardInv
  BY InitTypeOK, ListenerTypeInit
  DEF SystemInit, HeardInv, ListenerInit, NoPress, TakenIsHeard, ConfirmedIsHeard
<1>2. HeardInv /\ [SystemNext]_sysVars => HeardInv'
  BY HeardStep
<1>3. HeardInv => ConfirmedIsHeard
  BY DEF HeardInv
<1> QED BY <1>1, <1>2, <1>3, PTL DEF SystemSpec

-----------------------------------------------------------------------------
(* Types of the whole.                                                     *)

LEMMA SystemTypeInit == SystemInit => SystemTypeOK
  BY InitTypeOK, ListenerTypeInit
  DEF SystemInit, ThreadInit, SystemTypeOK, ThreadTypeOK, NoResult, Phases, Over

Results == [dry_run : BOOLEAN, execute : BOOLEAN, verify : BOOLEAN, rolled_back : BOOLEAN]

LEMMA SucceedsTyped ==
  ASSUME ThreadTypeOK, NEW a \in Alerts,
         NEW field \in {"dry_run", "execute", "verify"}, Succeeds(a, field)
  PROVE  result' \in [Alerts -> Results]
<1>1. result' = [result EXCEPT ![a] = [result[a] EXCEPT ![field] = TRUE]]
  BY DEF Succeeds
<1>2. result \in [Alerts -> Results] /\ result[a] \in Results
  BY DEF ThreadTypeOK, Results
<1>3. [result[a] EXCEPT ![field] = TRUE] \in Results
  <2>1. CASE field = "dry_run"
    BY <1>2, <2>1 DEF Results
  <2>2. CASE field = "execute"
    BY <1>2, <2>2 DEF Results
  <2>3. CASE field = "verify"
    BY <1>2, <2>3 DEF Results
  <2> QED BY <2>1, <2>2, <2>3
<1> QED BY <1>1, <1>2, <1>3

LEMMA ThreadStepTyped ==
  ASSUME ThreadTypeOK, NEW a \in Alerts, Thread(a)
  PROVE  ThreadTypeOK'
<1>1. phase' \in [Alerts -> Phases]
  BY DEF Thread, ThreadStep, CheckParams, DryRun, Execute, Verify, Rollback,
         ThreadEnds, ThreadKilled, thread, Enter, PhaseRaises, ThreadTypeOK, Phases, Over
<1>2. touched' = touched \/ touched' = [touched EXCEPT ![a] = TRUE]
  BY DEF Thread, ThreadStep, CheckParams, DryRun, Execute, Verify, Rollback,
         ThreadEnds, ThreadKilled, thread
<1>3. \/ result' = result
      \/ \E field \in {"dry_run", "execute", "verify"} : Succeeds(a, field)
  BY DEF Thread, ThreadStep, CheckParams, DryRun, Execute, Verify, Rollback,
         ThreadEnds, ThreadKilled, thread, PhaseRaises
<1>4. result' \in [Alerts -> Results]
  BY <1>3, SucceedsTyped DEF ThreadTypeOK, Results
<1> QED BY <1>1, <1>2, <1>4 DEF ThreadTypeOK, Results

LEMMA SystemTypeStep == SystemTypeOK /\ [SystemNext]_sysVars => SystemTypeOK'
<1> SUFFICES ASSUME SystemTypeOK, [SystemNext]_sysVars PROVE SystemTypeOK'
  OBVIOUS
<1>1. TypeOK' /\ ListenerTypeOK'
  BY StepIsAStep, NextTypeOK, ListenerTypeStep DEF SystemTypeOK
<1>2. ASSUME NEW a \in Alerts, Flow(a) PROVE SystemTypeOK'
  <2>1. ThreadTypeOK'
    BY <1>2 DEF SystemTypeOK, Flow, ThreadFollows, ThreadTypeOK, Phases
  <2>2. planned' = planned \/ \E d \in Advices : planned' = [planned EXCEPT ![a] = IsPlan(d)]
    BY <1>2 DEF Flow, Advises
  <2>3. planned' \in [Alerts -> BOOLEAN]
    <3>1. planned \in [Alerts -> BOOLEAN]
      BY DEF SystemTypeOK
    <3>2. \A d \in Advices : IsPlan(d) \in BOOLEAN
      BY DEF IsPlan
    <3> QED BY <2>2, <3>1, <3>2
  <2> QED BY <1>1, <2>1, <2>3 DEF SystemTypeOK
<1>3. ASSUME NEW a \in Alerts, Thread(a) PROVE SystemTypeOK'
  <2>1. planned' = planned
    BY <1>3 DEF Thread
  <2> QED BY <1>1, <1>3, <2>1, ThreadStepTyped DEF SystemTypeOK
<1>4. CASE UNCHANGED <<thread, planned>>
  BY <1>1, <1>4 DEF SystemTypeOK, ThreadTypeOK, thread
<1> QED BY <1>2, <1>3, <1>4 DEF SystemNext, Shutdown, Clicking, Time, sysVars

(* The variables of all parts keep their types, for any number of alerts,  *)
(* hosts, attempts and late signals.                                       *)
THEOREM SystemTypeCorrect == SystemSpec => []SystemTypeOK
  BY SystemTypeInit, SystemTypeStep, PTL DEF SystemSpec

-----------------------------------------------------------------------------
(* No runbook without a plan and without a human.                          *)

(* What is touched has begun to run; policy has judged nothing before the agent has *)
(* spoken; what it allowed is planned.                                     *)
Planned(a) ==
  /\ touched[a] => run[a] \in {"running", "done"}
  /\ pc[a] = "agent_diagnose" => policy[a] = "none"
  /\ policy[a] = "allow" => planned[a]

PlanInv == SystemTypeOK /\ ConductInv /\ \A a \in Alerts : Planned(a)

(* The workflow of the composition keeps to its order.                     *)
LEMMA SystemConduct ==
  SystemTypeOK /\ ConductInv /\ [SystemNext]_sysVars => ConductInv'
  BY StepIsAStep, NextConduct DEF SystemTypeOK

(* Policy is settled in one place, and the diagnosis is never repeated.    *)
LEMMA OwnPolicy ==
  ASSUME TypeOK, NEW a \in Alerts, Step(a)
  PROVE  /\ pc'[a] = "agent_diagnose" => pc[a] = "agent_diagnose" /\ policy' = policy
         /\ pc[a] = "agent_diagnose" => policy' = policy
         /\ run[a] \in {"running", "done"} => run'[a] \in {"running", "done"}
<1> USE DEF TypeOK, ProgressTypeOK, DataTypeOK, choices, running
<1>1. CASE AgentDiagnose(a)
  BY <1>1 DEF AgentDiagnose
<1>2. CASE EvaluatePolicy(a)
  BY <1>2 DEF EvaluatePolicy, Retry, Raise, Goto
<1>3. CASE SendCard(a)
  BY <1>3 DEF SendCard, Await, Retry, Raise, Proceed, Goto
<1>4. CASE ApprovalArrives(a) \/ ApprovalTimeout(a)
  BY <1>4 DEF ApprovalArrives, ApprovalTimeout, Goto
<1>5. CASE TryAcquireMutex(a)
  BY <1>5 DEF TryAcquireMutex, Retry, Raise, Proceed, Goto
<1>6. CASE PickUp(a) \/ StartRun(a)
  BY <1>6 DEF PickUp, StartRun, wfVars
<1>7. CASE RunbookReturns(a) \/ Abandons(a)
  BY <1>7, AbandonsIs, AbandonedRun DEF RunbookReturns, GiveUp, Proceed, Goto
<1>8. CASE ReleaseMutex(a)
  BY <1>8 DEF ReleaseMutex, Retry, Raise, Proceed, Goto
<1>9. CASE WriteAudit(a)
  BY <1>9 DEF WriteAudit, Await, Retry, Raise, Proceed, Goto
<1>10. CASE LabelFeedback(a)
  BY <1>10 DEF LabelFeedback, Await, Retry, Raise, Proceed, Goto
<1>11. CASE SendResult(a)
  BY <1>11 DEF SendResult, Await, Retry, Raise, Proceed, Goto
<1>12. CASE PostSummary(a)
  BY <1>12 DEF PostSummary, Proceed, Goto
<1>13. CASE DecrPendingGauge(a)
  BY <1>13 DEF DecrPendingGauge, AwaitQuietly, Retry, Proceed, Goto
<1> QED
  BY <1>1, <1>2, <1>3, <1>4, <1>5, <1>6, <1>7, <1>8, <1>9, <1>10, <1>11, <1>12,
     <1>13 DEF Step, Abandons

(* A step of the workflow takes the agent's advice along.                  *)
LEMMA FlowPlanned ==
  ASSUME PlanInv, NEW a \in Alerts, Flow(a), NEW b \in Alerts
  PROVE  Planned(b)'
<1> USE DEF PlanInv, SystemTypeOK, ThreadTypeOK
<1>1. touched' = touched
  BY DEF Flow, ThreadFollows
<1>2. CASE b # a
  <2>1. pc'[b] = pc[b] /\ run'[b] = run[b] /\ policy'[b] = policy[b]
    BY <1>2, ProgressFrame, DataFrame DEF Flow, ActionOf
  <2>2. planned'[b] = planned[b]
    BY <1>2 DEF Flow, Advises
  <2> QED BY <1>1, <2>1, <2>2 DEF Planned
<1>3. CASE b = a
  <2>1. /\ pc'[a] = "agent_diagnose" => pc[a] = "agent_diagnose" /\ policy' = policy
        /\ pc[a] = "agent_diagnose" => policy' = policy
        /\ run[a] \in {"running", "done"} => run'[a] \in {"running", "done"}
    BY OwnPolicy DEF Flow
  <2>2. policy'[a] = "allow" => planned[a]
    BY DEF Flow, JudgedByPlan
  <2>3. pc[a] # "agent_diagnose" => planned' = planned
    BY DEF Flow, Advises
  <2> QED BY <1>1, <1>3, <2>1, <2>2, <2>3 DEF Planned
<1> QED BY <1>2, <1>3

(* A worker that stops takes only what has not begun.                      *)
LEMMA ShutdownKeeps ==
  ASSUME TypeOK, NEW a \in Alerts, Shutdown(a), NEW b \in Alerts, ConductInv
  PROVE  /\ run[b] \in {"running", "done"} => run'[b] = run[b]
         /\ run'[b] # run[b] => b = a /\ run[b] = "queued" /\ run'[b] = "idle"
         /\ pc'[b] = "agent_diagnose" => pc[b] = "agent_diagnose"
         /\ policy' = policy
         /\ label'[b] # label[b] => label'[b] = "error"
         /\ pc'[b] # pc[b] => pc'[b] = "write_audit"
         /\ UNCHANGED <<thread, planned>>
<1>1. Abandons(a)
  BY DEF Shutdown, Abandons
<1>2. label' = [label EXCEPT ![a] = "error"] /\ pc' = [pc EXCEPT ![a] = "write_audit"]
  BY <1>1, AbandonsIs DEF GiveUp, Goto, Settle
<1>3. policy' = policy
  BY <1>1, AbandonsIs DEF GiveUp, choices
<1> QED
  BY <1>1, <1>2, <1>3, AbandonedRun
  DEF Shutdown, TypeOK, ProgressTypeOK, ResultTypeOK

(* The thread touches the host of a run that has begun.                    *)
LEMMA ThreadPlanned ==
  ASSUME PlanInv, NEW a \in Alerts, Thread(a), NEW b \in Alerts
  PROVE  Planned(b)'
<1> USE DEF PlanInv, SystemTypeOK, ThreadTypeOK, TypeOK, DataTypeOK
<1>1. planned' = planned /\ pc' = pc /\ policy' = policy
  BY ThreadIsARun DEF Thread, FinishRun, vars, wfVars, choices
<1>2. run[a] = "running"
  BY DEF Thread, ThreadStep, ThreadEnds, ThreadKilled, FinishRun
<1>3. run'[a] \in {"running", "done"} /\ (b # a => run'[b] = run[b])
  BY <1>2, ThreadIsARun DEF FinishRun, vars, running
<1>4. b # a => touched'[b] = touched[b]
  BY DEF Thread, ThreadStep, CheckParams, DryRun, Execute, Verify, Rollback,
         ThreadEnds, ThreadKilled, thread
<1> QED BY <1>1, <1>3, <1>4 DEF Planned

LEMMA PlanStep == PlanInv /\ [SystemNext]_sysVars => PlanInv'
<1> SUFFICES ASSUME PlanInv, [SystemNext]_sysVars PROVE PlanInv'
  OBVIOUS
<1>1. SystemTypeOK' /\ ConductInv'
  BY SystemTypeStep, SystemConduct DEF PlanInv
<1>2. ASSUME NEW a \in Alerts, Flow(a) \/ Thread(a) PROVE PlanInv'
  BY <1>1, <1>2, FlowPlanned, ThreadPlanned DEF PlanInv
<1>3. ASSUME NEW a \in Alerts, Shutdown(a) PROVE PlanInv'
  <2>1. ASSUME NEW b \in Alerts PROVE Planned(b)'
    BY <1>3, ShutdownKeeps DEF PlanInv, SystemTypeOK, Planned, thread
  <2> QED BY <1>1, <2>1 DEF PlanInv
<1>4. CASE UNCHANGED <<thread, planned>> /\ UNCHANGED <<pc, policy, run>>
  BY <1>1, <1>4 DEF PlanInv, Planned, thread
<1>5. CASE Clicking
  <2>1. UNCHANGED <<pc, policy, run>>
    BY <1>5, ListenerIsAClick
    DEF Clicking, PlanInv, SystemTypeOK, Approve, vars, wfVars, choices, running
  <2> QED BY <1>4, <1>5, <2>1 DEF Clicking
<1>6. CASE Time
  BY <1>4, <1>6 DEF Time, Tick, wfVars, choices
<1>7. CASE UNCHANGED sysVars
  BY <1>4, <1>7 DEF sysVars, vars, wfVars, choices, running
<1> QED BY <1>2, <1>3, <1>5, <1>6, <1>7 DEF SystemNext

(* A host is acted on without a plan of the agent's only after a human's   *)
(* approval, in shadow and in live mode and however long playbooks take.   *)
THEOREM UnplannedRunsAreApproved == SystemSpec => []UnplannedNeedsApproval
<1>1. SystemInit => PlanInv
  BY SystemTypeInit, InitSafetyInv
  DEF SystemInit, Init, ThreadInit, SafetyInv, PlanInv, Planned
<1>2. PlanInv /\ [SystemNext]_sysVars => PlanInv'
  BY PlanStep
<1>3. PlanInv => UnplannedNeedsApproval
  BY DEF PlanInv, ConductInv, Planned, Authority, AutoExecute, UnplannedNeedsApproval
<1> QED BY <1>1, <1>2, <1>3, PTL DEF SystemSpec

-----------------------------------------------------------------------------
(* What the group is told fits the host.                                   *)

(* A run the workflow counts as carried out has returned its result.       *)
Returned(a) ==
  /\ pc[a] = "release_mutex" /\ label[a] = "pending" => phase[a] = "returned"
  /\ label[a] \in {"approved", "auto_approved"} => phase[a] = "returned"

(* The result agrees with the host: nothing is touched before the dry run  *)
(* has succeeded, and each success rests on the one before.                *)
Recorded(a) ==
  /\ run[a] \in {"idle", "queued"} => phase[a] = "none"
  /\ run[a] = "running" => phase[a] # "none"
  /\ phase[a] \in {"none", "check", "dry_run"} => result[a] = NoResult /\ ~touched[a]
  /\ phase[a] = "execute" => result[a].dry_run /\ ~result[a].execute /\ ~touched[a]
  /\ phase[a] = "verify" => result[a].execute
  /\ result[a].verify => result[a].execute
  /\ result[a].execute => touched[a]
  /\ touched[a] => result[a].dry_run

VerdictInv ==
  /\ SystemTypeOK /\ ConductInv
  /\ \A a \in Alerts : Returned(a) /\ Recorded(a)

(* What a step of the workflow does to its own stage and label.            *)
LEMMA OwnStage ==
  ASSUME TypeOK, NEW a \in Alerts, Step(a), Control(a)
  PROVE  /\ pc'[a] = "release_mutex" /\ label'[a] = "pending" =>
              pc[a] \in {"execute_runbook", "release_mutex"} /\ label[a] = "pending"
         /\ label'[a] \in {"approved", "auto_approved"} =>
              \/ label'[a] = label[a]
              \/ pc[a] = "release_mutex" /\ label[a] = "pending"
         /\ run'[a] # run[a] =>
              /\ run[a] \in {"idle", "queued"} /\ run'[a] # "done"
              /\ run'[a] = "running" => run[a] = "queued"
<1> USE DEF TypeOK, ProgressTypeOK, ResultTypeOK, DataTypeOK, choices, running,
            outputs, Control, BeforeMutex, NothingRun
<1>1. CASE AgentDiagnose(a)
  BY <1>1 DEF AgentDiagnose, ResolveRunbook, Retry, Proceed, Goto, Settle
<1>2. CASE EvaluatePolicy(a)
  BY <1>2 DEF EvaluatePolicy, Retry, Raise, Goto, Settle
<1>3. CASE SendCard(a)
  BY <1>3 DEF SendCard, Await, Retry, Raise, Proceed, Goto
<1>4. CASE ApprovalArrives(a) \/ ApprovalTimeout(a)
  BY <1>4 DEF ApprovalArrives, ApprovalTimeout, Goto, Settle
<1>5. CASE TryAcquireMutex(a)
  BY <1>5 DEF TryAcquireMutex, Retry, Raise, Proceed, Goto, Settle
<1>6. CASE PickUp(a) \/ StartRun(a)
  BY <1>6 DEF PickUp, StartRun, wfVars
<1>7. CASE RunbookReturns(a) \/ Abandons(a)
  BY <1>7, AbandonsIs, AbandonedRun DEF RunbookReturns, GiveUp, Proceed, Goto, Settle
<1>8. CASE ReleaseMutex(a)
  BY <1>8 DEF ReleaseMutex, Retry, Raise, Proceed, Goto, Settle
<1>9. CASE WriteAudit(a)
  BY <1>9 DEF WriteAudit, Await, Retry, Raise, Proceed, Goto
<1>10. CASE LabelFeedback(a)
  BY <1>10 DEF LabelFeedback, Await, Retry, Raise, Proceed, Goto
<1>11. CASE SendResult(a)
  BY <1>11 DEF SendResult, Await, Retry, Raise, Proceed, Goto
<1>12. CASE PostSummary(a)
  BY <1>12 DEF PostSummary, Proceed, Goto
<1>13. CASE DecrPendingGauge(a)
  BY <1>13 DEF DecrPendingGauge, AwaitQuietly, Retry, Proceed, Goto
<1> QED
  BY <1>1, <1>2, <1>3, <1>4, <1>5, <1>6, <1>7, <1>8, <1>9, <1>10, <1>11, <1>12,
     <1>13 DEF Step, Abandons

LEMMA FlowIsNext ==
  ASSUME NEW a \in Alerts, Flow(a)
  PROVE  [Next]_vars
  BY DEF Flow, Next

LEMMA FlowFits ==
  ASSUME VerdictInv, NEW a \in Alerts, Flow(a), NEW b \in Alerts
  PROVE  Returned(b)' /\ Recorded(b)'
<1> USE DEF VerdictInv, SystemTypeOK, ThreadTypeOK
<1>1. result' = result /\ touched' = touched
  BY DEF Flow, ThreadFollows
<1>2. phase' = IF run[a] = "queued" /\ run'[a] = "running"
               THEN [phase EXCEPT ![a] = "check"] ELSE phase
  BY DEF Flow, ThreadFollows
<1>3. CASE b # a
  <2>1. pc'[b] = pc[b] /\ run'[b] = run[b] /\ label'[b] = label[b]
    BY <1>3, ProgressFrame, DataFrame DEF Flow, ActionOf
  <2>2. phase'[b] = phase[b]
    BY <1>2, <1>3
  <2> QED BY <1>1, <2>1, <2>2 DEF Returned, Recorded
<1>4. CASE b = a
  <2>1. /\ pc'[a] = "release_mutex" /\ label'[a] = "pending" =>
             pc[a] \in {"execute_runbook", "release_mutex"} /\ label[a] = "pending"
        /\ label'[a] \in {"approved", "auto_approved"} =>
             \/ label'[a] = label[a]
             \/ pc[a] = "release_mutex" /\ label[a] = "pending"
        /\ run'[a] # run[a] =>
             /\ run[a] \in {"idle", "queued"} /\ run'[a] # "done"
             /\ run'[a] = "running" => run[a] = "queued"
    BY OwnStage DEF Flow, ConductInv
  <2>2. pc[a] = "execute_runbook" /\ pc'[a] = "release_mutex" => phase[a] = "returned"
    BY DEF Flow, ThreadFollows
  <2>3. CASE run'[a] = run[a]
    <3>1. phase' = phase
      BY <1>2, <2>3
    <3> QED BY <1>1, <1>4, <2>1, <2>2, <2>3, <3>1 DEF Returned, Recorded
  <2>4. CASE run'[a] # run[a]
    <3>1. /\ phase[a] = "none" /\ run'[a] # "done"
          /\ phase'[a] = IF run'[a] = "running" THEN "check" ELSE "none"
      BY <1>2, <2>1, <2>4 DEF Recorded
    <3>2. Recorded(a)'
      BY <1>1, <3>1 DEF Recorded
    <3>3. Returned(a)'
      <4>1. ~(label'[a] \in {"approved", "auto_approved"})
            /\ ~(pc'[a] = "release_mutex" /\ label'[a] = "pending")
        BY <3>1, NextConduct, FlowIsNext DEF ConductInv, Control
      <4> QED BY <4>1 DEF Returned
    <3> QED BY <1>4, <3>2, <3>3
  <2> QED BY <2>3, <2>4
<1> QED BY <1>3, <1>4

LEMMA ThreadFits ==
  ASSUME VerdictInv, NEW a \in Alerts, Thread(a), NEW b \in Alerts
  PROVE  Returned(b)' /\ Recorded(b)'
<1> USE DEF VerdictInv, SystemTypeOK, ThreadTypeOK
<1>1. pc' = pc /\ label' = label
  BY ThreadIsARun DEF Thread, FinishRun, vars, wfVars
<1>2. run[a] = "running" /\ run'[a] \in {"running", "done"} /\ (b # a => run'[b] = run[b])
  <2>1. run[a] = "running"
    BY DEF Thread, ThreadStep, ThreadEnds, ThreadKilled, FinishRun
  <2> QED BY <2>1, ThreadIsARun DEF Thread, FinishRun, vars, running, TypeOK, DataTypeOK
<1>4. CASE b # a
  <2>1. phase'[b] = phase[b] /\ result'[b] = result[b] /\ touched'[b] = touched[b]
    BY <1>4
    DEF Thread, ThreadStep, CheckParams, DryRun, Execute, Verify, Rollback,
        ThreadEnds, ThreadKilled, thread, Enter, Succeeds, PhaseRaises
  <2> QED BY <1>1, <1>2, <1>4, <2>1 DEF Returned, Recorded
<1>5. (phase[a] = "returned" => phase'[a] = "returned") /\ Recorded(a)'
  <2> USE <1>2 DEF Recorded, Enter, Succeeds, PhaseRaises, NoResult
  <2>1. CASE CheckParams(a)
    BY <2>1 DEF CheckParams
  <2>2. CASE DryRun(a)
    BY <2>2 DEF DryRun
  <2>3. CASE Execute(a)
    BY <2>3 DEF Execute
  <2>4. CASE Verify(a)
    BY <2>4 DEF Verify
  <2>5. CASE Rollback(a)
    BY <2>5 DEF Rollback
  <2>6. CASE ThreadEnds(a)
    BY <2>6 DEF ThreadEnds, thread
  <2>7. CASE ThreadKilled(a)
    BY <2>7 DEF ThreadKilled, Over
  <2> QED BY <2>1, <2>2, <2>3, <2>4, <2>5, <2>6, <2>7 DEF Thread, ThreadStep
<1> QED BY <1>1, <1>4, <1>5 DEF Returned

LEMMA VerdictStep == VerdictInv /\ [SystemNext]_sysVars => VerdictInv'
<1> SUFFICES ASSUME VerdictInv, [SystemNext]_sysVars PROVE VerdictInv'
  OBVIOUS
<1>1. SystemTypeOK' /\ ConductInv'
  BY SystemTypeStep, SystemConduct DEF VerdictInv
<1>2. ASSUME NEW a \in Alerts, Flow(a) \/ Thread(a) PROVE VerdictInv'
  BY <1>1, <1>2, FlowFits, ThreadFits DEF VerdictInv
<1>7. ASSUME NEW a \in Alerts, Shutdown(a) PROVE VerdictInv'
  <2>1. ASSUME NEW b \in Alerts PROVE Returned(b)' /\ Recorded(b)'
    BY <1>7, ShutdownKeeps DEF VerdictInv, SystemTypeOK, Returned, Recorded, thread
  <2> QED BY <1>1, <2>1 DEF VerdictInv
<1>3. CASE UNCHANGED <<thread, pc, label, run>>
  BY <1>1, <1>3 DEF VerdictInv, thread, Returned, Recorded
<1>4. CASE Clicking
  <2>1. UNCHANGED <<pc, label, run>>
    BY <1>4, ListenerIsAClick
    DEF Clicking, VerdictInv, SystemTypeOK, Approve, vars, wfVars, running
  <2> QED BY <1>3, <1>4, <2>1 DEF Clicking
<1>5. CASE Time
  BY <1>3, <1>5 DEF Time, Tick, wfVars
<1>6. CASE UNCHANGED sysVars
  BY <1>3, <1>6 DEF sysVars, vars, wfVars, running
<1> QED BY <1>2, <1>4, <1>5, <1>6, <1>7 DEF SystemNext

(* No verdict or message that says nothing was run is given of a host the  *)
(* playbook has touched, and success is claimed only of one it has, for    *)
(* any number of alerts and however a thread ends.                         *)
THEOREM VerdictsFitHosts == SystemSpec => []VerdictFitsHost
<1>1. SystemInit => VerdictInv
  <2> SUFFICES ASSUME SystemInit PROVE VerdictInv
    OBVIOUS
  <2>1. ASSUME NEW a \in Alerts
        PROVE  /\ run[a] = "idle" /\ label[a] = "pending" /\ pc[a] = "agent_diagnose"
               /\ phase[a] = "none" /\ result[a] = NoResult /\ ~touched[a]
    BY DEF SystemInit, Init, ThreadInit
  <2>2. ~NoResult.verify /\ ~NoResult.execute
    BY DEF NoResult
  <2>3. ASSUME NEW a \in Alerts PROVE Returned(a) /\ Recorded(a)
    BY <2>1, <2>2 DEF Returned, Recorded
  <2> QED BY <2>3, SystemTypeInit, InitSafetyInv
         DEF SystemInit, SafetyInv, VerdictInv
<1>2. ASSUME VerdictInv, NEW a \in Alerts
      PROVE  /\ label[a] \in NothingRun => ~touched[a]
             /\ label[a] \in {"approved", "auto_approved"} =>
                  CASE ResultMessage(a) = "handled" -> touched[a]
                    [] ResultMessage(a) = "dry run failed, nothing was done" -> ~touched[a]
                    [] ResultMessage(a) = "done but not verified" -> touched[a]
                    [] OTHER -> phase[a] = "returned"
  <2>1. Control(a) /\ Returned(a) /\ Recorded(a)
    BY <1>2 DEF VerdictInv, ConductInv
  <2>2. CASE result[a].verify
    <3>1. ~~result[a].dry_run /\ ~~result[a].execute /\ touched[a]
      BY <2>1, <2>2 DEF Recorded
    <3>2. ResultMessage(a) = "handled"
      BY <2>2, <3>1 DEF ResultMessage
    <3> QED BY <2>1, <3>1, <3>2 DEF Control, Recorded
  <2>3. CASE ~result[a].verify /\ ~result[a].dry_run
    <3>1. ~touched[a] /\ ~result[a].execute
      BY <2>1, <2>3 DEF Recorded
    <3>2. ResultMessage(a) \in {"dry run failed, nothing was done", "execution failed"}
      BY <2>3, <3>1 DEF ResultMessage
    <3> QED BY <2>1, <3>1, <3>2 DEF Returned
  <2>4. CASE ~result[a].verify /\ result[a].dry_run /\ ~result[a].execute
    <3>1. ResultMessage(a) = "execution failed"
      BY <2>4 DEF ResultMessage
    <3> QED BY <2>1, <3>1 DEF Control, Returned, Recorded
  <2>5. CASE ~result[a].verify /\ result[a].dry_run /\ result[a].execute
    <3>1. ResultMessage(a) = "done but not verified" /\ touched[a]
      BY <2>1, <2>5 DEF ResultMessage, Recorded
    <3> QED BY <2>1, <3>1 DEF Control, Recorded
  <2> QED BY <2>2, <2>3, <2>4, <2>5
<1>3. VerdictInv => VerdictFitsHost
  BY <1>2 DEF VerdictFitsHost
<1> QED BY <1>1, <1>3, VerdictStep, PTL DEF SystemSpec
=============================================================================
