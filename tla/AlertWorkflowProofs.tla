------------------------ MODULE AlertWorkflowProofs ------------------------
(***************************************************************************)
(* Safety of AlertWorkflow for any set of alerts and hosts and any time    *)
(* and retry limits.                                                       *)
(***************************************************************************)
EXTENDS AlertWorkflow, TLAPS

WfTypeOK == ProgressTypeOK /\ ResultTypeOK

-----------------------------------------------------------------------------
(* Types of the operators that move a workflow between activities.         *)

(* Every activity named in the code is a stage.                            *)
LEMMA StageNames ==
  /\ {"agent_diagnose", "evaluate_policy", "send_card", "wait_approval"} \subseteq Stages
  /\ {"try_acquire_mutex", "execute_runbook", "release_mutex"} \subseteq Stages
  /\ {"write_audit", "label_feedback", "send_result", "post_summary"} \subseteq Stages
  /\ {"decr_gauge", "closed"} \subseteq Stages
  BY DEF Stages

(* Starting an activity is well typed: its first attempt has number 1.     *)
LEMMA GotoTyped ==
  ASSUME ProgressTypeOK, NEW a \in Alerts, NEW s \in Stages, Goto(a, s)
  PROVE  ProgressTypeOK'
  BY ConstantsAssumption DEF ProgressTypeOK, Goto

(* So is repeating one within its retry policy.                            *)
LEMMA RetryTyped ==
  ASSUME WfTypeOK, NEW a \in Alerts, NEW n \in {NotifyAttempts, MutexAttempts},
         pc[a] = "try_acquire_mutex" => n = MutexAttempts, Retry(a, n)
  PROVE  WfTypeOK'
  BY ConstantsAssumption DEF WfTypeOK, ProgressTypeOK, ResultTypeOK, Retry

(* So is going on to the next activity with nothing else changed.          *)
LEMMA ProceedTyped ==
  ASSUME WfTypeOK, NEW a \in Alerts, NEW s \in Stages, Proceed(a, s)
  PROVE  WfTypeOK'
  BY GotoTyped DEF WfTypeOK, ResultTypeOK, Proceed

(* So is propagating an ActivityError.                                     *)
LEMMA RaiseTyped ==
  ASSUME WfTypeOK, NEW a \in Alerts, NEW n, Raise(a, n)
  PROVE  WfTypeOK'
<1>1. ProgressTypeOK'
  BY GotoTyped, StageNames DEF WfTypeOK, Raise
<1>2. ResultTypeOK'
  BY DEF WfTypeOK, ResultTypeOK, Raise
<1> QED
  BY <1>1, <1>2 DEF WfTypeOK

(* So is settling on a label.                                              *)
LEMMA SettleTyped ==
  ASSUME WfTypeOK, NEW a \in Alerts, NEW s \in Stages, NEW l \in Labels,
         Goto(a, s), Settle(a, l), UNCHANGED failed
  PROVE  WfTypeOK'
  BY GotoTyped DEF WfTypeOK, ResultTypeOK, Settle

(* So is any end of an attempt of an activity.                             *)
LEMMA AwaitTyped ==
  ASSUME WfTypeOK, NEW a \in Alerts, NEW o, NEW n \in {NotifyAttempts, MutexAttempts},
         NEW s \in Stages, pc[a] = "try_acquire_mutex" => n = MutexAttempts,
         Await(a, o, n, s) \/ AwaitQuietly(a, o, n, s)
  PROVE  WfTypeOK'
  BY RetryTyped, RaiseTyped, ProceedTyped DEF Await, AwaitQuietly

(* Redis answers with a lock table of the same type whatever is asked.     *)
LEMMA AcquireTyped ==
  ASSUME LockTypeOK(Tokens), NEW t \in Targets, NEW k \in Tokens,
         AcquireActionMutex(t, k, MutexTTL)
  PROVE  LockTypeOK(Tokens)'
  BY ConstantsAssumption DEF LockTypeOK, AcquireActionMutex

(* ... to a release                                                        *)
LEMMA ReleaseTyped ==
  ASSUME LockTypeOK(Tokens), NEW t \in Targets, NEW k, ReleaseActionMutex(t, k)
  PROVE  LockTypeOK(Tokens)'
  BY DEF LockTypeOK, ReleaseActionMutex, Free

(* ... and to the passing of time.                                         *)
LEMMA ExpireTyped ==
  ASSUME LockTypeOK(Tokens), ExpireLocks
  PROVE  LockTypeOK(Tokens)'
  BY DEF LockTypeOK, ExpireLocks, Free

-----------------------------------------------------------------------------
(* Type correctness: it holds at the start ...                             *)
LEMMA InitTypeOK == Init => TypeOK
  BY ConstantsAssumption
  DEF Init, TypeOK, LockInit, Free, LockTypeOK, ProgressTypeOK, ResultTypeOK,
      DataTypeOK, Stages, Labels, Clicks

(* Giving the playbook up is well typed, whatever becomes of it.           *)
LEMMA GiveUpTyped ==
  ASSUME TypeOK, NEW a \in Alerts, GiveUp(a),
         run' \in [Alerts -> {"idle", "queued", "running", "done"}]
  PROVE  TypeOK'
<1>1. WfTypeOK'
  BY SettleTyped, StageNames DEF TypeOK, WfTypeOK, GiveUp, Labels
<1> QED
  BY <1>1 DEF GiveUp, StopClocks, choices, outputs, TypeOK, WfTypeOK, DataTypeOK, LockTypeOK

(* One step of one workflow; the unchanged parts are typed as before.      *)
LEMMA StepTypeOK ==
  ASSUME TypeOK, NEW a \in Alerts, Step(a)
  PROVE  TypeOK'
<1> USE ConstantsAssumption, StageNames DEF choices, running, outputs
<1>1. CASE AgentDiagnose(a)
  <2>1. WfTypeOK'
    BY <1>1, RetryTyped, ProceedTyped, SettleTyped
    DEF TypeOK, WfTypeOK, AgentDiagnose, ResolveRunbook, Labels
  <2> QED
    BY <1>1, <2>1 DEF AgentDiagnose, TypeOK, WfTypeOK, DataTypeOK, LockTypeOK
<1>2. CASE EvaluatePolicy(a)
  <2>1. WfTypeOK'
    BY <1>2, RetryTyped, RaiseTyped, SettleTyped, ProceedTyped
    DEF TypeOK, WfTypeOK, EvaluatePolicy, Proceed, Labels
  <2>2. policy' \in [Alerts -> {"none", "deny", "approval_required", "allow"}]
    BY <1>2 DEF EvaluatePolicy, TypeOK, DataTypeOK
  <2> QED
    BY <1>2, <2>1, <2>2 DEF EvaluatePolicy, TypeOK, WfTypeOK, DataTypeOK, LockTypeOK
<1>3. CASE SendCard(a)
  <2>1. WfTypeOK'
    BY <1>3, AwaitTyped DEF TypeOK, WfTypeOK, SendCard
  <2>2. card' \in [Alerts -> {"none", "buttons", "silent"}]
    BY <1>3 DEF SendCard, CardFor, TypeOK, DataTypeOK
  <2> QED
    BY <1>3, <2>1, <2>2 DEF SendCard, TypeOK, WfTypeOK, DataTypeOK, LockTypeOK
<1>4. CASE ApprovalArrives(a)
  <2>1. WfTypeOK'
    BY <1>4, SettleTyped, ProceedTyped
    DEF TypeOK, WfTypeOK, ApprovalArrives, Proceed, Labels
  <2> QED
    BY <1>4, <2>1 DEF ApprovalArrives, TypeOK, WfTypeOK, DataTypeOK, LockTypeOK
<1>5. CASE ApprovalTimeout(a)
  <2>1. WfTypeOK'
    BY <1>5, SettleTyped DEF TypeOK, WfTypeOK, ApprovalTimeout, Labels
  <2> QED
    BY <1>5, <2>1 DEF ApprovalTimeout, TypeOK, WfTypeOK, DataTypeOK, LockTypeOK
<1>6. CASE TryAcquireMutex(a)
  <2>1. <<a, attempt[a]>> \in Tokens /\ HostOf[a] \in Targets
    BY <1>6 DEF TryAcquireMutex, TypeOK, ProgressTypeOK, Tokens
  <2>2. LockTypeOK(Tokens)'
    BY <1>6, <2>1, AcquireTyped DEF TryAcquireMutex, TypeOK, LockTypeOK
  <2>3. WfTypeOK'
    BY <1>6, RetryTyped, RaiseTyped, ProceedTyped, SettleTyped
    DEF TypeOK, WfTypeOK, TryAcquireMutex, Labels
  <2>4. token' \in [Alerts -> Tokens \cup {NoToken}]
    BY <1>6, <2>1 DEF TryAcquireMutex, TypeOK, DataTypeOK
  <2> QED
    BY <1>6, <2>2, <2>3, <2>4 DEF TryAcquireMutex, TypeOK, WfTypeOK, DataTypeOK
<1>7. CASE PickUp(a) \/ StartRun(a)
  <2>1. /\ UNCHANGED <<lock, wfVars, choices, token, waited, timer, outputs>>
        /\ run' \in [Alerts -> {"idle", "queued", "running", "done"}]
    BY <1>7 DEF PickUp, StartRun, TypeOK, DataTypeOK
  <2> QED BY <2>1 DEF wfVars, TypeOK, ProgressTypeOK, ResultTypeOK, DataTypeOK, LockTypeOK
<1>8. CASE RunbookReturns(a)
  <2>1. WfTypeOK'
    BY <1>8, ProceedTyped DEF TypeOK, WfTypeOK, RunbookReturns
  <2> QED
    BY <1>8, <2>1 DEF RunbookReturns, TypeOK, WfTypeOK, DataTypeOK, LockTypeOK
<1>9. CASE RunbookRaises(a)
  <2>1. run' \in [Alerts -> {"idle", "queued", "running", "done"}]
    <3>1. run' = run \/ run' = [run EXCEPT ![a] = "idle"]
      BY <1>9 DEF RunbookRaises, StillInLine
    <3> QED
      BY <3>1 DEF TypeOK, DataTypeOK
  <2> QED
    BY <1>9, <2>1, GiveUpTyped DEF RunbookRaises
<1>10. CASE ReleaseMutex(a)
  <2>1. LockTypeOK(Tokens)'
    BY <1>10, ReleaseTyped DEF ReleaseMutex, TypeOK, LockTypeOK
  <2>2. WfTypeOK'
    BY <1>10, RetryTyped, RaiseTyped, ProceedTyped, SettleTyped
    DEF TypeOK, WfTypeOK, ReleaseMutex, Labels
  <2> QED
    BY <1>10, <2>1, <2>2 DEF ReleaseMutex, TypeOK, WfTypeOK, DataTypeOK
<1>11. CASE WriteAudit(a)
  <2>1. WfTypeOK'
    BY <1>11, AwaitTyped DEF TypeOK, WfTypeOK, WriteAudit
  <2>2. jsonl' \in [Alerts -> Seq(Labels \cup {"pending"})]
    <3>1. Append(jsonl[a], label[a]) \in Seq(Labels \cup {"pending"})
      BY DEF TypeOK, ResultTypeOK, DataTypeOK
    <3> QED
      BY <1>11, <3>1 DEF WriteAudit, TypeOK, DataTypeOK
  <2> QED
    BY <1>11, <2>1, <2>2 DEF WriteAudit, TypeOK, WfTypeOK, DataTypeOK, LockTypeOK
<1>12. CASE LabelFeedback(a)
  <2>1. WfTypeOK'
    BY <1>12, AwaitTyped DEF TypeOK, WfTypeOK, LabelFeedback
  <2> QED
    BY <1>12, <2>1 DEF LabelFeedback, TypeOK, WfTypeOK, DataTypeOK, LockTypeOK
<1>13. CASE SendResult(a)
  <2>1. WfTypeOK'
    BY <1>13, AwaitTyped DEF TypeOK, WfTypeOK, SendResult
  <2> QED
    BY <1>13, <2>1 DEF SendResult, TypeOK, WfTypeOK, DataTypeOK, LockTypeOK
<1>14. CASE PostSummary(a)
  <2>1. WfTypeOK'
    BY <1>14, ProceedTyped DEF TypeOK, WfTypeOK, PostSummary
  <2> QED
    BY <1>14, <2>1 DEF PostSummary, TypeOK, WfTypeOK, DataTypeOK, LockTypeOK
<1>15. CASE DecrPendingGauge(a)
  <2>1. WfTypeOK'
    BY <1>15, AwaitTyped DEF TypeOK, WfTypeOK, DecrPendingGauge
  <2> QED
    BY <1>15, <2>1 DEF DecrPendingGauge, TypeOK, WfTypeOK, DataTypeOK, LockTypeOK
<1> QED
  BY <1>1, <1>2, <1>3, <1>4, <1>5, <1>6, <1>7, <1>8, <1>9, <1>10, <1>11,
     <1>12, <1>13, <1>14, <1>15 DEF Step

(* ... and every step, a tick and a click included, keeps it.              *)
LEMMA NextTypeOK == TypeOK /\ [Next]_vars => TypeOK'
<1> SUFFICES ASSUME TypeOK, [Next]_vars PROVE TypeOK'
  OBVIOUS
<1>1. ASSUME NEW a \in Alerts, Step(a) PROVE TypeOK'
  BY <1>1, StepTypeOK
<1>2. ASSUME NEW a \in Alerts, FinishRun(a) PROVE TypeOK'
  BY <1>2 DEF FinishRun, StopClocks, wfVars, choices, outputs, TypeOK, ProgressTypeOK,
              ResultTypeOK, DataTypeOK, LockTypeOK
<1>3. ASSUME NEW a \in Alerts, NEW click \in Clicks, Approve(a, click) PROVE TypeOK'
  BY <1>3 DEF Approve, wfVars, running, outputs, TypeOK, ProgressTypeOK,
              ResultTypeOK, DataTypeOK, LockTypeOK
<1>4. CASE Tick
  <2>1. LockTypeOK(Tokens)'
    BY <1>4, ExpireTyped DEF Tick, TypeOK
  <2> QED
    BY <1>4, <2>1 DEF Tick, wfVars, choices, outputs, TypeOK, ProgressTypeOK,
                      ResultTypeOK, DataTypeOK
<1>5. ASSUME NEW a \in Alerts, WorkerStops(a) PROVE TypeOK'
  <2>1. run' \in [Alerts -> {"idle", "queued", "running", "done"}]
    BY <1>5 DEF WorkerStops, TypeOK, DataTypeOK
  <2> QED
    BY <1>5, <2>1, GiveUpTyped DEF WorkerStops
<1>6. CASE UNCHANGED vars
  BY <1>6 DEF vars, wfVars, choices, running, outputs, TypeOK, ProgressTypeOK,
              ResultTypeOK, DataTypeOK, LockTypeOK
<1> QED
  BY <1>1, <1>2, <1>3, <1>4, <1>5, <1>6 DEF Next

(* Every variable keeps its type in every behaviour; in particular the     *)
(* attempt counters stay within the retry policies.                        *)
THEOREM TypeCorrect == Spec => []TypeOK
  BY InitTypeOK, NextTypeOK, PTL DEF Spec

-----------------------------------------------------------------------------
(* Frames: what one workflow's step leaves alone.                          *)

(* One action of a, whoever takes it. *)
ActionOf(a) ==
  \/ Step(a) \/ FinishRun(a) \/ WorkerStops(a)
  \/ \E click \in Clicks : Approve(a, click)

(* execute_runbook is given up: by its timeout, an error, or its worker. *)
Abandons(a) == RunbookRaises(a) \/ WorkerStops(a)

LEMMA AbandonsIs ==
  ASSUME NEW a \in Alerts, Abandons(a)
  PROVE  pc[a] = "execute_runbook" /\ GiveUp(a)
  BY DEF Abandons, RunbookRaises, WorkerStops

(* A playbook that is given up leaves the line or stays what it was.       *)
LEMMA AbandonedRun ==
  ASSUME TypeOK, NEW a \in Alerts, Abandons(a)
  PROVE  /\ run'[a] = run[a] \/ (run[a] = "queued" /\ run'[a] = "idle")
         /\ \A b \in Alerts : b # a => run'[b] = run[b]
  BY DEF Abandons, RunbookRaises, WorkerStops, StillInLine, TypeOK, DataTypeOK

(* A step of a moves only a's own control state.                           *)
LEMMA ProgressFrame ==
  ASSUME TypeOK, NEW a \in Alerts, NEW b \in Alerts, b # a, ActionOf(a)
  PROVE  pc'[b] = pc[b] /\ label'[b] = label[b] /\ failed'[b] = failed[b]
<1> USE DEF TypeOK, ProgressTypeOK, ResultTypeOK
<1>1. CASE AgentDiagnose(a)
  BY <1>1 DEF AgentDiagnose, ResolveRunbook, Retry, Proceed, Goto, Settle
<1>2. CASE EvaluatePolicy(a)
  BY <1>2 DEF EvaluatePolicy, Retry, Raise, Goto, Settle
<1>3. CASE SendCard(a)
  BY <1>3 DEF SendCard, Await, Retry, Raise, Proceed, Goto
<1>4. CASE ApprovalArrives(a) \/ ApprovalTimeout(a)
  BY <1>4 DEF ApprovalArrives, ApprovalTimeout, Goto, Settle
<1>5. CASE TryAcquireMutex(a)
  BY <1>5 DEF TryAcquireMutex, Retry, Raise, Proceed, Goto, Settle
<1>6. CASE RunbookReturns(a) \/ Abandons(a)
  BY <1>6, AbandonsIs DEF RunbookReturns, GiveUp, Proceed, Goto, Settle
<1>7. CASE ReleaseMutex(a)
  BY <1>7 DEF ReleaseMutex, Retry, Raise, Proceed, Goto, Settle
<1>8. CASE WriteAudit(a)
  BY <1>8 DEF WriteAudit, Await, Retry, Raise, Proceed, Goto
<1>9. CASE LabelFeedback(a)
  BY <1>9 DEF LabelFeedback, Await, Retry, Raise, Proceed, Goto
<1>10. CASE SendResult(a)
  BY <1>10 DEF SendResult, Await, Retry, Raise, Proceed, Goto
<1>11. CASE PostSummary(a)
  BY <1>11 DEF PostSummary, Proceed, Goto
<1>12. CASE DecrPendingGauge(a)
  BY <1>12 DEF DecrPendingGauge, AwaitQuietly, Retry, Proceed, Goto
<1>13. CASE PickUp(a) \/ StartRun(a) \/ FinishRun(a) \/ \E click \in Clicks : Approve(a, click)
  BY <1>13 DEF PickUp, StartRun, FinishRun, Approve, wfVars
<1> QED
  BY <1>1, <1>2, <1>3, <1>4, <1>5, <1>6, <1>7, <1>8, <1>9, <1>10, <1>11, <1>12, <1>13
  DEF ActionOf, Step, Abandons

(* ... and only a's own data.                                              *)
LEMMA DataFrame ==
  ASSUME TypeOK, NEW a \in Alerts, NEW b \in Alerts, b # a, ActionOf(a)
  PROVE  /\ policy'[b] = policy[b] /\ decision'[b] = decision[b] /\ token'[b] = token[b]
         /\ run'[b] = run[b] /\ waited'[b] = waited[b] /\ timer'[b] = timer[b]
         /\ jsonl'[b] = jsonl[b]
         /\ told'[b] = told[b] /\ labelled'[b] = labelled[b] /\ released'[b] = released[b]
<1> USE DEF TypeOK, DataTypeOK, choices, running, outputs
<1>1. CASE AgentDiagnose(a) \/ EvaluatePolicy(a) \/ SendCard(a)
  BY <1>1 DEF AgentDiagnose, EvaluatePolicy, SendCard
<1>2. CASE ApprovalArrives(a) \/ ApprovalTimeout(a) \/ \E click \in Clicks : Approve(a, click)
  BY <1>2 DEF ApprovalArrives, ApprovalTimeout, Approve
<1>3. CASE TryAcquireMutex(a)
  BY <1>3 DEF TryAcquireMutex
<1>4. CASE PickUp(a) \/ StartRun(a) \/ FinishRun(a) \/ RunbookReturns(a)
  BY <1>4 DEF PickUp, StartRun, FinishRun, StopClocks, RunbookReturns
<1>9. CASE Abandons(a)
  BY <1>9, AbandonsIs, AbandonedRun DEF GiveUp, StopClocks
<1>5. CASE ReleaseMutex(a) \/ WriteAudit(a) \/ PostSummary(a)
  BY <1>5 DEF ReleaseMutex, WriteAudit, PostSummary
<1>6. CASE LabelFeedback(a)
  BY <1>6 DEF LabelFeedback
<1>7. CASE SendResult(a)
  BY <1>7 DEF SendResult
<1>8. CASE DecrPendingGauge(a)
  BY <1>8 DEF DecrPendingGauge
<1> QED
  BY <1>1, <1>2, <1>3, <1>4, <1>5, <1>6, <1>7, <1>8, <1>9 DEF ActionOf, Step, Abandons

(* A lock that b holds survives every step of another workflow: SET NX     *)
(* leaves it alone and the release script compares the token.              *)
LEMMA LockFrame ==
  ASSUME TypeOK, NEW a \in Alerts, NEW b \in Alerts, b # a, ActionOf(a),
         Token(a), Token(b), Holds(b)
  PROVE  lock'[HostOf[b]] = lock[HostOf[b]]
<1>1. HostOf[a] \in Targets /\ HostOf[b] \in Targets
  BY ConstantsAssumption
<1>2. CASE TryAcquireMutex(a)
  BY <1>1, <1>2 DEF TryAcquireMutex, AcquireActionMutex, IsFree, Holds, TypeOK, LockTypeOK
<1>3. CASE ReleaseMutex(a)
  BY <1>1, <1>3 DEF ReleaseMutex, ReleaseActionMutex, Token, Holds, TypeOK, LockTypeOK
<1>4. CASE ~TryAcquireMutex(a) /\ ~ReleaseMutex(a)
  BY <1>4 DEF ActionOf, Step, AgentDiagnose, EvaluatePolicy, SendCard, ApprovalArrives,
     ApprovalTimeout, PickUp, StartRun, RunbookReturns, RunbookRaises, WorkerStops, GiveUp,
     WriteAudit, LabelFeedback, SendResult, PostSummary, DecrPendingGauge, FinishRun, Approve
<1> QED
  BY <1>2, <1>3, <1>4

-----------------------------------------------------------------------------
(* What a workflow's own step preserves, one invariant at a time.          *)

(* The attempt that gets the lock stores a token of its own alert.         *)
LEMMA OwnToken ==
  ASSUME TypeOK, NEW a \in Alerts, ActionOf(a), Token(a)
  PROVE  Token(a)'
<1>1. CASE TryAcquireMutex(a)
  BY <1>1 DEF TryAcquireMutex, Token, TypeOK, DataTypeOK
<1>2. CASE ~TryAcquireMutex(a)
  BY <1>2 DEF Token, ActionOf, Step, AgentDiagnose, EvaluatePolicy, SendCard,
     ApprovalArrives, ApprovalTimeout, PickUp, StartRun, RunbookReturns, RunbookRaises,
     WorkerStops, GiveUp, ReleaseMutex, WriteAudit, LabelFeedback, SendResult, PostSummary,
     DecrPendingGauge, FinishRun, Approve
<1> QED
  BY <1>1, <1>2

(* The lease: set in full by the mutex attempt, used up only by time.      *)
LEMMA OwnLease ==
  ASSUME TypeOK, NEW a \in Alerts, ActionOf(a), Lease(a), Control(a)
  PROVE  Lease(a)'
<1> USE DEF TypeOK, ProgressTypeOK, DataTypeOK, choices, running, outputs
<1>1. CASE AgentDiagnose(a)
  BY <1>1 DEF AgentDiagnose, ResolveRunbook, Retry, Proceed, Goto, Lease, Counting,
     AwaitsPickup, IsPickedUp, Holds, Control, BeforeMutex
<1>2. CASE EvaluatePolicy(a)
  BY <1>2 DEF EvaluatePolicy, Retry, Raise, Goto, Lease, Counting, AwaitsPickup, IsPickedUp, Holds, Control, BeforeMutex
<1>3. CASE SendCard(a)
  BY <1>3 DEF SendCard, Await, Retry, Raise, Proceed, Goto, Lease, Counting, AwaitsPickup, IsPickedUp, Holds,
     Control, BeforeMutex
<1>4. CASE ApprovalArrives(a) \/ ApprovalTimeout(a)
  BY <1>4 DEF ApprovalArrives, ApprovalTimeout, Goto, Lease, Counting, AwaitsPickup, IsPickedUp, Holds, Control, BeforeMutex
<1>5. CASE TryAcquireMutex(a)
  <2>1. run[a] = "idle" /\ waited[a] = 0 /\ timer[a] = 0
    BY <1>5 DEF TryAcquireMutex, Lease, Counting, AwaitsPickup, IsPickedUp, Control, BeforeMutex
  <2>2. run'[a] = "idle" /\ waited'[a] = 0 /\ timer'[a] = 0
    BY <1>5, <2>1 DEF TryAcquireMutex
  <2>3. CASE pc'[a] = "execute_runbook"
    <3>1. HostOf[a] \in Targets
      BY ConstantsAssumption
    <3>2. /\ token'[a] = <<a, attempt[a]>>
          /\ lock'[HostOf[a]] = [token |-> <<a, attempt[a]>>, ttl |-> MutexTTL]
      BY <1>5, <2>3, <3>1 DEF TryAcquireMutex, AcquireActionMutex, Happened, LockTypeOK,
         Retry, Raise, Goto
    <3>3. <<a, attempt[a]>> # NoToken
      BY <1>5, TokenAssumption DEF TryAcquireMutex, Tokens
    <3>4. Holds(a)' /\ lock'[HostOf[a]].ttl = MutexTTL
      BY <3>2, <3>3 DEF Holds
    <3> QED
      BY <2>2, <2>3, <3>4, ConstantsAssumption DEF Lease, Counting, AwaitsPickup, IsPickedUp
  <2>4. CASE pc'[a] # "execute_runbook"
    BY <2>2, <2>4 DEF Lease, Counting, AwaitsPickup, IsPickedUp
  <2> QED
    BY <2>3, <2>4
<1>6. CASE PickUp(a)
  <2>1. AwaitsPickup(a) /\ run'[a] = "queued" /\ UNCHANGED <<pc, lock, token, waited, timer>>
    BY <1>6 DEF PickUp, AwaitsPickup, wfVars
  <2> QED
    BY <2>1, ConstantsAssumption DEF Lease, Counting, AwaitsPickup, IsPickedUp, Holds
<1>17. CASE StartRun(a)
  <2>1. /\ run[a] = "queued" /\ run'[a] = "running"
        /\ UNCHANGED <<pc, lock, token, waited, timer>>
    BY <1>17 DEF StartRun, wfVars
  <2> QED
    BY <2>1 DEF Lease, Counting, AwaitsPickup, IsPickedUp, Holds
<1>7. CASE FinishRun(a)
  BY <1>7 DEF FinishRun, StopClocks, wfVars, Lease, Counting, AwaitsPickup, IsPickedUp
<1>8. CASE RunbookReturns(a)
  BY <1>8 DEF RunbookReturns, Proceed, Goto, Lease, Counting, AwaitsPickup, IsPickedUp
<1>9. CASE Abandons(a)
  BY <1>9, AbandonsIs DEF GiveUp, StopClocks, Goto, Lease, Counting, AwaitsPickup, IsPickedUp
<1>10. CASE ReleaseMutex(a)
  BY <1>10 DEF ReleaseMutex, Retry, Raise, Proceed, Goto, Lease, Counting, AwaitsPickup, IsPickedUp
<1>11. CASE WriteAudit(a)
  BY <1>11 DEF WriteAudit, Await, Retry, Raise, Proceed, Goto, Lease, Counting, AwaitsPickup, IsPickedUp
<1>12. CASE LabelFeedback(a)
  BY <1>12 DEF LabelFeedback, Await, Retry, Raise, Proceed, Goto, Lease, Counting, AwaitsPickup, IsPickedUp
<1>13. CASE SendResult(a)
  BY <1>13 DEF SendResult, Await, Retry, Raise, Proceed, Goto, Lease, Counting, AwaitsPickup, IsPickedUp
<1>14. CASE PostSummary(a)
  BY <1>14 DEF PostSummary, Proceed, Goto, Lease, Counting, AwaitsPickup, IsPickedUp
<1>15. CASE DecrPendingGauge(a)
  BY <1>15 DEF DecrPendingGauge, AwaitQuietly, Retry, Proceed, Goto, Lease, Counting, AwaitsPickup, IsPickedUp
<1>16. CASE \E click \in Clicks : Approve(a, click)
  BY <1>16 DEF Approve, wfVars, Lease, Counting, AwaitsPickup, IsPickedUp, Holds
<1> QED
  BY <1>1, <1>2, <1>3, <1>4, <1>5, <1>6, <1>7, <1>8, <1>9, <1>10, <1>11, <1>12,
     <1>13, <1>14, <1>15, <1>16, <1>17
  DEF ActionOf, Step, Abandons

(* Where the workflow can be: the label is settled before the audit, and   *)
(* only a finished playbook leads out of the try block without "error".    *)
LEMMA OwnControl ==
  ASSUME TypeOK, NEW a \in Alerts, ActionOf(a), Control(a)
  PROVE  Control(a)'
<1> USE DEF TypeOK, ProgressTypeOK, ResultTypeOK, DataTypeOK, choices, running, outputs,
            BeforeMutex, AfterAudit, NothingRun
<1>1. CASE AgentDiagnose(a)
  BY <1>1 DEF AgentDiagnose, ResolveRunbook, Retry, Proceed, Goto, Settle, Control
<1>2. CASE EvaluatePolicy(a)
  BY <1>2 DEF EvaluatePolicy, Retry, Raise, Goto, Settle, Control
<1>3. CASE SendCard(a)
  BY <1>3 DEF SendCard, Await, Retry, Raise, Proceed, Goto, Control
<1>4. CASE ApprovalArrives(a) \/ ApprovalTimeout(a)
  BY <1>4 DEF ApprovalArrives, ApprovalTimeout, Goto, Settle, Control
<1>5. CASE TryAcquireMutex(a)
  BY <1>5 DEF TryAcquireMutex, Retry, Raise, Proceed, Goto, Settle, Control
<1>6. CASE PickUp(a) \/ StartRun(a)
  BY <1>6 DEF PickUp, StartRun, wfVars, Control
<1>7. CASE FinishRun(a)
  BY <1>7 DEF FinishRun, wfVars, Control
<1>8. CASE RunbookReturns(a)
  BY <1>8 DEF RunbookReturns, Proceed, Goto, Settle, Control
<1>16. CASE Abandons(a)
  BY <1>16, AbandonsIs DEF GiveUp, Goto, Settle, Control
<1>9. CASE ReleaseMutex(a)
  BY <1>9 DEF ReleaseMutex, Retry, Raise, Proceed, Goto, Settle, Control
<1>10. CASE WriteAudit(a)
  BY <1>10 DEF WriteAudit, Await, Retry, Raise, Proceed, Goto, Control
<1>11. CASE LabelFeedback(a)
  BY <1>11 DEF LabelFeedback, Await, Retry, Raise, Proceed, Goto, Control
<1>12. CASE SendResult(a)
  BY <1>12 DEF SendResult, Await, Retry, Raise, Proceed, Goto, Control
<1>13. CASE PostSummary(a)
  BY <1>13 DEF PostSummary, Proceed, Goto, Control
<1>14. CASE DecrPendingGauge(a)
  BY <1>14 DEF DecrPendingGauge, AwaitQuietly, Retry, Proceed, Goto, Control
<1>15. CASE \E click \in Clicks : Approve(a, click)
  BY <1>15 DEF Approve, wfVars, Control
<1> QED
  BY <1>1, <1>2, <1>3, <1>4, <1>5, <1>6, <1>7, <1>8, <1>9, <1>10, <1>11, <1>12,
     <1>13, <1>14, <1>15, <1>16 DEF ActionOf, Step, Abandons

(* Authority: policy is settled before anything runs and the first         *)
(* decision is final.                                                      *)
LEMMA OwnAuthority ==
  ASSUME TypeOK, NEW a \in Alerts, ActionOf(a), Control(a), Authority(a)
  PROVE  Authority(a)'
<1> USE DEF TypeOK, ProgressTypeOK, DataTypeOK, choices, running, outputs, Authority, AutoExecute
<1>1. CASE AgentDiagnose(a)
  BY <1>1 DEF AgentDiagnose, ResolveRunbook, Retry, Proceed, Goto, Control, BeforeMutex
<1>2. CASE EvaluatePolicy(a)
  BY <1>2 DEF EvaluatePolicy, Retry, Raise, Goto, Control, BeforeMutex
<1>3. CASE SendCard(a)
  BY <1>3 DEF SendCard, Await, Retry, Raise, Proceed, Goto, Control, BeforeMutex
<1>4. CASE ApprovalArrives(a) \/ ApprovalTimeout(a)
  BY <1>4 DEF ApprovalArrives, ApprovalTimeout, Goto, Control, BeforeMutex
<1>5. CASE TryAcquireMutex(a)
  BY <1>5 DEF TryAcquireMutex, Retry, Raise, Proceed, Goto
<1>6. CASE PickUp(a) \/ StartRun(a) \/ FinishRun(a)
  BY <1>6 DEF PickUp, StartRun, FinishRun, wfVars
<1>7. CASE RunbookReturns(a) \/ Abandons(a)
  BY <1>7, AbandonsIs, AbandonedRun DEF RunbookReturns, GiveUp, Proceed, Goto
<1>8. CASE ReleaseMutex(a)
  BY <1>8 DEF ReleaseMutex, Retry, Raise, Proceed, Goto
<1>9. CASE WriteAudit(a)
  BY <1>9 DEF WriteAudit, Await, Retry, Raise, Proceed, Goto
<1>10. CASE LabelFeedback(a)
  BY <1>10 DEF LabelFeedback, Await, Retry, Raise, Proceed, Goto
<1>11. CASE SendResult(a)
  BY <1>11 DEF SendResult, Await, Retry, Raise, Proceed, Goto
<1>12. CASE PostSummary(a)
  BY <1>12 DEF PostSummary, Proceed, Goto
<1>13. CASE DecrPendingGauge(a)
  BY <1>13 DEF DecrPendingGauge, AwaitQuietly, Retry, Proceed, Goto
<1>14. CASE \E click \in Clicks : Approve(a, click)
  BY <1>14 DEF Approve, wfVars
<1> QED
  BY <1>1, <1>2, <1>3, <1>4, <1>5, <1>6, <1>7, <1>8, <1>9, <1>10, <1>11, <1>12,
     <1>13, <1>14 DEF ActionOf, Step, Abandons

(* Rows: one is appended only under the settled label, and the label is    *)
(* settled only while there is none.                                       *)
LEMMA OwnRows ==
  ASSUME TypeOK, NEW a \in Alerts, ActionOf(a), Control(a), Audit(a), Rows(a)
  PROVE  Rows(a)'
<1>1. jsonl[a] \in Seq(Labels \cup {"pending"}) /\ label[a] \in Labels \cup {"pending"}
  BY DEF TypeOK, ResultTypeOK, DataTypeOK
<1>2. CASE WriteAudit(a)
  <2>1. jsonl'[a] \in {jsonl[a], Append(jsonl[a], label[a])}
    BY <1>2 DEF WriteAudit, TypeOK, DataTypeOK
  <2>2. label'[a] = label[a]
    BY <1>2 DEF WriteAudit, Await, Retry, Raise, Proceed
  <2>3. ASSUME NEW rows, rows = jsonl[a]
        PROVE  \A i \in DOMAIN Append(rows, label[a]) : Append(rows, label[a])[i] = label[a]
    BY <1>1, <2>3 DEF Rows
  <2> QED
    BY <2>1, <2>2, <2>3 DEF Rows
<1>3. CASE ~WriteAudit(a) /\ label'[a] = label[a]
  <2>1. jsonl' = jsonl
    BY <1>3 DEF ActionOf, Step, AgentDiagnose, EvaluatePolicy, SendCard, ApprovalArrives,
       ApprovalTimeout, TryAcquireMutex, PickUp, StartRun, RunbookReturns, RunbookRaises,
       WorkerStops, GiveUp, ReleaseMutex, LabelFeedback, SendResult, PostSummary, DecrPendingGauge, FinishRun,
       Approve, outputs
  <2> QED
    BY <1>3, <2>1 DEF Rows
<1>4. CASE ~WriteAudit(a) /\ label'[a] # label[a]
  <2>1. UNCHANGED jsonl /\ label[a] = "pending"
    BY <1>4 DEF ActionOf, Step, AgentDiagnose, EvaluatePolicy, SendCard, ApprovalArrives,
       ApprovalTimeout, TryAcquireMutex, PickUp, StartRun, RunbookReturns, RunbookRaises,
       WorkerStops, GiveUp, ReleaseMutex, LabelFeedback, SendResult, PostSummary, DecrPendingGauge, FinishRun,
       Approve, outputs, wfVars, Await, AwaitQuietly, Retry, Raise, Proceed, Settle, Goto,
       ResolveRunbook, Control, BeforeMutex, TypeOK, ResultTypeOK
  <2> QED
    BY <1>1, <2>1 DEF Audit, Audited, Rows
<1> QED
  BY <1>2, <1>3, <1>4

(* The audit: no row before the label, none but of the label, and nothing  *)
(* is announced before a row is there.                                     *)
LEMMA OwnAudit ==
  ASSUME TypeOK, NEW a \in Alerts, ActionOf(a), Control(a), Audit(a)
  PROVE  Audit(a)'
<1>0. /\ pc \in [Alerts -> Stages] /\ attempt \in [Alerts -> 1..(NotifyAttempts + MutexAttempts)]
      /\ label \in [Alerts -> Labels \cup {"pending"}] /\ failed \in [Alerts -> BOOLEAN]
      /\ jsonl \in [Alerts -> Seq(Labels \cup {"pending"})] /\ told \in [Alerts -> BOOLEAN]
      /\ labelled \in [Alerts -> BOOLEAN] /\ released \in [Alerts -> BOOLEAN]
  BY DEF TypeOK, ProgressTypeOK, ResultTypeOK, DataTypeOK
<1> USE DEF choices, running, outputs, Audit, Audited, AfterAudit, Ending
<1>1. CASE AgentDiagnose(a)
  BY <1>0, <1>1 DEF AgentDiagnose, ResolveRunbook, Retry, Proceed, Goto, Settle, Control, BeforeMutex
<1>2. CASE EvaluatePolicy(a)
  BY <1>0, <1>2 DEF EvaluatePolicy, Retry, Raise, Goto, Settle, Control, BeforeMutex
<1>3. CASE SendCard(a)
  BY <1>0, <1>3 DEF SendCard, Await, Retry, Raise, Proceed, Goto, Control, BeforeMutex
<1>4. CASE ApprovalArrives(a) \/ ApprovalTimeout(a)
  BY <1>0, <1>4 DEF ApprovalArrives, ApprovalTimeout, Goto, Settle, Control, BeforeMutex
<1>5. CASE TryAcquireMutex(a)
  BY <1>0, <1>5 DEF TryAcquireMutex, Retry, Raise, Proceed, Goto, Settle, Control, BeforeMutex
<1>6. CASE PickUp(a) \/ StartRun(a) \/ FinishRun(a) \/ \E click \in Clicks : Approve(a, click)
  BY <1>0, <1>6 DEF PickUp, StartRun, FinishRun, Approve, wfVars
<1>7. CASE RunbookReturns(a) \/ Abandons(a)
  BY <1>0, <1>7, AbandonsIs DEF RunbookReturns, GiveUp, Proceed, Goto, Settle, Control
<1>8. CASE ReleaseMutex(a)
  <2>1. /\ UNCHANGED outputs /\ label[a] \in {"pending", "error"}
        /\ pc[a] = "release_mutex" /\ ~released[a]
    BY <1>0, <1>8 DEF ReleaseMutex, Control
  <2>2. CASE label'[a] = label[a]
    <3>1. \/ pc'[a] = "release_mutex" /\ failed'[a] = failed[a]
          \/ pc'[a] = "decr_gauge" /\ failed'[a]
          \/ pc'[a] = "decr_gauge" /\ failed'[a] = failed[a] /\ label[a] = "error"
      BY <1>0, <1>8, <2>1, <2>2 DEF ReleaseMutex, Retry, Raise, Proceed, Goto, Settle
    <3> QED
      BY <1>0, <2>1, <2>2, <3>1
  <2>3. CASE label'[a] # label[a]
    <3>1. pc'[a] = "write_audit" /\ label[a] = "pending" /\ label'[a] # "pending"
      BY <1>0, <1>8, <2>1, <2>3 DEF ReleaseMutex, Retry, Raise, Proceed, Goto, Settle
    <3> QED
      BY <1>0, <1>8, <2>1, <3>1 DEF ReleaseMutex
  <2> QED
    BY <2>2, <2>3
<1>9. CASE WriteAudit(a)
  <2>1. /\ label[a] # "pending" /\ label'[a] = label[a] /\ ~released[a]
        /\ told'[a] = told[a] /\ labelled'[a] = labelled[a] /\ released'[a] = released[a]
    BY <1>0, <1>9 DEF WriteAudit, Await, Retry, Raise, Proceed, Control
  <2>2. jsonl'[a] \in {jsonl[a], Append(jsonl[a], label[a])}
    BY <1>0, <1>9 DEF WriteAudit
  <2>3. Len(Append(jsonl[a], label[a])) = Len(jsonl[a]) + 1 /\ Len(jsonl[a]) \in Nat
    BY <1>0
  <2>4. CASE pc'[a] \in AfterAudit
    <3>1. jsonl'[a] = Append(jsonl[a], label[a])
      BY <1>0, <1>9, <2>4 DEF WriteAudit, Await, Retry, Raise, Proceed, Goto, Happened
    <3>2. pc'[a] \in {"label_feedback", "send_result"}
      BY <1>0, <1>9, <2>4 DEF WriteAudit, Await, Retry, Raise, Proceed, Goto
    <3> QED
      BY <2>1, <2>3, <3>1, <3>2
  <2>5. CASE pc'[a] \notin AfterAudit
    <3>1. \/ pc'[a] = "write_audit" /\ pc'[a] = pc[a]
          \/ pc'[a] \in {"release_mutex", "decr_gauge"} /\ failed'[a]
      BY <1>0, <1>9, <2>5 DEF WriteAudit, Await, Retry, Raise, Proceed, Goto
    <3>2. told[a] \/ labelled[a] => Len(jsonl'[a]) > 0
      BY <1>0, <2>2, <2>3
    <3>3. pc'[a] \notin AfterAudit /\ (pc'[a] \in Ending \cup {"release_mutex"} => failed'[a])
      BY <2>5, <3>1
    <3> QED
      BY <1>0, <1>9, <2>1, <3>2, <3>3 DEF WriteAudit
  <2> QED
    BY <2>4, <2>5
<1>10. CASE LabelFeedback(a)
  <2>0. /\ pc[a] = "label_feedback" /\ UNCHANGED <<jsonl, released, told>>
    BY <1>0, <1>10 DEF LabelFeedback
  <2>1. label' = label /\ label[a] # "pending" /\ Audited(a) /\ ~released[a]
    <3>1. label' = label
      BY <1>10 DEF LabelFeedback, Await, Retry, Raise, Proceed
    <3> QED
      BY <1>0, <2>0, <3>1 DEF Control
  <2>2. pc'[a] \in {"label_feedback", "send_result"} \/ failed'[a]
    BY <1>0, <1>10 DEF LabelFeedback, Await, Retry, Raise, Proceed, Goto
  <2> QED
    BY <2>0, <2>1, <2>2
<1>11. CASE SendResult(a)
  <2>0. /\ pc[a] = "send_result" /\ UNCHANGED <<jsonl, released, labelled>>
    BY <1>0, <1>11 DEF SendResult
  <2>4. pc'[a] \in Ending \cup {"release_mutex", "post_summary"} => failed'[a] \/ told'[a]
    BY <1>0, <1>11, <2>0 DEF SendResult, Happened, Await, Retry, Raise, Proceed, Goto
  <2>1. label' = label /\ label[a] # "pending" /\ Audited(a) /\ ~released[a]
    <3>1. label' = label
      BY <1>11 DEF SendResult, Await, Retry, Raise, Proceed
    <3> QED
      BY <1>0, <2>0, <3>1 DEF Control
  <2>3. Audited(a)' /\ ~released'[a] /\ label'[a] # "pending"
    BY <2>0, <2>1
  <2> QED
    BY <2>3, <2>4
<1>12. CASE PostSummary(a)
  BY <1>0, <1>12 DEF PostSummary, Proceed, Goto, Control
<1>13. CASE DecrPendingGauge(a)
  <2>1. /\ pc[a] = "decr_gauge" /\ pc'[a] \in Ending /\ label'[a] = label[a]
        /\ failed'[a] = failed[a] /\ UNCHANGED <<jsonl, told, labelled>>
    BY <1>0, <1>13 DEF DecrPendingGauge, AwaitQuietly, Retry, Proceed, Goto
  <2> QED
    BY <1>0, <2>1
<1> QED
  BY <1>1, <1>2, <1>3, <1>4, <1>5, <1>6, <1>7, <1>8, <1>9, <1>10, <1>11, <1>12,
     <1>13 DEF ActionOf, Step, Abandons

-----------------------------------------------------------------------------
(* The inductive invariant: it holds at the start ...                      *)
LEMMA InitSafetyInv == Init => SafetyInv
  BY DEF Init, LockInit, SafetyInv, ConductInv, Token, Lease, Holds, Counting, AwaitsPickup,
         IsPickedUp, Control, Authority, Rows, Audited, Audit, BeforeMutex,
         AfterAudit, Ending, NothingRun

(* A step of one workflow: its own part by the lemmas above, the part of   *)
(* every other one because nothing of it changed.                          *)
LEMMA ActionConduct ==
  ASSUME TypeOK, ConductInv, NEW a \in Alerts, ActionOf(a)
  PROVE  ConductInv'
<1> SUFFICES ASSUME NEW b \in Alerts
             PROVE  (Token(b) /\ Control(b) /\ Authority(b) /\ Rows(b) /\ Audit(b))'
  BY DEF ConductInv
<1>1. CASE b = a
  BY <1>1, OwnToken, OwnControl, OwnAuthority, OwnRows, OwnAudit DEF ConductInv
<1>2. CASE b # a
  <2>1. /\ pc'[b] = pc[b] /\ label'[b] = label[b] /\ failed'[b] = failed[b]
        /\ policy'[b] = policy[b] /\ decision'[b] = decision[b] /\ token'[b] = token[b]
        /\ run'[b] = run[b] /\ jsonl'[b] = jsonl[b]
        /\ told'[b] = told[b] /\ labelled'[b] = labelled[b] /\ released'[b] = released[b]
    BY <1>2, ProgressFrame, DataFrame
  <2> QED
    BY <2>1 DEF ConductInv, Token, Control, Authority, AutoExecute, Rows, Audit, Audited
<1> QED
  BY <1>1, <1>2

(* Every step keeps what rests on the order of the activities alone ...    *)
LEMMA NextConduct == TypeOK /\ ConductInv /\ [Next]_vars => ConductInv'
<1> SUFFICES ASSUME TypeOK, ConductInv, [Next]_vars PROVE ConductInv'
  OBVIOUS
<1>1. ASSUME NEW a \in Alerts, ActionOf(a) PROVE ConductInv'
  BY <1>1, ActionConduct
<1>2. CASE UNCHANGED <<wfVars, choices, token, run, outputs>>
  BY <1>2 DEF wfVars, choices, outputs, ConductInv, Token, Control, Authority,
              AutoExecute, Rows, Audit, Audited
<1>3. CASE Tick \/ UNCHANGED vars
  BY <1>2, <1>3 DEF Tick, vars, running
<1> QED
  BY <1>1, <1>3 DEF Next, ActionOf

(* ... the other workflows' leases: no lock they hold changed ...          *)
LEMMA ActionLeases ==
  ASSUME TypeOK, SafetyInv, NEW a \in Alerts, ActionOf(a), NEW b \in Alerts
  PROVE  Lease(b)'
<1>1. CASE b = a
  BY <1>1, OwnLease DEF SafetyInv, ConductInv
<1>2. CASE b # a
  <2>1. /\ pc'[b] = pc[b] /\ token'[b] = token[b] /\ run'[b] = run[b]
        /\ waited'[b] = waited[b] /\ timer'[b] = timer[b]
    BY <1>2, ProgressFrame, DataFrame
  <2>2. Holds(b) => Holds(b)' /\ lock'[HostOf[b]].ttl = lock[HostOf[b]].ttl
    BY <1>2, <2>1, LockFrame DEF SafetyInv, ConductInv, Holds
  <2> QED
    BY <2>1, <2>2 DEF SafetyInv, Lease, Counting, AwaitsPickup, IsPickedUp
<1> QED
  BY <1>1, <1>2

(* ... and those of all in time: what is held loses one tick of life for   *)
(* one tick of one of its clocks, and no timeout is overtaken.             *)
LEMMA TickLeases ==
  ASSUME TypeOK, SafetyInv, Tick, NEW a \in Alerts
  PROVE  Lease(a)'
<1>1. pc' = pc /\ run' = run /\ token' = token
  BY DEF Tick, wfVars
<1>2. /\ HostOf[a] \in Targets /\ lock[HostOf[a]].ttl \in Nat
      /\ waited[a] \in Nat /\ timer[a] \in Nat /\ MutexTTL \in Nat /\ ExecTimeout \in Nat
  BY ConstantsAssumption DEF TypeOK, LockTypeOK, DataTypeOK
<1>3. ~Due(a) /\ Lease(a)
  BY DEF Tick, SafetyInv
<1>4. /\ AwaitsPickup(a)' <=> AwaitsPickup(a)
      /\ IsPickedUp(a)' <=> IsPickedUp(a)
      /\ Counting(a)' <=> Counting(a)
      /\ AwaitsPickup(a) => ~IsPickedUp(a)
  BY <1>1 DEF Counting, AwaitsPickup, IsPickedUp
<1>5. /\ waited'[a] = IF AwaitsPickup(a) /\ waited[a] < MutexTTL THEN waited[a] + 1 ELSE waited[a]
      /\ timer'[a] = IF IsPickedUp(a) THEN timer[a] + 1 ELSE timer[a]
  BY DEF Tick
<1>6. ASSUME Counting(a), waited'[a] + timer'[a] < MutexTTL
      PROVE  Holds(a)' /\ lock'[HostOf[a]].ttl + waited'[a] + timer'[a] >= MutexTTL
  <2>1. waited'[a] + timer'[a] = waited[a] + timer[a] + 1
    BY <1>2, <1>4, <1>5, <1>6 DEF Counting
  <2>2. Holds(a) /\ lock[HostOf[a]].ttl + waited[a] + timer[a] >= MutexTTL
    BY <1>2, <1>3, <1>6, <2>1 DEF Lease
  <2>3. lock[HostOf[a]].ttl > 1
    BY <1>2, <1>6, <2>1, <2>2
  <2>4. /\ lock'[HostOf[a]].token = lock[HostOf[a]].token
        /\ lock'[HostOf[a]].ttl = lock[HostOf[a]].ttl - 1
    BY <1>2, <2>3 DEF Tick, ExpireLocks, TypeOK, LockTypeOK
  <2>5. waited'[a] \in Nat /\ timer'[a] \in Nat
    BY <1>2, <1>5
  <2> QED
    BY <1>1, <1>2, <2>1, <2>2, <2>4, <2>5 DEF Holds
<1>7. AwaitsPickup(a) => timer'[a] = 0
  BY <1>3, <1>4, <1>5 DEF Lease
<1>8. IsPickedUp(a) => timer'[a] <= ExecTimeout
  BY <1>2, <1>3, <1>5 DEF Due
<1>9. ~Counting(a) => waited'[a] = 0 /\ timer'[a] = 0
  BY <1>3, <1>5 DEF Lease, Counting
<1> QED
  BY <1>4, <1>6, <1>7, <1>8, <1>9 DEF Lease

(* Together they keep what the lock promises.                              *)
LEMMA NextSafetyInv ==
  ASSUME TypeOK, SafetyInv, [Next]_vars
  PROVE  SafetyInv'
<1>1. ConductInv'
  BY NextConduct DEF SafetyInv
<1>2. ASSUME NEW b \in Alerts PROVE Lease(b)'
  <2>1. ASSUME NEW a \in Alerts, ActionOf(a) PROVE Lease(b)'
    BY <2>1, ActionLeases
  <2>2. CASE Tick
    BY <2>2, TickLeases
  <2>3. CASE UNCHANGED vars
    BY <2>3 DEF vars, wfVars, running, SafetyInv, Lease, Holds, Counting, AwaitsPickup, IsPickedUp
  <2> QED
    BY <2>1, <2>2, <2>3 DEF Next, ActionOf
<1> QED
  BY <1>1, <1>2 DEF SafetyInv

(* The order of a workflow's activities and the time to live of its lock,  *)
(* with nothing assumed of how long a playbook takes, when a worker comes  *)
(* for it or how the two limits compare.                                   *)
THEOREM SafetyInvariant == Spec => []SafetyInv
<1>1. Init => TypeOK /\ SafetyInv
  BY InitTypeOK, InitSafetyInv
<1>2. TypeOK /\ SafetyInv /\ [Next]_vars => (TypeOK /\ SafetyInv)'
  BY NextTypeOK, NextSafetyInv
<1> QED
  BY <1>1, <1>2, PTL DEF Spec

-----------------------------------------------------------------------------
(* The safety properties.                                                  *)

(* The lock of a host has one token and a token one alert; a protected     *)
(* playbook's lock cannot have run out.                                    *)
LEMMA ProtectedHolds ==
  ASSUME TypeOK, SafetyInv, NEW a \in Alerts, Protected(a)
  PROVE  Holds(a)
<1>1. IsPickedUp(a)
  BY DEF Protected, SafetyInv, ConductInv, Control, IsPickedUp
<1>2. waited[a] \in Nat /\ timer[a] \in Nat /\ ExecTimeout \in Nat /\ MutexTTL \in Nat
  BY ConstantsAssumption DEF TypeOK, DataTypeOK
<1>3. waited[a] + timer[a] < MutexTTL
  BY <1>1, <1>2 DEF Protected, PickedUpLate, SafetyInv, Lease
<1> QED
  BY <1>1, <1>3 DEF SafetyInv, Lease, Counting

LEMMA ProtectedApart ==
  ASSUME TypeOK, SafetyInv, NEW a \in Alerts, NEW b \in Alerts, SameHost(a, b),
         Protected(a), Protected(b)
  PROVE  a = b
<1>1. Holds(a) /\ Holds(b)
  BY ProtectedHolds
<1> QED
  BY <1>1 DEF Holds, SameHost, SafetyInv, ConductInv, Token

(* Two playbooks on one host at once: one was picked up late or given up,  *)
(* for any number of alerts and hosts, any limits and whatever fails.      *)
THEOREM RemediationsAreExclusive == Spec => []ProtectedRunsAreExclusive
<1>1. TypeOK /\ SafetyInv => ProtectedRunsAreExclusive
  BY ProtectedApart DEF ProtectedRunsAreExclusive
<1> QED
  BY <1>1, TypeCorrect, SafetyInvariant, PTL

(* A playbook runs only by the authority of policy or of the first click,  *)
(* however long it and those before it take.                               *)
THEOREM RunsAreAuthorised == Spec => []ExecutionAuthorised
<1>1. SafetyInv => ExecutionAuthorised
  BY DEF SafetyInv, ConductInv, ExecutionAuthorised, Authority
<1> QED
  BY <1>1, SafetyInvariant, PTL

(* The reported outcome is what happened to the host, also when a playbook *)
(* outlives its activity: that is reported as an error.                    *)
THEOREM OutcomesAreTruthful == Spec => []OutcomeTruthful
<1>1. SafetyInv => OutcomeTruthful
  BY DEF SafetyInv, ConductInv, OutcomeTruthful, Control, NothingRun
<1> QED
  BY <1>1, SafetyInvariant, PTL

(* Nothing is announced before it is in the audit log, and the log never   *)
(* contradicts itself, whatever fails and however long it takes.           *)
THEOREM NoticesAreAudited == Spec => []AuditBeforeNotice
<1>1. SafetyInv => AuditBeforeNotice
  BY DEF SafetyInv, ConductInv, AuditBeforeNotice, Audit, Control, Ending
<1> QED
  BY <1>1, SafetyInvariant, PTL

(* A playbook that is left behind is known by the time the alert's slot is *)
(* given back.                                                             *)
THEOREM OverrunsAreReported == Spec => []OverrunsAreKnown
<1>1. SafetyInv /\ TypeOK => OverrunsAreKnown
  BY DEF SafetyInv, ConductInv, OverrunsAreKnown, Control, Audit, Ending
<1> QED
  BY <1>1, SafetyInvariant, TypeCorrect, PTL

-----------------------------------------------------------------------------
(* Locks and their owners.                                                 *)

(* A lock that is set has some of its life left.                           *)
LocksLive == \A h \in Targets : lock[h].token # NoToken => lock[h].ttl > 0

(* What one action does to the lock of one host.                           *)
LEMMA LockEffects ==
  ASSUME TypeOK, NEW a \in Alerts, ActionOf(a), NEW h \in Targets
  PROVE  \/ lock'[h] = lock[h]
         \/ lock[h].token = NoToken /\ lock'[h].ttl = MutexTTL
         \/ /\ pc[a] = "release_mutex" /\ token[a] = lock[h].token
            /\ lock'[h] = Free
<1> USE ConstantsAssumption DEF TypeOK, LockTypeOK
<1>1. CASE TryAcquireMutex(a)
  BY <1>1 DEF TryAcquireMutex, AcquireActionMutex, IsFree
<1>2. CASE ReleaseMutex(a)
  BY <1>2 DEF ReleaseMutex, ReleaseActionMutex
<1>3. CASE ~TryAcquireMutex(a) /\ ~ReleaseMutex(a)
  BY <1>3 DEF ActionOf, Step, AgentDiagnose, EvaluatePolicy, SendCard, ApprovalArrives,
     ApprovalTimeout, PickUp, StartRun, RunbookReturns, RunbookRaises, WorkerStops, GiveUp,
     WriteAudit, LabelFeedback, SendResult, PostSummary, DecrPendingGauge, FinishRun, Approve
<1> QED BY <1>1, <1>2, <1>3

LEMMA LocksLiveStep == TypeOK /\ LocksLive /\ [Next]_vars => LocksLive'
<1> SUFFICES ASSUME TypeOK, LocksLive, [Next]_vars, NEW h \in Targets,
                    lock'[h].token # NoToken
             PROVE  lock'[h].ttl > 0
  BY DEF LocksLive
<1>1. ASSUME NEW a \in Alerts, ActionOf(a) PROVE lock'[h].ttl > 0
  BY <1>1, LockEffects, ConstantsAssumption DEF LocksLive, Free
<1>2. CASE Tick
  BY <1>2 DEF Tick, ExpireLocks, Free, TypeOK, LockTypeOK
<1>3. CASE UNCHANGED vars
  BY <1>3 DEF vars, LocksLive
<1> QED BY <1>1, <1>2, <1>3 DEF Next, ActionOf

(* A lock that is set goes only by expiry or by the release of the         *)
(* workflow whose attempt set it, however late that release is.            *)
THEOREM OwnersRelease == Spec => OnlyOwnerReleases
<1>1. Init => LocksLive
  BY DEF Init, LockInit, Free, LocksLive
<1>2. ASSUME TypeOK, LocksLive, [Next]_vars, NEW h \in Targets,
             lock[h].token # NoToken, lock'[h].token # lock[h].token
      PROVE  \/ lock[h].ttl = 1
             \/ \E a \in Alerts : pc[a] = "release_mutex" /\ token[a] = lock[h].token
  <2>1. ASSUME NEW a \in Alerts, ActionOf(a)
        PROVE  pc[a] = "release_mutex" /\ token[a] = lock[h].token
    BY <1>2, <2>1, LockEffects
  <2>2. CASE Tick
    BY <1>2, <2>2 DEF Tick, ExpireLocks, LocksLive, TypeOK, LockTypeOK
  <2>3. CASE UNCHANGED vars
    BY <1>2, <2>3 DEF vars
  <2> QED BY <1>2, <2>1, <2>2, <2>3 DEF Next, ActionOf
<1>3. TypeOK /\ LocksLive /\ [Next]_vars =>
        [\A h \in Targets :
           lock[h].token # NoToken /\ lock'[h].token # lock[h].token =>
             \/ lock[h].ttl = 1
             \/ \E a \in Alerts : pc[a] = "release_mutex" /\ token[a] = lock[h].token]_vars
  BY <1>2
<1> QED
  BY <1>1, <1>3, InitTypeOK, NextTypeOK, LocksLiveStep, PTL DEF Spec, OnlyOwnerReleases

-----------------------------------------------------------------------------
(* The contract.                                                           *)

(* Nobody can decide before there is a card, and a card with buttons is    *)
(* for a run that policy does not let go by itself; whoever leaves it      *)
(* undecided has settled on nothing, or timed out.                         *)
Carded(a) ==
  /\ pc[a] \in {"agent_diagnose", "evaluate_policy"} => policy[a] = "none" /\ card[a] = "none"
  /\ pc[a] = "wait_approval" => ~AutoExecute(a)
  /\ card[a] = "none" => decision[a] = "none"
  /\ card[a] # "none" => (card[a] = "buttons" <=> ~AutoExecute(a))
  /\ card[a] = "buttons" /\ decision[a] = "none" => label[a] \in {"pending", "timeout"}

LEMMA OwnCarded ==
  ASSUME TypeOK, NEW a \in Alerts, ActionOf(a), Control(a), Authority(a), Carded(a)
  PROVE  Carded(a)'
<1> USE DEF TypeOK, ProgressTypeOK, ResultTypeOK, DataTypeOK, choices, running, outputs,
            Authority, AutoExecute, Control, Carded, BeforeMutex
<1>1. CASE AgentDiagnose(a)
  BY <1>1 DEF AgentDiagnose, ResolveRunbook, Retry, Proceed, Goto, Settle
<1>2. CASE EvaluatePolicy(a)
  BY <1>2 DEF EvaluatePolicy, Retry, Raise, Goto, Settle
<1>3. CASE SendCard(a)
  BY <1>3 DEF SendCard, CardFor, Await, Retry, Raise, Proceed, Goto
<1>4. CASE ApprovalArrives(a) \/ ApprovalTimeout(a)
  BY <1>4 DEF ApprovalArrives, ApprovalTimeout, Proceed, Goto, Settle
<1>5. CASE TryAcquireMutex(a)
  BY <1>5 DEF TryAcquireMutex, Retry, Raise, Proceed, Goto, Settle
<1>6. CASE PickUp(a) \/ StartRun(a) \/ FinishRun(a)
  BY <1>6 DEF PickUp, StartRun, FinishRun, wfVars
<1>7. CASE RunbookReturns(a) \/ Abandons(a)
  BY <1>7, AbandonsIs DEF RunbookReturns, GiveUp, Proceed, Goto, Settle
<1>8. CASE ReleaseMutex(a)
  BY <1>8 DEF ReleaseMutex, Retry, Raise, Proceed, Goto, Settle
<1>9. CASE WriteAudit(a)
  BY <1>9 DEF WriteAudit, Await, Retry, Raise, Proceed, Goto
<1>10. CASE LabelFeedback(a)
  BY <1>10 DEF LabelFeedback, Await, Retry, Raise, Proceed, Goto
<1>11. CASE SendResult(a)
  BY <1>11 DEF SendResult, Await, Retry, Raise, Proceed, Goto
<1>12. CASE PostSummary(a)
  BY <1>12 DEF PostSummary, Proceed, Goto
<1>13. CASE DecrPendingGauge(a)
  BY <1>13 DEF DecrPendingGauge, AwaitQuietly, Retry, Proceed, Goto
<1>14. CASE \E click \in Clicks : Approve(a, click)
  BY <1>14 DEF Approve, wfVars
<1> QED
  BY <1>1, <1>2, <1>3, <1>4, <1>5, <1>6, <1>7, <1>8, <1>9, <1>10, <1>11, <1>12,
     <1>13, <1>14 DEF ActionOf, Step, Abandons

(* A card is shown and clicked by its own workflow's actions only.         *)
LEMMA CardFrame ==
  ASSUME TypeOK, NEW a \in Alerts, NEW b \in Alerts, b # a, ActionOf(a)
  PROVE  card'[b] = card[b]
<1>1. card' = card \/ \E c : card' = [card EXCEPT ![a] = c]
  BY DEF ActionOf, Step, AgentDiagnose, EvaluatePolicy, SendCard, ApprovalArrives,
     ApprovalTimeout, TryAcquireMutex, PickUp, StartRun, RunbookReturns, RunbookRaises,
     WorkerStops, GiveUp, ReleaseMutex, WriteAudit, LabelFeedback, SendResult, PostSummary,
     DecrPendingGauge, FinishRun, Approve, outputs
<1> QED BY <1>1 DEF TypeOK, DataTypeOK

CardInv == TypeOK /\ SafetyInv /\ \A a \in Alerts : Carded(a)

LEMMA CardStep ==
  ASSUME CardInv, [Next]_vars
  PROVE  CardInv'
<1>1. TypeOK' /\ SafetyInv'
  BY NextTypeOK, NextSafetyInv DEF CardInv
<1>2. ASSUME NEW a \in Alerts, ActionOf(a), NEW b \in Alerts PROVE Carded(b)'
  <2>1. CASE b = a
    BY <1>2, <2>1, OwnCarded DEF CardInv, SafetyInv, ConductInv
  <2>2. CASE b # a
    <3>1. /\ pc'[b] = pc[b] /\ label'[b] = label[b] /\ policy'[b] = policy[b]
          /\ decision'[b] = decision[b] /\ card'[b] = card[b]
      BY <1>2, <2>2, ProgressFrame, DataFrame, CardFrame DEF CardInv
    <3> QED BY <3>1 DEF CardInv, Carded, AutoExecute
  <2> QED BY <2>1, <2>2
<1>3. CASE UNCHANGED <<wfVars, choices, outputs>>
  BY <1>1, <1>3 DEF CardInv, Carded, AutoExecute, wfVars, choices, outputs
<1>4. CASE Tick \/ UNCHANGED vars
  BY <1>3, <1>4 DEF Tick, vars
<1> QED BY <1>1, <1>2, <1>4 DEF Next, ActionOf, CardInv

(* The four values of phaseBar, and who is in lateBar.                     *)
NotBegun(a) == run[a] \notin {"running", "done"}
MayBegin(a) == (AutoExecute(a) \/ decision[a] = "approve") /\ label[a] # "timeout"

LEMMA BarIs ==
  ASSUME NEW a \in Alerts
  PROVE  /\ run[a] = "running" => phaseBar[a] = "acting"
         /\ run[a] = "done" => phaseBar[a] = "acted"
         /\ NotBegun(a) /\ MayBegin(a) => phaseBar[a] = "authorised"
         /\ NotBegun(a) /\ ~MayBegin(a) => phaseBar[a] = "open"
         /\ phaseBar[a] = "acting" => run[a] = "running"
         /\ a \in lateBar <=> run[a] = "running" /\ label[a] = "pending" /\ PickedUpLate(a)
  BY DEF phaseBar, lateBar, NotBegun, MayBegin

LEMMA BarIsNext ==
  ASSUME NEW a \in Alerts
  PROVE  /\ run'[a] = "running" => phaseBar'[a] = "acting"
         /\ run'[a] = "done" => phaseBar'[a] = "acted"
         /\ NotBegun(a)' /\ MayBegin(a)' => phaseBar'[a] = "authorised"
         /\ NotBegun(a)' /\ ~MayBegin(a)' => phaseBar'[a] = "open"
         /\ a \in lateBar' <=> run'[a] = "running" /\ label'[a] = "pending" /\ PickedUpLate(a)'
  BY DEF phaseBar, lateBar, NotBegun, MayBegin

(* What a step may do to the phase, the verdict and the lateness of its    *)
(* own alert.                                                              *)
SameLate(a) == a \in lateBar' <=> a \in lateBar
Stutters(a) == phaseBar'[a] = phaseBar[a] /\ label'[a] = label[a] /\ SameLate(a)
Moves(a, p, q) == phaseBar[a] = p /\ phaseBar'[a] = q /\ label'[a] = label[a]
Begins(a) ==
  /\ Moves(a, "authorised", "acting")
  /\ run'[a] = "running" /\ a \notin lateBar
  /\ label[a] = "pending" \/ (label[a] = "error" /\ a \notin lateBar')
Decides(a, p, verdicts) ==
  /\ phaseBar[a] = p /\ phaseBar'[a] = p /\ label[a] = "pending" /\ label'[a] \in verdicts
  /\ a \notin lateBar'

OwnMoves(a) ==
  \/ Stutters(a)
  \/ Moves(a, "open", "authorised") /\ label[a] = "pending" /\ SameLate(a)
  \/ Begins(a)
  \/ Moves(a, "acting", "acted") /\ a \notin lateBar'
  \/ Decides(a, "open", {"unsupported", "denied", "timeout", "rejected"})
  \/ Decides(a, "authorised", {"skipped_mutex", "error"})
  \/ Decides(a, "acting", {"error"})
  \/ Decides(a, "acted", {"approved", "auto_approved", "error"})

(* A step that leaves alone what the phase is made of.                     *)
LEMMA SameBar ==
  ASSUME NEW a \in Alerts, UNCHANGED <<run, policy, decision>>,
         label'[a] = label[a] \/ (label[a] # "timeout" /\ label'[a] # "timeout")
  PROVE  phaseBar'[a] = phaseBar[a]
  BY DEF phaseBar, AutoExecute

LEMMA StepMoves ==
  ASSUME CardInv, NEW a \in Alerts, ActionOf(a)
  PROVE  OwnMoves(a)
<1>1. TypeOK /\ Carded(a) /\ Control(a) /\ Authority(a)
  BY DEF CardInv, SafetyInv, ConductInv
<1>2. label \in [Alerts -> Labels \cup {"pending"}] /\ run[a] \in {"idle", "queued", "running", "done"}
  BY <1>1 DEF TypeOK, ResultTypeOK, DataTypeOK
<1>3. ASSUME UNCHANGED <<run, policy, decision, waited>>, label'[a] = label[a]
      PROVE  OwnMoves(a)
  BY <1>3, SameBar, BarIs, BarIsNext DEF OwnMoves, Stutters, SameLate, PickedUpLate
<1>17. label'[a] # "pending" => a \notin lateBar'
  BY BarIsNext
<1>4. CASE AgentDiagnose(a)
  <2>1. UNCHANGED <<run, policy, decision, waited>> /\ pc[a] = "agent_diagnose"
    BY <1>4 DEF AgentDiagnose, choices, running
  <2>2. CASE label'[a] # label[a]
    <3>1. label[a] = "pending" /\ label'[a] = "unsupported"
      BY <1>1, <1>2, <1>4, <2>2
      DEF AgentDiagnose, ResolveRunbook, Retry, Proceed, Settle, Control, BeforeMutex
    <3>2. phaseBar[a] = "open"
      BY <1>1, <2>1, BarIs DEF Carded, Control, BeforeMutex, AutoExecute, NotBegun, MayBegin
    <3> QED BY <1>17, <2>1, <3>1, <3>2, SameBar DEF OwnMoves, Decides
  <2> QED BY <1>3, <2>1, <2>2
<1>5. CASE EvaluatePolicy(a)
  <2>1. /\ UNCHANGED <<run, decision, waited>> /\ pc[a] = "evaluate_policy"
        /\ label[a] = "pending" /\ run[a] = "idle" /\ decision[a] = "none" /\ policy[a] = "none"
    BY <1>1, <1>5 DEF EvaluatePolicy, running, Carded, Control, BeforeMutex
  <2>2. phaseBar[a] = "open" /\ SameLate(a)
    BY <2>1, BarIs, BarIsNext DEF AutoExecute, NotBegun, MayBegin, SameLate
  <2>3. label'[a] = "pending" \/ (label'[a] = "denied" /\ policy'[a] = "deny")
    BY <1>1, <1>2, <1>5, <2>1 DEF EvaluatePolicy, Retry, Raise, Settle, TypeOK, DataTypeOK
  <2>4. CASE label'[a] = "denied" /\ policy'[a] = "deny"
    <3>1. phaseBar'[a] = "open"
      BY <2>1, <2>4, BarIsNext DEF AutoExecute, NotBegun, MayBegin
    <3> QED BY <1>17, <2>1, <2>2, <2>4, <3>1 DEF OwnMoves, Decides
  <2>5. CASE label'[a] = "pending"
    <3>1. phaseBar'[a] \in {"open", "authorised"}
      BY <2>1, <2>5, BarIsNext DEF NotBegun, MayBegin
    <3> QED BY <2>1, <2>2, <2>5, <3>1 DEF OwnMoves, Stutters, Moves
  <2> QED BY <2>3, <2>4, <2>5
<1>6. CASE ApprovalArrives(a) \/ ApprovalTimeout(a)
  <2>1. /\ UNCHANGED <<run, policy, decision, waited>> /\ pc[a] = "wait_approval"
        /\ label[a] = "pending" /\ run[a] = "idle" /\ ~AutoExecute(a)
    BY <1>1, <1>6
    DEF ApprovalArrives, ApprovalTimeout, choices, running, Carded, Control, BeforeMutex
  <2>2. CASE label'[a] # label[a]
    <3>1. label'[a] \in {"rejected", "timeout"} /\ decision[a] # "approve"
      BY <1>2, <1>6, <2>2 DEF ApprovalArrives, ApprovalTimeout, Proceed, Settle
    <3>2. phaseBar[a] = "open"
      BY <2>1, <3>1, BarIs DEF NotBegun, MayBegin
    <3>3. phaseBar'[a] = "open"
      BY <2>1, <3>1, BarIsNext DEF AutoExecute, NotBegun, MayBegin
    <3> QED BY <1>17, <2>1, <3>1, <3>2, <3>3 DEF OwnMoves, Decides
  <2> QED BY <1>3, <2>1, <2>2
<1>7. CASE TryAcquireMutex(a)
  <2>1. UNCHANGED <<run, policy, decision, waited>> /\ pc[a] = "try_acquire_mutex"
    BY <1>7 DEF TryAcquireMutex, choices, running
  <2>2. CASE label'[a] # label[a]
    <3>1. label[a] = "pending" /\ label'[a] = "skipped_mutex" /\ run[a] = "idle"
      BY <1>1, <1>2, <1>7, <2>1, <2>2
      DEF TryAcquireMutex, Retry, Raise, Proceed, Settle, Control, BeforeMutex
    <3>2. phaseBar[a] = "authorised"
      BY <1>1, <2>1, <3>1, BarIs DEF Authority, NotBegun, MayBegin
    <3> QED BY <1>17, <2>1, <3>1, <3>2, SameBar DEF OwnMoves, Decides
  <2> QED BY <1>3, <2>1, <2>2
<1>18. CASE PickUp(a)
  <2>1. /\ UNCHANGED <<policy, decision, label>>
        /\ run[a] = "idle" /\ run'[a] = "queued" /\ label[a] = "pending"
    BY <1>1, <1>18 DEF PickUp, wfVars, choices, Control, TypeOK, DataTypeOK
  <2>2. phaseBar[a] = "authorised" /\ phaseBar'[a] = "authorised"
    BY <1>1, <1>18, <2>1, BarIs, BarIsNext DEF PickUp, Authority, AutoExecute, NotBegun, MayBegin
  <2>3. SameLate(a)
    BY <2>1, BarIs, BarIsNext DEF SameLate
  <2> QED BY <2>1, <2>2, <2>3 DEF OwnMoves, Stutters
<1>8. CASE StartRun(a)
  <2>1. /\ run[a] = "queued" /\ run'[a] = "running" /\ label' = label
        /\ label[a] \in {"pending", "error"}
    BY <1>1, <1>8 DEF StartRun, wfVars, Control, TypeOK, DataTypeOK
  <2>2. phaseBar[a] = "authorised" /\ phaseBar'[a] = "acting"
    BY <1>1, <2>1, BarIs, BarIsNext DEF Authority, NotBegun, MayBegin
  <2>3. a \notin lateBar /\ (label[a] = "error" => a \notin lateBar')
    BY <2>1, BarIs, BarIsNext
  <2> QED BY <2>1, <2>2, <2>3 DEF OwnMoves, Begins, Moves
<1>9. CASE FinishRun(a)
  <2>1. run[a] = "running" /\ run'[a] = "done" /\ label' = label
    BY <1>1, <1>9 DEF FinishRun, wfVars, TypeOK, DataTypeOK
  <2>2. phaseBar[a] = "acting" /\ phaseBar'[a] = "acted" /\ a \notin lateBar'
    BY <2>1, BarIs, BarIsNext
  <2> QED BY <2>1, <2>2 DEF OwnMoves, Moves
<1>10. CASE RunbookReturns(a)
  BY <1>3, <1>10 DEF RunbookReturns, Proceed, choices, running
<1>11. CASE Abandons(a)
  <2>1. /\ UNCHANGED <<policy, decision>> /\ pc[a] = "execute_runbook"
        /\ label[a] = "pending" /\ label'[a] = "error"
    BY <1>1, <1>2, <1>11, AbandonsIs DEF GiveUp, choices, Settle, Control
  <2>2. run'[a] = run[a] \/ (run[a] = "queued" /\ run'[a] = "idle")
    BY <1>1, <1>11, AbandonedRun
  <2>3. MayBegin(a) /\ MayBegin(a)'
    BY <1>1, <2>1 DEF Authority, MayBegin, AutoExecute
  <2>4. phaseBar[a] \in {"authorised", "acting", "acted"} /\ phaseBar'[a] = phaseBar[a]
    BY <1>2, <2>2, <2>3, BarIs, BarIsNext DEF NotBegun
  <2> QED BY <1>17, <2>1, <2>4 DEF OwnMoves, Decides
<1>12. CASE ReleaseMutex(a)
  <2>1. UNCHANGED <<run, policy, decision, waited>> /\ pc[a] = "release_mutex"
    BY <1>12 DEF ReleaseMutex, choices, running
  <2>2. CASE label'[a] # label[a]
    <3>1. /\ label[a] = "pending" /\ label'[a] \in {"approved", "auto_approved"}
          /\ run[a] = "done"
      BY <1>1, <1>2, <1>12, <2>1, <2>2 DEF ReleaseMutex, Retry, Raise, Proceed, Settle, Control
    <3>2. phaseBar[a] = "acted" /\ phaseBar'[a] = "acted"
      BY <2>1, <3>1, BarIs, BarIsNext
    <3> QED BY <1>17, <3>1, <3>2 DEF OwnMoves, Decides
  <2> QED BY <1>3, <2>1, <2>2
<1>13. CASE SendCard(a) \/ WriteAudit(a) \/ LabelFeedback(a) \/ SendResult(a)
  BY <1>3, <1>13
  DEF SendCard, WriteAudit, LabelFeedback, SendResult, Await, Retry, Raise, Proceed,
      choices, running
<1>14. CASE PostSummary(a) \/ DecrPendingGauge(a)
  BY <1>3, <1>14
  DEF PostSummary, DecrPendingGauge, AwaitQuietly, Retry, Proceed, choices, running
<1>15. CASE \E click \in Clicks : Approve(a, click)
  <2>1. /\ UNCHANGED <<run, waited, policy, label>>
        /\ decision[a] = "none" /\ card[a] = "buttons"
    BY <1>15 DEF Approve, wfVars, running
  <2>2. run[a] = "idle" /\ ~AutoExecute(a) /\ label[a] \in {"pending", "timeout"}
    BY <1>1, <1>2, <2>1 DEF Carded, Authority
  <2>3. phaseBar[a] = "open" /\ SameLate(a)
    BY <2>1, <2>2, BarIs, BarIsNext DEF NotBegun, MayBegin, SameLate
  <2>4. phaseBar'[a] = "open" \/ (phaseBar'[a] = "authorised" /\ label[a] # "timeout")
    BY <2>1, <2>2, BarIsNext DEF NotBegun, MayBegin
  <2> QED BY <2>1, <2>2, <2>3, <2>4 DEF OwnMoves, Stutters, Moves
<1> QED
  BY <1>4, <1>5, <1>6, <1>7, <1>8, <1>9, <1>10, <1>11, <1>12, <1>13, <1>14, <1>15, <1>18
  DEF ActionOf, Step, Abandons

LEMMA ContractStep ==
  ASSUME CardInv, TypeOK', ProtectedRunsAreExclusive', [Next]_vars
  PROVE  [Contract!Next]_<<phaseBar, label, lateBar>>
<1>1. ASSUME NEW a \in Alerts, ActionOf(a)
      PROVE  Contract!Next \/ UNCHANGED <<phaseBar, label, lateBar>>
  <2>1. OwnMoves(a)
    BY <1>1, StepMoves
  <2>2. \A b \in Alerts : b # a =>
          /\ phaseBar'[b] = phaseBar[b] /\ label'[b] = label[b]
          /\ b \in lateBar' <=> b \in lateBar
    <3> SUFFICES ASSUME NEW b \in Alerts, b # a
                 PROVE  /\ phaseBar'[b] = phaseBar[b] /\ label'[b] = label[b]
                        /\ b \in lateBar' <=> b \in lateBar
      OBVIOUS
    <3>1. /\ label'[b] = label[b] /\ run'[b] = run[b] /\ waited'[b] = waited[b]
          /\ policy'[b] = policy[b] /\ decision'[b] = decision[b]
      BY <1>1, ProgressFrame, DataFrame DEF CardInv
    <3> QED BY <3>1, BarIs, BarIsNext DEF phaseBar, AutoExecute, PickedUpLate
  <2>3. /\ phaseBar = [b \in Alerts |-> phaseBar[b]] /\ phaseBar' = [b \in Alerts |-> phaseBar'[b]]
        /\ label = [b \in Alerts |-> label[b]] /\ label' = [b \in Alerts |-> label'[b]]
    BY DEF phaseBar, CardInv, TypeOK, ResultTypeOK
  <2>4. /\ phaseBar' = [phaseBar EXCEPT ![a] = phaseBar'[a]]
        /\ label' = [label EXCEPT ![a] = label'[a]]
    BY <2>2, <2>3
  <2>5. lateBar \subseteq Alerts /\ lateBar' \subseteq Alerts
    BY DEF lateBar
  <2>6. /\ a \notin lateBar' => lateBar' = lateBar \ {a}
        /\ a \in lateBar' => lateBar' = lateBar \cup {a}
        /\ SameLate(a) => lateBar' = lateBar
    BY <2>2, <2>5 DEF SameLate
  <2>7. ASSUME label'[a] = label[a] PROVE UNCHANGED label
    BY <2>2, <2>3, <2>7
  <2>8. ASSUME phaseBar'[a] = phaseBar[a] PROVE UNCHANGED phaseBar
    BY <2>2, <2>3, <2>8
  <2>9. CASE Stutters(a)
    BY <2>6, <2>7, <2>8, <2>9 DEF Stutters
  <2>10. CASE Moves(a, "open", "authorised") /\ label[a] = "pending" /\ SameLate(a)
    <3>1. Contract!Authorise(a)
      BY <2>4, <2>6, <2>7, <2>10 DEF Moves, Contract!Authorise
    <3> QED BY <3>1 DEF Contract!Next
  <2>11. CASE Begins(a)
    <3>1. phaseBar[a] = "authorised" /\ phaseBar' = [phaseBar EXCEPT ![a] = "acting"] /\ UNCHANGED label
      BY <2>4, <2>7, <2>11 DEF Begins, Moves
    <3>2. CASE a \in lateBar'
      <4>1. label[a] = "pending" /\ lateBar' = lateBar \cup {a}
        BY <2>6, <2>11, <3>2 DEF Begins
      <4> QED BY <3>1, <4>1 DEF Contract!Begin, Contract!Next
    <3>3. CASE a \notin lateBar' /\ label[a] = "error"
      <4>1. lateBar' = lateBar
        BY <2>6, <2>11, <3>3 DEF Begins, SameLate
      <4> QED BY <3>1, <3>3, <4>1 DEF Contract!Begin, Contract!Next
    <3>4. CASE a \notin lateBar' /\ label[a] = "pending"
      <4>1. lateBar' = lateBar
        BY <2>6, <2>11, <3>4 DEF Begins, SameLate
      <4>2. Protected(a)'
        BY <2>11, <3>1, <3>4, BarIsNext DEF Begins, Moves, Protected
      <4>3. ASSUME NEW b \in Alerts, HostOf[b] = HostOf[a], Contract!Exclusive(b) PROVE FALSE
        <5>1. run[b] = "running" /\ label[b] = "pending" /\ ~PickedUpLate(b) /\ b # a
          BY <3>1, <4>3, BarIs DEF Contract!Exclusive
        <5>2. Protected(b)'
          <6>1. label'[b] = label[b] /\ run'[b] = run[b] /\ waited'[b] = waited[b]
            BY <1>1, <5>1, ProgressFrame, DataFrame DEF CardInv
          <6> QED BY <5>1, <6>1 DEF Protected, PickedUpLate
        <5> QED BY <4>2, <4>3, <5>1, <5>2 DEF ProtectedRunsAreExclusive, SameHost
      <4>4. Contract!HostIsFree(HostOf[a])
        BY <4>3 DEF Contract!HostIsFree
      <4> QED BY <3>1, <3>4, <4>1, <4>4 DEF Contract!Begin, Contract!Next
    <3> QED BY <2>11, <3>2, <3>3, <3>4 DEF Begins
  <2>12. CASE Moves(a, "acting", "acted") /\ a \notin lateBar'
    <3>1. Contract!End(a)
      BY <2>4, <2>6, <2>7, <2>12 DEF Moves, Contract!End
    <3> QED BY <3>1 DEF Contract!Next
  <2>13. ASSUME NEW p, NEW V, Decides(a, p, V), V \subseteq Contract!Verdicts(p)
         PROVE  Contract!Next
    <3>1. Contract!Report(a)
      BY <2>4, <2>6, <2>8, <2>13 DEF Decides, Contract!Report
    <3> QED BY <3>1 DEF Contract!Next
  <2>14. /\ {"unsupported", "denied", "timeout", "rejected"} \subseteq Contract!Verdicts("open")
         /\ {"skipped_mutex", "error"} \subseteq Contract!Verdicts("authorised")
         /\ {"error"} \subseteq Contract!Verdicts("acting")
         /\ {"approved", "auto_approved", "error"} \subseteq Contract!Verdicts("acted")
    BY DEF Contract!Verdicts
  <2> QED BY <2>1, <2>9, <2>10, <2>11, <2>12, <2>13, <2>14 DEF OwnMoves
<1>2. CASE UNCHANGED <<run, policy, decision, label>>
           /\ \A a \in Alerts : run[a] = "running" => waited'[a] = waited[a]
  <2>1. UNCHANGED <<phaseBar, label>>
    BY <1>2 DEF phaseBar, AutoExecute
  <2>2. UNCHANGED lateBar
    BY <1>2 DEF lateBar, PickedUpLate
  <2> QED BY <2>1, <2>2
<1>3. CASE Tick
  <2>1. UNCHANGED <<run, policy, decision, label>>
    BY <1>3 DEF Tick, wfVars, choices
  <2>2. \A a \in Alerts : run[a] = "running" => waited'[a] = waited[a]
    BY <1>3 DEF Tick, AwaitsPickup
  <2> QED BY <1>2, <2>1, <2>2
<1>4. CASE UNCHANGED vars
  BY <1>2, <1>4 DEF vars, wfVars, choices, running
<1> QED BY <1>1, <1>3, <1>4 DEF Next, ActionOf

(* What the workflows do to the hosts and say of it is what the contract   *)
(* allows, for any number of alerts and hosts and any limits: authorised   *)
(* and begun once, alone on the host unless late or given up, one true     *)
(* verdict.                                                                *)
THEOREM WorkflowMeetsContract == Spec => ImplementsContract
<1>1. Init => CardInv
  BY InitTypeOK, InitSafetyInv DEF Init, CardInv, Carded
<1>2. CardInv /\ [Next]_vars => CardInv'
  BY CardStep
<1>3. Init => Contract!Init
  <2> SUFFICES ASSUME Init PROVE Contract!Init
    OBVIOUS
  <2>1. phaseBar = [a \in Alerts |-> "open"] /\ lateBar = {}
    BY DEF Init, phaseBar, lateBar, AutoExecute
  <2> QED BY <2>1 DEF Init, Contract!Init
<1>4. CardInv => TypeOK /\ ProtectedRunsAreExclusive
  BY ProtectedApart DEF CardInv, ProtectedRunsAreExclusive
<1>5. CardInv /\ TypeOK' /\ ProtectedRunsAreExclusive' /\ [Next]_vars
        => [Contract!Next]_<<phaseBar, label, lateBar>>
  BY ContractStep
<1> QED
  BY <1>1, <1>2, <1>3, <1>4, <1>5, PTL DEF Spec, ImplementsContract, Contract!Spec, Contract!vars
=============================================================================
