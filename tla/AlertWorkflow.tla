---------------------------- MODULE AlertWorkflow ----------------------------
(***************************************************************************)
(* The Temporal workflow of src/workflows/alert_workflow.py, one instance  *)
(* per alert, with the activities it calls and the per-host Action Mutex   *)
(* the instances share.                                                    *)
(*                                                                         *)
(* A stage (a value of pc) is the activity the workflow is awaiting.  One  *)
(* attempt of an activity ends in one of three ways: "ok"; "lost", its     *)
(* effect happened but Temporal never got the reply (start_to_close        *)
(* timeout, worker restart); "failed", no effect and an exception.         *)
(* Temporal repeats an attempt that is not "ok" up to maximum_attempts and *)
(* then raises ActivityError in the workflow.                              *)
(*                                                                         *)
(* Data that no property reads (the runbook and its parameters, message    *)
(* texts, the incident summary) is left out; where such data picks a       *)
(* branch, the branch is a nondeterministic choice.                        *)
(***************************************************************************)
EXTENDS ActionMutex, Sequences

CONSTANTS
  Alerts,          \* alerts whose workflow has been started
  HostOf,          \* HostOf[a]: host_ip of alert a, the mutex target
  MutexTTL,        \* ticks before the lock expires          (code: 900 s)
  ExecTimeout,     \* start_to_close of execute_runbook      (code: 600 s)
  NotifyAttempts,  \* _NOTIFY_RETRY.maximum_attempts         (code: 5)
  MutexAttempts,   \* attempts of the mutex, agent and gauge activities (code: 2)
  AiopsMode        \* settings.aiops_mode: "shadow" or "live"

ASSUME ConstantsAssumption ==
  /\ HostOf \in [Alerts -> Targets]
  /\ MutexTTL \in Nat \ {0} /\ ExecTimeout \in Nat \ {0}
  /\ NotifyAttempts \in Nat \ {0} /\ MutexAttempts \in Nat \ {0}
  /\ AiopsMode \in {"shadow", "live"}

(* secrets.token_urlsafe: every attempt of try_acquire_mutex draws a fresh *)
(* token, so the pair <<alert, attempt>> names it.                         *)
Tokens == Alerts \X (1..MutexAttempts)

ASSUME TokenAssumption == NoToken \notin Tokens

VARIABLES
  pc,        \* pc[a]: the activity the workflow of a awaits
  attempt,   \* attempt[a]: which attempt of it is under way
  label,     \* label[a]: the decision string the workflow has settled on
  failed,    \* failed[a]: an ActivityError is propagating out of _run_inner
  policy,    \* policy[a]: policy_decision
  decision,  \* decision[a]: what approve() stored; "none" = not received
  token,     \* token[a]: mutex_token
  card,      \* card[a]: the Feishu card on screen and whether it has buttons
  run,       \* run[a]: the playbook of execute_runbook, in a worker's thread
  waited,    \* waited[a]: ticks execute_runbook waited for a worker, with the lock set
  timer,     \* timer[a]: ticks since a worker picked it up
  jsonl,     \* jsonl[a]: decisions of the audit rows written for a
  told,      \* told[a]: a result message reached the Feishu group
  labelled,  \* labelled[a]: a feedback label was attached
  released   \* released[a]: a decremented the pending-workflow gauge, once or twice

wfVars  == <<pc, attempt, label, failed>>
choices == <<policy, decision>>
running == <<run, waited, timer>>
outputs == <<card, jsonl, told, labelled, released>>
vars    == <<lock, wfVars, choices, token, running, outputs>>

Stages == {"agent_diagnose", "evaluate_policy", "send_card", "wait_approval",
           "try_acquire_mutex", "execute_runbook", "release_mutex",
           "write_audit", "label_feedback", "send_result", "post_summary",
           "decr_gauge", "closed"}

Labels == {"unsupported", "denied", "timeout", "rejected", "skipped_mutex",
           "error", "approved", "auto_approved"}

Clicks   == {"approve", "reject", "reject_with_reason"}
Outcomes == {"ok", "lost", "failed"}
Happened(o) == o \in {"ok", "lost"}

(* A mutex attempt's number is part of its token, so it matters that it    *)
(* stays within the retry policy of try_acquire_mutex.                     *)
ProgressTypeOK ==
  /\ pc \in [Alerts -> Stages]
  /\ attempt \in [Alerts -> 1..(NotifyAttempts + MutexAttempts)]
  /\ \A a \in Alerts : pc[a] = "try_acquire_mutex" => attempt[a] <= MutexAttempts

ResultTypeOK ==
  /\ label \in [Alerts -> Labels \cup {"pending"}]
  /\ failed \in [Alerts -> BOOLEAN]

DataTypeOK ==
  /\ policy \in [Alerts -> {"none", "deny", "approval_required", "allow"}]
  /\ decision \in [Alerts -> Clicks \cup {"none"}]
  /\ token \in [Alerts -> Tokens \cup {NoToken}]
  /\ card \in [Alerts -> {"none", "buttons", "silent"}]
  /\ run \in [Alerts -> {"idle", "queued", "running", "done"}]
  /\ waited \in [Alerts -> Nat]
  /\ timer \in [Alerts -> Nat]
  /\ jsonl \in [Alerts -> Seq(Labels \cup {"pending"})]
  /\ told \in [Alerts -> BOOLEAN]
  /\ labelled \in [Alerts -> BOOLEAN]
  /\ released \in [Alerts -> BOOLEAN]

TypeOK == LockTypeOK(Tokens) /\ ProgressTypeOK /\ ResultTypeOK /\ DataTypeOK

Init ==
  /\ LockInit
  /\ pc = [a \in Alerts |-> "agent_diagnose"]
  /\ attempt = [a \in Alerts |-> 1]
  /\ label = [a \in Alerts |-> "pending"]
  /\ failed = [a \in Alerts |-> FALSE]
  /\ policy = [a \in Alerts |-> "none"]
  /\ decision = [a \in Alerts |-> "none"]
  /\ token = [a \in Alerts |-> NoToken]
  /\ card = [a \in Alerts |-> "none"]
  /\ run = [a \in Alerts |-> "idle"]
  /\ waited = [a \in Alerts |-> 0]
  /\ timer = [a \in Alerts |-> 0]
  /\ jsonl = [a \in Alerts |-> << >>]
  /\ told = [a \in Alerts |-> FALSE]
  /\ labelled = [a \in Alerts |-> FALSE]
  /\ released = [a \in Alerts |-> FALSE]

-----------------------------------------------------------------------------
(* How the workflow moves between activities.                              *)

Goto(a, stage) ==
  /\ pc' = [pc EXCEPT ![a] = stage]
  /\ attempt' = [attempt EXCEPT ![a] = 1]

Settle(a, l) == label' = [label EXCEPT ![a] = l]

(* The next activity starts: nothing else of the workflow's state changes. *)
Proceed(a, stage) == Goto(a, stage) /\ UNCHANGED <<label, failed>>

Retry(a, limit) ==
  /\ attempt[a] < limit
  /\ attempt' = [attempt EXCEPT ![a] = @ + 1]
  /\ UNCHANGED <<pc, label, failed>>

(* The attempts are used up and ActivityError propagates.  Inside the try  *)
(* of the runbook (label "error") the finally clause releases the mutex    *)
(* first; everywhere else only run()'s finally clause is left.             *)
Raise(a, limit) ==
  /\ attempt[a] >= limit
  /\ failed' = [failed EXCEPT ![a] = TRUE]
  /\ Goto(a, IF label[a] = "error" /\ pc[a] # "release_mutex"
             THEN "release_mutex" ELSE "decr_gauge")
  /\ UNCHANGED label

(* Mutant: every activity is awaited inside try/except.                    *)
AwaitSwallowed(a, o, limit, next) ==
  \/ o = "ok" /\ Proceed(a, next)
  \/ o # "ok" /\ Retry(a, limit)
  \/ o # "ok" /\ attempt[a] >= limit /\ Proceed(a, next)

(* await execute_activity(...) ended with outcome o. *)
Await(a, o, limit, next) ==
  \/ o = "ok" /\ Proceed(a, next)
  \/ o # "ok" /\ (Retry(a, limit) \/ Raise(a, limit))

(* The same inside try/except: the exception is swallowed. *)
AwaitQuietly(a, o, limit, next) ==
  \/ o = "ok" /\ Proceed(a, next)
  \/ o # "ok" /\ Retry(a, limit)
  \/ o # "ok" /\ attempt[a] >= limit /\ Proceed(a, next)

-----------------------------------------------------------------------------
(* Diagnosis and policy.                                                   *)

(* _resolve_runbook: a plan for a known runbook always resolves; otherwise *)
(* the keywords of the alert decide.  Both are data: a choice here.        *)
ResolveRunbook(a) ==
  \/ Proceed(a, "evaluate_policy")
  \/ Goto(a, "write_audit") /\ Settle(a, "unsupported") /\ UNCHANGED failed

(* _safe_agent_call: a null plan, a broken answer and an agent that fails  *)
(* both attempts all become plan_dict = None, and all are resolved.        *)
AgentDiagnose(a) ==
  /\ pc[a] = "agent_diagnose"
  /\ Retry(a, MutexAttempts) \/ ResolveRunbook(a)
  /\ UNCHANGED <<lock, choices, token, running, outputs>>

(* The rules themselves are evaluated in PolicyEngine.  "allow" never      *)
(* comes without a plan: PlanlessNeverAllowed in PolicyEngineProofs.       *)
EvaluatePolicy(a) ==
  /\ pc[a] = "evaluate_policy"
  /\ \/ \E d \in {"deny", "approval_required", "allow"} :
          /\ policy' = [policy EXCEPT ![a] = d]
          /\ UNCHANGED failed
          /\ IF d = "deny" THEN Goto(a, "write_audit") /\ Settle(a, "denied")
                           ELSE Goto(a, "send_card") /\ UNCHANGED label
     \/ (Retry(a, NotifyAttempts) \/ Raise(a, NotifyAttempts)) /\ UNCHANGED policy
  /\ UNCHANGED <<lock, decision, token, running, outputs>>

AutoExecute(a) == policy[a] = "allow" /\ AiopsMode = "live"

-----------------------------------------------------------------------------
(* The approval card and its buttons.                                      *)

(* The plain card has buttons; the agent's card, the one an allowed plan   *)
(* gets, has none when the runbook is about to run by itself.  A lost      *)
(* reply posts a second card, for the same workflow.                       *)
CardFor(a) == IF AutoExecute(a) THEN "silent" ELSE "buttons"

SendCard(a) ==
  /\ pc[a] = "send_card"
  /\ \E o \in Outcomes :
       /\ card' = IF Happened(o) THEN [card EXCEPT ![a] = CardFor(a)] ELSE card
       /\ Await(a, o, NotifyAttempts,
                IF AutoExecute(a) THEN "try_acquire_mutex" ELSE "wait_approval")
  /\ UNCHANGED <<lock, choices, token, running, jsonl, told, labelled, released>>

(* The approve signal: only the first decision is stored.                  *)
Approve(a, click) ==
  /\ card[a] = "buttons"
  /\ pc[a] # "closed"
  /\ decision[a] = "none"
  /\ decision' = [decision EXCEPT ![a] = click]
  /\ UNCHANGED <<lock, wfVars, policy, token, running, outputs>>

(* Mutant: any stored decision counts as an approval.                      *)
AnyDecisionApproves(a) ==
  /\ pc[a] = "wait_approval"
  /\ decision[a] # "none"
  /\ Proceed(a, "try_acquire_mutex")
  /\ UNCHANGED <<lock, choices, token, running, outputs>>

(* wait_condition returns. *)
ApprovalArrives(a) ==
  /\ pc[a] = "wait_approval"
  /\ decision[a] # "none"
  /\ UNCHANGED failed
  /\ IF decision[a] = "approve"
     THEN Goto(a, "try_acquire_mutex") /\ UNCHANGED label
     ELSE Goto(a, "write_audit") /\ Settle(a, "rejected")
  /\ UNCHANGED <<lock, choices, token, running, outputs>>

(* Mutant: wait_condition without a timeout.                               *)
WaitForever(a) == FALSE

(* The 30 minutes are over.  Temporal hands a signal that is already in    *)
(* the history to the workflow before it fires the timer.                  *)
ApprovalTimeout(a) ==
  /\ pc[a] = "wait_approval"
  /\ decision[a] = "none"
  /\ Goto(a, "write_audit") /\ Settle(a, "timeout") /\ UNCHANGED failed
  /\ UNCHANGED <<lock, choices, token, running, outputs>>

-----------------------------------------------------------------------------
(* The mutex and the runbook.                                              *)

TryAcquireMutex(a) ==
  /\ pc[a] = "try_acquire_mutex"
  /\ \E o \in Outcomes :
       /\ IF Happened(o)
          THEN AcquireActionMutex(HostOf[a], <<a, attempt[a]>>, MutexTTL)
          ELSE UNCHANGED lock
       /\ \/ /\ o = "ok" /\ IsFree(HostOf[a])
             /\ token' = [token EXCEPT ![a] = <<a, attempt[a]>>]
             /\ Proceed(a, "execute_runbook")
          \/ /\ o = "ok" /\ ~IsFree(HostOf[a])
             /\ Goto(a, "write_audit") /\ Settle(a, "skipped_mutex")
             /\ UNCHANGED <<failed, token>>
          \/ /\ o # "ok"
             /\ Retry(a, MutexAttempts) \/ Raise(a, MutexAttempts)
             /\ UNCHANGED token
  /\ UNCHANGED <<choices, running, outputs>>

(* A worker picks execute_runbook up, however long after the lock was set  *)
(* (there is no schedule_to_start timeout), and asyncio.to_thread puts the *)
(* playbook in line for a thread.                                          *)
PickUp(a) ==
  /\ pc[a] = "execute_runbook"
  /\ run[a] = "idle"
  /\ run' = [run EXCEPT ![a] = "queued"]
  /\ UNCHANGED <<lock, wfVars, choices, token, waited, timer, outputs>>

(* Mutant: the activity is started again after it has returned.            *)
StartRunAgain(a) ==
  /\ run[a] = "queued" \/ (run[a] = "done" /\ pc[a] = "execute_runbook")
  /\ run' = [run EXCEPT ![a] = "running"]
  /\ UNCHANGED <<lock, wfVars, choices, token, waited, timer, outputs>>

(* A thread takes the playbook: dry-run, execute, verify, rollback as one  *)
(* run.  The item stays in the executor's line when the activity is given  *)
(* up meanwhile, and starts all the same.                                  *)
StartRun(a) ==
  /\ run[a] = "queued"
  /\ run' = [run EXCEPT ![a] = "running"]
  /\ UNCHANGED <<lock, wfVars, choices, token, waited, timer, outputs>>

(* The clocks of an execute_runbook that is over. *)
StopClocks(a) ==
  /\ waited' = [waited EXCEPT ![a] = 0]
  /\ timer' = [timer EXCEPT ![a] = 0]

(* The playbook ends: in the thread, whatever the workflow does meanwhile. *)
FinishRun(a) ==
  /\ run[a] = "running"
  /\ run' = [run EXCEPT ![a] = "done"]
  /\ StopClocks(a)
  /\ UNCHANGED <<lock, wfVars, choices, token, outputs>>

(* execute_runbook returns its ExecutionResult. *)
RunbookReturns(a) ==
  /\ pc[a] = "execute_runbook"
  /\ run[a] = "done"
  /\ Proceed(a, "release_mutex")
  /\ UNCHANGED <<lock, choices, token, running, outputs>>

(* No thread is stopped; a playbook still in line may go with its process. *)
StillInLine(a) == run' \in {run} \cup
  (IF run[a] = "queued" THEN {[run EXCEPT ![a] = "idle"]} ELSE {})

(* Mutant: the exception is logged and the normal path goes on.            *)
RunbookErrorIgnored(a) ==
  /\ pc[a] = "execute_runbook"
  /\ run[a] \in {"idle", "done"} \/ timer[a] >= ExecTimeout
  /\ Proceed(a, "release_mutex")
  /\ StillInLine(a) /\ StopClocks(a)
  /\ UNCHANGED <<lock, choices, token, outputs>>

(* Mutant: except Exception only returns "error".                          *)
ErrorOnlyReturned(a) ==
  /\ Goto(a, "release_mutex") /\ Settle(a, "error") /\ UNCHANGED failed
  /\ StopClocks(a)
  /\ UNCHANGED <<lock, choices, token, outputs>>

(* except Exception: the audit row and the message about the error come    *)
(* first, the finally clause after them.                                   *)
GiveUp(a) ==
  /\ Goto(a, "write_audit") /\ Settle(a, "error") /\ UNCHANGED failed
  /\ StopClocks(a)
  /\ UNCHANGED <<lock, choices, token, outputs>>

(* The activity raised before or after the playbook ran, or start_to_close *)
(* elapsed: its worker died, or the playbook is still in line or running.  *)
RunbookRaises(a) ==
  /\ pc[a] = "execute_runbook"
  /\ run[a] \in {"idle", "done"} \/ timer[a] >= ExecTimeout
  /\ StillInLine(a)
  /\ GiveUp(a)

(* worker_task.cancel() at shutdown: the await of the activity is          *)
(* cancelled, which takes a playbook that is still in line with it; one    *)
(* that runs goes on in its thread, for which the process waits.           *)
WorkerStops(a) ==
  /\ pc[a] = "execute_runbook"
  /\ run[a] \in {"queued", "running"}
  /\ run' = IF run[a] = "queued" THEN [run EXCEPT ![a] = "idle"] ELSE run
  /\ GiveUp(a)

(* The finally clause.  It runs while label is "error" or still pending.   *)
ReleaseMutex(a) ==
  /\ pc[a] = "release_mutex"
  /\ \E o \in Outcomes :
       /\ IF Happened(o) THEN ReleaseActionMutex(HostOf[a], token[a])
                         ELSE UNCHANGED lock
       /\ \/ /\ o = "ok" /\ label[a] = "error"
             /\ Proceed(a, "decr_gauge")
          \/ /\ o = "ok" /\ label[a] # "error"
             /\ Goto(a, "write_audit") /\ UNCHANGED failed
             /\ Settle(a, IF AutoExecute(a) THEN "auto_approved" ELSE "approved")
          \/ /\ o # "ok"
             /\ Retry(a, MutexAttempts) \/ Raise(a, MutexAttempts)
  /\ UNCHANGED <<choices, token, running, outputs>>

-----------------------------------------------------------------------------
(* Audit and notification.                                                 *)

(* write_audit appends a row to the JSONL file; an attempt whose reply is  *)
(* lost has appended its row and the next attempt appends another.         *)
WriteAudit(a) ==
  /\ pc[a] = "write_audit"
  /\ \E o \in Outcomes :
       /\ jsonl' = IF Happened(o) THEN [jsonl EXCEPT ![a] = Append(@, label[a])]
                                  ELSE jsonl
       /\ Await(a, o, NotifyAttempts,
                IF label[a] = "rejected" /\ decision[a] = "reject_with_reason"
                THEN "label_feedback" ELSE "send_result")
  /\ UNCHANGED <<lock, choices, token, running, card, told, labelled, released>>

(* label_feedback swallows a Hermes error: "ok" need not attach the label. *)
LabelFeedback(a) ==
  /\ pc[a] = "label_feedback"
  /\ \E o \in Outcomes :
       /\ labelled' \in {labelled} \cup
            (IF Happened(o) THEN {[labelled EXCEPT ![a] = TRUE]} ELSE {})
       /\ Await(a, o, NotifyAttempts, "send_result")
  /\ UNCHANGED <<lock, choices, token, running, card, jsonl, told, released>>

SendResult(a) ==
  /\ pc[a] = "send_result"
  /\ \E o \in Outcomes :
       /\ told' = IF Happened(o) THEN [told EXCEPT ![a] = TRUE] ELSE told
       /\ Await(a, o, NotifyAttempts,
                IF label[a] = "error" THEN "release_mutex" ELSE "post_summary")
  /\ UNCHANGED <<lock, choices, token, running, card, jsonl, labelled, released>>

(* _post_incident_summary: one attempt, its failure is swallowed.          *)
PostSummary(a) ==
  /\ pc[a] = "post_summary"
  /\ Proceed(a, "decr_gauge")
  /\ UNCHANGED <<lock, choices, token, running, outputs>>

(* _decr_pending_gauge in run()'s finally: the activity swallows Redis     *)
(* errors ("ok" without effect), and an attempt whose reply is lost has    *)
(* decremented already.                                                    *)
DecrPendingGauge(a) ==
  /\ pc[a] = "decr_gauge"
  /\ \E o \in Outcomes :
       /\ released' \in {released} \cup
            (IF Happened(o) THEN {[released EXCEPT ![a] = TRUE]} ELSE {})
       /\ AwaitQuietly(a, o, MutexAttempts, "closed")
  /\ UNCHANGED <<lock, choices, token, running, card, jsonl, told, labelled>>

-----------------------------------------------------------------------------
(* Time.  A tick cannot pass while something is due.                       *)

AwaitsPickup(a) == pc[a] = "execute_runbook" /\ run[a] = "idle"
IsPickedUp(a)   == pc[a] = "execute_runbook" /\ run[a] \in {"queued", "running"}

Due(a) == IsPickedUp(a) /\ timer[a] >= ExecTimeout

(* Beyond the lock's time to live it makes no difference how long          *)
(* execute_runbook waits: there the count stops.                           *)
Tick ==
  /\ \A a \in Alerts : ~Due(a)
  /\ ExpireLocks
  /\ waited' = [a \in Alerts |-> IF AwaitsPickup(a) /\ waited[a] < MutexTTL
                                 THEN waited[a] + 1 ELSE waited[a]]
  /\ timer' = [a \in Alerts |-> IF IsPickedUp(a) THEN timer[a] + 1 ELSE timer[a]]
  /\ UNCHANGED <<wfVars, choices, token, run, outputs>>

(* Everything of a workflow but the human at the card, the end of its      *)
(* playbook and the end of its worker.                                     *)
Step(a) ==
  \/ AgentDiagnose(a)    \/ EvaluatePolicy(a)  \/ SendCard(a)
  \/ ApprovalArrives(a)  \/ ApprovalTimeout(a)
  \/ TryAcquireMutex(a)  \/ PickUp(a)          \/ StartRun(a)
  \/ RunbookReturns(a)   \/ RunbookRaises(a)   \/ ReleaseMutex(a)
  \/ WriteAudit(a)       \/ LabelFeedback(a)   \/ SendResult(a)
  \/ PostSummary(a)      \/ DecrPendingGauge(a)

Next ==
  \/ \E a \in Alerts :
       Step(a) \/ FinishRun(a) \/ WorkerStops(a) \/ \E click \in Clicks : Approve(a, click)
  \/ Tick

Spec == Init /\ [][Next]_vars

(* Temporal repeats activities and fires timers until the workflow is      *)
(* done, and time passes; nobody has to click, and no playbook has to end. *)
FairSpec ==
  /\ Spec
  /\ \A a \in Alerts : WF_vars(Step(a))
  /\ WF_vars(Tick)

-----------------------------------------------------------------------------
(* The inductive strengthening behind the safety properties.               *)

BeforeMutex == {"agent_diagnose", "evaluate_policy", "send_card",
                "wait_approval", "try_acquire_mutex"}
AfterAudit  == {"label_feedback", "send_result", "post_summary"}
Ending      == {"decr_gauge", "closed"}
NothingRun  == {"unsupported", "denied", "timeout", "rejected", "skipped_mutex"}

Holds(a) == token[a] # NoToken /\ lock[HostOf[a]].token = token[a]

(* A token names its owner, so two alerts never hold the same lock.        *)
Token(a) == token[a] # NoToken => token[a][1] = a

Counting(a) == AwaitsPickup(a) \/ IsPickedUp(a)

(* From the lock being set until execute_runbook ends, the lock is held    *)
(* for as long as its time to live says, counted in the two clocks.        *)
Lease(a) ==
  /\ Counting(a) /\ waited[a] + timer[a] < MutexTTL =>
       Holds(a) /\ lock[HostOf[a]].ttl + waited[a] + timer[a] >= MutexTTL
  /\ AwaitsPickup(a) => timer[a] = 0
  /\ IsPickedUp(a) => timer[a] <= ExecTimeout
  /\ ~Counting(a) => waited[a] = 0 /\ timer[a] = 0

(* Where a workflow can be, given what has run and what it has settled on. *)
Control(a) ==
  /\ pc[a] \in BeforeMutex => run[a] = "idle"
  /\ pc[a] \in BeforeMutex \cup {"execute_runbook"} => label[a] = "pending" /\ ~failed[a]
  /\ pc[a] = "release_mutex" => label[a] \in {"pending", "error"}
  /\ pc[a] = "release_mutex" /\ label[a] = "pending" => run[a] = "done" /\ ~failed[a]
  /\ pc[a] \in AfterAudit \cup {"write_audit"} => label[a] # "pending" /\ ~failed[a]
  /\ label[a] \in {"approved", "auto_approved"} => run[a] = "done"
  /\ label[a] \in NothingRun => run[a] = "idle"
  /\ run[a] \in {"queued", "running"} => pc[a] = "execute_runbook" \/ label[a] = "error"

(* Only an authorised workflow comes as far as the mutex.                  *)
Authority(a) ==
  pc[a] \in {"try_acquire_mutex", "execute_runbook"} \/ run[a] # "idle"
    => AutoExecute(a) \/ decision[a] = "approve"

(* Has an audit row been written?                                          *)
Audited(a) == Len(jsonl[a]) > 0

(* No row contradicts the label.                                           *)
Rows(a) == \A i \in DOMAIN jsonl[a] : jsonl[a][i] = label[a]

(* Rows are written after the label is settled and before anything that    *)
(* tells others about it, and an error is told before the mutex is given   *)
(* back; only a failed workflow can skip them.                             *)
Audit(a) ==
  /\ label[a] = "pending" => ~Audited(a) /\ ~told[a] /\ ~labelled[a]
  /\ pc[a] \in AfterAudit => Audited(a)
  /\ pc[a] \in Ending \cup {"release_mutex"} /\ label[a] # "pending" /\ ~failed[a] => Audited(a)
  /\ told[a] \/ labelled[a] => Audited(a)
  /\ pc[a] \in Ending /\ ~failed[a] => label[a] # "pending"
  /\ released[a] => pc[a] \in Ending
  /\ label[a] = "error" /\ pc[a] \in Ending \cup {"release_mutex", "post_summary"} =>
       failed[a] \/ told[a]

(* What a workflow does by the order of its own activities ...             *)
ConductInv ==
  \A a \in Alerts : Token(a) /\ Control(a) /\ Authority(a) /\ Rows(a) /\ Audit(a)

(* ... and by the time to live of its lock.                                *)
SafetyInv == ConductInv /\ \A a \in Alerts : Lease(a)

-----------------------------------------------------------------------------
(* Properties.                                                             *)

SameHost(a, b) == HostOf[a] = HostOf[b]

(* execute_runbook was picked up so late that the lock may run out before  *)
(* its timeout: nothing in the code bounds the wait for a worker.          *)
PickedUpLate(a) == waited[a] + ExecTimeout >= MutexTTL

(* The playbook of a has the protection of the mutex: its workflow waits   *)
(* for it and it was not picked up late.                                   *)
Protected(a) == run[a] = "running" /\ label[a] = "pending" /\ ~PickedUpLate(a)

(* The mutex does what its settings (900 s, and 600 s for the activity)    *)
(* allow, for playbooks that may run for ever, workers that may come at    *)
(* any time and be stopped at any time: of two playbooks that run on a     *)
(* host at once, one was picked up late or has been given up with an       *)
(* error.                                                                  *)
ProtectedRunsAreExclusive ==
  \A a, b \in Alerts : SameHost(a, b) /\ Protected(a) /\ Protected(b) => a = b

(* The playbook runs only for a workflow that policy let run by itself in  *)
(* live mode or whose stored decision is an approval, so a click on reject *)
(* that came first, a timeout and a denial all keep the host untouched.    *)
ExecutionAuthorised ==
  \A a \in Alerts :
    run[a] # "idle" => AutoExecute(a) \/ decision[a] = "approve"

(* What the workflow reports is what happened to the host: "approved" and  *)
(* "auto_approved" only after the playbook ended, the labels that promise  *)
(* that nothing was run only if nothing ever ran.                          *)
OutcomeTruthful ==
  \A a \in Alerts :
    /\ label[a] \in {"approved", "auto_approved"} => run[a] = "done"
    /\ label[a] \in {"unsupported", "denied", "timeout", "rejected", "skipped_mutex"}
         => run[a] = "idle"

(* A workflow that returned normally, or got as far as telling the group   *)
(* or labelling the feedback, has an audit row with its own decision; no   *)
(* row ever contradicts another.                                           *)
AuditBeforeNotice ==
  \A a \in Alerts :
    /\ told[a] \/ labelled[a] \/ (pc[a] = "closed" /\ ~failed[a]) => Audited(a)
    /\ Rows(a)

(* A playbook that outlives its workflow's hold on it, running or still in *)
(* line when the pending-gauge slot is given back, is known: the workflow  *)
(* settled on an error and the audit log and the group were told before,   *)
(* or the workflow itself failed for an activity that could not do that.   *)
OverrunsAreKnown ==
  \A a \in Alerts :
    run[a] \in {"queued", "running"} /\ released[a] =>
      label[a] = "error" /\ (failed[a] \/ (told[a] /\ Audited(a)))

(* A lock disappears only by expiry or by a release of the workflow whose  *)
(* attempt set it: a late release never takes the lock of another alert.   *)
OnlyOwnerReleases ==
  [][\A h \in Targets :
       lock[h].token # NoToken /\ lock'[h].token # lock[h].token =>
         \/ lock[h].ttl = 1
         \/ \E a \in Alerts : pc[a] = "release_mutex" /\ token[a] = lock[h].token]_vars

(* The contract of IncidentContract: a remediation is authorised and begun *)
(* once, has the host to itself unless it comes late or is given up, and   *)
(* one verdict is given, true to what was done.  A late click on a card    *)
(* that has timed out authorises nothing.                                  *)
phaseBar ==
  [a \in Alerts |->
     CASE run[a] = "running" -> "acting"
       [] run[a] = "done"    -> "acted"
       [] OTHER -> IF /\ AutoExecute(a) \/ decision[a] = "approve"
                      /\ label[a] # "timeout"
                   THEN "authorised" ELSE "open"]

lateBar == {a \in Alerts : run[a] = "running" /\ label[a] = "pending" /\ PickedUpLate(a)}

Contract ==
  INSTANCE IncidentContract WITH phase <- phaseBar, verdict <- label, late <- lateBar

ImplementsContract == Contract!Spec

(* Every workflow ends, whether or not anybody looks at the card and       *)
(* however many activity attempts fail.                                    *)
EveryAlertIsClosed == \A a \in Alerts : <>(pc[a] = "closed")

(* No host stays locked: also a lock whose reply was lost, or whose        *)
(* release failed, comes free.                                             *)
HostsComeFree == \A h \in Targets : <>[](IsFree(h))

(* Said of the code and not true of it (see README, "Findings").           *)

(* alert_workflow.py:202, "同 host 同时只允许一个修复动作，避免并发误操作": *)
(* two playbooks never run on one host at the same time, whatever the      *)
(* workflows that started them are doing.                                  *)
MutualExclusion ==
  \A a, b \in Alerts :
    SameHost(a, b) /\ run[a] = "running" /\ run[b] = "running" => a = b

(* docs/hermes-knowledge.md:20: the JSONL audit log is always written, so a *)
(* runbook that ran has a row by the time its workflow has ended.          *)
AuditAlwaysWritten ==
  \A a \in Alerts : pc[a] = "closed" /\ run[a] = "done" => Audited(a)
=============================================================================
