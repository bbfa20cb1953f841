-------------------------- MODULE RunbookExecution --------------------------
(***************************************************************************)
(* The inside of one playbook run: _execute_runbook_sync of                *)
(* src/activities/runbook.py and the runbooks it calls, src/runbooks/.     *)
(*                                                                         *)
(* AlertWorkflow knows a run as idle, queued, running or done.  Here the running   *)
(* thread goes through parameter check, dry run, execution, verification   *)
(* and rollback, each phase one call of ansible-runner that succeeds,      *)
(* fails or raises, until it returns an ExecutionResult, raises, or dies   *)
(* with its process.  Hosts are seen by one bit: whether tasks of the      *)
(* playbook have run on them for real.                                     *)
(***************************************************************************)
EXTENDS AlertWorkflow

VARIABLES
  phase,    \* phase[a]: where the thread of a is
  result,   \* result[a]: the ExecutionResult, as far as it is known
  touched   \* touched[a]: the host was acted on for a, not in check mode

thread == <<phase, result, touched>>

Over == {"returned", "raised", "killed"}
Phases == {"none", "check", "dry_run", "execute", "verify", "rollback"} \cup Over

NoResult == [dry_run |-> FALSE, execute |-> FALSE, verify |-> FALSE, rolled_back |-> FALSE]

ThreadTypeOK ==
  /\ phase \in [Alerts -> Phases]
  /\ result \in [Alerts -> [dry_run : BOOLEAN, execute : BOOLEAN,
                            verify : BOOLEAN, rolled_back : BOOLEAN]]
  /\ touched \in [Alerts -> BOOLEAN]

ThreadInit ==
  /\ phase = [a \in Alerts |-> "none"]
  /\ result = [a \in Alerts |-> NoResult]
  /\ touched = [a \in Alerts |-> FALSE]

-----------------------------------------------------------------------------
(* The phases.                                                             *)

Enter(a, p) == phase' = [phase EXCEPT ![a] = p]
Succeeds(a, field) == result' = [result EXCEPT ![a][field] = TRUE]

(* run_ansible, or what comes before it, raises: so does the activity. *)
PhaseRaises(a) == Enter(a, "raised") /\ UNCHANGED result

(* The registry and the parameter schema; a keyword plan for a service     *)
(* nobody named fails here.                                                *)
CheckParams(a) ==
  /\ phase[a] = "check"
  /\ (Enter(a, "dry_run") /\ UNCHANGED result) \/ PhaseRaises(a)
  /\ UNCHANGED touched

(* Mutant: the result of the dry run is only recorded.                     *)
DryRunForTheRecord(a) ==
  /\ phase[a] = "dry_run"
  /\ \/ Enter(a, "execute") /\ (Succeeds(a, "dry_run") \/ UNCHANGED result)
     \/ PhaseRaises(a)
  /\ UNCHANGED touched

(* The playbook with --check. *)
DryRun(a) ==
  /\ phase[a] = "dry_run"
  /\ \/ Enter(a, "execute") /\ Succeeds(a, "dry_run")
     \/ Enter(a, "returned") /\ UNCHANGED result
     \/ PhaseRaises(a)
  /\ UNCHANGED touched

(* A playbook that fails, or an error around it, may come after some of    *)
(* its tasks.                                                              *)
Execute(a) ==
  /\ phase[a] = "execute"
  /\ \/ /\ Enter(a, "verify") /\ Succeeds(a, "execute")
        /\ touched' = [touched EXCEPT ![a] = TRUE]
     \/ /\ (Enter(a, "returned") /\ UNCHANGED result) \/ PhaseRaises(a)
        /\ touched' \in {touched, [touched EXCEPT ![a] = TRUE]}

(* --check again, and what its output says of the disk or the service. *)
Verify(a) ==
  /\ phase[a] = "verify"
  /\ \/ Enter(a, "returned") /\ Succeeds(a, "verify")
     \/ Enter(a, "rollback") /\ UNCHANGED result
     \/ PhaseRaises(a)
  /\ UNCHANGED touched

(* Neither runbook can roll back: both return False. *)
Rollback(a) ==
  /\ phase[a] = "rollback"
  /\ Enter(a, "returned")
  /\ UNCHANGED <<result, touched>>

ThreadStep(a) ==
  /\ run[a] = "running"
  /\ CheckParams(a) \/ DryRun(a) \/ Execute(a) \/ Verify(a) \/ Rollback(a)
  /\ UNCHANGED vars

(* The thread is over: in AlertWorkflow, the playbook ends. *)
ThreadEnds(a) ==
  /\ FinishRun(a)
  /\ phase[a] \in Over
  /\ UNCHANGED thread

(* The worker's process stops in the middle of a phase, and an execution   *)
(* may have got to some of its tasks.                                      *)
ThreadKilled(a) ==
  /\ FinishRun(a)
  /\ phase[a] \notin Over
  /\ Enter(a, "killed")
  /\ touched' \in {touched} \cup
       (IF phase[a] = "execute" THEN {[touched EXCEPT ![a] = TRUE]} ELSE {})
  /\ UNCHANGED result

(* The workflow's side: StartRun starts the thread, and the activity       *)
(* returns to the workflow only what the thread returned.                  *)
ThreadFollows(a) ==
  /\ pc[a] = "execute_runbook" /\ pc'[a] = "release_mutex" => phase[a] = "returned"
  /\ phase' = IF run[a] = "queued" /\ run'[a] = "running"
              THEN [phase EXCEPT ![a] = "check"] ELSE phase
  /\ UNCHANGED <<result, touched>>

(* The message for the group after a run that returned.                    *)
ResultMessage(a) ==
  CASE result[a].verify   -> "handled"
    [] ~result[a].dry_run -> "dry run failed, nothing was done"
    [] ~result[a].execute -> "execution failed"
    [] OTHER              -> "done but not verified"
=============================================================================
