-------------------------- MODULE ApprovalListener --------------------------
(***************************************************************************)
(* The card callbacks of src/feishu_listener.py in front of the workflow.  *)
(*                                                                         *)
(* A thread of its own receives the clicks, one after the other.  For each *)
(* it schedules a Temporal signal on the main event loop, waits for it at  *)
(* most ten seconds, and answers with a toast.  A wait that times out      *)
(* cancels the signal, but the call may be on its way already: it is an    *)
(* orphan then and arrives late or never.                                  *)
(***************************************************************************)
EXTENDS AlertWorkflow, FiniteSets

CONSTANT MaxOrphans   \* bound: signals under way that nobody waits for

ASSUME OrphansAssumption == MaxOrphans \in Nat

VARIABLES
  press,    \* the click being handled and how its signal fares, or NoPress
  orphans,  \* signals on their way that nobody waits for
  toast     \* toast[a]: what the card of a answered to the last click

listener == <<press, orphans, toast>>

NoPress == [alert |-> "none", click |-> "none", signal |-> "none"]

Toasts == {"none", "received", "timed out", "failed"}

ListenerTypeOK ==
  /\ press \in {NoPress} \cup
       [alert : Alerts, click : Clicks, signal : {"sent", "taken"}]
  /\ orphans \subseteq Alerts \X Clicks
  /\ toast \in [Alerts -> Toasts]

ListenerInit ==
  /\ press = NoPress
  /\ orphans = {}
  /\ toast = [a \in Alerts |-> "none"]

Show(a, t) == toast' = [toast EXCEPT ![a] = t]

-----------------------------------------------------------------------------
(* _on_card_action. *)

(* A click is signalled.  One that rejects with a reason and gives none,   *)
(* or comes from a broken card, is answered with an error: no step here.   *)
Press(a, c) ==
  /\ press = NoPress
  /\ card[a] = "buttons"
  /\ press' = [alert |-> a, click |-> c, signal |-> "sent"]
  /\ Show(a, "none")
  /\ UNCHANGED <<vars, orphans>>

(* Mutant: every signal overwrites the decision.                           *)
LastClickWins(a, c) ==
  /\ pc[a] # "closed"
  /\ decision' = [decision EXCEPT ![a] = c]
  /\ UNCHANGED <<lock, wfVars, policy, token, running, outputs>>

(* The signal reaches a workflow that is not over: a decision is stored    *)
(* if it is the first.                                                     *)
SignalWorkflow(a, c) ==
  \/ Approve(a, c)
  \/ decision[a] # "none" /\ pc[a] # "closed" /\ UNCHANGED vars

SignalArrives ==
  /\ press.signal = "sent"
  /\ SignalWorkflow(press.alert, press.click)
  /\ press' = [press EXCEPT !.signal = "taken"]
  /\ UNCHANGED <<orphans, toast>>

(* The call goes on without its caller, or never reaches Temporal.         *)
MayBeOrphaned ==
  orphans' \in {orphans} \cup
    (IF press.signal = "sent" /\ Cardinality(orphans) < MaxOrphans
     THEN {orphans \cup {<<press.alert, press.click>>}} ELSE {})

(* Mutant: the answer does not wait for the signal.                        *)
AnswerAtOnce ==
  /\ press # NoPress
  /\ Show(press.alert, "received")
  /\ press' = NoPress
  /\ MayBeOrphaned
  /\ UNCHANGED vars

(* future.result() returns, or raises: the call failed, its reply was lost *)
(* or the workflow is over.                                                *)
Answer ==
  /\ press # NoPress
  /\ \/ press.signal = "taken" /\ Show(press.alert, "received")
     \/ Show(press.alert, "failed")
  /\ press' = NoPress
  /\ UNCHANGED <<vars, orphans>>

(* Mutant: future.result() without a timeout.                              *)
WaitOn == FALSE

(* concurrent.futures.TimeoutError; future.cancel() may come too late.     *)
WaitTimesOut ==
  /\ press # NoPress
  /\ Show(press.alert, "timed out")
  /\ press' = NoPress
  /\ MayBeOrphaned
  /\ UNCHANGED vars

OrphanArrives(a, c) ==
  /\ <<a, c>> \in orphans
  /\ orphans' = orphans \ {<<a, c>>}
  /\ SignalWorkflow(a, c) \/ UNCHANGED vars
  /\ UNCHANGED <<press, toast>>

Listener ==
  \/ \E a \in Alerts, c \in Clicks : Press(a, c) \/ OrphanArrives(a, c)
  \/ SignalArrives \/ Answer \/ WaitTimesOut
=============================================================================
