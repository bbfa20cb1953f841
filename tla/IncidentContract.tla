-------------------------- MODULE IncidentContract --------------------------
(***************************************************************************)
(* What handling an alert promises, without workflows, locks, retries or   *)
(* clocks: a remediation of a host starts only after it was authorised, it *)
(* runs at most once per alert, and the verdict announced for the alert is *)
(* decided once and agrees with what was done to the host.  A remediation  *)
(* has the host to itself as long as it has not come late and its alert    *)
(* has not been given up: it shares it only with such a one.               *)
(*                                                                         *)
(* AlertWorkflow implements it; the verdicts are the decision strings of   *)
(* src/workflows/alert_workflow.py.                                        *)
(***************************************************************************)
CONSTANTS Alerts, HostOf

VARIABLES
  phase,    \* phase[a]: how far the remediation of alert a has come
  verdict,  \* verdict[a]: what is announced for it, "pending" at first
  late      \* alerts whose remediation began too late to be protected

vars == <<phase, verdict, late>>

Init ==
  /\ phase = [a \in Alerts |-> "open"]
  /\ verdict = [a \in Alerts |-> "pending"]
  /\ late = {}

(* Policy or a human lets the remediation go ahead. *)
Authorise(a) ==
  /\ phase[a] = "open"
  /\ verdict[a] = "pending"
  /\ phase' = [phase EXCEPT ![a] = "authorised"]
  /\ UNCHANGED <<verdict, late>>

(* Somebody waits for the remediation of b, and it began in time. *)
Exclusive(b) == phase[b] = "acting" /\ verdict[b] = "pending" /\ b \notin late

HostIsFree(h) == \A b \in Alerts : HostOf[b] = h => ~Exclusive(b)

(* In time, with the host free; late; or after the alert was given up. *)
Begin(a) ==
  /\ phase[a] = "authorised"
  /\ \/ verdict[a] = "pending" /\ HostIsFree(HostOf[a]) /\ UNCHANGED late
     \/ verdict[a] = "pending" /\ late' = late \cup {a}
     \/ verdict[a] = "error" /\ UNCHANGED late
  /\ phase' = [phase EXCEPT ![a] = "acting"]
  /\ UNCHANGED verdict

End(a) ==
  /\ phase[a] = "acting"
  /\ phase' = [phase EXCEPT ![a] = "acted"]
  /\ late' = late \ {a}
  /\ UNCHANGED verdict

Verdicts(p) ==
  CASE p = "open"       -> {"unsupported", "denied", "timeout", "rejected"}
    [] p = "authorised" -> {"skipped_mutex", "error"}
    [] p = "acting"     -> {"error"}
    [] p = "acted"      -> {"approved", "auto_approved", "error"}
    [] OTHER            -> {}

Report(a) ==
  /\ verdict[a] = "pending"
  /\ \E v \in Verdicts(phase[a]) : verdict' = [verdict EXCEPT ![a] = v]
  /\ late' = late \ {a}
  /\ UNCHANGED phase

Next == \E a \in Alerts : Authorise(a) \/ Begin(a) \/ End(a) \/ Report(a)

Spec == Init /\ [][Next]_vars
=============================================================================
