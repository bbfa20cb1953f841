--------------------------- MODULE MCIncidentSystem ---------------------------
(* One alert: what alerts do to each other on a host is AlertWorkflow's,   *)
(* which the composition implements.                                       *)
EXTENDS IncidentSystem

CONSTANT Host

MCHostOf == [a \in Alerts |-> Host]
=============================================================================
