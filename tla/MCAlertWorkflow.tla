--------------------------- MODULE MCAlertWorkflow ---------------------------
(* Alerts interact only over the lock of a common host, and mutual         *)
(* exclusion is about pairs: every alert here is an alert of one host.     *)
EXTENDS AlertWorkflow, TLC

CONSTANT Host

MCHostOf == [a \in Alerts |-> Host]
Symmetry == Permutations(Alerts)
=============================================================================
