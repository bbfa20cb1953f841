---------------------------- MODULE MCAlertIntake ----------------------------
(* One alert that Zabbix sends twice and a second alert: enough for a      *)
(* duplicate, a suppression under another root and a stream that is longer *)
(* than its bound.                                                         *)
EXTENDS AlertIntake, TLC

CONSTANTS r1, r2, r3, e1, e2

MCOneEvent == [r \in Requests |-> e1]
MCEventOf  == (r1 :> e1) @@ (r2 :> e1) @@ (r3 :> e2)
=============================================================================
