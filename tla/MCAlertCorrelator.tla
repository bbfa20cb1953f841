--------------------------- MODULE MCAlertCorrelator ---------------------------
(* Three alerts with every answer of the quick filter: a1 and a2 are       *)
(* related by their host name alone, a1 and a3 are left to the LLM, a2 and *)
(* a3 have one address and are too far apart in time.                      *)
EXTENDS AlertCorrelator, TLC

CONSTANTS a1, a2, a3, ip1, ip2, web, db

MCIpOf    == (a1 :> ip1) @@ (a2 :> ip2) @@ (a3 :> ip2)
MCNameOf  == (a1 :> web) @@ (a2 :> web) @@ (a3 :> db)
MCStampOf == (a1 :> 1) @@ (a2 :> 0) @@ (a3 :> 2)
MCAkin    == {{a1, a3}}
=============================================================================
