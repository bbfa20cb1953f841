---------------------------- MODULE MCKnowledgeLoop ----------------------------
(* Two runs of one event, one after the other, and one of another event    *)
(* beside them; in the first run of the model it is a case of its own.     *)
EXTENDS KnowledgeLoop, TLC

CONSTANTS r1, r2, r3, e1, e2, k1, k2

MCEventOf == (r1 :> e1) @@ (r2 :> e1) @@ (r3 :> e2)
MCCaseOf  == (r1 :> k1) @@ (r2 :> k1) @@ (r3 :> k2)

(* For the run on reviews: all of one case.                                *)
MCOneCase == [r \in {r1, r2, r3} |-> k1]
=============================================================================
