---------------------------- MODULE MCMetaMonitor ----------------------------
(* Three probes: components do not interact but by the time their probes and *)
(* messages take, which MaxGap stands for.                                 *)
EXTENDS MetaMonitor

MCProbes == <<"fastapi", "redis", "llm">>
=============================================================================
