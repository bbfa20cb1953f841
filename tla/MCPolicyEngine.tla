---------------------------- MODULE MCPolicyEngine ----------------------------
(* Every combination of what the shipped rules can tell apart, and rule    *)
(* files with each kind of mistake next to rules that match everything.    *)
EXTENDS PolicyEngine, TLC

(* All functions from a subset of the keys of choices to a choice each.    *)
Dicts(choices) ==
  UNION {{d \in [K -> UNION Range(choices)] : \A k \in K : d[k] \in choices[k]} :
           K \in SUBSET DOMAIN choices}

MCProduction == {"p", "both"}
MCStaging    == {"s", "both"}

Params(key, S) ==
  Dicts((key :> Strs(S)) @@ ("target_host" :> Strs({"p", "both", "s", "d"})))

Plans ==
  Dicts(("risk_level" :> Strs({"low", "medium", "high"}))
          @@ ("confidence" :> {None, Str("high"), Num(89), Num(90)}))

MCRequests ==
  [runbook_id : {Str("disk_cleanup")},    params : Params("path", {"/etc", "/tmp", "/opt"}), plan : Plans]
    \cup
  [runbook_id : {Str("service_restart")}, params : Params("service_name", {"mysql", "nginx", "sshd"}), plan : Plans]

Unknown   == [field |-> "risk_level", op |-> "matches", value |-> Str("low")]
Anything  == << >>
NeverHigh == <<[field |-> "risk_level", op |-> "ne", value |-> Str("low")]>>

MCFiles == {Unreadable} \cup {Readable(rules) : rules \in {
  << >>,
  <<Rule("allow", Anything)>>,
  <<Rule("allow", Anything)>> \o Shipped,
  <<Rule("deny", <<Unknown>>)>> \o Shipped,
  <<Rule("allow", <<Is("risk_level", "low"), Unknown>>), Rule("deny", NeverHigh)>>}}
=============================================================================
