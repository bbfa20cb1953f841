----------------------------- MODULE PolicyEngine -----------------------------
(***************************************************************************)
(* The policy rules: src/policy/engine.py, the rule file                   *)
(* src/policy/policies.yaml, src/policy/host_tiers.py and the activity     *)
(* src/activities/policy.py that turns every exception into an approval.   *)
(*                                                                         *)
(* A value is a tuple whose first element is its Python type.  Numbers are *)
(* confidences in hundredths.  Strings are compared for equality only (no  *)
(* rule orders them), and names and descriptions of rules are left out.    *)
(***************************************************************************)
EXTENDS Naturals, Sequences, Functions

CONSTANTS
  ProductionHosts, StagingHosts,  \* the two host lists of the settings
  Files,                          \* what the rule file may be edited to
  Requests                        \* what the workflow may ask about

None   == <<"none">>
Str(s) == <<"str", s>>
Num(n) == <<"num", n>>
Strs(S) == {Str(s) : s \in S}

Effects   == {"deny", "require_approval", "allow"}
Decisions == {"deny", "approval_required", "allow"}

-----------------------------------------------------------------------------
(* What a rule is tested against.                                          *)

(* dict.get *)
Get(d, key, default) == IF key \in DOMAIN d THEN d[key] ELSE default

(* Mutant: staging is looked up first.                                     *)
StagingFirst(host) ==
  IF host \in Strs(StagingHosts) THEN Str("staging")
  ELSE IF host \in Strs(ProductionHosts) THEN Str("production") ELSE Str("dev")

(* lookup_tier: an unlisted host is "dev", and so is a missing one; a host *)
(* on both lists is production.                                            *)
LookupTier(host) ==
  IF host \in Strs(ProductionHosts) THEN Str("production")
  ELSE IF host \in Strs(StagingHosts) THEN Str("staging") ELSE Str("dev")

(* _build_context: a request's params and plan are functions on the keys   *)
(* that are present; no plan at all is the empty function.                 *)
BuildContext(q) ==
  [field \in {"runbook_id", "path", "service_name", "risk_level", "confidence", "host_tier"} |->
     CASE field = "runbook_id"   -> q.runbook_id
       [] field = "path"         -> Get(q.params, "path", None)
       [] field = "service_name" -> Get(q.params, "service_name", None)
       [] field = "risk_level"   -> Get(q.plan, "risk_level", None)
       [] field = "confidence"   -> Get(q.plan, "confidence", Num(0))
       [] field = "host_tier"    -> LookupTier(Get(q.params, "target_host", None))]

-----------------------------------------------------------------------------
(* Conditions.                                                             *)

(* _safe_compare: only two numbers are ever in an order. *)
Ordered(a, b) == a[1] = "num" /\ b[1] = "num"

Operators == {"eq", "ne", "in", "not_in", "gte", "lte", "gt", "lt"}

Satisfied(c, a) ==
  CASE c.op = "eq"     -> a = c.value
    [] c.op = "ne"     -> a # c.value
    [] c.op = "in"     -> a \in c.value
    [] c.op = "not_in" -> a \notin c.value
    [] c.op = "gte"    -> Ordered(a, c.value) /\ a[2] >= c.value[2]
    [] c.op = "lte"    -> Ordered(a, c.value) /\ a[2] <= c.value[2]
    [] c.op = "gt"     -> Ordered(a, c.value) /\ a[2] > c.value[2]
    [] c.op = "lt"     -> Ordered(a, c.value) /\ a[2] < c.value[2]

(* _match_condition: an unknown operator, or two of them, raises. *)
Test(c, ctx) ==
  IF c.op \notin Operators THEN "raises"
  ELSE IF Satisfied(c, ctx[c.field]) THEN "yes" ELSE "no"

First(S) == CHOOSE i \in S : \A j \in S : i <= j

(* all(...): the first condition that is not met decides. *)
MatchAll(conditions, ctx) ==
  LET unmet == {i \in DOMAIN conditions : Test(conditions[i], ctx) # "yes"}
  IN  IF unmet = {} THEN "yes" ELSE Test(conditions[First(unmet)], ctx)

-----------------------------------------------------------------------------
(* Rules.                                                                  *)

(* One pass over the rules of one effect, in file order: the first that    *)
(* does not simply fail to match ends it.                                  *)
Stage(rules, effect, ctx) ==
  LET hits == {i \in DOMAIN rules :
                 rules[i].effect = effect /\ MatchAll(rules[i].conditions, ctx) # "no"}
  IN  IF hits = {} THEN "no" ELSE MatchAll(rules[First(hits)].conditions, ctx)

(* Mutant: allow rules are asked before approval rules.                    *)
AllowBeforeApproval(rules, ctx) ==
  LET Ends(effect)     == Stage(rules, effect, ctx) # "no"
      As(effect, d)    == IF Stage(rules, effect, ctx) = "yes" THEN d ELSE "raises"
  IN  IF Ends("deny") THEN As("deny", "deny")
      ELSE IF Ends("allow") THEN As("allow", "allow")
      ELSE "approval_required"

(* Mutant: approval rules are asked before deny rules.                     *)
ApprovalBeforeDeny(rules, ctx) ==
  LET Ends(effect)     == Stage(rules, effect, ctx) # "no"
      As(effect, d)    == IF Stage(rules, effect, ctx) = "yes" THEN d ELSE "raises"
  IN  IF Ends("require_approval") THEN As("require_approval", "approval_required")
      ELSE IF Ends("deny") THEN As("deny", "deny")
      ELSE IF Ends("allow") THEN As("allow", "allow")
      ELSE "approval_required"

(* evaluate_policy: deny, then require_approval, then allow, then the      *)
(* default.  "raises" stands for an exception leaving it.                  *)
EvaluatePolicy(rules, ctx) ==
  LET Ends(effect)     == Stage(rules, effect, ctx) # "no"
      As(effect, d)    == IF Stage(rules, effect, ctx) = "yes" THEN d ELSE "raises"
  IN  IF Ends("deny") THEN As("deny", "deny")
      ELSE IF Ends("require_approval") THEN As("require_approval", "approval_required")
      ELSE IF Ends("allow") THEN As("allow", "allow")
      ELSE "approval_required"

(* _load_policies: the rules of the file, unless it is missing or no YAML. *)
Readable(rules) == [yaml |-> TRUE, rules |-> rules]
Unreadable      == [yaml |-> FALSE, rules |-> << >>]

(* evaluate_policy_activity *)
Judge(f, q) ==
  LET d == IF f.yaml THEN EvaluatePolicy(f.rules, BuildContext(q)) ELSE "raises"
  IN  IF d = "raises" THEN "approval_required" ELSE d

-----------------------------------------------------------------------------
(* policies.yaml as it is shipped.                                         *)

Is(field, s)     == [field |-> field, op |-> "eq", value |-> Str(s)]
OneOf(field, S)  == [field |-> field, op |-> "in", value |-> Strs(S)]
AtLeast(n)       == [field |-> "confidence", op |-> "gte", value |-> Num(n)]
Below(n)         == [field |-> "confidence", op |-> "lt", value |-> Num(n)]
Rule(e, conditions) == [effect |-> e, conditions |-> conditions]

CriticalPaths == {"/", "/etc", "/usr", "/bin", "/boot", "/lib"}
Databases     == {"mysql", "mysqld", "mariadb", "postgresql", "postgres", "mongodb", "redis"}
CleanPaths    == {"/tmp", "/var/log", "/var/cache"}

Shipped == <<
  Rule("deny", <<Is("runbook_id", "disk_cleanup"), OneOf("path", CriticalPaths)>>),
  Rule("deny", <<Is("runbook_id", "service_restart"), OneOf("service_name", Databases)>>),
  Rule("require_approval", <<Is("host_tier", "production")>>),
  Rule("require_approval", <<Is("risk_level", "high")>>),
  Rule("require_approval", <<Below(90)>>),
  Rule("allow", <<Is("runbook_id", "disk_cleanup"), OneOf("path", CleanPaths),
                  Is("risk_level", "low"), AtLeast(90)>>),
  Rule("allow", <<Is("runbook_id", "service_restart"), OneOf("service_name", {"nginx"}),
                  Is("risk_level", "low"), AtLeast(90)>>)>>

-----------------------------------------------------------------------------
(* One workflow asks; its activity may be attempted more than once, and    *)
(* every attempt reads the file anew, which may be edited in between.      *)

VARIABLES
  file,      \* the rule file
  asked,     \* the request of the workflow
  judgedBy,  \* the file it was last judged by
  verdict    \* the decision; "none" before the first attempt

vars == <<file, asked, judgedBy, verdict>>

(* yaml.safe_load makes lists of the rules and of the conditions of each.  *)
IsList(l) == DOMAIN l = 1..Len(l) /\ Len(l) \in Nat
IsRules(rules) == IsList(rules) /\ \A i \in DOMAIN rules : IsList(rules[i].conditions)

ASSUME FilesAssumption == \A f \in Files : IsRules(f.rules)

PolicyFiles == Files \cup {Readable(Shipped)}

TypeOK ==
  /\ file \in PolicyFiles /\ judgedBy \in PolicyFiles
  /\ asked \in Requests
  /\ verdict \in Decisions \cup {"none"}

Init ==
  /\ file = Readable(Shipped) /\ judgedBy = Readable(Shipped)
  /\ asked \in Requests
  /\ verdict = "none"

EditFile(f) ==
  /\ file' = f
  /\ UNCHANGED <<asked, judgedBy, verdict>>

EvaluatePolicyActivity ==
  /\ judgedBy' = file
  /\ verdict' = Judge(file, asked)
  /\ UNCHANGED <<file, asked>>

Next ==
  \/ \E f \in PolicyFiles : EditFile(f)
  \/ EvaluatePolicyActivity

Spec == Init /\ [][Next]_vars

-----------------------------------------------------------------------------
(* Properties.                                                             *)

Context == BuildContext(asked)
Matches(rule) == \A c \in Range(rule.conditions) : Test(c, Context) = "yes"
SomeMatch(effect) ==
  \E rule \in Range(judgedBy.rules) : rule.effect = effect /\ Matches(rule)

(* A runbook is let run by itself only by an allow rule all of whose       *)
(* conditions hold, and while no deny rule and no approval rule of the     *)
(* file matches, wherever in the file they stand; a file that cannot be    *)
(* read, or a rule that cannot be evaluated, never lets anything run.      *)
AllowIsJustified ==
  verdict = "allow" =>
    /\ judgedBy.yaml
    /\ SomeMatch("allow") /\ ~SomeMatch("deny") /\ ~SomeMatch("require_approval")

(* On a file whose rules can all be evaluated the decision is the one the  *)
(* header of engine.py describes: any deny, else any approval, else any    *)
(* allow, else approval.                                                   *)
Evaluable(rules) ==
  \A rule \in Range(rules) : \A c \in Range(rule.conditions) : c.op \in Operators

DecidedInStages ==
  verdict # "none" /\ judgedBy.yaml /\ Evaluable(judgedBy.rules) =>
    /\ verdict = "deny"  <=> SomeMatch("deny")
    /\ verdict = "allow" <=> /\ SomeMatch("allow")
                             /\ ~SomeMatch("deny") /\ ~SomeMatch("require_approval")

(* Under the shipped rules nothing runs by itself without a plan, on a     *)
(* production host, at high risk, below 0.9 confidence (a null or          *)
(* non-numeric one included) or outside the listed paths and services; and *)
(* the red lines are denied whatever the plan says.                        *)
RedLines ==
  verdict # "none" /\ judgedBy = Readable(Shipped) =>
    /\ verdict = "allow" =>
         /\ Get(asked.params, "target_host", None) \notin Strs(ProductionHosts)
         /\ Context["risk_level"] = Str("low")
         /\ Context["confidence"][1] = "num" /\ Context["confidence"][2] >= 90
         /\ \/ Context["path"] \in Strs(CleanPaths)
            \/ Context["service_name"] = Str("nginx")
    /\ asked.runbook_id = Str("service_restart") /\ Context["service_name"] \in Strs(Databases)
         => verdict = "deny"
    /\ asked.runbook_id = Str("disk_cleanup") /\ Context["path"] \in Strs(CriticalPaths)
         => verdict = "deny"
=============================================================================
