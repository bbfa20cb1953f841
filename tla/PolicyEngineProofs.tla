-------------------------- MODULE PolicyEngineProofs --------------------------
(* Theorems about PolicyEngine: for every list of hosts, every set of rule *)
(* files and every request.                                                *)
EXTENDS PolicyEngine, FiniteSetTheorems, WellFoundedInduction, TLAPS

(* The least number principle for First, from the well-foundedness of      *)
(* strict inclusion between the initial segments 0..i.                     *)
LEMMA FirstExists ==
  ASSUME NEW S \in SUBSET Nat, S # {}
  PROVE  First(S) \in S
<1> DEFINE R == StrictSubsetOrdering(Nat)
           Segments == {0..i : i \in S}
<1>1. IsWellFoundedOn(R, FiniteSubsetsOf(Nat))
  BY FS_StrictSubsetOrderingWellFounded
<1>2. Segments \subseteq FiniteSubsetsOf(Nat) /\ Segments # {}
  <2>1. \A i \in S : IsFiniteSet(0..i) /\ 0..i \subseteq Nat
    BY FS_Interval
  <2> QED BY <2>1 DEF FiniteSubsetsOf
<1>3. PICK x \in Segments : \A y \in Segments : ~(<<y, x>> \in R)
  <2> HIDE DEF R, Segments
  <2> QED BY <1>1, <1>2, WFMin
<1>4. PICK i \in S : x = 0..i
  BY <1>3
<1>5. ASSUME NEW j \in S PROVE i <= j
  <2>1. SUFFICES ASSUME j < i PROVE FALSE
    OBVIOUS
  <2>2. 0..j \subseteq 0..i /\ 0..j # 0..i
    <3>1. i \in 0..i /\ i \notin 0..j
      BY <2>1
    <3>2. 0..j \subseteq 0..i
      BY <2>1
    <3> QED BY <3>1, <3>2
  <2>3. 0..j \in SUBSET Nat /\ 0..i \in SUBSET Nat
    OBVIOUS
  <2>4. <<0..j, 0..i>> \in R
    BY <2>2, <2>3 DEF StrictSubsetOrdering
  <2> QED BY <1>3, <1>4, <2>4
<1> QED BY <1>5 DEF First

(* MatchAll is a conjunction: it says "yes" iff every condition holds.     *)
LEMMA MatchAllIsAnd ==
  ASSUME NEW conditions, NEW ctx, IsList(conditions)
  PROVE  MatchAll(conditions, ctx) = "yes"
           <=> \A i \in DOMAIN conditions : Test(conditions[i], ctx) = "yes"
<1> DEFINE unmet == {i \in DOMAIN conditions : Test(conditions[i], ctx) # "yes"}
<1>1. unmet \in SUBSET Nat
  BY DEF IsList
<1>2. unmet # {} => Test(conditions[First(unmet)], ctx) # "yes"
  <2> SUFFICES ASSUME unmet # {} PROVE First(unmet) \in unmet
    OBVIOUS
  <2> HIDE DEF unmet
  <2> QED BY <1>1, FirstExists
<1>3. unmet = {} <=> \A i \in DOMAIN conditions : Test(conditions[i], ctx) = "yes"
  OBVIOUS
<1>4. MatchAll(conditions, ctx) =
        IF unmet = {} THEN "yes" ELSE Test(conditions[First(unmet)], ctx)
  BY DEF MatchAll
<1> HIDE DEF unmet
<1> QED BY <1>2, <1>3, <1>4

(* A stage that ends with "no" has met no rule that matches.               *)
LEMMA StageNo ==
  ASSUME NEW rules, NEW effect, NEW ctx, IsList(rules),
         Stage(rules, effect, ctx) = "no"
  PROVE  \A i \in DOMAIN rules :
           rules[i].effect = effect => MatchAll(rules[i].conditions, ctx) = "no"
<1> DEFINE hits == {i \in DOMAIN rules :
                      rules[i].effect = effect /\ MatchAll(rules[i].conditions, ctx) # "no"}
<1>1. hits \in SUBSET Nat
  BY DEF IsList
<1>2. hits # {} => MatchAll(rules[First(hits)].conditions, ctx) # "no"
  <2> SUFFICES ASSUME hits # {} PROVE First(hits) \in hits
    OBVIOUS
  <2> HIDE DEF hits
  <2> QED BY <1>1, FirstExists
<1>3. hits # {} => Stage(rules, effect, ctx) = MatchAll(rules[First(hits)].conditions, ctx)
  BY DEF Stage
<1>4. hits = {}
  <2> HIDE DEF hits
  <2> QED BY <1>2, <1>3
<1> QED BY <1>4

(* A stage that ends with "yes" has met a rule that matches.               *)
LEMMA StageYes ==
  ASSUME NEW rules, NEW effect, NEW ctx, IsList(rules),
         Stage(rules, effect, ctx) = "yes"
  PROVE  \E i \in DOMAIN rules :
           rules[i].effect = effect /\ MatchAll(rules[i].conditions, ctx) = "yes"
<1> DEFINE hits == {i \in DOMAIN rules :
                      rules[i].effect = effect /\ MatchAll(rules[i].conditions, ctx) # "no"}
<1>1. hits \in SUBSET Nat
  BY DEF IsList
<1>2. hits # {} => First(hits) \in hits
  <2> HIDE DEF hits
  <2> QED BY <1>1, FirstExists
<1>3. /\ hits = {} => Stage(rules, effect, ctx) = "no"
      /\ hits # {} => Stage(rules, effect, ctx) = MatchAll(rules[First(hits)].conditions, ctx)
  BY DEF Stage
<1>4. hits # {}
  <2> HIDE DEF hits
  <2> QED BY <1>3
<1> QED BY <1>2, <1>3, <1>4

(* The decision "allow" comes from the third stage, after the first two    *)
(* have ended with "no".                                                   *)
LEMMA AllowStages ==
  ASSUME NEW f, NEW q, Judge(f, q) = "allow"
  PROVE  /\ f.yaml
         /\ Stage(f.rules, "deny", BuildContext(q)) = "no"
         /\ Stage(f.rules, "require_approval", BuildContext(q)) = "no"
         /\ Stage(f.rules, "allow", BuildContext(q)) = "yes"
<1> DEFINE ctx == BuildContext(q)
<1>1. f.yaml /\ EvaluatePolicy(f.rules, ctx) = "allow"
  BY DEF Judge
<1>2. Stage(f.rules, "deny", ctx) = "no"
  BY <1>1 DEF EvaluatePolicy
<1>3. Stage(f.rules, "require_approval", ctx) = "no"
  BY <1>1, <1>2 DEF EvaluatePolicy
<1>4. Stage(f.rules, "allow", ctx) = "yes"
  BY <1>1, <1>2, <1>3 DEF EvaluatePolicy
<1> QED BY <1>1, <1>2, <1>3, <1>4

(* The same, rule by rule: some allow rule holds in all its conditions and *)
(* no deny or approval rule does.                                          *)
THEOREM AllowRuleByRule ==
  ASSUME NEW f, NEW q, IsRules(f.rules), Judge(f, q) = "allow"
  PROVE  /\ f.yaml
         /\ \E i \in DOMAIN f.rules :
              /\ f.rules[i].effect = "allow"
              /\ \A j \in DOMAIN f.rules[i].conditions :
                   Test(f.rules[i].conditions[j], BuildContext(q)) = "yes"
         /\ \A i \in DOMAIN f.rules :
              f.rules[i].effect \in {"deny", "require_approval"} =>
                \E j \in DOMAIN f.rules[i].conditions :
                  Test(f.rules[i].conditions[j], BuildContext(q)) # "yes"
<1> DEFINE ctx == BuildContext(q)
           rules == f.rules
<1>1. f.yaml /\ Stage(rules, "deny", ctx) = "no" /\ Stage(rules, "require_approval", ctx) = "no"
        /\ Stage(rules, "allow", ctx) = "yes"
  BY AllowStages
<1>2. IsList(rules) /\ \A i \in DOMAIN rules : IsList(rules[i].conditions)
  BY DEF IsRules
<1> HIDE DEF ctx, rules
<1>3. \E i \in DOMAIN rules : rules[i].effect = "allow" /\ MatchAll(rules[i].conditions, ctx) = "yes"
  BY <1>1, <1>2, StageYes
<1>4. \A i \in DOMAIN rules : rules[i].effect = "deny" => MatchAll(rules[i].conditions, ctx) = "no"
  BY <1>1, <1>2, StageNo
<1>5. \A i \in DOMAIN rules : rules[i].effect = "require_approval" => MatchAll(rules[i].conditions, ctx) = "no"
  BY <1>1, <1>2, StageNo
<1>6. \A i \in DOMAIN rules : MatchAll(rules[i].conditions, ctx) = "yes"
        <=> \A j \in DOMAIN rules[i].conditions : Test(rules[i].conditions[j], ctx) = "yes"
  BY <1>2, MatchAllIsAnd
<1>7. /\ f.yaml
      /\ \E i \in DOMAIN rules :
           /\ rules[i].effect = "allow"
           /\ \A j \in DOMAIN rules[i].conditions : Test(rules[i].conditions[j], ctx) = "yes"
      /\ \A i \in DOMAIN rules :
           rules[i].effect \in {"deny", "require_approval"} =>
             \E j \in DOMAIN rules[i].conditions : Test(rules[i].conditions[j], ctx) # "yes"
  BY <1>1, <1>3, <1>4, <1>5, <1>6
<1> QED BY <1>7 DEF ctx, rules

-----------------------------------------------------------------------------
(* Rules that can be evaluated.                                            *)

(* No condition raises, so neither does the conjunction.                   *)
LEMMA MatchAllDecides ==
  ASSUME NEW conditions, NEW ctx, IsList(conditions),
         \A c \in Range(conditions) : c.op \in Operators
  PROVE  MatchAll(conditions, ctx) \in {"yes", "no"}
<1> DEFINE unmet == {i \in DOMAIN conditions : Test(conditions[i], ctx) # "yes"}
<1>1. \A i \in DOMAIN conditions : Test(conditions[i], ctx) \in {"yes", "no"}
  BY DEF Test, Range
<1>2. unmet \in SUBSET Nat /\ unmet \subseteq DOMAIN conditions
  BY DEF IsList
<1>3. MatchAll(conditions, ctx) =
        IF unmet = {} THEN "yes" ELSE Test(conditions[First(unmet)], ctx)
  BY DEF MatchAll
<1> HIDE DEF unmet
<1>4. unmet # {} => First(unmet) \in unmet
  BY <1>2, FirstExists
<1> QED BY <1>1, <1>2, <1>3, <1>4

(* ... and a stage says "yes" exactly when one of its rules matches.       *)
LEMMA StageDecides ==
  ASSUME NEW rules, NEW effect, NEW ctx, IsRules(rules), Evaluable(rules)
  PROVE  /\ Stage(rules, effect, ctx) \in {"yes", "no"}
         /\ Stage(rules, effect, ctx) = "yes"
              <=> \E i \in DOMAIN rules :
                    rules[i].effect = effect /\ MatchAll(rules[i].conditions, ctx) = "yes"
<1> DEFINE hits == {i \in DOMAIN rules :
                      rules[i].effect = effect /\ MatchAll(rules[i].conditions, ctx) # "no"}
<1>1. IsList(rules) /\ \A i \in DOMAIN rules : IsList(rules[i].conditions)
  BY DEF IsRules
<1>2. \A i \in DOMAIN rules : MatchAll(rules[i].conditions, ctx) \in {"yes", "no"}
  <2>1. \A i \in DOMAIN rules : \A c \in Range(rules[i].conditions) : c.op \in Operators
    BY DEF Evaluable, Range
  <2> QED BY <1>1, <2>1, MatchAllDecides
<1>3. hits \in SUBSET Nat /\ hits \subseteq DOMAIN rules
  BY <1>1 DEF IsList
<1>4. /\ hits = {} => Stage(rules, effect, ctx) = "no"
      /\ hits # {} => Stage(rules, effect, ctx) = MatchAll(rules[First(hits)].conditions, ctx)
  BY DEF Stage
<1>5. hits # {} => First(hits) \in hits
  <2> HIDE DEF hits
  <2> QED BY <1>3, FirstExists
<1>6. Stage(rules, effect, ctx) \in {"yes", "no"}
  <2> HIDE DEF hits
  <2> QED BY <1>2, <1>3, <1>4, <1>5
<1>7. Stage(rules, effect, ctx) = "no" =>
        \A i \in DOMAIN rules : rules[i].effect = effect => MatchAll(rules[i].conditions, ctx) = "no"
  BY <1>1, StageNo
<1>8. Stage(rules, effect, ctx) = "yes" =>
        \E i \in DOMAIN rules : rules[i].effect = effect /\ MatchAll(rules[i].conditions, ctx) = "yes"
  BY <1>1, StageYes
<1> QED BY <1>6, <1>7, <1>8

(* A rule of this effect matches.                                          *)
Says(rules, effect, ctx) ==
  \E i \in DOMAIN rules :
    rules[i].effect = effect /\ MatchAll(rules[i].conditions, ctx) = "yes"

(* The header of engine.py: any deny, else any approval, else any allow,   *)
(* else approval.                                                          *)
LEMMA JudgeDecides ==
  ASSUME NEW f, NEW q, f.yaml, IsRules(f.rules), Evaluable(f.rules)
  PROVE  LET says(effect) == Says(f.rules, effect, BuildContext(q))
         IN  /\ Judge(f, q) = "deny"  <=> says("deny")
             /\ Judge(f, q) = "allow" <=> says("allow") /\ ~says("deny") /\ ~says("require_approval")
<1> DEFINE S(effect) == Stage(f.rules, effect, BuildContext(q))
           says(effect) == Says(f.rules, effect, BuildContext(q))
<1>1. \A effect : S(effect) \in {"yes", "no"} /\ (S(effect) = "yes" <=> says(effect))
  BY StageDecides DEF Says
<1>2. Judge(f, q) = IF EvaluatePolicy(f.rules, BuildContext(q)) = "raises" THEN "approval_required"
                    ELSE EvaluatePolicy(f.rules, BuildContext(q))
  BY DEF Judge
<1>3. EvaluatePolicy(f.rules, BuildContext(q)) =
        IF S("deny") # "no" THEN (IF S("deny") = "yes" THEN "deny" ELSE "raises")
        ELSE IF S("require_approval") # "no"
             THEN (IF S("require_approval") = "yes" THEN "approval_required" ELSE "raises")
        ELSE IF S("allow") # "no" THEN (IF S("allow") = "yes" THEN "allow" ELSE "raises")
        ELSE "approval_required"
  BY DEF EvaluatePolicy
<1> HIDE DEF S, says
<1>4. /\ Judge(f, q) = "deny"  <=> says("deny")
      /\ Judge(f, q) = "allow" <=> says("allow") /\ ~says("deny") /\ ~says("require_approval")
  BY <1>1, <1>2, <1>3
<1> QED BY <1>4 DEF says

-----------------------------------------------------------------------------
(* The shipped rules.                                                      *)

(* What the red lines need of policies.yaml.                               *)
LEMMA ShippedRules ==
  /\ IsRules(Shipped) /\ Evaluable(Shipped)
  /\ Shipped[1].effect = "deny" /\ Shipped[2].effect = "deny"
  /\ Shipped[3].effect = "require_approval"
  /\ \A i \in DOMAIN Shipped : Shipped[i].effect = "allow" => i \in {6, 7}
  /\ DOMAIN Shipped = 1..7
<1>1. DOMAIN Shipped = 1..7 /\ IsList(Shipped)
  BY DEF Shipped, IsList
<1>2. /\ Shipped[1] = Rule("deny", <<Is("runbook_id", "disk_cleanup"), OneOf("path", CriticalPaths)>>)
      /\ Shipped[2] = Rule("deny", <<Is("runbook_id", "service_restart"), OneOf("service_name", Databases)>>)
      /\ Shipped[3] = Rule("require_approval", <<Is("host_tier", "production")>>)
      /\ Shipped[4] = Rule("require_approval", <<Is("risk_level", "high")>>)
      /\ Shipped[5] = Rule("require_approval", <<Below(90)>>)
      /\ Shipped[6] = Rule("allow", <<Is("runbook_id", "disk_cleanup"), OneOf("path", CleanPaths),
                                     Is("risk_level", "low"), AtLeast(90)>>)
      /\ Shipped[7] = Rule("allow", <<Is("runbook_id", "service_restart"), OneOf("service_name", {"nginx"}),
                                     Is("risk_level", "low"), AtLeast(90)>>)
  BY DEF Shipped
<1>3. /\ Shipped[1].effect = "deny" /\ Shipped[2].effect = "deny"
      /\ Shipped[3].effect = "require_approval" /\ Shipped[4].effect = "require_approval"
      /\ Shipped[5].effect = "require_approval"
  BY <1>2 DEF Rule
<1>4. \A i \in DOMAIN Shipped : IsList(Shipped[i].conditions)
  BY <1>1, <1>2 DEF Rule, IsList
<1>5. \A i \in DOMAIN Shipped : \A j \in DOMAIN Shipped[i].conditions :
        Shipped[i].conditions[j].op \in Operators
  BY <1>1, <1>2 DEF Rule, Operators, Is, OneOf, AtLeast, Below
<1>6. Evaluable(Shipped)
  BY <1>5 DEF Evaluable, Range
<1> QED BY <1>1, <1>3, <1>4, <1>6 DEF IsRules

(* A condition that holds says something about the context.                *)
LEMMA TestMeans ==
  ASSUME NEW ctx, NEW field, NEW str, NEW S, NEW n
  PROVE  /\ Test(Is(field, str), ctx) = "yes" <=> ctx[field] = Str(str)
         /\ Test(OneOf(field, S), ctx) = "yes" <=> ctx[field] \in Strs(S)
         /\ Test(AtLeast(n), ctx) = "yes" =>
              ctx["confidence"][1] = "num" /\ ctx["confidence"][2] >= n
<1>1. Test(Is(field, str), ctx) = "yes" <=> ctx[field] = Str(str)
  BY DEF Test, Is, Operators, Satisfied
<1>2. Test(OneOf(field, S), ctx) = "yes" <=> ctx[field] \in Strs(S)
  BY DEF Test, OneOf, Operators, Satisfied
<1>3. Test(AtLeast(n), ctx) = "yes" =>
        ctx["confidence"][1] = "num" /\ ctx["confidence"][2] >= n
  BY DEF Test, AtLeast, Operators, Satisfied, Ordered, Num
<1> QED BY <1>1, <1>2, <1>3

(* What the shipped rules let run by itself.                               *)
Harmless(ctx) ==
  /\ ctx["host_tier"] # Str("production")
  /\ ctx["risk_level"] = Str("low")
  /\ ctx["confidence"][1] = "num" /\ ctx["confidence"][2] >= 90
  /\ ctx["path"] \in Strs(CleanPaths) \/ ctx["service_name"] = Str("nginx")

(* The shipped rules allow nothing but low risk, high confidence, listed   *)
(* paths and services, off production.                                     *)
THEOREM ShippedAllows ==
  ASSUME NEW q, Judge(Readable(Shipped), q) = "allow"
  PROVE  Harmless(BuildContext(q))
<1> DEFINE ctx == BuildContext(q)
           Holds(i) == \A j \in DOMAIN Shipped[i].conditions : Test(Shipped[i].conditions[j], ctx) = "yes"
<1>1. /\ \E i \in DOMAIN Shipped : Shipped[i].effect = "allow" /\ Holds(i)
      /\ \A i \in DOMAIN Shipped :
           Shipped[i].effect \in {"deny", "require_approval"} => ~Holds(i)
  <2>1. Readable(Shipped).rules = Shipped
    BY DEF Readable
  <2> QED BY <2>1, AllowRuleByRule, ShippedRules
<1>2. ~Holds(3) /\ (Holds(6) \/ Holds(7))
  <2> HIDE DEF Holds
  <2> QED BY <1>1, ShippedRules
<1>3. Shipped[3].conditions = <<Is("host_tier", "production")>>
  BY DEF Shipped, Rule
<1>4. ctx["host_tier"] # Str("production")
  <2> HIDE DEF ctx
  <2>1. Test(Is("host_tier", "production"), ctx) # "yes"
    BY <1>2, <1>3
  <2> QED BY <2>1, TestMeans
<1>5. Holds(6) => /\ ctx["path"] \in Strs(CleanPaths) /\ ctx["risk_level"] = Str("low")
                  /\ ctx["confidence"][1] = "num" /\ ctx["confidence"][2] >= 90
  <2> HIDE DEF ctx
  <2>1. Shipped[6].conditions = <<Is("runbook_id", "disk_cleanup"), OneOf("path", CleanPaths),
                                  Is("risk_level", "low"), AtLeast(90)>>
    BY DEF Shipped, Rule
  <2>2. Holds(6) => /\ Test(OneOf("path", CleanPaths), ctx) = "yes"
                    /\ Test(Is("risk_level", "low"), ctx) = "yes" /\ Test(AtLeast(90), ctx) = "yes"
    BY <2>1
  <2> HIDE DEF Holds
  <2> QED BY <2>2, TestMeans
<1>6. Holds(7) => /\ ctx["service_name"] \in Strs({"nginx"}) /\ ctx["risk_level"] = Str("low")
                  /\ ctx["confidence"][1] = "num" /\ ctx["confidence"][2] >= 90
  <2> HIDE DEF ctx
  <2>1. Shipped[7].conditions = <<Is("runbook_id", "service_restart"), OneOf("service_name", {"nginx"}),
                                  Is("risk_level", "low"), AtLeast(90)>>
    BY DEF Shipped, Rule
  <2>2. Holds(7) => /\ Test(OneOf("service_name", {"nginx"}), ctx) = "yes"
                    /\ Test(Is("risk_level", "low"), ctx) = "yes" /\ Test(AtLeast(90), ctx) = "yes"
    BY <2>1
  <2> HIDE DEF Holds
  <2> QED BY <2>2, TestMeans
<1> HIDE DEF ctx, Holds
<1>7. Harmless(ctx)
  BY <1>2, <1>4, <1>5, <1>6 DEF Harmless, Strs
<1> QED BY <1>7 DEF ctx

(* Without a plan (the agent failed, or chose "none") nothing runs by      *)
(* itself: AlertWorkflow relies on it.                                     *)
THEOREM PlanlessNeverAllowed ==
  ASSUME NEW q, DOMAIN q.plan = {}
  PROVE  Judge(Readable(Shipped), q) # "allow"
<1> SUFFICES ASSUME Judge(Readable(Shipped), q) = "allow" PROVE FALSE
  OBVIOUS
<1>1. BuildContext(q)["risk_level"] = Str("low")
  BY ShippedAllows DEF Harmless
<1>2. BuildContext(q)["risk_level"] = None
  BY DEF BuildContext, Get
<1>3. None[1] = "none" /\ Str("low")[1] = "str"
  BY DEF None, Str
<1> QED BY <1>1, <1>2, <1>3

(* The red lines are denied.                                               *)
THEOREM ShippedDenies ==
  ASSUME NEW q,
         \/ q.runbook_id = Str("service_restart") /\ BuildContext(q)["service_name"] \in Strs(Databases)
         \/ q.runbook_id = Str("disk_cleanup") /\ BuildContext(q)["path"] \in Strs(CriticalPaths)
  PROVE  Judge(Readable(Shipped), q) = "deny"
<1> DEFINE ctx == BuildContext(q)
<1>1. Readable(Shipped).rules = Shipped /\ Readable(Shipped).yaml
  BY DEF Readable
<1>2. ctx["runbook_id"] = q.runbook_id
  BY DEF BuildContext
<1>3. /\ Shipped[1].conditions = <<Is("runbook_id", "disk_cleanup"), OneOf("path", CriticalPaths)>>
      /\ Shipped[2].conditions = <<Is("runbook_id", "service_restart"), OneOf("service_name", Databases)>>
  BY DEF Shipped, Rule
<1> HIDE DEF ctx
<1>4. ASSUME q.runbook_id = Str("disk_cleanup"), ctx["path"] \in Strs(CriticalPaths)
      PROVE  MatchAll(Shipped[1].conditions, ctx) = "yes"
  <2>1. Test(Is("runbook_id", "disk_cleanup"), ctx) = "yes" /\ Test(OneOf("path", CriticalPaths), ctx) = "yes"
    BY <1>2, <1>4, TestMeans
  <2>2. \A j \in DOMAIN Shipped[1].conditions : Test(Shipped[1].conditions[j], ctx) = "yes"
    BY <1>3, <2>1
  <2> QED BY <2>2, MatchAllIsAnd, ShippedRules DEF IsRules
<1>5. ASSUME q.runbook_id = Str("service_restart"), ctx["service_name"] \in Strs(Databases)
      PROVE  MatchAll(Shipped[2].conditions, ctx) = "yes"
  <2>1. Test(Is("runbook_id", "service_restart"), ctx) = "yes" /\ Test(OneOf("service_name", Databases), ctx) = "yes"
    BY <1>2, <1>5, TestMeans
  <2>2. \A j \in DOMAIN Shipped[2].conditions : Test(Shipped[2].conditions[j], ctx) = "yes"
    BY <1>3, <2>1
  <2> QED BY <2>2, MatchAllIsAnd, ShippedRules DEF IsRules
<1>6. Says(Shipped, "deny", ctx)
  BY <1>4, <1>5, ShippedRules DEF Says, ctx
<1> QED BY <1>1, <1>6, JudgeDecides, ShippedRules DEF ctx

-----------------------------------------------------------------------------
(* The specification.                                                      *)

(* The verdict on record is what the file on record says of the request.   *)
Judged == verdict # "none" => verdict = Judge(judgedBy, asked)

IInv == TypeOK /\ Judged

(* A decision is one of three. *)
LEMMA JudgeType ==
  ASSUME NEW f, NEW q
  PROVE  Judge(f, q) \in Decisions
<1>1. EvaluatePolicy(f.rules, BuildContext(q)) \in Decisions \cup {"raises"}
  BY DEF EvaluatePolicy, Decisions
<1> QED BY <1>1 DEF Judge, Decisions

(* The verdict is always the one of the file it was judged by, however the *)
(* file is edited between two attempts.                                    *)
LEMMA Inductive == Spec => []IInv
<1>1. Init => IInv
  BY DEF Init, IInv, TypeOK, Judged, PolicyFiles
<1>2. IInv /\ [Next]_vars => IInv'
  <2> SUFFICES ASSUME IInv, [Next]_vars PROVE IInv'
    OBVIOUS
  <2> USE DEF IInv, TypeOK, Judged
  <2>1. ASSUME NEW f \in PolicyFiles, EditFile(f) PROVE IInv'
    BY <2>1 DEF EditFile
  <2>2. CASE EvaluatePolicyActivity
    BY <2>2, JudgeType DEF EvaluatePolicyActivity
  <2>3. CASE UNCHANGED vars
    BY <2>3 DEF vars
  <2> QED BY <2>1, <2>2, <2>3 DEF Next
<1> QED BY <1>1, <1>2, PTL DEF Spec

(* Every variable keeps its type.                                          *)
THEOREM TypeCorrect == Spec => []TypeOK
<1>1. IInv => TypeOK
  BY DEF IInv
<1> QED BY <1>1, Inductive, PTL

(* Nothing runs by itself but by an allow rule that holds and with no      *)
(* other rule in the way, for every rule file an operator may write.       *)
THEOREM AllowsAreJustified == Spec => []AllowIsJustified
<1>1. IInv => AllowIsJustified
  <2> SUFFICES ASSUME IInv, verdict = "allow"
               PROVE  /\ judgedBy.yaml
                      /\ SomeMatch("allow") /\ ~SomeMatch("deny") /\ ~SomeMatch("require_approval")
    BY DEF AllowIsJustified
  <2>1. Judge(judgedBy, asked) = "allow"
    BY DEF IInv, Judged
  <2>2. IsRules(judgedBy.rules)
    BY FilesAssumption, ShippedRules DEF IInv, TypeOK, PolicyFiles, Readable
  <2>3. /\ judgedBy.yaml
        /\ \E i \in DOMAIN judgedBy.rules :
             /\ judgedBy.rules[i].effect = "allow"
             /\ \A j \in DOMAIN judgedBy.rules[i].conditions :
                  Test(judgedBy.rules[i].conditions[j], Context) = "yes"
        /\ \A i \in DOMAIN judgedBy.rules :
             judgedBy.rules[i].effect \in {"deny", "require_approval"} =>
               \E j \in DOMAIN judgedBy.rules[i].conditions :
                 Test(judgedBy.rules[i].conditions[j], Context) # "yes"
    BY <2>1, <2>2, AllowRuleByRule DEF Context
  <2> QED BY <2>3 DEF SomeMatch, Matches, Range
<1> QED BY <1>1, Inductive, PTL

(* The shipped rules keep the red lines, for every list of hosts and every *)
(* request.                                                                *)
THEOREM RedLinesHold == Spec => []RedLines
<1>1. IInv => RedLines
  <2> SUFFICES ASSUME IInv, verdict # "none", judgedBy = Readable(Shipped) PROVE RedLines
    BY DEF RedLines
  <2>1. verdict = Judge(Readable(Shipped), asked)
    BY DEF IInv, Judged
  <2>2. verdict = "allow" => Harmless(Context)
    BY <2>1, ShippedAllows DEF Context
  <2>3. asked.runbook_id = Str("service_restart") /\ Context["service_name"] \in Strs(Databases)
          => verdict = "deny"
    BY <2>1, ShippedDenies DEF Context
  <2>4. asked.runbook_id = Str("disk_cleanup") /\ Context["path"] \in Strs(CriticalPaths)
          => verdict = "deny"
    BY <2>1, ShippedDenies DEF Context
  <2>5. Context["host_tier"] # Str("production")
          => Get(asked.params, "target_host", None) \notin Strs(ProductionHosts)
    BY DEF Context, BuildContext, LookupTier
  <2> QED BY <2>2, <2>3, <2>4, <2>5 DEF RedLines, Harmless
<1> QED BY <1>1, Inductive, PTL

(* Whatever the file says, if its rules can be evaluated, the decision is  *)
(* deny if a deny rule matches, else allow only if no approval rule does.  *)
THEOREM DecisionsAreStaged == Spec => []DecidedInStages
<1>1. IInv => DecidedInStages
  <2> SUFFICES ASSUME IInv, verdict # "none", judgedBy.yaml, Evaluable(judgedBy.rules)
               PROVE  DecidedInStages
    BY DEF DecidedInStages
  <2>1. IsRules(judgedBy.rules)
    BY FilesAssumption, ShippedRules DEF IInv, TypeOK, PolicyFiles, Readable
  <2>2. \A effect : SomeMatch(effect) <=> Says(judgedBy.rules, effect, Context)
    <3>1. \A i \in DOMAIN judgedBy.rules :
            Matches(judgedBy.rules[i]) <=> MatchAll(judgedBy.rules[i].conditions, Context) = "yes"
      BY <2>1, MatchAllIsAnd DEF Matches, Range, IsRules
    <3> QED BY <3>1 DEF SomeMatch, Says, Range
  <2>3. verdict = Judge(judgedBy, asked)
    BY DEF IInv, Judged
  <2> QED BY <2>1, <2>2, <2>3, JudgeDecides DEF DecidedInStages, Context
<1> QED BY <1>1, Inductive, PTL
=============================================================================
