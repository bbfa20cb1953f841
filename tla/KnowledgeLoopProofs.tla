------------------------- MODULE KnowledgeLoopProofs --------------------------
(***************************************************************************)
(* The knowledge loop for any runs, cases, thresholds and number of        *)
(* faults: types, the log behind every row, the successes behind every SOP *)
(* and the labels of the rows.                                             *)
(*                                                                         *)
(* All of them count.  For a set G of runs, Weight(G) is the number of     *)
(* rows and of waiting INSERTs of its runs: only write_audit adds to it,   *)
(* one per attempt, and each time writes a line and either is done with    *)
(* the run or has used up a fault.  For the labels, see LabelInv.          *)
(***************************************************************************)
EXTENDS KnowledgeLoop, FiniteSetTheorems, SequenceTheorems, TLAPS

Row == [run : Runs, label : Runs \cup {NoRun}]

RowsIn(G) == {i \in DOMAIN rows : rows[i].run \in G}
LateIn(G) == {x \in late : x[1] = "insert" /\ x[2] \in G}
Weight(G) == Cardinality(RowsIn(G)) + Cardinality(LateIn(G))

(* Runs that were diagnosed.                                               *)
Begun == {r \in Runs : stage[r] # "idle"}

(* A run that has not begun has left no trace.                             *)
NoTrace ==
  /\ IsFiniteSet(Begun) /\ IsFiniteSet(late)
  /\ \A i \in DOMAIN rows : rows[i].run \in Begun
  /\ \A x \in late : x[1] = "insert" => x[2] \in Begun
  /\ \A r \in Runs \ Begun : decision[r] = "none"

(* An attempt writes at most one line.                                     *)
Budget ==
  \A r \in Runs :
    /\ stage[r] = "idle" => lines[r] = 0 /\ attempt[r] = 1
    /\ stage[r] = "audit" => lines[r] < attempt[r]

BaseInv == TypeOK /\ NoTrace /\ Budget

-----------------------------------------------------------------------------
(* What the statements do to rows and weights.                             *)

LEMMA RowsTyped ==
  ASSUME BaseInv
  PROVE  /\ rows \in Seq(Row) /\ Len(rows) \in Nat /\ DOMAIN rows = 1..Len(rows)
         /\ rows \in [1..Len(rows) -> Row]
  BY LenProperties DEF BaseInv, TypeOK, Row

LEMMA FiniteWeights ==
  ASSUME BaseInv, NEW G \in SUBSET Runs
  PROVE  /\ IsFiniteSet(RowsIn(G)) /\ IsFiniteSet(LateIn(G))
         /\ Cardinality(RowsIn(G)) \in Nat /\ Cardinality(LateIn(G)) \in Nat
<1>1. IsFiniteSet(RowsIn(G))
  <2>1. IsFiniteSet(1..Len(rows)) /\ RowsIn(G) \in SUBSET (1..Len(rows))
    BY RowsTyped, FS_Interval DEF RowsIn
  <2> QED BY <2>1, FS_Subset
<1>2. IsFiniteSet(LateIn(G))
  <2>1. IsFiniteSet(late) /\ LateIn(G) \in SUBSET late
    BY DEF BaseInv, NoTrace, LateIn
  <2> QED BY <2>1, FS_Subset
<1> QED BY <1>1, <1>2, FS_CardinalityType

LEMMA InsertCounts ==
  ASSUME BaseInv, NEW G \in SUBSET Runs, NEW r \in Runs, Insert(r)
  PROVE  /\ rows' \in Seq(Row)
         /\ \A i \in DOMAIN rows' : rows'[i].run = r \/ \E j \in DOMAIN rows : rows'[i] = rows[j]
         /\ r \notin G => RowsIn(G)' = RowsIn(G)
         /\ r \in G => Cardinality(RowsIn(G)') = Cardinality(RowsIn(G)) + 1
<1> DEFINE new == [run |-> r, label |-> NoRun]
<1>1. rows \in Seq(Row) /\ new \in Row /\ rows' = Append(rows, new)
  BY RowsTyped DEF Insert, Row
<1>2. /\ rows' \in Seq(Row) /\ Len(rows') = Len(rows) + 1
      /\ \A i \in 1..Len(rows) : rows'[i] = rows[i]
      /\ rows'[Len(rows) + 1] = new
  BY <1>1, AppendProperties
<1>3. DOMAIN rows' = 1..(Len(rows) + 1) /\ DOMAIN rows = 1..Len(rows) /\ Len(rows) \in Nat
  BY <1>2, RowsTyped, LenProperties
<1>4. r \notin G => RowsIn(G)' = RowsIn(G)
  BY <1>2, <1>3 DEF RowsIn
<1>5. ASSUME r \in G
      PROVE  Cardinality(RowsIn(G)') = Cardinality(RowsIn(G)) + 1
  <2>1. RowsIn(G)' = RowsIn(G) \cup {Len(rows) + 1} /\ Len(rows) + 1 \notin RowsIn(G)
    BY <1>2, <1>3, <1>5 DEF RowsIn
  <2> QED BY <2>1, FiniteWeights, FS_AddElement
<1>6. \A i \in DOMAIN rows' : rows'[i].run = r \/ \E j \in DOMAIN rows : rows'[i] = rows[j]
  BY <1>2, <1>3
<1> QED BY <1>2, <1>4, <1>5, <1>6

LEMMA MarkCounts ==
  ASSUME BaseInv, NEW r \in Runs, Mark(r)
  PROVE  /\ rows' \in Seq(Row) /\ DOMAIN rows' = DOMAIN rows
         /\ \A i \in DOMAIN rows : rows'[i].run = rows[i].run
<1>1. CASE rows' = rows
  BY <1>1, RowsTyped
<1>2. CASE rows' # rows
  <2> DEFINE k == LatestOf(EventOf[r])
  <2>1. rows' = [rows EXCEPT ![k].label = r]
    BY <1>2 DEF Mark
  <2>2. /\ rows' \in [1..Len(rows) -> Row]
        /\ \A i \in DOMAIN rows : rows'[i].run = rows[i].run
    BY <2>1, RowsTyped DEF Row
  <2>3. rows' \in Seq(Row)
    BY <2>2, RowsTyped
  <2> QED BY <2>2, <2>3, RowsTyped
<1> QED BY <1>1, <1>2

LEMMA DelayCounts ==
  ASSUME BaseInv, NEW G \in SUBSET Runs, NEW r \in Runs, Delay("insert", r)
  PROVE  /\ r \notin G => LateIn(G)' = LateIn(G)
         /\ Cardinality(LateIn(G)') \in Nat
         /\ Cardinality(LateIn(G)') <= Cardinality(LateIn(G)) + 1
<1>1. CASE r \in G
  <2> DEFINE x == <<"insert", r, attempt[r]>>
  <2>1. LateIn(G)' = LateIn(G) \cup {x}
    BY <1>1 DEF Delay, LateIn
  <2>2. Cardinality(LateIn(G)') =
          IF x \in LateIn(G) THEN Cardinality(LateIn(G)) ELSE Cardinality(LateIn(G)) + 1
    BY <2>1, FiniteWeights, FS_AddElement
  <2>3. Cardinality(LateIn(G)) \in Nat
    BY FiniteWeights
  <2> QED BY <1>1, <2>2, <2>3
<1>2. CASE r \notin G
  <2>1. LateIn(G)' = LateIn(G)
    BY <1>2 DEF Delay, LateIn
  <2> QED BY <2>1, FiniteWeights
<1> QED BY <1>1, <1>2

(* One attempt adds at most one to the weight of its run, and then a line. *)
LEMMA WriteCounts ==
  ASSUME BaseInv, NEW G \in SUBSET Runs, NEW r \in Runs, WriteAudit(r)
  PROVE  /\ Weight(G)' \in Nat /\ Weight(G)' <= Weight(G) + 1
         /\ r \notin G => Weight(G)' = Weight(G)
         /\ Weight(G)' = Weight(G) \/ Log(r)
<1>1. Cardinality(RowsIn(G)) \in Nat /\ Cardinality(LateIn(G)) \in Nat
  BY FiniteWeights
<1>2. CASE UNCHANGED <<rows, late>>
  BY <1>1, <1>2 DEF Weight, RowsIn, LateIn
<1>3. CASE Log(r) /\ Insert(r) /\ late' = late
  <2>1. LateIn(G)' = LateIn(G)
    BY <1>3 DEF LateIn
  <2> QED BY <1>1, <1>3, <2>1, InsertCounts DEF Weight
<1>4. CASE Log(r) /\ Delay("insert", r) /\ rows' = rows
  <2>1. RowsIn(G)' = RowsIn(G)
    BY <1>4 DEF RowsIn
  <2> QED BY <1>1, <1>4, <2>1, DelayCounts DEF Weight
<1> QED BY <1>2, <1>3, <1>4 DEF WriteAudit

(* A waiting INSERT that takes effect keeps the weight; labels have none.  *)
LEMMA OtherCounts ==
  ASSUME BaseInv, NEW G \in SUBSET Runs, NEW r \in Runs, LabelFeedback(r) \/ LateStatement(r)
  PROVE  Weight(G)' = Weight(G)
<1>1. Cardinality(RowsIn(G)) \in Nat /\ Cardinality(LateIn(G)) \in Nat
  BY FiniteWeights
<1>2. ASSUME NEW n, <<"insert", r, n>> \in late, Insert(r), late' = late \ {<<"insert", r, n>>}
      PROVE  Weight(G)' = Weight(G)
  <2>1. CASE r \in G
    <3>1. LateIn(G)' = LateIn(G) \ {<<"insert", r, n>>} /\ <<"insert", r, n>> \in LateIn(G)
      BY <1>2, <2>1 DEF LateIn
    <3>2. Cardinality(LateIn(G)') = Cardinality(LateIn(G)) - 1
      <4> DEFINE x == <<"insert", r, n>>
      <4>1. IsFiniteSet(LateIn(G)) /\ x \in LateIn(G) /\ LateIn(G)' = LateIn(G) \ {x}
        BY <3>1, FiniteWeights
      <4> HIDE DEF x
      <4> QED BY <4>1, FS_RemoveElement
    <3> QED BY <1>1, <1>2, <2>1, <3>2, InsertCounts DEF Weight
  <2>2. CASE r \notin G
    <3>1. LateIn(G)' = LateIn(G)
      BY <1>2, <2>2 DEF LateIn
    <3> QED BY <1>2, <2>2, <3>1, InsertCounts DEF Weight
  <2> QED BY <2>1, <2>2
<1>3. CASE /\ rows' = rows \/ Mark(r)
           /\ \A x : x[1] = "insert" => (x \in late' <=> x \in late)
  <2>1. DOMAIN rows' = DOMAIN rows /\ \A i \in DOMAIN rows : rows'[i].run = rows[i].run
    BY <1>3, MarkCounts
  <2>2. RowsIn(G)' = RowsIn(G)
    BY <2>1 DEF RowsIn
  <2>3. LateIn(G)' = LateIn(G)
    BY <1>3 DEF LateIn
  <2> QED BY <2>2, <2>3 DEF Weight
<1>4. CASE LabelFeedback(r)
  <2>1. late' = late \/ late' = late \cup {<<"label", r, attempt[r]>>}
    BY <1>4 DEF LabelFeedback, Delay
  <2>2. \A x : x[1] = "insert" => (x \in late' <=> x \in late)
    BY <2>1
  <2> QED BY <1>3, <1>4, <2>2 DEF LabelFeedback
<1>5. CASE LateStatement(r)
  <2>1. ASSUME NEW n, Mark(r), late' = late \ {<<"label", r, n>>} PROVE Weight(G)' = Weight(G)
    <3>1. \A x : x[1] = "insert" => (x \in late' <=> x \in late)
      BY <2>1
    <3> QED BY <1>3, <2>1, <3>1
  <2> QED BY <1>2, <1>5, <2>1 DEF LateStatement
<1> QED BY <1>4, <1>5

-----------------------------------------------------------------------------
(* Types and traces.                                                       *)

LEMMA BaseInit == Init => BaseInv
<1> SUFFICES ASSUME Init PROVE BaseInv
  OBVIOUS
<1>1. Begun = {} /\ IsFiniteSet(Begun)
  BY FS_EmptySet DEF Init, Begun
<1>2. rows \in Seq(Row) /\ DOMAIN rows = {}
  BY DEF Init
<1>3. TypeOK
  <2>1. /\ stage \in [Runs -> {"idle", "audit", "label", "done"}]
        /\ decision \in [Runs -> Decisions \cup {"none"}]
        /\ attempt \in [Runs -> 1..NotifyAttempts] /\ lines \in [Runs -> 0..NotifyAttempts]
        /\ faults \in 0..MaxFaults
    BY KnowledgeAssumption DEF Init
  <2> QED BY <1>2, <2>1 DEF Init, TypeOK, Row
<1> QED BY <1>1, <1>2, <1>3 DEF Init, BaseInv, NoTrace, Budget

(* The workflow's steps, apart from the first, leave Begun as it is.       *)
LEMMA StageMoves ==
  ASSUME BaseInv, NEW r \in Runs, stage[r] \in {"audit", "label"}, Proceed(r) \/ Again(r)
  PROVE  /\ stage' \in [Runs -> {"idle", "audit", "label", "done"}]
         /\ attempt' \in [Runs -> 1..NotifyAttempts] /\ decision' = decision
         /\ \A q \in Runs : q # r => stage'[q] = stage[q] /\ attempt'[q] = attempt[q]
         /\ stage'[r] # "idle" /\ Begun' = Begun
         /\ stage'[r] = "audit" => stage[r] = "audit" /\ attempt'[r] = attempt[r] + 1
<1> USE KnowledgeAssumption DEF BaseInv, TypeOK
<1>1. /\ decision' = decision
      /\ \/ /\ attempt[r] < NotifyAttempts /\ stage' = stage
            /\ attempt' = [attempt EXCEPT ![r] = @ + 1]
         \/ \E s \in {"label", "done"} :
              stage' = [stage EXCEPT ![r] = s] /\ attempt' = [attempt EXCEPT ![r] = 1]
  BY DEF Proceed, Again, Goto
<1>2. /\ stage' \in [Runs -> {"idle", "audit", "label", "done"}]
      /\ attempt' \in [Runs -> 1..NotifyAttempts]
  <2>1. attempt[r] \in Nat /\ attempt[r] >= 1 /\ NotifyAttempts \in Nat /\ NotifyAttempts >= 1
    OBVIOUS
  <2>2. CASE /\ attempt[r] < NotifyAttempts /\ stage' = stage
             /\ attempt' = [attempt EXCEPT ![r] = @ + 1]
    <3>1. attempt[r] + 1 \in 1..NotifyAttempts
      BY <2>1, <2>2
    <3> QED BY <2>2, <3>1
  <2>3. CASE \E s \in {"label", "done"} :
               stage' = [stage EXCEPT ![r] = s] /\ attempt' = [attempt EXCEPT ![r] = 1]
    <3>1. 1 \in 1..NotifyAttempts
      BY <2>1
    <3> QED BY <2>3, <3>1
  <2> QED BY <1>1, <2>2, <2>3
<1>3. /\ \A q \in Runs : q # r => stage'[q] = stage[q] /\ attempt'[q] = attempt[q]
      /\ stage'[r] # "idle"
      /\ stage'[r] = "audit" => stage[r] = "audit" /\ attempt'[r] = attempt[r] + 1
  BY <1>1
<1>4. Begun' = Begun
  BY <1>3 DEF Begun
<1> QED BY <1>1, <1>2, <1>3, <1>4

LEMMA WriteAuditBase ==
  ASSUME BaseInv, NEW r \in Runs, WriteAudit(r)
  PROVE  BaseInv'
<1>1. /\ stage[r] = "audit" /\ UNCHANGED <<sop, drafted>>
      /\ Proceed(r) \/ Again(r)
      /\ faults' \in 0..MaxFaults
      /\ Log(r) \/ UNCHANGED lines
      /\ Insert(r) \/ UNCHANGED rows
      /\ Delay("insert", r) \/ UNCHANGED late
  BY KnowledgeAssumption DEF WriteAudit, Fault, BaseInv, TypeOK
<1>2. lines' \in [Runs -> 0..NotifyAttempts]
  <2>1. lines[r] \in Nat /\ attempt[r] \in 1..NotifyAttempts /\ lines[r] < attempt[r]
    BY <1>1, KnowledgeAssumption DEF BaseInv, TypeOK, Budget
  <2>2. lines[r] + 1 \in 0..NotifyAttempts
    BY <2>1, KnowledgeAssumption
  <2> QED BY <1>1, <2>2 DEF Log, BaseInv, TypeOK
<1>3. Budget'
  <2>1. /\ lines \in [Runs -> Nat] /\ attempt[r] \in Nat
        /\ lines[r] < attempt[r]
    BY <1>1 DEF Budget, BaseInv, TypeOK
  <2>2. \A q \in Runs : q # r => lines'[q] = lines[q]
    BY <1>1, <2>1 DEF Log
  <2>3. lines'[r] <= lines[r] + 1 /\ lines'[r] \in Nat
    BY <1>1, <2>1 DEF Log
  <2>4. /\ \A q \in Runs : q # r => stage'[q] = stage[q] /\ attempt'[q] = attempt[q]
        /\ stage'[r] # "idle" /\ (stage'[r] = "audit" => attempt'[r] = attempt[r] + 1)
    BY <1>1, StageMoves
  <2>5. lines[r] \in Nat
    BY <2>1
  <2>6. stage'[r] = "audit" => lines'[r] < attempt'[r]
    BY <2>1, <2>3, <2>4, <2>5
  <2> QED BY <2>2, <2>4, <2>6 DEF Budget, BaseInv
<1>4. rows' \in Seq(Row) /\ \A i \in DOMAIN rows' : rows'[i].run \in Begun
  <2>1. CASE Insert(r)
    BY <1>1, <2>1, InsertCounts DEF BaseInv, NoTrace, Begun
  <2>2. CASE UNCHANGED rows
    BY <2>2, RowsTyped DEF BaseInv, NoTrace
  <2> QED BY <1>1, <2>1, <2>2
<1>5. late' \subseteq {"insert", "label"} \X Runs \X (1..NotifyAttempts)
  BY <1>1 DEF Delay, BaseInv, TypeOK
<1>6. IsFiniteSet(late') /\ \A x \in late' : x[1] = "insert" => x[2] \in Begun
  <2>1. late' = late \/ late' = late \cup {<<"insert", r, attempt[r]>>}
    BY <1>1 DEF Delay
  <2>2. IsFiniteSet(late')
    BY <2>1, FS_AddElement DEF BaseInv, NoTrace
  <2>3. r \in Begun
    BY <1>1 DEF Begun
  <2>4. \A x \in late' : x \in late \/ x[2] = r
    BY <2>1
  <2> QED BY <2>2, <2>3, <2>4 DEF BaseInv, NoTrace
<1>7. TypeOK'
  BY <1>1, <1>2, <1>4, <1>5, StageMoves DEF BaseInv, TypeOK, Present, Row, sop
<1>8. NoTrace'
  BY <1>1, <1>4, <1>6, StageMoves DEF BaseInv, NoTrace
<1> QED BY <1>3, <1>7, <1>8 DEF BaseInv

LEMMA LabelBase ==
  ASSUME BaseInv, NEW r \in Runs, LabelFeedback(r) \/ LateStatement(r)
  PROVE  BaseInv'
<1>1. /\ UNCHANGED <<lines, sop, drafted>>
      /\ faults' \in 0..MaxFaults
      /\ (Insert(r) /\ \E n : <<"insert", r, n>> \in late) \/ Mark(r) \/ UNCHANGED rows
      /\ late' \subseteq late \cup {<<"label", r, attempt[r]>>}
  <2>1. CASE LabelFeedback(r)
    <3>1. late' = late \/ late' = late \cup {<<"label", r, attempt[r]>>}
      BY <2>1 DEF LabelFeedback, Delay
    <3>2. faults' \in 0..MaxFaults
      BY <2>1, KnowledgeAssumption DEF LabelFeedback, Fault, BaseInv, TypeOK
    <3> QED BY <2>1, <3>1, <3>2 DEF LabelFeedback
  <2>2. CASE LateStatement(r)
    <3>1. late' \subseteq late /\ faults' = faults /\ UNCHANGED <<lines, sop, drafted>>
      BY <2>2 DEF LateStatement
    <3>2. (Insert(r) /\ \E n : <<"insert", r, n>> \in late) \/ Mark(r)
      BY <2>2 DEF LateStatement
    <3> QED BY <3>1, <3>2 DEF BaseInv, TypeOK
  <2> QED BY <2>1, <2>2
<1>2. /\ stage' \in [Runs -> {"idle", "audit", "label", "done"}]
      /\ attempt' \in [Runs -> 1..NotifyAttempts] /\ decision' = decision
      /\ Begun' = Begun
      /\ \A q \in Runs : stage'[q] \in {"idle", "audit"}
                         => stage'[q] = stage[q] /\ attempt'[q] = attempt[q]
  <2>1. CASE LabelFeedback(r)
    BY <2>1, StageMoves DEF LabelFeedback
  <2>2. CASE LateStatement(r)
    BY <2>2 DEF LateStatement, flow, BaseInv, TypeOK, Begun
  <2> QED BY <2>1, <2>2
<1>3. rows' \in Seq(Row) /\ \A i \in DOMAIN rows' : rows'[i].run \in Begun
  <2>1. CASE Insert(r) /\ \E n : <<"insert", r, n>> \in late
    <3>1. r \in Begun
      BY <2>1 DEF BaseInv, NoTrace
    <3> QED BY <2>1, <3>1, InsertCounts DEF BaseInv, NoTrace
  <2>2. CASE Mark(r)
    BY <2>2, MarkCounts DEF BaseInv, NoTrace
  <2>3. CASE UNCHANGED rows
    BY <2>3, RowsTyped DEF BaseInv, NoTrace
  <2> QED BY <1>1, <2>1, <2>2, <2>3
<1>4. TypeOK'
  <2>1. late' \subseteq {"insert", "label"} \X Runs \X (1..NotifyAttempts)
    BY <1>1 DEF BaseInv, TypeOK
  <2>2. rows' \in Seq([run : Runs, label : Runs \cup {NoRun}])
    BY <1>3 DEF Row
  <2>3. /\ lines' \in [Runs -> 0..NotifyAttempts] /\ decision' \in [Runs -> Decisions \cup {"none"}]
        /\ drafted' \in BOOLEAN /\ faults' \in 0..MaxFaults
    BY <1>1, <1>2 DEF BaseInv, TypeOK
  <2> QED BY <1>1, <1>2, <2>1, <2>2, <2>3 DEF BaseInv, TypeOK, Present, sop
<1>5. NoTrace'
  <2>1. IsFiniteSet(late')
    <3>1. IsFiniteSet(late \cup {<<"label", r, attempt[r]>>})
      BY FS_AddElement DEF BaseInv, NoTrace
    <3> QED BY <1>1, <3>1, FS_Subset
  <2>2. \A x \in late' : x[1] = "insert" => x \in late
    BY <1>1
  <2> QED BY <1>2, <1>3, <2>1, <2>2 DEF BaseInv, NoTrace
<1>6. Budget'
  BY <1>1, <1>2 DEF BaseInv, Budget
<1> QED BY <1>4, <1>5, <1>6 DEF BaseInv

LEMMA DiagnoseBase ==
  ASSUME BaseInv, NEW r \in Runs, Diagnose(r)
  PROVE  BaseInv'
<1>1. Begun' = Begun \cup {r}
  BY DEF Diagnose, Begun, BaseInv, TypeOK
<1>2. IsFiniteSet(Begun')
  BY <1>1, FS_AddElement DEF BaseInv, NoTrace
<1>3. decision' \in [Runs -> Decisions \cup {"none"}] /\ \A q \in Runs : q # r => decision'[q] = decision[q]
  BY DEF Diagnose, BaseInv, TypeOK
<1>4. stage' = [stage EXCEPT ![r] = "audit"] /\ stage[r] = "idle"
      /\ UNCHANGED <<attempt, log, sop, faults>> /\ drafted' \in BOOLEAN
  BY DEF Diagnose, BaseInv, TypeOK
<1>5. TypeOK'
  BY <1>3, <1>4 DEF BaseInv, TypeOK, Present, log, sop
<1>6. NoTrace'
  BY <1>1, <1>2, <1>3, <1>4 DEF BaseInv, NoTrace, log
<1>7. Budget'
  BY <1>4 DEF BaseInv, TypeOK, Budget, log
<1> QED BY <1>5, <1>6, <1>7 DEF BaseInv

(* The steps of job and reviewer.                                          *)
SopStep == Loop \/ JobDies \/ \E f \in Files, c \in Cases : Review(f, c)

LEMMA SopBase ==
  ASSUME BaseInv, SopStep
  PROVE  BaseInv' /\ UNCHANGED <<flow, log>> /\ faults' >= faults
<1>1. /\ UNCHANGED <<flow, log>> /\ faults' \in 0..MaxFaults /\ faults' >= faults
      /\ drafted' = drafted /\ busy' \in BOOLEAN
  <2>1. faults \in Nat /\ MaxFaults \in Nat /\ faults <= MaxFaults
    BY KnowledgeAssumption DEF BaseInv, TypeOK
  <2>2. UNCHANGED <<flow, log, drafted>> /\ busy' \in BOOLEAN /\ (Fault \/ faults' = faults)
    BY DEF SopStep, Loop, StartJob, Generate, GenerateFails, OpenSopPr, JobDies, Review,
           BaseInv, TypeOK
  <2>3. faults' \in 0..MaxFaults /\ faults' >= faults
    BY <2>1, <2>2 DEF Fault
  <2> QED BY <2>2, <2>3
<1>2. todo' \subseteq Cases
  BY DEF SopStep, Loop, StartJob, Best, Candidates, Generate, GenerateFails, OpenSopPr,
         JobDies, Review, BaseInv, TypeOK
<1>3. /\ skills' \in [Files -> Cases \cup {NoCase}] /\ written' \subseteq Present'
      /\ reviewed' \subseteq Present' /\ proposed' \subseteq Files \X Cases
  <2> USE DEF BaseInv, TypeOK, Present
  <2>1. ASSUME NEW f \in Files, NEW c \in Cases, skills' = [skills EXCEPT ![f] = c]
        PROVE  /\ skills' \in [Files -> Cases \cup {NoCase}]
               /\ Present \cup {f} \subseteq Present'
    BY <2>1, KnowledgeAssumption
  <2>2. ASSUME NEW c \in Cases, Generate(c)
        PROVE  /\ skills' \in [Files -> Cases \cup {NoCase}] /\ written' \subseteq Present'
               /\ reviewed' \subseteq Present' /\ proposed' \subseteq Files \X Cases
    <3>1. PICK f \in Files : /\ skills' = [skills EXCEPT ![f] = c]
                             /\ written' = written \cup {f} /\ reviewed' = reviewed \ {f}
      BY <2>2 DEF Generate
    <3> QED BY <2>1, <2>2, <3>1 DEF Generate
  <2>3. ASSUME NEW f \in Files, NEW c \in Cases, Review(f, c)
        PROVE  /\ skills' \in [Files -> Cases \cup {NoCase}] /\ written' \subseteq Present'
               /\ reviewed' \subseteq Present' /\ proposed' \subseteq Files \X Cases
    BY <2>1, <2>3 DEF Review
  <2>4. CASE OpenSopPr
    BY <2>4 DEF OpenSopPr
  <2>5. CASE StartJob \/ JobDies \/ \E c \in Cases : GenerateFails(c)
    BY <2>5 DEF StartJob, JobDies, GenerateFails
  <2> QED BY <2>2, <2>3, <2>4, <2>5 DEF SopStep, Loop
<1>4. TypeOK'
  BY <1>1, <1>2, <1>3 DEF BaseInv, TypeOK, flow, log
<1>5. NoTrace' /\ Budget'
  BY <1>1 DEF BaseInv, NoTrace, Budget, Begun, flow, log
<1> QED BY <1>1, <1>4, <1>5 DEF BaseInv

LEMMA BaseStep == BaseInv /\ [Next]_vars => BaseInv'
<1> SUFFICES ASSUME BaseInv, [Next]_vars PROVE BaseInv'
  OBVIOUS
<1>1. CASE UNCHANGED vars
  BY <1>1 DEF vars, flow, log, sop, BaseInv, TypeOK, Present, NoTrace, Budget, Begun
<1> QED
  BY <1>1, WriteAuditBase, LabelBase, DiagnoseBase, SopBase DEF Next, Workflow, SopStep

(* The rows, statements, files and stages keep their types for any number  *)
(* of runs; no activity exceeds its attempts, none writes a line too many. *)
THEOREM TypeCorrect == Spec => []TypeOK
<1>1. BaseInv => TypeOK
  BY DEF BaseInv
<1> QED BY <1>1, BaseInit, BaseStep, PTL DEF Spec

-----------------------------------------------------------------------------
(* The log behind the rows.                                                *)

LineInv == BaseInv /\ \A q \in Runs : Weight({q}) <= lines[q]

LEMMA LineStep == LineInv /\ [Next]_vars => LineInv'
<1> SUFFICES ASSUME LineInv, [Next]_vars PROVE LineInv'
  OBVIOUS
<1>1. BaseInv /\ BaseInv'
  BY BaseStep DEF LineInv
<1>2. SUFFICES ASSUME NEW q \in Runs PROVE Weight({q})' <= lines'[q]
  BY <1>1 DEF LineInv
<1>3. /\ Weight({q}) <= lines[q] /\ lines[q] \in Nat /\ {q} \in SUBSET Runs
      /\ Weight({q}) \in Nat
  <2>1. {q} \in SUBSET Runs
    BY <1>2
  <2>2. Weight({q}) \in Nat
    BY <1>1, <2>1, FiniteWeights DEF Weight
  <2> QED BY <1>1, <1>2, <2>1, <2>2 DEF LineInv, BaseInv, TypeOK
<1>4. CASE UNCHANGED log
  BY <1>3, <1>4 DEF log, Weight, RowsIn, LateIn
<1>5. ASSUME NEW r \in Runs, WriteAudit(r) PROVE Weight({q})' <= lines'[q]
  <2>1. /\ Weight({q})' \in Nat /\ Weight({q})' <= Weight({q}) + 1
        /\ r # q => Weight({q})' = Weight({q})
        /\ Weight({q})' = Weight({q}) \/ Log(r)
    BY <1>1, <1>3, <1>5, WriteCounts
  <2>2. CASE Log(r)
    <3>1. lines'[q] = IF q = r THEN lines[q] + 1 ELSE lines[q]
      BY <1>1, <2>2 DEF Log, BaseInv, TypeOK
    <3> QED BY <1>3, <2>1, <3>1
  <2>3. CASE UNCHANGED lines /\ Weight({q})' = Weight({q})
    BY <1>3, <2>3
  <2>4. Log(r) \/ UNCHANGED lines
    BY <1>5 DEF WriteAudit
  <2>5. CASE Weight({q})' # Weight({q})
    BY <2>1, <2>2, <2>5
  <2> QED BY <2>1, <2>2, <2>3, <2>4
<1>6. ASSUME NEW r \in Runs, LabelFeedback(r) \/ LateStatement(r)
      PROVE  Weight({q})' <= lines'[q]
  <2>1. Weight({q})' = Weight({q}) /\ lines' = lines
    BY <1>1, <1>3, <1>6, OtherCounts DEF LabelFeedback, LateStatement
  <2> QED BY <1>3, <2>1
<1>7. ASSUME NEW r \in Runs, Diagnose(r) PROVE UNCHANGED log
  BY <1>7 DEF Diagnose
<1>8. CASE SopStep
  BY <1>1, <1>4, <1>8, SopBase
<1>9. CASE UNCHANGED vars
  BY <1>4, <1>9 DEF vars
<1> QED
  BY <1>4, <1>5, <1>6, <1>7, <1>8, <1>9 DEF Next, Workflow, SopStep

LEMMA LineInit == Init => LineInv
<1> SUFFICES ASSUME Init, NEW q \in Runs PROVE Weight({q}) <= lines[q]
  BY BaseInit DEF LineInv
<1>1. RowsIn({q}) = {} /\ LateIn({q}) = {} /\ lines[q] = 0
  BY DEF Init, RowsIn, LateIn
<1> QED BY <1>1, FS_EmptySet DEF Weight

(* Every row in Hermes, and every statement that may still become one, has *)
(* its line in the JSONL log, whatever attempts are lost, time out and     *)
(* take effect later.                                                      *)
THEOREM LogCoversHermes == Spec => []HermesHasItsLine
<1>1. LineInv => HermesHasItsLine
  <2> SUFFICES ASSUME LineInv, NEW r \in Runs
               PROVE  Cardinality({i \in DOMAIN rows : rows[i].run = r})
                        + Cardinality({x \in late : x[1] = "insert" /\ x[2] = r}) <= lines[r]
    BY DEF HermesHasItsLine
  <2>1. RowsIn({r}) = {i \in DOMAIN rows : rows[i].run = r}
    BY DEF RowsIn
  <2>2. LateIn({r}) = {x \in late : x[1] = "insert" /\ x[2] = r}
    BY DEF LateIn
  <2> QED BY <2>1, <2>2 DEF LineInv, Weight
<1> QED BY <1>1, LineInit, LineStep, PTL DEF Spec

-----------------------------------------------------------------------------
(* The successes behind the SOPs.                                          *)

(* Runs that repaired case c, and those of them whose audit is done.       *)
Repairs(c) == {r \in Runs : CaseOf[r] = c /\ decision[r] = "success"}
Settled(c) == {r \in Repairs(c) : stage[r] \in {"label", "done"}}

(* Each settled repair accounts for one row, and each fault for one more.  *)
Charged(c) == Weight(Repairs(c)) <= Cardinality(Settled(c)) + faults

Earned(c) == Cardinality(Repairs(c)) + faults >= MinSuccess

EarnedInv ==
  /\ BaseInv
  /\ \A c \in Cases : Charged(c)
  /\ \A c \in todo \cup SopCases : Earned(c)

LEMMA FiniteRepairs ==
  ASSUME BaseInv, NEW c
  PROVE  /\ IsFiniteSet(Repairs(c)) /\ IsFiniteSet(Settled(c))
         /\ Cardinality(Settled(c)) \in Nat /\ Cardinality(Repairs(c)) \in Nat
         /\ Cardinality(Settled(c)) <= Cardinality(Repairs(c))
         /\ Repairs(c) \in SUBSET Begun /\ Repairs(c) \in SUBSET Runs
         /\ Weight(Repairs(c)) \in Nat
<1>1. Repairs(c) \in SUBSET Begun /\ IsFiniteSet(Begun) /\ Repairs(c) \in SUBSET Runs
  BY DEF BaseInv, NoTrace, Repairs, Begun
<1>2. IsFiniteSet(Repairs(c)) /\ Settled(c) \in SUBSET Repairs(c)
  BY <1>1, FS_Subset DEF Settled
<1>3. IsFiniteSet(Settled(c)) /\ Cardinality(Settled(c)) <= Cardinality(Repairs(c))
  BY <1>2, FS_Subset
<1>4. Weight(Repairs(c)) \in Nat
  BY <1>1, FiniteWeights DEF Weight
<1> QED BY <1>1, <1>2, <1>3, <1>4, FS_CardinalityType

LEMMA FiniteLater ==
  ASSUME BaseInv', NEW c
  PROVE  /\ IsFiniteSet(Repairs(c)') /\ IsFiniteSet(Settled(c)')
         /\ Cardinality(Settled(c)') \in Nat /\ Cardinality(Repairs(c)') \in Nat
<1>1. Repairs(c)' \in SUBSET (Begun') /\ IsFiniteSet(Begun')
  BY DEF BaseInv, NoTrace, Repairs, Begun
<1>2. Settled(c)' \in SUBSET (Begun')
  BY <1>1 DEF Settled
<1> QED BY <1>1, <1>2, FS_Subset, FS_CardinalityType

LEMMA WriteAuditCharged ==
  ASSUME BaseInv, BaseInv', NEW r \in Runs, WriteAudit(r), NEW c, Charged(c)
  PROVE  Charged(c)' /\ Repairs(c)' = Repairs(c) /\ faults' >= faults
<1>1. /\ stage[r] = "audit" /\ (Proceed(r) \/ Again(r))
      /\ Fault \/ (Proceed(r) /\ faults' = faults)
  BY DEF WriteAudit
<1>2. /\ decision' = decision
      /\ \A q \in Runs : q # r => stage'[q] = stage[q]
  BY <1>1, StageMoves
<1>3. Repairs(c)' = Repairs(c)
  BY <1>2 DEF Repairs
<1>4. PICK G \in SUBSET Runs : G = Repairs(c)
  BY FiniteRepairs
<1>5. Weight(Repairs(c))' = Weight(G)' /\ Weight(Repairs(c)) = Weight(G)
  BY <1>3, <1>4 DEF Weight, RowsIn, LateIn
<1>6. /\ Weight(G)' \in Nat /\ Weight(G)' <= Weight(G) + 1
      /\ r \notin G => Weight(G)' = Weight(G)
  BY WriteCounts
<1>7. /\ faults \in Nat /\ faults' \in Nat /\ (faults' = faults \/ faults' = faults + 1)
  BY <1>1 DEF Fault, BaseInv, TypeOK
<1>8. /\ Cardinality(Settled(c)) \in Nat /\ Cardinality(Settled(c)') \in Nat
      /\ IsFiniteSet(Settled(c)) /\ IsFiniteSet(Settled(c)') /\ Weight(G) \in Nat
  BY <1>5, FiniteRepairs, FiniteLater
<1>9. r \notin Settled(c) /\ Settled(c) \in SUBSET (Settled(c)')
  BY <1>1, <1>2, <1>3 DEF Settled, Repairs
<1>10. Cardinality(Settled(c)) <= Cardinality(Settled(c)')
  BY <1>8, <1>9, FS_Subset
<1>11. Weight(G) <= Cardinality(Settled(c)) + faults
  BY <1>5 DEF Charged
<1>12. ASSUME faults' = faults + 1 \/ r \notin G
       PROVE  Weight(G)' <= Cardinality(Settled(c)') + faults'
  BY <1>6, <1>7, <1>8, <1>10, <1>11, <1>12
<1>13. ASSUME faults' = faults /\ r \in G
       PROVE  Weight(G)' <= Cardinality(Settled(c)') + faults'
  <2>1. Proceed(r)
    BY <1>1, <1>7, <1>13 DEF Fault
  <2>2. Settled(c)' = Settled(c) \cup {r}
    BY <1>1, <1>2, <1>3, <1>4, <1>13, <2>1 DEF Settled, Repairs, Proceed, Goto, BaseInv, TypeOK
  <2>3. Cardinality(Settled(c)') = Cardinality(Settled(c)) + 1
    BY <1>8, <1>9, <2>2, FS_AddElement
  <2> QED BY <1>6, <1>7, <1>8, <1>11, <1>13, <2>3
<1> QED BY <1>3, <1>5, <1>7, <1>12, <1>13 DEF Charged

LEMMA OtherCharged ==
  ASSUME BaseInv, BaseInv', NEW r \in Runs, LabelFeedback(r) \/ LateStatement(r),
         NEW c, Charged(c)
  PROVE  Charged(c)' /\ Repairs(c)' = Repairs(c) /\ faults' >= faults
<1>1. /\ decision' = decision /\ (Fault \/ faults' = faults)
      /\ \A q \in Runs : stage[q] \in {"label", "done"} => stage'[q] \in {"label", "done"}
  <2>1. CASE LabelFeedback(r)
    <3>1. stage[r] = "label" /\ (Fault \/ faults' = faults) /\ (Proceed(r) \/ Again(r))
      BY <2>1 DEF LabelFeedback
    <3>2. decision' = decision /\ \A q \in Runs : q # r => stage'[q] = stage[q]
      BY <3>1, StageMoves
    <3>3. stage'[r] \in {"label", "done"}
      BY <3>1 DEF Proceed, Again, Goto, BaseInv, TypeOK
    <3> QED BY <3>1, <3>2, <3>3
  <2>2. CASE LateStatement(r)
    BY <2>2 DEF LateStatement, flow
  <2> QED BY <2>1, <2>2
<1>2. Repairs(c)' = Repairs(c)
  BY <1>1 DEF Repairs
<1>3. PICK G \in SUBSET Runs : G = Repairs(c)
  BY FiniteRepairs
<1>4. Weight(Repairs(c))' = Weight(Repairs(c))
  <2>1. Weight(G)' = Weight(G)
    BY OtherCounts
  <2> QED BY <1>2, <1>3, <2>1 DEF Weight, RowsIn, LateIn
<1>5. faults \in Nat /\ faults' \in Nat /\ faults' >= faults
  BY <1>1 DEF Fault, BaseInv, TypeOK
<1>6. /\ Cardinality(Settled(c)) \in Nat /\ Cardinality(Settled(c)') \in Nat
      /\ IsFiniteSet(Settled(c)')
  BY FiniteRepairs, FiniteLater
<1>7. Settled(c) \in SUBSET (Settled(c)')
  BY <1>1, <1>2 DEF Settled, Repairs
<1>8. Cardinality(Settled(c)) <= Cardinality(Settled(c)')
  BY <1>6, <1>7, FS_Subset
<1>9. Weight(Repairs(c)) \in Nat
  BY FiniteRepairs
<1> QED BY <1>2, <1>4, <1>5, <1>6, <1>8, <1>9 DEF Charged

(* A run that begins has no rows yet, whatever it will turn out to be.     *)
LEMMA DiagnoseCharged ==
  ASSUME BaseInv, BaseInv', NEW r \in Runs, Diagnose(r), NEW c, Charged(c)
  PROVE  Charged(c)' /\ Repairs(c) \in SUBSET (Repairs(c)') /\ faults' = faults
<1>1. /\ stage[r] = "idle" /\ stage' = [stage EXCEPT ![r] = "audit"]
      /\ rows' = rows /\ late' = late /\ faults' = faults
      /\ \A q \in Runs : q # r => decision'[q] = decision[q]
  BY DEF Diagnose, log, BaseInv, TypeOK
<1>2. /\ decision[r] = "none" /\ \A i \in DOMAIN rows : rows[i].run # r
      /\ \A x \in late : x[1] = "insert" => x[2] # r
  BY <1>1 DEF BaseInv, NoTrace, Begun
<1>3. Repairs(c) \subseteq Repairs(c)' /\ Repairs(c)' \subseteq Repairs(c) \cup {r}
  BY <1>1, <1>2 DEF Repairs
<1>4. RowsIn(Repairs(c))' = RowsIn(Repairs(c))
  BY <1>1, <1>2, <1>3 DEF RowsIn
<1>5. LateIn(Repairs(c))' = LateIn(Repairs(c))
  BY <1>1, <1>2, <1>3 DEF LateIn
<1>6. Settled(c)' = Settled(c)
  BY <1>1, <1>3 DEF Settled, Repairs, BaseInv, TypeOK
<1> QED BY <1>1, <1>3, <1>4, <1>5, <1>6 DEF Charged, Weight

LEMMA SopCharged ==
  ASSUME EarnedInv, SopStep
  PROVE  /\ \A c \in Cases : Charged(c)'
         /\ \A c \in (todo \cup SopCases)' : Earned(c)'
<1>1. BaseInv' /\ UNCHANGED <<flow, log>> /\ faults' >= faults
  BY SopBase DEF EarnedInv
<1>2. faults \in Nat /\ faults' \in Nat /\ MinSuccess \in Nat
  BY <1>1, KnowledgeAssumption DEF EarnedInv, BaseInv, TypeOK
<1>3. \A c \in Cases : /\ Weight(Repairs(c))' = Weight(Repairs(c))
                       /\ Settled(c)' = Settled(c) /\ Repairs(c)' = Repairs(c)
  BY <1>1 DEF flow, log, Weight, RowsIn, LateIn, Settled, Repairs
<1>4. ASSUME NEW c \in Cases PROVE Charged(c)'
  <2>1. /\ Weight(Repairs(c)) \in Nat /\ Cardinality(Settled(c)) \in Nat
        /\ Charged(c)
    BY FiniteRepairs DEF EarnedInv
  <2> QED BY <1>1, <1>2, <1>3, <2>1 DEF Charged
<1>5. \A c \in (todo \cup SopCases)' : c \in todo \cup SopCases \/ c \in Candidates
  <2> USE DEF SopCases
  <2>1. ASSUME NEW d \in Cases, Generate(d)
        PROVE  (todo \cup SopCases)' \subseteq todo \cup SopCases
    BY <2>1 DEF Generate, EarnedInv, BaseInv, TypeOK
  <2>2. ASSUME NEW f \in Files, NEW d \in Cases, Review(f, d)
        PROVE  (todo \cup SopCases)' \subseteq todo \cup SopCases
    BY <2>2 DEF Review, EarnedInv, BaseInv, TypeOK
  <2>3. CASE OpenSopPr
    BY <2>3 DEF OpenSopPr
  <2>4. CASE StartJob
    BY <2>4 DEF StartJob, Best
  <2>5. CASE JobDies \/ \E d \in Cases : GenerateFails(d)
    BY <2>5 DEF JobDies, GenerateFails
  <2> QED BY <1>1, <2>1, <2>2, <2>3, <2>4, <2>5 DEF SopStep, Loop
<1>6. ASSUME NEW c \in Candidates PROVE Earned(c)
  <2>1. c \in Cases /\ Cardinality(Successes(c)) >= MinSuccess
    BY <1>6 DEF Candidates
  <2>2. Successes(c) = RowsIn(Repairs(c))
    BY RowsTyped DEF Successes, RowsIn, Repairs, Row, EarnedInv
  <2>3. /\ Cardinality(RowsIn(Repairs(c))) \in Nat
        /\ Cardinality(LateIn(Repairs(c))) \in Nat
    BY FiniteRepairs, FiniteWeights DEF EarnedInv
  <2>4. Cardinality(RowsIn(Repairs(c))) <= Cardinality(Settled(c)) + faults
    BY <1>2, <2>1, <2>3, FiniteRepairs DEF EarnedInv, Charged, Weight
  <2>5. /\ Cardinality(Settled(c)) <= Cardinality(Repairs(c))
        /\ Cardinality(Settled(c)) \in Nat /\ Cardinality(Repairs(c)) \in Nat
    BY FiniteRepairs DEF EarnedInv
  <2> QED BY <1>2, <2>1, <2>2, <2>3, <2>4, <2>5 DEF Earned
<1>7. ASSUME NEW c \in Cases, Earned(c) PROVE Earned(c)'
  <2>1. Cardinality(Repairs(c)) \in Nat
    BY FiniteRepairs DEF EarnedInv
  <2> QED BY <1>1, <1>2, <1>3, <1>7, <2>1 DEF Earned
<1>8. (todo \cup SopCases)' \subseteq Cases
  BY <1>1 DEF BaseInv, TypeOK, SopCases
<1> QED BY <1>4, <1>5, <1>6, <1>7, <1>8 DEF EarnedInv

LEMMA EarnedStep == EarnedInv /\ [Next]_vars => EarnedInv'
<1> SUFFICES ASSUME EarnedInv, [Next]_vars PROVE EarnedInv'
  OBVIOUS
<1>1. BaseInv /\ BaseInv'
  BY BaseStep DEF EarnedInv
<1>2. ASSUME NEW c, Earned(c), Repairs(c) \in SUBSET (Repairs(c)'), faults' >= faults
      PROVE  Earned(c)'
  <2>1. IsFiniteSet(Repairs(c)') /\ Cardinality(Repairs(c)) \in Nat
    BY <1>1, FiniteRepairs, FiniteLater
  <2>2. Cardinality(Repairs(c)) <= Cardinality(Repairs(c)') /\ Cardinality(Repairs(c)') \in Nat
    BY <1>2, <2>1, FS_Subset, FS_CardinalityType
  <2>3. faults \in Nat /\ faults' \in Nat /\ MinSuccess \in Nat
    BY <1>1, KnowledgeAssumption DEF BaseInv, TypeOK
  <2> QED BY <1>2, <2>1, <2>2, <2>3 DEF Earned
<1>3. ASSUME NEW r \in Runs, WriteAudit(r) \/ LabelFeedback(r) \/ LateStatement(r) \/ Diagnose(r)
      PROVE  EarnedInv'
  <2>1. faults \in Nat
    BY <1>1 DEF BaseInv, TypeOK
  <2>2. \A c \in Cases : /\ Charged(c)' /\ faults' >= faults
                         /\ Repairs(c) \in SUBSET (Repairs(c)')
    BY <1>1, <1>3, <2>1, WriteAuditCharged, OtherCharged, DiagnoseCharged DEF EarnedInv
  <2>3. todo' = todo /\ SopCases' = SopCases
    BY <1>3 DEF SopCases, WriteAudit, LabelFeedback, LateStatement, Diagnose, sop
  <2>4. todo \cup SopCases \subseteq Cases
    BY <1>1 DEF BaseInv, TypeOK, SopCases
  <2> QED BY <1>1, <1>2, <2>2, <2>3, <2>4 DEF EarnedInv
<1>4. CASE SopStep
  BY <1>1, <1>4, SopCharged DEF EarnedInv
<1>5. CASE UNCHANGED vars
  BY <1>1, <1>5 DEF vars, flow, log, sop, EarnedInv, Charged, Earned, Weight, RowsIn, LateIn,
                    Settled, Repairs, SopCases
<1> QED BY <1>3, <1>4, <1>5 DEF Next, Workflow, SopStep

LEMMA EarnedInit == Init => EarnedInv
<1> SUFFICES ASSUME Init PROVE EarnedInv
  OBVIOUS
<1>1. ASSUME NEW c \in Cases PROVE Charged(c)
  <2>1. RowsIn(Repairs(c)) = {} /\ LateIn(Repairs(c)) = {} /\ Settled(c) = {} /\ faults = 0
    BY DEF Init, RowsIn, LateIn, Settled, Repairs
  <2> QED BY <2>1, FS_EmptySet DEF Charged, Weight
<1>2. todo \cup SopCases = {}
  BY KnowledgeAssumption DEF Init, SopCases
<1> QED BY <1>1, <1>2, BaseInit DEF EarnedInv

(* An SOP, in skills/ or in a pull request, stands for MinSuccess verified *)
(* repairs of its case, less one for every fault: only a fault makes a     *)
(* repair count twice, and only once; which files SOPs share does not      *)
(* matter.                                                                 *)
THEOREM SopsStandForRepairs == Spec => []SopsAreEarned
<1>1. EarnedInv => SopsAreEarned
  BY DEF EarnedInv, SopsAreEarned, Earned, Repairs
<1> QED BY <1>1, EarnedInit, EarnedStep, PTL DEF Spec

-----------------------------------------------------------------------------
(* The labels.                                                             *)

Wrong(i) == rows[i].label \notin {NoRun, rows[i].run}
Wrongs   == {i \in DOMAIN rows : Wrong(i)}

(* A run about to label a row that is not its own.                         *)
Due(r) ==
  /\ stage[r] = "label" /\ RowsOf(EventOf[r]) # {}
  /\ rows[LatestOf(EventOf[r])].run # r /\ ~Wrong(LatestOf(EventOf[r]))
Dues   == {r \in Runs : Due(r)}

Active == {"audit", "label"}
Alone  == \A q, r \in Runs :
            q # r /\ EventOf[q] = EventOf[r] /\ stage[q] \in Active => stage[r] \notin Active

(* A row that is labelled wrongly, a statement that is late and a run      *)
(* about to label wrongly have each taken a fault; what one turns into is  *)
(* one of the others.                                                      *)
LabelInv ==
  /\ BaseInv /\ IsFiniteSet(late) /\ Alone
  /\ Cardinality(Wrongs) + Cardinality(late) + Cardinality(Dues) <= faults

(* The greatest of some numbers, as LatestOf chooses it.                   *)
Top(S) == CHOOSE i \in S : \A j \in S : i >= j

LEMMA TopExists ==
  ASSUME NEW n \in Nat, NEW S \in SUBSET (1..n), S # {}
  PROVE  Top(S) \in S /\ \A j \in S : Top(S) >= j
<1> DEFINE above(i) == {j \in S : j > i}
           T == {above(i) : i \in S}
<1>1. IsFiniteSet(S) /\ \A i \in S : i \in Nat
  <2>1. IsFiniteSet(1..n)
    BY FS_Interval
  <2>2. IsFiniteSet(S)
    BY <2>1, FS_Subset
  <2>3. \A i \in S : i \in 1..n
    OBVIOUS
  <2> QED BY <2>2, <2>3
<1>2. T \subseteq FiniteSubsetsOf(S) /\ T # {}
  <2>1. ASSUME NEW i \in S PROVE above(i) \in FiniteSubsetsOf(S)
    BY <1>1, FS_Subset DEF FiniteSubsetsOf
  <2> QED BY <2>1
<1>3. \E U \in T : \A V \in T : ~(<<V, U>> \in StrictSubsetOrdering(S))
  <2> HIDE DEF T
  <2> QED BY <1>2, FS_StrictSubsetOrderingWellFounded, WFMin
<1>4. PICK i \in S : \A k \in S : <<above(k), above(i)>> \notin StrictSubsetOrdering(S)
  BY <1>3
<1>5. ASSUME NEW k \in S PROVE i >= k
  <2> SUFFICES ASSUME k > i PROVE FALSE
    BY <1>1
  <2>1. k \in above(i) /\ k \notin above(k)
    BY <1>1
  <2>2. above(k) \subseteq above(i)
    <3> SUFFICES ASSUME NEW j \in S, j > k PROVE j > i
      OBVIOUS
    <3>1. i \in Nat /\ j \in Nat /\ k \in Nat
      BY <1>1
    <3> QED BY <3>1
  <2>3. <<above(k), above(i)>> \in StrictSubsetOrdering(S)
    BY <2>1, <2>2 DEF StrictSubsetOrdering
  <2> QED BY <1>4, <2>3
<1> QED BY <1>5 DEF Top

LEMMA TopIs ==
  ASSUME NEW n \in Nat, NEW S \in SUBSET (1..n), NEW i \in S, \A j \in S : i >= j
  PROVE  Top(S) = i
<1>1. Top(S) \in S /\ \A j \in S : Top(S) >= j
  BY TopExists
<1>2. \A j \in S : j \in Nat
  OBVIOUS
<1>3. Top(S) \in Nat /\ i \in Nat /\ Top(S) >= i /\ i >= Top(S)
  BY <1>1, <1>2
<1> QED BY <1>3

LEMMA LatestTyped ==
  ASSUME BaseInv, NEW e, RowsOf(e) # {}
  PROVE  /\ LatestOf(e) \in DOMAIN rows /\ EventOf[rows[LatestOf(e)].run] = e
         /\ rows[LatestOf(e)].run \in Runs
<1>1. RowsOf(e) \in SUBSET (1..Len(rows)) /\ Len(rows) \in Nat
  BY RowsTyped DEF RowsOf
<1>2. LatestOf(e) = Top(RowsOf(e))
  BY DEF LatestOf, Top
<1>3. LatestOf(e) \in RowsOf(e)
  BY <1>1, <1>2, TopExists
<1> QED BY <1>3, RowsTyped DEF RowsOf, Row

(* Set sizes, as the steps change them.                                    *)
LEMMA SizeStep ==
  ASSUME NEW S, NEW T, IsFiniteSet(S)
  PROVE  /\ Cardinality(S) \in Nat
         /\ T \subseteq S
              => IsFiniteSet(T) /\ Cardinality(T) \in Nat /\ Cardinality(T) <= Cardinality(S)
         /\ \A x : T \subseteq S \cup {x}
              => IsFiniteSet(T) /\ Cardinality(T) \in Nat /\ Cardinality(T) <= Cardinality(S) + 1
         /\ \A x \in S : T \subseteq S \ {x}
              => IsFiniteSet(T) /\ Cardinality(T) \in Nat /\ Cardinality(T) + 1 <= Cardinality(S)
<1>1. Cardinality(S) \in Nat
  BY FS_CardinalityType
<1>2. ASSUME T \subseteq S
      PROVE  IsFiniteSet(T) /\ Cardinality(T) \in Nat /\ Cardinality(T) <= Cardinality(S)
  BY <1>2, FS_Subset, FS_CardinalityType
<1>3. ASSUME NEW x, T \subseteq S \cup {x}
      PROVE  IsFiniteSet(T) /\ Cardinality(T) \in Nat /\ Cardinality(T) <= Cardinality(S) + 1
  <2>1. /\ IsFiniteSet(S \cup {x}) /\ Cardinality(S \cup {x}) \in Nat
        /\ Cardinality(S \cup {x}) <= Cardinality(S) + 1
    <3>1. /\ IsFiniteSet(S \cup {x})
          /\ Cardinality(S \cup {x}) = IF x \in S THEN Cardinality(S) ELSE Cardinality(S) + 1
      BY FS_AddElement
    <3> QED BY <1>1, <3>1
  <2>2. IsFiniteSet(T) /\ Cardinality(T) \in Nat /\ Cardinality(T) <= Cardinality(S \cup {x})
    BY <1>3, <2>1, FS_Subset, FS_CardinalityType
  <2> QED BY <1>1, <2>1, <2>2
<1>4. ASSUME NEW x \in S, T \subseteq S \ {x}
      PROVE  IsFiniteSet(T) /\ Cardinality(T) \in Nat /\ Cardinality(T) + 1 <= Cardinality(S)
  <2>1. IsFiniteSet(S \ {x}) /\ Cardinality(S \ {x}) = Cardinality(S) - 1
    BY FS_RemoveElement
  <2>2. IsFiniteSet(T) /\ Cardinality(T) \in Nat /\ Cardinality(T) <= Cardinality(S \ {x})
    BY <1>4, <2>1, FS_Subset, FS_CardinalityType
  <2> QED BY <1>1, <2>1, <2>2
<1> QED BY <1>1, <1>2, <1>3, <1>4

LEMMA LabelSizes ==
  ASSUME LabelInv
  PROVE  /\ IsFiniteSet(Wrongs) /\ IsFiniteSet(late) /\ IsFiniteSet(Dues)
         /\ Cardinality(Wrongs) \in Nat /\ Cardinality(late) \in Nat
         /\ Cardinality(Dues) \in Nat /\ faults \in Nat
<1>1. IsFiniteSet(Wrongs)
  <2>1. IsFiniteSet(1..Len(rows)) /\ Wrongs \in SUBSET (1..Len(rows))
    BY RowsTyped, FS_Interval DEF Wrongs, LabelInv
  <2> QED BY <2>1, FS_Subset
<1>2. IsFiniteSet(Dues)
  <2>1. IsFiniteSet(Begun) /\ Dues \in SUBSET Begun
    BY DEF Dues, Due, Begun, LabelInv, BaseInv, NoTrace
  <2> QED BY <2>1, FS_Subset
<1> QED BY <1>1, <1>2, FS_CardinalityType DEF LabelInv, BaseInv, TypeOK

(* The row that is inserted is the latest of its event, and not labelled:  *)
(* its own run has nothing to fear, the events of other runs no change.    *)
LEMMA InsertLabels ==
  ASSUME BaseInv, NEW r \in Runs, Insert(r)
  PROVE  /\ Wrongs' = Wrongs
         /\ \A q \in Runs : Due(q)' /\ stage'[q] = stage[q]
              => q # r /\ (Due(q) \/ EventOf[q] = EventOf[r])
         /\ ~Due(r)'
<1> DEFINE new == [run |-> r, label |-> NoRun]
<1>0. PICK n \in Nat : n = Len(rows) + 1
  BY RowsTyped
<1>1. rows \in Seq(Row) /\ new \in Row /\ rows' = Append(rows, new)
  BY RowsTyped DEF Insert, Row
<1>2. /\ rows' \in Seq(Row) /\ Len(rows') = n /\ rows'[n] = new
      /\ \A i \in 1..Len(rows) : rows'[i] = rows[i]
  BY <1>0, <1>1, AppendProperties
<1>3. DOMAIN rows' = 1..n /\ DOMAIN rows = 1..Len(rows) /\ Len(rows) \in Nat
  BY <1>2, RowsTyped, LenProperties
<1>4. Wrongs' = Wrongs
  <2>1. ~Wrong(n)'
    BY <1>2 DEF Wrong
  <2>2. \A i \in 1..Len(rows) : Wrong(i)' <=> Wrong(i)
    BY <1>2 DEF Wrong
  <2>3. 1..n = (1..Len(rows)) \cup {n}
    BY <1>0, <1>3
  <2> QED BY <1>3, <2>1, <2>2, <2>3 DEF Wrongs
<1>5. ASSUME NEW e, e # EventOf[r]
      PROVE  RowsOf(e)' = RowsOf(e) /\ LatestOf(e)' = LatestOf(e)
  <2>1. RowsOf(e)' = RowsOf(e)
    BY <1>0, <1>2, <1>3, <1>5 DEF RowsOf
  <2>2. LatestOf(e) = Top(RowsOf(e)) /\ LatestOf(e)' = Top(RowsOf(e)')
    BY DEF LatestOf, Top
  <2> QED BY <2>1, <2>2
<1>6. LatestOf(EventOf[r])' = n
  <2>1. /\ n \in RowsOf(EventOf[r])' /\ n \in Nat
        /\ RowsOf(EventOf[r])' \in SUBSET (1..n) /\ \A j \in RowsOf(EventOf[r])' : n >= j
    BY <1>0, <1>2, <1>3 DEF RowsOf
  <2>2. LatestOf(EventOf[r])' = Top(RowsOf(EventOf[r])')
    BY DEF LatestOf, Top
  <2>3. Top(RowsOf(EventOf[r])') = n
    BY <2>1, TopIs
  <2> QED BY <2>2, <2>3
<1>7. ~Due(r)'
  BY <1>2, <1>6 DEF Due
<1>8. ASSUME NEW q \in Runs, Due(q)', stage'[q] = stage[q]
      PROVE  q # r /\ (Due(q) \/ EventOf[q] = EventOf[r])
  <2>1. CASE EventOf[q] = EventOf[r]
    BY <1>7, <1>8, <2>1
  <2>2. CASE EventOf[q] # EventOf[r]
    <3> DEFINE e == EventOf[q]
    <3>1. RowsOf(e)' = RowsOf(e) /\ LatestOf(e)' = LatestOf(e)
      BY <1>5, <2>2
    <3>2. RowsOf(e) # {} /\ LatestOf(e) \in DOMAIN rows
      BY <1>8, <3>1, LatestTyped DEF Due
    <3>3. rows'[LatestOf(e)] = rows[LatestOf(e)]
      BY <1>2, <1>3, <3>2
    <3>4. Due(q)
      BY <1>8, <3>1, <3>2, <3>3 DEF Due, Wrong
    <3> QED BY <1>7, <1>8, <3>4
  <2> QED BY <2>1, <2>2
<1> QED BY <1>4, <1>7, <1>8

(* What label_latest_by_event_id does: to a row of another run a wrong     *)
(* label, to one of its own run a right one, to an event without rows      *)
(* nothing; runs of other events do not notice.                            *)
LEMMA MarkLabels ==
  ASSUME BaseInv, NEW r \in Runs, Mark(r)
  PROVE  /\ \A q \in Runs : Due(q)' /\ stage'[q] = stage[q]
                              => Due(q) \/ EventOf[q] = EventOf[r]
         /\ \/ /\ rows' = rows /\ Wrongs' = Wrongs
               /\ \A q \in Runs : EventOf[q] = EventOf[r] => ~Due(q)'
            \/ /\ Wrongs' \subseteq Wrongs /\ ~Due(r)'
            \/ /\ Wrongs' \subseteq Wrongs
               /\ \A q \in Runs : EventOf[q] = EventOf[r] => ~Due(q)'
            \/ /\ Wrongs' \subseteq Wrongs \cup {LatestOf(EventOf[r])}
               /\ stage[r] = "label" => Due(r)
               /\ \A q \in Runs : EventOf[q] = EventOf[r] => ~Due(q)'
<1> DEFINE e == EventOf[r]
<1>0. PICK k : k = LatestOf(EventOf[r])
  OBVIOUS
<1>1. DOMAIN rows' = DOMAIN rows /\ \A i \in DOMAIN rows : rows'[i].run = rows[i].run
  BY MarkCounts
<1>2. ASSUME NEW f PROVE RowsOf(f)' = RowsOf(f) /\ LatestOf(f)' = LatestOf(f)
  <2>1. RowsOf(f)' = RowsOf(f)
    BY <1>1 DEF RowsOf
  <2>2. LatestOf(f) = Top(RowsOf(f)) /\ LatestOf(f)' = Top(RowsOf(f)')
    BY DEF LatestOf, Top
  <2> QED BY <2>1, <2>2
<1>3. CASE RowsOf(e) = {}
  <2>1. rows' = rows
    BY <1>3 DEF Mark
  <2>2. Wrongs' = Wrongs
    BY <2>1 DEF Wrongs, Wrong
  <2>3. \A q \in Runs : EventOf[q] = EventOf[r] => ~Due(q)'
    BY <1>2, <1>3 DEF Due
  <2>4. ASSUME NEW q \in Runs, Due(q)', stage'[q] = stage[q] PROVE Due(q)
    BY <1>2, <2>1, <2>4 DEF Due, Wrong
  <2> QED BY <2>1, <2>2, <2>3, <2>4
<1>4. CASE RowsOf(e) # {}
  <2>1. k \in DOMAIN rows /\ EventOf[rows[k].run] = e
    BY <1>0, <1>4, LatestTyped
  <2>2. rows' = [rows EXCEPT ![k].label = r]
    BY <1>0, <1>4 DEF Mark
  <2>3. /\ \A i \in DOMAIN rows : i # k => rows'[i] = rows[i]
        /\ rows'[k].label = r /\ rows'[k].run = rows[k].run
    BY <2>1, <2>2, RowsTyped DEF Row
  <2>4. Wrong(k)' <=> rows[k].run # r
    BY <2>3, KnowledgeAssumption DEF Wrong
  <2>5. \A i \in DOMAIN rows : i # k => (Wrong(i)' <=> Wrong(i))
    BY <2>3 DEF Wrong
  <2>6. ASSUME NEW q \in Runs, Due(q)', stage'[q] = stage[q], EventOf[q] # e PROVE Due(q)
    <3> DEFINE f == EventOf[q]
    <3>1. RowsOf(f)' = RowsOf(f) /\ LatestOf(f)' = LatestOf(f) /\ RowsOf(f) # {}
      BY <1>2, <2>6 DEF Due
    <3>2. LatestOf(f) \in DOMAIN rows /\ EventOf[rows[LatestOf(f)].run] = f
      BY <3>1, LatestTyped
    <3>3. LatestOf(f) # k
      BY <2>1, <2>6, <3>2
    <3> QED BY <2>3, <2>6, <3>1, <3>2, <3>3 DEF Due, Wrong
  <2>7. ASSUME NEW q \in Runs, EventOf[q] = e PROVE Due(q)' => ~Wrong(k)' /\ rows[k].run # q
    BY <1>0, <1>2, <2>3, <2>7 DEF Due
  <2>8. CASE rows[k].run = r
    BY <1>1, <2>4, <2>5, <2>6, <2>7, <2>8 DEF Wrongs
  <2>9. CASE rows[k].run # r /\ Wrong(k)
    <3>1. Wrongs' \subseteq Wrongs
      BY <1>1, <2>1, <2>5, <2>9 DEF Wrongs
    <3> QED BY <2>4, <2>6, <2>7, <2>9, <3>1
  <2>10. CASE rows[k].run # r /\ ~Wrong(k)
    <3>1. Wrongs' \subseteq Wrongs \cup {k}
      BY <1>1, <2>5 DEF Wrongs
    <3>2. stage[r] = "label" => Due(r)
      BY <1>0, <1>4, <2>10 DEF Due
    <3> QED BY <1>0, <2>4, <2>6, <2>7, <2>10, <3>1, <3>2
  <2> QED BY <2>8, <2>9, <2>10
<1> QED BY <1>3, <1>4

(* Two runs of one event are never both on their way to Hermes.            *)
LEMMA AloneStep ==
  ASSUME BaseInv, Alone, [Next]_vars
  PROVE  Alone'
<1>1. ASSUME NEW r \in Runs, \A q \in Runs : q # r => stage'[q] = stage[q],
             stage'[r] \in Active =>
               \/ stage[r] \in Active
               \/ \A q \in Runs : q # r /\ EventOf[q] = EventOf[r] => stage[q] \notin Active
      PROVE  Alone'
  BY <1>1 DEF Alone
<1>2. CASE UNCHANGED stage
  BY <1>2 DEF Alone
<1>3. ASSUME NEW r \in Runs, WriteAudit(r) \/ LabelFeedback(r) PROVE Alone'
  <2>1. stage[r] \in Active /\ (Proceed(r) \/ Again(r))
    BY <1>3 DEF WriteAudit, LabelFeedback, Active
  <2>2. \A q \in Runs : q # r => stage'[q] = stage[q]
    BY <2>1, StageMoves DEF Active
  <2> QED BY <1>1, <2>1, <2>2
<1>4. ASSUME NEW r \in Runs, Diagnose(r) PROVE Alone'
  <2>1. /\ \A q \in Runs : q # r => stage'[q] = stage[q]
        /\ \A q \in Runs : q # r /\ EventOf[q] = EventOf[r] => stage[q] \notin Active
    BY <1>4 DEF Diagnose, Active, BaseInv, TypeOK
  <2> QED BY <1>1, <2>1
<1>5. ASSUME NEW r \in Runs, LateStatement(r) PROVE UNCHANGED stage
  BY <1>5 DEF LateStatement, flow
<1>6. CASE SopStep
  BY <1>2, <1>6, SopBase DEF flow
<1>7. CASE UNCHANGED vars
  BY <1>2, <1>7 DEF vars, flow
<1> QED BY <1>2, <1>3, <1>4, <1>5, <1>6, <1>7 DEF Next, Workflow, SopStep

Cost == Cardinality(Wrongs) + Cardinality(late) + Cardinality(Dues)

LEMMA SameRowsDue ==
  ASSUME rows' = rows, NEW q, Due(q)', stage'[q] = stage[q]
  PROVE  Due(q)
<1>1. RowsOf(EventOf[q])' = RowsOf(EventOf[q]) /\ LatestOf(EventOf[q])' = LatestOf(EventOf[q])
  <2>1. RowsOf(EventOf[q])' = RowsOf(EventOf[q])
    BY DEF RowsOf
  <2>2. /\ LatestOf(EventOf[q]) = Top(RowsOf(EventOf[q]))
        /\ LatestOf(EventOf[q])' = Top(RowsOf(EventOf[q])')
    BY DEF LatestOf, Top
  <2> QED BY <2>1, <2>2
<1> QED BY <1>1 DEF Due, Wrong

LEMMA WriteAuditCost ==
  ASSUME LabelInv, NEW r \in Runs, WriteAudit(r)
  PROVE  IsFiniteSet(late') /\ Cost' <= faults'
<1>1. /\ BaseInv /\ Alone /\ IsFiniteSet(late) /\ Cost <= faults
      /\ stage[r] = "audit" /\ (Proceed(r) \/ Again(r))
  BY DEF LabelInv, WriteAudit, Cost
<1>2. /\ \A q \in Runs : q # r => stage'[q] = stage[q]
      /\ Again(r) => stage'[r] # "label"
  BY <1>1, StageMoves DEF Again, Goto, BaseInv, TypeOK
<1>3. /\ IsFiniteSet(Wrongs) /\ IsFiniteSet(Dues)
      /\ Cardinality(Wrongs) \in Nat /\ Cardinality(late) \in Nat
      /\ Cardinality(Dues) \in Nat /\ faults \in Nat
  BY LabelSizes
<1>4. CASE Insert(r) /\ late' = late /\ (faults' = faults \/ Fault)
  <2>1. Dues' \subseteq Dues
    <3> SUFFICES ASSUME NEW q \in Runs, Due(q)' PROVE Due(q)
      BY DEF Dues
    <3>1. q # r
      BY <1>1, <1>4, InsertLabels
    <3>2. stage[q] = "label" /\ (Due(q) \/ EventOf[q] = EventOf[r])
      BY <1>1, <1>2, <1>4, <3>1, InsertLabels DEF Due
    <3> QED BY <1>1, <3>1, <3>2 DEF Alone, Active
  <2>2. Cardinality(Dues') \in Nat /\ Cardinality(Dues') <= Cardinality(Dues)
    BY <1>3, <2>1, SizeStep
  <2>3. Wrongs' = Wrongs
    BY <1>1, <1>4, InsertLabels
  <2>4. faults' = faults \/ faults' = faults + 1
    BY <1>4 DEF Fault
  <2> QED BY <1>1, <1>3, <1>4, <2>2, <2>3, <2>4 DEF Cost
<1>5. CASE UNCHANGED <<rows, late>> /\ Fault
  <2>1. Dues' \subseteq Dues \cup {r}
    BY <1>2, <1>5, SameRowsDue DEF Dues
  <2>2. Cardinality(Dues') \in Nat /\ Cardinality(Dues') <= Cardinality(Dues) + 1
    BY <1>3, <2>1, SizeStep
  <2>3. Wrongs' = Wrongs /\ late' = late /\ faults' = faults + 1
    BY <1>5 DEF Wrongs, Wrong, Fault
  <2> QED BY <1>1, <1>3, <2>2, <2>3 DEF Cost
<1>6. CASE Delay("insert", r) /\ Again(r) /\ Fault /\ rows' = rows
  <2>1. Dues' \subseteq Dues
    <3> SUFFICES ASSUME NEW q \in Runs, Due(q)' PROVE Due(q)
      BY DEF Dues
    <3>1. q # r
      BY <1>2, <1>6 DEF Due
    <3> QED BY <1>2, <1>6, <3>1, SameRowsDue
  <2>2. Cardinality(Dues') \in Nat /\ Cardinality(Dues') <= Cardinality(Dues)
    BY <1>3, <2>1, SizeStep
  <2>3. late' \subseteq late \cup {<<"insert", r, attempt[r]>>}
    BY <1>6 DEF Delay
  <2>4. /\ IsFiniteSet(late') /\ Cardinality(late') \in Nat
        /\ Cardinality(late') <= Cardinality(late) + 1
    BY <1>1, <2>3, SizeStep
  <2>5. Wrongs' = Wrongs /\ faults' = faults + 1
    BY <1>6 DEF Wrongs, Wrong, Fault
  <2> QED BY <1>1, <1>3, <2>2, <2>4, <2>5 DEF Cost
<1> QED BY <1>4, <1>5, <1>6 DEF WriteAudit

LEMMA LabelFeedbackCost ==
  ASSUME LabelInv, NEW r \in Runs, LabelFeedback(r)
  PROVE  IsFiniteSet(late') /\ Cost' <= faults'
<1>1. /\ BaseInv /\ Alone /\ IsFiniteSet(late) /\ Cost <= faults
      /\ stage[r] = "label" /\ (Proceed(r) \/ Again(r))
      /\ faults' = faults \/ Fault
  BY DEF LabelInv, LabelFeedback, Cost
<1>2. /\ \A q \in Runs : q # r => stage'[q] = stage[q]
      /\ \A q \in Runs : q # r /\ EventOf[q] = EventOf[r] => stage[q] # "label"
      /\ stage'[r] = "label" => stage'[r] = stage[r]
  BY <1>1, StageMoves DEF Alone, Active
<1>3. /\ IsFiniteSet(Wrongs) /\ IsFiniteSet(Dues)
      /\ Cardinality(Wrongs) \in Nat /\ Cardinality(late) \in Nat
      /\ Cardinality(Dues) \in Nat /\ faults \in Nat
  BY LabelSizes
<1>4. faults' \in Nat /\ faults <= faults'
  BY <1>1, <1>3 DEF Fault
<1>5. CASE Mark(r) /\ late' = late
  <2>1. ASSUME NEW q \in Runs, Due(q)', q = r => ~Due(r)' \/ Due(r) PROVE Due(q)
    <3>1. CASE q = r
      BY <2>1, <3>1
    <3>2. CASE q # r
      <4>1. stage'[q] = stage[q] /\ stage[q] = "label" /\ EventOf[q] # EventOf[r]
        BY <1>2, <2>1, <3>2 DEF Due
      <4> QED BY <1>1, <1>5, <2>1, <4>1, MarkLabels
    <3> QED BY <3>1, <3>2
  <2>2. CASE Wrongs' \subseteq Wrongs /\ ~Due(r)'
    <3>1. Dues' \subseteq Dues
      BY <2>1, <2>2 DEF Dues
    <3>2. /\ Cardinality(Dues') \in Nat /\ Cardinality(Dues') <= Cardinality(Dues)
          /\ Cardinality(Wrongs') \in Nat /\ Cardinality(Wrongs') <= Cardinality(Wrongs)
      BY <1>3, <2>2, <3>1, SizeStep
    <3> QED BY <1>1, <1>3, <1>4, <1>5, <3>2 DEF Cost
  <2>3. CASE /\ Wrongs' \subseteq Wrongs \cup {LatestOf(EventOf[r])}
             /\ Due(r) /\ ~Due(r)'
    <3>1. Dues' \subseteq Dues \ {r} /\ r \in Dues
      BY <2>1, <2>3 DEF Dues
    <3>2. Cardinality(Dues') \in Nat /\ Cardinality(Dues') + 1 <= Cardinality(Dues)
      BY <1>3, <3>1, SizeStep
    <3>3. Cardinality(Wrongs') \in Nat /\ Cardinality(Wrongs') <= Cardinality(Wrongs) + 1
      BY <1>3, <2>3, SizeStep
    <3> QED BY <1>1, <1>3, <1>4, <1>5, <3>2, <3>3 DEF Cost
  <2> QED BY <1>1, <1>5, <2>2, <2>3, MarkLabels
<1>6. CASE rows' = rows
  <2>1. Dues' \subseteq Dues
    BY <1>2, <1>6, SameRowsDue DEF Dues, Due
  <2>2. Cardinality(Dues') \in Nat /\ Cardinality(Dues') <= Cardinality(Dues)
    BY <1>3, <2>1, SizeStep
  <2>3. Wrongs' = Wrongs
    BY <1>6 DEF Wrongs, Wrong
  <2>4. CASE late' = late
    BY <1>1, <1>3, <1>4, <2>2, <2>3, <2>4 DEF Cost
  <2>5. CASE Delay("label", r) /\ Fault
    <3>1. late' \subseteq late \cup {<<"label", r, attempt[r]>>} /\ faults' = faults + 1
      BY <2>5 DEF Delay, Fault
    <3>2. /\ IsFiniteSet(late') /\ Cardinality(late') \in Nat
          /\ Cardinality(late') <= Cardinality(late) + 1
      BY <1>1, <3>1, SizeStep
    <3> QED BY <1>1, <1>3, <2>2, <2>3, <3>1, <3>2 DEF Cost
  <2> QED BY <1>6, <1>1, <2>4, <2>5, <1>5 DEF LabelFeedback
<1> QED BY <1>5, <1>6 DEF LabelFeedback

(* A late statement is paid for: what it does costs no more than it did.   *)
LEMMA LateStatementCost ==
  ASSUME LabelInv, NEW r \in Runs, LateStatement(r)
  PROVE  IsFiniteSet(late') /\ Cost' <= faults'
<1>1. /\ BaseInv /\ Alone /\ IsFiniteSet(late) /\ Cost <= faults
      /\ faults' = faults /\ \A q \in Runs : stage'[q] = stage[q]
  BY DEF LabelInv, LateStatement, flow, Cost
<1>2. /\ IsFiniteSet(Wrongs) /\ IsFiniteSet(Dues)
      /\ Cardinality(Wrongs) \in Nat /\ Cardinality(late) \in Nat
      /\ Cardinality(Dues) \in Nat /\ faults \in Nat
  BY LabelSizes
<1>3. PICK x \in late : late' = late \ {x}
  BY DEF LateStatement
<1>4. /\ IsFiniteSet(late') /\ Cardinality(late') \in Nat
      /\ Cardinality(late') + 1 <= Cardinality(late)
  BY <1>1, <1>3, SizeStep
  (* Of the runs of one event, one at most is about to label. *)
<1>5. ASSUME \A q \in Runs : Due(q)' => Due(q) \/ EventOf[q] = EventOf[r]
      PROVE  \E q : Dues' \subseteq Dues \cup {q}
  <2>1. CASE \E q \in Runs : EventOf[q] = EventOf[r] /\ stage[q] = "label"
    <3>1. PICK q \in Runs : EventOf[q] = EventOf[r] /\ stage[q] = "label"
      BY <2>1
    <3>2. Dues' \subseteq Dues \cup {q}
      BY <1>1, <1>5, <3>1 DEF Dues, Due, Alone, Active
    <3> QED BY <3>2
  <2>2. CASE ~\E q \in Runs : EventOf[q] = EventOf[r] /\ stage[q] = "label"
    BY <1>1, <1>5, <2>2 DEF Dues, Due
  <2> QED BY <2>1, <2>2
<1>6. CASE Wrongs' \subseteq Wrongs /\ \E q : Dues' \subseteq Dues \cup {q}
  <2>1. Cardinality(Dues') \in Nat /\ Cardinality(Dues') <= Cardinality(Dues) + 1
    BY <1>2, <1>6, SizeStep
  <2>2. Cardinality(Wrongs') \in Nat /\ Cardinality(Wrongs') <= Cardinality(Wrongs)
    BY <1>2, <1>6, SizeStep
  <2> QED BY <1>1, <1>2, <1>4, <2>1, <2>2 DEF Cost
<1>7. CASE /\ Wrongs' \subseteq Wrongs \cup {LatestOf(EventOf[r])} /\ Dues' \subseteq Dues
  <2>1. Cardinality(Dues') \in Nat /\ Cardinality(Dues') <= Cardinality(Dues)
    BY <1>2, <1>7, SizeStep
  <2>2. Cardinality(Wrongs') \in Nat /\ Cardinality(Wrongs') <= Cardinality(Wrongs) + 1
    BY <1>2, <1>7, SizeStep
  <2> QED BY <1>1, <1>2, <1>4, <2>1, <2>2 DEF Cost
<1>8. CASE Insert(r)
  BY <1>1, <1>5, <1>6, <1>8, InsertLabels
<1>9. CASE Mark(r)
  <2>1. \A q \in Runs : Due(q)' => Due(q) \/ EventOf[q] = EventOf[r]
    BY <1>1, <1>9, MarkLabels
  <2>2. (\A q \in Runs : EventOf[q] = EventOf[r] => ~Due(q)') => Dues' \subseteq Dues
    BY <2>1 DEF Dues
  <2> QED BY <1>1, <1>5, <1>6, <1>7, <1>9, <2>1, <2>2, MarkLabels
<1> QED BY <1>8, <1>9 DEF LateStatement

LEMMA LabelStep == LabelInv /\ [Next]_vars => LabelInv'
<1> SUFFICES ASSUME LabelInv, [Next]_vars PROVE LabelInv'
  OBVIOUS
<1>1. BaseInv /\ BaseInv' /\ Alone'
  BY BaseStep, AloneStep DEF LabelInv
<1>2. SUFFICES IsFiniteSet(late') /\ Cost' <= faults'
  BY <1>1 DEF LabelInv, Cost
<1>3. /\ faults \in Nat /\ faults' \in Nat /\ Cost \in Nat /\ Cost <= faults
      /\ IsFiniteSet(late)
  <2>1. faults \in Nat /\ Cost \in Nat
    BY LabelSizes DEF Cost
  <2>2. faults' \in Nat
    BY <1>1 DEF BaseInv, TypeOK
  <2> QED BY <2>1, <2>2 DEF LabelInv, Cost
<1>4. ASSUME rows' = rows, late' = late, faults' >= faults,
             \A q \in Runs : stage'[q] = "label" <=> stage[q] = "label"
      PROVE  IsFiniteSet(late') /\ Cost' <= faults'
  <2>1. \A q \in Runs : Due(q)' => Due(q)
    BY <1>4, SameRowsDue DEF Due
  <2>2. Wrongs' = Wrongs /\ Dues' \subseteq Dues
    BY <1>4, <2>1 DEF Wrongs, Wrong, Dues
  <2>3. Cardinality(Dues') \in Nat /\ Cardinality(Dues') <= Cardinality(Dues)
    BY <2>2, LabelSizes, SizeStep
  <2> QED BY <1>3, <1>4, <2>2, <2>3, LabelSizes DEF Cost
<1>5. ASSUME NEW r \in Runs, Diagnose(r) PROVE IsFiniteSet(late') /\ Cost' <= faults'
  BY <1>1, <1>3, <1>4, <1>5 DEF Diagnose, log, BaseInv, TypeOK
<1>6. CASE SopStep
  BY <1>1, <1>4, <1>6, SopBase DEF flow, log
<1>7. CASE UNCHANGED vars
  BY <1>3, <1>4, <1>7 DEF vars, flow, log
<1> QED
  BY <1>5, <1>6, <1>7, WriteAuditCost, LabelFeedbackCost, LateStatementCost
  DEF Next, Workflow, SopStep

LEMMA LabelInit == Init => LabelInv
<1> SUFFICES ASSUME Init PROVE LabelInv
  OBVIOUS
<1>1. Wrongs = {} /\ Dues = {} /\ late = {} /\ faults = 0
  BY DEF Init, Wrongs, Dues, Due
<1>2. Alone
  BY DEF Init, Alone, Active
<1> QED BY <1>1, <1>2, BaseInit, FS_EmptySet DEF LabelInv

(* A reason lands on the row of the decision it was given for, except once *)
(* for every fault: a swallowed INSERT, a statement that takes effect late *)
(* (label_latest_by_event_id).                                             *)
THEOREM LabelsFollowDecisions == Spec => []MislabelsCostFaults
<1>1. LabelInv => MislabelsCostFaults
  BY LabelSizes DEF LabelInv, MislabelsCostFaults, Wrongs, Wrong
<1> QED BY <1>1, LabelInit, LabelStep, PTL DEF Spec
=============================================================================
