----------------------------- MODULE KnowledgeLoop -----------------------------
(***************************************************************************)
(* What the system learns from its own work: write_audit appends a line to *)
(* the JSONL log and a row to Hermes, label_feedback marks the row of a    *)
(* rejection, the view sop_candidates counts successes, the daily job lets *)
(* the LLM write an SOP into skills/ and asks for a pull request, and      *)
(* agent_diagnose puts the matching files of skills/ into the prompt.  The *)
(* LLM also names the file and writes the triggers it is matched by, so    *)
(* two cases may share a file, and an SOP may reach any case's diagnosis.  *)
(*                                                                         *)
(* Runs are executions of AlertWorkflow; two of one event exclude each     *)
(* other (one workflow id), others interleave.  A call to PostgreSQL whose *)
(* activity has timed out may still be waiting for a connection of the     *)
(* pool and take effect later.  Everything that goes wrong costs a fault.  *)
(***************************************************************************)
EXTENDS Naturals, Sequences, FiniteSets

CONSTANTS
  Runs,            \* executions of the workflow
  Events,          \* event ids
  Cases,           \* (host_ip, runbook_id, first word of event_name)
  Files,           \* paths <category>/<name>.md under skills/
  EventOf,         \* EventOf[r]: event_id of the run
  CaseOf,          \* CaseOf[r]: the case it belongs to
  NotifyAttempts,  \* _NOTIFY_RETRY                  (code: 5)
  MinSuccess,      \* HAVING count(*) >= 3           (code: 3)
  MaxCandidates,   \* _MAX_CANDIDATES_PER_DAY        (code: 5)
  MaxFaults,       \* bound: what goes wrong
  NoRun,           \* no label
  NoCase           \* no such file

ASSUME KnowledgeAssumption ==
  /\ EventOf \in [Runs -> Events] /\ CaseOf \in [Runs -> Cases]
  /\ NotifyAttempts \in Nat \ {0} /\ MinSuccess \in Nat \ {0}
  /\ MaxCandidates \in Nat \ {0} /\ MaxFaults \in Nat
  /\ NoRun \notin Runs /\ NoCase \notin Cases

VARIABLES
  stage,     \* stage[r]: where the workflow of r is
  decision,  \* decision[r]: how it was decided and what came of it
  attempt,   \* attempt[r]: attempt of the activity that is running
  lines,     \* lines[r]: its lines in the JSONL log
  rows,      \* audit_records in the order of created_at
  late,      \* statements of attempts that timed out and still wait
  busy,      \* daily_sop_job is running
  todo,      \* its candidates still to be generated
  written,   \* its files so far
  skills,    \* skills[f]: the case whose SOP file f of skills/ holds
  proposed,  \* files in open pull requests, each with its case
  reviewed,  \* files that hold what somebody merged
  drafted,   \* some prompt held an SOP that nobody merged
  faults     \* what went wrong so far

flow == <<stage, decision, attempt>>
log  == <<lines, rows, late>>
sop  == <<busy, todo, written, skills, proposed, reviewed>>
vars == <<flow, log, sop, drafted, faults>>

(* "success": approved and verified; "rejected": with a reason; "other": *)
(* every other end of _run_inner that writes an audit.                   *)
Decisions == {"success", "rejected", "other"}

Present == {f \in Files : skills[f] # NoCase}

TypeOK ==
  /\ stage \in [Runs -> {"idle", "audit", "label", "done"}]
  /\ decision \in [Runs -> Decisions \cup {"none"}]
  /\ attempt \in [Runs -> 1..NotifyAttempts]
  /\ lines \in [Runs -> 0..NotifyAttempts]
  /\ rows \in Seq([run : Runs, label : Runs \cup {NoRun}])
  /\ late \subseteq {"insert", "label"} \X Runs \X (1..NotifyAttempts)
  /\ busy \in BOOLEAN
  /\ todo \subseteq Cases /\ skills \in [Files -> Cases \cup {NoCase}]
  /\ written \subseteq Present /\ reviewed \subseteq Present
  /\ proposed \subseteq Files \X Cases
  /\ drafted \in BOOLEAN /\ faults \in 0..MaxFaults

Init ==
  /\ stage = [r \in Runs |-> "idle"] /\ decision = [r \in Runs |-> "none"]
  /\ attempt = [r \in Runs |-> 1]
  /\ lines = [r \in Runs |-> 0] /\ rows = <<>> /\ late = {}
  /\ busy = FALSE /\ todo = {} /\ written = {}
  /\ skills = [f \in Files |-> NoCase] /\ proposed = {} /\ reviewed = {}
  /\ drafted = FALSE /\ faults = 0

Fault == faults < MaxFaults /\ faults' = faults + 1

-----------------------------------------------------------------------------
(* The workflow, as far as it writes to Hermes.                            *)

Goto(r, s) ==
  /\ stage' = [stage EXCEPT ![r] = s] /\ attempt' = [attempt EXCEPT ![r] = 1]
  /\ UNCHANGED decision

(* The activity returned; after the audit only a rejection with a reason   *)
(* is labelled.                                                            *)
Proceed(r) ==
  Goto(r, IF stage[r] = "audit" /\ decision[r] = "rejected" THEN "label" ELSE "done")

(* Mutant: an attempt that fails is always followed by another.            *)
AgainForever(r) ==
  attempt' = [attempt EXCEPT ![r] = @ + 1] /\ UNCHANGED <<stage, decision>>

(* The attempt failed: another one, or the workflow fails.                 *)
Again(r) ==
  IF attempt[r] < NotifyAttempts
  THEN attempt' = [attempt EXCEPT ![r] = @ + 1] /\ UNCHANGED <<stage, decision>>
  ELSE Goto(r, "done")

(* load_skills and match_skills: what the triggers match is up to the LLM, *)
(* which wrote them, and to the texts and the severity of the alert; one   *)
(* broken pattern, and nothing is matched.                                 *)
MatchSkills == SUBSET Present

(* agent_diagnose reads skills/; then the alert is decided and handled.    *)
Diagnose(r) ==
  /\ stage[r] = "idle"
  /\ \A q \in Runs : EventOf[q] = EventOf[r] => stage[q] \in {"idle", "done"}
  /\ \E S \in MatchSkills : drafted' = (drafted \/ ~(S \subseteq reviewed))
  /\ \E d \in Decisions : decision' = [decision EXCEPT ![r] = d]
  /\ stage' = [stage EXCEPT ![r] = "audit"]
  /\ UNCHANGED <<attempt, log, sop, faults>>

(* Mutant: an error of the JSONL file is swallowed like one of Hermes.     *)
LogOrNot(r) == lines' = [lines EXCEPT ![r] = @ + 1] \/ UNCHANGED lines

Log(r) == lines' = [lines EXCEPT ![r] = @ + 1]

Insert(r) == rows' = Append(rows, [run |-> r, label |-> NoRun])

(* Every attempt sends a statement of its own.                             *)
Delay(what, r) == late' = late \cup {<<what, r, attempt[r]>>}

(* write_audit.  An error of Hermes is swallowed; when the attempt is lost *)
(* the line, and the row, may be there all the same.                       *)
WriteAudit(r) ==
  /\ stage[r] = "audit"
  /\ \/ Log(r) /\ Insert(r) /\ Proceed(r) /\ UNCHANGED <<late, faults>>
     \/ Log(r) /\ Proceed(r) /\ Fault /\ UNCHANGED <<rows, late>>
     \/ /\ Fault /\ Again(r)
        /\ \/ UNCHANGED <<lines, rows, late>>
           \/ Log(r) /\ UNCHANGED <<rows, late>>
           \/ Log(r) /\ Insert(r) /\ UNCHANGED late
           \/ Log(r) /\ Delay("insert", r) /\ UNCHANGED rows
  /\ UNCHANGED <<sop, drafted>>

RowsOf(e) == {i \in DOMAIN rows : EventOf[rows[i].run] = e}

(* Mutant: ORDER BY created_at without DESC.                               *)
OldestOf(e) == CHOOSE i \in RowsOf(e) : \A j \in RowsOf(e) : i <= j

LatestOf(e) == CHOOSE i \in RowsOf(e) : \A j \in RowsOf(e) : i >= j

(* label_latest_by_event_id: the SELECT decides, the UPDATE is by id.      *)
Mark(r) ==
  rows' = IF RowsOf(EventOf[r]) = {} THEN rows
          ELSE [rows EXCEPT ![LatestOf(EventOf[r])].label = r]

LabelFeedback(r) ==
  /\ stage[r] = "label"
  /\ \/ Mark(r) /\ Proceed(r) /\ UNCHANGED <<late, faults>>
     \/ Proceed(r) /\ Fault /\ UNCHANGED <<rows, late>>
     \/ /\ Fault /\ Again(r)
        /\ \/ UNCHANGED <<rows, late>>
           \/ Mark(r) /\ UNCHANGED late
           \/ Delay("label", r) /\ UNCHANGED rows
  /\ UNCHANGED <<lines, sop, drafted>>

(* A connection comes free for an attempt that nobody waits for any more.  *)
LateStatement(r) ==
  /\ \E n \in 1..NotifyAttempts :
       \/ <<"insert", r, n>> \in late /\ Insert(r) /\ late' = late \ {<<"insert", r, n>>}
       \/ <<"label", r, n>> \in late /\ Mark(r) /\ late' = late \ {<<"label", r, n>>}
  /\ UNCHANGED <<flow, lines, sop, drafted, faults>>

-----------------------------------------------------------------------------
(* daily_sop_job.                                                          *)

(* Mutant: the view counts every row of the case that has a runbook.       *)
EveryRow(c) ==
  {i \in DOMAIN rows : CaseOf[rows[i].run] = c /\ decision[rows[i].run] # "rejected"}

Successes(c) ==
  {i \in DOMAIN rows : CaseOf[rows[i].run] = c /\ decision[rows[i].run] = "success"}

(* The view sop_candidates.                                                *)
Candidates == {c \in Cases : Cardinality(Successes(c)) >= MinSuccess}

(* ORDER BY success_count DESC LIMIT _MAX_CANDIDATES_PER_DAY               *)
Best ==
  {S \in SUBSET Candidates :
    /\ Cardinality(S) <= MaxCandidates
    /\ Cardinality(S) = MaxCandidates \/ S = Candidates
    /\ \A c \in S, d \in Candidates \ S :
         Cardinality(Successes(c)) >= Cardinality(Successes(d))}

StartJob ==
  /\ ~busy /\ todo' \in Best \ {{}} /\ busy' = TRUE
  /\ UNCHANGED <<flow, log, written, skills, proposed, reviewed, drafted, faults>>

(* Mutant: a file that is there already is kept.                           *)
GenerateNew(c) ==
  /\ c \in todo /\ todo' = todo \ {c}
  /\ \E f \in Files \ Present :
       skills' = [skills EXCEPT ![f] = c] /\ written' = written \cup {f}
  /\ UNCHANGED <<flow, log, busy, proposed, reviewed, drafted, faults>>

(* The LLM answers, and the file of the category and the name it chose is  *)
(* written, over an SOP of this or another case if it exists: every name   *)
(* without a letter of a..z or a digit becomes "sop".                      *)
Generate(c) ==
  /\ c \in todo /\ todo' = todo \ {c}
  /\ \E f \in Files :
       /\ skills' = [skills EXCEPT ![f] = c] /\ written' = written \cup {f}
       /\ reviewed' = reviewed \ {f}
  /\ UNCHANGED <<flow, log, busy, proposed, drafted, faults>>

(* The candidate raises; the loop goes on to the next.                     *)
GenerateFails(c) ==
  /\ c \in todo /\ todo' = todo \ {c}
  /\ UNCHANGED <<flow, log, busy, written, skills, proposed, reviewed, drafted, faults>>

(* open_sop_pr; without a token, or when git or gh fails, there is none.   *)
OpenSopPr ==
  /\ busy /\ todo = {}
  /\ proposed' \in {proposed, proposed \cup {<<f, skills[f]>> : f \in written}}
  /\ busy' = FALSE /\ written' = {}
  /\ UNCHANGED <<flow, log, todo, skills, reviewed, drafted, faults>>

(* The process stops.                                                      *)
JobDies ==
  /\ busy /\ Fault
  /\ busy' = FALSE /\ todo' = {} /\ written' = {}
  /\ UNCHANGED <<flow, log, skills, proposed, reviewed, drafted>>

(* Somebody merges the pull request, and deploys it, or closes it.         *)
Review(f, c) ==
  /\ <<f, c>> \in proposed /\ proposed' = proposed \ {<<f, c>>}
  /\ \/ skills' = [skills EXCEPT ![f] = c] /\ reviewed' = reviewed \cup {f}
     \/ UNCHANGED <<skills, reviewed>>
  /\ UNCHANGED <<flow, log, busy, todo, written, drafted, faults>>

-----------------------------------------------------------------------------
Workflow(r) == Diagnose(r) \/ WriteAudit(r) \/ LabelFeedback(r)

Loop == StartJob \/ OpenSopPr \/ \E c \in Cases : Generate(c) \/ GenerateFails(c)

Next ==
  \/ \E r \in Runs : Workflow(r) \/ LateStatement(r)
  \/ Loop \/ JobDies
  \/ \E f \in Files, c \in Cases : Review(f, c)

Spec == Init /\ [][Next]_vars

(* The scheduler fires every day and the job runs on; the LLM, asked about *)
(* a case again and again, answers once.                                   *)
FairSpec == Spec /\ WF_vars(Loop) /\ \A c \in Cases : SF_vars(Generate(c))

-----------------------------------------------------------------------------
(* Properties.                                                             *)

(* Hermes never knows of more than the log: every row, and every statement *)
(* that may still become one, has its line in the JSONL log.               *)
HermesHasItsLine ==
  \A r \in Runs :
    Cardinality({i \in DOMAIN rows : rows[i].run = r})
      + Cardinality({x \in late : x[1] = "insert" /\ x[2] = r}) <= lines[r]

(* A reason lands on the row of the very decision it was given for, unless *)
(* something went wrong, and once per thing that did: a success does not   *)
(* turn into a counterexample by the order of events alone.                *)
MislabelsCostFaults ==
  Cardinality({i \in DOMAIN rows : rows[i].label \notin {NoRun, rows[i].run}}) <= faults

(* An SOP in skills/ or in a pull request stands for MinSuccess verified   *)
(* repairs of its case, whatever file it shares with others; every one     *)
(* that is missing is a repair that a fault made count twice.              *)
SopCases == {c \in Cases : \E f \in Files : skills[f] = c \/ <<f, c>> \in proposed}

SopsAreEarned ==
  \A c \in SopCases :
    Cardinality({r \in Runs : CaseOf[r] = c /\ decision[r] = "success"}) + faults
      >= MinSuccess

(* A case with enough successes gets its SOP, in spite of failed           *)
(* generations and a stop of the job, while there are no more cases than a *)
(* day takes (with more, the best ones are taken every day).  Successes    *)
(* are never taken back, so this is so again and again: a case gets its    *)
(* SOP back when that of another case took its file, but nothing keeps it  *)
(* there in between.                                                       *)
SuccessesBecomeSops ==
  \A c \in Cases :
    Cardinality(Successes(c)) >= MinSuccess ~> \E f \in Files : skills[f] = c

(* The plan of the SOP pipeline: what the LLM wrote must be reviewed by a  *)
(* person before it is used.                                               *)
OnlyReviewedSopsAreUsed == ~drafted
=============================================================================
