# Verification of anq-aiops

TLA+ models of the alert-handling system in this repository, the TLC runs that
check them on small instances, and TLAPS proofs of the facts that matter most
for every instance. Paths below are relative to the repository; `src/` there is
`src/src/` in PROJECT.json.

Run `tlc -config <cfg> <module>` for a check (the table under "Runs" names the
pairs) and `tlapm <module>.tla` for the proofs.

## 1. The system

A Zabbix alert enters through a webhook, goes through a Redis stream, is
correlated with other alerts, and, if it is the root of its group, starts a
Temporal workflow. The workflow asks an LLM agent for a diagnosis and a plan,
asks the policy engine whether the plan may run, shows a card in Feishu, waits
for a human or goes ahead, runs an Ansible playbook on the host under a lock,
writes an audit record and reports. What was done is kept in PostgreSQL
("Hermes") and comes back as past cases, counterexamples and SOPs in later
prompts. A separate container probes the parts and raises an alarm.

| Component | State | Operations | Talks to |
|---|---|---|---|
| Webhook, producer (`api/webhook.py`, `bus/producer.py`) | dedup keys (1 h), the stream (at most ~10000 entries) | overload check, rate limit, SET NX, XADD | Redis |
| Consumer (`bus/consumer.py`) | consumer group: delivered, pending | reclaim, read, handle, XACK | Redis, correlator, Temporal |
| Gauge, guard, limiter (`coordination/rate_limit.py`) | in-flight counter, per-minute counter | INCR, DECR + SET 0, compare | webhook, consumer, workflow |
| Correlator (`correlator/`) | groups and index with TTLs, a lock per host, an answer cache | lock, read groups, quick filter, LLM judgement, save | Redis, LLM router |
| Alert workflow (`workflows/alert_workflow.py`) | Temporal history: stage, decision, label | about a dozen activities, one signal, one 30 min timer | all activities |
| Activities (`activities/`) | none of their own, one thread per playbook | mutex, audit, label, runbook, cards, summary | Redis, files, Hermes, Feishu, hosts |
| Action mutex (`coordination/mutex.py`) | one key per target with token and TTL | SET NX EX, compare-and-delete | Redis |
| Policy engine (`policy/`) | the rule file, re-read when asked | evaluate | - |
| Circuit breaker, router (`llm/`) | state, two counters, two times | check, record, fallback | two LLMs |
| ReAct agent (`llm/agent.py`, `diagnostic_tools.py`) | one conversation | tool turns, final plan | LLM, hosts |
| Listener (`feishu_listener.py`) | a thread, signals in flight | card action -> signal | Feishu, Temporal |
| Hermes (`hermes/`) | `audit_records`, the view `sop_candidates` | insert, label, search | PostgreSQL |
| SOP pipeline (`activities/sop_generator.py`, `sop/`, `scheduler/`) | files in `skills/`, git branches | daily job, LLM text, pull request | Hermes, LLM, GitHub |
| Runbooks (`runbooks/`, `ansible/`) | none, a thread per run | parameter check, dry run, execute, verify, rollback | hosts |
| Lifespan (`main.py`) | the tasks and clients | start, stop, health | everything |
| Meta monitor (`meta_monitor/`) | who was reported when | probe, report, recover | all, Feishu |

What is hard about it: every activity attempt may take effect and lose its
reply, and is then repeated; a playbook's thread outlives its activity; locks,
groups and dedup keys expire on their own; clicks race timers; the process may
stop between any two awaits and pending messages are delivered again; several
stores are written one after the other without a transaction; results arrive
after the state they belong to is gone. PROJECT.json lists these hazards line
by line with the properties that cover them.

## 2. Modules

| Module | Models | State and actions |
|---|---|---|
| `ActionMutex` | `coordination/mutex.py` on Redis | `lock`; acquire, release, expiry; shared by two modules through EXTENDS |
| `AlertWorkflow` | the workflow, its activities, the runbook thread, the stop of a worker, for any number of alerts | `pc` names the awaited activity; one action per activity, timer and signal; every attempt is ok, lost or failed; `run`: the playbook is in line for a thread, in it, or done; `waited`, `timer`: since the lock, since the pickup |
| `IncidentContract` | nothing in the code: what handling an alert promises | authorise, begin, end, report |
| `AlertIntake` | webhook, producer, stream, consumer, gauge, the end of a workflow | one action per await |
| `AlertCorrelator` | correlate(), group store, quick filter, LLM verdict, and the consumer around them | one action per await, any number of consumers |
| `PolicyEngine` | rule engine, operators, host tiers, the shipped rules, the activity | pure operators; two actions: the file changes, an attempt is judged |
| `CircuitBreaker` | breaker and router | one action per method; calls in flight in between; a restart loses it all |
| `DiagnosticAgent` | the conversation of the ReAct agent, its tools, and the attempts of `agent_diagnose`; EXTENDS `CircuitBreaker` | `talk`: turns taken, tool calls to execute, calls without an answer; `wait`: the attempt the workflow waits for |
| `RunbookExecution` | the thread of a playbook: parameters, dry run, execute, verify, rollback; EXTENDS `AlertWorkflow` | `phase`, `result`, and `touched`: has anything run on the host for real |
| `ApprovalListener` | the card callback, its 10 s wait, cancellation, late signals, toasts; EXTENDS `AlertWorkflow` | `press`, `orphans`, `toast` |
| `IncidentSystem` | the composition of the workflow with the two above and with the agent's advice | `planned`; each action is one of a part, with what the other parts see of it |
| `MetaMonitor` | the watchdog container: rounds, probes, alarms, recoveries | `up`, `alarm` (age of the last alert), `heard` (what the group was told last) |
| `KnowledgeLoop` | write_audit into both stores, labels, the view, the daily SOP job, what the next diagnosis reads | attempts as in AlertWorkflow, and statements that take effect late; `skills`: whose SOP a file holds |
| `AlertWorkflowProofs`, `IncidentSystemProofs`, `AlertIntakeProofs`, `AlertCorrelatorProofs`, `PolicyEngineProofs`, `DiagnosticAgentProofs`, `KnowledgeLoopProofs`, `MetaMonitorProofs` | theorems | |
| `MC...` | values of the constants for TLC | |

How they fit together. `AlertIntake` ends where `AlertWorkflow` begins
(`starts`) and takes from it when the gauge is decremented; it takes the
correlator's verdict as a choice that `AlertCorrelator` details.
`AlertWorkflow` takes the policy's answer as a choice of the three decisions;
`PolicyEngine` shows that without a plan "allow" is not among them, which
`AlertWorkflow` uses. `KnowledgeLoop` takes from `AlertWorkflow` the order
"audit, then label" and how a run may end. `AlertWorkflow` refines
`IncidentContract`.

`IncidentSystem` details what `AlertWorkflow` leaves open. A run that is just
"running" there has phases here and its thread may die in any of them; a click
that just arrives there is a callback whose signal may be late or lost; the
diagnosis has an advice, which decides whether policy may allow. Every step of
the composition is a step of `AlertWorkflow` or leaves it alone
(`ImplementsWorkflow`), so nothing shown of `AlertWorkflow` has to be shown
again. In the same way `DiagnosticAgent` implements `CircuitBreaker`
(`ImplementsRouter`): its coroutines are the breaker's callers.

Each definition's place in the code is in PROJECT.json under "map". Definitions
marked as mutants in a comment are not part of the models: each changes one
definition as a plausible bug would, and the property it is listed with must
then fail.

Abstractions worth knowing:

- A call or an attempt has three outcomes: ok; lost (took effect, reply gone);
  failed (no effect). `MaxFaults` bounds them where nothing in the code does.
- Time is counted in ticks; the proportions that matter are kept (`MutexTTL` >
  `ExecTimeout` as 900 s > 600 s). One run departs from them on purpose:
  `correlator`, see below.
- Nothing bounds a playbook, the wait of `execute_runbook` for a worker, the
  wait of a playbook for a thread of the executor, or the life of a worker: none
  of these has a limit in the code, and none has one in `AlertWorkflow`.
- The LLM names the file of an SOP, in a directory all cases share, and writes
  the triggers by which it is matched: which file of `Files` a case gets, over
  whatever is there, and which files reach a diagnosis are choices.
- In `AlertCorrelator` alerts are related by address or by host name, as in
  `quick_filter.py:47`; the lock is keyed by the address alone.
- The LLM's answers, the rate limiter's count and the correlation verdict (in
  `AlertIntake`) are choices.
- A tool, a model's message and a probe are choices of what may come of them.
  What a playbook does to a host is one bit, set when a task has run outside
  check mode; a failing or killed execution may or may not have got so far.
- Whether Temporal cancels the coroutine of a timed-out attempt at once, later
  or never is a choice: it depends on heartbeats this code does not send and on
  the shutdown of the worker.
- In `MetaMonitor` time is counted in probing intervals and every count stops at
  the window, with which alone the code compares.
- Derived alerts inside a group, message texts, parameters and summaries are
  left out; the LLM prompt is the only reader.
- `try_acquire_mutex` returns "skip" without a Redis client. The lifespan sets
  the client before the worker starts, so this branch is unreachable and left
  out.

## 3. Runs

| Run | Module / cfg | Shows | Bounds |
|---|---|---|---|
| workflow | MCAlertWorkflow / AlertWorkflow | safety of the workflow and the refinement of `IncidentContract` | 2 alerts of 1 host, symmetric; 2 attempts on the mutex, 1 on notifications; TTL 3, timeout 1 |
| system | MCIncidentSystem / IncidentSystem | the composition implements the workflow; verdicts fit the host, confirmed clicks are heard, unplanned runbooks need a human; every alert is closed, every host comes free, every click is answered | 1 alert; TTL 2, timeout 1; 2 notification attempts, 1 on the mutex; 1 orphaned signal |
| overrun | MCAlertWorkflow / AlertWorkflowOverrun | finding 1 | as `workflow` |
| audit | MCAlertWorkflow / AlertWorkflowAudit | finding 2 | 1 alert, 5 attempts |
| intake | MCAlertIntake / AlertIntake | nothing acknowledged unhandled; duplicates and gauge drift bounded by faults; accepted alerts handled | 3 requests for 2 events, overload at 1, stream of 2, 1 fault |
| stranded | MCAlertIntake / AlertIntakeStranded | finding 3 | 1 request, 1 fault |
| correlator | MCAlertCorrelator / AlertCorrelator | no second root for a related alert; a failure loses no incident; every alert is settled | 3 alerts: 2 of one host name with two addresses, 2 only the LLM relates, 2 of one address but apart in time; 1 consumer, 2 faults; group and lock TTL 2, redelivery after 1 |
| knowledge | MCKnowledgeLoop / KnowledgeLoop | log before database; labels on their own rows; SOPs earned and delivered | 3 runs, 2 of one event, 2 cases that share 1 file, threshold 2, 2 faults |
| review | MCKnowledgeLoop / KnowledgeLoopReview | finding 4 | 3 runs of one case, 2 files, no fault |
| policy | MCPolicyEngine / PolicyEngine | the order of effects, the red lines, no allow out of an error | all requests the shipped rules distinguish, the shipped file and six damaged ones |
| agent | DiagnosticAgent / DiagnosticAgent | conversations are well formed and end; the workflow gets its answer; the breaker trips on fresh failures only, is open for a window and recovers | 1 alert after another, 2 coroutines, 1 tool call per turn, 2 turns, 2 attempts; window 2, threshold 1/2, at most 4 results counted |
| monitor | MCMetaMonitor / MetaMonitor | the group's last word is what the monitor believes; what lasts is reported | 3 components, window of 3 intervals, rounds up to 2 apart, 2 faults |

Why the bounds are enough. Two alerts of one host are what the mutex is about;
the theorems below lift the safety part to any number. With one notification
attempt a failing notification already fails the workflow; more attempts add
only repetitions, which `system` and `audit` have. A timeout of 1 and a TTL of 3
let an activity be picked up in time or late and time out, and a lock expire
under it or be released by a workflow that has given up, with the playbook in
line, running or done; `overrun` fails with the very same constants. `system` has
one alert, since its parts belong to one alert each; theorems carry its safety to
any number. In `intake`, two requests
of one event meet dedup, redelivery and a second dedup window, the third request
of another event meets the overload threshold of 1 and the trimming of a stream
of 2. In `correlator`, both quick verdicts and the LLM's occur, a group can expire
while its alert is handled, and two faults are the fewest that let a ring of
suppressions come about (see below). A group lives longer there than a message
waits for its redelivery. By the defaults it is the other way round (30 s, 60 s),
and then there are no rings: with `GroupTTL` = 1 and `MinIdle` = 2 TLC finds none.
The window is a setting (`config.py:61`), so the run takes the values with which
the property has something to say; the theorem holds for all. In `knowledge`, two faults on one event
reach an exhausted retry, a doubled row and a late statement between two runs,
and with one file every SOP of one case takes that of the other; `review` has two
files, the proofs any.
In `agent`, two coroutines let one attempt's conversation go on beside the retry
and give its result to a breaker that has opened or half opened since. The
threshold is 1/2 there: with three results and the code's 0.3 a single failure
trips the breaker, so stale counters would go unseen. In `monitor`, a window of 3
and gaps of 2 let reminders fall due in and between rounds, and two faults lose
a message and restart the container, or the host.

What the less obvious properties say:

- `RingsCostFaults` (correlator). Alerts that suppress each other in a ring get
  no workflow at all. In any set of lost alerts each of which hangs off another
  of the set, every alert that serves as a root has cost a fault of its own. A
  ring does come about with two: two roots of different hosts both fail to
  start, their groups still live, and on redelivery the LLM puts each into the
  other's group.
- `RootsAreDistinct` (correlator). With one consumer, as deployed, no crash,
  left-over lock, broken save or expiry gives two visible roots that the quick
  filter relates. With two consumers it does not hold: the lock is given up
  after 20 x 50 ms (`correlate.py:34`), less than an LLM judgement under it may
  take. Give `Consumers` two elements to see it.
- `ProtectedRunsAreExclusive` (workflow). `MutualExclusion` is false (finding 1),
  since no thread is stopped and no pickup is bounded. What the lock still gives:
  of two playbooks that run on a host at once, one was picked up so late that its
  lock could run out before the activity timed out, or its workflow has given it
  up and settled on "error". With 900 s and 600 s, late is five minutes after the
  lock was set.
- `OverrunsAreKnown` (workflow). run()'s finally gives the slot of the overload
  guard back although the playbook may go on. By then the error is in the audit
  log and in the group, or the workflow has failed for an activity that could not
  do that. The guard counts workflows: how many playbooks run beside those it
  counts is not bounded by anything.
- `ImplementsContract` (workflow). The contract knows of late remediations and of
  those that were given up, and lets only these share a host.
- `VerdictFitsHost` (system). The label and the message the group gets are
  compared with what was done to the host. A phase that raises, a process that
  dies in the middle of an execution and an activity that times out must not
  lead to a word that says nothing was run. That the run may still be going on
  when "error" is reported is allowed by the property and is finding 1.
- `ConfirmedIsHeard`, `EveryPressIsAnswered`, `ImplementsWorkflow` (system). A
  click confirmed on the card has a decision behind it, though not always this
  click's; one reported as timed out may still decide; none changes a decision.
  A decision that comes after the 30 minutes is stored, and nobody acts on it.
- `SuccessesBecomeSops` (knowledge) says that a case with enough successes gets
  its SOP again and again, not that it keeps it: the LLM may give the SOP of
  another case the same file.
- `TripsOnFreshFailures` (agent) compares the breaker's counters, which are only
  reset by the next result, with a history: `within[k]`, the failures recorded
  in the last k ticks.
- `RecoversInTheEnd` (agent) assumes that from some time on no call to the
  primary fails or is cut off and the process is not restarted; it does not
  assume that anything is called.
- `GroupIsInTheKnow` (monitor) is exact until a fault: with no message lost and
  no restart, nobody is left with a FAIL that was cleared. `TheGroupLearns` says
  what faults cannot spoil: a component that is down for good is reported.
- `GaugeHonest`, `StartsArePaid` (intake), `MislabelsCostFaults`,
  `SopsAreEarned` (knowledge) bound a deviation by the number of faults: with
  none they are exact, so a plain interleaving never causes one. `GaugeHonest`
  bounds how much the gauge overstates; it may understate by more, since the
  SET 0 of `decr()` overwrites what was counted since its DECR.
- `RootsAreDistinct`, like every statement about one consumer, is about the
  deployment as it is; `docs/multi-agent-coordination.md:27` advises replicas of
  the worker when alerts come too fast, which it excludes.

## 4. Fairness

- `AlertWorkflow`: weak fairness of each workflow's step and of time. Temporal
  schedules, retries and times out activities. Nobody has to click and no
  playbook has to end; workers come back some day.
- `AlertIntake`: weak fairness of the consumer task, and of `Restart`.
  docker-compose.yml has no restart policy, so a stopped process is started by
  an operator; without that no liveness holds. Errors of the poll end the task
  and nothing starts it again (finding 3), hence `at = "dead"` in
  `AcceptedIsHandled`.
- `AlertCorrelator`: weak fairness of each consumer and of time. Faults are
  bounded, so failures do not go on for ever.
- `IncidentSystem`: weak fairness of each alert's workflow, of time, and of the
  listener's timeout. Nobody has to click, no thread has to end, and Temporal
  need not answer a signal.
- `DiagnosticAgent`: weak fairness of each coroutine's conversation (a request
  times out after 60 s, a tool's ansible run after 30 s), of Temporal's
  scheduling and timeouts, of the next alert, and of time. Not of any success,
  and not of cancellation.
- `MetaMonitor`: weak fairness of the loop: `while True`, a sleep, probes with
  timeouts. Components come and go as they like.
- `KnowledgeLoop`: weak fairness of the daily job, strong fairness of each
  case's generation: asked every day, the LLM answers some day.

## 5. Findings

1. *Overrun.* `alert_workflow.py:202` promises one repair action per host. When
   a playbook exceeds its 10 minute activity timeout, or its worker is cancelled
   at shutdown (`main.py:130`), its thread goes on, the workflow releases the
   lock, and a second playbook starts beside it. The same comes of an activity
   that is picked up late (`alert_workflow.py:228` sets no limit): the lock
   expires under it.
2. *Audit.* `docs/hermes-knowledge.md:20` calls the JSONL log always written.
   If releasing the mutex exhausts its two attempts after a playbook ended, the
   workflow fails before the audit.
3. *Stranded.* `bus/consumer.py:64` claims that crashed consumers do not strand
   alerts. The polls are outside the `try` of the loop: one Redis error, or one
   message that does not parse, ends the task for good. `/health/deep` still
   answers 200 (`main.py:177`), so the container stays healthy.
4. *Review.* `docs/superpowers/plans/2026-05-09-phase8-sop-feedback-loop.md:26`:
   an SOP by the LLM must be reviewed before use. It is written into `skills/`,
   which the agent loads at the next diagnosis.

Met while modelling, without a run of their own:

- The dedup key is set before XADD and kept when XADD fails
  (`bus/producer.py:21`): Zabbix's repetition is called a duplicate for an hour
  although nothing is queued.
- A lost reply of a successful acquire makes the retry meet its own lock, and
  the message then blames another alert (`alert_workflow.py:219`).
- The audit row of a rejection has no runbook (`alert_workflow.py:182`), so the
  counterexample in the prompt names none (`hermes/knowledge.py:73`).
- The comment at `circuit_breaker.py:31` speaks of one probe; any number may be
  under way.
- With more than five candidates the SOP job may serve the same five every day.
- The card confirms the signal, not the choice: a second click with the other
  answer is toasted as received and ignored (`feishu_listener.py:80`).
- `agent_diagnose` says of a null plan that nothing is repaired
  (`activities/llm.py:41`), but the workflow reads neither "none" nor
  `agent_failed`, and offers a runbook chosen by keywords; `UnplannedNeedsApproval`
  says that at least a human decides on it.
- Both `rollback` methods return False, so a failed verification never restores
  anything.
- `AnthropicClient` has no `chat_with_tools`: with it as primary every diagnosis
  raises NotImplementedError and counts as a failure of the primary.
- Two conversations of five turns of 60 s do not fit into an attempt of five
  minutes (`alert_workflow.py:347`): behind a slow primary the fallback never
  finishes.
- `docs/meta-monitoring.md` promises at most one failure alert per component in
  five minutes; a recovery deletes the time of the last one, so a component that
  flaps is reported at every failure. On a host that has just booted the first
  failure is swallowed until the clock has passed the window
  (`healthcheck.py:57`).

## 6. Proofs

`AlertWorkflowProofs` proves, for any sets of alerts and hosts and any values of
the constants that satisfy `ConstantsAssumption` and `TokenAssumption`, and with
no assumption on how long a playbook, a pickup or a worker lasts:

- `TypeCorrect`: `Spec => []TypeOK`, by one lemma per action.
- `SafetyInvariant`: `Spec => []SafetyInv`. From it `RemediationsAreExclusive`
  (`ProtectedRunsAreExclusive`), `RunsAreAuthorised`, `OutcomesAreTruthful`,
  `NoticesAreAudited` and `OverrunsAreReported` (`OverrunsAreKnown`).

None of these is inductive alone. `SafetyInv` says that the stage agrees with
the run and the label (`Control`; a playbook left behind has an "error" to its
workflow), that authority is carried from the click or the policy to the run
(`Authority`), that audit rows agree with a label that is settled once (`Rows`,
`Audit`; an error is told before the mutex is given back), that a token is its
owner's (`Token`), and how the lock ages (`Lease`): while `execute_runbook` waits
for a worker or is timed, and for as long as the two clocks together have not
reached the TTL, the workflow holds the lock, and the lock's remaining TTL and
the two clocks add up to at least `MutexTTL`. Two protected playbooks would both
hold the lock, with a token that names its owner. The invariant was checked with
TLC before it was proved. The proof splits on the actions; what an action leaves
alone is settled by one frame lemma.

Two more theorems stand beside it:

- `OwnersRelease`: a release takes nobody else's lock away. By `LocksLive` a lock
  that is set has life left, so only the tick that ends it can make it expire,
  and every other action acquires a free one, releases it by the token that is
  set, or leaves it.
- `WorkflowMeetsContract`: `Spec => ImplementsContract`. Each action is shown to
  be one of the contract's or a stutter. A playbook that starts is alone on its
  host, late, or given up already, by `ProtectedRunsAreExclusive` in the state it
  leads to; `Carded` says that nobody decides before there is a card, and that a
  card has buttons only where policy does not let the run go by itself.

`IncidentSystemProofs` carries this to the composition, and adds to it:

- `SystemImplementsWorkflow`: one lemma per part maps each of its steps to a step
  of `AlertWorkflow` or a stutter; the listener needs its type invariant, since
  an orphan must be a click. `SystemRemediationsAreExclusive` follows from
  `RemediationsAreExclusive`.
- `SystemMeetsContract` chains it with `WorkflowMeetsContract`: the composition
  meets `IncidentContract`. `SystemKeepsItsWord` carries over authority, true
  outcomes and audited notices.
- `ConfirmedClicksAreHeard`, from the invariant `HeardInv`: once the signal of
  the click being handled is taken there is a decision, and decisions stay.
- `UnplannedRunsAreApproved`, from `PlanInv`: by `ConductInv` whoever has run was
  cleared by policy or by a click; policy cleared only what was planned, and
  what is touched has run.
- `VerdictsFitHosts`, from `VerdictInv`: what the workflow has settled on
  (`ConductInv`), what the thread returned (`Returned`) and what was recorded of
  it (`Recorded`) agree.
- `SystemTypeCorrect`.

`AlertIntakeProofs`, for any requests, events, stream length and faults:

- `AcknowledgedIsHandled`: `HandledInv` orders what the handler has done by
  where it is, and knows that an open workflow was started.
- `StartsArePaidFor`: a counting argument. `Ahead(e)` collects the requests and
  messages that may still lead to a start of a workflow for e; with the starts
  made so far there are never more of them than windows and faults have paid.
- `GaugeIsHonest`: gauge, holders and faults move together in each step. It is
  exact without faults and bounds overstatement with them, not understatement.
- `TypeCorrect`.

`AlertCorrelatorProofs`: `TypeCorrect` for any number of consumers, and
`RootsStayDistinct` for one (`OneConsumer`; with two it is false, see above).
`Knows` says at each await what the consumer knows of groups that may have
expired since it read them: nothing visible is missing from what it has read,
and whatever it has put aside is unrelated to its alert.

`RingsAreRare` proves `RingsCostFaults` for any number of consumers and any
timing. Its invariant `RingInv` counts the alerts that some group, index, answer
or suppressed alert names as a root (`Known`), that have no workflow and that no
consumer is about to start one for (`Promised`): those are `Broken`, and never
more than the faults, since a root is named only under a promise and only a
fault ends a promise without a workflow. The roots of a ring are all broken. The
proof attempt found the property as it first stood to be false: it counted every
member of the set, also one that only hangs off a ring and has cost nothing. It
also found that the run never reached a ring. Statement and run have been
corrected.

`KnowledgeLoopProofs`, for any runs, cases and faults: `LogCoversHermes` and
`SopsStandForRepairs` rest on one measure. The weight of a set of runs is the
number of their rows and waiting INSERTs; only an attempt of write_audit adds to
it, at most one, together with a line in the log, and it either settles the run
or costs a fault. `LabelsFollowDecisions` proves `MislabelsCostFaults` from
`LabelInv`: rows labelled wrongly, statements still on their way and runs about
to label a row not their own never outnumber the faults together; and of the
runs of one event at most one is between its audit and its label (`Alone`).
`TypeCorrect` also shows that no attempt is one too many.

`DiagnosticAgentProofs` proves `AgentImplementsRouter` (every step of the agent
is one of the router's or leaves it alone), `BreakerStaysOpen` for the router
and hence for the agent, `CallsAlwaysAnswered` (a call without an answer is one
that is still to be executed), and the types. `BreakerTripsOnFreshFailures`
rests on `FreshInv`: the history grows with the span it looks back (`Monotone`),
and the failures the breaker counts are among those recorded since its counters
were reset (`FreshCounts`), so that a reset overdue is made up for before a
trip. `MetaMonitorProofs` proves
`TypeCorrect` and `GroupKnows` for any list of probes, window and number of
faults.

`PolicyEngineProofs` proves, for every rule file and request:

- `AllowRuleByRule`: an allow implies a matching allow rule and no matching deny
  or approval rule. `AllowsAreJustified` and `DecisionsAreStaged` follow for the
  activity, with its exception path.
- `ShippedAllows`, `ShippedDenies`, `RedLinesHold`: the shipped rules' red lines
  for any host lists.
- `PlanlessNeverAllowed`: no plan, no allow; the fact `AlertWorkflow` relies on.
- `TypeCorrect`.

Only model-checked: liveness under fairness, and with it ENABLED, which is
beyond the prover: `EveryAlertIsClosed`, `HostsComeFree`, `EveryPressIsAnswered`,
`AcceptedIsHandled`, `EveryAlertIsSettled`, `SuccessesBecomeSops`,
`RecoversInTheEnd`, `EveryTalkEnds`, `EveryAlertIsAnswered`, `TheGroupLearns`.
Every safety property a passing run checks is stated by a theorem.

## 7. Not modelled

- Authentication (touches no state), rendering of cards, prompts, summaries and
  SOP files, ranking of search results, set-up of connections and schema, the
  health endpoints, which only read.
- What is said in a conversation and its trace. The LLM callers that ask once
  for JSON (correlation, summary, SOP text) are calls of
  `CircuitBreaker` without turns.
- The limiter's counter (a fixed window in Redis; its answer is a choice) and
  the tenant token cache, whose only effect is a failing send.
- Late attempts of activities other than the playbook, the agent and the Hermes
  statements: of a call to Redis or Feishu that outlives its timeout the models
  have the lost reply, not the effect that comes after the next attempt.
- git branches of the SOP pull request. The push of a second run on one day is
  refused, and each branch starts from the previous day's.
- Of a shutdown in mid-flight, `AlertWorkflow` has the cancelled await of
  `execute_runbook` (`WorkerStops`), whose playbook the process waits for, and
  `DiagnosticAgent` the cancelled conversation; the next process is `Restart` in
  `AlertIntake`. Other activities are then lost or failed attempts.
- More than one process of the application. The deployment runs one; with
  replicas of the worker, the statements about one consumer do not hold.
- Dockerfiles, playbooks, scripts: configuration and I/O.

## 8. Plan

Done, in this order: workflow and mutex with the contract, intake, policy,
breaker, correlator, knowledge loop; proofs of the workflow and the policy;
monitor, playbook run, listener, agent, and the composition of them with the
workflow; proofs of the composition, the agent, the monitor, intake, correlator,
knowledge loop and of the contract.

Next models: start and stop of the lifespan with tasks that fail; a second alert
in `system`, so that a late thread meets the next holder of its lock; the
generated SOP's way through the branches of a repository.

Next proofs: the policy's red lines in the composition, with `Judge` in the place
of the choice in `EvaluatePolicy`, so that a production host is provably touched
only by a human's word; an abstract contract of the intake that it and the
workflow share; the bound on the number of playbooks that overlap on a host.
