----------------------------- MODULE AlertIntake -----------------------------
(***************************************************************************)
(* From Zabbix to a started workflow: the webhook (src/api/webhook.py), the *)
(* producer and the consumer of the Redis stream (src/bus), the overload   *)
(* guard, the rate limiter and the pending-workflow gauge                  *)
(* (src/coordination/rate_limit.py) and the gauge activity of a workflow   *)
(* that ends (src/activities/coordination.py).                             *)
(*                                                                         *)
(* One action per await: between two awaits of one coroutine every other   *)
(* coroutine of the process may run.  A call to Redis or Temporal ends in  *)
(* one of three ways: "ok"; "lost", it took effect but raised; "failed",   *)
(* it raised without effect.  MaxFaults bounds how many are not "ok".      *)
(*                                                                         *)
(* A request stands for its stream message too.  Authentication, which     *)
(* touches no state, has been passed by every request.  The counter of the *)
(* rate limiter is left out: which requests fall into a full minute is a   *)
(* choice, so any request may be refused.                                  *)
(***************************************************************************)
EXTENDS Integers, FiniteSets, Sequences, Functions

CONSTANTS
  Requests,      \* POSTs to /webhook/zabbix, Zabbix's repetitions included
  Events,        \* event ids
  EventOf,       \* EventOf[r]: the event id in the body of request r
  MaxPending,    \* settings.max_pending_workflows             (code: 50)
  MaxLen,        \* XADD maxlen                                (code: 10000)
  DecrAttempts,  \* maximum_attempts of decr_pending_gauge     (code: 2)
  MaxFaults,     \* bound: calls that raise, and crashes, in one behaviour
  NoRequest      \* the consumer has no message in hand

ASSUME IntakeAssumption ==
  /\ EventOf \in [Requests -> Events]
  /\ IsFiniteSet(Requests) /\ IsFiniteSet(Events)
  /\ MaxPending \in Nat \ {0} /\ MaxLen \in Nat \ {0}
  /\ DecrAttempts \in Nat \ {0} /\ MaxFaults \in Nat
  /\ NoRequest \notin Requests

VARIABLES
  req,         \* req[r]: how far the handler of request r is, or its reply
  dedup,       \* events whose key aiops:dedup:<event_id> exists
  log,         \* the stream aiops:alerts
  seen,        \* messages delivered to the group aiops-workers so far
  pel,         \* its pending entries list: delivered and not acknowledged
  at,          \* where the consumer loop is
  msg,         \* the message it handles
  after,       \* where it goes once the gauge is decremented
  roots,       \* events that became the root of a correlation group
  suppressed,  \* events the correlator suppressed
  gauge,       \* coord:pending_workflows
  wf,          \* wf[e]: the workflow alert-<e>
  tries,       \* tries[e]: attempt of its decr_pending_gauge activity
  starts,      \* starts[e]: how many times alert-<e> was started
  windows,     \* windows[e]: how many times the dedup key of e was set
  faults       \* calls that raised, and crashes, so far

webhook  == <<req, dedup, windows>>
stream   == <<log, seen, pel>>
consumer == <<at, msg, after, roots, suppressed>>
flows    == <<wf, tries, starts>>
vars     == <<webhook, stream, consumer, gauge, flows, faults>>

Handling == {"sent", "admitted", "marked"}
Replies  == {"accepted", "duplicate", "overloaded", "limited", "error"}

TypeOK ==
  /\ req \in [Requests -> Handling \cup Replies]
  /\ dedup \subseteq Events
  /\ log \in Seq(Requests)
  /\ seen \subseteq Requests /\ pel \subseteq seen
  /\ at \in {"poll", "correlate", "incr", "start", "ack_started", "ack",
             "decr", "clamp", "sleep", "dead", "down"}
  /\ msg \in Requests \cup {NoRequest}
  /\ after \in {"ack", "sleep"}
  /\ roots \subseteq Events /\ suppressed \subseteq Events
  /\ gauge \in Int
  /\ wf \in [Events -> {"none", "running", "ending", "clamping", "closed"}]
  /\ tries \in [Events -> 1..DecrAttempts]
  /\ starts \in [Events -> Nat] /\ windows \in [Events -> Nat]
  /\ faults \in 0..MaxFaults

Init ==
  /\ req = [r \in Requests |-> "sent"]
  /\ dedup = {}
  /\ log = << >> /\ seen = {} /\ pel = {}
  /\ at = "poll" /\ msg = NoRequest /\ after = "sleep"
  /\ roots = {} /\ suppressed = {}
  /\ gauge = 0
  /\ wf = [e \in Events |-> "none"]
  /\ tries = [e \in Events |-> 1]
  /\ starts = [e \in Events |-> 0]
  /\ windows = [e \in Events |-> 0]
  /\ faults = 0

Outcomes == {"ok", "lost", "failed"}
Happened(o) == o \in {"ok", "lost"}

Fault == faults < MaxFaults /\ faults' = faults + 1

(* Outcome o of a call: one that raised uses up a fault. *)
Ends(o) == IF o = "ok" THEN UNCHANGED faults ELSE Fault

Up == at # "down"

-----------------------------------------------------------------------------
(* The webhook.                                                            *)

Answer(r, reply) == req' = [req EXCEPT ![r] = reply]

(* SystemOverloadGuard, then RateLimiter.try_acquire: the gauge is read,   *)
(* and nothing is reserved.                                                *)
Admit(r) ==
  /\ Up /\ req[r] = "sent"
  /\ \/ /\ UNCHANGED faults
        /\ IF gauge >= MaxPending
           THEN Answer(r, "overloaded")
           ELSE \E reply \in {"admitted", "limited"} : Answer(r, reply)
     \/ Fault /\ Answer(r, "error")
  /\ UNCHANGED <<dedup, windows, stream, consumer, gauge, flows>>

(* Mutant: SET without NX.                                                 *)
MarkAgain(r) ==
  LET e == EventOf[r] IN
  /\ Up /\ req[r] = "admitted"
  /\ dedup' = dedup \cup {e}
  /\ windows' = IF e \in dedup THEN windows ELSE [windows EXCEPT ![e] = @ + 1]
  /\ Answer(r, "marked")
  /\ UNCHANGED <<stream, consumer, gauge, flows, faults>>

(* produce_alert, SET dedup_key NX EX 3600. *)
Mark(r) ==
  LET e == EventOf[r] IN
  /\ Up /\ req[r] = "admitted"
  /\ \E o \in Outcomes :
       /\ Ends(o)
       /\ IF Happened(o) /\ e \notin dedup
          THEN dedup' = dedup \cup {e} /\ windows' = [windows EXCEPT ![e] = @ + 1]
          ELSE UNCHANGED <<dedup, windows>>
       /\ Answer(r, IF o # "ok" THEN "error"
                    ELSE IF e \in dedup THEN "duplicate" ELSE "marked")
  /\ UNCHANGED <<stream, consumer, gauge, flows>>

(* An hour has passed. *)
DedupExpires(e) ==
  /\ e \in dedup
  /\ dedup' = dedup \ {e}
  /\ UNCHANGED <<req, windows, stream, consumer, gauge, flows, faults>>

(* redis-py sends MAXLEN ~ n: Redis trims the oldest entries when it suits *)
(* it, whether or not they have been delivered or acknowledged.            *)
Trimmed(l) == {l} \cup (IF Len(l) > MaxLen THEN {Tail(l)} ELSE {})

(* produce_alert, XADD. *)
Enqueue(r) ==
  /\ Up /\ req[r] = "marked"
  /\ \E o \in Outcomes :
       /\ Ends(o)
       /\ IF Happened(o) THEN log' \in Trimmed(Append(log, r)) ELSE UNCHANGED log
       /\ Answer(r, IF o = "ok" THEN "accepted" ELSE "error")
  /\ UNCHANGED <<dedup, windows, seen, pel, consumer, gauge, flows>>

Request(r) == Admit(r) \/ Mark(r) \/ Enqueue(r)

-----------------------------------------------------------------------------
(* The consumer loop: poll.                                                *)

Take(r) == at' = "correlate" /\ msg' = r /\ UNCHANGED <<after, roots, suppressed>>
Move(stage) == at' = stage /\ UNCHANGED <<msg, after, roots, suppressed>>
Rest(stage) == at' = stage /\ msg' = NoRequest /\ after' = "sleep" /\ UNCHANGED <<roots, suppressed>>

(* Mutant: nothing is reclaimed.                                           *)
NoReclaim == FALSE

(* reclaim_pending_alert: XAUTOCLAIM hands out a pending message that has  *)
(* been idle for a minute, and drops one whose entry has been trimmed.     *)
Reclaim ==
  /\ at = "poll"
  /\ \E r \in pel :
       IF r \in Range(log) THEN Take(r) /\ UNCHANGED pel
                           ELSE pel' = pel \ {r} /\ UNCHANGED consumer
  /\ UNCHANGED <<webhook, log, seen, gauge, flows, faults>>

(* What XREADGROUP from ">" reads: the first entry not delivered yet.       *)
IsNew(r) ==
  \E i \in 1..Len(log) :
    /\ log[i] = r /\ r \notin seen
    /\ \A j \in 1..(i - 1) : log[j] \in seen

(* Mutant: XREADGROUP with NOACK.                                          *)
DeliverNoAck(r) == seen' = seen \cup {r} /\ UNCHANGED <<pel, log>>

(* Mutant: XREADGROUP from the group's history instead of from ">".        *)
DeliverHistory(r) == pel' = pel \cup {r} /\ UNCHANGED <<seen, log>>

Deliver(r) == seen' = seen \cup {r} /\ pel' = pel \cup {r} /\ UNCHANGED log

(* consume_alert: XREADGROUP of the first new message. *)
Consume ==
  /\ at = "poll"
  /\ \E r \in Requests : IsNew(r) /\ Deliver(r) /\ Take(r)
  /\ UNCHANGED <<webhook, gauge, flows, faults>>

(* Both calls are outside the try of start_consumer_loop: an error of      *)
(* Redis ends the task, and nothing starts it again.                       *)
PollFails ==
  /\ at = "poll" /\ Fault /\ Rest("dead")
  /\ \/ UNCHANGED stream
     \/ \E r \in Requests : IsNew(r) /\ Deliver(r)
  /\ UNCHANGED <<webhook, gauge, flows>>

-----------------------------------------------------------------------------
(* handle_alert_message.                                                   *)

Event == EventOf[msg]

(* correlate: the alert becomes a root, or joins the group of another      *)
(* root and is only acknowledged.  Which one is up to the correlator.      *)
Correlate ==
  /\ at = "correlate"
  /\ \/ /\ at' = "incr" /\ roots' = roots \cup {Event} /\ UNCHANGED <<suppressed, faults>>
     \/ /\ roots \ {Event} # {}
        /\ at' = "ack" /\ suppressed' = suppressed \cup {Event} /\ UNCHANGED <<roots, faults>>
     \/ /\ Fault /\ at' = "sleep" /\ UNCHANGED <<roots, suppressed>>
  /\ msg' = IF at' = "sleep" THEN NoRequest ELSE msg
  /\ UNCHANGED <<webhook, stream, after, gauge, flows>>

Incr ==
  /\ at = "incr"
  /\ \E o \in Outcomes :
       /\ Ends(o)
       /\ gauge' = IF Happened(o) THEN gauge + 1 ELSE gauge
       /\ IF o = "ok" THEN Move("start") ELSE Rest("sleep")
  /\ UNCHANGED <<webhook, stream, flows>>

Open(e) == wf[e] \in {"running", "ending", "clamping"}

Undo(then) == at' = "decr" /\ after' = then /\ UNCHANGED <<msg, roots, suppressed>>

(* start_workflow with id alert-<event_id>: Temporal refuses while one of  *)
(* that id is open, and starts another once it has closed.                 *)
Start ==
  /\ at = "start"
  /\ \E o \in Outcomes :
       /\ Ends(o)
       /\ IF Happened(o) /\ ~Open(Event)
          THEN /\ wf' = [wf EXCEPT ![Event] = "running"]
               /\ tries' = [tries EXCEPT ![Event] = 1]
               /\ starts' = [starts EXCEPT ![Event] = @ + 1]
          ELSE UNCHANGED flows
       /\ \/ o # "ok" /\ Undo("sleep")
          \/ o = "ok" /\ Open(Event) /\ Undo("ack")
          \/ o = "ok" /\ ~Open(Event) /\ Move("ack_started")
  /\ UNCHANGED <<webhook, stream, gauge>>

XAck(o) == IF Happened(o) THEN pel' = pel \ {msg} ELSE UNCHANGED pel

(* The acknowledgement inside the try: if it raises, the handler takes the *)
(* workflow for not started.                                               *)
AckStarted ==
  /\ at = "ack_started"
  /\ \E o \in Outcomes :
       Ends(o) /\ XAck(o) /\ (IF o = "ok" THEN Rest("poll") ELSE Undo("sleep"))
  /\ UNCHANGED <<webhook, log, seen, gauge, flows>>

(* The acknowledgement of a suppressed alert or of one already started.    *)
Ack ==
  /\ at = "ack"
  /\ \E o \in Outcomes :
       Ends(o) /\ XAck(o) /\ Rest(IF o = "ok" THEN "poll" ELSE "sleep")
  /\ UNCHANGED <<webhook, log, seen, gauge, flows>>

(* The handler goes on to acknowledge, or raises. *)
Return == IF after = "ack" THEN Move("ack") ELSE Rest("sleep")

(* PendingWorkflowGauge.decr: DECR, and SET 0 if that went below zero.     *)
Decr ==
  /\ at = "decr"
  /\ \E o \in Outcomes :
       /\ Ends(o)
       /\ gauge' = IF Happened(o) THEN gauge - 1 ELSE gauge
       /\ \/ o # "ok" /\ Rest("sleep")
          \/ o = "ok" /\ gauge < 1 /\ Move("clamp")
          \/ o = "ok" /\ gauge >= 1 /\ Return
  /\ UNCHANGED <<webhook, stream, flows>>

Clamp ==
  /\ at = "clamp"
  /\ \E o \in Outcomes :
       /\ Ends(o)
       /\ gauge' = IF Happened(o) THEN 0 ELSE gauge
       /\ IF o = "ok" THEN Return ELSE Rest("sleep")
  /\ UNCHANGED <<webhook, stream, flows>>

(* sleep(5) after an exception; the message stays pending. *)
Wake == at = "sleep" /\ Move("poll") /\ UNCHANGED <<webhook, stream, gauge, flows, faults>>

Consumer ==
  \/ Reclaim \/ Consume
  \/ Correlate \/ Incr \/ Start \/ AckStarted \/ Ack \/ Decr \/ Clamp \/ Wake

-----------------------------------------------------------------------------
(* The workflows, as far as they touch the gauge.                          *)

Phase(e, p) == wf' = [wf EXCEPT ![e] = p] /\ UNCHANGED <<tries, starts>>

(* Mutant: the gauge is not decremented in a finally clause.               *)
EndWithoutDecr(e) ==
  /\ wf[e] = "running"
  /\ Phase(e, "closed")
  /\ UNCHANGED <<webhook, stream, consumer, gauge, faults>>

EndWorkflow(e) ==
  /\ wf[e] = "running"
  /\ Phase(e, "ending")
  /\ UNCHANGED <<webhook, stream, consumer, gauge, faults>>

(* The attempt's reply does not reach Temporal; _decr_pending_gauge gives  *)
(* up after the last one.                                                  *)
Repeat(e) ==
  /\ UNCHANGED starts
  /\ IF tries[e] < DecrAttempts
     THEN wf' = [wf EXCEPT ![e] = "ending"] /\ tries' = [tries EXCEPT ![e] = @ + 1]
     ELSE wf' = [wf EXCEPT ![e] = "closed"] /\ UNCHANGED tries

(* decr_pending_gauge, DECR.  The activity swallows an error of Redis and  *)
(* returns, so it is repeated only when its own reply is lost.             *)
DecrActivity(e) ==
  /\ Up /\ wf[e] = "ending"
  /\ \/ /\ gauge' = gauge - 1 /\ UNCHANGED faults
        /\ Phase(e, IF gauge < 1 THEN "clamping" ELSE "closed")
     \/ Fault /\ gauge' \in {gauge, gauge - 1} /\ Phase(e, "closed")
     \/ Fault /\ gauge' \in {gauge, gauge - 1} /\ Repeat(e)
  /\ UNCHANGED <<webhook, stream, consumer>>

(* ... and SET 0. *)
ClampActivity(e) ==
  /\ Up /\ wf[e] = "clamping"
  /\ \/ gauge' = 0 /\ Phase(e, "closed") /\ UNCHANGED faults
     \/ Fault /\ gauge' \in {gauge, 0} /\ Phase(e, "closed")
     \/ Fault /\ gauge' = 0 /\ Repeat(e)
  /\ UNCHANGED <<webhook, stream, consumer>>

Workflow(e) == EndWorkflow(e) \/ DecrActivity(e) \/ ClampActivity(e)

-----------------------------------------------------------------------------
(* The process: webhook, consumer loop and Temporal worker live in one.    *)

Crash ==
  /\ Up /\ Fault
  /\ Rest("down")
  /\ req' = [r \in Requests |->
               IF req[r] \in Handling \ {"sent"} THEN "error" ELSE req[r]]
  /\ UNCHANGED <<dedup, windows, stream, gauge, starts>>
  /\ wf' = [e \in Events |->
              IF wf[e] # "clamping" THEN wf[e]
              ELSE IF tries[e] < DecrAttempts THEN "ending" ELSE "closed"]
  /\ tries' = [e \in Events |->
                 IF wf[e] = "clamping" /\ tries[e] < DecrAttempts THEN tries[e] + 1
                                                                  ELSE tries[e]]

(* lifespan starts a new consumer task under the same name, worker-1.      *)
Restart == at = "down" /\ Move("poll") /\ UNCHANGED <<webhook, stream, gauge, flows, faults>>

Next ==
  \/ \E r \in Requests : Request(r)
  \/ \E e \in Events : DedupExpires(e) \/ Workflow(e)
  \/ Consumer \/ PollFails \/ Crash \/ Restart

Spec == Init /\ [][Next]_vars

(* The event loop runs every task that is not waiting.  A process that is  *)
(* down is started again (docker-compose.yml leaves that to an operator).  *)
FairSpec == Spec /\ WF_vars(Consumer) /\ WF_vars(Restart)

-----------------------------------------------------------------------------
(* Properties.                                                             *)

Handled(e) == starts[e] > 0 \/ e \in suppressed
Lost(r) == r \notin Range(log)     \* of a message: its entry was trimmed

(* A message leaves the pending list only when its alert got a workflow or *)
(* was suppressed as derived, or when the stream has dropped it: a crash   *)
(* or an error at any await before that leaves it to be redelivered.       *)
AckedIsHandled ==
  \A r \in seen \ pel : Handled(EventOf[r]) \/ Lost(r)

(* One dedup window starts at most one workflow for an event, and each     *)
(* further one is the doing of a fault: Zabbix's repetitions and plain     *)
(* redelivery never start another.                                         *)
StartsArePaid ==
  \A e \in Events : starts[e] <= windows[e] + faults

(* Slots of the gauge that somebody holds: open workflows that have not    *)
(* decremented yet, and the consumer between INCR and start_workflow.      *)
Slots ==
  Cardinality({e \in Events : wf[e] \in {"running", "ending"}})
    + (IF at \in {"start", "decr"} THEN 1 ELSE 0)

(* Without faults the gauge counts exactly the workflows in flight; a      *)
(* fault makes it overstate them by at most one, so the 503 of the         *)
(* overload guard cannot come from nothing.  It may understate them by     *)
(* more: the SET 0 of a decr() overwrites what was counted since its DECR. *)
GaugeHonest ==
  /\ faults = 0 => gauge = Slots
  /\ gauge - Slots <= faults

(* An accepted alert is handled in the end, however often its handling is  *)
(* interrupted, unless the stream dropped it or the loop has died.         *)
AcceptedIsHandled ==
  \A r \in Requests :
    req[r] = "accepted" ~> Handled(EventOf[r]) \/ Lost(r) \/ at = "dead"

(* Said of the code and not true of it (see README, "Findings").           *)

(* bus/consumer.py:64: pending messages are claimed "so crashed consumers  *)
(* do not strand alerts", yet an accepted alert can stay unhandled.        *)
NoStrandedAlerts ==
  \A r \in Requests : req[r] = "accepted" ~> Handled(EventOf[r])
=============================================================================
