-------------------------- MODULE AlertIntakeProofs ---------------------------
(***************************************************************************)
(* The safety of the intake for any requests, events, stream length and    *)
(* number of faults: what is acknowledged was handled, workflows are       *)
(* started once per dedup window and fault, and the gauge never overstates *)
(* by more than the faults.                                                *)
(***************************************************************************)
EXTENDS AlertIntake, FiniteSetTheorems, TLAPS

-----------------------------------------------------------------------------
(* The inductive invariants.                                               *)

InHand == {"correlate", "incr", "start", "ack_started", "ack", "decr", "clamp"}

(* A message is in the stream only once its request has been answered, so  *)
(* it never comes a second time.                                           *)
Answered(r) == req[r] \in {"accepted", "error"}
SentOnce == \A r \in Range(log) \cup seen : Answered(r)

(* What the consumer knows of the message in hand at each await.           *)
Position ==
  /\ at \in InHand => msg \in Requests
  /\ at \in {"correlate", "incr", "start"} => msg \in pel
  /\ at = "ack_started" => starts[Event] > 0
  /\ at = "ack" => Handled(Event)
  /\ after = "ack" => at \in {"decr", "clamp", "ack"} /\ starts[Event] > 0

OpenIsStarted == \A e \in Events : Open(e) => starts[e] > 0

-----------------------------------------------------------------------------
(* Types.                                                                  *)

LEMMA TrimmedTyped ==
  ASSUME TypeOK, NEW r \in Requests, NEW l \in Trimmed(Append(log, r))
  PROVE  l \in Seq(Requests) /\ Range(l) \subseteq Range(log) \cup {r}
<1>1. log \in Seq(Requests) /\ MaxLen \in Nat
  BY IntakeAssumption DEF TypeOK
<1>2. Append(log, r) \in Seq(Requests)
      /\ Range(Append(log, r)) \subseteq Range(log) \cup {r}
  BY <1>1 DEF Range
<1>3. Append(log, r) # << >>
  BY <1>1
<1>4. Tail(Append(log, r)) \in Seq(Requests)
      /\ Range(Tail(Append(log, r))) \subseteq Range(Append(log, r))
  BY <1>2, <1>3 DEF Range
<1> QED BY <1>2, <1>4 DEF Trimmed

(* The types, with what they need: a message in hand is a message.         *)
TypeInv == TypeOK /\ (at \in InHand => msg \in Requests)

LEMMA TypeInit == Init => TypeInv
<1> SUFFICES ASSUME Init PROVE TypeInv
  OBVIOUS
<1>1. faults \in 0..MaxFaults /\ \A e \in Events : tries[e] \in 1..DecrAttempts
  BY IntakeAssumption DEF Init
<1>2. log \in Seq(Requests)
  BY DEF Init
<1> QED BY <1>1, <1>2, IntakeAssumption DEF Init, TypeInv, TypeOK, InHand, Handling

LEMMA FaultTyped ==
  ASSUME TypeInv, Fault \/ faults' = faults
  PROVE  faults' \in 0..MaxFaults
  BY IntakeAssumption DEF Fault, TypeInv, TypeOK

LEMMA RequestTyped ==
  ASSUME TypeInv, NEW r \in Requests, Request(r)
  PROVE  TypeInv'
<1>1. \E reply \in Handling \cup Replies : req' = [req EXCEPT ![r] = reply]
  BY DEF Request, Admit, Mark, Enqueue, Answer, Handling, Replies
<1>2. req' \in [Requests -> Handling \cup Replies]
  BY <1>1 DEF TypeInv, TypeOK
<1>3. dedup' \subseteq Events /\ windows' \in [Events -> Nat]
  <2>1. \/ UNCHANGED <<dedup, windows>>
        \/ /\ dedup' = dedup \cup {EventOf[r]}
           /\ windows' = [windows EXCEPT ![EventOf[r]] = @ + 1]
    BY DEF Request, Admit, Mark, Enqueue
  <2>2. EventOf[r] \in Events /\ dedup \subseteq Events /\ windows \in [Events -> Nat]
    BY IntakeAssumption DEF TypeInv, TypeOK
  <2>3. windows[EventOf[r]] + 1 \in Nat
    BY <2>2
  <2> QED BY <2>1, <2>2, <2>3
<1>4. log' \in Seq(Requests)
  BY TrimmedTyped DEF Request, Admit, Mark, Enqueue, TypeInv, TypeOK, stream
<1>5. UNCHANGED <<seen, pel, consumer, gauge, flows>>
  BY DEF Request, Admit, Mark, Enqueue, stream
<1>6. faults' \in 0..MaxFaults
  <2>1. Fault \/ faults' = faults
    BY DEF Request, Admit, Mark, Enqueue, Ends
  <2> QED BY <2>1, FaultTyped
<1> QED BY <1>2, <1>3, <1>4, <1>5, <1>6 DEF TypeInv, TypeOK, consumer, flows

LEMMA ConsumerTyped ==
  ASSUME TypeInv, Consumer \/ PollFails \/ Restart
  PROVE  TypeInv'
<1> USE IntakeAssumption
    DEF TypeInv, TypeOK, InHand, Fault, Ends, Outcomes, Happened, Take, Move, Rest, Undo,
        Return, XAck, Deliver, Event, webhook, stream, consumer, flows
<1>1. CASE Reclaim
  BY <1>1 DEF Reclaim
<1>2. CASE Consume
  BY <1>2 DEF Consume
<1>3. CASE Correlate
  <2>1. UNCHANGED <<webhook, stream, after, gauge, flows>> /\ (Fault \/ faults' = faults)
    BY <1>3 DEF Correlate
  <2>2. msg \in Requests /\ Event \in Events
    BY <1>3 DEF Correlate
  <2>3. roots' \subseteq Events /\ suppressed' \subseteq Events
    BY <1>3, <2>2 DEF Correlate
  <2>4. \/ at' \in {"incr", "ack"} /\ msg' = msg
        \/ at' = "sleep" /\ msg' = NoRequest
    BY <1>3 DEF Correlate
  <2> QED BY <2>1, <2>2, <2>3, <2>4, FaultTyped
<1>4. CASE Incr
  <2>1. UNCHANGED <<webhook, stream, flows, roots, suppressed>>
    BY <1>4 DEF Incr
  <2>2. gauge' \in Int /\ (Fault \/ faults' = faults)
    BY <1>4 DEF Incr
  <2>3. \/ at' = "start" /\ UNCHANGED <<msg, after>> /\ at # "sleep"
        \/ at' = "sleep" /\ msg' = NoRequest /\ after' = "sleep"
    BY <1>4 DEF Incr
  <2> QED BY <1>4, <2>1, <2>2, <2>3, FaultTyped DEF Incr
<1>5. CASE Start
  <2>1. UNCHANGED <<webhook, stream, gauge>> /\ UNCHANGED <<msg, roots, suppressed>>
    BY <1>5 DEF Start
  <2>2. msg \in Requests /\ at' \in {"decr", "ack_started"} /\ after' \in {"ack", "sleep"}
    BY <1>5 DEF Start
  <2>3. faults' \in 0..MaxFaults
    BY <1>5 DEF Start
  <2>4. \/ UNCHANGED flows
        \/ /\ wf' = [wf EXCEPT ![Event] = "running"]
           /\ tries' = [tries EXCEPT ![Event] = 1]
           /\ starts' = [starts EXCEPT ![Event] = @ + 1]
    BY <1>5 DEF Start
  <2>5. Event \in Events /\ 1 \in 1..DecrAttempts
    BY <2>2
  <2>6. starts[Event] + 1 \in Nat
    BY <2>5
  <2>7. /\ wf' \in [Events -> {"none", "running", "ending", "clamping", "closed"}]
        /\ tries' \in [Events -> 1..DecrAttempts] /\ starts' \in [Events -> Nat]
    <3>1. CASE UNCHANGED flows
      BY <3>1
    <3>2. CASE wf' = [wf EXCEPT ![Event] = "running"]
               /\ tries' = [tries EXCEPT ![Event] = 1]
               /\ starts' = [starts EXCEPT ![Event] = @ + 1]
      <4>1. wf' \in [Events -> {"none", "running", "ending", "clamping", "closed"}]
        BY <3>2
      <4>2. tries' \in [Events -> 1..DecrAttempts]
        BY <2>5, <3>2
      <4>3. starts' \in [Events -> Nat]
        BY <2>5, <2>6, <3>2
      <4> QED BY <4>1, <4>2, <4>3
    <3> QED BY <2>4, <3>1, <3>2
  <2> QED BY <2>1, <2>2, <2>3, <2>7
<1>6. CASE AckStarted
  BY <1>6 DEF AckStarted
<1>7. CASE Ack
  BY <1>7 DEF Ack
<1>8. CASE Decr
  <2>1. UNCHANGED <<webhook, stream, flows>> /\ UNCHANGED <<roots, suppressed>>
    BY <1>8 DEF Decr
  <2>2. gauge' \in Int /\ faults' \in 0..MaxFaults
    BY <1>8 DEF Decr
  <2>3. /\ at' \in {"sleep", "clamp", "ack"} /\ msg' \in {msg, NoRequest}
        /\ after' \in {"ack", "sleep"} /\ (at' # "sleep" => msg' = msg)
    BY <1>8 DEF Decr
  <2> QED BY <1>8, <2>1, <2>2, <2>3 DEF Decr
<1>9. CASE Clamp
  <2>1. UNCHANGED <<webhook, stream, flows, roots, suppressed>>
    BY <1>9 DEF Clamp
  <2>2. gauge' \in Int /\ faults' \in 0..MaxFaults
    BY <1>9, FaultTyped DEF Clamp
  <2>3. /\ at' \in {"sleep", "ack"} /\ msg' \in {msg, NoRequest}
        /\ after' \in {"ack", "sleep"} /\ (at' # "sleep" => msg' = msg)
    BY <1>9 DEF Clamp
  <2> QED BY <1>9, <2>1, <2>2, <2>3 DEF Clamp
<1>10. CASE Wake \/ Restart
  BY <1>10 DEF Wake, Restart
<1>11. CASE PollFails
  BY <1>11 DEF PollFails
<1> QED
  BY <1>1, <1>2, <1>3, <1>4, <1>5, <1>6, <1>7, <1>8, <1>9, <1>10, <1>11 DEF Consumer

LEMMA WorkflowTyped ==
  ASSUME TypeInv, NEW e \in Events, Workflow(e)
  PROVE  TypeInv'
<1>1. UNCHANGED <<webhook, stream, consumer, starts>>
  BY DEF Workflow, EndWorkflow, DecrActivity, ClampActivity, Phase, Repeat
<1>2. \E p \in {"ending", "clamping", "closed"} : wf' = [wf EXCEPT ![e] = p]
  BY DEF Workflow, EndWorkflow, DecrActivity, ClampActivity, Phase, Repeat
<1>3. \/ tries' = tries
      \/ tries[e] < DecrAttempts /\ tries' = [tries EXCEPT ![e] = @ + 1]
  <2>1. Phase(e, "ending") \/ Phase(e, "clamping") \/ Phase(e, "closed") \/ Repeat(e)
    BY DEF Workflow, EndWorkflow, DecrActivity, ClampActivity
  <2> QED BY <2>1 DEF Phase, Repeat
<1>4. gauge' \in {gauge, gauge - 1, 0}
  BY DEF Workflow, EndWorkflow, DecrActivity, ClampActivity
<1>5. \/ faults' = faults
      \/ faults < MaxFaults /\ faults' = faults + 1
  <2>1. UNCHANGED faults \/ Fault
    BY DEF Workflow, EndWorkflow, DecrActivity, ClampActivity
  <2> QED BY <2>1 DEF Fault
<1>6. wf' \in [Events -> {"none", "running", "ending", "clamping", "closed"}]
  BY <1>2 DEF TypeInv, TypeOK
<1>7. tries' \in [Events -> 1..DecrAttempts]
  <2>1. tries \in [Events -> 1..DecrAttempts] /\ DecrAttempts \in Nat
    BY IntakeAssumption DEF TypeInv, TypeOK
  <2>2. tries[e] < DecrAttempts => tries[e] + 1 \in 1..DecrAttempts
    BY <2>1
  <2> QED BY <1>3, <2>1, <2>2
<1>8. gauge' \in Int /\ faults' \in 0..MaxFaults
  BY <1>4, <1>5, IntakeAssumption DEF TypeInv, TypeOK
<1> QED
  BY <1>1, <1>6, <1>7, <1>8 DEF TypeInv, TypeOK, webhook, stream, consumer

LEMMA TypeStep == TypeInv /\ [Next]_vars => TypeInv'
<1> SUFFICES ASSUME TypeInv, [Next]_vars PROVE TypeInv'
  OBVIOUS
<1>1. ASSUME NEW e \in Events, DedupExpires(e) PROVE TypeInv'
  BY <1>1 DEF DedupExpires, TypeInv, TypeOK, InHand, stream, consumer, flows
<1>2. CASE Crash
  BY <1>2, IntakeAssumption
  DEF Crash, Fault, Rest, TypeInv, TypeOK, InHand, Handling, Replies, stream, flows
<1>3. CASE UNCHANGED vars
  BY <1>3 DEF vars, webhook, stream, consumer, flows, TypeInv, TypeOK, InHand
<1> QED BY <1>1, <1>2, <1>3, RequestTyped, ConsumerTyped, WorkflowTyped DEF Next

(* The variables of webhook, stream, consumer, workflows and gauge keep    *)
(* their types for any number of requests, events and faults.              *)
THEOREM TypeCorrect == Spec => []TypeOK
<1>1. TypeInv => TypeOK
  BY DEF TypeInv
<1> QED BY <1>1, TypeInit, TypeStep, PTL DEF Spec

-----------------------------------------------------------------------------
(* What is acknowledged was handled.                                       *)

HandledInv == TypeInv /\ SentOnce /\ Position /\ OpenIsStarted /\ AckedIsHandled

(* What the requests' side leaves to the consumer's.                       *)
LEMMA RequestHandled ==
  ASSUME HandledInv, NEW r \in Requests, Request(r)
  PROVE  HandledInv'
<1>1. TypeInv'
  BY RequestTyped DEF HandledInv
<1>2. UNCHANGED <<seen, pel, at, msg, after, suppressed, wf, starts>>
  BY DEF Request, Admit, Mark, Enqueue, stream, consumer, flows
<1>3. r \notin Range(log) \cup seen
  BY DEF Request, Admit, Mark, Enqueue, HandledInv, SentOnce, Answered
<1>4. \A q \in Requests : q # r => req'[q] = req[q]
  BY DEF Request, Admit, Mark, Enqueue, Answer, HandledInv, TypeInv, TypeOK
<1>5. CASE log' = log
  <2>1. SentOnce'
    <3>1. Range(log) \cup seen \subseteq Requests
      BY DEF HandledInv, TypeInv, TypeOK, Range
    <3> QED BY <1>2, <1>3, <1>4, <1>5, <3>1 DEF HandledInv, SentOnce, Answered
  <2>2. AckedIsHandled'
    BY <1>2, <1>5 DEF HandledInv, AckedIsHandled, Handled, Lost
  <2> QED BY <1>1, <1>2, <2>1, <2>2 DEF HandledInv, Position, OpenIsStarted, Handled, Event, Open
<1>6. CASE Enqueue(r)
  <2>1. Range(log') \subseteq Range(log) \cup {r}
    BY <1>6, TrimmedTyped DEF Enqueue, HandledInv, TypeInv
  <2>2. req'[r] \in {"accepted", "error"}
    BY <1>6 DEF Enqueue, Answer, HandledInv, TypeInv, TypeOK
  <2>3. Range(log) \cup seen \subseteq Requests
    BY DEF HandledInv, TypeInv, TypeOK, Range
  <2>4. SentOnce'
    BY <1>2, <1>3, <1>4, <2>1, <2>2, <2>3 DEF HandledInv, SentOnce, Answered
  <2>5. AckedIsHandled'
    BY <1>2, <1>3, <2>1 DEF HandledInv, AckedIsHandled, Handled, Lost
  <2> QED BY <1>1, <1>2, <2>4, <2>5 DEF HandledInv, Position, OpenIsStarted, Handled, Event, Open
<1> QED BY <1>5, <1>6 DEF Request, Admit, Mark, stream

(* The messages move on, and none is taken for handled that is not.        *)
LEMMA ConsumerHandled ==
  ASSUME HandledInv, Consumer \/ PollFails \/ Restart
  PROVE  HandledInv'
<1>1. TypeInv'
  BY ConsumerTyped DEF HandledInv
<1>2. req' = req /\ log' = log
  BY DEF Consumer, Reclaim, Consume, Correlate, Incr, Start, AckStarted, Ack, Decr, Clamp,
         Wake, PollFails, Restart, webhook, stream, Deliver, XAck
<1>3. seen' \subseteq seen \cup Range(log)
  BY DEF Consumer, Reclaim, Consume, Correlate, Incr, Start, AckStarted, Ack, Decr, Clamp,
         Wake, PollFails, Restart, stream, Deliver, XAck, IsNew, Range, HandledInv,
         TypeInv, TypeOK
<1>4. SentOnce'
  BY <1>2, <1>3 DEF HandledInv, SentOnce, Answered
<1>5. Position' /\ OpenIsStarted' /\ AckedIsHandled'
  <2> USE <1>1, <1>2
      DEF HandledInv, TypeInv, TypeOK, Position, OpenIsStarted, AckedIsHandled, Handled, Lost,
          Event, Open, InHand, stream, consumer, flows, Outcomes, Happened
  <2>1. CASE Reclaim
    BY <2>1 DEF Reclaim, Take
  <2>2. CASE Consume
    BY <2>2 DEF Consume, Take, Deliver
  <2>3. CASE Correlate
    BY <2>3 DEF Correlate
  <2>4. CASE Incr
    BY <2>4 DEF Incr, Move, Rest
  <2>5. CASE Start
    <3>1. /\ UNCHANGED <<seen, pel, msg, suppressed>> /\ msg \in pel /\ msg \in Requests
          /\ after = "sleep" /\ Event \in Events
      BY <2>5, IntakeAssumption DEF Start, Move, Undo
    <3>2. \/ UNCHANGED <<wf, starts>>
          \/ /\ wf' = [wf EXCEPT ![Event] = "running"]
             /\ starts' = [starts EXCEPT ![Event] = @ + 1]
      BY <2>5 DEF Start
    <3>3. /\ at' \in {"decr", "ack_started"}
          /\ after' = "ack" => Open(Event) /\ at' = "decr"
          /\ at' = "ack_started" => starts' = [starts EXCEPT ![Event] = @ + 1]
      BY <2>5, <3>1 DEF Start, Move, Undo
    <3>4. starts[Event] \in Nat /\ \A e \in Events : starts'[e] \in Nat
      BY <3>1
    <3>5. \A e \in Events : starts[e] > 0 => starts'[e] > 0
      <4>1. \A e \in Events : starts'[e] = starts[e] \/ starts'[e] = starts[e] + 1
        <5>1. starts \in [Events -> Nat]
          OBVIOUS
        <5>2. starts' = starts \/ starts' = [starts EXCEPT ![Event] = @ + 1]
          BY <3>2
        <5> QED BY <3>1, <5>1, <5>2
      <4>2. \A e \in Events : starts[e] \in Nat
        OBVIOUS
      <4>3. ASSUME NEW e \in Events, starts[e] > 0 PROVE starts'[e] > 0
        <5> HIDE <1>1, <1>2
            DEF HandledInv, TypeInv, TypeOK, Position, OpenIsStarted, AckedIsHandled,
                Handled, Lost, Event, Open, InHand, stream, consumer, flows
        <5> QED BY <4>1, <4>2, <4>3
      <4> QED BY <4>3
    <3>6. starts' = [starts EXCEPT ![Event] = @ + 1] => starts'[Event] > 0
      BY <3>1, <3>4
    <3>7. Position'
      BY <3>1, <3>3, <3>5, <3>6
    <3>8. OpenIsStarted'
      BY <3>1, <3>2, <3>5, <3>6
    <3>9. AckedIsHandled'
      BY <3>1, <3>5, IntakeAssumption
    <3> QED BY <3>7, <3>8, <3>9
  <2>6. CASE AckStarted
    BY <2>6 DEF AckStarted, XAck, Rest, Undo
  <2>7. CASE Ack
    BY <2>7 DEF Ack, XAck, Rest
  <2>8. CASE Decr
    BY <2>8 DEF Decr, Move, Rest, Return
  <2>9. CASE Clamp
    BY <2>9 DEF Clamp, Move, Rest, Return
  <2>10. CASE Wake \/ Restart
    BY <2>10 DEF Wake, Restart, Move
  <2>11. CASE PollFails
    BY <2>11 DEF PollFails, Rest, Deliver
  <2> QED
    BY <2>1, <2>2, <2>3, <2>4, <2>5, <2>6, <2>7, <2>8, <2>9, <2>10, <2>11 DEF Consumer
<1> QED BY <1>1, <1>4, <1>5 DEF HandledInv

LEMMA HandledStep == HandledInv /\ [Next]_vars => HandledInv'
<1> SUFFICES ASSUME HandledInv, [Next]_vars PROVE HandledInv'
  OBVIOUS
<1>1. TypeInv'
  BY TypeStep DEF HandledInv
<1>2. ASSUME UNCHANGED <<log, seen, pel, at, msg, after, suppressed, starts>>,
             \A r \in Requests : Answered(r) => Answered(r)',
             \A e \in Events : Open(e)' => Open(e)
      PROVE  HandledInv'
  BY <1>1, <1>2
  DEF HandledInv, TypeInv, TypeOK, SentOnce, Position, OpenIsStarted, AckedIsHandled,
      Handled, Lost, Event, Range
<1>3. ASSUME NEW e \in Events, Workflow(e) PROVE HandledInv'
  <2>1. \E p \in {"ending", "clamping", "closed"} : wf' = [wf EXCEPT ![e] = p]
    BY <1>3 DEF Workflow, EndWorkflow, DecrActivity, ClampActivity, Phase, Repeat
  <2>2. Open(e)
    BY <1>3 DEF Workflow, EndWorkflow, DecrActivity, ClampActivity, Open
  <2>3. \A d \in Events : Open(d)' => Open(d)
    BY <2>1, <2>2 DEF Open, HandledInv, TypeInv, TypeOK
  <2>4. UNCHANGED <<webhook, stream, consumer, starts>>
    BY <1>3 DEF Workflow, EndWorkflow, DecrActivity, ClampActivity, Phase, Repeat
  <2> QED BY <1>2, <2>3, <2>4 DEF webhook, stream, consumer, Answered
<1>4. ASSUME NEW e \in Events, DedupExpires(e) PROVE HandledInv'
  BY <1>2, <1>4 DEF DedupExpires, stream, consumer, flows, Answered, Open
<1>5. CASE Crash
  <2>1. \A r \in Requests : Answered(r) => Answered(r)'
    BY <1>5 DEF Crash, Answered, Handling
  <2>2. \A e \in Events : Open(e)' => Open(e)
    BY <1>5 DEF Crash, Open
  <2>3. UNCHANGED <<log, seen, pel, suppressed, starts>> /\ at' = "down" /\ after' = "sleep"
    BY <1>5 DEF Crash, Rest, stream
  <2>4. SentOnce' /\ Position'
    BY <1>1, <2>1, <2>3
    DEF HandledInv, TypeInv, TypeOK, SentOnce, Position, InHand, Range
  <2>5. OpenIsStarted' /\ AckedIsHandled'
    BY <2>2, <2>3 DEF HandledInv, OpenIsStarted, AckedIsHandled, Handled, Lost
  <2> QED BY <1>1, <2>4, <2>5 DEF HandledInv
<1>6. CASE UNCHANGED vars
  BY <1>2, <1>6 DEF vars, webhook, stream, consumer, flows, Answered, Open
<1> QED BY <1>3, <1>4, <1>5, <1>6, RequestHandled, ConsumerHandled DEF Next

LEMMA HandledInit == Init => HandledInv
<1> SUFFICES ASSUME Init PROVE HandledInv
  OBVIOUS
<1>1. Range(log) = {} /\ seen = {}
  BY DEF Init, Range
<1>2. at = "poll" /\ after = "sleep"
  BY DEF Init
<1>3. SentOnce /\ Position /\ AckedIsHandled
  BY <1>1, <1>2 DEF SentOnce, Position, InHand, AckedIsHandled
<1>4. OpenIsStarted
  BY DEF Init, OpenIsStarted, Open
<1> QED BY <1>3, <1>4, TypeInit DEF HandledInv

(* No message is acknowledged before its alert has a workflow or was       *)
(* suppressed, wherever a crash or an error strikes, for any requests and  *)
(* any length of the stream.                                               *)
THEOREM AcknowledgedIsHandled == Spec => []AckedIsHandled
<1>1. HandledInv => AckedIsHandled
  BY DEF HandledInv
<1> QED BY <1>1, HandledInit, HandledStep, PTL DEF Spec

-----------------------------------------------------------------------------
(* Every start is paid for.                                                *)

(* The handler has decided on the message in hand and only has to say so.  *)
Decided == at \in {"ack_started", "ack"} \/ after = "ack"

(* The requests and messages that may still start a workflow for e: each   *)
(* was paid for by a dedup window, or by the fault that put it back.       *)
Ahead(e) ==
  {r \in Requests :
     /\ EventOf[r] = e
     /\ \/ req[r] = "marked"
        \/ r \in Range(log) \ seen
        \/ r \in pel /\ ~(r = msg /\ Decided)}

Paid(e) == starts[e] + Cardinality(Ahead(e)) <= windows[e] + faults

PaidInv == HandledInv /\ \A e \in Events : Paid(e)

LEMMA SetRules ==
  ASSUME NEW S \in SUBSET Requests, NEW T \in SUBSET Requests
  PROVE  /\ Cardinality(S) \in Nat /\ Cardinality(T) \in Nat
         /\ T \subseteq S => Cardinality(T) <= Cardinality(S)
         /\ \A x : T \subseteq S \cup {x} => Cardinality(T) <= Cardinality(S) + 1
         /\ \A x \in S : T \subseteq S \ {x} => Cardinality(T) <= Cardinality(S) - 1
<1>1. IsFiniteSet(Requests) /\ IsFiniteSet(S) /\ IsFiniteSet(T)
  BY FS_Subset, IntakeAssumption
<1>2. Cardinality(S) \in Nat /\ Cardinality(T) \in Nat
  BY <1>1, FS_CardinalityType
<1>3. T \subseteq S => Cardinality(T) <= Cardinality(S)
  BY <1>1, FS_Subset
<1>4. ASSUME NEW x, T \subseteq S \cup {x} PROVE Cardinality(T) <= Cardinality(S) + 1
  <2>1. IsFiniteSet(S \cup {x}) /\ Cardinality(S \cup {x}) <= Cardinality(S) + 1
    BY <1>1, <1>2, FS_AddElement
  <2>2. Cardinality(T) <= Cardinality(S \cup {x}) /\ Cardinality(S \cup {x}) \in Nat
    BY <1>4, <2>1, FS_Subset, FS_CardinalityType
  <2> QED BY <1>2, <2>1, <2>2
<1>5. ASSUME NEW x \in S, T \subseteq S \ {x} PROVE Cardinality(T) <= Cardinality(S) - 1
  <2>1. IsFiniteSet(S \ {x}) /\ Cardinality(S \ {x}) = Cardinality(S) - 1
    BY <1>1, FS_RemoveElement
  <2>2. Cardinality(T) <= Cardinality(S \ {x})
    BY <1>5, <2>1, FS_Subset
  <2> QED BY <2>1, <2>2
<1> QED BY <1>2, <1>3, <1>4, <1>5

(* The ways in which a step may change the account of an event.            *)
Same(e)     == starts'[e] = starts[e] /\ Ahead(e)' \subseteq Ahead(e)
Again(e)    == starts'[e] = starts[e] /\ \E x : Ahead(e)' \subseteq Ahead(e) \cup {x}
Started(e)  == /\ starts'[e] = starts[e] + 1
               /\ \E x \in Ahead(e) : Ahead(e)' \subseteq Ahead(e) \ {x}
Unheard(e)  == starts'[e] = starts[e] + 1 /\ Ahead(e)' \subseteq Ahead(e)
FaultUsed   == faults' = faults + 1

Balanced(e) ==
  /\ windows'[e] >= windows[e] /\ faults' >= faults
  /\ \/ Same(e) \/ Started(e)
     \/ (FaultUsed \/ windows'[e] = windows[e] + 1) /\ Again(e)
     \/ FaultUsed /\ Unheard(e)

LEMMA BalancedIsPaid ==
  ASSUME TypeInv, TypeInv', NEW e \in Events, Paid(e), Balanced(e)
  PROVE  Paid(e)'
<1>1. /\ starts[e] \in Nat /\ starts'[e] \in Nat
      /\ windows[e] \in Nat /\ windows'[e] \in Nat
      /\ faults \in Nat /\ faults' \in Nat
  BY DEF TypeInv, TypeOK
<1>2. Ahead(e) \in SUBSET Requests /\ Ahead(e)' \in SUBSET Requests
  BY DEF Ahead
<1> DEFINE m == Cardinality(Ahead(e))
           n == Cardinality(Ahead(e)')
<1>3. m \in Nat /\ n \in Nat
  BY <1>2, SetRules
<1>4. starts[e] + m <= windows[e] + faults
  BY DEF Paid
<1>5. Same(e) => starts'[e] = starts[e] /\ n <= m
  BY <1>2, SetRules DEF Same
<1>6. Again(e) => starts'[e] = starts[e] /\ n <= m + 1
  BY <1>2, SetRules DEF Again
<1>7. Started(e) => starts'[e] = starts[e] + 1 /\ n <= m - 1
  BY <1>2, SetRules DEF Started
<1>8. Unheard(e) => starts'[e] = starts[e] + 1 /\ n <= m
  BY <1>2, SetRules DEF Unheard
<1>9. starts'[e] + n <= windows'[e] + faults'
  <2> HIDE DEF m, n
  <2> QED BY <1>1, <1>3, <1>4, <1>5, <1>6, <1>7, <1>8 DEF Balanced, FaultUsed
<1> QED BY <1>9 DEF Paid

LEMMA RequestBalanced ==
  ASSUME HandledInv, NEW r \in Requests, Request(r), NEW e \in Events
  PROVE  Balanced(e)
<1> USE DEF HandledInv, TypeInv, TypeOK
<1>1. starts' = starts /\ seen' = seen /\ pel' = pel /\ msg' = msg /\ Decided' = Decided
  BY DEF Request, Admit, Mark, Enqueue, stream, consumer, flows, Decided
<1>2. faults' >= faults
  BY DEF Request, Admit, Mark, Enqueue, Ends, Fault
<1>3. CASE windows' = windows /\ log' = log /\ req'[r] # "marked"
  <2>1. \A q \in Requests : req'[q] = "marked" => req[q] = "marked"
    BY <1>3 DEF Request, Admit, Mark, Enqueue, Answer
  <2> QED BY <1>1, <1>2, <1>3, <2>1, IntakeAssumption DEF Balanced, Same, Ahead
<1>4. CASE Admit(r)
  <2>1. req'[r] # "marked"
    BY <1>4 DEF Admit, Answer
  <2> QED BY <1>3, <1>4, <2>1 DEF Admit, stream
<1>5. CASE Mark(r)
  <2>1. \A q \in Requests : req'[q] = "marked" => req[q] = "marked" \/ q = r
    BY <1>5 DEF Mark, Answer
  <2>2. log' = log
    BY <1>5 DEF Mark, stream
  <2>3. \/ windows' = windows /\ req'[r] # "marked"
        \/ windows' = [windows EXCEPT ![EventOf[r]] = @ + 1]
    BY <1>5 DEF Mark, Answer, Outcomes, Happened
  <2>4. CASE windows' = [windows EXCEPT ![EventOf[r]] = @ + 1]
    <3>1. Ahead(e)' \subseteq Ahead(e) \cup (IF e = EventOf[r] THEN {r} ELSE {})
      BY <1>1, <2>1, <2>2 DEF Ahead
    <3>2. windows'[e] = IF e = EventOf[r] THEN windows[e] + 1 ELSE windows[e]
      BY <2>4
    <3>3. e = EventOf[r] => Again(e)
      BY <1>1, <3>1 DEF Again
    <3>4. e # EventOf[r] => Same(e)
      BY <1>1, <3>1 DEF Same
    <3> QED BY <1>2, <3>2, <3>3, <3>4 DEF Balanced
  <2> QED BY <1>3, <2>2, <2>3, <2>4
<1>6. CASE Enqueue(r)
  <2>1. Range(log') \subseteq Range(log) \cup {r} /\ req[r] = "marked" /\ windows' = windows
    BY <1>6, TrimmedTyped DEF Enqueue
  <2>2. \A q \in Requests : req'[q] = "marked" => req[q] = "marked"
    BY <1>6 DEF Enqueue, Answer
  <2> QED BY <1>1, <1>2, <2>1, <2>2 DEF Balanced, Same, Ahead
<1> QED BY <1>4, <1>5, <1>6 DEF Request

LEMMA ConsumerBalanced ==
  ASSUME HandledInv, HandledInv', Consumer \/ PollFails \/ Restart, NEW e \in Events
  PROVE  Balanced(e)
<1>1. req' = req /\ log' = log /\ windows' = windows
  BY DEF Consumer, Reclaim, Consume, Correlate, Incr, Start, AckStarted, Ack, Decr, Clamp,
         Wake, PollFails, Restart, webhook, stream, Deliver, XAck
<1>2. UNCHANGED faults \/ FaultUsed
  BY DEF Consumer, Reclaim, Consume, Correlate, Incr, Start, AckStarted, Ack, Decr, Clamp,
         Wake, PollFails, Restart, Ends, Fault, FaultUsed
<1>3. faults \in Nat /\ windows[e] \in Nat /\ starts[e] \in Nat
  BY DEF HandledInv, TypeInv, TypeOK
<1>4. windows'[e] >= windows[e] /\ faults' >= faults
  BY <1>1, <1>2, <1>3 DEF FaultUsed
<1>5. ASSUME starts' = starts,
             \A r \in pel' : r \in pel \/ r \in Range(log) \ seen,
             seen \subseteq seen',
             \A r \in pel' : r = msg /\ Decided => r = msg' /\ Decided'
      PROVE  Balanced(e)
  <2>1. Ahead(e)' \subseteq Ahead(e)
    BY <1>1, <1>5 DEF Ahead
  <2> QED BY <1>4, <1>5, <2>1 DEF Balanced, Same
<1>6. ASSUME starts' = starts, pel' \subseteq pel, seen' = seen, FaultUsed
      PROVE  Balanced(e)
  <2>1. Ahead(e)' \subseteq Ahead(e) \cup {msg}
    BY <1>1, <1>6 DEF Ahead
  <2> QED BY <1>4, <1>6, <2>1 DEF Balanced, Again
<1>7. CASE Reclaim \/ Consume
  <2>1. ~Decided /\ starts' = starts
    BY <1>7 DEF Reclaim, Consume, Decided, HandledInv, Position, flows
  <2>2. seen \subseteq seen' /\ \A r \in pel' : r \in pel \/ r \in Range(log) \ seen
    BY <1>7 DEF Reclaim, Consume, Deliver, IsNew, Range
  <2> QED BY <1>5, <2>1, <2>2
<1>8. CASE Correlate \/ Incr
  BY <1>5, <1>6, <1>8
  DEF Correlate, Incr, Decided, HandledInv, Position, stream, consumer, flows, Move, Rest
<1>9. CASE Start
  <2>1. pel' = pel /\ seen' = seen /\ msg' = msg /\ ~Decided
    BY <1>9 DEF Start, stream, Move, Undo, Decided, HandledInv, Position
  <2>2. Event \in Events /\ EventOf[msg] = Event /\ msg \in pel /\ msg \in Requests
    BY <1>9, IntakeAssumption DEF Start, HandledInv, Position, InHand, Event
  <2>3. Ahead(e)' \subseteq Ahead(e)
    BY <1>1, <2>1 DEF Ahead
  <2>4. CASE starts'[e] = starts[e]
    BY <1>4, <2>3, <2>4 DEF Balanced, Same
  <2>5. CASE starts'[e] # starts[e]
    <3>1. e = Event /\ starts'[e] = starts[e] + 1
      <4>1. starts' = starts \/ starts' = [starts EXCEPT ![Event] = @ + 1]
        BY <1>9 DEF Start, flows
      <4>2. starts \in [Events -> Nat]
        BY DEF HandledInv, TypeInv, TypeOK
      <4> QED BY <2>5, <4>1, <4>2
    <3>2. FaultUsed \/ at' = "ack_started"
      BY <1>9, <2>5 DEF Start, Move, flows, Ends, Fault, FaultUsed, Outcomes
    <3>3. CASE FaultUsed
      BY <1>4, <2>3, <3>1, <3>3 DEF Balanced, Unheard
    <3>4. CASE at' = "ack_started"
      <4>1. msg \in Ahead(e)
        BY <2>1, <2>2, <3>1 DEF Ahead
      <4>2. Decided'
        BY <3>4 DEF Decided
      <4>3. msg \notin Range(log) \ seen /\ req[msg] # "marked"
        BY <2>2 DEF HandledInv, TypeInv, TypeOK, SentOnce, Answered
      <4>4. msg \notin Ahead(e)'
        BY <1>1, <2>1, <4>2, <4>3 DEF Ahead
      <4> QED BY <1>4, <2>3, <3>1, <4>1, <4>4 DEF Balanced, Started
    <3> QED BY <3>2, <3>3, <3>4
  <2> QED BY <2>4, <2>5
<1>10. CASE AckStarted \/ Ack
  <2>1. starts' = starts /\ seen' = seen /\ pel' \subseteq pel
    BY <1>10 DEF AckStarted, Ack, XAck, flows
  <2>2. FaultUsed \/ pel' = pel \ {msg}
    BY <1>10 DEF AckStarted, Ack, XAck, Ends, Fault, FaultUsed, Happened, Outcomes
  <2> QED BY <1>5, <1>6, <2>1, <2>2
<1>11. CASE Decr \/ Clamp
  <2>1. starts' = starts /\ seen' = seen /\ pel' = pel
    BY <1>11 DEF Decr, Clamp, stream, flows
  <2>2. \/ FaultUsed
        \/ msg' = msg /\ (Decided => Decided')
        \/ after = "sleep" /\ at \in {"decr", "clamp"}
    BY <1>11
    DEF Decr, Clamp, Ends, Fault, FaultUsed, Outcomes, Return, Move, Rest, Decided,
        HandledInv, TypeInv, TypeOK
  <2> QED BY <1>5, <1>6, <2>1, <2>2 DEF Decided
<1>12. CASE Wake \/ Restart
  BY <1>5, <1>12 DEF Wake, Restart, Move, stream, flows, Decided
<1>13. CASE PollFails
  <2>1. ~Decided /\ starts' = starts
    BY <1>13 DEF PollFails, Decided, HandledInv, Position, flows
  <2>2. seen \subseteq seen' /\ \A r \in pel' : r \in pel \/ r \in Range(log) \ seen
    BY <1>13 DEF PollFails, Deliver, IsNew, Range, stream
  <2> QED BY <1>5, <2>1, <2>2
<1> QED
  BY <1>7, <1>8, <1>9, <1>10, <1>11, <1>12, <1>13 DEF Consumer

LEMMA PaidStep == PaidInv /\ [Next]_vars => PaidInv'
<1> SUFFICES ASSUME PaidInv, [Next]_vars PROVE PaidInv'
  OBVIOUS
<1>1. HandledInv'
  BY HandledStep DEF PaidInv
<1>2. SUFFICES ASSUME NEW e \in Events PROVE Balanced(e)
  BY <1>1, BalancedIsPaid DEF PaidInv, HandledInv
<1>3. windows[e] \in Nat /\ faults \in Nat
  BY DEF PaidInv, HandledInv, TypeInv, TypeOK
<1>4. ASSUME UNCHANGED <<starts, windows, log, seen, pel, msg, at, after, req>>,
             UNCHANGED faults \/ FaultUsed
      PROVE  Balanced(e)
  BY <1>3, <1>4 DEF Balanced, Same, FaultUsed, Ahead, Decided
<1>5. ASSUME NEW d \in Events, Workflow(d) PROVE Balanced(e)
  <2>1. UNCHANGED <<webhook, stream, consumer, starts>>
    BY <1>5 DEF Workflow, EndWorkflow, DecrActivity, ClampActivity, Phase, Repeat
  <2>2. UNCHANGED faults \/ FaultUsed
    <3>1. UNCHANGED faults \/ Fault
      BY <1>5 DEF Workflow, EndWorkflow, DecrActivity, ClampActivity
    <3> QED BY <3>1 DEF Fault, FaultUsed
  <2> QED BY <1>4, <2>1, <2>2 DEF webhook, stream, consumer
<1>6. ASSUME NEW d \in Events, DedupExpires(d) PROVE Balanced(e)
  BY <1>4, <1>6 DEF DedupExpires, stream, consumer, flows
<1>7. CASE Crash
  <2>1. FaultUsed /\ UNCHANGED <<starts, windows, log, seen, pel>>
    BY <1>7 DEF Crash, Fault, FaultUsed, stream
  <2>2. \A r \in Requests : req'[r] = "marked" => req[r] = "marked"
    BY <1>7 DEF Crash, Handling
  <2>3. Ahead(e)' \subseteq Ahead(e) \cup {msg}
    BY <2>1, <2>2 DEF Ahead
  <2> QED BY <1>3, <2>1, <2>3 DEF Balanced, Again, FaultUsed
<1>8. CASE UNCHANGED vars
  BY <1>4, <1>8 DEF vars, webhook, stream, consumer, flows
<1> QED
  BY <1>1, <1>5, <1>6, <1>7, <1>8, RequestBalanced, ConsumerBalanced DEF Next, PaidInv

(* A dedup window starts at most one workflow for its event, and whatever  *)
(* is started beyond that was paid for by a fault, for any requests.       *)
THEOREM StartsArePaidFor == Spec => []StartsArePaid
<1>1. Init => PaidInv
  <2> SUFFICES ASSUME Init PROVE PaidInv
    OBVIOUS
  <2>1. ASSUME NEW e \in Events PROVE Paid(e)
    <3>1. Ahead(e) = {}
      BY DEF Init, Ahead, Range
    <3>2. Cardinality(Ahead(e)) = 0
      BY <3>1, FS_EmptySet
    <3> QED BY <3>2 DEF Init, Paid
  <2> QED BY <2>1, HandledInit DEF PaidInv
<1>2. PaidInv => StartsArePaid
  <2> SUFFICES ASSUME PaidInv, NEW e \in Events PROVE starts[e] <= windows[e] + faults
    BY DEF StartsArePaid
  <2>1. starts[e] \in Nat /\ windows[e] \in Nat /\ faults \in Nat
    BY DEF PaidInv, HandledInv, TypeInv, TypeOK
  <2>2. Cardinality(Ahead(e)) \in Nat
    BY SetRules DEF Ahead
  <2> QED BY <2>1, <2>2 DEF PaidInv, Paid
<1> QED BY <1>1, <1>2, PaidStep, PTL DEF Spec

-----------------------------------------------------------------------------
(* The gauge counts what is in flight.                                     *)

Busy    == {e \in Events : wf[e] \in {"running", "ending"}}
Holding == IF at \in {"start", "decr"} THEN 1 ELSE 0

(* Without a fault the gauge is exact, so it never falls below zero and    *)
(* nothing is clamped.                                                     *)
GaugeInv ==
  /\ HandledInv /\ GaugeHonest
  /\ at = "clamp" => faults > 0
  /\ \A e \in Events : wf[e] = "clamping" => faults > 0

LEMMA SlotsAre ==
  ASSUME TRUE
  PROVE  /\ Slots = Cardinality(Busy) + Holding
         /\ Cardinality(Busy) \in Nat /\ Holding \in {0, 1}
<1>1. IsFiniteSet(Busy)
  BY IntakeAssumption, FS_Subset DEF Busy
<1> QED BY <1>1, FS_CardinalityType DEF Slots, Busy, Holding

LEMMA BusyChanges ==
  ASSUME TypeInv, NEW e \in Events, NEW p, wf' = [wf EXCEPT ![e] = p]
  PROVE  Cardinality(Busy)' = Cardinality(Busy)
           + (IF p \in {"running", "ending"} THEN 1 ELSE 0)
           - (IF e \in Busy THEN 1 ELSE 0)
<1>1. IsFiniteSet(Busy) /\ Cardinality(Busy) \in Nat
  BY IntakeAssumption, FS_Subset, FS_CardinalityType DEF Busy
<1>2. \A d \in Events : wf'[d] = IF d = e THEN p ELSE wf[d]
  BY DEF TypeInv, TypeOK
<1>3. CASE p \in {"running", "ending"}
  <2>1. Busy' = Busy \cup {e}
    BY <1>2, <1>3 DEF Busy
  <2> QED BY <1>1, <1>3, <2>1, FS_AddElement
<1>4. CASE p \notin {"running", "ending"}
  <2>1. Busy' = Busy \ {e}
    BY <1>2, <1>4 DEF Busy
  <2>2. Cardinality(Busy \ {e}) = IF e \in Busy THEN Cardinality(Busy) - 1 ELSE Cardinality(Busy)
    BY <1>1, FS_RemoveElement
  <2>3. (IF p \in {"running", "ending"} THEN 1 ELSE 0) = 0
    BY <1>4
  <2> QED BY <1>1, <2>1, <2>2, <2>3
<1> QED BY <1>3, <1>4

(* A step that keeps the gauge honest: it moves with the slots, or a fault *)
(* lets it run ahead of them by one.                                       *)
Tracks ==
  LET m == Cardinality(Busy) + Holding
      n == Cardinality(Busy)' + Holding'
  IN \/ faults' = faults /\ gauge' - gauge = n - m
     \/ faults' = faults /\ faults > 0 /\ (gauge' - gauge <= n - m \/ gauge' <= 0)
     \/ FaultUsed /\ (gauge' - gauge <= n - m + 1 \/ gauge' <= 0)

(* The gauge g, the slots m and the faults f before a step, h, n and k     *)
(* after it.                                                               *)
LEMMA HonestArithmetic ==
  ASSUME NEW g \in Int, NEW h \in Int, NEW m \in Nat, NEW n \in Nat,
         NEW f \in Nat, NEW k \in Nat,
         f = 0 => g = m, g - m <= f,
         \/ k = f /\ h - g = n - m
         \/ k = f /\ f > 0 /\ (h - g <= n - m \/ h <= 0)
         \/ k = f + 1 /\ (h - g <= n - m + 1 \/ h <= 0)
  PROVE  (k = 0 => h = n) /\ h - n <= k
<1>1. CASE k = f /\ h - g = n - m
  BY <1>1
<1>2. CASE k = f /\ f > 0 /\ h - g <= n - m
  BY <1>2
<1>3. CASE k = f + 1 /\ h - g <= n - m + 1
  BY <1>3
<1>4. CASE k > 0 /\ h <= 0
  BY <1>4
<1> QED BY <1>1, <1>2, <1>3, <1>4

LEMMA TracksIsHonest ==
  ASSUME TypeInv, TypeInv', GaugeHonest, Tracks
  PROVE  GaugeHonest'
<1> DEFINE m == Cardinality(Busy) + Holding
           n == Cardinality(Busy)' + Holding'
<1>1. m \in Nat /\ Slots = m
  BY SlotsAre
<1>2. n \in Nat /\ Slots' = n
  <2>1. IsFiniteSet(Busy')
    BY IntakeAssumption, FS_Subset DEF Busy
  <2>2. Cardinality(Busy') \in Nat /\ Holding' \in {0, 1}
    BY <2>1, FS_CardinalityType DEF Holding
  <2> QED BY <2>2 DEF Slots, Busy, Holding
<1>3. gauge \in Int /\ gauge' \in Int /\ faults \in Nat /\ faults' \in Nat
  BY DEF TypeInv, TypeOK
<1>4. \/ faults' = faults /\ gauge' - gauge = n - m
      \/ faults' = faults /\ faults > 0 /\ (gauge' - gauge <= n - m \/ gauge' <= 0)
      \/ faults' = faults + 1 /\ (gauge' - gauge <= n - m + 1 \/ gauge' <= 0)
  BY DEF Tracks, FaultUsed
<1>5. (faults = 0 => gauge = m) /\ gauge - m <= faults
  BY <1>1 DEF GaugeHonest
<1>6. (faults' = 0 => gauge' = n) /\ gauge' - n <= faults'
  BY <1>1, <1>2, <1>3, <1>4, <1>5, HonestArithmetic
<1> QED BY <1>2, <1>6 DEF GaugeHonest

LEMMA ConsumerTracks ==
  ASSUME GaugeInv, Consumer \/ PollFails \/ Restart
  PROVE  Tracks /\ (at' = "clamp" => faults' > 0)
<1> USE DEF Outcomes, Happened
<1>1. /\ gauge \in Int /\ faults \in Nat
      /\ Cardinality(Busy) \in Nat /\ Holding \in {0, 1}
  BY SlotsAre DEF GaugeInv, HandledInv, TypeInv, TypeOK
<1>2. faults = 0 => gauge = Cardinality(Busy) + Holding
  BY SlotsAre DEF GaugeInv, GaugeHonest
<1>3. UNCHANGED faults \/ FaultUsed
  BY DEF Consumer, Reclaim, Consume, Correlate, Incr, Start, AckStarted, Ack, Decr, Clamp,
         Wake, PollFails, Restart, Ends, Fault, FaultUsed
<1>4. CASE Start
  <2>1. PICK o \in Outcomes :
          /\ Ends(o)
          /\ IF Happened(o) /\ ~Open(Event)
             THEN wf' = [wf EXCEPT ![Event] = "running"]
             ELSE wf' = wf
          /\ \/ o # "ok" /\ at' = "decr"
             \/ o = "ok" /\ Open(Event) /\ at' = "decr"
             \/ o = "ok" /\ ~Open(Event) /\ at' = "ack_started"
    BY <1>4 DEF Start, flows, Move, Undo
  <2>2. gauge' = gauge /\ Holding = 1 /\ at' # "clamp" /\ (at' = "decr" => Holding' = 1)
    BY <1>4, <2>1 DEF Start, Holding
  <2>3. (faults' = faults /\ o = "ok") \/ FaultUsed
    BY <2>1 DEF Ends, Fault, FaultUsed
  <2>4. CASE Happened(o) /\ ~Open(Event)
    <3>1. Event \in Events /\ Event \notin Busy /\ wf' = [wf EXCEPT ![Event] = "running"]
      BY <1>4, <2>1, <2>4, IntakeAssumption
      DEF Start, Open, Busy, GaugeInv, HandledInv, Position, InHand, Event
    <3>2. Cardinality(Busy)' = Cardinality(Busy) + 1
      <4>1. Cardinality(Busy)' = Cardinality(Busy)
                + (IF "running" \in {"running", "ending"} THEN 1 ELSE 0)
                - (IF Event \in Busy THEN 1 ELSE 0)
        BY <3>1, BusyChanges DEF GaugeInv, HandledInv
      <4> QED BY <1>1, <3>1, <4>1
    <3>3. FaultUsed \/ (faults' = faults /\ at' = "ack_started")
      BY <2>1, <2>3, <2>4
    <3>4. Holding' \in {0, 1} /\ (at' = "ack_started" => Holding' = 0)
      BY DEF Holding
    <3> QED BY <1>1, <2>2, <3>2, <3>3, <3>4 DEF Tracks, FaultUsed
  <2>5. CASE ~(Happened(o) /\ ~Open(Event))
    <3>1. wf' = wf /\ Holding' = 1
      BY <2>1, <2>2, <2>5
    <3>2. Cardinality(Busy)' = Cardinality(Busy)
      BY <3>1 DEF Busy
    <3> QED BY <1>1, <1>3, <2>2, <3>1, <3>2 DEF Tracks, FaultUsed
  <2> QED BY <2>2, <2>4, <2>5
<1>5. ASSUME wf' = wf PROVE Cardinality(Busy)' = Cardinality(Busy)
  BY <1>5 DEF Busy
<1>6. CASE Incr
  <2>1. wf' = wf /\ Holding = 0 /\ at' # "clamp"
    BY <1>6 DEF Incr, flows, Holding, Move, Rest
  <2>2. \/ faults' = faults /\ gauge' = gauge + 1 /\ Holding' = 1
        \/ FaultUsed /\ gauge' \in {gauge, gauge + 1} /\ Holding' = 0
    BY <1>6 DEF Incr, Ends, Fault, FaultUsed, Holding, Move, Rest
  <2> QED BY <1>1, <1>5, <2>1, <2>2 DEF Tracks, FaultUsed
<1>7. CASE AckStarted
  <2>1. wf' = wf /\ gauge' = gauge /\ Holding = 0 /\ at' # "clamp"
    BY <1>7 DEF AckStarted, flows, Holding, Rest, Undo
  <2>2. (faults' = faults /\ Holding' = 0) \/ (FaultUsed /\ Holding' \in {0, 1})
    BY <1>7 DEF AckStarted, Ends, Fault, FaultUsed, Holding, Rest, Undo
  <2> QED BY <1>1, <1>5, <2>1, <2>2 DEF Tracks, FaultUsed
<1>8. CASE Decr
  <2>1. wf' = wf /\ Holding = 1
    BY <1>8 DEF Decr, flows, Holding
  <2>2. \/ FaultUsed /\ gauge' \in {gauge, gauge - 1} /\ at' = "sleep"
        \/ faults' = faults /\ gauge' = gauge - 1 /\ gauge < 1 /\ at' = "clamp"
        \/ faults' = faults /\ gauge' = gauge - 1 /\ at' \in {"ack", "sleep"}
    BY <1>8 DEF Decr, Ends, Fault, FaultUsed, Move, Rest, Return
  <2>3. Holding' = 0
    BY <2>2 DEF Holding
  <2>4. at' = "clamp" => faults' > 0
    BY <1>1, <1>2, <2>1, <2>2 DEF FaultUsed
  <2> QED BY <1>1, <1>5, <2>1, <2>2, <2>3, <2>4 DEF Tracks, FaultUsed
<1>9. CASE Clamp
  <2>1. wf' = wf /\ Holding = 0 /\ faults > 0 /\ gauge' \in {0, gauge}
        /\ (faults' = faults => gauge' = 0)
    BY <1>9, <1>1 DEF Clamp, flows, Holding, GaugeInv, Ends, Fault
  <2>2. at' \in {"ack", "sleep"}
    BY <1>9 DEF Clamp, Move, Rest, Return
  <2>3. Holding' = 0
    BY <2>2 DEF Holding
  <2> QED BY <1>1, <1>3, <1>5, <2>1, <2>2, <2>3 DEF Tracks, FaultUsed
<1>10. CASE Reclaim \/ Consume \/ Correlate \/ Ack \/ Wake \/ PollFails \/ Restart
  <2>1. wf' = wf /\ gauge' = gauge
    BY <1>10 DEF Reclaim, Consume, Correlate, Ack, Wake, PollFails, Restart, flows
  <2>2. /\ at \in {"poll", "correlate", "ack", "sleep", "down"}
        /\ at' \in {"poll", "correlate", "incr", "ack", "sleep", "dead"}
    BY <1>10
    DEF Reclaim, Consume, Correlate, Ack, Wake, PollFails, Restart, Take, Move, Rest, consumer
  <2>3. Holding = 0 /\ Holding' = 0 /\ at' # "clamp"
    BY <2>2 DEF Holding
  <2> QED BY <1>1, <1>3, <1>5, <2>1, <2>3 DEF Tracks, FaultUsed
<1> QED BY <1>4, <1>6, <1>7, <1>8, <1>9, <1>10 DEF Consumer

LEMMA WorkflowTracks ==
  ASSUME GaugeInv, NEW e \in Events, Workflow(e)
  PROVE  Tracks /\ \A d \in Events : wf'[d] = "clamping" => faults' > 0
<1>1. /\ gauge \in Int /\ faults \in Nat
      /\ Cardinality(Busy) \in Nat /\ Holding \in {0, 1} /\ TypeInv
  BY SlotsAre DEF GaugeInv, HandledInv, TypeInv, TypeOK
<1>2. Holding' = Holding
  BY DEF Workflow, EndWorkflow, DecrActivity, ClampActivity, consumer, Holding
<1>3. \A d \in Events : wf[d] = "clamping" => faults > 0
  BY DEF GaugeInv
<1>4. PICK p \in {"ending", "clamping", "closed"} : wf' = [wf EXCEPT ![e] = p]
  BY DEF Workflow, EndWorkflow, DecrActivity, ClampActivity, Phase, Repeat
<1>5. Cardinality(Busy)' = Cardinality(Busy)
           + (IF p = "ending" THEN 1 ELSE 0) - (IF e \in Busy THEN 1 ELSE 0)
  BY <1>1, <1>4, BusyChanges
<1>6. \A d \in Events : wf'[d] = IF d = e THEN p ELSE wf[d]
  BY <1>4 DEF GaugeInv, HandledInv, TypeInv, TypeOK
<1>7. e \in Busy => Cardinality(Busy) >= 1
  <2>1. IsFiniteSet(Busy)
    BY IntakeAssumption, FS_Subset DEF Busy
  <2> QED BY <1>1, <2>1, FS_EmptySet
<1>8. faults = 0 => gauge = Cardinality(Busy) + Holding
  BY SlotsAre DEF GaugeInv, GaugeHonest
<1>9. CASE EndWorkflow(e)
  <2>1. p = "ending" /\ e \in Busy /\ gauge' = gauge /\ faults' = faults
    BY <1>6, <1>9 DEF EndWorkflow, Phase, Busy, GaugeInv, HandledInv, TypeInv, TypeOK
  <2> QED BY <1>1, <1>2, <1>3, <1>5, <1>6, <2>1 DEF Tracks
<1>10. CASE DecrActivity(e)
  <2>1. e \in Busy
    BY <1>10 DEF DecrActivity, Busy
  <2>2. \/ faults' = faults /\ gauge' = gauge - 1 /\ p # "ending" /\ (p = "clamping" => gauge < 1)
        \/ FaultUsed /\ gauge' \in {gauge, gauge - 1} /\ p # "clamping"
    BY <1>6, <1>10
    DEF DecrActivity, Fault, FaultUsed, Phase, Repeat, GaugeInv, HandledInv, TypeInv, TypeOK
  <2>3. p = "clamping" => faults' > 0
    BY <1>1, <1>7, <1>8, <2>1, <2>2
  <2>4. Tracks
    BY <1>1, <1>2, <1>5, <2>1, <2>2 DEF Tracks, FaultUsed
  <2> QED BY <1>1, <1>3, <1>6, <2>2, <2>3, <2>4 DEF FaultUsed
<1>11. CASE ClampActivity(e)
  <2>1. e \notin Busy /\ faults > 0
    BY <1>3, <1>11 DEF ClampActivity, Busy
  <2>2. \/ faults' = faults /\ gauge' = 0
        \/ FaultUsed /\ gauge' \in {gauge, 0}
    BY <1>11 DEF ClampActivity, Fault, FaultUsed
  <2>3. Tracks
    BY <1>1, <1>2, <1>5, <2>1, <2>2 DEF Tracks, FaultUsed
  <2> QED BY <1>1, <2>1, <2>2, <2>3 DEF FaultUsed
<1> QED BY <1>9, <1>10, <1>11 DEF Workflow

LEMMA GaugeStep == GaugeInv /\ [Next]_vars => GaugeInv'
<1> SUFFICES ASSUME GaugeInv, [Next]_vars PROVE GaugeInv'
  OBVIOUS
<1>1. HandledInv'
  BY HandledStep DEF GaugeInv
<1>2. ASSUME Tracks, at' = "clamp" => faults' > 0,
             \A d \in Events : wf'[d] = "clamping" => faults' > 0
      PROVE  GaugeInv'
  BY <1>1, <1>2, TracksIsHonest DEF GaugeInv, HandledInv
<1>3. /\ gauge \in Int /\ faults \in Nat
      /\ Cardinality(Busy) \in Nat /\ Holding \in {0, 1}
  BY SlotsAre DEF GaugeInv, HandledInv, TypeInv, TypeOK
<1>4. ASSUME UNCHANGED <<wf, at, gauge>>, UNCHANGED faults \/ FaultUsed
      PROVE  GaugeInv'
  <2>1. Holding' = Holding /\ Cardinality(Busy)' = Cardinality(Busy)
    BY <1>4 DEF Holding, Busy
  <2>2. Tracks
    BY <1>3, <1>4, <2>1 DEF Tracks, FaultUsed
  <2>3. /\ at' = "clamp" => faults' > 0
        /\ \A d \in Events : wf'[d] = "clamping" => faults' > 0
    BY <1>3, <1>4 DEF GaugeInv, FaultUsed
  <2> QED BY <1>2, <2>2, <2>3
<1>5. ASSUME NEW r \in Requests, Request(r) PROVE GaugeInv'
  <2>1. UNCHANGED <<wf, at, gauge>>
    BY <1>5 DEF Request, Admit, Mark, Enqueue, consumer, flows
  <2>2. UNCHANGED faults \/ FaultUsed
    BY <1>5 DEF Request, Admit, Mark, Enqueue, Ends, Fault, FaultUsed
  <2> QED BY <1>4, <2>1, <2>2
<1>6. CASE Consumer \/ PollFails \/ Restart
  <2>1. wf' = wf \/ Start
    BY <1>6 DEF Consumer, Reclaim, Consume, Correlate, Incr, AckStarted, Ack, Decr, Clamp,
                Wake, PollFails, Restart, flows
  <2>2. \A d \in Events : wf'[d] = "clamping" => wf[d] = "clamping"
    <3>1. wf' = wf \/ wf' = [wf EXCEPT ![Event] = "running"]
      BY <2>1 DEF Start, flows
    <3>2. wf \in [Events -> {"none", "running", "ending", "clamping", "closed"}]
      BY DEF GaugeInv, HandledInv, TypeInv, TypeOK
    <3> QED BY <3>1, <3>2
  <2>3. \A d \in Events : wf'[d] = "clamping" => faults' > 0
    <3> SUFFICES ASSUME NEW d \in Events, wf'[d] = "clamping" PROVE faults' > 0
      OBVIOUS
    <3>1. faults > 0
      BY <2>2 DEF GaugeInv
    <3>2. faults' = faults \/ faults' = faults + 1
      BY <1>6
      DEF Consumer, Reclaim, Consume, Correlate, Incr, Start, AckStarted, Ack, Decr, Clamp,
          Wake, PollFails, Restart, Ends, Fault
    <3> QED BY <1>3, <3>1, <3>2
  <2> QED BY <1>2, <1>6, <2>3, ConsumerTracks
<1>7. ASSUME NEW e \in Events, Workflow(e) PROVE GaugeInv'
  <2>1. at' = at
    BY <1>7 DEF Workflow, EndWorkflow, DecrActivity, ClampActivity, consumer
  <2>2. faults' = faults \/ faults' = faults + 1
    <3>1. UNCHANGED faults \/ Fault
      BY <1>7 DEF Workflow, EndWorkflow, DecrActivity, ClampActivity
    <3> QED BY <3>1 DEF Fault
  <2>3. at' = "clamp" => faults' > 0
    BY <1>3, <2>1, <2>2 DEF GaugeInv
  <2> QED BY <1>2, <1>7, <2>3, WorkflowTracks
<1>8. ASSUME NEW e \in Events, DedupExpires(e) PROVE GaugeInv'
  BY <1>4, <1>8 DEF DedupExpires, consumer, flows
<1>9. CASE Crash
  <2>1. FaultUsed /\ gauge' = gauge /\ at' = "down"
    BY <1>9 DEF Crash, Fault, FaultUsed, Rest
  <2>2. Busy \subseteq Busy' /\ Busy' \subseteq Events
    BY <1>9 DEF Crash, Busy
  <2>3. Cardinality(Busy') \in Nat /\ Cardinality(Busy) <= Cardinality(Busy')
    BY <2>2, IntakeAssumption, FS_Subset, FS_CardinalityType
  <2>4. Holding' = 0
    BY <2>1 DEF Holding
  <2>5. Tracks
    BY <1>3, <2>1, <2>3, <2>4 DEF Tracks
  <2> QED BY <1>2, <1>3, <2>1, <2>5 DEF FaultUsed
<1>10. CASE UNCHANGED vars
  BY <1>4, <1>10 DEF vars, consumer, flows
<1> QED BY <1>5, <1>6, <1>7, <1>8, <1>9, <1>10 DEF Next

(* Without faults the gauge is the number of workflows in flight; each     *)
(* fault lets it overstate them by at most one, for any number of alerts.  *)
THEOREM GaugeIsHonest == Spec => []GaugeHonest
<1>1. Init => GaugeInv
  <2> SUFFICES ASSUME Init PROVE GaugeInv
    OBVIOUS
  <2>1. Busy = {} /\ Holding = 0
    BY DEF Init, Busy, Holding
  <2>2. Slots = 0
    BY <2>1, SlotsAre, FS_EmptySet
  <2> QED BY <2>2, HandledInit DEF Init, GaugeInv, GaugeHonest
<1>2. GaugeInv => GaugeHonest
  BY DEF GaugeInv
<1> QED BY <1>1, <1>2, GaugeStep, PTL DEF Spec

=============================================================================
