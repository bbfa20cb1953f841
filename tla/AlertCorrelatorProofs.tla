------------------------ MODULE AlertCorrelatorProofs -------------------------
(***************************************************************************)
(* The correlator for any alerts, hosts, windows and number of faults:     *)
(* types and the cost of rings for any number of consumers, distinct roots *)
(* for the one the deployment runs.                                        *)
(***************************************************************************)
EXTENDS AlertCorrelator, FiniteSetTheorems, TLAPS

-----------------------------------------------------------------------------
(* Types.                                                                  *)

(* A consumer that is not polling has an alert in hand, and what it saves  *)
(* is a group.                                                             *)
InHand(c) ==
  /\ at[c] # "poll" => msg[c] \in Alerts
  /\ at[c] = "save" => answer[c] \in Alerts

TypeInv == TypeOK /\ \A c \in Consumers : InHand(c)

LEMMA TypeInit == Init => TypeInv
  BY CorrelatorAssumption
  DEF Init, LockInit, Free, TypeInv, TypeOK, LockTypeOK, InHand

(* Redis answers with a lock table of the same type.                       *)
LEMMA LockTyped ==
  ASSUME LockTypeOK(Consumers), NEW h, NEW k \in Consumers \cup {NoToken},
         \/ k # NoToken /\ AcquireActionMutex(h, k, LockTTL)
         \/ ReleaseActionMutex(h, k)
  PROVE  LockTypeOK(Consumers)'
  BY CorrelatorAssumption DEF LockTypeOK, AcquireActionMutex, ReleaseActionMutex, Free

LEMMA ExpiryTyped ==
  ASSUME LockTypeOK(Consumers), ExpireLocks
  PROVE  LockTypeOK(Consumers)'
<1>1. SUFFICES ASSUME NEW t \in Targets
               PROVE  (IF lock[t].ttl > 1 THEN [lock[t] EXCEPT !.ttl = @ - 1] ELSE Free)
                        \in [token : Consumers \cup {NoToken}, ttl : Nat]
  BY DEF ExpireLocks, LockTypeOK
<1>2. lock[t] \in [token : Consumers \cup {NoToken}, ttl : Nat]
  BY DEF LockTypeOK
<1> QED BY <1>2 DEF Free

(* A consumer's step leaves every variable in its type.                    *)
LEMMA ConsumerTyped ==
  ASSUME TypeInv, NEW c \in Consumers, Consumer(c) \/ AcquireFails(c) \/ CorrelateRaises(c) \/ Crash(c)
  PROVE  TypeInv'
<1> USE CorrelatorAssumption
    DEF TypeInv, TypeOK, InHand, Fault, Goto, Reset, queue, store, mind, done
<1>1. CASE Reclaim(c)
  BY <1>1 DEF Reclaim, Take, Stale, LockTypeOK
<1>2. CASE ReadNext(c)
  BY <1>2 DEF ReadNext, Take, LockTypeOK
<1>3. CASE Acquire(c)
  <2>1. LockTypeOK(Consumers)'
    BY <1>3, LockTyped DEF Acquire
  <2> QED BY <1>3, <2>1 DEF Acquire
<1>4. CASE GiveUp(c)
  BY <1>4 DEF GiveUp, LockTypeOK
<1>5. CASE AcquireFails(c)
  <2>1. LockTypeOK(Consumers)'
    BY <1>5, LockTyped DEF AcquireFails, LockTypeOK
  <2> QED BY <1>5, <2>1 DEF AcquireFails
<1>6. CASE Members(c)
  BY <1>6 DEF Members, LockTypeOK
<1>7. CASE Fetch(c)
  BY <1>7 DEF Fetch, LockTypeOK
<1>8. CASE Forget(c)
  BY <1>8 DEF Forget, Unlist, LockTypeOK
<1>9. CASE Judge(c)
  <2>1. UNCHANGED <<lock, queue, store, msg, token, dead, done, faults>>
    BY <1>9 DEF Judge
  <2>2. PICK g \in todo[c] : Join(c, g) \/ Skip(c, g)
    BY <1>9 DEF Judge
  <2>3. g \in Alerts
    BY <2>2
  <2>4. CASE Join(c, g)
    BY <2>1, <2>3, <2>4, <1>9 DEF Join, Judge, LockTypeOK
  <2>5. CASE Skip(c, g)
    <3>1. todo' \in [Consumers -> SUBSET Alerts]
      BY <2>5 DEF Skip
    <3> QED BY <2>1, <2>5, <3>1 DEF Skip, LockTypeOK
  <2> QED BY <2>2, <2>4, <2>5
<1>10. CASE NewGroup(c)
  BY <1>10 DEF NewGroup, LockTypeOK
<1>11. CASE Save(c)
  <2>1. /\ UNCHANGED <<lock, queue, msg, token, todo, dead, done>>
        /\ at[c] = "save" /\ at' = [at EXCEPT ![c] = "release"]
    BY <1>11 DEF Save
  <2>2. ttl' \in [Alerts -> 0..GroupTTL] /\ index' \subseteq Alerts /\ indexTTL' \in 0..GroupTTL
    BY <1>11 DEF Save, SetGroup, AddToIndex, ExpireIndex
  <2>3. answer' \in [Consumers -> Alerts \cup {NoAlert}] /\ faults' \in 0..MaxFaults
    BY <1>11 DEF Save
  <2>4. \A d \in Consumers : d # c => answer'[d] = answer[d]
    BY <1>11 DEF Save
  <2> QED BY <2>1, <2>2, <2>3, <2>4 DEF LockTypeOK
<1>12. CASE Release(c)
  <2>1. LockTypeOK(Consumers)'
    BY <1>12, LockTyped DEF Release, LockTypeOK
  <2> QED BY <1>12, <2>1 DEF Release
<1>13. CASE Conclude(c)
  <2>1. UNCHANGED <<lock, waiting, idle, store>> /\ Reset(c)
    BY <1>13 DEF Conclude
  <2>2. msg[c] \in Alerts /\ answer[c] \in Alerts \cup {NoAlert}
    BY <1>13 DEF Conclude
  <2>3. /\ pel' \subseteq pel /\ started' \subseteq Alerts
        /\ under' \in [Alerts -> Alerts \cup {NoAlert}]
    BY <1>13, <2>2 DEF Conclude, Suppress, StartWorkflow, Ack
  <2>4. faults' \in 0..MaxFaults
    BY <1>13 DEF Conclude
  <2> QED BY <2>1, <2>3, <2>4 DEF LockTypeOK
<1>14. CASE Crash(c)
  BY <1>14 DEF Crash, LockTypeOK
<1>15. CASE CorrelateRaises(c)
  <2>1. index' \subseteq Alerts /\ indexTTL' \in 0..GroupTTL
    BY <1>15 DEF CorrelateRaises, Unlist
  <2> QED BY <1>15, <2>1 DEF CorrelateRaises, LockTypeOK
<1> QED
  BY <1>1, <1>2, <1>3, <1>4, <1>5, <1>6, <1>7, <1>8, <1>9, <1>10, <1>11, <1>12,
     <1>13, <1>14, <1>15 DEF Consumer

LEMMA TypeStep == TypeInv /\ [Next]_vars => TypeInv'
<1> SUFFICES ASSUME TypeInv, [Next]_vars PROVE TypeInv'
  OBVIOUS
<1>1. CASE Tick
  <2> USE CorrelatorAssumption DEF TypeInv, TypeOK
  <2>1. UNCHANGED <<waiting, pel, mind, done, faults>>
    BY <1>1 DEF Tick
  <2>2. LockTypeOK(Consumers)'
    BY <1>1, ExpiryTyped DEF Tick
  <2>3. ttl' \in [Alerts -> 0..GroupTTL]
    BY <1>1 DEF Tick, Less
  <2>4. index' \subseteq Alerts /\ indexTTL' \in 0..GroupTTL
    BY <1>1 DEF Tick, Less
  <2>5. idle' \in [Alerts -> 0..MinIdle]
    BY <1>1 DEF Tick
  <2> QED BY <2>1, <2>2, <2>3, <2>4, <2>5 DEF InHand, mind, done
<1>2. CASE UNCHANGED vars
  BY <1>2 DEF vars, queue, store, mind, done, TypeInv, TypeOK, LockTypeOK, InHand
<1> QED BY <1>1, <1>2, ConsumerTyped DEF Next

(* The variables of stream, store, lock and consumers keep their types for *)
(* any number of alerts, hosts, consumers and faults.                      *)
THEOREM TypeCorrect == Spec => []TypeOK
<1>1. TypeInv => TypeOK
  BY DEF TypeInv
<1> QED BY <1>1, TypeInit, TypeStep, PTL DEF Spec

-----------------------------------------------------------------------------
(* Distinct roots.                                                         *)

(* The deployment runs one consumer.                                       *)
OneConsumer == \A c, d \in Consumers : c = d

(* The alerts the quick filter takes for related.                          *)
Related(a, b) == Apart(StampOf[a], StampOf[b]) <= TimeWindow /\ SameHost(a, b)

LEMMA RelatedIs ==
  ASSUME NEW a \in Alerts, NEW b \in Alerts
  PROVE  /\ QuickFilter(a, b) = "definitely_related" <=> Related(a, b)
         /\ Related(a, b) <=> Related(b, a)
<1>1. StampOf[a] \in Nat /\ StampOf[b] \in Nat /\ TimeWindow \in Nat
  BY CorrelatorAssumption
<1> QED BY <1>1 DEF QuickFilter, Related, SameHost, Apart

(* g keeps apart from every visible group but itself.                      *)
KeepsApart(g) == \A h \in Visible : h # g => ~Related(g, h)

(* What the consumer knows of the visible groups at each await; what it    *)
(* has read may be gone since, but nothing can have been added.            *)
Knows(c) ==
  /\ at[c] \in {"fetch", "forget"} => Visible \subseteq todo[c]
  /\ at[c] = "fetch" => \A g \in todo[c] : ttl[g] > 0 => KeepsApart(g)
  /\ at[c] = "forget" => dead[c] \cap Visible = {}
  /\ at[c] \in {"forget", "judge"} => \A g \in todo[c] : KeepsApart(g)
  /\ at[c] = "judge" => \A h \in Visible \ todo[c] : ~Related(msg[c], h)
  /\ at[c] = "save" => KeepsApart(answer[c])

RootInv ==
  /\ TypeInv
  /\ \A g \in Visible : KeepsApart(g)
  /\ \A c \in Consumers : Knows(c)

(* With fewer visible groups, what was known still holds.                  *)
LEMMA FewerVisible ==
  ASSUME RootInv, Visible' \subseteq Visible, UNCHANGED mind,
         \A g \in Alerts : ttl'[g] > 0 => ttl[g] > 0
  PROVE  (\A g \in Visible : KeepsApart(g))' /\ \A c \in Consumers : Knows(c)'
  BY DEF RootInv, TypeInv, TypeOK, Knows, KeepsApart, mind

LEMMA RootStep ==
  ASSUME OneConsumer, RootInv, [Next]_vars
  PROVE  RootInv'
<1>1. TypeInv'
  BY TypeStep DEF RootInv
<1>2. ASSUME NEW c \in Consumers, Consumer(c) \/ AcquireFails(c) \/ CorrelateRaises(c) \/ Crash(c)
      PROVE  (\A g \in Visible : KeepsApart(g))' /\ Knows(c)'
  <2> USE DEF RootInv, TypeInv, TypeOK, InHand, Goto, Reset
  <2>1. CASE UNCHANGED store /\ at'[c] \notin {"fetch", "forget", "judge", "save"}
    BY <2>1 DEF store, Visible, KeepsApart, Knows
  <2>2. CASE Reclaim(c) \/ ReadNext(c) \/ Acquire(c) \/ GiveUp(c) \/ AcquireFails(c)
             \/ Release(c) \/ Conclude(c) \/ Crash(c)
    <3>1. UNCHANGED store
      BY <2>2 DEF Reclaim, ReadNext, Take, Acquire, GiveUp, AcquireFails, Release, Conclude,
                  Crash
    <3>2. at'[c] \in {"poll", "lock", "members", "conclude"}
      BY <2>2 DEF Reclaim, ReadNext, Take, Acquire, GiveUp, AcquireFails, Release, Conclude,
                  Crash
    <3> QED BY <2>1, <3>1, <3>2
  <2>9. CASE CorrelateRaises(c)
    <3>1. ttl' = ttl /\ index' \subseteq index /\ at'[c] = "release"
      BY <2>9 DEF CorrelateRaises, Unlist
    <3>2. Visible' \subseteq Visible
      BY <3>1 DEF Visible
    <3> QED BY <3>1, <3>2 DEF KeepsApart, Knows
  <2>3. CASE Members(c)
    <3>1. UNCHANGED store /\ at'[c] = "fetch" /\ todo'[c] = index
      BY <2>3 DEF Members
    <3> QED BY <3>1 DEF store, Visible, KeepsApart, Knows
  <2>4. CASE Fetch(c)
    <3>1. /\ UNCHANGED store /\ at[c] = "fetch" /\ at'[c] = "forget"
          /\ todo'[c] = {g \in todo[c] : ttl[g] > 0} /\ dead'[c] = {g \in todo[c] : ttl[g] = 0}
      BY <2>4 DEF Fetch
    <3>2. Visible' = Visible /\ Visible \subseteq todo[c]
      BY <3>1 DEF store, Visible, Knows
    <3>3. \A g \in todo'[c] : KeepsApart(g)
      BY <3>1 DEF Knows
    <3>4. Visible \subseteq todo'[c] /\ dead'[c] \cap Visible = {}
      BY <3>1, <3>2 DEF Visible
    <3> QED BY <3>1, <3>2, <3>3, <3>4 DEF KeepsApart, Knows
  <2>5. CASE Forget(c)
    <3>1. /\ at[c] = "forget" /\ at'[c] = "judge" /\ todo' = todo /\ msg' = msg
          /\ ttl' = ttl /\ index' \subseteq index
      BY <2>5 DEF Forget, Unlist
    <3>2. Visible' \subseteq Visible
      BY <3>1 DEF Visible
    <3> QED BY <3>1, <3>2 DEF KeepsApart, Knows
  <2>6. CASE Judge(c)
    <3>1. UNCHANGED store /\ at[c] = "judge" /\ msg' = msg
      BY <2>6 DEF Judge
    <3>2. Visible' = Visible
      BY <3>1 DEF store, Visible
    <3>3. PICK g \in todo[c] : \/ QuickFilter(msg[c], g) # "definitely_not" /\ Join(c, g)
                               \/ QuickFilter(msg[c], g) # "definitely_related" /\ Skip(c, g)
      BY <2>6 DEF Judge
    <3>4. CASE Join(c, g)
      BY <3>1, <3>2, <3>4 DEF Join, KeepsApart, Knows
    <3>5. CASE QuickFilter(msg[c], g) # "definitely_related" /\ Skip(c, g)
      <4>1. ~Related(msg[c], g)
        BY <3>1, <3>5, RelatedIs
      <4> QED BY <3>1, <3>2, <3>5, <4>1 DEF Skip, KeepsApart, Knows
    <3> QED BY <3>3, <3>4, <3>5
  <2>7. CASE NewGroup(c)
    <3>1. /\ UNCHANGED store /\ at[c] = "judge" /\ todo[c] = {}
          /\ at'[c] = "save" /\ answer'[c] = msg[c]
      BY <2>7 DEF NewGroup
    <3> QED BY <3>1 DEF store, Visible, KeepsApart, Knows
  <2>8. CASE Save(c)
    <3>1. /\ at[c] = "save" /\ at'[c] = "release" /\ answer[c] \in Alerts
          /\ index' \subseteq index \cup {answer[c]}
          /\ \A g \in Alerts : g # answer[c] => ttl'[g] = ttl[g]
      BY <2>8 DEF Save, SetGroup, AddToIndex, store
    <3>2. Visible' \subseteq Visible \cup {answer[c]} /\ Visible \subseteq Alerts
      BY <3>1 DEF Visible
    <3>3. KeepsApart(answer[c]) /\ \A g \in Visible : KeepsApart(g)
      BY <3>1 DEF Knows
    <3>4. \A g, h \in Visible' : h # g => ~Related(g, h)
      BY <3>1, <3>2, <3>3, RelatedIs DEF KeepsApart
    <3> QED BY <3>1, <3>4 DEF KeepsApart, Knows
  <2> QED
    BY <1>2, <2>2, <2>3, <2>4, <2>5, <2>6, <2>7, <2>8, <2>9 DEF Consumer
<1>3. CASE Tick
  <2>1. Visible' \subseteq Visible
    BY <1>3 DEF Tick, Less, Visible, RootInv, TypeInv, TypeOK
  <2>2. \A g \in Alerts : ttl'[g] > 0 => ttl[g] > 0
    BY <1>3 DEF Tick, Less, RootInv, TypeInv, TypeOK
  <2> QED BY <1>1, <1>3, <2>1, <2>2, FewerVisible DEF Tick, RootInv
<1>4. CASE UNCHANGED vars
  BY <1>1, <1>4, FewerVisible DEF vars, store, Visible, RootInv
<1> QED BY <1>1, <1>2, <1>3, <1>4 DEF Next, OneConsumer, RootInv

(* With one consumer, two visible groups never have roots that the quick   *)
(* filter takes for related, whatever expires, fails or is redelivered     *)
(* between two of its awaits.                                              *)
THEOREM RootsStayDistinct ==
  ASSUME OneConsumer
  PROVE  Spec => []RootsAreDistinct
<1>1. Init => RootInv
  BY TypeInit DEF Init, RootInv, Visible, KeepsApart, Knows
<1>2. RootInv /\ [Next]_vars => RootInv'
  BY RootStep
<1>3. RootInv => RootsAreDistinct
  BY RelatedIs DEF RootInv, TypeInv, TypeOK, RootsAreDistinct, Visible, KeepsApart
<1> QED BY <1>1, <1>2, <1>3, PTL DEF Spec

-----------------------------------------------------------------------------
(* The cost of rings.                                                      *)

(* Groups that an alert may be suppressed under, or was.                   *)
Known(g) ==
  \/ ttl[g] > 0 \/ g \in index
  \/ \E c \in Consumers : g \in todo[c] \/ answer[c] = g
  \/ \E a \in Alerts : under[a] = g

(* A consumer is about to start the workflow of g.                         *)
Promised(g) ==
  \E c \in Consumers :
    at[c] \in {"save", "release", "conclude"} /\ msg[c] = g /\ answer[c] = g

(* Roots without a workflow and with nobody about to start it: each has    *)
(* taken a fault.                                                          *)
Broken == {g \in Alerts : Known(g) /\ g \notin started /\ ~Promised(g)}

RingInv == TypeInv /\ IsFiniteSet(Broken) /\ Cardinality(Broken) <= faults

(* What leaves the roots without a workflow as they are, or fewer, and     *)
(* what breaks a promise, are the two ways a step may go.                  *)
LEMMA BrokenStep ==
  ASSUME RingInv, NEW x,
         \/ Broken' \subseteq Broken /\ (faults' = faults \/ Fault)
         \/ Broken' \subseteq Broken \cup {x} /\ Fault
  PROVE  IsFiniteSet(Broken') /\ Cardinality(Broken') <= faults'
<1>1. /\ IsFiniteSet(Broken) /\ Cardinality(Broken) \in Nat
      /\ Cardinality(Broken) <= faults /\ faults \in Nat
  BY FS_CardinalityType DEF RingInv, TypeInv, TypeOK
<1>2. CASE Broken' \subseteq Broken /\ (faults' = faults \/ Fault)
  <2>1. IsFiniteSet(Broken') /\ Cardinality(Broken') <= Cardinality(Broken)
    BY <1>1, <1>2, FS_Subset
  <2>2. Cardinality(Broken') \in Nat
    BY <2>1, FS_CardinalityType
  <2>3. faults' = faults \/ faults' = faults + 1
    BY <1>2 DEF Fault
  <2> QED BY <1>1, <2>1, <2>2, <2>3
<1>3. CASE Broken' \subseteq Broken \cup {x} /\ Fault
  <2>1. /\ IsFiniteSet(Broken \cup {x})
        /\ Cardinality(Broken \cup {x})
             = IF x \in Broken THEN Cardinality(Broken) ELSE Cardinality(Broken) + 1
    BY <1>1, FS_AddElement
  <2>2. IsFiniteSet(Broken') /\ Cardinality(Broken') <= Cardinality(Broken \cup {x})
    BY <1>3, <2>1, FS_Subset
  <2>3. Cardinality(Broken') \in Nat /\ faults' = faults + 1
    BY <1>3, <2>2, FS_CardinalityType DEF Fault
  <2> QED BY <1>1, <2>1, <2>2, <2>3
<1> QED BY <1>2, <1>3

(* Nothing is known that was not, and no promise is given up but to x, or  *)
(* by starting the workflow.                                               *)
LEMMA BrokenIs ==
  ASSUME TypeInv, NEW x,
         \A g \in Alerts : g # x /\ g \notin started' /\ Known(g)' => Known(g) \/ Promised(g)',
         \A g \in Alerts : g # x /\ g \notin started' /\ Promised(g) => Promised(g)',
         started \subseteq started'
  PROVE  Broken' \subseteq Broken \cup {x}
  BY DEF Broken

(* What a consumer knows and has promised, and what it may come to.        *)
LEMMA KnownIs ==
  ASSUME NEW c \in Consumers, NEW g \in Alerts,
         \A d \in Consumers : d # c => todo'[d] = todo[d] /\ answer'[d] = answer[d],
         g \in todo'[c] => Known(g), answer'[c] = g => Known(g) \/ Promised(g)',
         ttl'[g] > 0 => Known(g), g \in index' => Known(g),
         \A a \in Alerts : under'[a] = g => Known(g)
  PROVE  Known(g)' => Known(g) \/ Promised(g)'
  BY DEF Known

LEMMA PromisedIs ==
  ASSUME NEW c \in Consumers, NEW g \in Alerts,
         \A d \in Consumers : d # c => at'[d] = at[d] /\ msg'[d] = msg[d] /\ answer'[d] = answer[d],
         at[c] \in {"save", "release", "conclude"} /\ msg[c] = g /\ answer[c] = g
           => at'[c] \in {"save", "release", "conclude"} /\ msg'[c] = g /\ answer'[c] = g
  PROVE  Promised(g) => Promised(g)'
  BY DEF Promised

LEMMA RingStep == RingInv /\ [Next]_vars => RingInv'
<1> SUFFICES ASSUME RingInv, [Next]_vars PROVE RingInv'
  OBVIOUS
<1>1. TypeInv /\ TypeInv'
  BY TypeStep DEF RingInv
<1>2. SUFFICES \/ Broken' \subseteq Broken /\ (faults' = faults \/ Fault)
               \/ \E x : Broken' \subseteq Broken \cup {x} /\ Fault
  BY <1>1, BrokenStep DEF RingInv
<1>3. ASSUME NEW c \in Consumers, Consumer(c) \/ AcquireFails(c) \/ CorrelateRaises(c) \/ Crash(c)
      PROVE  \/ Broken' \subseteq Broken /\ (faults' = faults \/ Fault)
             \/ \E x : Broken' \subseteq Broken \cup {x} /\ Fault
  <2> DEFINE Late == {"save", "release", "conclude"}
  <2> USE CorrelatorAssumption DEF TypeInv, TypeOK, InHand, Goto, Reset
  <2>1. ASSUME NEW x,
               \A d \in Consumers : d # c => /\ at'[d] = at[d] /\ msg'[d] = msg[d]
                                             /\ todo'[d] = todo[d] /\ answer'[d] = answer[d],
               \A g \in Alerts : /\ g \in todo'[c] => Known(g)
                                 /\ answer'[c] = g => Known(g) \/ Promised(g)'
                                 /\ ttl'[g] > 0 => Known(g)
                                 /\ g \in index' => Known(g)
                                 /\ \A a \in Alerts : under'[a] = g => Known(g),
               \A g \in Alerts : g # x /\ g \notin started' /\ at[c] \in Late /\ msg[c] = g /\ answer[c] = g
                                   => at'[c] \in Late /\ msg'[c] = g /\ answer'[c] = g,
               started \subseteq started'
        PROVE  Broken' \subseteq Broken \cup {x}
    <3>1. \A g \in Alerts : Known(g)' => Known(g) \/ Promised(g)'
      BY <2>1, KnownIs
    <3>2. \A g \in Alerts : g # x /\ g \notin started' /\ Promised(g) => Promised(g)'
      BY <2>1, PromisedIs
    <3> QED BY <1>1, <2>1, <3>1, <3>2, BrokenIs
  <2>2. Broken' \subseteq Broken \cup {NoAlert} => Broken' \subseteq Broken
    BY DEF Broken
  <2>3. \A d \in Consumers : d # c => /\ at'[d] = at[d] /\ msg'[d] = msg[d]
                                      /\ todo'[d] = todo[d] /\ answer'[d] = answer[d]
    BY <1>1, <1>3 DEF Consumer, Reclaim, ReadNext, Take, Acquire, GiveUp, AcquireFails, Members,
                      Fetch, Forget, Judge, Join, Skip, NewGroup, Save, Release, Conclude,
                      CorrelateRaises, Crash
  <2>4. CASE Reclaim(c) \/ ReadNext(c) \/ Acquire(c) \/ GiveUp(c)
    <3>1. /\ UNCHANGED <<todo, answer, store, done, faults>> /\ at[c] \notin Late
      BY <2>4 DEF Reclaim, ReadNext, Take, Acquire, GiveUp
    <3> QED BY <1>1, <2>1, <2>2, <2>3, <3>1 DEF Known, store, done
  <2>5. CASE AcquireFails(c)
    <3>1. /\ UNCHANGED <<store, done>> /\ Fault /\ at[c] \notin Late
          /\ todo'[c] = {} /\ answer'[c] = NoAlert
      BY <1>1, <2>5 DEF AcquireFails
    <3> QED BY <1>1, <2>1, <2>2, <2>3, <3>1 DEF Known, store, done
  <2>6. CASE Members(c) \/ Fetch(c) \/ Forget(c)
    <3>1. /\ UNCHANGED <<answer, ttl, done, faults>> /\ at[c] \notin Late
          /\ index' \subseteq index
          /\ todo'[c] \subseteq todo[c] \/ todo'[c] \subseteq index
      BY <1>1, <2>6 DEF Members, Fetch, Forget, Unlist, store
    <3> QED BY <1>1, <2>1, <2>2, <2>3, <3>1 DEF Known, done
  <2>7. CASE Judge(c)
    <3>1. /\ UNCHANGED <<store, done, faults>> /\ at[c] \notin Late
          /\ todo'[c] \subseteq todo[c] /\ answer'[c] \in todo[c] \cup {answer[c]}
      BY <1>1, <2>7 DEF Judge, Join, Skip
    <3> QED BY <1>1, <2>1, <2>2, <2>3, <3>1 DEF Known, store, done
  <2>8. CASE NewGroup(c)
    <3>1. /\ UNCHANGED <<todo, store, done, faults>> /\ at[c] \notin Late
          /\ answer'[c] = msg'[c] /\ at'[c] = "save"
      BY <1>1, <2>8 DEF NewGroup
    <3>2. \A g \in Alerts : answer'[c] = g => Promised(g)'
      BY <3>1 DEF Promised
    <3> QED BY <1>1, <2>1, <2>2, <2>3, <3>1, <3>2 DEF Known, store, done
  <2>9. CASE Save(c)
    <3>1. /\ UNCHANGED <<todo, msg, done>> /\ at'[c] = "release" /\ answer[c] \in Alerts
          /\ \A g \in Alerts : g # answer[c] => ttl'[g] = ttl[g]
          /\ index' \subseteq index \cup {answer[c]}
          /\ \/ answer'[c] = answer[c] /\ faults' = faults
             \/ answer'[c] = NoAlert /\ Fault
      BY <1>1, <2>9 DEF Save, SetGroup, AddToIndex, store
    <3>2. \A g \in Alerts : /\ ttl'[g] > 0 => Known(g)
                            /\ g \in index' => Known(g)
                            /\ answer'[c] = g => Known(g)
                            /\ g \in todo'[c] => Known(g)
                            /\ \A a \in Alerts : under'[a] = g => Known(g)
      BY <1>1, <3>1 DEF Known, done
    <3>3. CASE answer'[c] = answer[c] /\ faults' = faults
      BY <1>1, <2>1, <2>2, <2>3, <3>1, <3>2, <3>3 DEF done
    <3>4. CASE answer'[c] = NoAlert /\ Fault
      BY <1>1, <2>1, <2>3, <3>1, <3>2, <3>4 DEF done
    <3> QED BY <3>1, <3>3, <3>4
  <2>10. CASE Release(c)
    <3>1. /\ UNCHANGED <<todo, store, msg, done>> /\ at'[c] = "conclude"
          /\ \/ answer'[c] = answer[c] /\ faults' = faults
             \/ answer'[c] = NoAlert /\ Fault
      BY <1>1, <2>10 DEF Release
    <3>2. CASE answer'[c] = answer[c] /\ faults' = faults
      BY <1>1, <2>1, <2>2, <2>3, <3>1, <3>2 DEF Known, store, done
    <3>3. CASE answer'[c] = NoAlert /\ Fault
      <4>1. \A g \in Alerts : /\ ttl'[g] > 0 => Known(g)
                              /\ g \in index' => Known(g)
                              /\ g \in todo'[c] => Known(g)
                              /\ answer'[c] # g
                              /\ \A a \in Alerts : under'[a] = g => Known(g)
        BY <1>1, <3>1, <3>3 DEF Known, store, done
      <4>2. started \subseteq started'
        BY <3>1 DEF done
      <4>3. Broken' \subseteq Broken \cup {answer[c]}
        BY <2>1, <2>3, <4>1, <4>2
      <4> QED BY <3>3, <4>3
    <3> QED BY <3>1, <3>2, <3>3
  <2>11. CASE Conclude(c)
    <3>1. /\ UNCHANGED store /\ at[c] = "conclude" /\ answer'[c] = NoAlert /\ todo'[c] = {}
          /\ started \subseteq started'
          /\ \A a \in Alerts : under'[a] \in {under[a], answer[c]}
          /\ faults' = faults \/ Fault
      <4>1. /\ UNCHANGED store /\ at[c] = "conclude" /\ answer'[c] = NoAlert /\ todo'[c] = {}
        BY <1>1, <2>11 DEF Conclude
      <4>2. UNCHANGED done \/ Suppress(c) \/ StartWorkflow(c)
        BY <2>11 DEF Conclude
      <4>3. faults' = faults \/ Fault
        BY <2>11 DEF Conclude
      <4>4. started \subseteq started' /\ \A a \in Alerts : under'[a] \in {under[a], answer[c]}
        BY <1>1, <4>2 DEF Suppress, StartWorkflow, done
      <4> QED BY <4>1, <4>3, <4>4
    <3>2. \A g \in Alerts : /\ ttl'[g] > 0 => Known(g)
                            /\ g \in index' => Known(g)
                            /\ answer'[c] # g /\ g \notin todo'[c]
                            /\ \A a \in Alerts : under'[a] = g => Known(g)
      BY <1>1, <3>1 DEF Known, store
    <3>3. CASE answer[c] # msg[c] \/ msg[c] \in started'
      <4>1. \A g \in Alerts : g \notin started' => ~(msg[c] = g /\ answer[c] = g)
        BY <3>3
      <4>2. Broken' \subseteq Broken \cup {NoAlert}
        BY <2>1, <2>3, <3>1, <3>2, <4>1
      <4> QED BY <2>2, <3>1, <4>2
    <3>4. CASE Fault
      <4>1. Broken' \subseteq Broken \cup {msg[c]}
        BY <1>1, <2>1, <2>3, <3>1, <3>2, <3>4
      <4> QED BY <3>4, <4>1
    <3>5. answer[c] # msg[c] \/ msg[c] \in started' \/ Fault
      BY <1>1, <2>11 DEF Conclude, Suppress, StartWorkflow
    <3> QED BY <3>3, <3>4, <3>5
  <2>13. CASE CorrelateRaises(c)
    <3>1. /\ UNCHANGED <<ttl, answer, done>> /\ Fault /\ at[c] \notin Late
          /\ todo'[c] = {} /\ index' \subseteq index
      BY <1>1, <2>13 DEF CorrelateRaises, Unlist
    <3> QED BY <1>1, <2>1, <2>2, <2>3, <3>1 DEF Known, done
  <2>12. CASE Crash(c)
    <3>1. /\ UNCHANGED <<store, done>> /\ Fault /\ answer'[c] = NoAlert /\ todo'[c] = {}
      BY <1>1, <2>12 DEF Crash
    <3>2. Broken' \subseteq Broken \cup {msg[c]}
      BY <1>1, <2>1, <2>3, <3>1 DEF Known, store, done
    <3> QED BY <3>1, <3>2
  <2> QED
    BY <1>3, <2>4, <2>5, <2>6, <2>7, <2>8, <2>9, <2>10, <2>11, <2>12, <2>13 DEF Consumer
<1>4. CASE Tick \/ UNCHANGED vars
  <2>1. /\ UNCHANGED <<at, msg, todo, answer, done, faults>> /\ index' \subseteq index
        /\ \A g \in Alerts : ttl'[g] > 0 => ttl[g] > 0
    BY <1>1, <1>4 DEF Tick, Less, vars, store, mind, TypeInv, TypeOK
  <2>2. Broken' \subseteq Broken
    BY <2>1 DEF Broken, Known, Promised, done
  <2> QED BY <2>1, <2>2
<1> QED BY <1>3, <1>4 DEF Next

(* Alerts suppressed in a ring, with no workflow for any of them, have     *)
(* taken a fault for each that served as a root, with any number of        *)
(* consumers, groups that expire and redelivered alerts: once a group is   *)
(* saved, only a failure keeps its own alert from being started.           *)
THEOREM RingsAreRare == Spec => []RingsCostFaults
<1>1. Init => RingInv
  <2> SUFFICES ASSUME Init PROVE RingInv
    OBVIOUS
  <2>1. Broken = {} /\ faults = 0
    BY CorrelatorAssumption DEF Init, Broken, Known
  <2> QED BY <2>1, TypeInit, FS_EmptySet DEF RingInv
<1>2. RingInv => RingsCostFaults
  <2> SUFFICES ASSUME RingInv, NEW S \in SUBSET Alerts,
                      \A a \in S : under[a] \in S /\ Lost(a)
               PROVE  faults >= Cardinality({under[a] : a \in S})
    BY DEF RingsCostFaults
  <2> DEFINE roots == {under[a] : a \in S}
  <2>1. roots \in SUBSET Broken
    BY DEF Broken, Known, Promised, Lost
  <2>2. /\ IsFiniteSet(roots) /\ Cardinality(roots) <= Cardinality(Broken)
        /\ Cardinality(Broken) <= faults
    BY <2>1, FS_Subset DEF RingInv
  <2>3. Cardinality(roots) \in Nat /\ Cardinality(Broken) \in Nat /\ faults \in Nat
    BY <2>2, FS_CardinalityType DEF RingInv, TypeInv, TypeOK
  <2> HIDE DEF roots
  <2>4. faults >= Cardinality(roots)
    BY <2>2, <2>3
  <2> QED BY <2>4 DEF roots
<1> QED BY <1>1, <1>2, RingStep, PTL DEF Spec
=============================================================================
