---------------------------- MODULE AlertCorrelator ----------------------------
(***************************************************************************)
(* The correlator: src/correlator/correlate.py with its per-host lock, the *)
(* group store src/correlator/groups.py, the quick filter and the LLM      *)
(* judgement, and around it what the consumer does with its answer: a root *)
(* gets a workflow, a derived alert is acknowledged and suppressed.        *)
(*                                                                         *)
(* One action per await, for any number of consumers; the deployment runs  *)
(* one, the lock is there for more.  Time is counted in ticks.  A call     *)
(* that raises, with or without effect, and a crash use up a fault.        *)
(*                                                                         *)
(* The derived alerts of a group are left out: they are read only for the  *)
(* LLM prompt, and the LLM's answer, cached or an error, is a choice.      *)
(***************************************************************************)
EXTENDS ActionMutex, FiniteSets

CONSTANTS
  Alerts,      \* alerts in the stream
  Consumers,   \* consumer loops
  IpOf,        \* IpOf[a]: host_ip of a, the target of the lock
  Hostnames,   \* host names
  NameOf,      \* NameOf[a]: hostname of a
  StampOf,     \* StampOf[a]: timestamp of a
  TimeWindow,  \* _TIME_WINDOW                            (code: 30 s)
  Akin,        \* pairs {a, b} of one /16 subnet or with one first word
  GroupTTL,    \* correlator_window_sec                   (code: 30 s)
  LockTTL,     \* ttl of the correlation lock             (code: 60 s)
  MinIdle,     \* min_idle_ms of XAUTOCLAIM               (code: 60 s)
  MaxFaults,   \* bound: calls that raise, and crashes
  NoAlert      \* no message, or no answer of correlate()

ASSUME CorrelatorAssumption ==
  /\ IpOf \in [Alerts -> Targets] /\ NameOf \in [Alerts -> Hostnames]
  /\ StampOf \in [Alerts -> Nat]
  /\ TimeWindow \in Nat /\ GroupTTL \in Nat \ {0}
  /\ LockTTL \in Nat \ {0} /\ MinIdle \in Nat /\ MaxFaults \in Nat
  /\ NoToken \notin Consumers /\ NoAlert \notin Alerts

VARIABLES
  waiting,   \* alerts not delivered yet
  pel,       \* delivered and not acknowledged
  idle,      \* idle[a]: ticks since a was last delivered, at most MinIdle
  ttl,       \* ttl[g]: TTL of correlator:group:<g>, 0 when there is none
  index,     \* the set correlator:groups:active
  indexTTL,  \* its TTL, 0 when it does not expire
  at,        \* at[c]: where consumer c is
  msg,       \* msg[c]: the alert it handles
  token,     \* token[c]: lock_token
  todo,      \* todo[c]: groups read and still to be compared
  dead,      \* dead[c]: ids of the index whose group was gone
  answer,    \* answer[c]: root of the group correlate() will return
  started,   \* alerts whose workflow was started
  under,     \* under[a]: the root a was suppressed under
  faults     \* calls that raised, and crashes, so far

queue == <<waiting, pel, idle>>
store == <<ttl, index, indexTTL>>
mind  == <<at, msg, token, todo, dead, answer>>
done  == <<started, under>>
vars  == <<lock, queue, store, mind, done, faults>>

TypeOK ==
  /\ LockTypeOK(Consumers)
  /\ waiting \subseteq Alerts /\ pel \subseteq Alerts \ waiting
  /\ idle \in [Alerts -> 0..MinIdle]
  /\ ttl \in [Alerts -> 0..GroupTTL]
  /\ index \subseteq Alerts /\ indexTTL \in 0..GroupTTL
  /\ at \in [Consumers -> {"poll", "lock", "members", "fetch", "forget", "judge",
                            "save", "release", "conclude"}]
  /\ msg \in [Consumers -> Alerts \cup {NoAlert}]
  /\ token \in [Consumers -> Consumers \cup {NoToken}]
  /\ todo \in [Consumers -> SUBSET Alerts]
  /\ dead \in [Consumers -> SUBSET Alerts]
  /\ answer \in [Consumers -> Alerts \cup {NoAlert}]
  /\ started \subseteq Alerts
  /\ under \in [Alerts -> Alerts \cup {NoAlert}]
  /\ faults \in 0..MaxFaults

Init ==
  /\ LockInit
  /\ waiting = Alerts /\ pel = {} /\ idle = [a \in Alerts |-> 0]
  /\ ttl = [g \in Alerts |-> 0] /\ index = {} /\ indexTTL = 0
  /\ at = [c \in Consumers |-> "poll"]
  /\ msg = [c \in Consumers |-> NoAlert]
  /\ token = [c \in Consumers |-> NoToken]
  /\ todo = [c \in Consumers |-> {}] /\ dead = [c \in Consumers |-> {}]
  /\ answer = [c \in Consumers |-> NoAlert]
  /\ started = {} /\ under = [a \in Alerts |-> NoAlert]
  /\ faults = 0

Fault == faults < MaxFaults /\ faults' = faults + 1

Goto(c, stage) == at' = [at EXCEPT ![c] = stage]

(* The handler of c ends: its local variables are gone. *)
Reset(c) ==
  /\ Goto(c, "poll")
  /\ msg' = [msg EXCEPT ![c] = NoAlert] /\ token' = [token EXCEPT ![c] = NoToken]
  /\ todo' = [todo EXCEPT ![c] = {}] /\ dead' = [dead EXCEPT ![c] = {}]
  /\ answer' = [answer EXCEPT ![c] = NoAlert]

-----------------------------------------------------------------------------
(* The loop: a stale pending message first, then a new one.                *)

Take(c, a) ==
  /\ at[c] = "poll"
  /\ pel' = pel \cup {a} /\ idle' = [idle EXCEPT ![a] = 0]
  /\ msg' = [msg EXCEPT ![c] = a] /\ Goto(c, "lock")
  /\ UNCHANGED <<lock, store, token, todo, dead, answer, done, faults>>

Stale == {a \in pel : idle[a] >= MinIdle}

(* Mutant: what a crashed consumer left behind is never read again.        *)
NeverReclaim(c) == FALSE

Reclaim(c)  == \E a \in Stale : Take(c, a) /\ UNCHANGED waiting
ReadNext(c) == Stale = {} /\ \E a \in waiting : Take(c, a) /\ waiting' = waiting \ {a}

-----------------------------------------------------------------------------
(* _acquire_correlation_lock: twenty attempts, and then without the lock.  *)
(* An attempt that finds the lock taken changes nothing.                   *)

Acquire(c) ==
  /\ at[c] = "lock" /\ IsFree(IpOf[msg[c]])
  /\ AcquireActionMutex(IpOf[msg[c]], c, LockTTL)
  /\ token' = [token EXCEPT ![c] = c] /\ Goto(c, "members")
  /\ UNCHANGED <<queue, store, msg, todo, dead, answer, done, faults>>

GiveUp(c) ==
  /\ at[c] = "lock" /\ ~IsFree(IpOf[msg[c]])
  /\ Goto(c, "members")
  /\ UNCHANGED <<lock, queue, store, msg, token, todo, dead, answer, done, faults>>

(* The SET raises: correlate() has not entered its try yet.                *)
AcquireFails(c) ==
  /\ at[c] = "lock" /\ Fault
  /\ \/ UNCHANGED lock
     \/ AcquireActionMutex(IpOf[msg[c]], c, LockTTL)
  /\ Reset(c)
  /\ UNCHANGED <<queue, store, done>>

-----------------------------------------------------------------------------
(* active_groups: SMEMBERS, the GETs, SREM of the ids without a group.     *)

Members(c) ==
  /\ at[c] = "members"
  /\ todo' = [todo EXCEPT ![c] = index] /\ Goto(c, "fetch")
  /\ UNCHANGED <<lock, queue, store, msg, token, dead, answer, done, faults>>

Fetch(c) ==
  /\ at[c] = "fetch"
  /\ todo' = [todo EXCEPT ![c] = {g \in @ : ttl[g] > 0}]
  /\ dead' = [dead EXCEPT ![c] = {g \in todo[c] : ttl[g] = 0}]
  /\ Goto(c, "forget")
  /\ UNCHANGED <<lock, queue, store, msg, token, answer, done, faults>>

Unlist(S) == index' = index \ S /\ indexTTL' = IF index' = {} THEN 0 ELSE indexTTL

Forget(c) ==
  /\ at[c] = "forget"
  /\ Unlist(dead[c])
  /\ dead' = [dead EXCEPT ![c] = {}] /\ Goto(c, "judge")
  /\ UNCHANGED <<lock, queue, ttl, msg, token, todo, answer, done, faults>>

-----------------------------------------------------------------------------
(* _correlate_locked, the loop over the groups in the order of the set.    *)

Apart(m, n) == IF m >= n THEN m - n ELSE n - m

SameHost(a, g) == IpOf[a] = IpOf[g] \/ NameOf[a] = NameOf[g]

(* quick_filter *)
QuickFilter(a, g) ==
  IF Apart(StampOf[a], StampOf[g]) > TimeWindow THEN "definitely_not"
  ELSE IF SameHost(a, g) THEN "definitely_related"
  ELSE IF {a, g} \in Akin THEN "uncertain" ELSE "definitely_not"

Join(c, g) ==
  /\ answer' = [answer EXCEPT ![c] = g]
  /\ todo' = [todo EXCEPT ![c] = {}] /\ Goto(c, "save")

(* Mutant: the first group that is not related ends the loop.              *)
SkipAll(c, g) == todo' = [todo EXCEPT ![c] = {}] /\ UNCHANGED <<at, answer>>

Skip(c, g) == todo' = [todo EXCEPT ![c] = @ \ {g}] /\ UNCHANGED <<at, answer>>

Judge(c) ==
  /\ at[c] = "judge"
  /\ \E g \in todo[c] :
       LET verdict == QuickFilter(msg[c], g) IN
       \/ verdict # "definitely_not" /\ Join(c, g)
       \/ verdict # "definitely_related" /\ Skip(c, g)
  /\ UNCHANGED <<lock, queue, store, msg, token, dead, done, faults>>

NewGroup(c) ==
  /\ at[c] = "judge" /\ todo[c] = {}
  /\ answer' = [answer EXCEPT ![c] = msg[c]] /\ Goto(c, "save")
  /\ UNCHANGED <<lock, queue, store, msg, token, todo, dead, done, faults>>

(* _correlate_locked raises, or is cancelled at an await: the finally      *)
(* clause of correlate() is next.  Some of the SREMs may have been done.   *)
CorrelateRaises(c) ==
  /\ at[c] \in {"members", "fetch", "forget", "judge"} /\ Fault
  /\ \E S \in SUBSET dead[c] : Unlist(S)
  /\ todo' = [todo EXCEPT ![c] = {}] /\ dead' = [dead EXCEPT ![c] = {}]
  /\ Goto(c, "release")
  /\ UNCHANGED <<lock, queue, ttl, msg, token, answer, done>>

(* GroupStore.save, a pipeline without a transaction: SET of the group, a  *)
(* new life for it, SADD to the index, EXPIRE of the index.  It may break  *)
(* off after each of them; an index that SADD made does not expire.        *)
(* Mutant: each save adds to what the group has left to live.              *)
SetGroupLonger(g) == ttl' = [ttl EXCEPT ![g] = @ + GroupTTL]

SetGroup(g) == ttl' = [ttl EXCEPT ![g] = GroupTTL]
AddToIndex(g) == index' = index \cup {g}
ExpireIndex == indexTTL' = GroupTTL

Save(c) ==
  /\ at[c] = "save"
  /\ \/ /\ SetGroup(answer[c]) /\ AddToIndex(answer[c]) /\ ExpireIndex
        /\ UNCHANGED <<answer, faults>>
     \/ /\ Fault /\ answer' = [answer EXCEPT ![c] = NoAlert]
        /\ \/ UNCHANGED store
           \/ SetGroup(answer[c]) /\ UNCHANGED <<index, indexTTL>>
           \/ SetGroup(answer[c]) /\ AddToIndex(answer[c]) /\ (ExpireIndex \/ UNCHANGED indexTTL)
  /\ Goto(c, "release")
  /\ UNCHANGED <<lock, queue, msg, token, todo, dead, done>>

(* finally: an exception here replaces the answer.                         *)
Release(c) ==
  /\ at[c] = "release"
  /\ IF token[c] = NoToken THEN UNCHANGED <<lock, answer, faults>>
     ELSE \/ ReleaseActionMutex(IpOf[msg[c]], token[c]) /\ UNCHANGED <<answer, faults>>
          \/ /\ Fault /\ answer' = [answer EXCEPT ![c] = NoAlert]
             /\ UNCHANGED lock \/ ReleaseActionMutex(IpOf[msg[c]], token[c])
  /\ token' = [token EXCEPT ![c] = NoToken]
  /\ Goto(c, "conclude")
  /\ UNCHANGED <<queue, store, msg, todo, dead, done>>

-----------------------------------------------------------------------------
(* handle_alert_message, with the answer of correlate().                   *)

Ack(a) == pel' = pel \ {a}

(* Mutant: the root of a group is suppressed like its other alerts.        *)
SuppressJoined(c) ==
  /\ under' = [under EXCEPT ![msg[c]] = answer[c]] /\ Ack(msg[c])
  /\ UNCHANGED started

Suppress(c) ==
  /\ answer[c] # msg[c]
  /\ under' = [under EXCEPT ![msg[c]] = answer[c]] /\ Ack(msg[c])
  /\ UNCHANGED started

StartWorkflow(c) ==
  /\ answer[c] = msg[c]
  /\ started' = started \cup {msg[c]}
  /\ UNCHANGED under

Conclude(c) ==
  /\ at[c] = "conclude"
  /\ \/ answer[c] = NoAlert /\ UNCHANGED <<pel, done, faults>>
     \/ /\ answer[c] # NoAlert
        /\ \/ Suppress(c) /\ (UNCHANGED faults \/ Fault)
           \/ StartWorkflow(c) /\ Ack(msg[c]) /\ (UNCHANGED faults \/ Fault)
           \/ StartWorkflow(c) /\ UNCHANGED pel /\ Fault
           \/ UNCHANGED <<pel, done>> /\ Fault
  /\ Reset(c)
  /\ UNCHANGED <<lock, waiting, idle, store>>

(* The process stops.                                                      *)
Crash(c) ==
  /\ at[c] # "poll" /\ Fault /\ Reset(c)
  /\ UNCHANGED <<lock, queue, store, done>>

-----------------------------------------------------------------------------
Less(n) == IF n > 0 THEN n - 1 ELSE 0

Tick ==
  /\ ExpireLocks
  /\ ttl' = [g \in Alerts |-> Less(ttl[g])]
  /\ indexTTL' = Less(indexTTL) /\ index' = IF indexTTL = 1 THEN {} ELSE index
  /\ idle' = [a \in Alerts |-> IF a \in pel /\ idle[a] < MinIdle THEN idle[a] + 1 ELSE idle[a]]
  /\ UNCHANGED <<waiting, pel, mind, done, faults>>

Consumer(c) ==
  \/ Reclaim(c) \/ ReadNext(c)
  \/ Acquire(c) \/ GiveUp(c) \/ Members(c) \/ Fetch(c) \/ Forget(c)
  \/ Judge(c) \/ NewGroup(c) \/ Save(c) \/ Release(c) \/ Conclude(c)

Next ==
  \/ \E c \in Consumers : Consumer(c) \/ AcquireFails(c) \/ CorrelateRaises(c) \/ Crash(c)
  \/ Tick

Spec == Init /\ [][Next]_vars

(* The event loop runs each consumer on, and time passes.                  *)
FairSpec == Spec /\ WF_vars(Tick) /\ \A c \in Consumers : WF_vars(Consumer(c))

-----------------------------------------------------------------------------
(* Properties.                                                             *)

(* Visible groups: those that the next correlation will compare with.      *)
Visible == {g \in index : ttl[g] > 0}

(* Two groups that are both visible never have roots that the quick filter *)
(* takes for related: an alert that belongs to a group becomes no root of  *)
(* its own, whatever expires, fails or is redelivered in between.          *)
RootsAreDistinct ==
  \A g, h \in Visible : g # h => QuickFilter(g, h) # "definitely_related"

(* An alert without a workflow that no delivery will come back to. *)
Lost(a) == a \notin started \cup pel /\ \A c \in Consumers : msg[c] # a

(* Alerts that were suppressed in favour of each other, so that none gets  *)
(* a workflow, cost a fault for every one of them that served as a root:   *)
(* that makes two at least, so no single failure lets an incident          *)
(* disappear.                                                              *)
RingsCostFaults ==
  \A S \in SUBSET Alerts :
    (\A a \in S : under[a] \in S /\ Lost(a))
      => faults >= Cardinality({under[a] : a \in S})

(* Every alert is started or suppressed in the end, with its host's lock   *)
(* left behind by a crash, groups expiring and the LLM of any opinion.     *)
EveryAlertIsSettled ==
  \A a \in Alerts : <>(a \in started \/ under[a] # NoAlert)
=============================================================================
