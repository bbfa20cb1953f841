----------------------------- MODULE ActionMutex -----------------------------
(***************************************************************************)
(* The Redis lock of src/coordination/mutex.py: SET NX EX to acquire, a    *)
(* compare-and-delete script to release, and expiry by Redis itself.       *)
(*                                                                         *)
(* The module declares the lock table and one operator per Redis effect;   *)
(* the components that take the lock extend it and decide when an effect   *)
(* happens and whether its reply reaches the caller.  Time is counted in   *)
(* ticks; a key set with a time to live of n ticks disappears at the n-th. *)
(***************************************************************************)
EXTENDS Naturals

CONSTANTS Targets,   \* what can be locked: one key coord:action_mutex:<target>
          NoToken    \* stands for "the key does not exist"

VARIABLE lock        \* lock[t] = [token, ttl]: the value and the TTL of t's key

Free == [token |-> NoToken, ttl |-> 0]

LockInit == lock = [t \in Targets |-> Free]

LockTypeOK(Tokens) ==
  lock \in [Targets -> [token : Tokens \cup {NoToken}, ttl : Nat]]

(* Mutant: SET without NX, which always succeeds.                          *)
AlwaysFree(t) == TRUE

IsFree(t) == lock[t].token = NoToken

(* SET key token NX EX ttl: takes effect only when the key is absent.  The *)
(* caller is told whether it took effect, that is, whether IsFree(t) held. *)
AcquireActionMutex(t, token, ttl) ==
  lock' = IF IsFree(t) THEN [lock EXCEPT ![t] = [token |-> token, ttl |-> ttl]]
                       ELSE lock

(* Mutant: DEL instead of the compare-and-delete script.                   *)
DeleteActionMutex(t, token) == lock' = [lock EXCEPT ![t] = Free]

(* _RELEASE_LUA: delete the key only while it still holds this token.      *)
ReleaseActionMutex(t, token) ==
  lock' = IF lock[t].token = token THEN [lock EXCEPT ![t] = Free] ELSE lock

(* Mutant: SET without EX.                                                 *)
KeepLocks == UNCHANGED lock

(* One tick of Redis expiry, for every key.                                *)
ExpireLocks ==
  lock' = [t \in Targets |->
             IF lock[t].ttl > 1 THEN [lock[t] EXCEPT !.ttl = @ - 1] ELSE Free]
=============================================================================
