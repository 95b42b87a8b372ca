------------------------------- MODULE RunLock -------------------------------
(***************************************************************************)
(* The Redis run lock of runtime/locks.py.  A run asks for the key of its  *)
(* analysis date and mode with SET NX EX; the value stored is a token that *)
(* only this acquisition knows, and release deletes the key only while it  *)
(* still holds that token.  A run never waits: a taken key refuses it, and *)
(* an unreachable Redis lets it through ("degraded mode").                 *)
(*                                                                         *)
(* A token is unique to an acquisition and a worker has one acquisition at *)
(* a time, so the worker stands for its token.                             *)
(***************************************************************************)
CONSTANTS
    LockWorkers,      \* those who run analyses; in the composed model, the runs
    LockKeys,         \* lock keys
    NoOwner,      \* the key is absent from Redis
    NoKey,        \* a worker outside any acquisition
    LockEnabled   \* settings.run_lock_enabled

ASSUME LockAssumption ==
    /\ LockEnabled \in BOOLEAN
    /\ NoOwner \notin LockWorkers
    /\ NoKey \notin LockKeys

VARIABLES
    owner,        \* what Redis holds: the worker whose token is stored at the key
    lease         \* each worker's DistributedLock object

lockVars == <<owner, lease>>

(* "held": acquired, TTL not run out.  "lost": acquired, TTL ran out, which   *)
(* the worker cannot see.  "degraded" and "disabled" let the worker through   *)
(* without a lock.                                                            *)
LeaseStates == {"none", "held", "lost", "degraded", "disabled"}

LockTypeOK ==
    /\ owner \in [LockKeys -> LockWorkers \cup {NoOwner}]
    /\ lease \in [LockWorkers -> [state : LeaseStates, key : LockKeys \cup {NoKey}]]

NoLease == [state |-> "none", key |-> NoKey]

LockInit ==
    /\ owner = [k \in LockKeys |-> NoOwner]
    /\ lease = [w \in LockWorkers |-> NoLease]

(* The worker is inside the section the lock guards: acquire returned True.   *)
Inside(w) == lease[w].state # "none"

----------------------------------------------------------------------------
(* Acquire.                                                                   *)

AcquireDisabled(w, k) ==
    /\ ~LockEnabled
    /\ lease' = [lease EXCEPT ![w] = [state |-> "disabled", key |-> k]]
    /\ UNCHANGED owner

(* Mutant of SetIfAbsent: a SET without NX takes over whatever is stored.     *)
SetAlways(w, k) == owner' = [owner EXCEPT ![k] = w]

SetIfAbsent(w, k) ==
    /\ owner[k] = NoOwner
    /\ owner' = [owner EXCEPT ![k] = w]

AcquireGranted(w, k) ==
    /\ LockEnabled
    /\ SetIfAbsent(w, k)
    /\ lease' = [lease EXCEPT ![w] = [state |-> "held", key |-> k]]

(* Redis fails the call: it never got there, or it was carried out and the    *)
(* answer was lost, which leaves a token nobody will release.                 *)
AcquireDegraded(w, k) ==
    /\ LockEnabled
    /\ \/ UNCHANGED owner
       \/ SetIfAbsent(w, k)
    /\ lease' = [lease EXCEPT ![w] = [state |-> "degraded", key |-> k]]

Acquire(w, k) ==
    /\ lease[w].state = "none"
    /\ \/ AcquireDisabled(w, k)
       \/ AcquireGranted(w, k)
       \/ AcquireDegraded(w, k)

(* SET NX answers nil: acquire returns False.                                 *)
AcquireRefused(w, k) ==
    /\ LockEnabled
    /\ lease[w].state = "none"
    /\ owner[k] # NoOwner

----------------------------------------------------------------------------
(* Release.                                                                   *)

(* Mutant of CompareAndDelete: a plain DEL that does not compare the token.   *)
DeleteKey(w) == owner' = [owner EXCEPT ![lease[w].key] = NoOwner]

(* The Lua script: delete the key only if it still holds this token.          *)
CompareAndDelete(w) ==
    owner' = [owner EXCEPT ![lease[w].key] = IF @ = w THEN NoOwner ELSE @]

(* Degraded and disabled acquisitions return before they reach Redis; a       *)
(* failed eval leaves the key for its TTL.                                    *)
Release(w) ==
    /\ Inside(w)
    /\ \/ lease[w].state \in {"held", "lost"} /\ CompareAndDelete(w)
       \/ UNCHANGED owner
    /\ lease' = [lease EXCEPT ![w] = NoLease]

(* The worker's process dies: its lock object is gone, the key stays.         *)
Vanish(w) ==
    /\ lease' = [lease EXCEPT ![w] = NoLease]
    /\ UNCHANGED owner

(* run_lock_ttl_seconds ran out.                                              *)
ExpireKey(k) ==
    /\ owner[k] # NoOwner
    /\ owner' = [owner EXCEPT ![k] = NoOwner]
    /\ lease' = [w \in LockWorkers |->
                    IF w = owner[k] /\ lease[w] = [state |-> "held", key |-> k]
                    THEN [lease[w] EXCEPT !.state = "lost"]
                    ELSE lease[w]]

----------------------------------------------------------------------------
LockNext ==
    \/ \E w \in LockWorkers, k \in LockKeys : Acquire(w, k)
    \/ \E w \in LockWorkers : Release(w)
    \/ \E w \in LockWorkers : Inside(w) /\ Vanish(w)
    \/ \E k \in LockKeys : ExpireKey(k)

LockSpec == LockInit /\ [][LockNext]_lockVars

(* Mutual exclusion, as far as the code promises it: two analyses of one key  *)
(* run together only if one of them outlived its TTL, or started while Redis  *)
(* was unreachable or the lock was switched off.  A release by a worker that  *)
(* outlived its lease must not free the lock of its successor (locks.py:12).  *)
Exclusive ==
    \A v, w \in LockWorkers :
        /\ v # w
        /\ lease[v].state = "held"
        /\ lease[w].state = "held"
        => lease[v].key # lease[w].key

(* The strengthening that makes Exclusive inductive: a live lease is the one  *)
(* Redis stores.                                                              *)
HeldIsStored ==
    \A w \in LockWorkers :
        lease[w].state = "held" =>
            /\ lease[w].key \in LockKeys
            /\ owner[lease[w].key] = w
=============================================================================
