---------------------------- MODULE RunLockProofs ----------------------------
(***************************************************************************)
(* The run lock excludes, for any number of workers and keys.              *)
(***************************************************************************)
EXTENDS RunLock, TLAPS

(* A step of each kind, whoever takes it, keeps types and the correspondence  *)
(* between a live lease and what Redis stores.  They are lemmas about actions *)
(* so that the composed system can cite them for its own steps.               *)

LockInv == LockTypeOK /\ HeldIsStored

LEMMA InitLock == LockInit => LockInv
  BY DEF LockInit, LockInv, LockTypeOK, HeldIsStored, NoLease, LeaseStates

LEMMA AcquireKeepsLock ==
  ASSUME LockInv, NEW w \in LockWorkers, NEW k \in LockKeys, Acquire(w, k)
  PROVE  LockInv'
<1> USE DEF LockInv
<1>1. CASE AcquireDisabled(w, k)
  BY <1>1 DEF Acquire, AcquireDisabled, LockTypeOK, HeldIsStored, LeaseStates
<1>2. CASE AcquireGranted(w, k)
  <2>1. owner[k] = NoOwner /\ NoOwner \notin LockWorkers
    BY <1>2, LockAssumption DEF AcquireGranted, SetIfAbsent
  <2> QED
    BY <1>2, <2>1 DEF Acquire, AcquireGranted, SetIfAbsent, LockTypeOK, HeldIsStored, LeaseStates
<1>3. CASE AcquireDegraded(w, k)
  <2>1. \A v \in LockWorkers : owner[k] # NoOwner => owner'[k] = owner[k]
    BY <1>3 DEF AcquireDegraded, SetIfAbsent
  <2>2. NoOwner \notin LockWorkers
    BY LockAssumption
  <2> QED
    BY <1>3, <2>1, <2>2 DEF Acquire, AcquireDegraded, SetIfAbsent, LockTypeOK, HeldIsStored, LeaseStates
<1> QED
  BY <1>1, <1>2, <1>3 DEF Acquire

LEMMA ReleaseKeepsLock ==
  ASSUME LockInv, NEW w \in LockWorkers, Release(w)
  PROVE  LockInv'
<1> USE DEF LockInv
<1>1. CASE UNCHANGED owner
  BY <1>1 DEF Release, LockTypeOK, HeldIsStored, NoLease, LeaseStates
<1>2. CASE CompareAndDelete(w)
  BY <1>2 DEF Release, CompareAndDelete, LockTypeOK, HeldIsStored, NoLease, LeaseStates
<1> QED
  BY <1>1, <1>2 DEF Release

LEMMA VanishKeepsLock ==
  ASSUME LockInv, NEW w \in LockWorkers, Vanish(w)
  PROVE  LockInv'
  BY DEF LockInv, Vanish, LockTypeOK, HeldIsStored, NoLease, LeaseStates

LEMMA ExpireKeepsLock ==
  ASSUME LockInv, NEW k \in LockKeys, ExpireKey(k)
  PROVE  LockInv'
<1> USE DEF LockInv
<1>1. LockTypeOK'
  BY DEF ExpireKey, LockTypeOK, LeaseStates
<1>2. HeldIsStored'
  <2> SUFFICES ASSUME NEW w \in LockWorkers, lease'[w].state = "held"
               PROVE  lease'[w].key \in LockKeys /\ owner'[lease'[w].key] = w
    BY DEF HeldIsStored
  <2>1. lease'[w] = lease[w] /\ lease[w].state = "held"
    BY DEF ExpireKey, LockTypeOK
  <2>2. lease[w].key \in LockKeys /\ owner[lease[w].key] = w
    BY <2>1 DEF HeldIsStored
  <2>3. lease[w].key # k
    <3> SUFFICES ASSUME lease[w].key = k PROVE FALSE
      OBVIOUS
    <3>1. w = owner[k] /\ lease[w] = [state |-> "held", key |-> k]
      BY <2>1, <2>2 DEF LockTypeOK
    <3> QED
      BY <2>1, <3>1 DEF ExpireKey, LockTypeOK
  <2> QED
    BY <2>1, <2>2, <2>3 DEF ExpireKey, LockTypeOK
<1> QED
  BY <1>1, <1>2

LEMMA LockStep ==
  ASSUME LockInv, [LockNext]_lockVars
  PROVE  LockInv'
<1>1. CASE UNCHANGED lockVars
  BY <1>1 DEF lockVars, LockInv, LockTypeOK, HeldIsStored
<1>2. CASE LockNext
  BY <1>2, AcquireKeepsLock, ReleaseKeepsLock, VanishKeepsLock, ExpireKeepsLock DEF LockNext
<1> QED
  BY <1>1, <1>2

(* A live lease is the one Redis stores, after any number of acquisitions,    *)
(* expiries, late releases, unanswered calls and deaths.                      *)
THEOREM LockInvariant == LockSpec => [](LockTypeOK /\ HeldIsStored)
<1>1. LockInv /\ [LockNext]_lockVars => LockInv'
  BY LockStep
<1> QED
  BY <1>1, InitLock, PTL DEF LockSpec, LockInv

LEMMA LockInvExcludes == LockInv => Exclusive
  BY DEF LockInv, LockTypeOK, HeldIsStored, Exclusive

(* Mutual exclusion of live leases (DistributedLock in runtime/locks.py), for *)
(* every set of workers and keys and however often leases run out, Redis      *)
(* fails or workers die.                                                      *)
THEOREM LockExcludes == LockSpec => []Exclusive
<1>1. LockTypeOK /\ HeldIsStored => Exclusive
  BY LockInvExcludes DEF LockInv
<1> QED
  BY <1>1, LockInvariant, PTL
=============================================================================
