------------------------ MODULE AnalysisSystemProofs -------------------------
(***************************************************************************)
(* What holds of the analysis platform for every set of runs, dates,       *)
(* administrators and readers, every mix of triggers and every number of   *)
(* faults.                                                                 *)
(***************************************************************************)
EXTENDS AnalysisSystem, NumberFacts

Lock == INSTANCE RunLockProofs WITH LockWorkers <- Runs, NoOwner <- NoRun

----------------------------------------------------------------------------
(* The operators of the model.                                                *)

(* The board: of the released P, with their dates and snapshots, the one that *)
(* is shown before all others.                                                *)
BoardOf(P, on, shot) ==
    IF P = {} THEN NoRun
    ELSE CHOOSE x \in P : \A s \in P :
             \/ on[x] > on[s]
             \/ on[x] = on[s] /\ shot[x].at >= shot[s].at

LEMMA BoardIsFirst ==
  ASSUME NEW P, P # {}, NEW on, NEW shot,
         \E last, now \in Nat : \A s \in P : /\ on[s] \in Nat /\ on[s] <= last
                                           /\ shot[s].at \in Nat /\ shot[s].at <= now
  PROVE  /\ BoardOf(P, on, shot) \in P
         /\ \A s \in P : \/ on[BoardOf(P, on, shot)] > on[s]
                         \/ /\ on[BoardOf(P, on, shot)] = on[s]
                            /\ shot[BoardOf(P, on, shot)].at >= shot[s].at
<1>0. PICK last \in Nat, now \in Nat :
          \A s \in P : on[s] \in Nat /\ on[s] <= last /\ shot[s].at \in Nat /\ shot[s].at <= now
  OBVIOUS
<1> DEFINE First(x) == \A s \in P : on[x] > on[s] \/ (on[x] = on[s] /\ shot[x].at >= shot[s].at)
<1>1. \E r \in P : First(r)
  <2> DEFINE D == {on[r] : r \in P}
  <2>1. D \subseteq Nat /\ D # {} /\ \A d \in D : d <= last
    BY <1>0
  <2>2. PICK d \in D : \A e \in D : e <= d
    <3> HIDE DEF D
    <3> QED
      BY <2>1, BoundedHasMax
  <2> DEFINE S == {r \in P : on[r] = d}
             A == {shot[r].at : r \in S}
  <2>3. A \subseteq Nat /\ A # {} /\ \A t \in A : t <= now
    BY <1>0, <2>2
  <2>4. PICK t \in A : \A u \in A : u <= t
    <3> HIDE DEF A
    <3> QED
      BY <2>3, BoundedHasMax
  <2>5. PICK r \in S : shot[r].at = t
    OBVIOUS
  <2>6. ASSUME NEW s \in P PROVE on[r] > on[s] \/ (on[r] = on[s] /\ shot[r].at >= shot[s].at)
    <3>1. on[s] <= on[r] /\ on[s] \in Nat /\ on[r] \in Nat
      BY <1>0, <2>1, <2>2, <2>5
    <3>2. CASE on[s] = on[r]
      BY <3>2, <2>3, <2>4, <2>5
    <3>3. CASE on[s] # on[r]
      BY <3>1, <3>3
    <3> QED
      BY <3>2, <3>3
  <2> QED
    BY <2>5, <2>6
<1>2. BoardOf(P, on, shot) = CHOOSE x \in P : First(x)
  BY DEF BoardOf
<1> HIDE DEF First
<1>3. BoardOf(P, on, shot) \in P /\ First(BoardOf(P, on, shot))
  BY <1>1, <1>2
<1> QED
  BY <1>3 DEF First

LEMMA LatestIsTheBoard ==
  /\ LatestPublished = BoardOf(Published, date, snapshot)
  /\ LatestPublished' = BoardOf(Published', date', snapshot')
<1>1. LatestPublished = BoardOf(Published, date, snapshot)
  BY DEF LatestPublished, ShownBefore, BoardOf
<1>2. LatestPublished' = BoardOf(Published', date', snapshot')
  BY DEF LatestPublished, ShownBefore, BoardOf
<1> QED
  BY <1>1, <1>2

LEMMA PublishedTyped ==
  ASSUME StoreTypeOK
  PROVE  /\ LastDate \in Nat /\ clock \in Nat
         /\ \A s \in Published : /\ s \in Runs /\ date[s] \in Nat /\ date[s] <= LastDate
                                 /\ snapshot[s].at \in Nat /\ snapshot[s].at <= clock
  BY StoreAssumption DEF StoreTypeOK, Published, Snapshot, Dates

(* latest_published finds a published snapshot whenever there is one, and one *)
(* that comes first in its order.                                             *)
LEMMA LatestPublishedIsFirst ==
  ASSUME StoreTypeOK, Published # {}
  PROVE  /\ LatestPublished \in Published
         /\ \A s \in Published : ShownBefore(LatestPublished, s)
<1>0. \E last, now \in Nat : \A s \in Published : /\ date[s] \in Nat /\ date[s] <= last
                                                /\ snapshot[s].at \in Nat /\ snapshot[s].at <= now
  BY PublishedTyped
<1>1. /\ BoardOf(Published, date, snapshot) \in Published
      /\ \A s \in Published : ShownBefore(BoardOf(Published, date, snapshot), s)
  BY <1>0, BoardIsFirst DEF ShownBefore
<1> QED
  BY <1>1, LatestIsTheBoard

LEMMA LatestPublishedType ==
  ASSUME StoreTypeOK
  PROVE  /\ LatestPublished \in Published \cup {NoRun}
         /\ LatestPublished = NoRun <=> Published = {}
<1>1. CASE Published = {}
  BY <1>1 DEF LatestPublished
<1>2. CASE Published # {}
  <2>1. LatestPublished \in Published
    BY <1>2, LatestPublishedIsFirst
  <2> QED
    BY <1>2, <2>1, StoreAssumption DEF Published
<1> QED
  BY <1>1, <1>2

LEMMA LockAssumptionHolds == Lock!LockAssumption
  BY StoreAssumption, RunAssumption, KeyAssumption DEF Lock!LockAssumption

LEMMA LockKeyType ==
  ASSUME TypeOK, NEW r \in Runs
  PROVE  LockKey(r) \in LockKeys
<1>1. RunMode(kind[r]) \in {"FULL_REFRESH", "DATA_ONLY", "REPLAY"}
  BY DEF RunMode
<1>2. date[r] \in Dates
  BY DEF TypeOK, StoreTypeOK
<1> QED
  BY <1>1, <1>2 DEF LockKey, LockKeys, LockModes

LEMMA FinalStatusType ==
  ASSUME NEW r \in Runs
  PROVE  FinalStatus(r) \in RunStatus \ {"ABSENT"}
  BY DEF FinalStatus, ShouldPublish, RunStatus

(* The store's transactions keep its types.                                   *)
LEMMA StoreTypes ==
  ASSUME StoreTypeOK, NEW r \in Runs
  PROVE  /\ UNCHANGED storeVars => StoreTypeOK'
         /\ ReserveRun(r) => StoreTypeOK'
         /\ \A d \in Dates : CreateRun(r, d) => StoreTypeOK'
         /\ \A s \in RunStatus : UpdateRun(r, s) => StoreTypeOK'
         /\ \A s \in RunStatus, passed, published \in BOOLEAN :
               SaveSnapshot(r, s, passed, published) => StoreTypeOK'
         /\ Publish(r) => StoreTypeOK'
<1> USE DEF StoreTypeOK
<1>1. UNCHANGED storeVars => StoreTypeOK'
  BY DEF storeVars
<1>2. ReserveRun(r) => StoreTypeOK'
  BY DEF ReserveRun, RunStatus
<1>3. \A d \in Dates : CreateRun(r, d) => StoreTypeOK'
  BY DEF CreateRun, RunStatus
<1>4. \A s \in RunStatus : UpdateRun(r, s) => StoreTypeOK'
  BY DEF UpdateRun, RunStatus
<1>5. \A s \in RunStatus, passed, published \in BOOLEAN :
         SaveSnapshot(r, s, passed, published) => StoreTypeOK'
  BY DEF SaveSnapshot, Snapshot
<1>6. Publish(r) => StoreTypeOK'
  BY DEF Publish, Snapshot, RunStatus
<1> QED
  BY <1>1, <1>2, <1>3, <1>4, <1>5, <1>6

LEMMA StoreUnchanged ==
  ASSUME StoreTypeOK, UNCHANGED storeVars
  PROVE  StoreTypeOK'
  BY DEF StoreTypeOK, storeVars

(* So do the cache's calls.                                                   *)
LEMMA CacheTypes ==
  ASSUME CacheTypeOK
  PROVE  /\ UNCHANGED cacheVars => CacheTypeOK'
         /\ \A r \in Runs : SetCurrent(r) => CacheTypeOK'
         /\ Invalidate => CacheTypeOK'
         /\ CacheTick => CacheTypeOK'
<1> USE CacheAssumption DEF CacheTypeOK
<1>1. UNCHANGED cacheVars => CacheTypeOK'
  BY DEF cacheVars
<1>2. \A r \in Runs : SetCurrent(r) => CacheTypeOK'
  BY DEF SetCurrent, cacheVars
<1>3. Invalidate => CacheTypeOK'
  BY DEF Invalidate, cacheVars
<1>4. CacheTick => CacheTypeOK'
  BY DEF CacheTick
<1> QED
  BY <1>1, <1>2, <1>3, <1>4

----------------------------------------------------------------------------
(* Types.  The lock's half of the invariant needs that a live lease is the    *)
(* one Redis stores, or a release could not be told to keep it.               *)

TypeInv == TypeOK /\ HeldIsStored

(* The lock of the composed system is an instance of RunLock.                 *)
LEMMA SameInvariant ==
  /\ Lock!LockInv <=> LockTypeOK /\ HeldIsStored
  /\ Lock!LockInv' <=> LockTypeOK' /\ HeldIsStored'
  /\ LockInit => Lock!LockInit
  BY DEF LockTypeOK, HeldIsStored, LeaseStates, LockInit, NoLease, Lock!LockInv, Lock!LockTypeOK,
         Lock!HeldIsStored, Lock!LeaseStates, Lock!LockInit, Lock!NoLease

LEMMA SameSteps ==
  ASSUME NEW w \in Runs, NEW k \in LockKeys
  PROVE  /\ Acquire(w, k) => Lock!Acquire(w, k)
         /\ Release(w) => Lock!Release(w)
         /\ Vanish(w) => Lock!Vanish(w)
<1>1. Acquire(w, k) => Lock!Acquire(w, k)
  BY DEF Acquire, AcquireDisabled, AcquireGranted, AcquireDegraded, SetIfAbsent, Lock!Acquire,
         Lock!AcquireDisabled, Lock!AcquireGranted, Lock!AcquireDegraded, Lock!SetIfAbsent
<1>2. Release(w) => Lock!Release(w)
  BY DEF Release, Inside, CompareAndDelete, NoLease, Lock!Release, Lock!Inside,
         Lock!CompareAndDelete, Lock!NoLease
<1>3. Vanish(w) => Lock!Vanish(w)
  BY DEF Vanish, NoLease, Lock!Vanish, Lock!NoLease
<1> QED
  BY <1>1, <1>2, <1>3

LEMMA SameExpiry == \A k \in LockKeys : ExpireKey(k) => Lock!ExpireKey(k)
  BY DEF ExpireKey, Lock!ExpireKey

(* What a lock step of the composed system does to the lock.                  *)
LEMMA LockTypes ==
  ASSUME TypeInv
  PROVE  /\ UNCHANGED theLock => LockTypeOK' /\ HeldIsStored'
         /\ \A r \in Runs : Acquire(r, LockKey(r)) => LockTypeOK' /\ HeldIsStored'
         /\ \A r \in Runs : Release(r) => LockTypeOK' /\ HeldIsStored'
         /\ \A r \in Runs : Vanish(r) => LockTypeOK' /\ HeldIsStored'
         /\ \A k \in LockKeys : ExpireKey(k) => LockTypeOK' /\ HeldIsStored'
<1>1. Lock!LockInv
  BY SameInvariant DEF TypeInv, TypeOK, RunTypeOK
<1>2. UNCHANGED theLock => LockTypeOK' /\ HeldIsStored'
  BY DEF TypeInv, TypeOK, RunTypeOK, LockTypeOK, HeldIsStored, theLock
<1>3. ASSUME NEW r \in Runs, Acquire(r, LockKey(r)) PROVE LockTypeOK' /\ HeldIsStored'
  <2>1. LockKey(r) \in LockKeys
    BY LockKeyType DEF TypeInv
  <2> QED
    BY <1>1, <1>3, <2>1, LockAssumptionHolds, Lock!AcquireKeepsLock, SameSteps, SameInvariant
<1>4. ASSUME NEW r \in Runs, Release(r) PROVE LockTypeOK' /\ HeldIsStored'
  BY <1>1, <1>4, LockKeyType, LockAssumptionHolds, Lock!ReleaseKeepsLock, SameSteps,
     SameInvariant DEF TypeInv
<1>5. ASSUME NEW r \in Runs, Vanish(r) PROVE LockTypeOK' /\ HeldIsStored'
  BY <1>1, <1>5, LockKeyType, LockAssumptionHolds, Lock!VanishKeepsLock, SameSteps,
     SameInvariant DEF TypeInv
<1>6. ASSUME NEW k \in LockKeys, ExpireKey(k) PROVE LockTypeOK' /\ HeldIsStored'
  BY <1>1, <1>6, LockAssumptionHolds, Lock!ExpireKeepsLock, SameExpiry,
     SameInvariant
<1> QED
  BY <1>2, <1>3, <1>4, <1>5, <1>6

LEMMA InitTypes == Init => TypeInv
<1> SUFFICES ASSUME Init PROVE TypeInv
  OBVIOUS
<1>1. StoreTypeOK
  BY DEF Init, StoreInit, StoreTypeOK, RunStatus, Snapshot, NoSnapshot
<1>2. CacheTypeOK
  BY CacheAssumption DEF Init, CacheInit, CacheTypeOK
<1>3. LockTypeOK /\ HeldIsStored
  BY LockAssumptionHolds, Lock!InitLock, SameInvariant DEF Init, RunInit
<1>4. RunTypeOK
  BY <1>3, RunAssumption DEF Init, RunInit, RunTypeOK, Locations, Verdicts
<1>5. DashTypeOK
  BY DEF Init, DashInit, DashTypeOK, Idle, AdminStates
<1> QED
  BY <1>1, <1>2, <1>3, <1>4, <1>5 DEF TypeInv, TypeOK

LEMMA StepTypes ==
  ASSUME TypeInv, Next
  PROVE  TypeInv'
<1> USE RunAssumption DEF TypeInv, TypeOK
<1> DEFINE RunPart ==
             /\ kind \in [Runs -> Kinds \cup {"none"}]
             /\ base \in [Runs -> Runs \cup {NoRun}]
             /\ \A r \in Runs : kind[r] = "reanalyze" <=> base[r] # NoRun
             /\ pc \in [Runs -> Locations]
             /\ tries \in [Runs -> 0 .. 1]
             /\ verdict \in [Runs -> Verdicts]
             /\ faults \in 0 .. MaxFaults
<1>0. RunTypeOK <=> RunPart /\ LockTypeOK
  BY DEF RunTypeOK
<1>00. (RunTypeOK <=> RunPart /\ LockTypeOK)'
  BY DEF RunTypeOK
<1>01. UNCHANGED dashVars => DashTypeOK'
  BY DEF dashVars, DashTypeOK
<1>02. UNCHANGED <<theLock, runVars, faults>> => RunPart'
  BY <1>0 DEF theLock, runVars
<1>1. ASSUME NEW r \in Runs, NEW k \in RunKinds, NEW b \in Runs \cup {NoRun},
             Submit(r, k, b), UNCHANGED dashVars
      PROVE  TypeInv'
  <2>1. StoreTypeOK'
    BY <1>1, StoreTypes DEF Submit
  <2>2. CacheTypeOK'
    BY <1>1, CacheTypes DEF Submit
  <2>3. LockTypeOK' /\ HeldIsStored'
    BY <1>1, LockTypes DEF Submit
  <2>4. RunPart'
    BY <1>1, <1>0 DEF Submit, Goto, Locations
  <2> QED
    BY <1>1, <1>00, <1>01, <2>1, <2>2, <2>3, <2>4
<1>2. ASSUME NEW r \in Runs, Deploy(r), UNCHANGED dashVars PROVE TypeInv'
  <2>1. StoreTypeOK'
    BY <1>2, StoreTypes DEF Deploy
  <2>2. CacheTypeOK'
    BY <1>2, CacheTypes DEF Deploy
  <2>3. LockTypeOK' /\ HeldIsStored'
    BY <1>2, LockTypes DEF Deploy
  <2>4. RunPart'
    BY <1>2, <1>0 DEF Deploy, Goto, Locations, runData
  <2> QED
    BY <1>2, <1>00, <1>01, <2>1, <2>2, <2>3, <2>4
<1>3. ASSUME NEW r \in Runs, DeployFails(r), UNCHANGED dashVars PROVE TypeInv'
  <2>1. StoreTypeOK'
    BY <1>3, StoreTypes DEF DeployFails, RunStatus
  <2>2. CacheTypeOK'
    BY <1>3, CacheTypes DEF DeployFails
  <2>3. LockTypeOK' /\ HeldIsStored'
    BY <1>3, LockTypes DEF DeployFails
  <2>4. RunPart'
    BY <1>3, <1>0 DEF DeployFails, Locations, runData
  <2> QED
    BY <1>3, <1>00, <1>01, <2>1, <2>2, <2>3, <2>4
<1>4. ASSUME NEW r \in Runs, Prepare(r), UNCHANGED dashVars PROVE TypeInv'
  <2>1. StoreTypeOK'
    BY <1>4, StoreTypes DEF Prepare
  <2>2. CacheTypeOK'
    BY <1>4, CacheTypes DEF Prepare
  <2>3. LockTypeOK' /\ HeldIsStored'
    BY <1>4, LockTypes DEF Prepare
  <2>4. RunPart'
    BY <1>4, <1>0 DEF Prepare, Goto, Locations, runData
  <2> QED
    BY <1>4, <1>00, <1>01, <2>1, <2>2, <2>3, <2>4
<1>5. ASSUME NEW r \in Runs, PrepareFails(r), UNCHANGED dashVars PROVE TypeInv'
  <2>1. StoreTypeOK'
    BY <1>5, StoreTypes DEF PrepareFails
  <2>2. CacheTypeOK'
    BY <1>5, CacheTypes DEF PrepareFails
  <2>3. LockTypeOK' /\ HeldIsStored'
    BY <1>5, LockTypes DEF PrepareFails
  <2>4. RunPart'
    BY <1>5, <1>0 DEF PrepareFails, Goto, Locations, runData
  <2> QED
    BY <1>5, <1>00, <1>01, <2>1, <2>2, <2>3, <2>4
<1>6. ASSUME NEW r \in Runs, Create(r), UNCHANGED dashVars PROVE TypeInv'
  <2>0. (IF kind[r] = "reanalyze" THEN date[base[r]] ELSE date[r]) \in Dates
    BY <1>0 DEF StoreTypeOK
  <2>1. StoreTypeOK'
    BY <1>6, <2>0, StoreTypes DEF Create
  <2>2. CacheTypeOK'
    BY <1>6, CacheTypes DEF Create
  <2>3. LockTypeOK' /\ HeldIsStored'
    BY <1>6, LockTypes DEF Create
  <2>4. RunPart'
    BY <1>6, <1>0 DEF Create, Goto, Locations, runData
  <2> QED
    BY <1>6, <1>00, <1>01, <2>1, <2>2, <2>3, <2>4
<1>7. ASSUME NEW r \in Runs, AcquireLock(r), UNCHANGED dashVars PROVE TypeInv'
  <2>1. StoreTypeOK'
    BY <1>7, StoreTypes DEF AcquireLock
  <2>2. CacheTypeOK'
    BY <1>7, CacheTypes DEF AcquireLock
  <2>3. LockTypeOK' /\ HeldIsStored'
    BY <1>7, LockTypes DEF AcquireLock
  <2>4. RunPart'
    BY <1>7, <1>0 DEF AcquireLock, Goto, Locations, runData
  <2> QED
    BY <1>7, <1>00, <1>01, <2>1, <2>2, <2>3, <2>4
<1>8. ASSUME NEW r \in Runs, LockRefused(r), UNCHANGED dashVars PROVE TypeInv'
  <2>1. StoreTypeOK'
    BY <1>8, StoreTypes DEF LockRefused
  <2>2. CacheTypeOK'
    BY <1>8, CacheTypes DEF LockRefused
  <2>3. LockTypeOK' /\ HeldIsStored'
    BY <1>8, LockTypes DEF LockRefused
  <2>4. RunPart'
    BY <1>8, <1>0 DEF LockRefused, Goto, Locations, runData
  <2> QED
    BY <1>8, <1>00, <1>01, <2>1, <2>2, <2>3, <2>4
<1>9. ASSUME NEW r \in Runs, FailRefused(r), UNCHANGED dashVars PROVE TypeInv'
  <2>1. StoreTypeOK'
    BY <1>9, StoreTypes DEF FailRefused, RunStatus
  <2>2. CacheTypeOK'
    BY <1>9, CacheTypes DEF FailRefused
  <2>3. LockTypeOK' /\ HeldIsStored'
    BY <1>9, LockTypes DEF FailRefused
  <2>4. RunPart'
    BY <1>9, <1>0 DEF FailRefused, Goto, Locations, runData
  <2> QED
    BY <1>9, <1>00, <1>01, <2>1, <2>2, <2>3, <2>4
<1>10. ASSUME NEW r \in Runs, Analyse(r), UNCHANGED dashVars PROVE TypeInv'
  <2>1. StoreTypeOK'
    BY <1>10, StoreTypes DEF Analyse
  <2>2. CacheTypeOK'
    BY <1>10, CacheTypes DEF Analyse
  <2>3. LockTypeOK' /\ HeldIsStored'
    BY <1>10, LockTypes DEF Analyse
  <2>4. RunPart'
    BY <1>10, <1>0 DEF Analyse, Goto, Locations, runData, Verdicts
  <2> QED
    BY <1>10, <1>00, <1>01, <2>1, <2>2, <2>3, <2>4
<1>11. ASSUME NEW r \in Runs, AnalyseFails(r), UNCHANGED dashVars PROVE TypeInv'
  <2>1. StoreTypeOK'
    BY <1>11, StoreTypes DEF AnalyseFails
  <2>2. CacheTypeOK'
    BY <1>11, CacheTypes DEF AnalyseFails
  <2>3. LockTypeOK' /\ HeldIsStored'
    BY <1>11, LockTypes DEF AnalyseFails
  <2>4. RunPart'
    BY <1>11, <1>0 DEF AnalyseFails, Goto, Locations, runData
  <2> QED
    BY <1>11, <1>00, <1>01, <2>1, <2>2, <2>3, <2>4
<1>12. ASSUME NEW r \in Runs, Save(r), UNCHANGED dashVars PROVE TypeInv'
  <2>1. StoreTypeOK'
    BY <1>12, StoreTypes, FinalStatusType DEF Save, ShouldPublish, IsAuto
  <2>2. CacheTypeOK'
    BY <1>12, CacheTypes DEF Save
  <2>3. LockTypeOK' /\ HeldIsStored'
    BY <1>12, LockTypes DEF Save
  <2>4. RunPart'
    BY <1>12, <1>0 DEF Save, Goto, Locations, runData, Verdicts
  <2> QED
    BY <1>12, <1>00, <1>01, <2>1, <2>2, <2>3, <2>4
<1>13. ASSUME NEW r \in Runs, Update(r), UNCHANGED dashVars PROVE TypeInv'
  <2>1. StoreTypeOK'
    BY <1>13, StoreTypes, FinalStatusType DEF Update, ShouldPublish, IsAuto
  <2>2. CacheTypeOK'
    BY <1>13, CacheTypes DEF Update
  <2>3. LockTypeOK' /\ HeldIsStored'
    BY <1>13, LockTypes DEF Update
  <2>4. RunPart'
    BY <1>13, <1>0 DEF Update, Goto, Locations, runData, Verdicts
  <2> QED
    BY <1>13, <1>00, <1>01, <2>1, <2>2, <2>3, <2>4
<1>14. ASSUME NEW r \in Runs, InvalidateCache(r), UNCHANGED dashVars PROVE TypeInv'
  <2>1. StoreTypeOK'
    BY <1>14, StoreTypes DEF InvalidateCache
  <2>2. CacheTypeOK'
    BY <1>14, CacheTypes DEF InvalidateCache
  <2>3. LockTypeOK' /\ HeldIsStored'
    BY <1>14, LockTypes DEF InvalidateCache
  <2>4. RunPart'
    BY <1>14, <1>0 DEF InvalidateCache, Goto, Locations, runData
  <2> QED
    BY <1>14, <1>00, <1>01, <2>1, <2>2, <2>3, <2>4
<1>15. ASSUME NEW r \in Runs, Fail(r), UNCHANGED dashVars PROVE TypeInv'
  <2>1. StoreTypeOK'
    BY <1>15, StoreTypes DEF Fail, RunStatus
  <2>2. CacheTypeOK'
    BY <1>15, CacheTypes DEF Fail
  <2>3. LockTypeOK' /\ HeldIsStored'
    BY <1>15, LockTypes DEF Fail
  <2>4. RunPart'
    BY <1>15, <1>0 DEF Fail, Goto, Locations, runData
  <2> QED
    BY <1>15, <1>00, <1>01, <2>1, <2>2, <2>3, <2>4
<1>16. ASSUME NEW r \in Runs, ReleaseLock(r), UNCHANGED dashVars PROVE TypeInv'
  <2>1. StoreTypeOK'
    BY <1>16, StoreTypes DEF ReleaseLock
  <2>2. CacheTypeOK'
    BY <1>16, CacheTypes DEF ReleaseLock
  <2>3. LockTypeOK' /\ HeldIsStored'
    BY <1>16, LockTypes DEF ReleaseLock
  <2>4. RunPart'
    BY <1>16, <1>0 DEF ReleaseLock, Goto, Locations, runData, Verdicts
  <2> QED
    BY <1>16, <1>00, <1>01, <2>1, <2>2, <2>3, <2>4
<1>17. ASSUME NEW r \in Runs, Retry(r), UNCHANGED dashVars PROVE TypeInv'
  <2>1. StoreTypeOK'
    BY <1>17, StoreTypes DEF Retry
  <2>2. CacheTypeOK'
    BY <1>17, CacheTypes DEF Retry
  <2>3. LockTypeOK' /\ HeldIsStored'
    BY <1>17, LockTypes DEF Retry
  <2>4. RunPart'
    BY <1>17, <1>0 DEF Retry, Goto, Locations, runData, Retries
  <2> QED
    BY <1>17, <1>00, <1>01, <2>1, <2>2, <2>3, <2>4
<1>18. ASSUME NEW r \in Runs, GiveUp(r), UNCHANGED dashVars PROVE TypeInv'
  <2>1. StoreTypeOK'
    BY <1>18, StoreTypes DEF GiveUp
  <2>2. CacheTypeOK'
    BY <1>18, CacheTypes DEF GiveUp
  <2>3. LockTypeOK' /\ HeldIsStored'
    BY <1>18, LockTypes DEF GiveUp
  <2>4. RunPart'
    BY <1>18, <1>0 DEF GiveUp, Goto, Locations, runData
  <2> QED
    BY <1>18, <1>00, <1>01, <2>1, <2>2, <2>3, <2>4
<1>19. ASSUME NEW r \in Runs, StoreFault(r), UNCHANGED dashVars PROVE TypeInv'
  <2>1. StoreTypeOK'
    BY <1>19, StoreTypes DEF StoreFault
  <2>2. CacheTypeOK'
    BY <1>19, CacheTypes DEF StoreFault
  <2>3. LockTypeOK' /\ HeldIsStored'
    BY <1>19, LockTypes DEF StoreFault
  <2>4. RunPart'
    BY <1>19, <1>0 DEF StoreFault, Goto, Locations, runData, AfterFault
  <2> QED
    BY <1>19, <1>00, <1>01, <2>1, <2>2, <2>3, <2>4
<1>20. ASSUME NEW r \in Runs, Crash(r), UNCHANGED dashVars PROVE TypeInv'
  <2>1. StoreTypeOK'
    BY <1>20, StoreTypes DEF Crash
  <2>2. CacheTypeOK'
    BY <1>20, CacheTypes DEF Crash
  <2>3. LockTypeOK' /\ HeldIsStored'
    BY <1>20, LockTypes DEF Crash
  <2>4. RunPart'
    BY <1>20, <1>0 DEF Crash, Goto, Locations, runData
  <2> QED
    BY <1>20, <1>00, <1>01, <2>1, <2>2, <2>3, <2>4
<1>21. ASSUME LockExpires, UNCHANGED dashVars PROVE TypeInv'
  <2>1. StoreTypeOK'
    BY <1>21, StoreUnchanged DEF LockExpires
  <2>2. CacheTypeOK'
    BY <1>21, CacheTypes DEF LockExpires
  <2>3. LockTypeOK' /\ HeldIsStored'
    BY <1>21, LockTypes DEF LockExpires
  <2>4. RunPart'
    BY <1>21, <1>0 DEF LockExpires, runVars
  <2> QED
    BY <1>21, <1>00, <1>01, <2>1, <2>2, <2>3, <2>4
<1>22. ASSUME NEW a \in Admins, NEW r \in Runs, NEW b \in BOOLEAN,
             AdminReview(a, r, b), UNCHANGED runOnly
      PROVE  TypeInv'
  <2>1. StoreTypeOK'
    BY <1>22, StoreUnchanged DEF AdminReview
  <2>2. CacheTypeOK'
    BY <1>22, CacheTypes DEF AdminReview
  <2>3. LockTypeOK' /\ HeldIsStored' /\ RunPart'
    BY <1>22, LockTypes, <1>02 DEF runOnly
  <2>4. DashTypeOK'
    BY <1>22, StoreAssumption DEF AdminReview, DashTypeOK, AdminStates, At
  <2> QED
    BY <1>00, <2>1, <2>2, <2>3, <2>4
<1>23. ASSUME NEW a \in Admins, AdminClear(a), UNCHANGED runOnly PROVE TypeInv'
  <2>1. StoreTypeOK'
    BY <1>23, StoreUnchanged DEF AdminClear
  <2>2. CacheTypeOK'
    BY <1>23, CacheTypes DEF AdminClear
  <2>3. LockTypeOK' /\ HeldIsStored' /\ RunPart'
    BY <1>23, LockTypes, <1>02 DEF runOnly
  <2>4. DashTypeOK'
    <3>1. CASE admin' = [admin EXCEPT ![a] = Idle]
      BY <1>23, <3>1 DEF AdminClear, DashTypeOK, AdminStates, At, Idle
    <3>2. CASE admin' = [admin EXCEPT ![a].pc = "cleared", ![a].backdated = FALSE]
      BY <1>23, <3>2 DEF AdminClear, DashTypeOK, AdminStates, At
    <3> QED
      BY <1>23, <3>1, <3>2 DEF AdminClear
  <2> QED
    BY <1>00, <2>1, <2>2, <2>3, <2>4
<1>24. ASSUME NEW a \in Admins, AdminPublish(a), UNCHANGED runOnly PROVE TypeInv'
  <2>0. admin[a].run \in Runs
    BY <1>24 DEF AdminPublish, At, DashTypeOK
  <2>1. StoreTypeOK'
    BY <1>24, StoreTypes, <2>0 DEF AdminPublish
  <2>2. CacheTypeOK'
    BY <1>24, CacheTypes DEF AdminPublish
  <2>3. LockTypeOK' /\ HeldIsStored' /\ RunPart'
    BY <1>24, LockTypes, <1>02 DEF runOnly
  <2>4. DashTypeOK'
    BY <1>24, <2>0 DEF AdminPublish, DashTypeOK, AdminStates, At, AdminGoto
  <2> QED
    BY <1>00, <2>1, <2>2, <2>3, <2>4
<1>25. ASSUME NEW a \in Admins, AdminInvalidate(a), UNCHANGED runOnly PROVE TypeInv'
  <2>1. StoreTypeOK'
    BY <1>25, StoreUnchanged DEF AdminInvalidate
  <2>2. CacheTypeOK'
    BY <1>25, CacheTypes DEF AdminInvalidate
  <2>3. LockTypeOK' /\ HeldIsStored' /\ RunPart'
    BY <1>25, LockTypes, <1>02 DEF runOnly
  <2>4. DashTypeOK'
    BY <1>25 DEF AdminInvalidate, DashTypeOK, AdminStates, At, AdminGoto
  <2> QED
    BY <1>00, <2>1, <2>2, <2>3, <2>4
<1>26. ASSUME NEW a \in Admins, AdminAudit(a), UNCHANGED runOnly PROVE TypeInv'
  <2>1. StoreTypeOK'
    BY <1>26, StoreUnchanged DEF AdminAudit
  <2>2. CacheTypeOK'
    BY <1>26, CacheTypes DEF AdminAudit
  <2>3. LockTypeOK' /\ HeldIsStored' /\ RunPart'
    BY <1>26, LockTypes, <1>02 DEF runOnly
  <2>4. DashTypeOK'
    BY <1>26 DEF AdminAudit, DashTypeOK, AdminStates, At, Idle
  <2> QED
    BY <1>00, <2>1, <2>2, <2>3, <2>4
<1>27. ASSUME NEW a \in Admins, AdminFault(a), UNCHANGED <<theLock, runVars>> PROVE TypeInv'
  <2>1. StoreTypeOK'
    BY <1>27, StoreUnchanged DEF AdminFault, AdminCrash
  <2>2. CacheTypeOK'
    BY <1>27, CacheTypes DEF AdminFault, AdminCrash
  <2>3. LockTypeOK' /\ HeldIsStored' /\ RunPart'
    BY <1>27, LockTypes, <1>0 DEF AdminFault, runVars
  <2>4. DashTypeOK'
    BY <1>27 DEF AdminFault, DashTypeOK, AdminStates, AdminCrash, AdminGoto
  <2> QED
    BY <1>00, <2>1, <2>2, <2>3, <2>4
<1>28. ASSUME NEW p \in Readers, ReadCache(p), UNCHANGED runOnly PROVE TypeInv'
  <2>1. StoreTypeOK'
    BY <1>28, StoreUnchanged DEF ReadCache
  <2>2. CacheTypeOK'
    BY <1>28, CacheTypes DEF ReadCache
  <2>3. LockTypeOK' /\ HeldIsStored' /\ RunPart'
    BY <1>28, LockTypes, <1>02 DEF runOnly
  <2>4. DashTypeOK'
    BY <1>28 DEF ReadCache, DashTypeOK, AdminStates, CacheTypeOK
  <2> QED
    BY <1>00, <2>1, <2>2, <2>3, <2>4
<1>29. ASSUME NEW p \in Readers, ReadStore(p), UNCHANGED runOnly PROVE TypeInv'
  <2>1. StoreTypeOK'
    BY <1>29, StoreUnchanged DEF ReadStore
  <2>2. CacheTypeOK'
    BY <1>29, CacheTypes DEF ReadStore
  <2>3. LockTypeOK' /\ HeldIsStored' /\ RunPart'
    BY <1>29, LockTypes, <1>02 DEF runOnly
  <2>4. DashTypeOK'
    BY <1>29, LatestPublishedType DEF ReadStore, DashTypeOK, AdminStates, Published
  <2> QED
    BY <1>00, <2>1, <2>2, <2>3, <2>4
<1>30. ASSUME NEW p \in Readers, Answer(p), UNCHANGED runOnly PROVE TypeInv'
  <2>0. reading[p] \in Runs
    BY <1>30 DEF Answer, DashTypeOK
  <2>1. StoreTypeOK'
    BY <1>30, StoreUnchanged DEF Answer
  <2>2. CacheTypeOK'
    BY <1>30, CacheTypes, <2>0 DEF Answer
  <2>3. LockTypeOK' /\ HeldIsStored' /\ RunPart'
    BY <1>30, LockTypes, <1>02 DEF runOnly
  <2>4. DashTypeOK'
    BY <1>30, <2>0 DEF Answer, DashTypeOK, AdminStates
  <2> QED
    BY <1>00, <2>1, <2>2, <2>3, <2>4
<1>31. ASSUME CacheAges, UNCHANGED runOnly PROVE TypeInv'
  <2>1. StoreTypeOK'
    BY <1>31, StoreUnchanged DEF CacheAges
  <2>2. CacheTypeOK'
    BY <1>31, CacheTypes DEF CacheAges
  <2>3. LockTypeOK' /\ HeldIsStored' /\ RunPart'
    BY <1>31, LockTypes, <1>02 DEF runOnly
  <2>4. DashTypeOK'
    BY <1>31 DEF CacheAges, DashTypeOK, AdminStates, dashVars
  <2> QED
    BY <1>00, <2>1, <2>2, <2>3, <2>4
<1> QED
  BY <1>1, <1>2, <1>3, <1>4, <1>5, <1>6, <1>7, <1>8, <1>9, <1>10, <1>11, <1>12, <1>13, <1>14, <1>15, <1>16, <1>17, <1>18, <1>19, <1>20, <1>21, <1>22, <1>23, <1>24, <1>25, <1>26, <1>27, <1>28, <1>29, <1>30, <1>31 DEF Next

LEMMA StutterTypes ==
  ASSUME TypeInv, UNCHANGED allVars
  PROVE  TypeInv'
<1> USE DEF TypeInv, TypeOK, allVars, vars
<1>1. StoreTypeOK'
  BY StoreUnchanged
<1>2. CacheTypeOK'
  BY CacheTypes
<1>3. LockTypeOK' /\ HeldIsStored'
  BY LockTypes
<1>4. RunTypeOK'
  BY <1>3 DEF RunTypeOK, runVars
<1>5. DashTypeOK'
  BY DEF dashVars, DashTypeOK
<1> QED
  BY <1>1, <1>2, <1>3, <1>4, <1>5

(* Every variable keeps to its type, and a lock a worker believes to hold is  *)
(* its own in Redis, in the composed system.                                  *)
THEOREM TypesHold == Spec => [](TypeOK /\ HeldIsStored)
<1>1. TypeInv /\ [Next]_allVars => TypeInv'
  BY StepTypes, StutterTypes
<1> QED
  BY <1>1, InitTypes, PTL DEF Spec, TypeInv

----------------------------------------------------------------------------
(* The lock.                                                                  *)

LockRunInv == TypeInv /\ LockFollowsRun

(* Steps of a run between two places on the same side of the lock.            *)
LEMMA SameSide ==
  ASSUME LockRunInv, NEW r \in Runs, NEW l,
         pc' = [pc EXCEPT ![r] = l], l \in Guarded <=> pc[r] \in Guarded,
         UNCHANGED <<lease, kind, date>>
  PROVE  LockFollowsRun'
  BY DEF LockRunInv, TypeInv, TypeOK, RunTypeOK, LockFollowsRun, Inside, LockKey, RunMode

(* Steps that leave the runs' places, keys and leases alone.                  *)
LEMMA NoSide ==
  ASSUME LockRunInv, UNCHANGED <<pc, lease, kind, date>>
  PROVE  LockFollowsRun'
  BY DEF LockRunInv, LockFollowsRun, Inside, LockKey, RunMode

LEMMA InitLockRun == Init => LockRunInv
<1>1. ASSUME Init, NEW r \in Runs PROVE ~Inside(r) /\ pc[r] \notin Guarded
  <2>1. lease[r] = NoLease /\ pc[r] = "new"
    BY <1>1 DEF Init, RunInit, LockInit
  <2> QED
    BY <2>1 DEF NoLease, Inside, Guarded
<1> QED
  BY <1>1, InitTypes DEF LockRunInv, LockFollowsRun

LEMMA StepLockRun ==
  ASSUME LockRunInv, Next
  PROVE  LockFollowsRun'
<1> USE DEF Guarded
<1>1. ASSUME NEW r \in Runs, NEW k \in RunKinds, NEW b \in Runs \cup {NoRun}, Submit(r, k, b)
      PROVE LockFollowsRun'
  <2>1. pc'[r] \notin Guarded /\ \A s \in Runs \ {r} : pc'[s] = pc[s] /\ kind'[s] = kind[s]
    BY <1>1 DEF Submit, Goto, LockRunInv, TypeInv, TypeOK, RunTypeOK
  <2>2. UNCHANGED <<lease, date>>
    BY <1>1 DEF Submit, theLock, ReserveRun, storeVars
  <2>3. ~Inside(r)
    BY <1>1 DEF Submit, LockRunInv, LockFollowsRun
  <2> QED
    BY <2>1, <2>2, <2>3 DEF LockRunInv, LockFollowsRun, Inside, LockKey, RunMode
<1>2. ASSUME NEW r \in Runs, Deploy(r) PROVE LockFollowsRun'
  BY <1>2, SameSide DEF Deploy, Goto, runData, theLock, storeVars
<1>3. ASSUME NEW r \in Runs, Prepare(r) PROVE LockFollowsRun'
  BY <1>3, SameSide DEF Prepare, Goto, runData, theLock, storeVars
<1>4. ASSUME NEW r \in Runs, PrepareFails(r) PROVE LockFollowsRun'
  BY <1>4, SameSide DEF PrepareFails, Goto, runData, theLock, storeVars
<1>5. ASSUME NEW r \in Runs, LockRefused(r) PROVE LockFollowsRun'
  BY <1>5, SameSide DEF LockRefused, Goto, runData, theLock, storeVars
<1>6. ASSUME NEW r \in Runs, FailRefused(r) PROVE LockFollowsRun'
  BY <1>6, SameSide DEF FailRefused, UpdateRun, Goto, runData, theLock, storeVars
<1>7. ASSUME NEW r \in Runs, Analyse(r) PROVE LockFollowsRun'
  BY <1>7, SameSide DEF Analyse, Goto, runData, theLock, storeVars
<1>8. ASSUME NEW r \in Runs, AnalyseFails(r) PROVE LockFollowsRun'
  BY <1>8, SameSide DEF AnalyseFails, Goto, runData, theLock, storeVars
<1>9. ASSUME NEW r \in Runs, Save(r) PROVE LockFollowsRun'
  BY <1>9, SameSide DEF Save, SaveSnapshot, Goto, runData, theLock, storeVars
<1>10. ASSUME NEW r \in Runs, Update(r) PROVE LockFollowsRun'
  BY <1>10, SameSide DEF Update, UpdateRun, Goto, runData, theLock, storeVars
<1>11. ASSUME NEW r \in Runs, InvalidateCache(r) PROVE LockFollowsRun'
  BY <1>11, SameSide DEF InvalidateCache, Goto, runData, theLock, storeVars
<1>12. ASSUME NEW r \in Runs, Fail(r) PROVE LockFollowsRun'
  BY <1>12, SameSide DEF Fail, UpdateRun, Goto, runData, theLock, storeVars
<1>13. ASSUME NEW r \in Runs, Retry(r) PROVE LockFollowsRun'
  BY <1>13, SameSide DEF Retry, Goto, runData, theLock, storeVars
<1>14. ASSUME NEW r \in Runs, GiveUp(r) PROVE LockFollowsRun'
  BY <1>14, SameSide DEF GiveUp, Goto, runData, theLock, storeVars
<1>15. ASSUME NEW r \in Runs, DeployFails(r) PROVE LockFollowsRun'
  <2>1. PICK l \in {"queued", "done"} : pc' = [pc EXCEPT ![r] = l]
    BY <1>15 DEF DeployFails
  <2> QED
    BY <1>15, <2>1, SameSide DEF DeployFails, UpdateRun, runData, theLock, storeVars
<1>16. ASSUME NEW r \in Runs, StoreFault(r) PROVE LockFollowsRun'
  <2>1. AfterFault(pc[r]) \in Guarded <=> pc[r] \in Guarded
    BY <1>16 DEF StoreFault, AfterFault
  <2> QED
    BY <1>16, <2>1, SameSide DEF StoreFault, Goto, runData, theLock, storeVars
<1>17. ASSUME NEW r \in Runs, Create(r) PROVE LockFollowsRun'
  <2>1. pc[r] \notin Guarded /\ pc'[r] \notin Guarded /\ UNCHANGED <<lease, kind>>
    BY <1>17 DEF Create, Goto, runData, theLock, LockRunInv, TypeInv, TypeOK, RunTypeOK
  <2>2. \A s \in Runs \ {r} : pc'[s] = pc[s] /\ date'[s] = date[s]
    BY <1>17 DEF Create, CreateRun, Goto, LockRunInv, TypeInv, TypeOK, RunTypeOK, StoreTypeOK
  <2> QED
    BY <2>1, <2>2 DEF LockRunInv, LockFollowsRun, Inside, LockKey, RunMode
<1>18. ASSUME NEW r \in Runs, AcquireLock(r) PROVE LockFollowsRun'
  <2>1. pc'[r] \in Guarded /\ lease'[r].state # "none" /\ lease'[r].key = LockKey(r)
    BY <1>18 DEF AcquireLock, Acquire, AcquireDisabled, AcquireGranted, AcquireDegraded, Goto,
           LockRunInv, TypeInv, TypeOK, RunTypeOK, LockTypeOK
  <2>2. \A s \in Runs \ {r} : pc'[s] = pc[s] /\ lease'[s] = lease[s]
    BY <1>18 DEF AcquireLock, Acquire, AcquireDisabled, AcquireGranted, AcquireDegraded, Goto, LockRunInv, TypeInv, TypeOK, RunTypeOK, LockTypeOK
  <2>3. UNCHANGED <<kind, date>>
    BY <1>18 DEF AcquireLock, runData, storeVars
  <2> QED
    BY <2>1, <2>2, <2>3 DEF LockRunInv, LockFollowsRun, Inside, LockKey, RunMode
<1>19. ASSUME NEW r \in Runs, ReleaseLock(r) PROVE LockFollowsRun'
  <2>1. pc'[r] \notin Guarded /\ lease'[r].state = "none"
    BY <1>19 DEF ReleaseLock, Release, NoLease, Goto, LockRunInv, TypeInv, TypeOK, RunTypeOK, LockTypeOK
  <2>2. \A s \in Runs \ {r} : pc'[s] = pc[s] /\ lease'[s] = lease[s]
    BY <1>19 DEF ReleaseLock, Release, Goto, LockRunInv, TypeInv, TypeOK, RunTypeOK, LockTypeOK
  <2>3. UNCHANGED <<kind, date>>
    BY <1>19 DEF ReleaseLock, runData, storeVars
  <2> QED
    BY <2>1, <2>2, <2>3 DEF LockRunInv, LockFollowsRun, Inside, LockKey, RunMode
<1>20. ASSUME NEW r \in Runs, Crash(r) PROVE LockFollowsRun'
  <2>1. pc'[r] \notin Guarded /\ lease'[r].state = "none"
    BY <1>20 DEF Crash, Vanish, NoLease, Goto, LockRunInv, TypeInv, TypeOK, RunTypeOK, LockTypeOK
  <2>2. \A s \in Runs \ {r} : pc'[s] = pc[s] /\ lease'[s] = lease[s]
    BY <1>20 DEF Crash, Vanish, Goto, LockRunInv, TypeInv, TypeOK, RunTypeOK, LockTypeOK
  <2>3. UNCHANGED <<kind, date>>
    BY <1>20 DEF Crash, runData, storeVars
  <2> QED
    BY <2>1, <2>2, <2>3 DEF LockRunInv, LockFollowsRun, Inside, LockKey, RunMode
<1>21. ASSUME LockExpires PROVE LockFollowsRun'
  <2>1. UNCHANGED <<pc, kind, date>>
    BY <1>21 DEF LockExpires, runVars, storeVars
  <2>2. \A r \in Runs : lease'[r].key = lease[r].key /\ (lease'[r].state = "none" <=> lease[r].state = "none")
    BY <1>21 DEF LockExpires, ExpireKey, LockRunInv, TypeInv, TypeOK, RunTypeOK, LockTypeOK
  <2> QED
    BY <2>1, <2>2 DEF LockRunInv, LockFollowsRun, Inside, LockKey, RunMode
<1>22. ASSUME NEW a \in Admins, NEW r \in Runs, NEW b \in BOOLEAN, AdminReview(a, r, b), UNCHANGED runOnly
      PROVE LockFollowsRun'
  BY <1>22, NoSide DEF AdminReview, runOnly, runVars, theLock, storeVars
<1>23. ASSUME NEW a \in Admins, AdminClear(a), UNCHANGED runOnly PROVE LockFollowsRun'
  BY <1>23, NoSide DEF AdminClear, runOnly, runVars, theLock, storeVars
<1>24. ASSUME NEW a \in Admins, AdminPublish(a), UNCHANGED runOnly PROVE LockFollowsRun'
  BY <1>24, NoSide DEF AdminPublish, Publish, runOnly, runVars, theLock, storeVars
<1>25. ASSUME NEW a \in Admins, AdminInvalidate(a), UNCHANGED runOnly PROVE LockFollowsRun'
  BY <1>25, NoSide DEF AdminInvalidate, runOnly, runVars, theLock, storeVars
<1>26. ASSUME NEW a \in Admins, AdminAudit(a), UNCHANGED runOnly PROVE LockFollowsRun'
  BY <1>26, NoSide DEF AdminAudit, runOnly, runVars, theLock, storeVars
<1>27. ASSUME NEW a \in Admins, AdminFault(a), UNCHANGED <<theLock, runVars>> PROVE LockFollowsRun'
  BY <1>27, NoSide DEF AdminFault, AdminCrash, runOnly, runVars, theLock, storeVars
<1>28. ASSUME NEW p \in Readers, ReadCache(p), UNCHANGED runOnly PROVE LockFollowsRun'
  BY <1>28, NoSide DEF ReadCache, runOnly, runVars, theLock, storeVars
<1>29. ASSUME NEW p \in Readers, ReadStore(p), UNCHANGED runOnly PROVE LockFollowsRun'
  BY <1>29, NoSide DEF ReadStore, runOnly, runVars, theLock, storeVars
<1>30. ASSUME NEW p \in Readers, Answer(p), UNCHANGED runOnly PROVE LockFollowsRun'
  BY <1>30, NoSide DEF Answer, runOnly, runVars, theLock, storeVars
<1>31. ASSUME CacheAges, UNCHANGED runOnly PROVE LockFollowsRun'
  BY <1>31, NoSide DEF CacheAges, runOnly, runVars, theLock, storeVars
<1> QED
  BY <1>1, <1>2, <1>3, <1>4, <1>5, <1>6, <1>7, <1>8, <1>9, <1>10, <1>11, <1>12, <1>13, <1>14, <1>15, <1>16, <1>17, <1>18, <1>19, <1>20, <1>21, <1>22, <1>23, <1>24, <1>25, <1>26, <1>27, <1>28, <1>29, <1>30, <1>31 DEF Next

THEOREM LockHeldInSection == Spec => []LockFollowsRun
<1>1. LockRunInv /\ [Next]_allVars => LockRunInv'
  <2>1. ASSUME LockRunInv, UNCHANGED allVars PROVE LockFollowsRun'
    BY <2>1, NoSide DEF allVars, vars, runVars, theLock, storeVars
  <2> QED
    BY <2>1, StepTypes, StutterTypes, StepLockRun DEF LockRunInv
<1> QED
  BY <1>1, InitLockRun, PTL DEF Spec, LockRunInv

(* One attempt per analysis date and mode, as long as leases are alive: the   *)
(* promise of the lock carried over to the program that uses it.              *)
THEOREM AttemptsExclude == Spec => []OneAttemptPerKey
<1>1. TypeOK /\ HeldIsStored /\ LockFollowsRun => OneAttemptPerKey
  BY DEF TypeOK, RunTypeOK, LockTypeOK, HeldIsStored, LockFollowsRun, OneAttemptPerKey, Inside
<1> QED
  BY <1>1, TypesHold, LockHeldInSection, PTL
----------------------------------------------------------------------------
(* Approval.  It needs that a run id is not published before it is triggered, *)
(* for its kind is decided then.                                              *)

Untouched == \A r \in Runs : pc[r] = "new" => snapshot[r] = NoSnapshot

ApprovalInv == TypeInv /\ Untouched /\ ManualNeedsApproval

(* Steps of a run that was triggered, other than saving its snapshot.         *)
Quiet(r) ==
    \/ Deploy(r) \/ DeployFails(r) \/ Prepare(r) \/ PrepareFails(r) \/ Create(r)
    \/ AcquireLock(r) \/ LockRefused(r) \/ FailRefused(r) \/ Analyse(r) \/ AnalyseFails(r)
    \/ Update(r) \/ InvalidateCache(r) \/ Fail(r) \/ ReleaseLock(r)
    \/ Retry(r) \/ GiveUp(r) \/ StoreFault(r) \/ Crash(r)

LEMMA QuietSteps ==
  ASSUME TypeInv, NEW r \in Runs, Quiet(r)
  PROVE  UNCHANGED <<kind, snapshot>> /\ pc'[r] # "new" /\ \A s \in Runs \ {r} : pc'[s] = pc[s]
<1> USE DEF TypeInv, TypeOK, RunTypeOK, Goto, runData, storeVars
<1>1. CASE Deploy(r)
  BY <1>1 DEF Deploy
<1>2. CASE DeployFails(r)
  BY <1>2 DEF DeployFails, UpdateRun
<1>3. CASE Prepare(r)
  BY <1>3 DEF Prepare
<1>4. CASE PrepareFails(r)
  BY <1>4 DEF PrepareFails
<1>5. CASE Create(r)
  BY <1>5 DEF Create, CreateRun
<1>6. CASE AcquireLock(r)
  BY <1>6 DEF AcquireLock
<1>7. CASE LockRefused(r)
  BY <1>7 DEF LockRefused
<1>8. CASE FailRefused(r)
  BY <1>8 DEF FailRefused, UpdateRun
<1>9. CASE Analyse(r)
  BY <1>9 DEF Analyse
<1>10. CASE AnalyseFails(r)
  BY <1>10 DEF AnalyseFails
<1>11. CASE Update(r)
  BY <1>11 DEF Update, UpdateRun
<1>12. CASE InvalidateCache(r)
  BY <1>12 DEF InvalidateCache
<1>13. CASE Fail(r)
  BY <1>13 DEF Fail, UpdateRun
<1>14. CASE ReleaseLock(r)
  BY <1>14 DEF ReleaseLock
<1>15. CASE Retry(r)
  BY <1>15 DEF Retry
<1>16. CASE GiveUp(r)
  BY <1>16 DEF GiveUp
<1>17. CASE StoreFault(r)
  BY <1>17 DEF StoreFault, AfterFault
<1>18. CASE Crash(r)
  BY <1>18 DEF Crash
<1> QED
  BY <1>1, <1>2, <1>3, <1>4, <1>5, <1>6, <1>7, <1>8, <1>9, <1>10, <1>11, <1>12, <1>13, <1>14, <1>15, <1>16, <1>17, <1>18 DEF Quiet

(* What an administrator has published stays known as published by one.       *)
LEMMA ApprovalStays ==
  ASSUME TypeInv, [Next]_allVars
  PROVE  \A r \in Runs : PublishedByAdmin(r) => PublishedByAdmin(r)'
<1> DEFINE Stays == \A r \in Runs : PublishedByAdmin(r) => PublishedByAdmin(r)'
<1>1. CASE UNCHANGED <<admin, audit>>
  BY <1>1 DEF PublishedByAdmin
<1>2. ASSUME NEW a \in Admins, NEW r \in Runs, NEW b \in BOOLEAN, AdminReview(a, r, b) PROVE Stays
  BY <1>2 DEF AdminReview, PublishedByAdmin, At, Idle, TypeInv, TypeOK, DashTypeOK
<1>3. ASSUME NEW a \in Admins, AdminClear(a) PROVE Stays
  BY <1>3 DEF AdminClear, PublishedByAdmin, At, AdminGoto, Idle, TypeInv, TypeOK, DashTypeOK
<1>4. ASSUME NEW a \in Admins, AdminPublish(a) PROVE Stays
  BY <1>4 DEF AdminPublish, PublishedByAdmin, At, AdminGoto, TypeInv, TypeOK, DashTypeOK
<1>5. ASSUME NEW a \in Admins, AdminInvalidate(a) PROVE Stays
  BY <1>5 DEF AdminInvalidate, PublishedByAdmin, At, AdminGoto, TypeInv, TypeOK, DashTypeOK
<1>6. ASSUME NEW a \in Admins, AdminAudit(a) PROVE Stays
  BY <1>6 DEF AdminAudit, PublishedByAdmin, At, Idle, TypeInv, TypeOK, DashTypeOK
<1>7. ASSUME NEW a \in Admins, AdminFault(a) PROVE Stays
  BY <1>7 DEF AdminFault, AdminCrash, PublishedByAdmin, AdminGoto, TypeInv, TypeOK, DashTypeOK
<1>8. ASSUME NEW p \in Readers, ReadCache(p) \/ ReadStore(p) \/ Answer(p) PROVE Stays
  BY <1>1, <1>8 DEF ReadCache, ReadStore, Answer
<1>9. CASE CacheAges \/ UNCHANGED allVars
  BY <1>1, <1>9 DEF CacheAges, dashVars, allVars
<1> QED
  BY <1>1, <1>2, <1>3, <1>4, <1>5, <1>6, <1>7, <1>8, <1>9 DEF Next, dashVars

(* Steps of the requests that publish nothing.                                *)
LEMMA QuietKeepsApproval ==
  ASSUME ApprovalInv, UNCHANGED <<kind, snapshot>>,
         \A r \in Runs : pc'[r] = "new" => pc[r] = "new",
         \A r \in Runs : PublishedByAdmin(r) => PublishedByAdmin(r)'
  PROVE  Untouched' /\ ManualNeedsApproval'
  BY DEF ApprovalInv, Untouched, ManualNeedsApproval, Published

LEMMA InitApproval == Init => ApprovalInv
<1> SUFFICES ASSUME Init PROVE Untouched /\ ManualNeedsApproval
  BY InitTypes DEF ApprovalInv
<1>1. \A r \in Runs : snapshot[r] = NoSnapshot /\ ~snapshot[r].published
  BY DEF Init, StoreInit, NoSnapshot
<1> QED
  BY <1>1 DEF Untouched, ManualNeedsApproval, Published

LEMMA StepApproval ==
  ASSUME ApprovalInv, Next
  PROVE  Untouched' /\ ManualNeedsApproval'
<1>0. TypeInv
  BY DEF ApprovalInv
<1>00. \A r \in Runs : PublishedByAdmin(r) => PublishedByAdmin(r)'
  BY <1>0, ApprovalStays
<1>1. ASSUME NEW r \in Runs, Quiet(r), UNCHANGED dashVars PROVE Untouched' /\ ManualNeedsApproval'
  BY <1>0, <1>00, <1>1, QuietSteps, QuietKeepsApproval
<1>2. ASSUME NEW r \in Runs, NEW k \in RunKinds, NEW b \in Runs \cup {NoRun},
             Submit(r, k, b), UNCHANGED dashVars
      PROVE Untouched' /\ ManualNeedsApproval'
  <2>1. UNCHANGED snapshot /\ \A s \in Runs \ {r} : pc'[s] = pc[s] /\ kind'[s] = kind[s]
    BY <1>0, <1>2 DEF Submit, Goto, ReserveRun, storeVars, TypeInv, TypeOK, RunTypeOK
  <2>2. pc[r] = "new" /\ pc'[r] # "new"
    BY <1>0, <1>2 DEF Submit, Goto, TypeInv, TypeOK, RunTypeOK
  <2>3. ~snapshot[r].published
    BY <2>2 DEF ApprovalInv, Untouched, NoSnapshot
  <2> QED
    BY <1>00, <1>2, <2>1, <2>2, <2>3 DEF ApprovalInv, Untouched, ManualNeedsApproval, Published
<1>3. ASSUME NEW r \in Runs, Save(r), UNCHANGED dashVars PROVE Untouched' /\ ManualNeedsApproval'
  <2>1. UNCHANGED kind /\ pc'[r] # "new" /\ \A s \in Runs \ {r} : pc'[s] = pc[s]
    BY <1>0, <1>3 DEF Save, Goto, runData, TypeInv, TypeOK, RunTypeOK
  <2>2. \A s \in Runs \ {r} : snapshot'[s] = snapshot[s]
    BY <1>0, <1>3 DEF Save, SaveSnapshot, TypeInv, TypeOK, StoreTypeOK
  <2>3. snapshot'[r].published => kind[r] = "scheduled"
    BY <1>0, <1>3 DEF Save, SaveSnapshot, ShouldPublish, IsAuto, TypeInv, TypeOK, StoreTypeOK
  <2> QED
    BY <1>00, <1>3, <2>1, <2>2, <2>3 DEF ApprovalInv, Untouched, ManualNeedsApproval, Published
<1>4. ASSUME LockExpires, UNCHANGED dashVars PROVE Untouched' /\ ManualNeedsApproval'
  BY <1>00, <1>4, QuietKeepsApproval DEF LockExpires, runVars, storeVars
<1>5. ASSUME NEW a \in Admins, NEW r \in Runs, NEW b \in BOOLEAN,
             AdminReview(a, r, b), UNCHANGED runOnly
      PROVE Untouched' /\ ManualNeedsApproval'
  BY <1>00, <1>5, QuietKeepsApproval DEF AdminReview, runOnly, runVars, storeVars
<1>6. ASSUME NEW a \in Admins, AdminClear(a), UNCHANGED runOnly PROVE Untouched' /\ ManualNeedsApproval'
  BY <1>00, <1>6, QuietKeepsApproval DEF AdminClear, runOnly, runVars, storeVars
<1>7. ASSUME NEW a \in Admins, AdminInvalidate(a), UNCHANGED runOnly PROVE Untouched' /\ ManualNeedsApproval'
  BY <1>00, <1>7, QuietKeepsApproval DEF AdminInvalidate, runOnly, runVars, storeVars
<1>8. ASSUME NEW a \in Admins, AdminAudit(a), UNCHANGED runOnly PROVE Untouched' /\ ManualNeedsApproval'
  BY <1>00, <1>8, QuietKeepsApproval DEF AdminAudit, runOnly, runVars, storeVars
<1>9. ASSUME NEW a \in Admins, AdminFault(a), UNCHANGED <<theLock, runVars>> PROVE Untouched' /\ ManualNeedsApproval'
  BY <1>00, <1>9, QuietKeepsApproval DEF AdminFault, AdminCrash, runOnly, runVars, storeVars
<1>10. ASSUME NEW a \in Admins, AdminPublish(a), UNCHANGED runOnly PROVE Untouched' /\ ManualNeedsApproval'
  <2>0. PICK r \in Runs : r = admin[a].run
    BY <1>0, <1>10 DEF AdminPublish, At, TypeInv, TypeOK, DashTypeOK
  <2>2. PublishedByAdmin(r)'
    BY <1>0, <1>10, <2>0 DEF AdminPublish, PublishedByAdmin, At, AdminGoto, TypeInv, TypeOK, DashTypeOK
  <2>3. \A s \in Runs \ {r} : snapshot'[s] = snapshot[s]
    BY <1>0, <1>10, <2>0 DEF AdminPublish, Publish, TypeInv, TypeOK, StoreTypeOK
  <2>4. pc[r] # "new"
    BY <1>10, <2>0 DEF AdminPublish, Publish, HasSnapshot, NoSnapshot, ApprovalInv, Untouched
  <2>5. UNCHANGED <<kind, pc>>
    BY <1>10 DEF runOnly, runVars
  <2>6. Untouched'
    BY <2>3, <2>4, <2>5 DEF ApprovalInv, Untouched
  <2>7. ManualNeedsApproval'
    <3> SUFFICES ASSUME NEW s \in Published' PROVE kind'[s] = "scheduled" \/ PublishedByAdmin(s)'
      BY DEF ManualNeedsApproval
    <3>1. CASE s = r
      BY <3>1, <2>2
    <3>2. CASE s # r
      BY <1>00, <3>2, <2>3, <2>5 DEF ApprovalInv, ManualNeedsApproval, Published
    <3> QED
      BY <3>1, <3>2
  <2> QED
    BY <2>6, <2>7
<1>11. ASSUME NEW p \in Readers, ReadCache(p), UNCHANGED runOnly PROVE Untouched' /\ ManualNeedsApproval'
  BY <1>00, <1>11, QuietKeepsApproval DEF ReadCache, runOnly, runVars, storeVars
<1>12. ASSUME NEW p \in Readers, ReadStore(p), UNCHANGED runOnly PROVE Untouched' /\ ManualNeedsApproval'
  BY <1>00, <1>12, QuietKeepsApproval DEF ReadStore, runOnly, runVars, storeVars
<1>13. ASSUME NEW p \in Readers, Answer(p), UNCHANGED runOnly PROVE Untouched' /\ ManualNeedsApproval'
  BY <1>00, <1>13, QuietKeepsApproval DEF Answer, runOnly, runVars, storeVars
<1>14. ASSUME CacheAges, UNCHANGED runOnly PROVE Untouched' /\ ManualNeedsApproval'
  BY <1>00, <1>14, QuietKeepsApproval DEF CacheAges, runOnly, runVars, storeVars
<1> QED
  BY <1>1, <1>2, <1>3, <1>4, <1>5, <1>6, <1>7, <1>8, <1>9, <1>10, <1>11, <1>12, <1>13, <1>14 DEF Next, Quiet

LEMMA ApprovalKept ==
  ASSUME ApprovalInv, [Next]_allVars
  PROVE  ApprovalInv'
<1>1. ASSUME UNCHANGED allVars PROVE Untouched' /\ ManualNeedsApproval'
  <2>1. \A r \in Runs : PublishedByAdmin(r) => PublishedByAdmin(r)'
    BY ApprovalStays DEF ApprovalInv
  <2> QED
    BY <1>1, <2>1, QuietKeepsApproval DEF allVars, vars, runVars, storeVars
<1> QED
  BY <1>1, StepTypes, StutterTypes, StepApproval DEF ApprovalInv

(* The approval of manual runs holds whatever is retried and whatever fails:  *)
(* what a trigger other than the schedule produced is published by            *)
(* publish_run and by nothing else.                                           *)
THEOREM ManualRunsNeedApproval == Spec => []ManualNeedsApproval
<1>1. ApprovalInv /\ [Next]_allVars => ApprovalInv'
  BY ApprovalKept
<1> QED
  BY <1>1, InitApproval, PTL DEF Spec, ApprovalInv

----------------------------------------------------------------------------
(* The gate.  The first attempt of a run saves its snapshot once: what an     *)
(* administrator has reviewed is what will be published.  Only a retry saves  *)
(* again, and it publishes nothing itself that did not pass.                  *)

BeforeSave == {"new", "reserved", "queued", "create", "lock", "refused", "analyse", "save"}

(* No earlier step of a first attempt has saved a snapshot.                   *)
SavedOnce == \A r \in Runs : pc[r] \in BeforeSave => snapshot[r] = NoSnapshot \/ r \in Redone

(* An administrator at work has seen a snapshot that passed; if it does not   *)
(* any more, a retry has replaced it.                                         *)
ReviewedPassed ==
    \A a \in Admins : admin[a].pc \in {"reviewed", "cleared"} =>
        /\ HasSnapshot(admin[a].run)
        /\ snapshot[admin[a].run].passed \/ admin[a].run \in Redone

(* The row is set to PUBLISHED after the snapshot.                            *)
RowAfterSnapshot ==
    \A r \in Runs : pc[r] = "update" /\ ShouldPublish(r) => snapshot[r].published

GateParts ==
    /\ SavedOnce
    /\ ReviewedPassed
    /\ RowAfterSnapshot
    /\ PassedUnlessRedone
    /\ RowFollowsSnapshot

GateInv == TypeInv /\ GateParts

(* Steps that leave the snapshots alone, move first attempts only forward or  *)
(* away from the save, and set no row to PUBLISHED that was not.              *)
Harmless ==
    /\ UNCHANGED snapshot
    /\ Redone \subseteq Redone'
    /\ \A r \in Runs :
          /\ pc'[r] \in BeforeSave => pc[r] \in BeforeSave \/ r \in Redone'
          /\ pc'[r] = "update" => pc[r] = "update" /\ kind'[r] = kind[r] /\ verdict'[r] = verdict[r]
          /\ status'[r] = "PUBLISHED" => status[r] = "PUBLISHED" \/ snapshot[r].published
    /\ \A a \in Admins :
          admin'[a].pc \in {"reviewed", "cleared"} =>
             \/ admin[a].pc \in {"reviewed", "cleared"} /\ admin'[a].run = admin[a].run
             \/ Publishable(admin'[a].run)

LEMMA HarmlessKeepsGate ==
  ASSUME GateInv, [Next]_allVars, Harmless
  PROVE  GateParts'
<1> USE DEF GateInv, GateParts, Harmless
<1>1. SavedOnce'
  BY DEF SavedOnce
<1>2. ReviewedPassed'
  BY DEF ReviewedPassed, HasSnapshot, Publishable
<1>3. RowAfterSnapshot'
  BY DEF RowAfterSnapshot, ShouldPublish, IsAuto
<1>4. PassedUnlessRedone'
  <2>1. \A r \in Runs : PublishedByAdmin(r) => PublishedByAdmin(r)'
    BY ApprovalStays
  <2> QED
    BY <2>1 DEF PassedUnlessRedone, Published
<1>5. RowFollowsSnapshot'
  BY DEF RowFollowsSnapshot
<1> QED
  BY <1>1, <1>2, <1>3, <1>4, <1>5

LEMMA InitGate == Init => GateInv
<1> SUFFICES ASSUME Init PROVE GateInv
  OBVIOUS
<1>1. TypeInv
  BY InitTypes
<1>2. \A r \in Runs : /\ snapshot[r] = NoSnapshot /\ ~snapshot[r].published
                     /\ status[r] = "ABSENT" /\ pc[r] = "new"
  BY DEF Init, StoreInit, RunInit, NoSnapshot
<1>3. \A a \in Admins : admin[a].pc = "idle"
  BY DEF Init, DashInit, Idle
<1> QED
  BY <1>1, <1>2, <1>3 DEF GateInv, GateParts, SavedOnce, ReviewedPassed, RowAfterSnapshot,
     PassedUnlessRedone, RowFollowsSnapshot, Published

(* Who was started once more remains it, and a retry is the step that adds to *)
(* them.                                                                      *)
LEMMA RedoneByRetry ==
  ASSUME TypeInv
  PROVE  /\ UNCHANGED tries => UNCHANGED Redone
         /\ \A r \in Runs : Retry(r) => Redone' = Redone \cup {r}
<1>1. UNCHANGED tries => UNCHANGED Redone
  BY DEF Redone
<1>2. ASSUME NEW r \in Runs, Retry(r) PROVE Redone' = Redone \cup {r}
  <2>1. tries' = [tries EXCEPT ![r] = tries[r] + 1] /\ tries \in [Runs -> 0 .. 1]
    BY <1>2 DEF Retry, TypeInv, TypeOK, RunTypeOK
  <2> QED
    BY <2>1 DEF Redone
<1> QED
  BY <1>1, <1>2

LEMMA QuietKeepsTries ==
  ASSUME NEW r \in Runs, Quiet(r), ~Retry(r)
  PROVE  UNCHANGED tries
  BY DEF Quiet, Deploy, DeployFails, Prepare, PrepareFails, Create, AcquireLock, LockRefused, FailRefused,
     Analyse, AnalyseFails, Update, InvalidateCache, Fail, ReleaseLock, GiveUp, StoreFault, Crash,
     runData, runVars

(* Steps of a run other than saving its snapshot are harmless.                *)
LEMMA RunStepsHarmless ==
  ASSUME GateInv, NEW r \in Runs, Quiet(r), UNCHANGED dashVars
  PROVE  Harmless
<1>0. TypeInv /\ RowAfterSnapshot
  BY DEF GateInv, GateParts
<1>1. UNCHANGED <<kind, snapshot, admin>>
  BY <1>0, QuietSteps DEF dashVars
<1>2. \A s \in Runs \ {r} : pc'[s] = pc[s] /\ status'[s] = status[s] /\ verdict'[s] = verdict[s]
  <2> USE <1>0 DEF TypeInv, TypeOK, StoreTypeOK, RunTypeOK, Goto, runData, storeVars
  <2>1. CASE Deploy(r)
    BY <2>1 DEF Deploy
  <2>2. CASE DeployFails(r)
    BY <2>2 DEF DeployFails, UpdateRun
  <2>3. CASE Prepare(r)
    BY <2>3 DEF Prepare
  <2>4. CASE PrepareFails(r)
    BY <2>4 DEF PrepareFails
  <2>5. CASE Create(r)
    BY <2>5 DEF Create, CreateRun
  <2>6. CASE AcquireLock(r)
    BY <2>6 DEF AcquireLock
  <2>7. CASE LockRefused(r)
    BY <2>7 DEF LockRefused
  <2>8. CASE FailRefused(r)
    BY <2>8 DEF FailRefused, UpdateRun
  <2>9. CASE Analyse(r)
    BY <2>9 DEF Analyse
  <2>10. CASE AnalyseFails(r)
    BY <2>10 DEF AnalyseFails
  <2>11. CASE Update(r)
    BY <2>11 DEF Update, UpdateRun
  <2>12. CASE InvalidateCache(r)
    BY <2>12 DEF InvalidateCache
  <2>13. CASE Fail(r)
    BY <2>13 DEF Fail, UpdateRun
  <2>14. CASE ReleaseLock(r)
    BY <2>14 DEF ReleaseLock
  <2>15. CASE Retry(r)
    BY <2>15 DEF Retry
  <2>16. CASE GiveUp(r)
    BY <2>16 DEF GiveUp
  <2>17. CASE StoreFault(r)
    BY <2>17 DEF StoreFault
  <2>18. CASE Crash(r)
    BY <2>18 DEF Crash
  <2> QED
    BY <2>1, <2>2, <2>3, <2>4, <2>5, <2>6, <2>7, <2>8, <2>9, <2>10, <2>11, <2>12, <2>13, <2>14, <2>15, <2>16, <2>17, <2>18 DEF Quiet
<1>3. /\ pc'[r] \in BeforeSave => pc[r] \in BeforeSave \/ Retry(r)
      /\ pc'[r] # "update"
      /\ status'[r] = "PUBLISHED" => status[r] = "PUBLISHED" \/ snapshot[r].published
  <2> USE <1>0 DEF TypeInv, TypeOK, StoreTypeOK, RunTypeOK, Goto, runData, storeVars, BeforeSave
  <2>1. CASE Deploy(r)
    BY <2>1 DEF Deploy
  <2>2. CASE DeployFails(r)
    BY <2>2 DEF DeployFails, UpdateRun
  <2>3. CASE Prepare(r)
    BY <2>3 DEF Prepare
  <2>4. CASE PrepareFails(r)
    BY <2>4 DEF PrepareFails
  <2>5. CASE Create(r)
    BY <2>5 DEF Create, CreateRun
  <2>6. CASE AcquireLock(r)
    BY <2>6 DEF AcquireLock
  <2>7. CASE LockRefused(r)
    BY <2>7 DEF LockRefused
  <2>8. CASE FailRefused(r)
    BY <2>8 DEF FailRefused, UpdateRun
  <2>9. CASE Analyse(r)
    BY <2>9 DEF Analyse
  <2>10. CASE AnalyseFails(r)
    BY <2>10 DEF AnalyseFails
  <2>11. CASE Update(r)
    <3>1. FinalStatus(r) = "PUBLISHED" => ShouldPublish(r)
      BY DEF FinalStatus
    <3>2. ShouldPublish(r) => snapshot[r].published
      BY <2>11 DEF Update, RowAfterSnapshot
    <3> QED
      BY <2>11, <3>1, <3>2 DEF Update, UpdateRun
  <2>12. CASE InvalidateCache(r)
    BY <2>12 DEF InvalidateCache
  <2>13. CASE Fail(r)
    BY <2>13 DEF Fail, UpdateRun
  <2>14. CASE ReleaseLock(r)
    BY <2>14 DEF ReleaseLock
  <2>15. CASE Retry(r)
    BY <2>15 DEF Retry
  <2>16. CASE GiveUp(r)
    BY <2>16 DEF GiveUp
  <2>17. CASE StoreFault(r)
    BY <2>17 DEF StoreFault, AfterFault
  <2>18. CASE Crash(r)
    BY <2>18 DEF Crash
  <2> QED
    BY <2>1, <2>2, <2>3, <2>4, <2>5, <2>6, <2>7, <2>8, <2>9, <2>10, <2>11, <2>12, <2>13, <2>14, <2>15, <2>16, <2>17, <2>18 DEF Quiet
<1>4. Redone \subseteq Redone' /\ (Retry(r) => r \in Redone')
  BY <1>0, RedoneByRetry, QuietKeepsTries
<1> QED
  BY <1>0, <1>1, <1>2, <1>3, <1>4 DEF Harmless

LEMMA StepGate ==
  ASSUME GateInv, Next
  PROVE  GateParts'
<1>0. TypeInv /\ SavedOnce /\ ReviewedPassed /\ RowAfterSnapshot
      /\ PassedUnlessRedone /\ RowFollowsSnapshot
  BY DEF GateInv, GateParts
<1>00. \A r \in Runs : PublishedByAdmin(r) => PublishedByAdmin(r)'
  BY <1>0, ApprovalStays
<1>01. UNCHANGED tries => UNCHANGED Redone
  BY <1>0, RedoneByRetry
<1> USE DEF TypeInv, TypeOK, StoreTypeOK, RunTypeOK, DashTypeOK
<1>1. ASSUME NEW r \in Runs, Quiet(r), UNCHANGED dashVars PROVE GateParts'
  BY <1>1, RunStepsHarmless, HarmlessKeepsGate
<1>2. ASSUME NEW r \in Runs, NEW k \in RunKinds, NEW b \in Runs \cup {NoRun},
             Submit(r, k, b), UNCHANGED dashVars
      PROVE GateParts'
  <2>1. Harmless
    BY <1>0, <1>01, <1>2 DEF Submit, Goto, ReserveRun, storeVars, dashVars, Harmless, BeforeSave
  <2> QED
    BY <2>1, HarmlessKeepsGate
<1>3. ASSUME NEW r \in Runs, Save(r), UNCHANGED dashVars PROVE GateParts'
  <2>1. \A s \in Runs \ {r} : pc'[s] = pc[s] /\ snapshot'[s] = snapshot[s]
    BY <1>0, <1>3 DEF Save, SaveSnapshot, Goto
  <2>2. /\ pc[r] = "save" /\ pc'[r] = "update"
        /\ snapshot'[r].published = ShouldPublish(r)
        /\ snapshot'[r].passed = (verdict[r] = "publish")
        /\ HasSnapshot(r)'
    BY <1>0, <1>3 DEF Save, SaveSnapshot, Goto, FinalStatus, HasSnapshot
  <2>3. UNCHANGED <<status, kind, verdict, admin, Redone>>
    BY <1>01, <1>3 DEF Save, SaveSnapshot, runData, dashVars
  <2>4. r \in Redone \/ (~HasSnapshot(r) /\ ~snapshot[r].published)
    BY <1>0, <2>2 DEF SavedOnce, BeforeSave, HasSnapshot, NoSnapshot
  <2>5. SavedOnce'
    BY <1>0, <2>1, <2>2, <2>3 DEF SavedOnce, BeforeSave
  <2>6. ReviewedPassed'
    BY <1>0, <2>1, <2>2, <2>3, <2>4 DEF ReviewedPassed, HasSnapshot
  <2>7. RowAfterSnapshot'
    BY <1>0, <2>1, <2>2, <2>3 DEF RowAfterSnapshot, ShouldPublish, IsAuto
  <2>8. PassedUnlessRedone'
    BY <1>0, <1>00, <2>1, <2>2, <2>3 DEF PassedUnlessRedone, Published, ShouldPublish
  <2>9. RowFollowsSnapshot'
    BY <1>0, <2>1, <2>3, <2>4 DEF RowFollowsSnapshot
  <2> QED
    BY <2>5, <2>6, <2>7, <2>8, <2>9 DEF GateParts
<1>4. ASSUME LockExpires, UNCHANGED dashVars PROVE GateParts'
  <2>1. Harmless
    BY <1>0, <1>01, <1>4 DEF LockExpires, runVars, storeVars, dashVars, Harmless
  <2> QED
    BY <2>1, HarmlessKeepsGate
<1>5. ASSUME NEW a \in Admins, NEW r \in Runs, NEW b \in BOOLEAN,
             AdminReview(a, r, b), UNCHANGED runOnly
      PROVE GateParts'
  <2>1. Harmless
    BY <1>0, <1>01, <1>5 DEF AdminReview, At, AdminGoto, Idle, Harmless, runOnly, runVars, storeVars
  <2> QED
    BY <2>1, HarmlessKeepsGate
<1>6. ASSUME NEW a \in Admins, AdminClear(a), UNCHANGED runOnly PROVE GateParts'
  <2>1. Harmless
    BY <1>0, <1>01, <1>6 DEF AdminClear, At, AdminGoto, Idle, Harmless, runOnly, runVars, storeVars
  <2> QED
    BY <2>1, HarmlessKeepsGate
<1>7. ASSUME NEW a \in Admins, AdminInvalidate(a), UNCHANGED runOnly PROVE GateParts'
  <2>1. Harmless
    BY <1>0, <1>01, <1>7 DEF AdminInvalidate, At, AdminGoto, Idle, Harmless, runOnly, runVars, storeVars
  <2> QED
    BY <2>1, HarmlessKeepsGate
<1>8. ASSUME NEW a \in Admins, AdminAudit(a), UNCHANGED runOnly PROVE GateParts'
  <2>1. Harmless
    BY <1>0, <1>01, <1>8 DEF AdminAudit, At, AdminGoto, Idle, Harmless, runOnly, runVars, storeVars
  <2> QED
    BY <2>1, HarmlessKeepsGate
<1>9. ASSUME NEW a \in Admins, AdminFault(a), UNCHANGED <<theLock, runVars>> PROVE GateParts'
  <2>1. Harmless
    BY <1>0, <1>01, <1>9 DEF AdminFault, AdminCrash, At, AdminGoto, Idle, Harmless, runOnly, runVars, storeVars
  <2> QED
    BY <2>1, HarmlessKeepsGate
<1>10. ASSUME NEW p \in Readers, ReadCache(p), UNCHANGED runOnly PROVE GateParts'
  <2>1. Harmless
    BY <1>0, <1>01, <1>10 DEF ReadCache, Harmless, runOnly, runVars, storeVars
  <2> QED
    BY <2>1, HarmlessKeepsGate
<1>11. ASSUME NEW p \in Readers, ReadStore(p), UNCHANGED runOnly PROVE GateParts'
  <2>1. Harmless
    BY <1>0, <1>01, <1>11 DEF ReadStore, Harmless, runOnly, runVars, storeVars
  <2> QED
    BY <2>1, HarmlessKeepsGate
<1>12. ASSUME NEW p \in Readers, Answer(p), UNCHANGED runOnly PROVE GateParts'
  <2>1. Harmless
    BY <1>0, <1>01, <1>12 DEF Answer, Harmless, runOnly, runVars, storeVars
  <2> QED
    BY <2>1, HarmlessKeepsGate
<1>13. ASSUME CacheAges, UNCHANGED runOnly PROVE GateParts'
  <2>1. Harmless
    BY <1>0, <1>01, <1>13 DEF CacheAges, dashVars, Harmless, runOnly, runVars, storeVars
  <2> QED
    BY <2>1, HarmlessKeepsGate
<1>14. ASSUME NEW a \in Admins, AdminPublish(a), UNCHANGED runOnly PROVE GateParts'
  <2>0. PICK r \in Runs : r = admin[a].run
    BY <1>0, <1>14 DEF AdminPublish, At
  <2>1. HasSnapshot(r) /\ (snapshot[r].passed \/ r \in Redone)
    BY <1>0, <1>14, <2>0 DEF AdminPublish, At, ReviewedPassed
  <2>2. \A s \in Runs \ {r} : snapshot'[s] = snapshot[s] /\ status'[s] = status[s]
    BY <1>0, <1>14, <2>0 DEF AdminPublish, Publish
  <2>3. /\ snapshot'[r].passed = snapshot[r].passed
        /\ snapshot'[r].published /\ snapshot'[r].status = "PUBLISHED"
    BY <1>0, <1>14, <2>0 DEF AdminPublish, Publish, Snapshot
  <2>4. UNCHANGED <<kind, pc, verdict, Redone>>
    BY <1>01, <1>14 DEF runOnly, runVars
  <2>5. SavedOnce'
    <3>1. pc[r] \notin BeforeSave \/ r \in Redone
      BY <1>0, <2>1 DEF SavedOnce, HasSnapshot, NoSnapshot
    <3>2. \A s \in Runs : s # r => snapshot'[s] = snapshot[s]
      BY <2>2
    <3>3. pc' = pc /\ Redone' = Redone /\ SavedOnce
      BY <1>0, <2>4
    <3> QED
      BY <3>1, <3>2, <3>3 DEF SavedOnce, BeforeSave, Locations, RunTypeOK
  <2>6. ReviewedPassed'
    <3>1. \A c \in Admins : admin'[c].pc \in {"reviewed", "cleared"} => admin'[c] = admin[c]
      BY <1>0, <1>14 DEF AdminPublish, AdminGoto
    <3>2. \A s \in Runs : HasSnapshot(s) => HasSnapshot(s)' /\ snapshot'[s].passed = snapshot[s].passed
      BY <2>2, <2>3 DEF HasSnapshot
    <3>3. \A c \in Admins : admin[c].pc \in {"reviewed", "cleared"} => admin[c].run \in Runs
      BY <1>0
    <3>4. Redone' = Redone
      BY <2>4
    <3>5. ASSUME NEW c \in Admins, admin'[c].pc \in {"reviewed", "cleared"}
          PROVE  /\ HasSnapshot(admin[c].run)'
                 /\ snapshot'[admin'[c].run].passed \/ admin'[c].run \in Redone'
      <4>1. PICK s \in Runs : s = admin[c].run /\ admin'[c].run = s
        BY <3>1, <3>3, <3>5
      <4>2. HasSnapshot(s) /\ (snapshot[s].passed \/ s \in Redone)
        BY <1>0, <3>1, <3>5, <4>1 DEF ReviewedPassed
      <4> QED
        BY <3>2, <3>4, <4>1, <4>2 DEF HasSnapshot
    <3> QED
      BY <3>5 DEF ReviewedPassed, HasSnapshot
  <2>7. RowAfterSnapshot'
    BY <1>0, <2>2, <2>3, <2>4 DEF RowAfterSnapshot, ShouldPublish, IsAuto
  <2>8. PassedUnlessRedone'
    <3>1. PublishedByAdmin(r)'
      BY <1>0, <1>14, <2>0 DEF AdminPublish, AdminGoto, PublishedByAdmin
    <3> QED
      BY <1>0, <1>00, <2>1, <2>2, <2>3, <2>4, <3>1 DEF PassedUnlessRedone, Published
  <2>9. RowFollowsSnapshot'
    BY <1>0, <2>2, <2>3, <2>4 DEF RowFollowsSnapshot
  <2> QED
    BY <2>5, <2>6, <2>7, <2>8, <2>9 DEF GateParts
<1> QED
  BY <1>1, <1>2, <1>3, <1>4, <1>5, <1>6, <1>7, <1>8, <1>9, <1>10, <1>11, <1>12, <1>13, <1>14 DEF Next, Quiet

LEMMA GateKept ==
  ASSUME GateInv, [Next]_allVars
  PROVE  GateInv'
<1>1. ASSUME UNCHANGED allVars PROVE GateParts'
  <2>1. UNCHANGED tries => UNCHANGED Redone
    BY RedoneByRetry DEF GateInv
  <2>2. Harmless
    BY <1>1, <2>1 DEF Harmless, allVars, vars, runVars, storeVars, dashVars
  <2> QED
    BY <2>2, HarmlessKeepsGate
<1> QED
  BY <1>1, StepTypes, StutterTypes, StepGate DEF GateInv

(* With any mix of kinds, retries, faults, deaths and overlapping requests,   *)
(* what is published passed its gate, although publish_run publishes without  *)
(* looking again, save where a retried task has written over what an          *)
(* administrator had read and he published it.  MCUngated.cfg shows that this *)
(* does happen.                                                               *)
THEOREM GateDecides == Spec => []PassedUnlessRedone
<1>1. GateInv /\ [Next]_allVars => GateInv'
  BY GateKept
<1>2. GateInv => PassedUnlessRedone
  BY DEF GateInv, GateParts
<1> QED
  BY <1>1, <1>2, InitGate, PTL DEF Spec

(* The row of a run says PUBLISHED only where its snapshot is published or a  *)
(* retry has taken it back: save_snapshot comes before update_run.            *)
THEOREM RowsFollowSnapshots == Spec => []RowFollowsSnapshot
<1>1. GateInv /\ [Next]_allVars => GateInv'
  BY GateKept
<1>2. GateInv => RowFollowsSnapshot
  BY DEF GateInv, GateParts
<1> QED
  BY <1>1, <1>2, InitGate, PTL DEF Spec

----------------------------------------------------------------------------
(* The log and the board.  A step releases one analysis, later than all that  *)
(* were released, or takes one back that was started once more, or leaves     *)
(* everything that is published as it is.                                     *)

Releases(r) ==
    /\ UNCHANGED <<date, tries>>
    /\ clock' = clock + 1
    /\ \A s \in Runs \ {r} : snapshot'[s] = snapshot[s]
    /\ snapshot'[r].published
    /\ snapshot'[r].at = clock + 1

Withdraws(r) ==
    /\ UNCHANGED <<date, tries>>
    /\ r \in Published \cap Redone
    /\ \A s \in Runs \ {r} : snapshot'[s] = snapshot[s]
    /\ ~snapshot'[r].published

LeavesPublished ==
    /\ Published' = Published
    /\ \A s \in Published : date'[s] = date[s] /\ snapshot'[s].at = snapshot[s].at

(* No two analyses were released at the same time.                            *)
ReleasedApart ==
    \A r, s \in Published : snapshot[r].at = snapshot[s].at => r = s

(* A REANALYZE has the date of its base run from create_run on, and a base    *)
(* run that was saved does not change its date again.                         *)
DatesSettled ==
    \A r \in Runs : kind[r] = "reanalyze" =>
        /\ pc[r] = "create" => HasSnapshot(base[r])
        /\ HasSnapshot(r) \/ pc[r] \in {"lock", "analyse", "save"} =>
              HasSnapshot(base[r]) /\ date[r] = date[base[r]]

(* What is published was saved.                                               *)
PublishedSaved == \A r \in Published : HasSnapshot(r)

LogInv == ApprovalInv /\ GateInv /\ DatesSettled /\ PublishedSaved /\ ReleasedApart

(* What keeps the dates settled, beside create_run.                           *)
LEMMA DatesUntouched ==
  ASSUME TypeInv, DatesSettled, UNCHANGED <<kind, base, date>>,
         NEW r \in Runs, \A s \in Runs \ {r} : pc'[s] = pc[s] /\ snapshot'[s] = snapshot[s],
         HasSnapshot(r) => HasSnapshot(r)',
         HasSnapshot(r)' => HasSnapshot(r) \/ pc[r] = "save",
         pc'[r] = "create" => pc[r] = "create" \/ (kind[r] = "reanalyze" => HasSnapshot(base[r])),
         pc'[r] \in {"lock", "analyse", "save"} => pc[r] \in {"lock", "analyse", "save"}
  PROVE  DatesSettled'
<1>1. \A s \in Runs : HasSnapshot(s) => HasSnapshot(s)'
  BY DEF HasSnapshot
<1>2. \A s \in Runs : kind[s] = "reanalyze" => base[s] \in Runs
  BY DEF TypeInv, TypeOK, RunTypeOK
<1>3. ASSUME NEW s \in Runs, kind[s] = "reanalyze"
      PROVE  /\ pc'[s] = "create" => HasSnapshot(base[s])
             /\ HasSnapshot(s)' \/ pc'[s] \in {"lock", "analyse", "save"} =>
                   HasSnapshot(base[s]) /\ date[s] = date[base[s]]
  <2>1. CASE s = r
    BY <1>3, <2>1 DEF DatesSettled
  <2>2. CASE s # r
    BY <1>3, <2>2 DEF DatesSettled, HasSnapshot
  <2> QED
    BY <2>1, <2>2
<1>4. \A s \in Runs : kind[s] = "reanalyze" /\ HasSnapshot(base[s]) => snapshot'[base[s]].status # "ABSENT"
  BY <1>1, <1>2 DEF HasSnapshot
<1>5. kind' = kind /\ base' = base /\ date' = date
  OBVIOUS
<1> QED
  BY <1>3, <1>4, <1>5 DEF DatesSettled, HasSnapshot

(* create_run gives a run the date it had when it was saved.                  *)
LEMMA CreateKeepsDates ==
  ASSUME LogInv, NEW r \in Runs, Create(r)
  PROVE  /\ \A s \in Runs : HasSnapshot(s) => date'[s] = date[s]
         /\ DatesSettled'
<1>0. TypeInv
  BY DEF LogInv, GateInv
<1>1. /\ date' = [date EXCEPT ![r] = IF kind[r] = "reanalyze" THEN date[base[r]] ELSE date[r]]
      /\ pc[r] = "create" /\ pc' = [pc EXCEPT ![r] = "lock"]
      /\ UNCHANGED <<kind, base, snapshot>>
  BY DEF Create, CreateRun, Goto, runData
<1>2. /\ date \in [Runs -> Dates] /\ pc \in [Runs -> Locations]
      /\ \A s \in Runs : kind[s] = "reanalyze" => base[s] \in Runs
  BY <1>0 DEF TypeInv, TypeOK, StoreTypeOK, RunTypeOK
<1>3. DatesSettled
  BY DEF LogInv
<1>4. \A s \in Runs : HasSnapshot(s) => date'[s] = date[s]
  BY <1>1, <1>2, <1>3 DEF DatesSettled
<1>5. ASSUME NEW s \in Runs, kind[s] = "reanalyze"
      PROVE  /\ pc'[s] = "create" => HasSnapshot(base[s])
             /\ HasSnapshot(s) \/ pc'[s] \in {"lock", "analyse", "save"} =>
                   HasSnapshot(base[s]) /\ date'[s] = date'[base[s]]
  <2>1. HasSnapshot(base[s]) => date'[base[s]] = date[base[s]]
    BY <1>2, <1>4, <1>5
  <2>2. CASE s = r
    BY <1>1, <1>2, <1>3, <1>5, <2>1, <2>2 DEF DatesSettled
  <2>3. CASE s # r
    BY <1>1, <1>2, <1>3, <1>5, <2>1, <2>3 DEF DatesSettled
  <2> QED
    BY <2>2, <2>3
<1>6. DatesSettled'
  BY <1>1, <1>5 DEF DatesSettled, HasSnapshot
<1> QED
  BY <1>4, <1>6

(* The other steps of a run, its save included, change no date.               *)
LEMMA RunKeepsDates ==
  ASSUME LogInv, NEW r \in Runs, Quiet(r) \/ Save(r), ~Create(r)
  PROVE  UNCHANGED date /\ DatesSettled'
<1>0. TypeInv /\ DatesSettled
  BY DEF LogInv, GateInv
<1> USE <1>0 DEF storeVars, runData, runVars, Goto, TypeInv, TypeOK, StoreTypeOK, RunTypeOK
<1>1. CASE Deploy(r) \/ Prepare(r) \/ PrepareFails(r) \/ AcquireLock(r) \/ LockRefused(r)
           \/ Analyse(r) \/ AnalyseFails(r)
  BY <1>1, DatesUntouched DEF Deploy, Prepare, PrepareFails, AcquireLock, LockRefused, Analyse, AnalyseFails,
     HasSnapshot
<1>2. CASE InvalidateCache(r) \/ ReleaseLock(r) \/ Retry(r) \/ GiveUp(r) \/ Crash(r)
  BY <1>2, DatesUntouched DEF InvalidateCache, ReleaseLock, Retry, GiveUp, Crash, HasSnapshot
<1>3. CASE StoreFault(r)
  BY <1>3, DatesUntouched DEF StoreFault, AfterFault, HasSnapshot
<1>4. CASE DeployFails(r) \/ FailRefused(r) \/ Update(r) \/ Fail(r)
  BY <1>4, DatesUntouched DEF DeployFails, FailRefused, Update, Fail, UpdateRun, HasSnapshot
<1>5. CASE Save(r)
  <2>1. /\ UNCHANGED <<kind, base, date>> /\ pc[r] = "save" /\ pc'[r] = "update"
        /\ \A s \in Runs \ {r} : pc'[s] = pc[s] /\ snapshot'[s] = snapshot[s]
        /\ HasSnapshot(r)'
    BY <1>5 DEF Save, SaveSnapshot, FinalStatus, HasSnapshot
  <2> QED
    BY <2>1, DatesUntouched
<1> QED
  BY <1>1, <1>2, <1>3, <1>4, <1>5 DEF Quiet

(* The steps that may touch a run or its snapshot, and the rest.              *)
LEMMA StepCases ==
  ASSUME [Next]_allVars
  PROVE  \/ \E r \in Runs : Quiet(r) \/ Save(r)
         \/ \E r \in Runs, k \in RunKinds, b \in Runs \cup {NoRun} : Submit(r, k, b)
         \/ \E a \in Admins : AdminPublish(a) /\ UNCHANGED runVars
         \/ UNCHANGED <<runVars, date, snapshot>>
<1> DEFINE Rest == UNCHANGED <<runVars, date, snapshot>>
<1> USE DEF storeVars
<1>1. LockExpires => Rest
  BY DEF LockExpires
<1>2. UNCHANGED allVars => Rest
  BY DEF allVars, vars
<1>3. CacheAges /\ UNCHANGED runOnly => Rest
  BY DEF CacheAges, runOnly
<1>4. ASSUME NEW a \in Admins, UNCHANGED runOnly,
             (\E r \in Runs, b \in BOOLEAN : AdminReview(a, r, b)) \/ AdminClear(a)
             \/ AdminInvalidate(a) \/ AdminAudit(a)
      PROVE  Rest
  BY <1>4 DEF AdminReview, AdminClear, AdminInvalidate, AdminAudit, runOnly
<1>5. ASSUME NEW a \in Admins, AdminFault(a), UNCHANGED <<theLock, runVars>> PROVE Rest
  BY <1>5 DEF AdminFault, AdminCrash
<1>6. ASSUME NEW p \in Readers, UNCHANGED runOnly, ReadCache(p) \/ ReadStore(p) \/ Answer(p) PROVE Rest
  BY <1>6 DEF ReadCache, ReadStore, Answer, runOnly
<1>7. UNCHANGED runOnly => UNCHANGED runVars
  BY DEF runOnly
<1> HIDE DEF Rest
<1>8. \/ \E r \in Runs : Quiet(r) \/ Save(r)
      \/ \E r \in Runs, k \in RunKinds, b \in Runs \cup {NoRun} : Submit(r, k, b)
      \/ \E a \in Admins : AdminPublish(a) /\ UNCHANGED runVars
      \/ Rest
  BY <1>1, <1>2, <1>3, <1>4, <1>5, <1>6, <1>7 DEF Next, Quiet
<1> QED
  BY <1>8 DEF Rest

LEMMA StepKeepsDates ==
  ASSUME LogInv, [Next]_allVars
  PROVE  /\ \A s \in Published : date'[s] = date[s]
         /\ DatesSettled'
         /\ PublishedSaved'
<1> DEFINE Goal == (\A s \in Published : date'[s] = date[s]) /\ DatesSettled' /\ PublishedSaved'
<1>0. TypeInv /\ DatesSettled /\ PublishedSaved
  BY DEF LogInv, GateInv
<1>00. UNCHANGED snapshot => PublishedSaved'
  BY <1>0 DEF PublishedSaved, Published, HasSnapshot
<1> USE DEF storeVars, TypeInv, TypeOK, StoreTypeOK, RunTypeOK
<1>1. ASSUME NEW r \in Runs, Quiet(r) PROVE Goal
  <2>1. UNCHANGED snapshot
    BY <1>0, <1>1, QuietSteps
  <2>2. (\A s \in Published : date'[s] = date[s]) /\ DatesSettled'
    <3>1. CASE Create(r)
      BY <1>0, <3>1, CreateKeepsDates DEF PublishedSaved, Published
    <3>2. CASE ~Create(r)
      BY <1>1, <3>2, RunKeepsDates
    <3> QED
      BY <3>1, <3>2
  <2> QED
    BY <1>00, <2>1, <2>2
<1>2. ASSUME NEW r \in Runs, Save(r) PROVE Goal
  <2>1. UNCHANGED date /\ DatesSettled'
    BY <1>2, RunKeepsDates DEF Create, Save
  <2>2. \A s \in Runs \ {r} : snapshot'[s] = snapshot[s]
    BY <1>0, <1>2 DEF Save, SaveSnapshot
  <2>3. HasSnapshot(r)'
    BY <1>0, <1>2, FinalStatusType DEF Save, SaveSnapshot, HasSnapshot
  <2>4. PublishedSaved'
    BY <1>0, <2>2, <2>3 DEF PublishedSaved, Published, HasSnapshot
  <2> QED
    BY <2>1, <2>4
<1>3. ASSUME NEW r \in Runs, NEW k \in RunKinds, NEW b \in Runs \cup {NoRun}, Submit(r, k, b) PROVE Goal
  <2>1. UNCHANGED <<date, snapshot>>
    BY <1>3 DEF Submit, ReserveRun
  <2>2. ~HasSnapshot(r)
    BY <1>3 DEF Submit, LogInv, ApprovalInv, Untouched, HasSnapshot, NoSnapshot
  <2>3. pc'[r] \in {"reserved", "queued", "done"}
    BY <1>0, <1>3 DEF Submit, Goto
  <2>4. \A s \in Runs \ {r} : pc'[s] = pc[s] /\ kind'[s] = kind[s] /\ base'[s] = base[s]
    BY <1>0, <1>3 DEF Submit, Goto
  <2>5. DatesSettled'
    BY <1>0, <2>1, <2>2, <2>3, <2>4 DEF DatesSettled, HasSnapshot
  <2> QED
    BY <1>00, <2>1, <2>5
<1>4. ASSUME UNCHANGED <<runVars, date, snapshot>> PROVE Goal
  BY <1>0, <1>00, <1>4 DEF DatesSettled, HasSnapshot, runVars
<1>5. ASSUME NEW a \in Admins, UNCHANGED runVars, AdminPublish(a) PROVE Goal
  <2>0. PICK r \in Runs : r = admin[a].run
    BY <1>0, <1>5 DEF DashTypeOK, AdminPublish, At
  <2>1. UNCHANGED date /\ HasSnapshot(r)
    BY <1>5, <2>0 DEF AdminPublish, Publish
  <2>2. \A s \in Runs \ {r} : snapshot'[s] = snapshot[s]
    BY <1>0, <1>5, <2>0 DEF AdminPublish, Publish
  <2>3. HasSnapshot(r)'
    BY <1>0, <1>5, <2>0 DEF AdminPublish, Publish, Snapshot, HasSnapshot
  <2>4. DatesSettled'
    BY <1>0, <1>5, <2>1, <2>2, <2>3, DatesUntouched DEF runVars
  <2>5. PublishedSaved'
    BY <1>0, <2>2, <2>3 DEF PublishedSaved, Published, HasSnapshot
  <2> QED
    BY <2>1, <2>4, <2>5
<1> HIDE DEF Goal
<1>6. Goal
  BY <1>1, <1>2, <1>3, <1>4, <1>5, StepCases
<1> QED
  BY <1>6 DEF Goal

(* A save releases its analysis, takes back what an earlier attempt had       *)
(* released, or leaves the log alone.                                         *)
LEMMA SaveReleases ==
  ASSUME LogInv, NEW r \in Runs, Save(r)
  PROVE  (LeavesPublished /\ UNCHANGED Redone) \/ Releases(r) \/ Withdraws(r)
<1>0. TypeInv /\ SavedOnce
  BY DEF LogInv, GateInv, GateParts
<1>1. snapshot[r].published => r \in Redone
  BY <1>0 DEF SavedOnce, BeforeSave, Save, NoSnapshot
<1>2. /\ \A s \in Runs \ {r} : snapshot'[s] = snapshot[s]
      /\ snapshot'[r].published = ShouldPublish(r)
      /\ ShouldPublish(r) => snapshot'[r].at = clock + 1 /\ clock' = clock + 1
      /\ UNCHANGED <<date, tries>>
  BY <1>0 DEF TypeInv, TypeOK, StoreTypeOK, Save, SaveSnapshot, runData
<1>3. ShouldPublish(r) \in BOOLEAN
  BY DEF ShouldPublish, IsAuto
<1>4. CASE ShouldPublish(r)
  BY <1>2, <1>4 DEF Releases
<1>5. CASE ~ShouldPublish(r) /\ snapshot[r].published
  BY <1>1, <1>2, <1>5 DEF Withdraws, Published
<1>6. CASE ~ShouldPublish(r) /\ ~snapshot[r].published
  <2>1. LeavesPublished
    BY <1>2, <1>6 DEF LeavesPublished, Published
  <2>2. UNCHANGED Redone
    BY <1>0, <1>2, RedoneByRetry
  <2> QED
    BY <2>1, <2>2
<1> QED
  BY <1>3, <1>4, <1>5, <1>6

LEMMA PublishReleases ==
  ASSUME LogInv, NEW a \in Admins, AdminPublish(a), UNCHANGED runVars
  PROVE  \E r \in Runs : Releases(r)
<1>0. TypeInv
  BY DEF LogInv, GateInv
<1>1. PICK r \in Runs : r = admin[a].run
  BY <1>0 DEF TypeInv, TypeOK, DashTypeOK, AdminPublish, At
<1>2. Releases(r)
  BY <1>0, <1>1 DEF TypeInv, TypeOK, StoreTypeOK, Snapshot, AdminPublish, Publish, Releases,
     runVars
<1> QED
  BY <1>2

LEMMA StepPublishes ==
  ASSUME LogInv, [Next]_allVars
  PROVE  \/ LeavesPublished /\ (UNCHANGED Redone \/ \E r \in Runs : Redone' = Redone \cup {r})
         \/ \E r \in Runs : Releases(r) \/ Withdraws(r)
<1> DEFINE Stays == LeavesPublished /\ (UNCHANGED Redone \/ \E r \in Runs : Redone' = Redone \cup {r})
<1>0. TypeInv
  BY DEF LogInv, GateInv
<1>00. UNCHANGED <<tries, snapshot>> => Stays
  <2>1. UNCHANGED snapshot => LeavesPublished
    BY StepKeepsDates DEF LeavesPublished, Published
  <2> QED
    BY <1>0, <2>1, RedoneByRetry
<1> USE DEF storeVars
<1>1. ASSUME NEW r \in Runs, Quiet(r) PROVE Stays
  <2>1. UNCHANGED snapshot
    BY <1>0, <1>1, QuietSteps
  <2>2. CASE Retry(r)
    <3>1. LeavesPublished
      BY <2>1, StepKeepsDates DEF LeavesPublished, Published
    <3> QED
      BY <1>0, <2>2, <3>1, RedoneByRetry
  <2>3. CASE ~Retry(r)
    BY <1>00, <1>1, <2>1, <2>3, QuietKeepsTries
  <2> QED
    BY <2>2, <2>3
<1>2. ASSUME NEW r \in Runs, NEW k \in RunKinds, NEW b \in Runs \cup {NoRun}, Submit(r, k, b)
      PROVE  Stays
  BY <1>00, <1>2 DEF Submit, ReserveRun
<1>3. ASSUME UNCHANGED <<runVars, date, snapshot>> PROVE Stays
  BY <1>00, <1>3 DEF runVars
<1> HIDE DEF Stays
<1>4. Stays \/ \E r \in Runs : Releases(r) \/ Withdraws(r)
  <2>1. ASSUME NEW r \in Runs, Save(r) PROVE Stays \/ Releases(r) \/ Withdraws(r)
    BY <2>1, SaveReleases DEF Stays
  <2> QED
    BY <1>1, <1>2, <1>3, <2>1, StepCases, PublishReleases
<1> QED
  BY <1>4 DEF Stays

LEMMA TheBoard ==
  ASSUME NEW P, NEW on, NEW shot, NEW r \in P,
         \A s \in P : on[s] \in Nat /\ shot[s].at \in Nat,
         \A s, t \in P : shot[s].at = shot[t].at => s = t,
         \A s \in P : on[r] > on[s] \/ (on[r] = on[s] /\ shot[r].at >= shot[s].at)
  PROVE  BoardOf(P, on, shot) = r
<1> DEFINE First(x) == \A s \in P : \/ on[x] > on[s]
                                    \/ on[x] = on[s] /\ shot[x].at >= shot[s].at
           board == CHOOSE x \in P : First(x)
<1>1. First(r) /\ P # {}
  OBVIOUS
<1>2. board \in P /\ First(board)
  BY <1>1
<1>3. BoardOf(P, on, shot) = board
  BY <1>1 DEF BoardOf
<1> HIDE DEF board
<1>4. shot[board].at = shot[r].at
  BY <1>1, <1>2
<1>5. board = r
  BY <1>2, <1>4
<1> QED
  BY <1>3, <1>5

LEMMA EmptyBoard ==
  ASSUME NEW on, NEW shot
  PROVE  BoardOf({}, on, shot) = NoRun
BY DEF BoardOf

LEMMA LeavingKeepsBoard ==
  ASSUME StoreTypeOK, ReleasedApart, LeavesPublished
  PROVE  ReleasedApart' /\ LatestPublished' = LatestPublished
<1>1. ReleasedApart'
  BY DEF ReleasedApart, LeavesPublished
<1>2. CASE Published = {}
  <2>1. Published' = {}
    BY <1>2 DEF LeavesPublished
  <2>2. LatestPublished = NoRun /\ LatestPublished' = NoRun
    BY <1>2, <2>1, EmptyBoard, LatestIsTheBoard
  <2> QED
    BY <1>1, <2>2
<1>3. CASE Published # {}
  <2>1. PICK r \in Published : r = LatestPublished /\ \A s \in Published : ShownBefore(r, s)
    BY <1>3, LatestPublishedIsFirst
  <2>2. /\ \A s \in Published' : date'[s] \in Nat /\ snapshot'[s].at \in Nat
        /\ \A s, t \in Published' : snapshot'[s].at = snapshot'[t].at => s = t
        /\ r \in Published'
    BY <1>1, PublishedTyped DEF LeavesPublished, ReleasedApart
  <2>3. \A s \in Published' : date'[r] > date'[s] \/ (date'[r] = date'[s] /\ snapshot'[r].at >= snapshot'[s].at)
    <3>1. Published' = Published /\ \A s \in Published : date'[s] = date[s] /\ snapshot'[s].at = snapshot[s].at
      BY DEF LeavesPublished
    <3>2. \A s \in Published : date[r] > date[s] \/ (date[r] = date[s] /\ snapshot[r].at >= snapshot[s].at)
      BY <2>1 DEF ShownBefore
    <3> QED
      BY <2>1, <3>1, <3>2
  <2>4. LatestPublished' = r
    BY <2>2, <2>3, TheBoard, LatestIsTheBoard
  <2> QED
    BY <1>1, <2>1, <2>4
<1> QED
  BY <1>1, <1>2, <1>3

(* What is taken back leaves the board to those of the latest day without it, *)
(* and leaves it alone if it was not on it.                                   *)
LEMMA WithdrawMovesBoard ==
  ASSUME StoreTypeOK, ReleasedApart, NEW r \in Runs, Withdraws(r)
  PROVE  /\ ReleasedApart'
         /\ Published' = Published \ {r}
         /\ LatestPublished # r => LatestPublished' = LatestPublished
         /\ Published' = {} => LatestPublished' = NoRun
         /\ Published' # {} => /\ LatestPublished' \in Published'
                              /\ \A s \in Published' : date[LatestPublished'] >= date[s]
<1>1. Published' = Published \ {r}
  BY DEF Withdraws, Published
<1>2. /\ LastDate \in Nat /\ clock \in Nat /\ date' = date
      /\ \A s \in Published' : /\ date'[s] \in Nat /\ date'[s] <= LastDate
                               /\ snapshot'[s] = snapshot[s]
                               /\ snapshot'[s].at \in Nat /\ snapshot'[s].at <= clock
  BY <1>1, PublishedTyped DEF Withdraws, Published
<1>3. \A s, t \in Published' : snapshot'[s].at = snapshot'[t].at => s = t
  BY <1>1, <1>2 DEF ReleasedApart
<1>4. ReleasedApart'
  BY <1>3 DEF ReleasedApart
<1>5. ASSUME LatestPublished # r PROVE LatestPublished' = LatestPublished
  <2>1. Published # {}
    BY DEF Withdraws
  <2>2. PICK b \in Published : b = LatestPublished /\ \A s \in Published : ShownBefore(b, s)
    BY <2>1, LatestPublishedIsFirst
  <2>3. b \in Published'
    BY <1>1, <1>5, <2>2
  <2>4. \A s \in Published' : date'[b] > date'[s] \/ (date'[b] = date'[s] /\ snapshot'[b].at >= snapshot'[s].at)
    BY <1>1, <1>2, <2>2, <2>3 DEF ShownBefore
  <2> QED
    BY <1>2, <1>3, <2>2, <2>3, <2>4, TheBoard, LatestIsTheBoard
<1>6. ASSUME Published' = {} PROVE LatestPublished' = NoRun
  BY <1>6, EmptyBoard, LatestIsTheBoard
<1>7. ASSUME Published' # {}
      PROVE  /\ LatestPublished' \in Published'
             /\ \A s \in Published' : date[LatestPublished'] >= date[s]
  <2>1. \E last, now \in Nat : \A s \in Published' : /\ date'[s] \in Nat /\ date'[s] <= last
                                                  /\ snapshot'[s].at \in Nat /\ snapshot'[s].at <= now
    BY <1>2
  <2>2. PICK b \in Published' : /\ b = BoardOf(Published', date', snapshot')
                              /\ \A s \in Published' : date'[b] > date'[s] \/ date'[b] = date'[s]
    BY <1>7, <2>1, BoardIsFirst
  <2>3. LatestPublished' = b
    BY <2>2, LatestIsTheBoard
  <2> QED
    BY <1>2, <2>2, <2>3
<1> QED
  BY <1>1, <1>4, <1>5, <1>6, <1>7

(* A release is later than all releases before it, and takes the board from   *)
(* an analysis of its own day or of an earlier one.                           *)
LEMMA ReleaseMovesBoard ==
  ASSUME StoreTypeOK, ReleasedApart, NEW r \in Runs, Releases(r)
  PROVE  /\ ReleasedApart'
         /\ Published' = Published \cup {r}
         /\ LatestPublished' = IF LatestPublished = NoRun \/ date[r] >= date[LatestPublished]
                               THEN r ELSE LatestPublished
<1>1. Published' = Published \cup {r}
  BY DEF Releases, Published
<1>2. /\ \A s \in Published : date[s] \in Nat /\ snapshot[s].at \in Nat /\ snapshot[s].at <= clock
      /\ date[r] \in Nat /\ clock \in Nat /\ date' = date
      /\ snapshot'[r].at = clock + 1
      /\ \A s \in Published \ {r} : snapshot'[s].at = snapshot[s].at
  BY PublishedTyped DEF StoreTypeOK, Dates, Releases, Published
<1>3. /\ \A s \in Published' : date'[s] \in Nat /\ snapshot'[s].at \in Nat
      /\ \A s, t \in Published' : snapshot'[s].at = snapshot'[t].at => s = t
  BY <1>1, <1>2 DEF ReleasedApart
<1>4. ReleasedApart'
  BY <1>3 DEF ReleasedApart
<1>5. CASE LatestPublished = NoRun \/ date[r] >= date[LatestPublished]
  <2>1. \A s \in Published : date[r] >= date[s]
    <3>1. CASE Published = {}
      BY <3>1
    <3>2. CASE Published # {}
      <4>1. /\ LatestPublished \in Published /\ LatestPublished # NoRun
            /\ \A s \in Published : date[LatestPublished] >= date[s]
        BY <1>2, <3>2, LatestPublishedIsFirst, LatestPublishedType DEF ShownBefore
      <4> QED
        BY <1>2, <1>5, <4>1
    <3> QED
      BY <3>1, <3>2
  <2>2. \A s \in Published' : date'[r] > date'[s] \/ (date'[r] = date'[s] /\ snapshot'[r].at >= snapshot'[s].at)
    BY <1>1, <1>2, <2>1
  <2>3. LatestPublished' = r
    BY <1>1, <1>3, <2>2, TheBoard, LatestIsTheBoard
  <2> QED
    BY <1>1, <1>4, <1>5, <2>3
<1>6. CASE ~(LatestPublished = NoRun \/ date[r] >= date[LatestPublished])
  <2>1. Published # {}
    BY <1>6, LatestPublishedType
  <2>2. PICK b \in Published : b = LatestPublished /\ \A s \in Published : ShownBefore(b, s)
    BY <2>1, LatestPublishedIsFirst
  <2>3. b # r /\ date[b] > date[r]
    BY <1>2, <1>6, <2>2
  <2>4. \A s \in Published' : date'[b] > date'[s] \/ (date'[b] = date'[s] /\ snapshot'[b].at >= snapshot'[s].at)
    <3>1. \A s \in Published : date[b] > date[s] \/ (date[b] = date[s] /\ snapshot[b].at >= snapshot[s].at)
      BY <2>2 DEF ShownBefore
    <3>2. snapshot'[b].at = snapshot[b].at
      BY <1>2, <2>3
    <3>3. ASSUME NEW s \in Published'
          PROVE  date'[b] > date'[s] \/ (date'[b] = date'[s] /\ snapshot'[b].at >= snapshot'[s].at)
      <4>1. CASE s = r
        BY <1>2, <2>3, <4>1
      <4>2. CASE s # r
        BY <1>1, <1>2, <3>1, <3>2, <4>2
      <4> QED
        BY <4>1, <4>2
    <3> QED
      BY <3>3
  <2>5. LatestPublished' = b
    <3>1. b \in Published'
      BY <1>1, <2>2
    <3> QED
      BY <1>3, <2>4, <3>1, TheBoard, LatestIsTheBoard
  <2> QED
    BY <1>1, <1>4, <1>6, <2>2, <2>5
<1> QED
  BY <1>1, <1>4, <1>5, <1>6

(* Releases, retries and what they take back are steps of the log, everything *)
(* else is a stutter.                                                         *)
LEMMA StepOfLog ==
  ASSUME LogInv, [Next]_allVars
  PROVE  ReleasedApart' /\ [Log!LogNext]_(Log!logVars)
<1> DEFINE log == [r \in Published |-> date[r]]
<1>0. TypeInv
  BY DEF LogInv, GateInv
<1>1. StoreTypeOK /\ ReleasedApart
  BY <1>0 DEF LogInv, TypeInv, TypeOK
<1>2. ASSUME LeavesPublished, UNCHANGED Redone \/ \E r \in Runs : Redone' = Redone \cup {r}
      PROVE  ReleasedApart' /\ [Log!LogNext]_(Log!logVars)
  <2>1. ReleasedApart' /\ LatestPublished' = LatestPublished
    BY <1>1, <1>2, LeavingKeepsBoard
  <2>2. log' = log
    BY <1>2 DEF LeavesPublished
  <2>3. CASE UNCHANGED Redone
    BY <2>1, <2>2, <2>3 DEF Log!logVars
  <2>4. CASE \E r \in Runs : Redone' = Redone \cup {r}
    <3>1. PICK r \in Runs : Redone' = Redone \cup {r}
      BY <2>4
    <3>2. Log!Redo(r)
      BY <2>1, <2>2, <3>1 DEF Log!Redo
    <3>3. Log!LogNext
      BY <3>2 DEF Log!LogNext
    <3> QED
      BY <2>1, <3>3
  <2> QED
    BY <1>2, <2>3, <2>4
<1>3. ASSUME NEW r \in Runs, Releases(r)
      PROVE  ReleasedApart' /\ Log!LogNext
  <2>1. /\ ReleasedApart' /\ Published' = Published \cup {r} /\ date' = date
        /\ LatestPublished' = IF LatestPublished = NoRun \/ date[r] >= date[LatestPublished]
                              THEN r ELSE LatestPublished
    BY <1>1, <1>3, ReleaseMovesBoard DEF Releases
  <2>2. PICK d \in Dates : d = date[r]
    BY <1>1 DEF StoreTypeOK
  <2>3. LatestPublished # NoRun => log[LatestPublished] = date[LatestPublished]
    BY <1>1, LatestPublishedType
  <2>4. log' = [x \in DOMAIN log \cup {r} |-> IF x = r THEN d ELSE log[x]]
    BY <2>1, <2>2
  <2>5. r \in DOMAIN log => log[r] = d
    BY <2>2
  <2>6. UNCHANGED Redone
    BY <1>0, <1>3, RedoneByRetry DEF Releases
  <2>7. Log!Release(r, d)
    BY <2>1, <2>2, <2>3, <2>4, <2>5, <2>6 DEF Log!Release
  <2>8. Log!LogNext
    BY <2>2, <2>7 DEF Log!LogNext
  <2> QED
    BY <2>1, <2>8
<1>4. ASSUME NEW r \in Runs, Withdraws(r)
      PROVE  ReleasedApart' /\ Log!LogNext
  <2>1. /\ ReleasedApart' /\ Published' = Published \ {r} /\ date' = date
        /\ LatestPublished # r => LatestPublished' = LatestPublished
        /\ Published' = {} => LatestPublished' = NoRun
        /\ Published' # {} => /\ LatestPublished' \in Published'
                             /\ \A s \in Published' : date[LatestPublished'] >= date[s]
    BY <1>1, <1>4, WithdrawMovesBoard DEF Withdraws
  <2>2. DOMAIN log = Published /\ r \in Redone \cap Published
    BY <1>4 DEF Withdraws
  <2>3. log' = [x \in DOMAIN log \ {r} |-> log[x]]
    BY <2>1
  <2>4. DOMAIN log' = Published' /\ \A s \in Published' : log'[s] = date[s]
    BY <2>1
  <2>5. LatestPublished = r => LatestPublished' \in Log!Latest(log')
    <3> HIDE DEF log
    <3> QED
      BY <2>1, <2>4 DEF Log!Latest
  <2>6. UNCHANGED Redone
    BY <1>0, <1>4, RedoneByRetry DEF Withdraws
  <2>7. Log!Withdraw(r)
    BY <2>1, <2>2, <2>3, <2>5, <2>6 DEF Log!Withdraw
  <2>8. Log!LogNext
    BY <2>7 DEF Log!LogNext
  <2> QED
    BY <2>1, <2>8
<1> QED
  BY <1>2, <1>3, <1>4, StepPublishes

LEMMA InitLog == Init => LogInv /\ Log!LogInit
<1> SUFFICES ASSUME Init PROVE LogInv /\ Log!LogInit
  OBVIOUS
<1>1. /\ Published = {}
      /\ \A r \in Runs : kind[r] = "none" /\ tries[r] = 0
  BY DEF Init, StoreInit, RunInit, NoSnapshot, Published
<1>2. Redone = {}
  BY <1>1 DEF Redone
<1>3. DatesSettled /\ PublishedSaved /\ ReleasedApart
  BY <1>1 DEF DatesSettled, PublishedSaved, ReleasedApart
<1> QED
  BY <1>1, <1>2, <1>3, InitGate, InitApproval DEF LogInv, LatestPublished, Log!LogInit

LEMMA StepLogInv ==
  ASSUME LogInv, [Next]_allVars
  PROVE  LogInv'
  BY ApprovalKept, GateKept, StepKeepsDates, StepOfLog DEF LogInv

(* The runs, their tables and the board implement the publication log: what   *)
(* was released goes away only where a retried task saves over it, its day    *)
(* stays what it is, and the board moves only to a release of its day or of a *)
(* later one or, when what it shows is taken back, to what is latest without  *)
(* it, for any runs, dates, administrators, readers, retries and faults.      *)
THEOREM ImplementsLog == Spec => PublicationRefines
<1>1. LogInv /\ [Next]_allVars => LogInv' /\ [Log!LogNext]_(Log!logVars)
  BY StepOfLog, StepLogInv
<1> QED
  BY <1>1, InitLog, PTL DEF Spec, PublicationRefines, Log!LogSpec

----------------------------------------------------------------------------
(* The dashboard.                                                             *)

ServedInv == LogInv /\ ServedIsPublished

LEMMA StepServes ==
  ASSUME ServedInv, [Next]_allVars
  PROVE  ServedIsPublished'
<1> DEFINE Fair == Published \cup Redone \cup {NoRun}
<1>0. LogInv /\ TypeInv
  BY DEF ServedInv, LogInv, GateInv
<1>1. StoreTypeOK /\ cache \in Fair /\ shown \in Fair
      /\ \A p \in Readers : reading[p] \in Fair
      /\ reading \in [Readers -> Runs \cup {NoRun}]
  BY <1>0 DEF ServedInv, TypeInv, TypeOK, DashTypeOK, ServedIsPublished
<1>2. Fair \subseteq Fair'
  <2>1. StoreTypeOK /\ ReleasedApart
    BY <1>0, <1>1 DEF LogInv
  <2>2. CASE LeavesPublished /\ (UNCHANGED Redone \/ \E r \in Runs : Redone' = Redone \cup {r})
    BY <2>2 DEF LeavesPublished
  <2>3. ASSUME NEW r \in Runs, Releases(r) PROVE Fair \subseteq Fair'
    BY <1>0, <2>1, <2>3, ReleaseMovesBoard, RedoneByRetry DEF Releases
  <2>4. ASSUME NEW r \in Runs, Withdraws(r) PROVE Fair \subseteq Fair'
    BY <1>0, <2>1, <2>4, WithdrawMovesBoard, RedoneByRetry DEF Withdraws
  <2> QED
    BY <1>0, <2>2, <2>3, <2>4, StepPublishes
<1>3. LatestPublished \in Fair
  BY <1>1, LatestPublishedType
<1> HIDE DEF Fair
<1>00. ASSUME cache' \in Fair', shown' \in Fair', \A p \in Readers : reading'[p] \in Fair'
       PROVE  ServedIsPublished'
  BY <1>00 DEF ServedIsPublished, Fair
<1> DEFINE Same == reading' = reading /\ shown' = shown
<1>4. ASSUME Same, cache' \in {cache, NoRun} PROVE ServedIsPublished'
  <2>1. NoRun \in Fair
    BY DEF Fair
  <2> QED
    BY <1>00, <1>1, <1>2, <1>4, <2>1
<1>5. ASSUME NEW r \in Runs, Quiet(r) \/ Save(r), UNCHANGED dashVars PROVE ServedIsPublished'
  <2>1. cache' \in {cache, NoRun}
    BY <1>5 DEF Quiet, Deploy, DeployFails, Prepare, PrepareFails, Create, AcquireLock, LockRefused,
       FailRefused, Analyse, AnalyseFails, Update, InvalidateCache, Invalidate, Fail, ReleaseLock,
       Retry, GiveUp, StoreFault, Crash, Save, cacheVars
  <2> QED
    BY <1>4, <1>5, <2>1 DEF dashVars
<1>6. ASSUME NEW r \in Runs, NEW k \in RunKinds, NEW b \in Runs \cup {NoRun}, Submit(r, k, b),
             UNCHANGED dashVars
      PROVE  ServedIsPublished'
  BY <1>4, <1>6 DEF Submit, cacheVars, dashVars
<1>7. CASE LockExpires /\ UNCHANGED dashVars
  BY <1>4, <1>7 DEF LockExpires, cacheVars, dashVars
<1>8. CASE CacheAges
  BY <1>4, <1>8 DEF CacheAges, CacheTick, dashVars
<1>9. CASE UNCHANGED allVars
  BY <1>4, <1>9 DEF allVars, vars, cacheVars, dashVars
<1>10. ASSUME NEW a \in Admins,
              (\E r \in Runs, b \in BOOLEAN : AdminReview(a, r, b)) \/ AdminClear(a) \/ AdminPublish(a)
              \/ AdminInvalidate(a) \/ AdminAudit(a) \/ AdminFault(a)
       PROVE  ServedIsPublished'
  BY <1>4, <1>10 DEF AdminReview, AdminClear, AdminPublish, AdminInvalidate, Invalidate, AdminAudit,
     AdminFault, AdminCrash, cacheVars
<1>11. ASSUME NEW p \in Readers, ReadCache(p) PROVE ServedIsPublished'
  BY <1>00, <1>1, <1>2, <1>11 DEF ReadCache, cacheVars
<1>12. ASSUME NEW p \in Readers, ReadStore(p) PROVE ServedIsPublished'
  BY <1>00, <1>1, <1>2, <1>3, <1>12 DEF ReadStore, cacheVars
<1>13. ASSUME NEW p \in Readers, Answer(p) PROVE ServedIsPublished'
  <2>1. NoRun \in Fair
    BY DEF Fair
  <2> QED
    BY <1>00, <1>1, <1>2, <1>13, <2>1 DEF Answer, SetCurrent, cacheVars
<1> QED
  BY <1>5, <1>6, <1>7, <1>8, <1>9, <1>10, <1>11, <1>12, <1>13 DEF Next, Quiet

(* Whatever the dashboard has answered, holds in its cache or has read for it *)
(* is published, or a retry has taken it back since, though reads, writes of  *)
(* the cache and invalidations overlap and get lost, for any number of        *)
(* readers.                                                                   *)
THEOREM DashboardServesPublished == Spec => []ServedIsPublished
<1>1. ServedInv /\ [Next]_allVars => ServedInv'
  BY StepServes, StepLogInv DEF ServedInv
<1>2. Init => ServedInv
  BY InitLog DEF Init, CacheInit, DashInit, ServedInv, ServedIsPublished
<1>3. ServedInv => ServedIsPublished
  BY DEF ServedInv
<1> QED
  BY <1>1, <1>2, <1>3, PTL DEF Spec
=============================================================================
