----------------------------- MODULE AnalysisRun -----------------------------
(***************************************************************************)
(* The life of an analysis run: services/dispatcher.py reserves and        *)
(* submits it, workflows/prefect/analysis_flow.py starts its attempts, and *)
(* services/analysis.py carries one attempt out, from create_run to the    *)
(* release of the run lock.  What the analysis computes and the evidence   *)
(* it stores on the way are abstracted to the verdict of its quality gate. *)
(***************************************************************************)
EXTENDS SnapshotCache

CONSTANTS
    RunKinds,       \* the kinds of run that are triggered, a subset of Kinds
    RawIndicators,  \* settings.data_mode = "raw_indicators"
    LockEnabled,    \* settings.run_lock_enabled
    NoKey,          \* see RunLock
    MaxFaults       \* bound: transactions that fail and processes that die

Kinds == {"scheduled", "manual", "reanalyze", "data_only", "replay"}

ASSUME RunAssumption ==
    /\ RunKinds \subseteq Kinds
    /\ RawIndicators \in BOOLEAN
    /\ LockEnabled \in BOOLEAN
    /\ MaxFaults \in Nat

VARIABLES
    kind,       \* what kind of run each run id was triggered as, or "none"
    base,       \* REANALYZE: base_run_id
    pc,         \* what the run's worker does next
    tries,      \* retries of the Prefect task so far
    verdict,    \* the quality gate's result of this attempt
    faults,     \* faults so far
    owner,      \* see RunLock
    lease       \* see RunLock

runVars == <<kind, base, pc, tries, verdict>>

(* analysis_lock_key: the analysis date and the mode; a REANALYZE puts its    *)
(* own run id where the mode stands.                                          *)
RunMode(k) ==
    CASE k = "data_only" -> "DATA_ONLY"
      [] k = "replay"    -> "REPLAY"
      [] OTHER           -> "FULL_REFRESH"

LockModes == Runs \cup {"FULL_REFRESH", "DATA_ONLY", "REPLAY"}

LockKeys == Dates \X LockModes

ASSUME KeyAssumption == NoKey \notin LockKeys

LockKey(r) == <<date[r], IF kind[r] = "reanalyze" THEN r ELSE RunMode(kind[r])>>

INSTANCE RunLock WITH LockWorkers <- Runs, NoOwner <- NoRun

theLock == <<owner, lease>>

vars == <<storeVars, cacheVars, theLock, runVars, faults>>

----------------------------------------------------------------------------
(* The program of an attempt.                                                 *)

Locations ==
    {"new", "reserved", "queued", "create", "lock", "refused", "analyse", "save",
     "update", "invalidate", "except", "release", "unwind", "ended", "done", "dead"}

Verdicts == {"none", "fail", "preview", "publish"}

(* Mutant of IsAuto: the admin API passes on the publish mode it is asked for. *)
AutoOnRequest(r) == kind[r] \in {"scheduled", "manual"}

(* Only the scheduled flow asks for AUTO; every other trigger, and the admin  *)
(* API whatever it is asked for, says PREVIEW_ONLY.                           *)
IsAuto(r) == kind[r] = "scheduled"

(* choose_analysis_status, and DATA_READY for a data-only run.                *)
ShouldPublish(r) == IsAuto(r) /\ verdict[r] = "publish"

(* Mutant of FinalStatus: the status ignores the publish mode.                *)
FinalStatusByGate(r) ==
    CASE kind[r] = "data_only"  -> "DATA_READY"
      [] verdict[r] = "publish" -> "PUBLISHED"
      [] OTHER -> IF verdict[r] = "preview" THEN "PREVIEW_READY" ELSE "QUALITY_FAILED"

FinalStatus(r) ==
    CASE kind[r] = "data_only" -> "DATA_READY"
      [] ShouldPublish(r)      -> "PUBLISHED"
      [] OTHER -> IF verdict[r] \in {"preview", "publish"}
                  THEN "PREVIEW_READY" ELSE "QUALITY_FAILED"

(* Task retries: analysis_core_task has one, prepared_analysis_task, which    *)
(* serves raw_indicators, and a replay's direct call have none.               *)
Retries(r) ==
    IF kind[r] = "replay" \/ (RawIndicators /\ kind[r] # "reanalyze") THEN 0 ELSE 1

RunTypeOK ==
    /\ kind \in [Runs -> Kinds \cup {"none"}]
    /\ base \in [Runs -> Runs \cup {NoRun}]
    /\ \A r \in Runs : kind[r] = "reanalyze" <=> base[r] # NoRun
    /\ pc \in [Runs -> Locations]
    /\ tries \in [Runs -> 0 .. 1]
    /\ verdict \in [Runs -> Verdicts]
    /\ faults \in 0 .. MaxFaults
    /\ LockTypeOK

RunInit ==
    /\ kind = [r \in Runs |-> "none"]
    /\ base = [r \in Runs |-> NoRun]
    /\ pc = [r \in Runs |-> "new"]
    /\ tries = [r \in Runs |-> 0]
    /\ verdict = [r \in Runs |-> "none"]
    /\ faults = 0
    /\ LockInit

Goto(r, l) == pc' = [pc EXCEPT ![r] = l]

(* Everything of a run's but where it is; what a step of one attempt leaves   *)
(* alone.                                                                     *)
runData == <<kind, base, tries, verdict>>

----------------------------------------------------------------------------
(* Triggering a run: dispatch_analysis for the admin API, the deployment's    *)
(* own schedule, or run_replay, which calls run_analysis itself.              *)

Dispatched(k) == k \in {"manual", "reanalyze", "data_only"}

(* The schedule also fires on days the CN exchange is closed: such a flow run *)
(* returns SKIPPED and leaves no row.                                         *)
Submit(r, k, b) ==
    /\ pc[r] = "new"
    /\ k = "reanalyze" <=> b # NoRun
    /\ kind' = [kind EXCEPT ![r] = k]
    /\ base' = [base EXCEPT ![r] = b]
    /\ \/ Dispatched(k) /\ Goto(r, "reserved") /\ ReserveRun(r)
       \/ ~Dispatched(k) /\ Goto(r, "queued") /\ UNCHANGED storeVars
       \/ k = "scheduled" /\ Goto(r, "done") /\ UNCHANGED storeVars
    /\ UNCHANGED <<tries, verdict, cacheVars, theLock, faults>>

Deploy(r) ==
    /\ pc[r] = "reserved"
    /\ Goto(r, "queued")
    /\ UNCHANGED <<storeVars, runData, cacheVars, theLock, faults>>

(* run_deployment raised.  Whether Prefect has the flow run is not known: the *)
(* call may have been carried out and its answer lost.                        *)
DeployFails(r) ==
    /\ pc[r] = "reserved"
    /\ \/ UpdateRun(r, "FAILED") /\ UNCHANGED faults
       \/ faults < MaxFaults /\ faults' = faults + 1 /\ UNCHANGED storeVars
    /\ pc' \in {[pc EXCEPT ![r] = l] : l \in {"queued", "done"}}
    /\ UNCHANGED <<runData, cacheVars, theLock>>

----------------------------------------------------------------------------
(* One attempt of _run_analysis_impl.                                         *)

(* Everything before create_run: collecting inputs and, for raw indicators,   *)
(* the whole analysis, in the flow's own tasks; else provider.load().         *)
Prepare(r) ==
    /\ pc[r] = "queued"
    /\ kind[r] = "reanalyze" => HasSnapshot(base[r])
    /\ Goto(r, "create")
    /\ UNCHANGED <<storeVars, runData, cacheVars, theLock, faults>>

(* It raises; no handler of this code is around it, the row stays as it is.   *)
PrepareFails(r) ==
    /\ pc[r] = "queued"
    /\ Goto(r, "ended")
    /\ UNCHANGED <<storeVars, runData, cacheVars, theLock, faults>>

Create(r) ==
    /\ pc[r] = "create"
    /\ CreateRun(r, IF kind[r] = "reanalyze" THEN date[base[r]] ELSE date[r])
    /\ Goto(r, "lock")
    /\ UNCHANGED <<runData, cacheVars, theLock, faults>>

AcquireLock(r) ==
    /\ pc[r] = "lock"
    /\ Acquire(r, LockKey(r))
    /\ Goto(r, "analyse")
    /\ UNCHANGED <<storeVars, runData, cacheVars, faults>>

LockRefused(r) ==
    /\ pc[r] = "lock"
    /\ AcquireRefused(r, LockKey(r))
    /\ Goto(r, "refused")
    /\ UNCHANGED <<storeVars, runData, cacheVars, theLock, faults>>

(* ANALYSIS_ALREADY_RUNNING; the lock is not this run's to release.           *)
FailRefused(r) ==
    /\ pc[r] = "refused"
    /\ UpdateRun(r, "FAILED")
    /\ Goto(r, "ended")
    /\ UNCHANGED <<runData, cacheVars, theLock, faults>>

(* The body of the try block up to save_snapshot: inputs, events, factor      *)
(* states, scores and the quality gate, each stored as evidence in a          *)
(* transaction of its own.  A data-only run has no gate.                      *)
Analyse(r) ==
    /\ pc[r] = "analyse"
    /\ verdict' \in {[verdict EXCEPT ![r] = v] :
                         v \in IF kind[r] = "data_only" THEN {"none"} ELSE Verdicts \ {"none"}}
    /\ Goto(r, "save")
    /\ UNCHANGED <<storeVars, kind, base, tries, cacheVars, theLock, faults>>

(* Any of it raises: a rule, a model, a transaction.                          *)
AnalyseFails(r) ==
    /\ pc[r] = "analyse"
    /\ Goto(r, "except")
    /\ UNCHANGED <<storeVars, runData, cacheVars, theLock, faults>>

Save(r) ==
    /\ pc[r] = "save"
    /\ SaveSnapshot(r, FinalStatus(r), verdict[r] = "publish", ShouldPublish(r))
    /\ Goto(r, "update")
    /\ UNCHANGED <<runData, cacheVars, theLock, faults>>

Update(r) ==
    /\ pc[r] = "update"
    /\ UpdateRun(r, FinalStatus(r))
    /\ Goto(r, IF ShouldPublish(r) THEN "invalidate" ELSE "release")
    /\ UNCHANGED <<runData, cacheVars, theLock, faults>>

InvalidateCache(r) ==
    /\ pc[r] = "invalidate"
    /\ Invalidate
    /\ Goto(r, "release")
    /\ UNCHANGED <<storeVars, runData, theLock, faults>>

(* Mutant of Fail: the exception is logged, the row is not updated.           *)
FailSilently(r) ==
    /\ pc[r] = "except"
    /\ Goto(r, "unwind")
    /\ UNCHANGED <<storeVars, runData, cacheVars, theLock, faults>>

(* The except clause.                                                         *)
Fail(r) ==
    /\ pc[r] = "except"
    /\ UpdateRun(r, "FAILED")
    /\ Goto(r, "unwind")
    /\ UNCHANGED <<runData, cacheVars, theLock, faults>>

(* Mutant of ReleaseLock: released on success only, without a finally clause. *)
ReleaseOnSuccess(r) ==
    /\ pc[r] \in {"release", "unwind"}
    /\ IF pc[r] = "release" THEN Release(r) ELSE UNCHANGED theLock
    /\ Goto(r, IF pc[r] = "release" THEN "done" ELSE "ended")
    /\ verdict' = [verdict EXCEPT ![r] = "none"]
    /\ UNCHANGED <<storeVars, kind, base, tries, cacheVars, faults>>

(* The finally clause; the attempt's local results are gone.                  *)
ReleaseLock(r) ==
    /\ pc[r] \in {"release", "unwind"}
    /\ Release(r)
    /\ Goto(r, IF pc[r] = "release" THEN "done" ELSE "ended")
    /\ verdict' = [verdict EXCEPT ![r] = "none"]
    /\ UNCHANGED <<storeVars, kind, base, tries, cacheVars, faults>>

----------------------------------------------------------------------------
(* Prefect's answer to an attempt that raised.                                *)

(* Mutant of Retry: no limit.                                                 *)
RetryAlways(r) ==
    /\ pc[r] = "ended"
    /\ tries' = [tries EXCEPT ![r] = @ + 1]
    /\ Goto(r, "queued")
    /\ UNCHANGED <<storeVars, kind, base, verdict, cacheVars, theLock, faults>>

Retry(r) ==
    /\ pc[r] = "ended"
    /\ tries[r] < Retries(r)
    /\ tries' = [tries EXCEPT ![r] = @ + 1]
    /\ Goto(r, "queued")
    /\ UNCHANGED <<storeVars, kind, base, verdict, cacheVars, theLock, faults>>

GiveUp(r) ==
    /\ pc[r] = "ended"
    /\ tries[r] >= Retries(r)
    /\ Goto(r, "done")
    /\ UNCHANGED <<storeVars, runData, cacheVars, theLock, faults>>

----------------------------------------------------------------------------
(* Faults.                                                                    *)

(* Where a failed transaction leaves the attempt: inside the try block, at    *)
(* its except clause; outside of it, at the caller.                           *)
AfterFault(l) ==
    CASE l \in {"create", "refused"} -> "ended"
      [] l \in {"save", "update"}    -> "except"
      [] l = "except"                -> "unwind"

(* The next transaction of the run fails and is rolled back.                  *)
StoreFault(r) ==
    /\ faults < MaxFaults
    /\ faults' = faults + 1
    /\ pc[r] \in {"create", "refused", "save", "update", "except"}
    /\ Goto(r, AfterFault(pc[r]))
    /\ UNCHANGED <<storeVars, runData, cacheVars, theLock>>

(* The process that carries the run out dies.                                 *)
Crash(r) ==
    /\ faults < MaxFaults
    /\ faults' = faults + 1
    /\ pc[r] \notin {"new", "queued", "done", "dead"}
    /\ Goto(r, "dead")
    /\ Vanish(r)
    /\ UNCHANGED <<storeVars, runData, cacheVars>>

----------------------------------------------------------------------------
(* What a run's worker does by itself, and must get on with.                  *)
RunStep(r) ==
    \/ Deploy(r) \/ DeployFails(r)
    \/ Prepare(r) \/ PrepareFails(r)
    \/ Create(r)
    \/ AcquireLock(r) \/ LockRefused(r) \/ FailRefused(r)
    \/ Analyse(r) \/ AnalyseFails(r)
    \/ Save(r) \/ Update(r) \/ InvalidateCache(r)
    \/ Fail(r) \/ ReleaseLock(r)
    \/ Retry(r) \/ GiveUp(r)

LockExpires == \E k \in LockKeys : ExpireKey(k) /\ UNCHANGED <<storeVars, cacheVars, runVars, faults>>
=============================================================================
