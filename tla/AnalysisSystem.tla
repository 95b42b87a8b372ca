--------------------------- MODULE AnalysisSystem ----------------------------
(***************************************************************************)
(* The analysis platform's core: the runs, their lock, the two tables that *)
(* decide what is published, the dashboard's cache, the administrators who *)
(* publish and the readers who look.                                       *)
(***************************************************************************)
EXTENDS AnalysisRun, Dashboard

allVars == <<vars, dashVars>>

Init == StoreInit /\ CacheInit /\ RunInit /\ DashInit

(* An administrator's request counts as a fault when it does not end.         *)
AdminFault(a) == faults < MaxFaults /\ faults' = faults + 1 /\ AdminCrash(a)

runOnly == <<theLock, runVars, faults>>

Next ==
    \/ \E r \in Runs, k \in RunKinds, b \in Runs \cup {NoRun} : Submit(r, k, b) /\ UNCHANGED dashVars
    \/ \E r \in Runs : Deploy(r) /\ UNCHANGED dashVars
    \/ \E r \in Runs : DeployFails(r) /\ UNCHANGED dashVars
    \/ \E r \in Runs : Prepare(r) /\ UNCHANGED dashVars
    \/ \E r \in Runs : PrepareFails(r) /\ UNCHANGED dashVars
    \/ \E r \in Runs : Create(r) /\ UNCHANGED dashVars
    \/ \E r \in Runs : AcquireLock(r) /\ UNCHANGED dashVars
    \/ \E r \in Runs : LockRefused(r) /\ UNCHANGED dashVars
    \/ \E r \in Runs : FailRefused(r) /\ UNCHANGED dashVars
    \/ \E r \in Runs : Analyse(r) /\ UNCHANGED dashVars
    \/ \E r \in Runs : AnalyseFails(r) /\ UNCHANGED dashVars
    \/ \E r \in Runs : Save(r) /\ UNCHANGED dashVars
    \/ \E r \in Runs : Update(r) /\ UNCHANGED dashVars
    \/ \E r \in Runs : InvalidateCache(r) /\ UNCHANGED dashVars
    \/ \E r \in Runs : Fail(r) /\ UNCHANGED dashVars
    \/ \E r \in Runs : ReleaseLock(r) /\ UNCHANGED dashVars
    \/ \E r \in Runs : Retry(r) /\ UNCHANGED dashVars
    \/ \E r \in Runs : GiveUp(r) /\ UNCHANGED dashVars
    \/ \E r \in Runs : StoreFault(r) /\ UNCHANGED dashVars
    \/ \E r \in Runs : Crash(r) /\ UNCHANGED dashVars
    \/ LockExpires /\ UNCHANGED dashVars
    \/ \E a \in Admins, r \in Runs, b \in BOOLEAN : AdminReview(a, r, b) /\ UNCHANGED runOnly
    \/ \E a \in Admins : AdminClear(a) /\ UNCHANGED runOnly
    \/ \E a \in Admins : AdminPublish(a) /\ UNCHANGED runOnly
    \/ \E a \in Admins : AdminInvalidate(a) /\ UNCHANGED runOnly
    \/ \E a \in Admins : AdminAudit(a) /\ UNCHANGED runOnly
    \/ \E a \in Admins : AdminFault(a) /\ UNCHANGED <<theLock, runVars>>
    \/ \E p \in Readers : ReadCache(p) /\ UNCHANGED runOnly
    \/ \E p \in Readers : ReadStore(p) /\ UNCHANGED runOnly
    \/ \E p \in Readers : Answer(p) /\ UNCHANGED runOnly
    \/ CacheAges /\ UNCHANGED runOnly

Spec == Init /\ [][Next]_allVars

(* A process that lives gets on with its run, a request that was received is  *)
(* answered, and time passes.  Nobody has to trigger a run or to ask for the  *)
(* dashboard, and an administrator need not publish what may be published.    *)
Fairness ==
    /\ \A r \in Runs : WF_allVars(RunStep(r) /\ UNCHANGED dashVars)
    /\ \A a \in Admins : WF_allVars(AdminStep(a) /\ UNCHANGED runOnly)
    /\ \A p \in Readers : WF_allVars(Answer(p) /\ UNCHANGED runOnly)
    /\ WF_allVars(CacheAges /\ UNCHANGED runOnly)

FairSpec == Spec /\ Fairness

----------------------------------------------------------------------------
(* Safety.                                                                    *)

TypeOK == StoreTypeOK /\ CacheTypeOK /\ RunTypeOK /\ DashTypeOK

(* "Manual runs are always previews first" (docs/01, design red lines): what  *)
(* is published without the schedule was published by an administrator, which *)
(* the audit log says, unless the request died before its last step.          *)
PublishedByAdmin(r) ==
    \/ r \in audit
    \/ \E a \in Admins :
          /\ admin[a].run = r
          /\ admin[a].pc \in {"published", "invalidated", "crashed"}

ManualNeedsApproval == \A r \in Published : kind[r] = "scheduled" \/ PublishedByAdmin(r)

(* The runs whose task Prefect has started once more.                         *)
Redone == {r \in Runs : tries[r] > 0}

(* Nothing is published that its quality gate did not pass for publication,   *)
(* whoever publishes it: the scheduled run decides and saves in one step      *)
(* (choose_analysis_status, save_snapshot), but publish_run reads the gate in *)
(* one transaction and publishes in another that does not look again          *)
(* (admin.py:196, :214).  What can come between and be published is a retry's *)
(* save of a gate that failed, and nothing but that.                          *)
PassedUnlessRedone ==
    \A r \in Published : snapshot[r].passed \/ (r \in Redone /\ PublishedByAdmin(r))

(* The list of runs never shows PUBLISHED for a run the dashboard may not     *)
(* show: the snapshot is saved before the row is updated, and a fault or an   *)
(* administrator between the two does not turn that around.  A retry may: its *)
(* save takes the snapshot back, and its row follows later or, if that fails, *)
(* never.                                                                     *)
RowFollowsSnapshot ==
    \A r \in Runs : status[r] = "PUBLISHED" => snapshot[r].published \/ r \in Redone

(* The section of run_analysis that the run lock guards.                      *)
Guarded == {"analyse", "save", "update", "invalidate", "except", "release", "unwind"}

(* A run is in possession of its lock, or was let through without one,        *)
(* exactly while it is in that section: no way out of it, by a return or by   *)
(* an exception, leaves the key behind for the TTL, and a refused run does    *)
(* not release what is not its own.                                           *)
LockFollowsRun ==
    \A r \in Runs :
        /\ Inside(r) <=> pc[r] \in Guarded
        /\ Inside(r) => lease[r].key = LockKey(r)

(* Two attempts of one analysis date and mode are under way together only if  *)
(* one of them has lost its lock to the TTL or never had one because Redis    *)
(* was unreachable, even after the first one's late release and its retry.    *)
OneAttemptPerKey ==
    \A r, s \in Runs :
        /\ r # s
        /\ pc[r] \in Guarded
        /\ pc[s] \in Guarded
        /\ LockKey(r) = LockKey(s)
        => lease[r].state # "held" \/ lease[s].state # "held"

(* Whatever the dashboard has answered, holds in its cache or is about to put *)
(* there is a published analysis, or one whose retry has taken it back.       *)
ServedIsPublished ==
    {cache, shown} \cup {reading[p] : p \in Readers} \subseteq Published \cup Redone \cup {NoRun}

(* Publication as its readers see it: a log and a board that loses what was   *)
(* released, goes back to an older day or goes blank only where a retry saves *)
(* over a published snapshot.                                                 *)
Log == INSTANCE PublicationLog WITH
    Analyses <- Runs, Days <- Dates, Nothing <- NoRun,
    day <- [r \in Published |-> date[r]], board <- LatestPublished,
    redone <- Redone

PublicationRefines == Log!LogSpec

----------------------------------------------------------------------------
(* Liveness, while no transaction fails and no process dies.                  *)

Terminal == {"DATA_READY", "QUALITY_FAILED", "PREVIEW_READY", "PUBLISHED", "FAILED"}

(* A run that was started comes to a final status for good, through failures, *)
(* refusals by the lock and retries.                                          *)
RunSettles == \A r \in Runs : status[r] = "RUNNING" ~> [](status[r] \in Terminal)

(* When publications stop, the cache ends up empty or right for good, though  *)
(* invalidations get lost and slow readers write what they read long ago.     *)
CacheConverges == <>[](cache \in {NoRun, LatestPublished})

----------------------------------------------------------------------------
(* What the repository says of the program and the program does not do.       *)

(* A reserved run does not stay PENDING for ever (dispatcher.py:41).          *)
NoRunHangs == \A r \in Runs : status[r] = "PENDING" ~> status[r] \in Terminal

(* Nothing is published that its quality gate did not pass: publish_run       *)
(* answers 409, "Quality gate does not allow publication" (admin.py:197).     *)
PublishedPassedGate == \A r \in Published : snapshot[r].passed

(* A failed quality gate does not overwrite what is published (docs/01).      *)
PublishedStays == [][\A r \in Published : snapshot'[r].published]_allVars
=============================================================================
