------------------------------ MODULE Dashboard ------------------------------
(***************************************************************************)
(* The two API handlers around the published snapshot: publish_run, with   *)
(* which an administrator releases a reviewed preview                      *)
(* (apps/api/routers/admin.py), and current_dashboard, which serves the    *)
(* current snapshot through the cache (apps/api/routers/dashboard.py).     *)
(* Each handler is a sequence of separate transactions and Redis calls, so *)
(* runs, administrators and readers interleave between any two of them.    *)
(***************************************************************************)
EXTENDS SnapshotCache

CONSTANTS
    Admins,           \* requests of administrators that may be in flight at once
    Readers,          \* requests for the dashboard that may be in flight at once
    MaxPublications   \* bound on clock for an administrator's publication

ASSUME DashboardAssumption == MaxPublications \in Nat

VARIABLES
    admin,      \* each publish_run request
    audit,      \* the runs with an ADMIN_PUBLISH record in the audit log
    reading,    \* each dashboard request: the run it read from PostgreSQL, or NoRun
    shown       \* the run the dashboard answered with last, or NoRun

dashVars == <<admin, audit, reading, shown>>

AdminStates == {"idle", "reviewed", "cleared", "published", "invalidated", "crashed"}

DashTypeOK ==
    /\ admin \in [Admins -> [pc : AdminStates, run : Runs \cup {NoRun}, backdated : BOOLEAN]]
    /\ \A a \in Admins : admin[a].pc # "idle" => admin[a].run # NoRun
    /\ audit \subseteq Runs
    /\ reading \in [Readers -> Runs \cup {NoRun}]
    /\ shown \in Runs \cup {NoRun}

Idle == [pc |-> "idle", run |-> NoRun, backdated |-> FALSE]

DashInit ==
    /\ admin = [a \in Admins |-> Idle]
    /\ audit = {}
    /\ reading = [p \in Readers |-> NoRun]
    /\ shown = NoRun

At(a, l) == admin[a].pc = l

AdminGoto(a, l) == admin' = [admin EXCEPT ![a].pc = l]

----------------------------------------------------------------------------
(* publish_run.                                                               *)

(* Mutant of Publishable: the gate is not asked.                              *)
PublishableByStatus(r) == snapshot[r].status \notin {"ABSENT", "DATA_READY"}

(* get_snapshot; the snapshot's own status is tested and its stored gate, not *)
(* the status of the run's row.  Anything else is answered with 404 or 409.   *)
Publishable(r) ==
    /\ snapshot[r].status \in {"PREVIEW_READY", "PUBLISHED"}
    /\ snapshot[r].passed

AdminReview(a, r, backdated) ==
    /\ At(a, "idle")
    /\ Publishable(r)
    /\ admin' = [admin EXCEPT ![a] = [pc |-> "reviewed", run |-> r, backdated |-> backdated]]
    /\ UNCHANGED <<storeVars, cacheVars, audit, reading, shown>>

(* latest_published_analysis_date; an older run needs allow_backdated.        *)
NotBackdated(r) == Published # {} => date[r] >= LatestPublishedDate

AdminClear(a) ==
    /\ At(a, "reviewed")
    /\ IF admin[a].backdated \/ NotBackdated(admin[a].run)
       THEN admin' = [admin EXCEPT ![a].pc = "cleared", ![a].backdated = FALSE]
       ELSE admin' = [admin EXCEPT ![a] = Idle]
    /\ UNCHANGED <<storeVars, cacheVars, audit, reading, shown>>

AdminPublish(a) ==
    /\ At(a, "cleared")
    /\ clock < MaxPublications
    /\ Publish(admin[a].run)
    /\ AdminGoto(a, "published")
    /\ UNCHANGED <<cacheVars, audit, reading, shown>>

AdminInvalidate(a) ==
    /\ At(a, "published")
    /\ Invalidate
    /\ AdminGoto(a, "invalidated")
    /\ UNCHANGED <<storeVars, audit, reading, shown>>

AdminAudit(a) ==
    /\ At(a, "invalidated")
    /\ audit' = audit \cup {admin[a].run}
    /\ admin' = [admin EXCEPT ![a] = Idle]
    /\ UNCHANGED <<storeVars, cacheVars, reading, shown>>

(* A transaction of the request fails or the API process dies.                *)
AdminCrash(a) ==
    /\ admin[a].pc \notin {"idle", "crashed"}
    /\ AdminGoto(a, "crashed")
    /\ UNCHANGED <<storeVars, cacheVars, audit, reading, shown>>

AdminStep(a) == AdminClear(a) \/ AdminPublish(a) \/ AdminInvalidate(a) \/ AdminAudit(a)

----------------------------------------------------------------------------
(* current_dashboard.                                                         *)

(* Mutant of ReadCache: every read refreshes the TTL.                         *)
ReadCacheRefreshing(p) ==
    /\ reading[p] = NoRun
    /\ cache # NoRun
    /\ shown' = cache
    /\ age' = 0
    /\ UNCHANGED <<storeVars, cache, admin, audit, reading>>

(* A hit is answered as it is; its TTL is left alone.                         *)
ReadCache(p) ==
    /\ reading[p] = NoRun
    /\ cache # NoRun
    /\ shown' = cache
    /\ UNCHANGED <<storeVars, cacheVars, admin, audit, reading>>

(* A miss, or a read of Redis that failed: ask PostgreSQL.  Without any       *)
(* published snapshot the answer is 404.                                      *)
ReadStore(p) ==
    /\ reading[p] = NoRun
    /\ LatestPublished # NoRun
    /\ reading' = [reading EXCEPT ![p] = LatestPublished]
    /\ UNCHANGED <<storeVars, cacheVars, admin, audit, shown>>

Answer(p) ==
    /\ reading[p] # NoRun
    /\ SetCurrent(reading[p])
    /\ shown' = reading[p]
    /\ reading' = [reading EXCEPT ![p] = NoRun]
    /\ UNCHANGED <<storeVars, admin, audit>>

CacheAges == CacheTick /\ UNCHANGED <<storeVars, dashVars>>
=============================================================================
