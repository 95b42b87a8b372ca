---------------------------- MODULE SnapshotStore ----------------------------
(***************************************************************************)
(* The two PostgreSQL tables that decide what the dashboard shows, and the *)
(* transactions of repositories/postgres.py on them: analysis_runs (status *)
(* and analysis date of a run) and analysis_snapshots (the result of a     *)
(* run, keyed by the run).  Each operator is one db_session() transaction  *)
(* and is atomic.                                                          *)
(***************************************************************************)
EXTENDS Naturals

CONSTANTS
    Runs,        \* analysis_run_id
    LastDate,    \* the last date of the calendar; date.max.toordinal() in the code
    NoRun        \* a query that finds nothing

ASSUME StoreAssumption ==
    /\ LastDate \in Nat \ {0}
    /\ NoRun \notin Runs

(* Analysis dates, as their ordinals.                                         *)
Dates == 1 .. LastDate

VARIABLES
    status,      \* analysis_runs.status; "ABSENT" when the run has no row
    date,        \* analysis_runs.analysis_date
    snapshot,    \* the run's row of analysis_snapshots
    clock        \* the published_at of the latest publication

storeVars == <<status, date, snapshot, clock>>

RunStatus == {"ABSENT", "PENDING", "RUNNING", "DATA_READY", "QUALITY_FAILED",
              "PREVIEW_READY", "PUBLISHED", "FAILED"}

(* A run's snapshot: the status stored in its JSON ("ABSENT" when there is no *)
(* row), whether its quality gate passed for publication, its published       *)
(* flag, and published_at (0 for NULL).                                       *)
Snapshot == [status : RunStatus, passed : BOOLEAN, published : BOOLEAN, at : Nat]

NoSnapshot == [status |-> "ABSENT", passed |-> FALSE, published |-> FALSE, at |-> 0]

StoreTypeOK ==
    /\ status \in [Runs -> RunStatus]
    /\ date \in [Runs -> Dates]
    /\ snapshot \in [Runs -> Snapshot]
    /\ clock \in Nat
    /\ \A r \in Runs : snapshot[r].at <= clock

StoreInit ==
    /\ status = [r \in Runs |-> "ABSENT"]
    /\ date \in [Runs -> Dates]
    /\ snapshot = [r \in Runs |-> NoSnapshot]
    /\ clock = 0

----------------------------------------------------------------------------
(* Queries.                                                                   *)

HasSnapshot(r) == snapshot[r].status # "ABSENT"

Published == {r \in Runs : snapshot[r].published}

(* Mutant of ShownBefore: publication time alone decides.                     *)
PublishedBefore(r, s) == snapshot[r].at >= snapshot[s].at

(* ORDER BY analysis_date DESC, published_at DESC.                            *)
ShownBefore(r, s) ==
    \/ date[r] > date[s]
    \/ date[r] = date[s] /\ snapshot[r].at >= snapshot[s].at

(* Mutant of LatestPublished: WHERE published is missing.                     *)
LatestSaved ==
    LET saved == {r \in Runs : HasSnapshot(r)}
    IN  IF saved = {} THEN NoRun
        ELSE CHOOSE r \in saved : \A s \in saved : ShownBefore(r, s)

LatestPublished ==
    IF Published = {} THEN NoRun
    ELSE CHOOSE r \in Published : \A s \in Published : ShownBefore(r, s)

LatestPublishedDate ==
    CHOOSE d \in {date[r] : r \in Published} :
        \A r \in Published : date[r] <= d

----------------------------------------------------------------------------
(* Transactions.                                                              *)

ReserveRun(r) ==
    /\ status' = [status EXCEPT ![r] = IF @ = "ABSENT" THEN "PENDING" ELSE @]
    /\ UNCHANGED <<date, snapshot, clock>>

CreateRun(r, d) ==
    /\ status' = [status EXCEPT ![r] = "RUNNING"]
    /\ date' = [date EXCEPT ![r] = d]
    /\ UNCHANGED <<snapshot, clock>>

UpdateRun(r, s) ==
    /\ status' = [status EXCEPT ![r] = IF @ = "ABSENT" THEN @ ELSE s]
    /\ UNCHANGED <<date, snapshot, clock>>

(* The run's row is inserted, or replaced if an earlier attempt left one:     *)
(* payload and published flag are overwritten, published_at only by a         *)
(* published snapshot.                                                        *)
SaveSnapshot(r, s, passed, published) ==
    /\ clock' = IF published THEN clock + 1 ELSE clock
    /\ snapshot' = [snapshot EXCEPT ![r] =
           [status |-> s, passed |-> passed, published |-> published,
            at |-> IF published THEN clock + 1 ELSE @.at]]
    /\ UNCHANGED <<status, date>>

(* Marks snapshot and run published; the gate is not looked at again.         *)
Publish(r) ==
    /\ HasSnapshot(r)
    /\ clock' = clock + 1
    /\ snapshot' = [snapshot EXCEPT ![r].status = "PUBLISHED",
                                    ![r].published = TRUE,
                                    ![r].at = clock + 1]
    /\ status' = [status EXCEPT ![r] = IF @ = "ABSENT" THEN @ ELSE "PUBLISHED"]
    /\ UNCHANGED date
=============================================================================
