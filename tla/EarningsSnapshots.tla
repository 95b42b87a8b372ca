--------------------------- MODULE EarningsSnapshots ---------------------------
(***************************************************************************)
(* The external bridge's own snapshots of earnings forecasts for one index *)
(* (earnings_snapshot in SQLite), and the requests that save today's       *)
(* forecasts and compare the snapshot usable at their cutoff with one a    *)
(* window earlier.  Each read and write is a transaction of its own.       *)
(*                                                                         *)
(* A forecast value is represented by the time it was collected at.        *)
(***************************************************************************)
EXTENDS Integers, FiniteSets, FiniteSetsExt

CONSTANTS
    Requests,       \* requests to the bridge that may be in progress together
    Stocks,         \* constituents of the index
    DayLength,      \* ticks of a day
    WindowDays,     \* window_days
    MaxClock,       \* bound on the clock
    MaxSaves,       \* bound on requests
    NoValue         \* no row

ASSUME SnapshotAssumption ==
    /\ DayLength \in Nat \ {0} /\ WindowDays \in Nat \ {0}
    /\ MaxClock \in Nat /\ MaxSaves \in Nat /\ NoValue \notin Nat

VARIABLES
    clock,          \* the bridge's clock
    snapshot,       \* per day and stock, when its row was collected
    fetch,          \* per request, where it is and what it has read
    saves,          \* requests so far (bound)
    recollected,    \* days whose snapshot was saved more than once
    backdated       \* days whose snapshot was saved on a later day

snapshotVars == <<clock, snapshot, fetch, saves, recollected, backdated>>

Times == 0..MaxClock
Day(time) == time \div DayLength
Days == 0..Day(MaxClock)
NoFetch == [step |-> "idle"]

SnapshotsInit ==
    /\ clock = 0
    /\ snapshot = [d \in Days |-> [s \in Stocks |-> NoValue]]
    /\ fetch = [r \in Requests |-> NoFetch]
    /\ saves = 0
    /\ recollected = {}
    /\ backdated = {}

Collected(d) == {snapshot[d][s] : s \in Stocks} \ {NoValue}

PassHour ==
    /\ clock < MaxClock
    /\ clock' = clock + 1
    /\ UNCHANGED <<snapshot, fetch, saves, recollected, backdated>>

-------------------------------------------------------------------------------
(* EarningsRevisionAdapter.fetch *)

\* save_earnings_snapshot: the forecasts collected now are saved under the day the
\* request ends at (its cutoff's), over the rows there, stock by stock.
SaveSnapshot(r, asOf, found) ==
    LET day == Day(asOf) IN
    /\ fetch[r] = NoFetch
    /\ saves < MaxSaves
    /\ saves' = saves + 1
    /\ snapshot' = [snapshot EXCEPT ![day] =
           [s \in Stocks |-> IF s \in found THEN clock ELSE @[s]]]
    /\ recollected' = IF Collected(day) = {} THEN recollected ELSE recollected \cup {day}
    /\ backdated' = IF day = Day(clock) THEN backdated ELSE backdated \cup {day}
    /\ fetch' = [fetch EXCEPT ![r] = [step |-> "saved", asOf |-> asOf]]
    /\ UNCHANGED clock

\* Mutant of CollectedBy: rows count whenever they were collected.
CollectedAnytime(d, cutoff) == Collected(d)

\* collected_at <= cutoff, of the rows of a day.
CollectedBy(d, cutoff) == {c \in Collected(d) : c <= cutoff}

\* load_latest_earnings_snapshot: the day of the last rows collected by the cutoff;
\* without any, the indicator is unavailable (warming).
FindLatest(r) ==
    LET asOf == fetch[r].asOf
        days == {d \in Days : CollectedBy(d, asOf) # {}}
    IN
    /\ fetch[r].step = "saved"
    /\ \/ /\ days = {}
          /\ fetch' = [fetch EXCEPT ![r] = NoFetch]
       \/ \E d \in days :
             /\ \A e \in days : Max(CollectedBy(e, asOf)) <= Max(CollectedBy(d, asOf))
             /\ fetch' = [fetch EXCEPT ![r] =
                    [step |-> "found", asOf |-> asOf, day |-> d,
                     release |-> Max(CollectedBy(d, asOf))]]
    /\ UNCHANGED <<clock, snapshot, saves, recollected, backdated>>

\* ... then all the rows of that day.
LoadLatest(r) ==
    /\ fetch[r].step = "found"
    /\ fetch' = [fetch EXCEPT ![r] =
           [step |-> "loaded", asOf |-> @.asOf, day |-> @.day, release |-> @.release,
            values |-> snapshot[@.day]]]
    /\ UNCHANGED <<clock, snapshot, saves, recollected, backdated>>

\* load_earnings_snapshot: the last day that is a window or more before; the two
\* are compared where both have a stock, if that is enough of the index.
LoadPrior(r) ==
    LET x == fetch[r]
        days == {d \in Days : d <= x.day - WindowDays /\ Collected(d) # {}}
        both(d) == {s \in Stocks : x.values[s] # NoValue /\ snapshot[d][s] # NoValue}
    IN
    /\ x.step = "loaded"
    /\ fetch' = [fetch EXCEPT ![r] =
           IF days = {} THEN NoFetch
           ELSE IF 2 * Cardinality(both(Max(days))) < Cardinality(Stocks) THEN NoFetch
           ELSE [step |-> "served", asOf |-> x.asOf, day |-> x.day, release |-> x.release,
                 values |-> x.values, prior |-> Max(days), old |-> snapshot[Max(days)],
                 common |-> both(Max(days))]]
    /\ UNCHANGED <<clock, snapshot, saves, recollected, backdated>>

EndFetch(r) ==
    /\ fetch[r].step = "served"
    /\ fetch' = [fetch EXCEPT ![r] = NoFetch]
    /\ UNCHANGED <<clock, snapshot, saves, recollected, backdated>>

SnapshotsNext ==
    \/ PassHour
    \/ \E r \in Requests :
          \/ \E asOf \in 0..clock, found \in SUBSET Stocks \ {{}} : SaveSnapshot(r, asOf, found)
          \/ FindLatest(r)
          \/ LoadLatest(r)
          \/ LoadPrior(r)
          \/ EndFetch(r)

SnapshotsSpec == SnapshotsInit /\ [][SnapshotsNext]_snapshotVars

-------------------------------------------------------------------------------
(* Properties *)

SnapshotsTypeOK ==
    /\ clock \in Times
    /\ snapshot \in [Days -> [Stocks -> Times \cup {NoValue}]]
    /\ \A r \in Requests : fetch[r].step \in {"idle", "saved", "found", "loaded", "served"}
    /\ recollected \subseteq Days /\ backdated \subseteq Days

\* A revision breadth rests on nothing that was collected after the cutoff it is
\* served for, neither on its later nor on its earlier side, and on two different
\* days; excepted are a snapshot that was saved again for its day, and an earlier
\* one saved by a request for a past day, which the stored rows do not tell apart.
EarningsPointInTime ==
    \A r \in Requests : fetch[r].step = "served" =>
        LET x == fetch[r] IN
        /\ x.release <= x.asOf /\ x.prior < x.day
        /\ x.day \notin recollected => \A s \in x.common : x.values[s] <= x.asOf
        /\ x.prior \notin backdated => \A s \in x.common : x.old[s] <= x.asOf
================================================================================
