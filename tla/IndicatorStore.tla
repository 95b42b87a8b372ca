----------------------------- MODULE IndicatorStore -----------------------------
(***************************************************************************)
(* Point-in-time storage of one indicator (market.indicator_observations)  *)
(* and the collectors that fill it: analysis runs, in parallel threads and *)
(* processes, and pushes by an external collector.  A row is one vintage:  *)
(* the value of an observation date as released at a time.  A read as of   *)
(* a time sees of every date the vintage released last by then.            *)
(*                                                                         *)
(* A value stands for value, definition version and status together; the   *)
(* indicator has one source.                                               *)
(***************************************************************************)
EXTENDS Integers, FiniteSets

CONSTANTS
    ObsDates,       \* observation dates, a set of numbers
    ObsValues,      \* what may be observed
    Collectors,     \* the collections that may be in progress together
    SourceKinds,    \* subset of {"live", "dated", "external"}
    HistoryLimit,   \* limit of get_indicator_history, in dates
    MaxTime,        \* bound on the clock
    MaxCollections, \* bound on collections
    MaxPushes,      \* bound on collections and pushes together
    MaxRevisions,   \* bound on what the source publishes
    NoObs           \* no observation

ASSUME StoreAssumption ==
    /\ ObsDates \subseteq Nat /\ IsFiniteSet(ObsDates)
    /\ SourceKinds \subseteq {"live", "dated", "external"}
    /\ HistoryLimit \in Nat \ {0} /\ MaxTime \in Nat /\ MaxCollections \in Nat
    /\ MaxPushes \in Nat /\ MaxRevisions \in Nat
    /\ NoObs \notin [release : 0..MaxTime, value : ObsValues]

VARIABLES
    kind,       \* how the provider dates a value (chosen once)
    now,        \* the clock
    upstream,   \* per date, what the source shows and since when
    rows,       \* the table: a set of vintages
    collector,  \* per collector, its collection in progress
    started,    \* collections and pushes so far (bound)
    revisions,  \* values published so far (bound)
    offered,    \* vintages whose save was committed, stored or found unchanged
    crossed     \* dates with a save that was overtaken or came out of order

storeVars == <<kind, now, upstream, rows, collector, started, revisions, offered, crossed>>

Vintages == [date : ObsDates, release : 0..MaxTime, value : ObsValues]
NoCollection == [step |-> "idle"]

StoreInit ==
    /\ kind \in SourceKinds
    /\ now = 0
    /\ upstream = [d \in ObsDates |-> NoObs]
    /\ rows = {}
    /\ collector = [c \in Collectors |-> NoCollection]
    /\ started = 0
    /\ revisions = 0
    /\ offered = {}
    /\ crossed = {}

-------------------------------------------------------------------------------
(* Reading *)

\* The vintages in vs that a read as of t takes: per date the one released last.
LastReleased(vs, t) ==
    {r \in vs : /\ r.release <= t
                /\ \A q \in vs : q.date = r.date /\ q.release <= t => q.release <= r.release}

\* The newest dates only, as many as the limit allows.
Newest(vs) == {r \in vs : Cardinality({q \in vs : q.date > r.date}) < HistoryLimit}

\* get_indicator_history: DISTINCT ON (observation_date), then LIMIT.
History(t) == Newest(LastReleased(rows, t))

-------------------------------------------------------------------------------
(* The source *)

Tick ==
    /\ now < MaxTime
    /\ now' = now + 1
    /\ UNCHANGED <<kind, upstream, rows, collector, started, revisions, offered, crossed>>

\* A value is published or revised, more than once at a time if need be.
Revise(d, v) ==
    /\ kind # "external"
    /\ upstream[d] # NoObs => upstream[d].value # v
    /\ upstream' = [upstream EXCEPT ![d] = [release |-> now, value |-> v]]
    /\ revisions < MaxRevisions
    /\ revisions' = revisions + 1
    /\ UNCHANGED <<kind, now, rows, collector, started, offered, crossed>>

-------------------------------------------------------------------------------
(* _collect_one *)

\* What is stored is read first, as of the run's cutoff, which lies behind where
\* the run was queued or is retried.
BeginCollection(c, asOf) ==
    /\ collector[c] = NoCollection
    /\ started < MaxCollections
    /\ started' = started + 1
    /\ collector' = [collector EXCEPT ![c] =
           [step |-> "fetch", asOf |-> asOf, existing |-> History(asOf)]]
    /\ UNCHANGED <<kind, now, upstream, rows, revisions, offered, crossed>>

\* An external indicator without a bridge: the stored history is the answer.
UseStored(c) ==
    /\ collector[c].step = "fetch"
    /\ kind = "external"
    /\ collector' = [collector EXCEPT ![c] =
           [step |-> "done", asOf |-> @.asOf, existing |-> @.existing,
            history |-> @.existing, conflict |-> FALSE]]
    /\ UNCHANGED <<kind, now, upstream, rows, started, revisions, offered, crossed>>

\* fetch: a live source (FRED, AKShare and what is derived from it) stamps what
\* it shows with the run's cutoff; a dated one (NBS, the bridge) gives its own
\* release times and leaves out what was released after the cutoff.
Fetched(asOf) ==
    LET shown == {d \in ObsDates : upstream[d] # NoObs}
    IN  IF kind = "live"
        THEN {[date |-> d, release |-> asOf, value |-> upstream[d].value] : d \in shown}
        ELSE {[date |-> d, release |-> upstream[d].release, value |-> upstream[d].value] :
                  d \in {e \in shown : upstream[e].release <= asOf}}

FetchSeries(c) ==
    /\ collector[c].step = "fetch"
    /\ kind # "external"
    /\ collector' = [collector EXCEPT ![c] =
           [step |-> IF Fetched(@.asOf) = {} THEN "reread" ELSE "compare",
            asOf |-> @.asOf, existing |-> @.existing, batch |-> Fetched(@.asOf)]]
    /\ UNCHANGED <<kind, now, upstream, rows, started, revisions, offered, crossed>>

\* The provider failed, or its rows broke the data contract: nothing is saved.
FetchRejected(c) ==
    /\ collector[c].step = "fetch"
    /\ kind # "external"
    /\ collector' = [collector EXCEPT ![c] =
           [step |-> "reread", asOf |-> @.asOf, existing |-> @.existing, batch |-> {}]]
    /\ UNCHANGED <<kind, now, upstream, rows, started, revisions, offered, crossed>>

\* ingest_indicator_observations: an external collector pushes a vintage of its own.
Push(c, v) ==
    /\ collector[c] = NoCollection
    /\ started < MaxPushes
    /\ kind = "external"
    /\ v.release <= now
    /\ started' = started + 1
    /\ collector' = [collector EXCEPT ![c] =
           [step |-> "compare", asOf |-> v.release, existing |-> {}, batch |-> {v}]]
    /\ UNCHANGED <<kind, now, upstream, rows, revisions, offered, crossed>>

-------------------------------------------------------------------------------
(* save_indicator_observations: one transaction *)

Latest(d) == {r \in rows : r.date = d /\ \A q \in rows : q.date = d => q.release <= r.release}

\* Mutant of Unchanged: a value is known if any vintage of the date has it.
KnownEver(v) == \E r \in rows : r.date = v.date /\ r.value = v.value

\* Only a value that differs from the latest vintage's becomes a vintage.
Unchanged(v) == \E r \in Latest(v.date) : r.value = v.value

CompareBatch(c) ==
    LET x == collector[c] IN
    /\ x.step = "compare"
    /\ collector' = [collector EXCEPT ![c] =
           [step |-> "commit", asOf |-> x.asOf, existing |-> x.existing, batch |-> x.batch,
            inserts |-> {v \in x.batch : ~Unchanged(v)},
            latest |-> [d \in ObsDates |-> Latest(d)]]]
    /\ UNCHANGED <<kind, now, upstream, rows, started, revisions, offered, crossed>>

\* uq_indicator_vintage: there is one row per date and release.
Conflict(vs) == \E v \in vs, r \in rows : v.date = r.date /\ v.release = r.release

\* The commit. A vintage crossed another if something was saved of its date since
\* the comparison, or if one that was released later, or at the same time with
\* another value, was offered before.
CommitBatch(c) ==
    LET x == collector[c]
        InOrder(v) == /\ Latest(v.date) = x.latest[v.date]
                      /\ \A w \in offered : w.date = v.date => w.release < v.release \/ w = v
    IN
    /\ x.step = "commit"
    /\ ~Conflict(x.inserts)
    /\ rows' = rows \cup x.inserts
    /\ offered' = offered \cup x.batch
    /\ crossed' = crossed \cup {v.date : v \in {w \in x.batch : ~InOrder(w)}}
    /\ collector' = [collector EXCEPT ![c] =
           [step |-> "reread", asOf |-> x.asOf, existing |-> x.existing, batch |-> x.batch]]
    /\ UNCHANGED <<kind, now, upstream, started, revisions>>

\* A duplicate rolls the whole batch back, and the exception makes the indicator
\* unavailable to this run, whatever is stored of it (collect).
CommitConflict(c) ==
    LET x == collector[c] IN
    /\ x.step = "commit"
    /\ Conflict(x.inserts)
    /\ collector' = [collector EXCEPT ![c] =
           [step |-> "done", asOf |-> x.asOf, existing |-> x.existing,
            history |-> {}, conflict |-> TRUE]]
    /\ UNCHANGED <<kind, now, upstream, rows, started, revisions, offered, crossed>>

-------------------------------------------------------------------------------

\* Mutant of Answer: a run gets what it has fetched itself.
OnlyFetched(x) == x.batch

\* history = self._read_history(key, as_of) or existing
Answer(x) == IF History(x.asOf) # {} THEN History(x.asOf) ELSE x.existing

Reread(c) ==
    LET x == collector[c] IN
    /\ x.step = "reread"
    /\ collector' = [collector EXCEPT ![c] =
           [step |-> "done", asOf |-> x.asOf, existing |-> x.existing,
            history |-> Answer(x), conflict |-> FALSE]]
    /\ UNCHANGED <<kind, now, upstream, rows, started, revisions, offered, crossed>>

EndCollection(c) ==
    /\ collector[c].step = "done"
    /\ collector' = [collector EXCEPT ![c] = NoCollection]
    /\ UNCHANGED <<kind, now, upstream, rows, started, revisions, offered, crossed>>

CollectorStep(c) ==
    \/ \E asOf \in 0..now : BeginCollection(c, asOf)
    \/ UseStored(c)
    \/ FetchSeries(c)
    \/ FetchRejected(c)
    \/ \E v \in Vintages : Push(c, v)
    \/ CompareBatch(c)
    \/ CommitBatch(c)
    \/ CommitConflict(c)
    \/ Reread(c)
    \/ EndCollection(c)

StoreNext ==
    \/ Tick
    \/ \E d \in ObsDates, v \in ObsValues : Revise(d, v)
    \/ \E c \in Collectors : CollectorStep(c)

StoreSpec == StoreInit /\ [][StoreNext]_storeVars

-------------------------------------------------------------------------------
(* Properties *)

StoreTypeOK ==
    /\ kind \in SourceKinds
    /\ now \in 0..MaxTime
    /\ upstream \in [ObsDates -> [release : 0..MaxTime, value : ObsValues] \cup {NoObs}]
    /\ rows \subseteq Vintages
    /\ offered \subseteq Vintages
    /\ crossed \subseteq ObsDates
    /\ started \in Nat /\ revisions \in 0..MaxRevisions

Known(vs) == {[date |-> r.date, value |-> r.value] : r \in vs}

\* Storing changes only loses no vintage: a read as of any time finds the value
\* that was the newest offered by then, also after a value went back to an earlier
\* one (save_indicator_observations and get_indicator_history together). Saves of
\* one date that overtake each other, or come out of order, are not covered.
VintageExact ==
    \A t \in 0..MaxTime :
        {k \in Known(LastReleased(rows, t)) : k.date \notin crossed}
            = {k \in Known(LastReleased(offered, t)) : k.date \notin crossed}

\* A failed, rejected or partial fetch never costs a run the stored history that
\* it found at its start, whatever others save meanwhile; a save conflict does.
StoredHistoryKept ==
    \A c \in Collectors :
        collector[c].step = "done" /\ ~collector[c].conflict =>
            \A e \in collector[c].existing :
                \/ \E h \in collector[c].history : h.date = e.date
                \/ Cardinality(collector[c].history) = HistoryLimit
================================================================================
