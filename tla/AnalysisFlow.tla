------------------------------ MODULE AnalysisFlow ------------------------------
(*****************************************************************************)
(* The Prefect flow of a raw-indicator run (workflows/prefect/analysis_flow).  *)
(* The flow submits one task per required indicator and one for the news,      *)
(* waits for the indicator tasks, and then lets the factor calculation overlap *)
(* with the event intelligence of the news clusters before it resolves,        *)
(* scores, explains and hands everything to run_analysis.  Tasks run in a pool *)
(* of Workers threads, each at its own pace.  The configuration every task     *)
(* reads is the one its context froze: RuntimeConfig models that.              *)
(*****************************************************************************)
EXTENDS Naturals, FiniteSets

CONSTANTS
  NumIndicators,  \* the required indicator keys are 1 .. NumIndicators
  MaxClusters,    \* bound: the news is grouped in at most this many clusters
  Workers,        \* ThreadPoolTaskRunner(max_workers)
  CalcRetries     \* retries of calculate_factor_inputs_task

ASSUME FlowAssumption ==
  /\ NumIndicators \in Nat \ {0} /\ MaxClusters \in Nat /\ Workers \in Nat \ {0}
  /\ CalcRetries \in Nat

Keys == 1 .. NumIndicators
Collect(k) == <<"collect", k>>
EventTask(n) == <<"event", n>>
Once(name) == <<name, 0>>
SingleTasks == {"news", "calculate", "cluster", "deduplicate", "resolve", "score", "explain"}
Tasks == {Collect(k) : k \in Keys} \cup {EventTask(n) : n \in 1 .. MaxClusters}
         \cup {Once(name) : name \in SingleTasks}

TaskStates == {"none", "queued", "running", "done", "failed"}
NewsStatuses == {"VALID", "PARTIAL", "UNAVAILABLE"}
\* What the flow waits for.
FlowSteps == {"start", "indicators", "news", "cluster", "events", "deduplicate",
              "inputs", "resolve", "score", "explain", "prepared", "ended", "raised"}

VARIABLES
  flow,          \* the line the flow function stands at
  task,          \* the state of every task run
  tries,         \* failed attempts of calculate_factor_inputs_task
  stored,        \* the keys whose observation of this run is in the store
  inputs,        \* the keys whose observation of this run the factor inputs saw
  news,          \* news_payload.status, "none" before the task ends
  clusters,      \* the number of clusters, once clustered
  succeeded,     \* the clusters whose event graph gave its events
  merged,        \* event_payload: the clusters it holds events of, and complete
  prepared       \* what run_analysis is called with, or its initial value

flowVars == <<flow, task, tries, stored, inputs, news, clusters,
              succeeded, merged, prepared>>

NoPrepared == [available |-> FALSE, events |-> {}, warned |-> {}, given |-> FALSE]

FlowTypeOK ==
  /\ flow \in FlowSteps /\ task \in [Tasks -> TaskStates] /\ tries \in 0 .. CalcRetries
  /\ stored \subseteq Keys /\ inputs \subseteq Keys
  /\ news \in NewsStatuses \cup {"none"}
  /\ clusters \in 0 .. MaxClusters /\ succeeded \subseteq 1 .. MaxClusters
  /\ merged \in [events : SUBSET (1 .. MaxClusters), complete : BOOLEAN,
                 warned : SUBSET (1 .. MaxClusters)]
  /\ prepared \in [available : BOOLEAN, events : SUBSET (1 .. MaxClusters),
                   warned : SUBSET (1 .. MaxClusters), given : BOOLEAN]

FlowInit ==
  /\ flow = "start" /\ task = [t \in Tasks |-> "none"] /\ tries = 0
  /\ stored = {} /\ inputs = {} /\ news = "none" /\ clusters = 0 /\ succeeded = {}
  /\ merged = [events |-> {}, complete |-> TRUE, warned |-> {}]
  /\ prepared = NoPrepared

-----------------------------------------------------------------------------
(* The task runner (Prefect).                                                *)

Running == {t \in Tasks : task[t] = "running"}
Ended(t) == task[t] \in {"done", "failed"}
Submitted(ts) == [t \in Tasks |-> IF t \in ts THEN "queued" ELSE task[t]]

\* A worker thread takes a queued task.
TaskStarts(t) ==
  /\ task[t] = "queued" /\ Cardinality(Running) < Workers
  /\ task' = [task EXCEPT ![t] = "running"]
  /\ UNCHANGED <<flow, tries, stored, inputs, news, clusters, succeeded,
                 merged, prepared>>

Finishes(t, outcome) == task[t] = "running" /\ task' = [task EXCEPT ![t] = outcome]

\* _collect_one_indicator: fetched and saved; an unavailable indicator is an answer too,
\* only an error outside the collection service fails the task.
CollectEnds(k) ==
  /\ \/ Finishes(Collect(k), "done") /\ stored' \in {stored, stored \cup {k}}
     \/ Finishes(Collect(k), "failed") /\ UNCHANGED stored
  /\ UNCHANGED <<flow, tries, inputs, news, clusters, succeeded,
                 merged, prepared>>

\* _collect_news.
NewsEnds ==
  /\ \/ Finishes(Once("news"), "done") /\ news' \in NewsStatuses
     \/ Finishes(Once("news"), "failed") /\ UNCHANGED news
  /\ UNCHANGED <<flow, tries, stored, inputs, clusters, succeeded,
                 merged, prepared>>

\* _calculate_inputs_from_store reads every history; the task is tried again after a failure.
CalculateEnds ==
  /\ \/ Finishes(Once("calculate"), "done") /\ inputs' = stored /\ UNCHANGED tries
     \/ /\ tries < CalcRetries /\ Finishes(Once("calculate"), "queued") /\ tries' = tries + 1
        /\ UNCHANGED inputs
     \/ /\ tries = CalcRetries /\ Finishes(Once("calculate"), "failed")
        /\ UNCHANGED <<inputs, tries>>
  /\ UNCHANGED <<flow, stored, news, clusters, succeeded, merged, prepared>>

\* _cluster_news: no document, no cluster; without a usable source there are none.
ClusterEnds ==
  /\ \/ /\ Finishes(Once("cluster"), "done")
        /\ clusters' \in IF news = "UNAVAILABLE" THEN {0} ELSE 0 .. MaxClusters
     \/ Finishes(Once("cluster"), "failed") /\ UNCHANGED clusters
  /\ UNCHANGED <<flow, tries, stored, inputs, news, succeeded, merged,
                 prepared>>

\* _process_event_cluster turns every exception of the graph into success = False; the task
\* itself fails only where the payload or the runner does.
EventEnds(n) ==
  /\ \/ Finishes(EventTask(n), "done") /\ succeeded' \in {succeeded, succeeded \cup {n}}
     \/ Finishes(EventTask(n), "failed") /\ UNCHANGED succeeded
  /\ UNCHANGED <<flow, tries, stored, inputs, news, clusters, merged,
                 prepared>>

\* Mutant of Merge: a failed cluster is dropped as if it held no event.
MergeSilently(all, good) == [events |-> good, complete |-> TRUE, warned |-> all \ good]

\* _merge_event_results: the events of the clusters that succeeded; a cluster that did not
\* leaves the event signals incomplete and adds its warning.
Merge(all, good) == [events |-> good, complete |-> good = all, warned |-> all \ good]

DeduplicateEnds ==
  /\ \/ Finishes(Once("deduplicate"), "done") /\ merged' = Merge(1 .. clusters, succeeded)
     \/ Finishes(Once("deduplicate"), "failed") /\ UNCHANGED merged
  /\ UNCHANGED <<flow, tries, stored, inputs, news, clusters, succeeded,
                 prepared>>

\* _resolve_factor_payload, _score_payload, _explain_payload.
StageEnds(name) ==
  /\ name \in {"resolve", "score", "explain"}
  /\ \E outcome \in {"done", "failed"} : Finishes(Once(name), outcome)
  /\ UNCHANGED <<flow, tries, stored, inputs, news, clusters, succeeded,
                 merged, prepared>>

TaskEnds ==
  \/ \E k \in Keys : CollectEnds(k)
  \/ NewsEnds \/ CalculateEnds \/ ClusterEnds \/ DeduplicateEnds
  \/ \E n \in 1 .. MaxClusters : EventEnds(n)
  \/ \E name \in SingleTasks : StageEnds(name)

-----------------------------------------------------------------------------
(* The flow function.                                                        *)

\* The flow goes to a line and submits tasks there.
Goes(step, ts) == flow' = step /\ task' = Submitted(ts)

\* future.result() raises what the task raised: the flow fails and no run is recorded.
Awaits(t, step, ts) ==
  /\ Ended(t)
  /\ IF task[t] = "done" THEN Goes(step, ts) ELSE Goes("raised", {})
  /\ UNCHANGED <<tries, stored, inputs, news, clusters, succeeded,
                 merged, prepared>>

\* _request, _guard and _event_context, then the submission of the collection.
FlowStarts ==
  /\ flow = "start"
  /\ Goes("indicators", {Collect(k) : k \in Keys} \cup {Once("news")})
  /\ UNCHANGED <<tries, stored, inputs, news, clusters, succeeded, merged, prepared>>

\* Mutant of IndicatorsEnded: the flow does not wait.
NoWait == TRUE

\* wait(indicator_futures) does not raise what a task raised.
IndicatorsEnded == \A k \in Keys : Ended(Collect(k))

FlowWaited ==
  /\ flow = "indicators" /\ IndicatorsEnded
  /\ Goes("news", {Once("calculate")})
  /\ UNCHANGED <<tries, stored, inputs, news, clusters, succeeded,
                 merged, prepared>>

FlowHasNews == flow = "news" /\ Awaits(Once("news"), "cluster", {Once("cluster")})
FlowHasClusters ==
  flow = "cluster" /\ Awaits(Once("cluster"), "events", {EventTask(n) : n \in 1 .. clusters})

\* [future.result() for future in event_futures], then the deduplication.
FlowHasEvents ==
  /\ flow = "events" /\ \A n \in 1 .. clusters : Ended(EventTask(n))
  /\ IF \A n \in 1 .. clusters : task[EventTask(n)] = "done"
       THEN Goes("deduplicate", {Once("deduplicate")}) ELSE Goes("raised", {})
  /\ UNCHANGED <<tries, stored, inputs, news, clusters, succeeded,
                 merged, prepared>>

FlowHasMerged == flow = "deduplicate" /\ Awaits(Once("deduplicate"), "inputs", {})
FlowHasInputs == flow = "inputs" /\ Awaits(Once("calculate"), "resolve", {Once("resolve")})
FlowHasStates == flow = "resolve" /\ Awaits(Once("resolve"), "score", {Once("score")})
FlowHasScores == flow = "score" /\ Awaits(Once("score"), "explain", {Once("explain")})
FlowHasExplanations == flow = "explain" /\ Awaits(Once("explain"), "prepared", {})

\* event_source_available_override of _run_prepared (and of _resolve_factor_payload).
EventSourceAvailable == news \in {"VALID", "PARTIAL"} /\ merged.complete

\* prepared_analysis_task calls run_analysis with all of it (AnalysisRun models the call);
\* whatever run_analysis raises is the flow's failure.
FlowHandsOver ==
  /\ flow = "prepared"
  /\ prepared' = [available |-> EventSourceAvailable, events |-> merged.events,
                  warned |-> merged.warned, given |-> TRUE]
  /\ flow' \in {"ended", "raised"}
  /\ UNCHANGED <<task, tries, stored, inputs, news, clusters, succeeded,
                 merged>>

FlowMoves ==
  \/ FlowStarts \/ FlowWaited \/ FlowHasNews \/ FlowHasClusters \/ FlowHasEvents
  \/ FlowHasMerged \/ FlowHasInputs \/ FlowHasStates \/ FlowHasScores \/ FlowHasExplanations
  \/ FlowHandsOver

FlowNext == FlowMoves \/ TaskEnds \/ (\E t \in Tasks : TaskStarts(t))

\* The flow function and the worker threads run on, and a task ends, one way or another.
FlowFairness ==
  /\ WF_flowVars(FlowMoves) /\ WF_flowVars(\E t \in Tasks : TaskStarts(t))
  /\ WF_flowVars(TaskEnds)

FlowSpec == FlowInit /\ [][FlowNext]_flowVars /\ FlowFairness

-----------------------------------------------------------------------------
\* Whatever the collections of this run put in the store is what its factor inputs are
\* calculated from: the calculation, though it overlaps with the news and can be tried
\* again, never runs beside a collection of its own run (analysis_flow.py:416).
InputsSeeCollections == Ended(Once("calculate")) => inputs = IF task[Once("calculate")] = "done"
                                                              THEN stored ELSE {}

\* A run is told that its event source was available only when the news were and every
\* cluster gave its events, and each cluster that did not is in the run's warnings: a
\* missing cluster must not read as a quiet day (analysis_flow.py:181-201, 222-225).
SilenceIsExplained ==
  prepared.given =>
    /\ prepared.available =>
         news \in {"VALID", "PARTIAL"} /\ prepared.events = 1 .. clusters
    /\ prepared.events \cup prepared.warned = 1 .. clusters

\* What run_analysis is called with is whole in both respects.
PreparedIsWhole == InputsSeeCollections /\ SilenceIsExplained
=============================================================================
