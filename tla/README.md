# WideGold: specifications, model checking and proofs

WideGold computes, once per trading day, a score for each of seven assets out of 27 factors, and
publishes the result on a dashboard. A FastAPI process takes requests, a Prefect worker carries
analysis runs out, PostgreSQL is the system of record, and Redis holds a run lock, the dashboard's
cache and a configuration generation counter. This directory specifies the part of it where
ordering, failure and concurrency decide whether the result is right.

## 1. Inventory

| Component | State | Operations | Talks to | What is hard | What makes it correct |
|---|---|---|---|---|---|
| Dispatch and run lifecycle (`services/dispatcher.py`, `workflows/prefect/analysis_flow.py`, `services/analysis.py`) | the run's row, the worker's position and local results | reserve, deploy, prepare, create, lock, analyse, save, update, fail, retry | every store | two transactions for one result; Prefect retries; failure before, inside and after the guarded section; crashes | nothing published without its gate and its approval; every started run settles; one attempt per key |
| Run lock (`runtime/locks.py`) | Redis key and token, `DistributedLock` object | acquire, release | lifecycle | TTL, outage on either side of the SET, late release | exclusion of live leases; release only of one's own |
| Run and snapshot tables (`repositories/postgres.py`) | `analysis_runs`, `analysis_snapshots` | reserve/create/update_run, save_snapshot, publish, latest_published | lifecycle, admin, dashboard | the row and the snapshot diverge; last writer wins | the board shows the published analysis of the latest day |
| Dashboard cache (`runtime/cache.py`, `routers/dashboard.py`) | one key with a TTL | get, set, invalidate | tables | read-then-set races an invalidation; lost invalidation | only published analyses served; staleness ends |
| Administrator's publication (`routers/admin.py`) | the request's local snapshot and checks | publish_run, triggers | tables, cache, audit | check and act in separate transactions | gate, approval, backdating |
| Trace stream (`services/trace.py`, `routers/admin.py`) | event sequence, SSE cursor | emit, stream | tables | status and events are read apart, and the run may be retried between; pages in arrears | every event once and in order; done only after what was there |
| Runtime configuration (`settings/runtime_config.py`, `services/runtime_config_admin.py`, `repositories/postgres.py`) | versions in PostgreSQL, local cache, generation in Redis, frozen versions of a run | stage, activate, read, poll, freeze | all | two activations at once; a fill after a clear; a lost bump | one validated ACTIVE bundle; a run's stages share a bundle; caches converge |
| Analysis flow (`workflows/prefect/analysis_flow.py`) | task runs and their results | submit, wait, retry, hand over | executor, tables | collections, clusters and calculation overlap on six workers | nothing collected or interpreted is lost; a failed scan is not a quiet day |
| Event intelligence and LLM service (`graphs/event_intelligence/`, `llm/`) | the graph's state, executions of calls | extract, map, assess, validate, review, finalize; route, retry, repair | models | three nested retries; two engines for one graph | calls are bounded; a contested event is reviewed |
| Research (`services/research.py`, `research_flow.py`, `routers/research.py`) | request, evidence, candidates, reviews | submit, search, synthesise, save, review | models, tables | a retry after half an attempt; reviews between attempts | a candidate has its evidence; a status has its review |
| Factor resolution (`engine/factor_resolution.py`) | factor states of earlier runs | resolve | tables | last-known-good chained over runs | stale data does not outlive its limit; missing is not neutral |
| Quality gate (`engine/quality.py`) | none | decide | factor states | coverage of carried data counts towards the thresholds | no publication rests on carried data |
| Resilient executor (`resilience/executor.py`) | breaker per provider | call | providers, models | concurrent calls, time-outs, half-open | a failing provider is left alone for its cool-down |
| Indicator store and collection (`repositories/postgres.py`, `data/`) | observation vintages | collect, push, save, history | providers | revisions; collectors that overtake each other; duplicates | a read as of a time sees what was known then |
| Factor calculators and features (`engine/factor_calculators.py`, `engine/indicator_features.py`) | none | compute | indicator store | partial, stale and expired inputs | a gap does not read as a signal; age never earns trust |
| Scoring, confidence, rules (`engine/`) | none | compute | factor states | conflict rules, group caps and penalties interact | symmetric, monotone, per asset, capped |
| News, clusters, merge of events (`services/news_clustering.py`, `services/event_dedup.py`) | none | fetch, cluster, merge | news source, event graph | similarity is not transitive; budgets | a headline counts once; evidence is kept |
| External bridge (`external_bridge/`) | response cache, back-off, forecast frame, earnings snapshots in SQLite | get, assemble, save, load | public sources | two caches on top of each other; failures remembered; requests about the past | bounded staleness, recovery, point-in-time comparisons |
| Explanation and scenario graphs, in-memory repository, auth, health, frontend, scripts, migrations | - | - | - | - | - |

`PROJECT.json` lists every component with its status, and the hazards at their lines.

## 2. Modules

    RunLock ----------\
    SnapshotStore --- SnapshotCache --- AnalysisRun ---\
                               \------- Dashboard ------ AnalysisSystem --- MCAnalysisSystem
                                        PublicationLog --/  (refinement)

    FactorResolution --- QualityGate --- MCFactorResolution
    ResilientExecutor --- MCResilientExecutor

    RuntimeConfig, TraceStream, Research, AnalysisFlow, EventIntelligence, RunLock --- Coordination --- MCCoordination

    FactorCalculators, IndicatorFeatures, Scoring, NewsEvents --- Computations ---\
    BridgeClient, EarningsSnapshots, IndicatorStore --------------------------- DataPath --- MCDataPath

* `RunLock` - `runtime/locks.py`. `owner` is what Redis stores, `lease` a worker's lock object. A
  worker has one acquisition at a time and a token is unique to an acquisition, so the worker
  stands for its token. A degraded acquisition may leave its own token behind, because the SET may
  have been carried out before the connection failed.
* `SnapshotStore` - the transactions of `repositories/postgres.py` on runs and snapshots, as
  operators over the next state. `db_session()` is one transaction and hence one step.
  `published_at` is a sequence number: two publications never tie.
* `SnapshotCache` - `runtime/cache.py`. Every Redis call may fail, which the code answers by doing
  nothing; time passes in ticks, `CacheTTL` of them to a TTL.
* `AnalysisRun` - one worker per run id and one action per statement that changes shared state.
  Its kinds are the ways the code triggers a run: `scheduled` (FULL_REFRESH, AUTO), `manual`,
  `reanalyze`, `data_only` (through the admin API, always PREVIEW_ONLY) and `replay`. A `manual`
  run asked for in mode REPLAY differs from `manual` in its lock key only and is not a kind of its
  own. `Analyse` stands for the whole computation, whose only result the rest of the code acts on
  is the gate's verdict; the evidence it stores (inputs, events, factor states, model runs) is
  abstracted with it, and trace events are best-effort and omitted. `StoreFault` rolls the run's next
  transaction back and raises, `Crash` kills its process.
* `Dashboard` - `publish_run` in its five steps and `current_dashboard` in its two, each step one
  transaction or Redis call.
* `AnalysisSystem` - the composition: every action of every component, framed, and the properties.
* `PublicationLog` - the abstract specification: a log of released analyses and a board. A release is taken back
  only where its analysis was started once more, and the board then falls back to what is latest without it.
* `FactorResolution` - `engine/factor_resolution.py` with the query that feeds it and the save that
  follows. The state is the list of runs in the order they stored their rows; `seen` is how many of
  them had done so when the run read the previous states, so any run may be overtaken between its
  read and its save. A row keeps its status, coverage in percent, the last-known-good mark, and
  instead of its value the time of the observation it rests on (`basis`, 0 for none). Events are a
  set of rows they move; how their impact adds up is left out.
* `QualityGate` - `engine/quality.py` over the rows of one run, with the thresholds of
  `configs/resilience.yaml` as constants. `AnalysisRun` takes the gate's verdict as an input; this
  module says what the verdict means for the data behind it.
* `ResilientExecutor` - `resilience/executor.py`. Each method of the registry is one step, as it runs
  under the registry's lock; an attempt is handed to the pool, waits in its queue, runs, and ends by
  an answer, an exception or the time-out, which leaves a blocking function on its thread (`hung`).
  Time is a tick counter per open breaker. A time-out while queued needs a pool without a free thread.

* `RuntimeConfig` - the versions of every configuration type, staging and activation, the readers'
  caches, and the versions a run froze. An activation is one transaction; it is three steps here,
  because what it reads between taking the advisory lock and its commit must not be overtaken. A
  content is a member of `Contents`; which contents fit together is the parameter `ValidBundles`. Time is
  the expiry of an entry, at any moment.
* `TraceStream` - the events and the status of one run through its attempts, and the SSE generator: list a
  page, send it, read the status, again.
* `Research` - one request, its flow with a retry, and its reviewers; a write is a transaction of its own, and
  the worker may raise or die between any two.
* `AnalysisFlow` - the Prefect flow of the raw-indicator mode, line by line where it waits, and its task
  runs. Tasks wait for a free worker, run beside each other, fail, or are retried as their
  decorators say. What the last task is handed is compared with what the others produced.
* `EventIntelligence` - one news cluster through either form of the graph, and the structured calls of its
  nodes: aliases without a provider are skipped, a transient failure is posted again, an answer outside the
  schema is sent back for repair, and the next alias follows. What a model says is any value its schema
  admits.
* `Coordination` - these five in one specification, and the run lock by itself as the sixth part, with workers
  that may do what a run of `AnalysisRun` does not. They have no state in common, so a behaviour
  lets one part move, any of them, while the others rest; that loses no interleaving that a property
  of one part could tell apart, and each part is explored in full.
* `BridgeClient` - `FreeSourceClient` with its durable cache and back-off, and the forecast frame that is
  assembled from several pages by whichever thread asks first. Deadlines are counted down.
* `EarningsSnapshots` - the bridge's own table of forecasts. A value is represented by the time it was
  collected at, which is what look-ahead is about.
* `IndicatorStore` - one indicator's vintages, collectors that read, fetch, compare, commit and read again in
  separate transactions, and an external collector's pushes. The source revises its values; a live source
  stamps what it shows with the cutoff of the run that asks, a dated one with its own times.
* `FactorCalculators`, `IndicatorFeatures`, `Scoring`, `NewsEvents` - the pure code, in integer units that
  each module names. Floating point is replaced by integers where rounding decides nothing: freshness multipliers
  and reliabilities are exact, and the share that a cap leaves of a group is rounded once for the group, since a
  rounding per row could turn the order of two scores, which the code's arithmetic does not. tanh is an odd,
  monotone function that saturates. The similarity of two titles is a relation between numbers that is
  symmetric and not transitive, like the code's.
* `Computations` picks one of these with an input and keeps both, so that a property can relate an answer to its
  input and to the answers for neighbouring inputs. `DataPath` composes as `Coordination` does.

A run's analysis date is fixed before its first attempt (the snapshot's date and the row's are the
same), so the provisional date that `reserve_run` writes until `create_run` is not modelled.

## 3. Runs

| Run | Checks | Bounds, and why they suffice |
|---|---|---|
| `publishing` | `TypeOK`, `PassedUnlessRedone`, `ManualNeedsApproval`, `RowFollowsSnapshot`, refinement of `PublicationLog` | two runs of any kinds, REANALYZE with its retry included, two dates (same day, older, newer), one administrator, one fault at any transaction or crash of any process, three publications; the lock is off, so any two runs overlap. One fault is what a retry after a save needs, three publications are enough for a release, its withdrawal by the retry and another release |
| `lifecycle` | `OneAttemptPerKey`, `LockFollowsRun`, `RunSettles` | two runs of one date, all kinds with retries, the lock with expiry and outages; failures of the analysis at every step, no environment fault, since with one a run may rightly not settle |
| `serving` | `ServedIsPublished`, `CacheConverges` | two scheduled runs, an administrator, one reader; TTL of two ticks, so that an entry can be refreshed while it ages |
| `resolution` | `TypeOK`, `PointInTime`, `CarriedFromEarlier`, `PublishRestsOnRecent` | three runs at any of three times, one of them within `max_stale_hours` of both others, which are too far apart: the shortest chain that outlives the limit, and every replay order; two assets of two families, a factor with one row for all assets and one with a row of an asset's own |
| `missing` | `MissingStaysMissing`, violated | the same, with new inputs or none |
| `executor` | `TypeOK`, `FailuresBounded`, `EveryCallReturns`, `NoPrimaryBanned` | two callers sharing a primary, two attempts, threshold two, cool-down of two ticks, two threads: one caller alone can fill the pool, and both can overshoot an open breaker |
| `isolation` | `HealthyNeverCounted`, violated | one caller, two attempts, two threads |
| `coordination` | `PartsTypeOK`, `ActiveBundleSound`, `StagesShareBundle`, `DoneAfterDrain`, `ReviewableIsBacked`, `PreparedIsWhole`, `CostContract`, `ContestedIsReviewed`, `EveryPartSettles`, `Exclusive`, `HeldIsStored` | two configuration types whose new contents do not fit together, two administrators, one of them with a local cache, two activations; four events in pages of two and two attempts, so that a page is in arrears when a retry begins; two research attempts and two reviews; two indicators, two clusters and two workers, fewer than the tasks; the routes of the code with all, some or one provider configured, one retry and one repair; three workers on two keys of the run lock: one that outlived its lease, its successor and a third who would profit from a wrong release |
| `data_path` | `DataTypeOK`, `VintageExact`, `StoredHistoryKept`, `EarningsPointInTime`, `StalenessBounded`, `WholeOrMuted`, `AgeingNeverHelps`, `DirectionKept`, `ScoreSound`, `EventsMergeOnce`, `BridgeRecovers` | two threads on two pages, so that one load can overtake and outlast another; two requests and two stocks over four hours of two days; two collectors on two dates at three times with a revision that goes back; every calculator over ages that are fresh, stale, staler and expired and over strong and weak scores of every sign; histories of up to four values with an outlier; two assets, ten factors in capped and free groups; feeds of up to four headlines and up to three events |
| `pending` | `NoRunHangs`, violated | one run |
| `retry` | `PublishedStays`, violated | a run, its reanalysis, one fault, one administrator |
| `ungated` | `PublishedPassedGate`, violated | the same |

`MaxFaults` bounds the environment's faults and `MaxPublications` an administrator's publications
(the clock is otherwise unbounded); the constants named Max in the other modules bound activations,
stages, events, reviews, saves and collections likewise. Deadlock is not checked where the runs are finite: all runs done
and nobody asking is the system at rest. Symmetry over runs is used in the runs that check safety
only.

**What the passing runs show.** The approval holds over every interleaving of `publish_run` with other
publications and with runs. The gate does with one exception: `publish_run` reads it in one transaction and
publishes in another, and a retried task may save a failed gate in between (`PassedUnlessRedone`; the run
`ungated` shows the exception). The date check of `publish_run` may be stale when it publishes, and still no
publication takes the board back to an older day, because `latest_published` orders by date and not by time;
the board falls back only where a retry saves over what it shows - the refinement. The lock's key is released on every way out, the refused run's way
included, which must not release. A run that was created settles through refusal and retry. A slow
reader and a lost invalidation delay the dashboard by at most a TTL each time, because a hit does
not renew the entry. A replay or reanalysis never leaks an observation into the past, however its
rows are carried on. A link of a last-known-good chain is never longer than `max_stale_hours`, but
a chain is, since each carried row is stored with a new time; what keeps such data from being
published is the gate's fresh share alone. An open breaker lets through exactly the attempts already
under way (the bound is attained), closes again although it is asked all the time, and calls return
even when every thread is stuck.

Two activations never combine into a bundle that nobody validated, and a cache that was filled after it was
cleared, or that missed the bump, is wrong for a time to live at most. The stream ends on a status it read
after its page, and still has sent all that was there when its last poll began. The flow's overlapping
tasks hand over everything, and an empty list of events is told apart from a scan that failed. The nested
retries cost at most their product. A collector that is overtaken still leaves every other date exact. A
cached forecast is never older than the two lifetimes together, as both count from before the request.
A factor with a gap stays below a bound that depends on which indicators are left.

**What the properties leave out by name**, because the code does it:
* What a retry writes over a published or reviewed snapshot: its gate, the row that still says PUBLISHED, the entry in
  the cache (`PassedUnlessRedone`, `RowFollowsSnapshot`, `ServedIsPublished` except the runs in `Redone`).
* The last events of a run may follow its final status, and a stream that ends then never sends them
  (`DoneAfterDrain` speaks of what was there when the last poll began).
* In the `auto` configuration mode a failed fetch leaves its type out of the frozen scope
  (`runtime_config.py:196-201`), and the stage reads what is live; `StagesShareBundle` is checked in strict mode.
* A retried research attempt stores its evidence and candidate a second time, and the API may write PENDING over a
  request whose worker has finished. A review that asks for a revision has no effect on PostgreSQL:
  REVISION_REQUIRED does not fit `VARCHAR(16)` (`db/models.py:584`), and the transaction fails.
* Two saves of one date that overtake each other, or come out of order, may lose a revision
  (`VintageExact`). A live source stamps today's value with the cutoff of the run that asks, so a back-dated
  run sees it; the store is exact about what it was told.
* A snapshot of forecasts may be saved again for its day, or for a day in the past (`EarningsPointInTime`).
* Where the oldest indicator governs a factor's reliability, an indicator that expires can raise it
  (`AgeingNeverHelps`); over a negative base a yearly change has its sign turned (`DirectionKept`); a better state
  within one capped group can lower a score by loosening another (`ScoreSound`).
* Merging merged events again may join more of them (`EventsMergeOnce` speaks of one pass).

**What the violated runs show.**
* `pending`: the dispatcher marks a run FAILED when Prefect refuses it, so that nothing waits for
  it for ever (`dispatcher.py:41`). When Prefect accepts it and the flow fails before `create_run`, no
  code does that, and the run stays PENDING.
* `retry`: "a failed gate does not overwrite what is published" (`docs/01`, design rules) holds
  between runs but not within one. A REANALYZE whose `update_run` failed is retried; the snapshot it
  saved first can be published in between, and the second attempt's `save_snapshot` replaces it,
  published flag included.
* `ungated`: `publish_run` answers 409, "Quality gate does not allow publication" (`admin.py:197`), to a snapshot that
  did not pass, but the gate it reads (`admin.py:196`) and what it publishes (`admin.py:214`) are two transactions
  apart. When the first attempt of a REANALYZE saved a preview that passed and its `update_run` failed, the retry may
  save one that did not pass between the two, and the request publishes that.
* `missing`: "missing data is not a zero score" (`docs/05`, section 6). The run after one without
  data carries the UNAVAILABLE row on as a last-known-good state of value 0 with coverage up to
  nearly 100 %, because the last-known-good branch does not look at the previous row's status. The run
  is restricted to no events, so that nothing but the missing row explains the coverage.
* `isolation`: abandoned calls "must not delay the analysis that already moved on"
  (`executor.py:76`). Hanging calls hold the threads of a bounded pool, and a provider that is in
  order is then timed out in its queue and its breaker counts that against it.

**Fairness.** Weak fairness on each live run's next step (a thread or Prefect task runs on), on a
received administrator's request, on a reader's answer, and on time passing for the cache. None on
triggering, reading, reviewing, expiry of the lock, or faults. In the executor: on a caller's own steps, on the end of an attempt
(`wait_for` guarantees one), on time, and on callers calling again (collections are scheduled and ask
every capability); none on a hung thread coming back. In `coordination`, on the expiry of cache entries
and on a read that has begun, on the stream's generator (it may still be closed by its browser), on the flow,
on queued tasks being started and on running ones ending, and on a model call ending, by its time-out
if nothing else; none on administrators, researchers or reviewers. In `data_path`, on time and on the bridge's
threads being asked and working, and on nothing else. Where `DeployFails` or
`AnalyseFails` competes with success, either may happen for ever.

## 4. Proofs

Eight modules hold theorems, all for arbitrary sets (runs, dates, administrators, readers, factors,
callers, ...) and for every bound. The assumptions are the named ASSUMEs on the constants.

* `RunLockProofs`. `HeldIsStored` - a live lease is the one Redis stores - is inductive with
  the type invariant; `Exclusive` follows, as one key stores one token.
* `NumberFacts`. What the library does not state of numbers and finite sets. Its induction theorems take an
  operator, which these provers cannot instantiate; `NatHasMin` and `SubsetInduction` take the *set* of the good
  numbers or subsets in its place, which a proof can name. So sums over finite sets, which the model writes with the
  folds of the community modules, have the facts that the proofs below need (`TotalType`, `TotalRemove`,
  `TotalSubset`, `TotalWithin`, `TotalBetween`), and so do the scores': a sum is monotone and linear in its terms,
  the same over an injective image, and the sum of the sums of its parts (`TotalOrder`, `TotalLinear`,
  `TotalNegated`, `TotalImage`, `TotalParted`); a fold in any order of picking the elements exists
  and keeps the type its step keeps (`FoldExists`, `FoldType`).
* `AnalysisSystemProofs`. `TypesHold`: `TypeOK /\ HeldIsStored` is inductive in the composition; the
  steps of the lock are carried over from `RunLockProofs` by instance. `LockHeldInSection`:
  `LockFollowsRun` is inductive on top of that - every action that enters or leaves the guarded
  section acquires or gives up. `AttemptsExclude` follows from both. `ManualRunsNeedApproval` needs that a run that
  was not triggered has no snapshot, since its kind is decided by the trigger. `GateDecides`
  (`PassedUnlessRedone`) has no assumption on what is retried. Its invariant `GateInv` says that a first attempt has no
  snapshot before its save (`SavedOnce`), that what an administrator has reviewed did pass or was started once more
  since (`ReviewedPassed`), and that a run about to update its row to PUBLISHED has a published snapshot (hence
  `RowsFollowSnapshots`); so the save of a retry is the only step that can come between `publish_run`'s two
  transactions and change the gate's result, and what it leaves is published by an administrator only, since a
  scheduled run decides and saves in one step. `ImplementsLog` is the refinement: the published
  analyses have one that none is shown before, and the CHOOSE of `LatestPublished` picks such a one (`BoardIsFirst`);
  every step releases one analysis, later than all before (`Releases`), or takes one back that was started once more
  (`Withdraws`), or leaves what is published alone (`StepPublishes`). With no two releases at the same
  time (`ReleasedApart`) the board is unique, and so moves only to a release of its day or a later one, or to the
  latest that is left. That a retry's `create_run` gives a run no other date than it was published with needs
  `DatesSettled`: a REANALYZE takes its base run's date, and a run that was saved keeps its own.
  `DashboardServesPublished` follows, since what was published stays so or was started once more.
* `FactorResolutionProofs`. `TypeOK`, `PointInTime` and `CarriedFromEarlier` are inductive together:
  whichever way a row is resolved it is well-formed and rests on nothing later than the run
  (`ResolvedSound`), and a marked row comes from a run within the limit (`CarriedSound`). Which of the
  candidates is read does not matter, only that it is about an earlier time. `PublishedOnRecent` adds that a row which
  is not marked and counts rests on an observation within its factor's limit (`RecentUnlessCarried`); the gate's fresh
  weight is then a sum over some of the recent factors, and `TotalWithin` compares the two.
* `ResilientExecutorProofs`. `BreakersConsistent` by the type invariant and the callers' positions.
  `FailuresStayBounded` needs a counting argument: a caller that was let in holds a token for each
  attempt it may still fail, a failure takes one, and nobody gets tokens while the breaker is open;
  so failures and tokens together (`Within`) never exceed the bound.
* `CoordinationProofs`. For the configuration the inductive invariant has five parts. `TableInv`: one ACTIVE version
  per type. `ReaderInv`: the types of the rest. `ActiveBundleSound` itself. `ActivationInv`: an activation
  under way holds the advisory lock, and what it has read still is what the table says - which is why the
  bundle it validated is the one that its commit makes ACTIVE. `RunInv`: the frozen versions of a run still
  hold what they held, as a version never changes its content. `StagesShareTheirBundle` assumes strict mode.
  `StreamDrains`: the cursor is what was sent, a page continues it, and an empty page
  means that the poll's mark was reached (`TraceInv`). `ReviewsAreBacked`: the steps of an attempt are in the order
  evidence, candidate, finish (`ResearchInv`). `FlowHandsOverAll`: which tasks have not begun at
  which line (`TasksInv`), that a cluster's task exists only within the number of clusters (`ClustersInv`), and that
  what was merged is the merge of what was interpreted (`DataInv`). `ContestedEventsAreReviewed`: a flagged
  material event is on its way to the reviewer or through him (`GraphInv`). `CallsAreCounted`: the posts of a call
  never exceed those of the aliases and repairs before it and its own retries (`CallInv`), and at every node the calls
  paid so far are those of the path to it (`CostInv`). `PartsWellTyped` and `PartsKeepPromises`: the conjunction of
  the parts' invariants is inductive in the composition.
* `ComputationsProofs`, under `ComputationsAssumption`: the inputs a run offers have scores from -100 to 100, integer
  ages, and only features that the calculator asks of the indicator; feeds are finite, and no two interpretations
  rest on the same document, as each comes from a cluster of its own; rows are finite, one per factor and asset, with
  states and reliabilities in their ranges. `GapsAreMuted`: the mean of scores is between
  their bounds whatever the weights (`MeanBounded`), and no mean of scores is mistaken for the mark of a missing
  one; then one lemma per calculator, since each decides availability and status its own way.
  `OlderIsNoBetter` compares two runs of one calculator whose inputs differ in the age of one observation. While it
  does not expire, both report the same value and coverage from the same indicators (`ScoresAlike`, `SameReport`,
  one lemma per calculator), so only the multipliers differ: a later age has no larger one, and a stale one is
  strictly below a fresh one as the floor is under 100 per cent. Where it does expire, its indicator falls silent, which
  leaves a calculator that is not governed by its oldest indicator with nothing or with less coverage.
  `ScoresPointRight`: a finite family of numbers has every order statistic, so medians and scales are integers and
  never negative; the bounded transformation keeps the sign of what it is given, and a feature applies it to
  a multiple of the move. A yearly feature over a negative base is excepted by the property itself.
  `ScoresAreSound` holds of every score of rows the computation is given, of which there is at most one per factor
  and asset (`ScoreComputed`). Bounds: a contribution is at most five times its weight, no cap leaves more than there
  is, and the groups part the rows (`TotalParted`), so no direction needs the clip (`DirectionBounded`). A better state
  outside the capped groups raises its own group by twenty twentieths of the rise, and a capped group moves by at
  most its cap's share of it (`GroupNetMoves`); as the caps together are at most the whole (`CapsAssumption`;
  `weights.yaml:33-36` has three that make up the whole exactly), what the other groups lose is never more than
  what this one gains (`NumeratorRises`), and the quotients, the blend and the clip are monotone. With larger caps
  this step would not go through. Opposite rows: every total, share and quotient is turned or kept,
  the two sides of the agreement change places, and where no conflict rule damps either side none takes
  confidence off (`DirectionTurned`, `ConfidenceTurned`, `UnruledIsQuiet`). The rows of other assets do not enter
  any of the sums (`OwnRowsDecide`), and the cap of a missing critical factor is applied last (`ConfidenceCapped`).
  `NothingCountsTwice`: keys compare as a strict order whose complement is transitive (`BeforeOrder`), so a greatest
  element exists and a descending listing is sorted and complete (`DescendingLists`); then, one headline at a time, the
  groups part what has been seen (`JoinedParts`), and, one event at a time, every merged event stands for the
  events that went into it (`Stands`, `MergedCovers`), which their documents tell apart.
* `DataPathProofs`. `StoredExactly` and `HistoryKept` need which dates have been crossed: a vintage whose date was
  not is the last one of its date to one who reads as of its release (`TableInv`), and a collection under way
  still finds what it read before it fetched (`CollectionInv`). `RevisionsPointInTime`: a row's forecast was collected
  on the row's day unless the day was back-dated, and is the newest of the day unless it was collected again
  (`RowsInv`); what a request has read of the day before is still a row of the table (`FetchInv`).
  `ForecastsFresh`: the age of every answer is the sum of a page's and a frame's life, over cache hits, back-off and
  loads that were overtaken (`PageInv`, `FrameInv`, `ThreadInv`). `DataRunsParts` shows that the composition
  implements the specification of each part, so `DataWellTyped` and `DataKeepsPromises` follow from the parts' theorems.

Only model-checked: liveness (`RunSettles`, `CacheConverges`, `EveryCallReturns`, `NoPrimaryBanned`,
`EveryPartSettles`, `BridgeRecovers`), which this prover does not do. Every invariant and action property of
the passing runs is stated by a theorem.

## 5. Not modelled

The parsing of sources and documents, prompts, wordings and the values that pass through without a decision; the
values of factor states and how events add up in them (`FactorResolution` follows where they come from); the
adapters of the bridge other than the forecasts, each of which parses one document through the modelled
client; provider health; listings and previews. The explanation and scenario graphs are fixed lines of nodes over a
result that is already stored. The in-memory repository is the tests' stand-in for PostgreSQL and
replaces none of its concurrency. Sessions are signed tokens, health is read-only; the frontend, scripts and migrations are
outside this project's subject. Direct orchestration, in which `dispatch_analysis` runs the analysis in the API's
thread, differs from the modelled mode in having no `Deploy` step. CANCELLED and SKIPPED are never written by the code.
What happens to a run whose process dies is recorded as a hazard: it never settles, and no
document promises that it does.

## 6. What could follow

1. The values of factor states in `FactorResolution`, joined to `Scoring`.
2. The evidence tables that `run_analysis` writes between its checkpoints.
