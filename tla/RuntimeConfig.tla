----------------------------- MODULE RuntimeConfig -----------------------------
(***************************************************************************)
(* Versioned runtime configuration: the table reference.config_versions,   *)
(* the administrator's staging and activation of versions, the cache of    *)
(* every process with its time to live and the Redis generation counter    *)
(* that empties it, and the scope that freezes the versions of a run for   *)
(* each of its stages.                                                     *)
(*                                                                         *)
(* A configuration's content is a member of Contents; which contents fit   *)
(* together (validate_runtime_config_bundle) is the parameter ValidBundles.*)
(***************************************************************************)
EXTENDS Integers, FiniteSets

CONSTANTS
    Types,          \* configuration types (the 12 of CONFIG_BINDINGS)
    Versions,       \* version labels
    Contents,       \* what a version may hold
    Candidates,     \* the contents administrators stage
    FirstVersion,   \* the version of every type that the seed made ACTIVE
    FirstContent,   \* and its content
    ValidBundles,   \* the bundles that pass the cross-configuration validation
    WeightType,     \* WEIGHTS, whose versions are materialised once
    Processes,      \* API and Prefect processes that activate versions
    Servers,        \* those among them whose readers use the local cache
    Strict,         \* runtime_config_source = "db" (FALSE: "auto" on PostgreSQL)
    MaxActivations, \* bound on activations that reach the commit
    MaxStages,      \* bound on the stages of a run
    None            \* no value

Statuses == {"DRAFT", "APPROVED", "ACTIVE"}
Rows == [status: Statuses, content: Contents]

ASSUME ConfigAssumption ==
    /\ FirstVersion \in Versions /\ FirstContent \in Contents /\ WeightType \in Types
    /\ [t \in Types |-> FirstContent] \in ValidBundles
    /\ ValidBundles \subseteq [Types -> Contents] /\ Candidates \subseteq Contents
    /\ Servers \subseteq Processes
    /\ Strict \in BOOLEAN /\ MaxActivations \in Nat /\ MaxStages \in Nat
    /\ None \notin Contents \cup Processes \cup Versions \cup Rows

VARIABLES
    versions,   \* config_versions: per type and version its status and content
    reference,  \* content the reference tables were last materialised from
    weightsBuilt, \* weights versions that have materialised rows
    advisory,   \* holder of the advisory transaction lock
    txn,        \* per process, its activation in progress
    commits,    \* activations committed so far (bound)
    cache,      \* _active_cache of each server: content that is still fresh
    fill,       \* per server, a content fetched and not yet put into the cache
    seen,       \* _seen_generation of each server, compared with the one in Redis
    run         \* the analysis run in progress: its frozen versions and stages

tableVars == <<versions, reference, weightsBuilt, advisory>>
serverVars == <<cache, fill, seen>>
configVars == <<versions, reference, weightsBuilt, advisory, txn, commits,
                cache, fill, seen, run>>

Idle == [step |-> "idle"]
NoRun == [frozen |-> None]

ActiveVersions(t) ==
    {v \in Versions : versions[t][v] # None /\ versions[t][v].status = "ACTIVE"}
ActiveVersion(t) == CHOOSE v \in ActiveVersions(t) : TRUE
ActiveContent(t) == versions[t][ActiveVersion(t)].content
ActiveBundle == [t \in Types |-> ActiveContent(t)]

\* load_yaml outside a frozen scope: the cached content while it is fresh, the
\* ACTIVE row otherwise.
LiveContent(p, t) == IF cache[p][t] # None THEN cache[p][t] ELSE ActiveContent(t)

EmptyCache == [t \in Types |-> None]

ConfigInit ==
    /\ versions = [t \in Types |-> [v \in Versions |->
                      IF v = FirstVersion
                      THEN [status |-> "ACTIVE", content |-> FirstContent] ELSE None]]
    /\ reference = [t \in Types |-> FirstContent]
    /\ weightsBuilt = {FirstVersion}
    /\ advisory = None
    /\ txn = [p \in Processes |-> Idle]
    /\ commits = 0
    /\ cache = [p \in Servers |-> EmptyCache]
    /\ fill = [p \in Servers |-> None]
    /\ seen = [p \in Servers |-> None]
    /\ run = NoRun

-------------------------------------------------------------------------------
(* The table and the administrator *)

\* Mutant of CreateVersion: a version that exists is overwritten.
CreateOverwrites(t, v, s, c) ==
    versions' = [versions EXCEPT ![t][v] =
        IF @ = None THEN [status |-> s, content |-> c] ELSE [@ EXCEPT !.content = c]]

\* create_config_version: a version, once written, keeps its content; staging it
\* again with the same content returns the row as it is, whatever its status.
CreateVersion(t, v, s, c) ==
    /\ versions[t][v] # None => versions[t][v].content = c
    /\ versions' = [versions EXCEPT ![t][v] =
           IF @ = None THEN [status |-> s, content |-> c] ELSE @]

\* stage_runtime_config_version: an APPROVED candidate has to fit the bundle this
\* process sees, which may be a stale one. Reading the bundle fills the cache.
StageVersion(p, t, v, s, c) ==
    LET seenBundle == [u \in Types |-> LiveContent(p, u)] IN
    /\ s = "APPROVED" => [seenBundle EXCEPT ![t] = c] \in ValidBundles
    /\ CreateVersion(t, v, s, c)
    /\ cache' = [cache EXCEPT ![p] = seenBundle]
    /\ UNCHANGED <<reference, weightsBuilt, advisory, txn, commits,
                   fill, seen, run>>

\* Mutant of LockFree: activations are not serialised.
NoAdvisoryLock(p) == TRUE

LockFree(p) == advisory = None

\* activate_config_version, up to the switch of the statuses: the advisory lock,
\* then the checks on the target row.
ActivateBegin(p, t, v) ==
    /\ txn[p] = Idle
    /\ commits < MaxActivations
    /\ LockFree(p)
    /\ versions[t][v] # None
    /\ versions[t][v].status \in {"APPROVED", "ACTIVE"}
    /\ advisory' = p
    /\ txn' = [txn EXCEPT ![p] = [step |-> "switched", type |-> t, version |-> v]]
    /\ UNCHANGED <<versions, reference, weightsBuilt, commits,
                   serverVars, run>>

\* ... the prospective bundle: what is ACTIVE in the table, with the own switch.
ActivateRead(p) ==
    /\ txn[p].step = "switched"
    /\ LET t == txn[p].type  v == txn[p].version IN
       txn' = [txn EXCEPT ![p] = [step |-> "read", type |-> t, version |-> v,
           bundle |-> [ActiveBundle EXCEPT ![t] = versions[t][v].content],
           weights |-> IF t = WeightType THEN v ELSE ActiveVersion(WeightType)]]
    /\ UNCHANGED <<tableVars, commits, serverVars, run>>

\* ... rejected by the validation: everything is rolled back.
ActivateReject(p) ==
    /\ txn[p].step = "read"
    /\ txn[p].bundle \notin ValidBundles
    /\ txn' = [txn EXCEPT ![p] = Idle]
    /\ advisory' = None
    /\ UNCHANGED <<versions, reference, weightsBuilt, commits,
                   serverVars, run>>

\* ... the commit: the version that was ACTIVE is APPROVED again, the reference
\* tables follow the bundle, and weights are materialised once per version.
ActivateCommit(p) ==
    LET x == txn[p] IN
    /\ x.step = "read"
    /\ x.bundle \in ValidBundles
    /\ versions' = [versions EXCEPT ![x.type] = [v \in Versions |->
           IF v = x.version THEN [@[v] EXCEPT !.status = "ACTIVE"]
           ELSE IF v \in ActiveVersions(x.type)
                THEN [@[v] EXCEPT !.status = "APPROVED"] ELSE @[v]]]
    /\ reference' = x.bundle
    /\ weightsBuilt' = weightsBuilt \cup {x.weights}
    /\ txn' = [txn EXCEPT ![p] = [step |-> "committed"]]
    /\ advisory' = None
    /\ commits' = commits + 1
    /\ UNCHANGED <<serverVars, run>>

\* activate_runtime_config_version after the commit: the own cache is cleared ...
ClearLocal(p) ==
    /\ txn[p].step = "committed"
    /\ txn' = [txn EXCEPT ![p] = [step |-> "cleared"]]
    /\ cache' = IF p \in Servers THEN [cache EXCEPT ![p] = EmptyCache] ELSE cache
    /\ UNCHANGED <<tableVars, commits, fill, seen, run>>

\* ... and the generation is bumped for the others, unless Redis fails.
Bump(p) ==
    /\ txn[p].step = "cleared"
    /\ txn' = [txn EXCEPT ![p] = Idle]
    /\ seen' \in {seen, [q \in Servers |-> IF seen[q] = None THEN None ELSE "old"]}
    /\ UNCHANGED <<tableVars, commits, cache, fill, run>>

\* A process dies and is restarted: PostgreSQL rolls its transaction back, and
\* its cache starts empty.
Crash(p) ==
    /\ txn[p] # Idle
    /\ txn' = [txn EXCEPT ![p] = Idle]
    /\ advisory' = IF advisory = p THEN None ELSE advisory
    /\ IF p \in Servers
       THEN /\ cache' = [cache EXCEPT ![p] = EmptyCache]
            /\ fill' = [fill EXCEPT ![p] = None]
            /\ seen' = [seen EXCEPT ![p] = None]
       ELSE UNCHANGED serverVars
    /\ UNCHANGED <<versions, reference, weightsBuilt, commits, run>>

-------------------------------------------------------------------------------
(* Readers *)

\* runtime_config_content on a miss: the ACTIVE row is fetched ...
Fetch(p, t) ==
    /\ fill[p] = None
    /\ cache[p][t] = None
    /\ fill' = [fill EXCEPT ![p] = [type |-> t, content |-> ActiveContent(t)]]
    /\ UNCHANGED <<tableVars, txn, commits, cache, seen, run>>

\* ... and put into the cache, which may have been cleared since.
Put(p) ==
    /\ fill[p] # None
    /\ cache' = [cache EXCEPT ![p][fill[p].type] = fill[p].content]
    /\ fill' = [fill EXCEPT ![p] = None]
    /\ UNCHANGED <<tableVars, txn, commits, seen, run>>

\* Mutant of Expire: an entry is used at any age.
NeverExpires(p, t) == FALSE /\ UNCHANGED configVars

\* runtime_config_cache_ttl_seconds have passed since the entry's read began.
Expire(p, t) ==
    /\ cache[p][t] # None
    /\ cache' = [cache EXCEPT ![p][t] = None]
    /\ UNCHANGED <<tableVars, txn, commits, fill, seen, run>>

\* _sync_generation_if_needed: the first generation seen is only remembered, a
\* later change clears the cache. (A poll that Redis refuses changes nothing.)
SyncGeneration(p) ==
    /\ seen[p] # "current"
    /\ seen' = [seen EXCEPT ![p] = "current"]
    /\ cache' = IF seen[p] = None THEN cache ELSE [cache EXCEPT ![p] = EmptyCache]
    /\ UNCHANGED <<tableVars, txn, commits, fill, run>>

-------------------------------------------------------------------------------
(* The frozen configuration of a run *)

\* current_version_snapshot / active_runtime_version_map: one query.
BeginRun ==
    /\ run = NoRun
    /\ run' = [frozen |-> [t \in Types |-> ActiveVersion(t)],
               bundle |-> ActiveBundle, stages |-> 0, used |-> {}]
    /\ UNCHANGED <<tableVars, txn, commits, serverVars>>

\* activate_version_snapshot: each stage fetches the frozen versions by itself.
\* A fetch that fails ends the stage in strict mode (it is retried as a stage of
\* its own); otherwise its type is left out of the scope, and what the stage
\* reads of it is the live content.
OpenStage(p, failed) ==
    /\ run # NoRun /\ run.stages < MaxStages
    /\ Strict => failed = {}
    /\ run' = [run EXCEPT !.stages = @ + 1, !.used = @ \cup
           {[t \in Types |-> IF t \in failed THEN LiveContent(p, t)
                             ELSE versions[t][run.frozen[t]].content]}]
    /\ UNCHANGED <<tableVars, txn, commits, serverVars>>

EndRun ==
    /\ run # NoRun
    /\ run' = NoRun
    /\ UNCHANGED <<tableVars, txn, commits, serverVars>>

ServerStep(p) ==
    \/ \E t \in Types : Fetch(p, t) \/ Expire(p, t)
    \/ Put(p)
    \/ SyncGeneration(p)
    \/ \E t \in Types, v \in Versions, s \in {"DRAFT", "APPROVED"}, c \in Candidates :
           StageVersion(p, t, v, s, c)
    \/ \E failed \in SUBSET Types : OpenStage(p, failed)

AdminStep(p) ==
    \/ \E t \in Types, v \in Versions : ActivateBegin(p, t, v)
    \/ ActivateRead(p)
    \/ ActivateReject(p)
    \/ ActivateCommit(p)
    \/ ClearLocal(p)
    \/ Bump(p)
    \/ Crash(p)

ConfigNext ==
    \/ \E p \in Processes : AdminStep(p)
    \/ \E p \in Servers : ServerStep(p)
    \/ BeginRun
    \/ EndRun

\* The clock moves on, and a read that has begun ends.
ConfigFairness ==
    \A p \in Servers :
        /\ WF_configVars(Put(p))
        /\ \A t \in Types : WF_configVars(Expire(p, t))

ConfigSpec == ConfigInit /\ [][ConfigNext]_configVars /\ ConfigFairness

-------------------------------------------------------------------------------
(* Properties *)

ConfigTypeOK ==
    /\ versions \in [Types -> [Versions -> Rows \cup {None}]]
    /\ \A t \in Types : Cardinality(ActiveVersions(t)) = 1
    /\ reference \in [Types -> Contents]
    /\ weightsBuilt \subseteq Versions
    /\ advisory \in Processes \cup {None}
    /\ cache \in [Servers -> [Types -> Contents \cup {None}]]
    /\ seen \in [Servers -> {"current", "old", None}]

\* What is ACTIVE passes the cross-configuration validation, and the reference
\* tables and the weight rows belong to it: two activations of different types,
\* each valid beside what it read, never combine into a bundle nobody validated
\* (activate_config_version, its advisory lock and its one transaction).
ActiveBundleSound ==
    /\ ActiveBundle \in ValidBundles
    /\ reference = ActiveBundle
    /\ ActiveVersion(WeightType) \in weightsBuilt

\* Every stage of a run works with the bundle that was ACTIVE when the run began,
\* and with a valid one, whatever is staged and activated meanwhile and in
\* whichever process it runs (activate_version_snapshot, strict mode).
StagesShareBundle ==
    run # NoRun => /\ run.bundle \in ValidBundles
                   /\ run.used \subseteq {run.bundle}
================================================================================
