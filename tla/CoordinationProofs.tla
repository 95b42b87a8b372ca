-------------------------- MODULE CoordinationProofs --------------------------
(***************************************************************************)
(* What the runtime configuration, the trace stream, the research requests, *)
(* the analysis flow and the event graph promise, for every value of their *)
(* constants, and that their composition keeps all of it.                  *)
(***************************************************************************)
EXTENDS Coordination, RunLockProofs, NumberFacts, SequenceTheorems

-----------------------------------------------------------------------------
(* The runtime configuration: the bundle that is ACTIVE is one that was       *)
(* validated, and a run keeps the one it began with, for any types, versions, *)
(* contents, processes and bounds.                                            *)

(* The inductive invariant, in named parts.                                  *)

\* Where an activation stands, and with what.
Activations ==
    {Idle} \cup [step: {"committed", "cleared"}]
    \cup [step: {"switched"}, type: Types, version: Versions]
    \cup [step: {"read"}, type: Types, version: Versions,
          bundle: [Types -> Contents], weights: Versions]

TableInv ==
    /\ versions \in [Types -> [Versions -> Rows \cup {None}]]
    /\ \A t \in Types : \E v \in Versions : ActiveVersions(t) = {v}

\* The variables that only the type invariant speaks of.
ReaderInv ==
    /\ reference \in [Types -> Contents]
    /\ weightsBuilt \subseteq Versions
    /\ cache \in [Servers -> [Types -> Contents \cup {None}]]
    /\ seen \in [Servers -> {"current", "old", None}]
    /\ fill \in [Servers -> [type: Types, content: Contents] \cup {None}]

\* What an activation has read is still true when it commits, as it holds the lock.
ActivationInv ==
    /\ advisory \in Processes \cup {None}
    /\ txn \in [Processes -> Activations]
    /\ \A p \in Processes : txn[p].step \in {"switched", "read"} =>
           advisory = p /\ versions[txn[p].type][txn[p].version] # None
    /\ \A p \in Processes : txn[p].step = "read" =>
           /\ txn[p].bundle = [ActiveBundle EXCEPT ![txn[p].type] =
                                   versions[txn[p].type][txn[p].version].content]
           /\ txn[p].weights = IF txn[p].type = WeightType THEN txn[p].version
                               ELSE ActiveVersion(WeightType)

\* The frozen versions of a run still hold what they held when it began.
RunInv ==
    run # NoRun =>
        /\ run = [frozen |-> run.frozen, bundle |-> run.bundle,
                  stages |-> run.stages, used |-> run.used]
        /\ run.frozen \in [Types -> Versions]
        /\ run.bundle \in ValidBundles
        /\ \A t \in Types : /\ versions[t][run.frozen[t]] # None
                            /\ versions[t][run.frozen[t]].content = run.bundle[t]
        /\ Strict => run.used \subseteq {run.bundle}

ConfigInv == TableInv /\ ReaderInv /\ ActiveBundleSound /\ ActivationInv /\ RunInv

-----------------------------------------------------------------------------
(* What is ACTIVE.                                                           *)

LEMMA TheActiveVersion ==
    ASSUME NEW t \in Types, NEW v, ActiveVersions(t) = {v}
    PROVE  ActiveVersion(t) = v
  BY DEF ActiveVersion

LEMMA ActiveRow ==
    ASSUME TableInv, NEW t \in Types
    PROVE  /\ ActiveVersions(t) = {ActiveVersion(t)}
           /\ ActiveVersion(t) \in Versions
           /\ versions[t][ActiveVersion(t)] \in Rows
           /\ versions[t][ActiveVersion(t)] # None
           /\ ActiveContent(t) \in Contents
<1>1. PICK v \in Versions : ActiveVersions(t) = {v}
  BY DEF TableInv
<1>2. ActiveVersion(t) = v
  BY <1>1, TheActiveVersion
<1>3. versions[t][v] # None
  BY <1>1 DEF ActiveVersions
<1>4. versions[t][v] \in Rows
  BY <1>3 DEF TableInv
<1>5. versions[t][v].content \in Contents
  BY <1>4 DEF Rows
<1> QED
  BY <1>1, <1>2, <1>3, <1>4, <1>5 DEF ActiveContent

\* Rows are added and change their status; they keep their content.
ContentsKept ==
    \A t \in Types, v \in Versions :
        versions[t][v] # None => /\ versions'[t][v] # None
                                 /\ versions'[t][v].content = versions[t][v].content

\* A step that adds and keeps rows and activates none keeps the ACTIVE bundle.
LEMMA SameActive ==
    ASSUME TableInv, ContentsKept, \A t \in Types : ActiveVersions(t)' = ActiveVersions(t)
    PROVE  /\ \A t \in Types : ActiveVersion(t)' = ActiveVersion(t)
           /\ ActiveBundle' = ActiveBundle
<1>1. ASSUME NEW t \in Types
      PROVE  ActiveVersion(t)' = ActiveVersion(t)
  BY <1>1 DEF ActiveVersion
<1>2. ASSUME NEW t \in Types
      PROVE  ActiveContent(t)' = ActiveContent(t)
  BY <1>1, <1>2, ActiveRow DEF ActiveContent, ContentsKept
<1> QED
  BY <1>1, <1>2 DEF ActiveBundle

LEMMA RunKept ==
    ASSUME TableInv, RunInv, ContentsKept, UNCHANGED run
    PROVE  RunInv'
  BY DEF RunInv, ContentsKept

\* The steps that leave the table and the activations alone.
LEMMA TableUntouched ==
    ASSUME ConfigInv, UNCHANGED <<versions, txn, advisory, reference, weightsBuilt>>
    PROVE  /\ TableInv' /\ ActiveBundleSound' /\ ActivationInv' /\ ContentsKept
           /\ \A t \in Types : ActiveVersions(t)' = ActiveVersions(t)
<1>1. ContentsKept /\ \A t \in Types : ActiveVersions(t)' = ActiveVersions(t)
  BY DEF ContentsKept, ActiveVersions
<1>2. /\ \A t \in Types : ActiveVersion(t)' = ActiveVersion(t)
      /\ ActiveBundle' = ActiveBundle
  BY <1>1, SameActive DEF ConfigInv
<1>3. TableInv'
  BY <1>1 DEF ConfigInv, TableInv
<1>4. ActiveBundleSound'
  BY <1>2, ConfigAssumption DEF ConfigInv, ActiveBundleSound
<1>5. ActivationInv'
  BY <1>2, ConfigAssumption DEF ConfigInv, ActivationInv
<1> QED
  BY <1>1, <1>3, <1>4, <1>5

-----------------------------------------------------------------------------
(* The table and the administrator.                                          *)

LEMMA InitConfig == ConfigInit => ConfigInv
<1> SUFFICES ASSUME ConfigInit PROVE ConfigInv
  OBVIOUS
<1> USE ConfigAssumption
<1>0. \A t \in Types : ActiveVersions(t) = {FirstVersion}
  <2>1. [status |-> "ACTIVE", content |-> FirstContent] \in Rows
    BY DEF Rows, Statuses
  <2>2. ASSUME NEW t \in Types, NEW v \in Versions
        PROVE  (versions[t][v] # None /\ versions[t][v].status = "ACTIVE") <=> v = FirstVersion
    BY <2>1, <2>2 DEF ConfigInit
  <2> QED
    BY <2>2 DEF ActiveVersions
<1>1. TableInv
  <2>1. versions \in [Types -> [Versions -> Rows \cup {None}]]
    BY DEF ConfigInit, Rows, Statuses
  <2> QED
    BY <1>0, <2>1 DEF TableInv
<1>2. \A t \in Types : ActiveVersion(t) = FirstVersion
  BY <1>0, TheActiveVersion
<1>3. ActiveBundle = [t \in Types |-> FirstContent]
  BY <1>2 DEF ConfigInit, ActiveBundle, ActiveContent
<1>4. ActiveBundleSound
  BY <1>2, <1>3 DEF ConfigInit, ActiveBundleSound
<1>5. ReaderInv
  BY DEF ConfigInit, ReaderInv, EmptyCache
<1>6. ActivationInv
  BY DEF ConfigInit, ActivationInv, Activations, Idle
<1>7. RunInv
  BY DEF ConfigInit, RunInv
<1> QED
  BY <1>1, <1>4, <1>5, <1>6, <1>7 DEF ConfigInv

LEMMA CreateKeepsRows ==
    ASSUME TableInv, NEW t \in Types, NEW v \in Versions, NEW s \in {"DRAFT", "APPROVED"},
           NEW c \in Candidates, CreateVersion(t, v, s, c)
    PROVE  /\ TableInv' /\ ContentsKept
           /\ \A u \in Types : ActiveVersions(u)' = ActiveVersions(u)
<1> USE ConfigAssumption
<1>1. [status |-> s, content |-> c] \in Rows
  BY DEF Rows, Statuses
<1>2. versions' \in [Types -> [Versions -> Rows \cup {None}]]
  BY <1>1 DEF TableInv, CreateVersion
<1>3. ContentsKept
  BY <1>1 DEF TableInv, CreateVersion, ContentsKept
<1>4. ASSUME NEW u \in Types
      PROVE  ActiveVersions(u)' = ActiveVersions(u)
  <2>1. ASSUME NEW w \in Versions
        PROVE  (versions'[u][w] # None /\ versions'[u][w].status = "ACTIVE")
               <=> (versions[u][w] # None /\ versions[u][w].status = "ACTIVE")
    BY <1>1, <2>1 DEF TableInv, CreateVersion
  <2> QED
    BY <2>1 DEF ActiveVersions
<1> QED
  BY <1>2, <1>3, <1>4 DEF TableInv

\* Reading live content gives typed content, cached or not.
LEMMA LiveContentTyped ==
    ASSUME ConfigInv, NEW p \in Servers, NEW t \in Types
    PROVE  LiveContent(p, t) \in Contents
  BY ActiveRow DEF ConfigInv, ReaderInv, LiveContent

LEMMA StageKeepsConfig ==
    ASSUME ConfigInv, NEW p \in Servers, NEW t \in Types, NEW v \in Versions,
           NEW s \in {"DRAFT", "APPROVED"}, NEW c \in Candidates, StageVersion(p, t, v, s, c)
    PROVE  ConfigInv'
<1>1. CreateVersion(t, v, s, c) /\ TableInv
  BY DEF StageVersion, ConfigInv
<1>2. /\ TableInv' /\ ContentsKept
      /\ \A u \in Types : ActiveVersions(u)' = ActiveVersions(u)
  BY <1>1, CreateKeepsRows
<1>3. /\ \A u \in Types : ActiveVersion(u)' = ActiveVersion(u)
      /\ ActiveBundle' = ActiveBundle
  BY <1>1, <1>2, SameActive
<1>4. ReaderInv'
  <2> DEFINE seenBundle == [u \in Types |-> LiveContent(p, u)]
  <2>1. seenBundle \in [Types -> Contents \cup {None}]
    BY LiveContentTyped
  <2>2. cache' = [cache EXCEPT ![p] = seenBundle]
    BY DEF StageVersion
  <2> HIDE DEF seenBundle
  <2>3. cache' \in [Servers -> [Types -> Contents \cup {None}]]
    BY <2>1, <2>2 DEF ConfigInv, ReaderInv
  <2> QED
    BY <2>3 DEF ConfigInv, ReaderInv, StageVersion
<1>5. ActiveBundleSound'
  BY <1>3, ConfigAssumption DEF ConfigInv, ActiveBundleSound, StageVersion
<1>6. ActivationInv'
  <2>1. advisory' = advisory /\ txn' = txn
    BY DEF StageVersion
  <2>2. ASSUME NEW q \in Processes, txn[q].step \in {"switched", "read"}
        PROVE  /\ versions'[txn[q].type][txn[q].version] # None
               /\ versions'[txn[q].type][txn[q].version].content
                    = versions[txn[q].type][txn[q].version].content
    BY <1>2, <2>2 DEF ConfigInv, ActivationInv, Activations, Idle, ContentsKept
  <2> QED
    BY <1>3, <2>1, <2>2, ConfigAssumption DEF ConfigInv, ActivationInv
<1>7. RunInv'
  BY <1>1, <1>2, RunKept DEF ConfigInv, StageVersion
<1> QED
  BY <1>2, <1>4, <1>5, <1>6, <1>7 DEF ConfigInv

\* An activation that moves on without touching the table.
LEMMA ActivationMoves ==
    ASSUME ConfigInv, UNCHANGED <<versions, reference, weightsBuilt>>, ReaderInv', UNCHANGED run,
           ActivationInv'
    PROVE  ConfigInv'
<1>1. ContentsKept /\ \A t \in Types : ActiveVersions(t)' = ActiveVersions(t)
  BY DEF ContentsKept, ActiveVersions
<1>2. /\ \A t \in Types : ActiveVersion(t)' = ActiveVersion(t)
      /\ ActiveBundle' = ActiveBundle
  BY <1>1, SameActive DEF ConfigInv
<1>3. TableInv'
  BY <1>1 DEF ConfigInv, TableInv
<1>4. ActiveBundleSound'
  BY <1>2, ConfigAssumption DEF ConfigInv, ActiveBundleSound
<1>5. RunInv'
  BY <1>1, RunKept DEF ConfigInv
<1> QED
  BY <1>3, <1>4, <1>5 DEF ConfigInv

\* What ACTIVE means does not change while the table does not.
LEMMA ActiveUnchanged ==
    ASSUME TableInv, UNCHANGED versions
    PROVE  /\ \A t \in Types : ActiveVersion(t)' = ActiveVersion(t)
           /\ ActiveBundle' = ActiveBundle
<1>1. ContentsKept /\ \A t \in Types : ActiveVersions(t)' = ActiveVersions(t)
  BY DEF ContentsKept, ActiveVersions
<1> QED
  BY <1>1, SameActive

LEMMA BeginKeepsConfig ==
    ASSUME ConfigInv, NEW p \in Processes, NEW t \in Types, NEW v \in Versions,
           ActivateBegin(p, t, v)
    PROVE  ConfigInv'
<1>1. /\ \A u \in Types : ActiveVersion(u)' = ActiveVersion(u)
      /\ ActiveBundle' = ActiveBundle
  BY ActiveUnchanged DEF ConfigInv, ActivateBegin
<1>2. txn' \in [Processes -> Activations]
  BY DEF ConfigInv, ActivationInv, ActivateBegin, Activations
<1>3. \A q \in Processes : q # p => txn'[q] = txn[q] /\ txn[q].step \notin {"switched", "read"}
  BY ConfigAssumption DEF ConfigInv, ActivationInv, ActivateBegin, LockFree
<1>4. txn'[p].step = "switched" /\ txn'[p].type = t /\ txn'[p].version = v
  BY DEF ConfigInv, ActivationInv, ActivateBegin
<1>5. ActivationInv'
  BY <1>2, <1>3, <1>4 DEF ActivationInv, ActivateBegin
<1>6. ReaderInv'
  BY DEF ConfigInv, ReaderInv, ActivateBegin, serverVars
<1> QED
  BY <1>5, <1>6, ActivationMoves DEF ActivateBegin

LEMMA ReadKeepsConfig ==
    ASSUME ConfigInv, NEW p \in Processes, ActivateRead(p)
    PROVE  ConfigInv'
<1> DEFINE t == txn[p].type
           v == txn[p].version
<1> USE ConfigAssumption
<1>1. /\ \A u \in Types : ActiveVersion(u)' = ActiveVersion(u)
      /\ ActiveBundle' = ActiveBundle
  BY ActiveUnchanged DEF ConfigInv, ActivateRead, tableVars
<1>2. /\ t \in Types /\ v \in Versions /\ advisory = p /\ versions[t][v] # None
  BY DEF ConfigInv, ActivationInv, Activations, Idle, ActivateRead
<1>3. versions[t][v].content \in Contents /\ ActiveBundle \in [Types -> Contents]
  BY <1>2, ActiveRow DEF ConfigInv, TableInv, Rows, ActiveBundle
<1>4. ActiveVersion(WeightType) \in Versions
  BY ActiveRow DEF ConfigInv
<1>5. txn' = [txn EXCEPT ![p] = [step |-> "read", type |-> t, version |-> v,
           bundle |-> [ActiveBundle EXCEPT ![t] = versions[t][v].content],
           weights |-> IF t = WeightType THEN v ELSE ActiveVersion(WeightType)]]
  BY DEF ActivateRead
<1> HIDE DEF t, v
<1>6. txn' \in [Processes -> Activations]
  <2>1. [step |-> "read", type |-> t, version |-> v,
           bundle |-> [ActiveBundle EXCEPT ![t] = versions[t][v].content],
           weights |-> IF t = WeightType THEN v ELSE ActiveVersion(WeightType)] \in Activations
    BY <1>2, <1>3, <1>4 DEF Activations
  <2> QED
    BY <1>5, <2>1 DEF ConfigInv, ActivationInv
<1>7. \A q \in Processes : q # p => txn'[q] = txn[q] /\ txn[q].step \notin {"switched", "read"}
  BY <1>2, <1>5 DEF ConfigInv, ActivationInv
<1>8. txn'[p] = [step |-> "read", type |-> t, version |-> v,
           bundle |-> [ActiveBundle EXCEPT ![t] = versions[t][v].content],
           weights |-> IF t = WeightType THEN v ELSE ActiveVersion(WeightType)]
  BY <1>5 DEF ConfigInv, ActivationInv
<1>9. advisory' = advisory /\ versions' = versions
  BY DEF ActivateRead, tableVars
<1>10. ActivationInv'
  BY <1>1, <1>2, <1>6, <1>7, <1>8, <1>9 DEF ConfigInv, ActivationInv
<1>11. ReaderInv'
  BY DEF ConfigInv, ReaderInv, ActivateRead, serverVars, tableVars
<1> QED
  BY <1>10, <1>11, ActivationMoves DEF ActivateRead, tableVars

\* The steps of an activation that end in a place where it has read nothing.
LEMMA ForgettingKeeps ==
    ASSUME ConfigInv, NEW p \in Processes, NEW x \in Activations,
           x.step \notin {"switched", "read"},
           txn' = [txn EXCEPT ![p] = x], UNCHANGED versions,
           advisory' \in {advisory, None}, advisory # advisory' => advisory = p
    PROVE  ActivationInv'
<1>1. /\ \A u \in Types : ActiveVersion(u)' = ActiveVersion(u)
      /\ ActiveBundle' = ActiveBundle
  BY ActiveUnchanged DEF ConfigInv
<1>2. txn' \in [Processes -> Activations] /\ txn'[p] = x
  BY DEF ConfigInv, ActivationInv
<1>3. \A q \in Processes : q # p => txn'[q] = txn[q]
  BY DEF ConfigInv, ActivationInv
<1> QED
  BY <1>1, <1>2, <1>3, ConfigAssumption DEF ConfigInv, ActivationInv

LEMMA RejectKeepsConfig ==
    ASSUME ConfigInv, NEW p \in Processes, ActivateReject(p)
    PROVE  ConfigInv'
<1>1. advisory = p
  BY DEF ConfigInv, ActivationInv, ActivateReject
<1>2. Idle \in Activations /\ Idle.step \notin {"switched", "read"}
  BY DEF Activations, Idle
<1>3. ActivationInv'
  BY <1>1, <1>2, ForgettingKeeps DEF ActivateReject
<1>4. ReaderInv'
  BY DEF ConfigInv, ReaderInv, ActivateReject, serverVars
<1> QED
  BY <1>3, <1>4, ActivationMoves DEF ActivateReject

LEMMA ClearKeepsConfig ==
    ASSUME ConfigInv, NEW p \in Processes, ClearLocal(p)
    PROVE  ConfigInv'
<1>1. [step |-> "cleared"] \in Activations
  BY DEF Activations
<1>2. ActivationInv'
  BY <1>1, ForgettingKeeps DEF ClearLocal, tableVars
<1>3. ReaderInv'
  BY DEF ConfigInv, ReaderInv, ClearLocal, EmptyCache, tableVars
<1> QED
  BY <1>2, <1>3, ActivationMoves DEF ClearLocal, tableVars

LEMMA BumpKeepsConfig ==
    ASSUME ConfigInv, NEW p \in Processes, Bump(p)
    PROVE  ConfigInv'
<1>1. Idle \in Activations /\ Idle.step \notin {"switched", "read"}
  BY DEF Activations, Idle
<1>2. ActivationInv'
  BY <1>1, ForgettingKeeps DEF Bump, tableVars
<1>3. ReaderInv'
  BY DEF ConfigInv, ReaderInv, Bump, tableVars
<1> QED
  BY <1>2, <1>3, ActivationMoves DEF Bump, tableVars

LEMMA CrashKeepsConfig ==
    ASSUME ConfigInv, NEW p \in Processes, Crash(p)
    PROVE  ConfigInv'
<1>1. Idle \in Activations /\ Idle.step \notin {"switched", "read"}
  BY DEF Activations, Idle
<1>2. ActivationInv'
  BY <1>1, ForgettingKeeps DEF Crash
<1>3. ReaderInv'
  <2>1. CASE p \in Servers
    <3>1. EmptyCache \in [Types -> Contents \cup {None}]
      BY DEF EmptyCache
    <3>2. cache' \in [Servers -> [Types -> Contents \cup {None}]]
      BY <2>1, <3>1 DEF ConfigInv, ReaderInv, Crash
    <3>3. /\ fill' \in [Servers -> [type: Types, content: Contents] \cup {None}]
          /\ seen' \in [Servers -> {"current", "old", None}]
      BY <2>1 DEF ConfigInv, ReaderInv, Crash
    <3> QED
      BY <3>2, <3>3 DEF ConfigInv, ReaderInv, Crash
  <2>2. CASE p \notin Servers
    BY <2>2 DEF ConfigInv, ReaderInv, Crash, serverVars
  <2> QED
    BY <2>1, <2>2
<1> QED
  BY <1>2, <1>3, ActivationMoves DEF Crash

LEMMA WithStatus ==
    ASSUME NEW r \in Rows, NEW s \in Statuses
    PROVE  /\ [r EXCEPT !.status = s] \in Rows
           /\ [r EXCEPT !.status = s] # None
           /\ [r EXCEPT !.status = s].status = s
           /\ [r EXCEPT !.status = s].content = r.content
<1>1. [r EXCEPT !.status = s] \in Rows
  BY DEF Rows
<1>2. [r EXCEPT !.status = s] # None
  BY <1>1, ConfigAssumption
<1> QED
  BY <1>1, <1>2 DEF Rows

\* The commit: what was read under the lock is what becomes ACTIVE.
LEMMA CommitKeepsConfig ==
    ASSUME ConfigInv, NEW p \in Processes, ActivateCommit(p)
    PROVE  ConfigInv'
<1> USE ConfigAssumption
<1>1. PICK t \in Types, v \in Versions :
         /\ txn[p].type = t /\ txn[p].version = v /\ advisory = p /\ versions[t][v] # None
         /\ txn[p].bundle \in [Types -> Contents] /\ txn[p].weights \in Versions
         /\ txn[p].bundle = [ActiveBundle EXCEPT ![t] = versions[t][v].content]
         /\ txn[p].weights = IF t = WeightType THEN v ELSE ActiveVersion(WeightType)
  <2>1. txn[p] \in Activations /\ txn[p].step = "read"
    BY DEF ConfigInv, ActivationInv, ActivateCommit
  <2>2. txn[p] \in [step: {"read"}, type: Types, version: Versions,
                    bundle: [Types -> Contents], weights: Versions]
    BY <2>1 DEF Activations, Idle
  <2>3. /\ txn[p].type \in Types /\ txn[p].version \in Versions
        /\ txn[p].bundle \in [Types -> Contents] /\ txn[p].weights \in Versions
    BY <2>2
  <2>4. /\ advisory = p /\ versions[txn[p].type][txn[p].version] # None
        /\ txn[p].bundle = [ActiveBundle EXCEPT ![txn[p].type] =
                                versions[txn[p].type][txn[p].version].content]
        /\ txn[p].weights = IF txn[p].type = WeightType THEN txn[p].version
                            ELSE ActiveVersion(WeightType)
    BY <2>1 DEF ConfigInv, ActivationInv
  <2> QED
    BY <2>3, <2>4
<1>2. /\ versions' = [versions EXCEPT ![t] = [w \in Versions |->
             IF w = v THEN [@[w] EXCEPT !.status = "ACTIVE"]
             ELSE IF w \in ActiveVersions(t)
                  THEN [@[w] EXCEPT !.status = "APPROVED"] ELSE @[w]]]
      /\ reference' = txn[p].bundle
      /\ weightsBuilt' = weightsBuilt \cup {txn[p].weights}
      /\ txn[p].bundle \in ValidBundles
  BY <1>1 DEF ActivateCommit
<1>3. versions[t] \in [Versions -> Rows \cup {None}]
  BY <1>1 DEF ConfigInv, TableInv
<1>4. \A u \in Types : u # t => versions'[u] = versions[u]
  BY <1>1, <1>2 DEF ConfigInv, TableInv
<1>5. \A w \in Versions : versions'[t][w] =
          IF w = v THEN [versions[t][w] EXCEPT !.status = "ACTIVE"]
          ELSE IF w \in ActiveVersions(t)
               THEN [versions[t][w] EXCEPT !.status = "APPROVED"] ELSE versions[t][w]
  BY <1>1, <1>2 DEF ConfigInv, TableInv
<1>6. ASSUME NEW w \in Versions
      PROVE  /\ versions'[t][w] \in Rows \cup {None}
             /\ versions[t][w] # None => /\ versions'[t][w] # None
                                         /\ versions'[t][w].content = versions[t][w].content
             /\ (versions'[t][w] # None /\ versions'[t][w].status = "ACTIVE") <=> w = v
  <2>1. "ACTIVE" \in Statuses /\ "APPROVED" \in Statuses
    BY DEF Statuses
  <2>2. CASE w = v
    <3>1. versions[t][v] \in Rows /\ versions'[t][v] = [versions[t][v] EXCEPT !.status = "ACTIVE"]
      BY <1>1, <1>3, <1>5
    <3> QED
      BY <2>1, <2>2, <3>1, WithStatus
  <2>3. CASE w # v /\ w \in ActiveVersions(t)
    <3>1. versions[t][w] \in Rows
      BY <1>3, <2>3 DEF ActiveVersions
    <3>2. versions'[t][w] = [versions[t][w] EXCEPT !.status = "APPROVED"]
      BY <1>5, <2>3
    <3> QED
      BY <2>1, <2>3, <3>1, <3>2, WithStatus
  <2>4. CASE w # v /\ w \notin ActiveVersions(t)
    <3>1. versions'[t][w] = versions[t][w]
      BY <1>5, <2>4
    <3>2. ~(versions[t][w] # None /\ versions[t][w].status = "ACTIVE")
      BY <2>4 DEF ActiveVersions
    <3> QED
      BY <1>3, <2>4, <3>1, <3>2
  <2> QED
    BY <2>2, <2>3, <2>4
<1>8. versions' \in [Types -> [Versions -> Rows \cup {None}]]
  <2>1. versions'[t] \in [Versions -> Rows \cup {None}]
    <3>1. versions'[t] = [w \in Versions |-> versions'[t][w]]
      BY <1>1, <1>2 DEF ConfigInv, TableInv
    <3> QED
      BY <1>6, <3>1
  <2>2. versions' = [u \in Types |-> versions'[u]]
    BY <1>2 DEF ConfigInv, TableInv
  <2> QED
    BY <1>4, <2>1, <2>2 DEF ConfigInv, TableInv
<1>9. ActiveVersions(t)' = {v}
  BY <1>1, <1>6 DEF ActiveVersions
<1>10. \A u \in Types : u # t => ActiveVersions(u)' = ActiveVersions(u)
  BY <1>4 DEF ActiveVersions
<1>11. TableInv'
  <2>1. ASSUME NEW u \in Types PROVE \E w \in Versions : ActiveVersions(u)' = {w}
    BY <1>1, <1>9, <1>10 DEF ConfigInv, TableInv
  <2> QED
    BY <1>8, <2>1 DEF TableInv
<1>12. ContentsKept
  <2>1. ASSUME NEW u \in Types, NEW w \in Versions, versions[u][w] # None
        PROVE  versions'[u][w] # None /\ versions'[u][w].content = versions[u][w].content
    BY <1>4, <1>6, <2>1
  <2> QED
    BY <2>1 DEF ContentsKept
<1>13. /\ ActiveVersion(t)' = v
       /\ \A u \in Types : u # t => ActiveVersion(u)' = ActiveVersion(u)
  BY <1>9, <1>10 DEF ActiveVersion
<1>14. ActiveBundle' = txn[p].bundle
  <2>1. ActiveContent(t)' = versions[t][v].content
    BY <1>1, <1>12, <1>13 DEF ActiveContent, ContentsKept
  <2>2. ASSUME NEW u \in Types, u # t PROVE ActiveContent(u)' = ActiveContent(u)
    BY <1>4, <1>13, <2>2 DEF ActiveContent
  <2> QED
    BY <1>1, <2>1, <2>2 DEF ActiveBundle
<1>15. ActiveBundleSound'
  BY <1>1, <1>2, <1>13, <1>14 DEF ConfigInv, ActiveBundleSound
<1>16. ActivationInv'
  <2>1. [step |-> "committed"] \in Activations
    BY DEF Activations
  <2>2. /\ txn' \in [Processes -> Activations] /\ advisory' = None
        /\ txn'[p].step = "committed"
        /\ \A q \in Processes : q # p => txn'[q] = txn[q]
    BY <2>1 DEF ConfigInv, ActivationInv, ActivateCommit
  <2>3. \A q \in Processes : txn'[q].step \notin {"switched", "read"}
    BY <1>1, <2>2 DEF ConfigInv, ActivationInv
  <2> QED
    BY <2>2, <2>3 DEF ActivationInv
<1>17. ReaderInv'
  BY <1>1, <1>2 DEF ConfigInv, ReaderInv, ActivateCommit, serverVars
<1>18. RunInv'
  BY <1>12, RunKept DEF ConfigInv, ActivateCommit
<1> QED
  BY <1>11, <1>15, <1>16, <1>17, <1>18 DEF ConfigInv

-----------------------------------------------------------------------------
(* The readers and the run.                                                  *)

LEMMA ReadersKeepConfig ==
    ASSUME ConfigInv, NEW p \in Servers,
           (\E t \in Types : Fetch(p, t) \/ Expire(p, t)) \/ Put(p) \/ SyncGeneration(p)
    PROVE  ConfigInv'
<1>1. UNCHANGED <<versions, reference, weightsBuilt, advisory, txn, run>>
  BY DEF Fetch, Expire, Put, SyncGeneration, tableVars
<1>2. ReaderInv'
  <2>1. ASSUME NEW t \in Types, Fetch(p, t) PROVE ReaderInv'
    BY <2>1, ActiveRow DEF ConfigInv, ReaderInv, Fetch, tableVars
  <2>2. ASSUME NEW t \in Types, Expire(p, t) PROVE ReaderInv'
    BY <2>2 DEF ConfigInv, ReaderInv, Expire, tableVars
  <2>3. CASE Put(p)
    BY <2>3 DEF ConfigInv, ReaderInv, Put, tableVars
  <2>4. CASE SyncGeneration(p)
    BY <2>4 DEF ConfigInv, ReaderInv, SyncGeneration, EmptyCache, tableVars
  <2> QED
    BY <2>1, <2>2, <2>3, <2>4
<1>3. ActivationInv'
  BY <1>1, TableUntouched
<1> QED
  BY <1>1, <1>2, <1>3, ActivationMoves

LEMMA BeginRunKeepsConfig ==
    ASSUME ConfigInv, BeginRun
    PROVE  ConfigInv'
<1>1. UNCHANGED <<versions, reference, weightsBuilt, advisory, txn, cache, fill, seen>>
  BY DEF BeginRun, tableVars, serverVars
<1>2. /\ TableInv' /\ ActiveBundleSound' /\ ActivationInv'
  BY <1>1, TableUntouched
<1>3. ReaderInv'
  BY <1>1 DEF ConfigInv, ReaderInv
<1>4. RunInv'
  <2>1. run' = [frozen |-> [t \in Types |-> ActiveVersion(t)],
                bundle |-> ActiveBundle, stages |-> 0, used |-> {}]
    BY DEF BeginRun
  <2>2. \A t \in Types : /\ ActiveVersion(t) \in Versions
                         /\ versions[t][ActiveVersion(t)] # None
                         /\ versions[t][ActiveVersion(t)].content = ActiveBundle[t]
    BY ActiveRow DEF ConfigInv, ActiveBundle, ActiveContent
  <2> QED
    BY <1>1, <2>1, <2>2 DEF ConfigInv, ActiveBundleSound, RunInv
<1> QED
  BY <1>2, <1>3, <1>4 DEF ConfigInv

LEMMA OpenStageKeepsConfig ==
    ASSUME ConfigInv, NEW p \in Servers, NEW failed \in SUBSET Types, OpenStage(p, failed)
    PROVE  ConfigInv'
<1>1. UNCHANGED <<versions, reference, weightsBuilt, advisory, txn, cache, fill, seen>>
  BY DEF OpenStage, tableVars, serverVars
<1>2. /\ TableInv' /\ ActiveBundleSound' /\ ActivationInv'
  BY <1>1, TableUntouched
<1>3. ReaderInv'
  BY <1>1 DEF ConfigInv, ReaderInv
<1>4. RunInv'
  <2> DEFINE read == [t \in Types |-> IF t \in failed THEN LiveContent(p, t)
                                      ELSE versions[t][run.frozen[t]].content]
  <2>1. run # NoRun /\ run' = [run EXCEPT !.stages = @ + 1, !.used = @ \cup {read}]
    BY DEF OpenStage
  <2>2. /\ run = [frozen |-> run.frozen, bundle |-> run.bundle,
                  stages |-> run.stages, used |-> run.used]
        /\ run.bundle \in ValidBundles
        /\ \A t \in Types : versions[t][run.frozen[t]].content = run.bundle[t]
    BY <2>1 DEF ConfigInv, RunInv
  <2>3. Strict => read = run.bundle
    <3>1. Strict => read = [t \in Types |-> run.bundle[t]]
      BY <2>2 DEF OpenStage
    <3> QED
      BY <2>2, <3>1, ConfigAssumption
  <2> HIDE DEF read
  <2>4. run' = [frozen |-> run.frozen, bundle |-> run.bundle,
                stages |-> run.stages + 1, used |-> run.used \cup {read}]
    BY <2>1, <2>2
  <2>5. /\ run' = [frozen |-> run'.frozen, bundle |-> run'.bundle,
                   stages |-> run'.stages, used |-> run'.used]
        /\ run'.frozen = run.frozen /\ run'.bundle = run.bundle
        /\ run'.used = run.used \cup {read}
    BY <2>4
  <2>6. Strict => run'.used \subseteq {run'.bundle}
    BY <2>1, <2>3, <2>5 DEF ConfigInv, RunInv
  <2> QED
    BY <1>1, <2>1, <2>5, <2>6 DEF ConfigInv, RunInv
<1> QED
  BY <1>2, <1>3, <1>4 DEF ConfigInv

LEMMA EndRunKeepsConfig ==
    ASSUME ConfigInv, EndRun
    PROVE  ConfigInv'
<1>1. UNCHANGED <<versions, reference, weightsBuilt, advisory, txn, cache, fill, seen>>
  BY DEF EndRun, tableVars, serverVars
<1>2. /\ TableInv' /\ ActiveBundleSound' /\ ActivationInv'
  BY <1>1, TableUntouched
<1>3. ReaderInv' /\ RunInv'
  BY <1>1 DEF ConfigInv, ReaderInv, RunInv, EndRun
<1> QED
  BY <1>2, <1>3 DEF ConfigInv

LEMMA StutterKeepsConfig ==
    ASSUME ConfigInv, UNCHANGED configVars
    PROVE  ConfigInv'
<1>1. UNCHANGED <<versions, reference, weightsBuilt, advisory, txn, cache, fill, seen, run>>
  BY DEF configVars
<1>2. /\ TableInv' /\ ActiveBundleSound' /\ ActivationInv'
  BY <1>1, TableUntouched
<1>3. ReaderInv' /\ RunInv'
  BY <1>1 DEF ConfigInv, ReaderInv, RunInv
<1> QED
  BY <1>2, <1>3 DEF ConfigInv

LEMMA ConfigStep ==
    ASSUME ConfigInv, [ConfigNext]_configVars
    PROVE  ConfigInv'
<1>1. ASSUME NEW p \in Processes, AdminStep(p)
      PROVE  ConfigInv'
  <2>1. ASSUME NEW t \in Types, NEW v \in Versions, ActivateBegin(p, t, v) PROVE ConfigInv'
    BY <1>1, <2>1, BeginKeepsConfig
  <2>2. CASE ActivateRead(p)
    BY <1>1, <2>2, ReadKeepsConfig
  <2>3. CASE ActivateReject(p)
    BY <1>1, <2>3, RejectKeepsConfig
  <2>4. CASE ActivateCommit(p)
    BY <1>1, <2>4, CommitKeepsConfig
  <2>5. CASE ClearLocal(p)
    BY <1>1, <2>5, ClearKeepsConfig
  <2>6. CASE Bump(p)
    BY <1>1, <2>6, BumpKeepsConfig
  <2>7. CASE Crash(p)
    BY <1>1, <2>7, CrashKeepsConfig
  <2> QED
    BY <1>1, <2>1, <2>2, <2>3, <2>4, <2>5, <2>6, <2>7 DEF AdminStep
<1>2. ASSUME NEW p \in Servers, ServerStep(p)
      PROVE  ConfigInv'
  <2>1. CASE (\E t \in Types : Fetch(p, t) \/ Expire(p, t)) \/ Put(p) \/ SyncGeneration(p)
    BY <1>2, <2>1, ReadersKeepConfig
  <2>2. ASSUME NEW t \in Types, NEW v \in Versions, NEW s \in {"DRAFT", "APPROVED"},
               NEW c \in Candidates, StageVersion(p, t, v, s, c)
        PROVE  ConfigInv'
    BY <1>2, <2>2, StageKeepsConfig
  <2>3. ASSUME NEW failed \in SUBSET Types, OpenStage(p, failed) PROVE ConfigInv'
    BY <1>2, <2>3, OpenStageKeepsConfig
  <2> QED
    BY <1>2, <2>1, <2>2, <2>3 DEF ServerStep
<1> QED
  BY <1>1, <1>2, BeginRunKeepsConfig, EndRunKeepsConfig, StutterKeepsConfig DEF ConfigNext

LEMMA ConfigInvTypes ==
    ASSUME ConfigInv
    PROVE  ConfigTypeOK
<1>1. \A t \in Types : Cardinality(ActiveVersions(t)) = 1
  BY FS_Singleton DEF ConfigInv, TableInv
<1> QED
  BY <1>1 DEF ConfigInv, TableInv, ReaderInv, ActivationInv, ConfigTypeOK

\* The configuration table, its caches and its reference tables keep their types, and
\* exactly one version of every type is ACTIVE, through activations that crash or are
\* rejected at any point (the partial unique index is never what prevents a second one).
THEOREM ConfigTypesHold == ConfigSpec => []ConfigTypeOK
<1>1. ConfigInv /\ [ConfigNext]_configVars => ConfigInv'
  BY ConfigStep
<1>2. ConfigInv => ConfigTypeOK
  BY ConfigInvTypes
<1> QED
  BY InitConfig, <1>1, <1>2, PTL DEF ConfigSpec

\* For any number of administrators' processes, types, versions and contents: the ACTIVE
\* bundle is one that passed the validation as a whole and the reference tables follow it,
\* because whoever validates holds the advisory lock until the commit.
THEOREM ActiveBundleIsSound == ConfigSpec => []ActiveBundleSound
<1>1. ConfigInv /\ [ConfigNext]_configVars => ConfigInv'
  BY ConfigStep
<1>2. ConfigInv => ActiveBundleSound
  BY DEF ConfigInv
<1> QED
  BY InitConfig, <1>1, <1>2, PTL DEF ConfigSpec

\* With runtime_config_source = "db" every stage of a run, in any process, works with the
\* valid bundle that was ACTIVE when the run began: a version's content never changes.
THEOREM StagesShareTheirBundle ==
    ASSUME Strict
    PROVE  ConfigSpec => []StagesShareBundle
<1>1. ConfigInv /\ [ConfigNext]_configVars => ConfigInv'
  BY ConfigStep
<1>2. ConfigInv => StagesShareBundle
  BY DEF ConfigInv, RunInv, StagesShareBundle
<1> QED
  BY InitConfig, <1>1, <1>2, PTL DEF ConfigSpec

-----------------------------------------------------------------------------
(* The trace stream: what was sent is the prefix up to the cursor, and a page *)
(* goes on from there; an empty page means that the cursor has caught up.     *)

Streams == [step : {"closed", "list", "send", "status", "done", "gone"}, cursor : Nat,
            sent : Seq(Nat), page : Seq(Nat), mark : Nat]

TraceInv ==
    /\ events \in Nat /\ stream \in Streams
    /\ Len(stream.sent) = stream.cursor /\ stream.cursor <= events
    /\ \A i \in 1 .. Len(stream.sent) : stream.sent[i] = i
    /\ stream.step = "send" =>
          /\ stream.cursor <= stream.mark /\ stream.mark <= events
          /\ stream.page = <<>> => stream.cursor = stream.mark
          /\ Len(stream.page) <= stream.mark - stream.cursor
          /\ \A i \in 1 .. Len(stream.page) : stream.page[i] = stream.cursor + i
    /\ stream.step = "status" => (stream.page = <<>> => stream.cursor >= stream.mark)
    /\ stream.step = "done" => stream.cursor >= stream.mark

LEMMA InitTrace == TraceInit => TraceInv
  BY DEF TraceInit, TraceInv, Streams

\* Appending events leaves what the stream knows true.
LEMMA RunStepKeepsTrace ==
    ASSUME TraceInv, UNCHANGED stream, events' = events \/ events' = events + 1
    PROVE  TraceInv'
  BY DEF TraceInv, Streams

LEMMA ConnectKeepsTrace ==
    ASSUME TraceInv, NEW after \in 0 .. events, Connect(after)
    PROVE  TraceInv'
<1>1. [i \in 1 .. after |-> i] \in Seq(Nat) /\ Len([i \in 1 .. after |-> i]) = after
  BY DEF TraceInv
<1>2. /\ stream'.step = "list" /\ stream'.cursor = after
      /\ stream'.sent = [i \in 1 .. after |-> i]
      /\ stream'.page = stream.page /\ stream'.mark = stream.mark
      /\ stream' \in Streams
  <2>1. stream \in Streams /\ after \in Nat
    BY DEF TraceInv
  <2>2. stream' = [stream EXCEPT !.step = "list", !.cursor = after,
                                 !.sent = [i \in 1 .. after |-> i]]
    BY DEF Connect
  <2> QED
    BY <1>1, <2>1, <2>2 DEF Streams
<1> QED
  BY <1>1, <1>2 DEF Connect, TraceInv

LEMMA PollKeepsTrace ==
    ASSUME TraceInv, PollEvents
    PROVE  TraceInv'
<1> DEFINE n == IF events - stream.cursor < PageSize THEN events - stream.cursor ELSE PageSize
           page == [i \in 1 .. n |-> stream.cursor + i]
<1>1. /\ n \in Nat /\ n <= events - stream.cursor /\ (n = 0 => stream.cursor = events)
      /\ stream.cursor \in Nat
  BY TraceAssumption DEF TraceInv, Streams
<1>2. ListEvents(stream.cursor) = page
  BY DEF ListEvents
<1> HIDE DEF n
<1>3. page \in Seq(Nat) /\ Len(page) = n
  BY <1>1
<1>4. \A i \in 1 .. Len(page) : page[i] = stream.cursor + i
  BY <1>1, <1>3
<1>5. page = <<>> => n = 0
  BY <1>3
<1> HIDE DEF page
<1>6. /\ stream'.step = "send" /\ stream'.page = page /\ stream'.mark = events
      /\ stream'.cursor = stream.cursor /\ stream'.sent = stream.sent
      /\ stream' \in Streams
  <2>1. stream \in Streams /\ events \in Nat
    BY DEF TraceInv
  <2>2. stream' = [stream EXCEPT !.step = "send", !.page = page, !.mark = events]
    BY <1>2 DEF PollEvents
  <2> QED
    BY <1>3, <2>1, <2>2 DEF Streams
<1>7. events' = events
  BY DEF PollEvents
<1> QED
  BY <1>1, <1>3, <1>4, <1>5, <1>6, <1>7 DEF TraceInv, Streams

LEMMA PrefixGrows ==
    ASSUME NEW s \in Seq(Nat), NEW page \in Seq(Nat),
           \A i \in 1 .. Len(s) : s[i] = i, \A i \in 1 .. Len(page) : page[i] = Len(s) + i
    PROVE  /\ s \o page \in Seq(Nat) /\ Len(s \o page) = Len(s) + Len(page)
           /\ \A i \in 1 .. Len(s \o page) : (s \o page)[i] = i
<1> DEFINE sent == s \o page
<1>1. /\ sent \in Seq(Nat) /\ Len(sent) = Len(s) + Len(page)
      /\ \A i \in 1 .. Len(s) + Len(page) :
            sent[i] = IF i <= Len(s) THEN s[i] ELSE page[i - Len(s)]
  BY ConcatProperties
<1> HIDE DEF sent
<1>2. Len(s) \in Nat /\ Len(page) \in Nat
  OBVIOUS
<1>3. ASSUME NEW i \in 1 .. Len(sent) PROVE sent[i] = i
  <2>1. CASE i <= Len(s)
    BY <1>1, <1>2, <2>1
  <2>2. CASE i > Len(s)
    <3>1. i - Len(s) \in 1 .. Len(page)
      BY <1>1, <1>2, <2>2
    <3>2. page[i - Len(s)] = Len(s) + (i - Len(s))
      BY <3>1
    <3>3. i \in 1 .. Len(s) + Len(page) /\ ~(i <= Len(s))
      BY <1>1, <1>2, <2>2
    <3>4. sent[i] = page[i - Len(s)]
      BY <1>1, <3>3
    <3> QED
      BY <1>1, <1>2, <3>2, <3>4
  <2> QED
    BY <1>1, <1>2, <2>1, <2>2
<1> QED
  BY <1>1, <1>3 DEF sent

LEMMA SendKeepsTrace ==
    ASSUME TraceInv, SendPage
    PROVE  TraceInv'
<1>1. /\ stream.cursor \in Nat /\ stream.mark \in Nat /\ stream.page \in Seq(Nat)
      /\ stream.sent \in Seq(Nat) /\ Len(stream.sent) = stream.cursor
      /\ stream.mark <= events /\ events \in Nat
      /\ stream.page = <<>> => stream.cursor = stream.mark
      /\ Len(stream.page) <= stream.mark - stream.cursor
      /\ \A i \in 1 .. Len(stream.page) : stream.page[i] = stream.cursor + i
      /\ \A i \in 1 .. Len(stream.sent) : stream.sent[i] = i
  BY DEF TraceInv, Streams, SendPage
<1>2. NextCursor(stream.page) = stream.cursor + Len(stream.page)
  <2>1. CASE stream.page = <<>>
    BY <1>1, <2>1 DEF NextCursor
  <2>2. CASE stream.page # <<>>
    <3>1. Len(stream.page) \in 1 .. Len(stream.page)
      BY <1>1, <2>2
    <3> QED
      BY <1>1, <2>2, <3>1 DEF NextCursor, Last
  <2> QED
    BY <2>1, <2>2
<1> DEFINE sent == stream.sent \o stream.page
<1>3. /\ sent \in Seq(Nat) /\ Len(sent) = stream.cursor + Len(stream.page)
      /\ \A i \in 1 .. Len(sent) : sent[i] = i
  <2>1. \A i \in 1 .. Len(stream.page) : stream.page[i] = Len(stream.sent) + i
    BY <1>1
  <2>2. Len(sent) = Len(stream.sent) + Len(stream.page)
        /\ sent \in Seq(Nat) /\ \A i \in 1 .. Len(sent) : sent[i] = i
    BY <1>1, <2>1, PrefixGrows
  <2> HIDE DEF sent
  <2> QED
    BY <1>1, <2>2
<1>4. /\ stream'.step = "status" /\ stream'.page = stream.page /\ stream'.mark = stream.mark
      /\ stream'.cursor = stream.cursor + Len(stream.page)
      /\ stream'.sent = stream.sent \o stream.page
      /\ stream' \in Streams
  <2>1. stream \in Streams
    BY DEF TraceInv
  <2>2. stream' = [stream EXCEPT !.step = "status", !.sent = stream.sent \o stream.page,
                                 !.cursor = stream.cursor + Len(stream.page)]
    BY <1>2 DEF SendPage
  <2>3. stream.cursor + Len(stream.page) \in Nat
    BY <1>1
  <2> QED
    BY <1>3, <2>1, <2>2, <2>3 DEF Streams
<1>5. events' = events
  BY DEF SendPage
<1> QED
  <2>1. stream'.sent = sent
    BY <1>4
  <2> HIDE DEF sent
  <2>2. Len(stream.page) \in Nat /\ (stream.page = <<>> <=> Len(stream.page) = 0)
    BY <1>1
  <2> QED
    BY <1>1, <1>3, <1>4, <1>5, <2>1, <2>2 DEF TraceInv, Streams

LEMMA TraceStep ==
    ASSUME TraceInv, [TraceNext]_traceVars
    PROVE  TraceInv'
<1>1. CASE RunStep
  <2>1. UNCHANGED stream /\ (events' = events \/ events' = events + 1)
    BY <1>1 DEF RunStep, Refused, Started, Progress, Completed, LastEvent, FailedEvent,
               FailedStatus, RetryAttempt, RunnerDies, Emit
  <2> QED
    BY <2>1, RunStepKeepsTrace
<1>2. ASSUME NEW after \in 0 .. events, Connect(after) PROVE TraceInv'
  BY <1>2, ConnectKeepsTrace
<1>3. CASE PollStatus
  BY <1>3 DEF PollStatus, Finished, TraceInv, Streams
<1>4. CASE Disconnect
  BY <1>4 DEF Disconnect, TraceInv, Streams
<1>5. CASE UNCHANGED traceVars
  BY <1>5 DEF traceVars, TraceInv
<1> QED
  BY <1>1, <1>2, <1>3, <1>4, <1>5, PollKeepsTrace, SendKeepsTrace DEF TraceNext, StreamStep

LEMMA TraceInvImplies == TraceInv => DoneAfterDrain
  BY DEF TraceInv, Streams, DoneAfterDrain

\* For any page size, number of events and of attempts: the browser gets every event once
\* and in order, and the stream says done only after it has sent all that its last poll saw
\* (event_stream of the administrator's router).
THEOREM StreamDrains == TraceSpec => []DoneAfterDrain
  BY InitTrace, TraceStep, TraceInvImplies, PTL DEF TraceSpec

-----------------------------------------------------------------------------
(* Research: the step of the worker says what its attempt has stored.         *)

WorkerSteps == {"none", "begin", "search", "synthesize", "save evidence", "save candidate",
                "finish", "over"}
ReviewRecords == [attempt : Attempts, action : DOMAIN ReviewStatus]

\* A candidate's status is the one its last review gave it.
StatusesAreReviewed ==
    \A a \in Attempts :
        candidates[a] \notin {NoRow, "REVIEW_REQUIRED"} =>
            \E i \in 1 .. Len(reviews) :
                /\ reviews[i].attempt = a
                /\ candidates[a] = ReviewStatus[reviews[i].action]
                /\ \A j \in (i + 1) .. Len(reviews) : reviews[j].attempt # a

ResearchInv ==
    /\ mode \in ResearchModes
    /\ worker \in [attempt : Nat, step : WorkerSteps, found : BOOLEAN]
    /\ worker.step \notin {"none", "over"} => worker.attempt \in Attempts
    /\ worker.step = "synthesize" /\ mode = "mock" => worker.found
    /\ worker.step \in {"save evidence", "save candidate", "finish"} => worker.found
    /\ worker.step \in {"save candidate", "finish"} => worker.attempt \in evidence
    /\ worker.step = "finish" => candidates[worker.attempt] # NoRow
    /\ candidates \in [Attempts -> StorableStatuses \cup {NoRow}]
    /\ reviews \in Seq(ReviewRecords)
    /\ \A a \in Attempts : candidates[a] # NoRow => a \in evidence
    /\ request = "REVIEW_REQUIRED" => \E a \in Attempts : candidates[a] # NoRow
    /\ StatusesAreReviewed

LEMMA StatusesKept ==
    ASSUME StatusesAreReviewed, UNCHANGED <<candidates, reviews>>
    PROVE  StatusesAreReviewed'
  BY DEF StatusesAreReviewed

LEMMA InitResearch == ResearchInit => ResearchInv
  BY ResearchAssumption DEF ResearchInit, ResearchInv, StatusesAreReviewed, WorkerSteps, ReviewRecords

\* The steps that touch neither the stored evidence and candidates nor the reviews.
LEMMA WorkerMoves ==
    ASSUME ResearchInv, UNCHANGED <<mode, evidence, candidates, reviews>>,
           worker' \in [attempt : Nat, step : WorkerSteps, found : BOOLEAN],
           worker'.step \notin {"none", "over"} => worker'.attempt \in Attempts,
           worker'.step = "synthesize" /\ mode = "mock" => worker'.found,
           worker'.step \in {"save evidence", "save candidate", "finish"} => worker'.found,
           worker'.step \in {"save candidate", "finish"} => worker'.attempt \in evidence,
           worker'.step = "finish" => candidates[worker'.attempt] # NoRow,
           request' = "REVIEW_REQUIRED" => \E a \in Attempts : candidates[a] # NoRow
    PROVE  ResearchInv'
<1>1. StatusesAreReviewed'
  BY StatusesKept DEF ResearchInv
<1> QED
  BY <1>1 DEF ResearchInv

LEMMA BeginKeepsResearch ==
    ASSUME ResearchInv, Dispatch \/ WritePending \/ RunDirectly \/ BeginResearch \/ WorkerDies
    PROVE  ResearchInv'
<1> USE ResearchAssumption
<1>1. 1 \in Attempts /\ ResearchAttempts \in Attempts /\ Attempts \subseteq Nat
  BY DEF Attempts
<1>2. CASE Dispatch
  BY <1>1, <1>2, WorkerMoves DEF Dispatch, ResearchInv, WorkerSteps
<1>3. CASE WritePending
  BY <1>3, WorkerMoves DEF WritePending, CreateRequest, ResearchInv
<1>4. CASE RunDirectly
  BY <1>1, <1>4, WorkerMoves DEF RunDirectly, ResearchInv, WorkerSteps
<1>5. CASE BeginResearch
  BY <1>5, WorkerMoves DEF BeginResearch, Working, CreateRequest, ResearchInv, WorkerSteps
<1>6. CASE WorkerDies
  BY <1>6, WorkerMoves DEF WorkerDies, Proceed, ResearchInv, WorkerSteps
<1> QED
  BY <1>2, <1>3, <1>4, <1>5, <1>6

LEMMA SearchKeepsResearch ==
    ASSUME ResearchInv, Search \/ Synthesize
    PROVE  ResearchInv'
<1>1. CASE Search
  <2>1. PICK found \in SearchOutcomes :
           worker' = [worker EXCEPT !.step = "synthesize", !.found = found]
    BY <1>1 DEF Search
  <2>2. found \in BOOLEAN /\ (mode = "mock" => found)
    BY ResearchAssumption DEF SearchOutcomes, ResearchInv
  <2>3. worker' = [attempt |-> worker.attempt, step |-> "synthesize", found |-> found]
    BY <2>1 DEF ResearchInv
  <2> QED
    BY <1>1, <2>2, <2>3, WorkerMoves
       DEF Search, Working, ResearchInv, WorkerSteps
<1>2. CASE Synthesize
  BY <1>2, WorkerMoves
     DEF Synthesize, MaySynthesize, Working, Proceed, ResearchInv, WorkerSteps
<1> QED
  BY <1>1, <1>2

LEMMA SaveEvidenceKeepsResearch ==
    ASSUME ResearchInv, SaveEvidence
    PROVE  ResearchInv'
<1>1. /\ worker.found /\ worker.attempt \in Attempts
      /\ evidence' = evidence \cup {worker.attempt}
      /\ worker' = [attempt |-> worker.attempt, step |-> "save candidate", found |-> worker.found]
      /\ UNCHANGED <<mode, request, candidates, reviews>>
  BY DEF SaveEvidence, Working, Proceed, ResearchInv
<1>2. StatusesAreReviewed'
  BY <1>1, StatusesKept DEF ResearchInv
<1> QED
  BY <1>1, <1>2 DEF ResearchInv, WorkerSteps

LEMMA SaveCandidateKeepsResearch ==
    ASSUME ResearchInv, SaveCandidate
    PROVE  ResearchInv'
<1>1. /\ worker.found /\ worker.attempt \in Attempts /\ worker.attempt \in evidence
      /\ candidates' = [candidates EXCEPT ![worker.attempt] = "REVIEW_REQUIRED"]
      /\ worker' = [attempt |-> worker.attempt, step |-> "finish", found |-> worker.found]
      /\ UNCHANGED <<mode, request, evidence, reviews>>
  BY DEF SaveCandidate, Working, Proceed, ResearchInv
<1>2. "REVIEW_REQUIRED" \in StorableStatuses /\ "REVIEW_REQUIRED" # NoRow
  BY ResearchAssumption DEF StorableStatuses
<1>3. /\ candidates' \in [Attempts -> StorableStatuses \cup {NoRow}]
      /\ candidates'[worker.attempt] = "REVIEW_REQUIRED"
      /\ \A a \in Attempts : a # worker.attempt => candidates'[a] = candidates[a]
  BY <1>1, <1>2 DEF ResearchInv
<1>4. StatusesAreReviewed'
  <2>1. ASSUME NEW a \in Attempts, candidates'[a] \notin {NoRow, "REVIEW_REQUIRED"}
        PROVE  a # worker.attempt /\ candidates'[a] = candidates[a]
    BY <1>3, <2>1
  <2>2. StatusesAreReviewed /\ reviews' = reviews
    BY <1>1 DEF ResearchInv
  <2> QED
    BY <2>1, <2>2 DEF StatusesAreReviewed
<1> QED
  BY <1>1, <1>2, <1>3, <1>4 DEF ResearchInv, WorkerSteps

LEMMA EndKeepsResearch ==
    ASSUME ResearchInv, FinishResearch \/ ResearchFails
    PROVE  ResearchInv'
<1> USE ResearchAssumption
<1>1. CASE FinishResearch
  <2>1. candidates[worker.attempt] # NoRow /\ worker.attempt \in Attempts
    BY <1>1 DEF FinishResearch, Working, ResearchInv
  <2> QED
    BY <1>1, <2>1, WorkerMoves DEF FinishResearch, Working, Proceed, ResearchInv, WorkerSteps
<1>2. CASE ResearchFails
  <2>1. request' # "REVIEW_REQUIRED"
    BY <1>2 DEF ResearchFails, UpdateRequest
  <2>2. worker.attempt \in Attempts /\ worker.attempt \in Nat
    BY <1>2 DEF ResearchFails, ResearchInv
  <2>3. CASE worker.attempt < ResearchAttempts
    <3>1. worker.attempt + 1 \in Attempts /\ worker.attempt + 1 \in Nat
      BY <2>2, <2>3 DEF Attempts
    <3> QED
      BY <1>2, <2>1, <2>3, <3>1, WorkerMoves DEF ResearchFails, ResearchInv, WorkerSteps
  <2>4. CASE ~(worker.attempt < ResearchAttempts)
    BY <1>2, <2>1, <2>4, WorkerMoves DEF ResearchFails, ResearchInv, WorkerSteps
  <2> QED
    BY <2>3, <2>4
<1> QED
  BY <1>1, <1>2

\* A review is the last one of its candidate, and of no other.
LEMMA ReviewKeepsResearch ==
    ASSUME ResearchInv, NEW a \in Attempts, NEW action \in DOMAIN ReviewStatus, Review(a, action)
    PROVE  ResearchInv'
<1> DEFINE record == [attempt |-> a, action |-> action]
<1>6. reviews \in Seq(ReviewRecords) /\ Len(reviews) \in Nat
  <2>1. reviews \in Seq(ReviewRecords)
    BY DEF ResearchInv
  <2> QED
    BY <2>1, LenProperties
<1>1. /\ candidates' = [candidates EXCEPT ![a] = ReviewStatus[action]]
      /\ reviews' = Append(reviews, record)
      /\ candidates[a] # NoRow /\ ReviewStatus[action] \in StorableStatuses
      /\ UNCHANGED <<mode, worker, request, evidence>>
  BY DEF Review
<1>2. record \in ReviewRecords /\ record.attempt = a /\ record.action = action
  BY DEF ReviewRecords
<1> HIDE DEF record
<1>3. /\ reviews' \in Seq(ReviewRecords) /\ Len(reviews') = Len(reviews) + 1
      /\ \A i \in 1 .. Len(reviews) : reviews'[i] = reviews[i]
      /\ reviews'[Len(reviews) + 1] = record
  BY <1>1, <1>2, <1>6, AppendProperties
<1>4. /\ candidates' \in [Attempts -> StorableStatuses \cup {NoRow}]
      /\ candidates'[a] = ReviewStatus[action]
      /\ \A b \in Attempts : b # a => candidates'[b] = candidates[b]
  BY <1>1 DEF ResearchInv
<1>5. ReviewStatus[action] # NoRow
  BY <1>1, ResearchAssumption DEF StorableStatuses
<1>7. ASSUME NEW b \in Attempts, candidates'[b] \notin {NoRow, "REVIEW_REQUIRED"}
      PROVE  \E i \in 1 .. Len(reviews') :
                 /\ reviews'[i].attempt = b
                 /\ candidates'[b] = ReviewStatus[reviews'[i].action]
                 /\ \A j \in (i + 1) .. Len(reviews') : reviews'[j].attempt # b
  <2>1. CASE b = a
    <3>1. Len(reviews) + 1 \in 1 .. Len(reviews') /\ reviews'[Len(reviews) + 1].attempt = b
      BY <1>2, <1>3, <1>6, <2>1
    <3>2. candidates'[b] = ReviewStatus[reviews'[Len(reviews) + 1].action]
      BY <1>2, <1>3, <1>4, <2>1
    <3>3. \A j \in (Len(reviews) + 1 + 1) .. Len(reviews') : FALSE
      BY <1>3, <1>6
    <3> QED
      BY <3>1, <3>2, <3>3
  <2>2. CASE b # a
    <3>1. PICK i \in 1 .. Len(reviews) :
             /\ reviews[i].attempt = b
             /\ candidates[b] = ReviewStatus[reviews[i].action]
             /\ \A j \in (i + 1) .. Len(reviews) : reviews[j].attempt # b
      BY <1>4, <1>7, <2>2 DEF ResearchInv, StatusesAreReviewed
    <3>2. ASSUME NEW j \in (i + 1) .. Len(reviews') PROVE reviews'[j].attempt # b
      <4>1. j \in (i + 1) .. Len(reviews) \/ j = Len(reviews) + 1
        BY <1>3, <1>6
      <4> QED
        BY <1>2, <1>3, <1>6, <2>2, <3>1, <4>1
    <3> QED
      BY <1>3, <1>4, <1>6, <2>2, <3>1, <3>2
  <2> QED
    BY <2>1, <2>2
<1>8. /\ StatusesAreReviewed'
      /\ \A b \in Attempts : candidates'[b] # NoRow => b \in evidence'
      /\ request' = "REVIEW_REQUIRED" => \E b \in Attempts : candidates'[b] # NoRow
  <2>1. \A b \in Attempts : candidates'[b] # NoRow => b \in evidence'
    BY <1>1, <1>4 DEF ResearchInv
  <2> QED
    BY <1>4, <1>5, <1>7, <2>1 DEF StatusesAreReviewed
<1>9. worker'.step = "finish" => candidates'[worker'.attempt] # NoRow
  BY <1>1, <1>4, <1>5 DEF ResearchInv
<1> QED
  BY <1>1, <1>3, <1>4, <1>8, <1>9 DEF ResearchInv

LEMMA ResearchStep ==
    ASSUME ResearchInv, [ResearchNext]_researchVars
    PROVE  ResearchInv'
<1>1. CASE UNCHANGED researchVars
  <2>1. StatusesAreReviewed'
    BY <1>1, StatusesKept DEF researchVars, ResearchInv
  <2> QED
    BY <1>1, <2>1 DEF researchVars, ResearchInv
<1> QED
  BY <1>1, BeginKeepsResearch, SearchKeepsResearch, SaveEvidenceKeepsResearch,
     SaveCandidateKeepsResearch, EndKeepsResearch, ReviewKeepsResearch DEF ResearchNext

\* For any number of attempts and of reviews: what an expert is asked to review has the
\* evidence of the attempt that made it, a request that asks for a review has a candidate,
\* and a candidate's status is that of its last review (run_factor_research, the review).
THEOREM ReviewsAreBacked == ResearchSpec => []ReviewableIsBacked
<1>1. ResearchInv => ReviewableIsBacked
  BY DEF ResearchInv, StatusesAreReviewed, ReviewableIsBacked
<1> QED
  BY <1>1, InitResearch, ResearchStep, PTL DEF ResearchSpec

-----------------------------------------------------------------------------
(* The analysis flow: which tasks have ended where, and what follows for the  *)
(* factor inputs and for the events that are handed over.                     *)

LEMMA TaskNames ==
    /\ \A k \in Keys : Collect(k) \in Tasks
    /\ \A n \in 1 .. MaxClusters : EventTask(n) \in Tasks
    /\ \A name \in SingleTasks : Once(name) \in Tasks
    /\ \A k \in Keys, name \in SingleTasks : Collect(k) # Once(name)
    /\ \A n \in 1 .. MaxClusters, name \in SingleTasks : EventTask(n) # Once(name)
    /\ \A k \in Keys, n \in 1 .. MaxClusters : Collect(k) # EventTask(n)
    /\ \A m, n \in 1 .. MaxClusters : EventTask(m) = EventTask(n) => m = n
    /\ \A name, other \in SingleTasks : Once(name) = Once(other) => name = other
<1>1. /\ \A k \in Keys : Collect(k) \in Tasks
      /\ \A n \in 1 .. MaxClusters : EventTask(n) \in Tasks
      /\ \A name \in SingleTasks : Once(name) \in Tasks
  BY DEF Tasks
<1>2. \A k \in Keys, name \in SingleTasks : Collect(k) # Once(name)
  BY DEF Collect, Once, SingleTasks
<1>3. \A n \in 1 .. MaxClusters, name \in SingleTasks : EventTask(n) # Once(name)
  BY DEF EventTask, Once, SingleTasks
<1>4. \A k \in Keys, n \in 1 .. MaxClusters : Collect(k) # EventTask(n)
  BY DEF EventTask, Collect
<1>5. \A m, n \in 1 .. MaxClusters : EventTask(m) = EventTask(n) => m = n
  BY DEF EventTask
<1>6. \A name, other \in SingleTasks : Once(name) = Once(other) => name = other
  BY DEF Once
<1> QED
  BY <1>1, <1>2, <1>3, <1>4, <1>5, <1>6

BeforeNews == {"start", "indicators", "news"}
BeforeEvents == BeforeNews \cup {"cluster"}
BeforeMerge == BeforeEvents \cup {"events"}
AfterMerge == {"inputs", "resolve", "score", "explain", "prepared"}

\* The tasks along the flow: which have not begun, and which have ended well.
TasksInv ==
    /\ flow \in FlowSteps /\ task \in [Tasks -> TaskStates]
    /\ flow = "start" => \A t \in Tasks : task[t] = "none"
    /\ flow \in {"start", "indicators"} => task[Once("calculate")] = "none"
    /\ task[Once("calculate")] # "none" => IndicatorsEnded
    /\ flow \in BeforeNews => task[Once("cluster")] = "none"
    /\ flow \in BeforeEvents => \A n \in 1 .. MaxClusters : task[EventTask(n)] = "none"
    /\ flow \in BeforeMerge => task[Once("deduplicate")] = "none"
    /\ flow = "events" => task[Once("cluster")] = "done"
    /\ flow \in AfterMerge => task[Once("deduplicate")] = "done"
    /\ task[Once("cluster")] # "none" => task[Once("news")] = "done"
    /\ task[Once("deduplicate")] # "none" => task[Once("cluster")] = "done"

\* The clusters, their tasks and their events.
ClustersInv ==
    /\ clusters \in 0 .. MaxClusters /\ succeeded \subseteq 1 .. MaxClusters
    /\ \A n \in 1 .. MaxClusters :
          task[EventTask(n)] # "none" => task[Once("cluster")] = "done" /\ n \in 1 .. clusters
    /\ \A n \in succeeded : task[EventTask(n)] = "done"
    /\ task[Once("deduplicate")] # "none" =>
          \A n \in 1 .. clusters : task[EventTask(n)] = "done"

\* What the calculation saw, and what was merged and handed over.
DataInv ==
    /\ inputs = IF task[Once("calculate")] = "done" THEN stored ELSE {}
    /\ task[Once("deduplicate")] = "done" => merged = Merge(1 .. clusters, succeeded)
    /\ prepared.given =>
          /\ task[Once("deduplicate")] = "done"
          /\ prepared.available = EventSourceAvailable
          /\ prepared.events = merged.events /\ prepared.warned = merged.warned

FlowInv == TasksInv /\ ClustersInv /\ DataInv

LEMMA InitFlow == FlowInit => FlowInv
<1> SUFFICES ASSUME FlowInit PROVE FlowInv
  OBVIOUS
<1>1. \A t \in Tasks : task[t] = "none"
  BY DEF FlowInit
<1>2. /\ task[Once("calculate")] = "none" /\ task[Once("cluster")] = "none"
      /\ task[Once("deduplicate")] = "none" /\ \A n \in 1 .. MaxClusters : task[EventTask(n)] = "none"
  BY <1>1, TaskNames DEF SingleTasks
<1>3. flow = "start" /\ task \in [Tasks -> TaskStates]
  BY DEF FlowInit, TaskStates
<1>4. TasksInv
  BY <1>1, <1>2, <1>3 DEF TasksInv, FlowSteps, AfterMerge
<1>5. ClustersInv
  BY <1>2, FlowAssumption DEF FlowInit, ClustersInv
<1>6. DataInv
  BY <1>2 DEF FlowInit, DataInv, NoPrepared
<1> QED
  BY <1>4, <1>5, <1>6 DEF FlowInv

LEMMA FlowInvImplies == FlowInv => PreparedIsWhole
<1> SUFFICES ASSUME FlowInv PROVE PreparedIsWhole
  OBVIOUS
<1>1. InputsSeeCollections
  BY DEF FlowInv, DataInv, InputsSeeCollections, Ended
<1>2. ASSUME prepared.given
      PROVE  /\ prepared.available => news \in {"VALID", "PARTIAL"} /\ prepared.events = 1 .. clusters
             /\ prepared.events \cup prepared.warned = 1 .. clusters
  <2>1. /\ task[Once("deduplicate")] = "done"
        /\ merged = Merge(1 .. clusters, succeeded)
        /\ prepared.available = EventSourceAvailable
        /\ prepared.events = merged.events /\ prepared.warned = merged.warned
    BY <1>2 DEF FlowInv, DataInv
  <2>2. /\ merged.events = succeeded /\ merged.complete = (succeeded = 1 .. clusters)
        /\ merged.warned = (1 .. clusters) \ succeeded
    BY <2>1 DEF Merge
  <2>3. succeeded \subseteq 1 .. clusters
    BY DEF FlowInv, ClustersInv
  <2> QED
    BY <2>1, <2>2, <2>3 DEF EventSourceAvailable
<1> QED
  BY <1>1, <1>2 DEF PreparedIsWhole, SilenceIsExplained

-----------------------------------------------------------------------------
(* The tasks end.                                                            *)

\* What a task's end does to the state of the tasks.
LEMMA AfterFinish ==
    ASSUME TasksInv, NEW t \in Tasks, NEW outcome \in {"done", "failed", "queued", "running"},
           task[t] \in {"queued", "running"}, task' = [task EXCEPT ![t] = outcome]
    PROVE  /\ task' \in [Tasks -> TaskStates] /\ task'[t] = outcome
           /\ \A u \in Tasks : u # t => task'[u] = task[u]
           /\ \A u \in Tasks : task'[u] = "none" <=> task[u] = "none"
           /\ \A u \in Tasks : Ended(u) => task'[u] = task[u]
  BY DEF TasksInv, TaskStates, Ended

\* The end of a task, whichever it is, keeps the order of the tasks.
LEMMA FinishKeepsTasks ==
    ASSUME TasksInv, NEW t \in Tasks, NEW outcome \in {"done", "failed", "queued", "running"},
           task[t] \in {"queued", "running"}, task' = [task EXCEPT ![t] = outcome], flow' = flow
    PROVE  TasksInv'
<1>1. /\ task' \in [Tasks -> TaskStates]
      /\ \A u \in Tasks : task'[u] = "none" <=> task[u] = "none"
      /\ \A u \in Tasks : task[u] \in {"done", "failed"} => task'[u] = task[u]
  BY AfterFinish DEF Ended
<1>2. /\ Once("calculate") \in Tasks /\ Once("cluster") \in Tasks /\ Once("deduplicate") \in Tasks
      /\ Once("news") \in Tasks /\ \A n \in 1 .. MaxClusters : EventTask(n) \in Tasks
      /\ \A k \in Keys : Collect(k) \in Tasks
  BY TaskNames DEF SingleTasks
<1>3. IndicatorsEnded => IndicatorsEnded'
  BY <1>1, <1>2 DEF IndicatorsEnded, Ended
<1> QED
  BY <1>1, <1>2, <1>3 DEF TasksInv

\* An end that leaves the clusters alone keeps what is known of them.
LEMMA FinishKeepsClusters ==
    ASSUME TasksInv, ClustersInv, NEW t \in Tasks,
           NEW outcome \in {"done", "failed", "queued", "running"},
           task[t] \in {"queued", "running"}, task' = [task EXCEPT ![t] = outcome],
           UNCHANGED <<clusters, succeeded>>
    PROVE  ClustersInv'
<1>1. /\ \A u \in Tasks : task'[u] = "none" <=> task[u] = "none"
      /\ \A u \in Tasks : task[u] \in {"done", "failed"} => task'[u] = task[u]
  BY AfterFinish DEF Ended
<1>2. /\ Once("cluster") \in Tasks /\ Once("deduplicate") \in Tasks
      /\ \A n \in 1 .. MaxClusters : EventTask(n) \in Tasks
  BY TaskNames DEF SingleTasks
<1> QED
  BY <1>1, <1>2 DEF ClustersInv

\* An end of another task than the calculation and the deduplication.
LEMMA FinishKeepsData ==
    ASSUME TasksInv, DataInv, NEW t \in Tasks,
           NEW outcome \in {"done", "failed", "queued", "running"},
           t \notin {Once("calculate"), Once("deduplicate")},
           task[t] \in {"queued", "running"}, task' = [task EXCEPT ![t] = outcome],
           UNCHANGED <<stored, inputs, news, clusters, succeeded, merged, prepared>>
    PROVE  DataInv'
<1>1. /\ task'[Once("calculate")] = task[Once("calculate")]
      /\ task'[Once("deduplicate")] = task[Once("deduplicate")]
  BY TaskNames, AfterFinish DEF SingleTasks
<1>2. EventSourceAvailable' = EventSourceAvailable
  BY DEF EventSourceAvailable
<1> QED
  BY <1>1, <1>2 DEF DataInv

LEMMA StartKeepsFlow ==
    ASSUME FlowInv, NEW t \in Tasks, TaskStarts(t)
    PROVE  FlowInv'
<1>1. /\ task[t] \in {"queued", "running"} /\ task' = [task EXCEPT ![t] = "running"]
      /\ UNCHANGED <<flow, stored, inputs, news, clusters, succeeded, merged, prepared>>
  BY DEF TaskStarts
<1>2. TasksInv' /\ ClustersInv'
  BY <1>1, FinishKeepsTasks, FinishKeepsClusters DEF FlowInv
<1>3. DataInv'
  <2>1. /\ Once("calculate") \in Tasks /\ Once("deduplicate") \in Tasks
    BY TaskNames DEF SingleTasks
  <2>2. /\ task'[Once("calculate")] = "done" <=> task[Once("calculate")] = "done"
        /\ task'[Once("deduplicate")] = "done" <=> task[Once("deduplicate")] = "done"
    BY <2>1 DEF TaskStarts, FlowInv, TasksInv
  <2>3. EventSourceAvailable' = EventSourceAvailable
    BY <1>1 DEF EventSourceAvailable
  <2> QED
    BY <1>1, <2>2, <2>3 DEF FlowInv, DataInv
<1> QED
  BY <1>2, <1>3 DEF FlowInv

\* A collection ends before the calculation begins.
LEMMA CollectKeepsFlow ==
    ASSUME FlowInv, NEW k \in Keys, CollectEnds(k)
    PROVE  FlowInv'
<1>1. PICK outcome \in {"done", "failed"} :
         task[Collect(k)] = "running" /\ task' = [task EXCEPT ![Collect(k)] = outcome]
  BY DEF CollectEnds, Finishes
<1>2. /\ UNCHANGED <<flow, inputs, news, clusters, succeeded, merged, prepared>>
      /\ Collect(k) \in Tasks /\ Collect(k) # Once("calculate") /\ Collect(k) # Once("deduplicate")
      /\ Once("calculate") \in Tasks /\ Once("deduplicate") \in Tasks
  BY TaskNames DEF CollectEnds, SingleTasks
<1>3. TasksInv' /\ ClustersInv'
  BY <1>1, <1>2, FinishKeepsTasks, FinishKeepsClusters DEF FlowInv
<1>4. task[Once("calculate")] = "none"
  BY <1>1 DEF FlowInv, TasksInv, IndicatorsEnded, Ended
<1>5. /\ task'[Once("calculate")] = task[Once("calculate")]
      /\ task'[Once("deduplicate")] = task[Once("deduplicate")]
  BY <1>1, <1>2
<1>6. EventSourceAvailable' = EventSourceAvailable
  BY <1>2 DEF EventSourceAvailable
<1>7. DataInv'
  BY <1>2, <1>4, <1>5, <1>6 DEF FlowInv, DataInv
<1> QED
  BY <1>3, <1>7 DEF FlowInv

LEMMA NewsKeepsFlow ==
    ASSUME FlowInv, NewsEnds
    PROVE  FlowInv'
<1>1. PICK outcome \in {"done", "failed"} :
         task[Once("news")] = "running" /\ task' = [task EXCEPT ![Once("news")] = outcome]
  BY DEF NewsEnds, Finishes
<1>2. /\ UNCHANGED <<flow, stored, inputs, clusters, succeeded, merged, prepared>>
      /\ Once("news") \in Tasks /\ Once("calculate") \in Tasks /\ Once("deduplicate") \in Tasks
      /\ Once("news") # Once("calculate") /\ Once("news") # Once("deduplicate")
  BY TaskNames DEF NewsEnds, SingleTasks
<1>3. TasksInv' /\ ClustersInv'
  BY <1>1, <1>2, FinishKeepsTasks, FinishKeepsClusters DEF FlowInv
<1>4. task[Once("deduplicate")] = "none"
  BY <1>1 DEF FlowInv, TasksInv
<1>5. /\ task'[Once("calculate")] = task[Once("calculate")]
      /\ task'[Once("deduplicate")] = task[Once("deduplicate")]
  BY <1>1, <1>2
<1>6. DataInv'
  BY <1>2, <1>4, <1>5 DEF FlowInv, DataInv
<1> QED
  BY <1>3, <1>6 DEF FlowInv

\* The calculation sees what is stored, and nothing is stored beside it or after it.
LEMMA CalculateKeepsFlow ==
    ASSUME FlowInv, CalculateEnds
    PROVE  FlowInv'
<1>1. PICK outcome \in {"done", "failed", "queued"} :
         /\ task[Once("calculate")] = "running"
         /\ task' = [task EXCEPT ![Once("calculate")] = outcome]
         /\ inputs' = IF outcome = "done" THEN stored ELSE inputs
  BY DEF CalculateEnds, Finishes
<1>2. /\ UNCHANGED <<flow, stored, news, clusters, succeeded, merged, prepared>>
      /\ Once("calculate") \in Tasks /\ Once("deduplicate") \in Tasks
      /\ Once("calculate") # Once("deduplicate")
  BY TaskNames DEF CalculateEnds, SingleTasks
<1>3. TasksInv' /\ ClustersInv'
  BY <1>1, <1>2, FinishKeepsTasks, FinishKeepsClusters DEF FlowInv
<1>4. /\ task'[Once("calculate")] = outcome
      /\ task'[Once("deduplicate")] = task[Once("deduplicate")]
  BY <1>1, <1>2 DEF FlowInv, TasksInv
<1>5. EventSourceAvailable' = EventSourceAvailable
  BY <1>2 DEF EventSourceAvailable
<1>6. inputs = {}
  BY <1>1 DEF FlowInv, DataInv
<1>7. DataInv'
  BY <1>1, <1>2, <1>4, <1>5, <1>6 DEF FlowInv, DataInv
<1> QED
  BY <1>3, <1>7 DEF FlowInv

\* The clusters are counted before any of them has a task.
LEMMA ClusterKeepsFlow ==
    ASSUME FlowInv, ClusterEnds
    PROVE  FlowInv'
<1>1. PICK outcome \in {"done", "failed"} :
         task[Once("cluster")] = "running" /\ task' = [task EXCEPT ![Once("cluster")] = outcome]
  BY DEF ClusterEnds, Finishes
<1>2. /\ UNCHANGED <<flow, stored, inputs, news, succeeded, merged, prepared>>
      /\ clusters' \in 0 .. MaxClusters
      /\ Once("cluster") \in Tasks /\ Once("calculate") \in Tasks /\ Once("deduplicate") \in Tasks
      /\ Once("cluster") # Once("calculate") /\ Once("cluster") # Once("deduplicate")
      /\ \A n \in 1 .. MaxClusters : EventTask(n) \in Tasks /\ EventTask(n) # Once("cluster")
  <2>1. clusters' \in 0 .. MaxClusters
    BY FlowAssumption DEF ClusterEnds, FlowInv, ClustersInv
  <2> QED
    BY <2>1, TaskNames DEF ClusterEnds, SingleTasks
<1>3. TasksInv'
  BY <1>1, <1>2, FinishKeepsTasks DEF FlowInv
<1>4. /\ task[Once("deduplicate")] = "none"
      /\ \A n \in 1 .. MaxClusters : task[EventTask(n)] = "none"
      /\ succeeded = {}
  BY <1>1 DEF FlowInv, TasksInv, ClustersInv
<1>5. /\ task'[Once("calculate")] = task[Once("calculate")]
      /\ task'[Once("deduplicate")] = task[Once("deduplicate")]
      /\ \A n \in 1 .. MaxClusters : task'[EventTask(n)] = task[EventTask(n)]
  BY <1>1, <1>2
<1>6. ClustersInv'
  BY <1>2, <1>4, <1>5 DEF ClustersInv
<1>7. DataInv'
  BY <1>2, <1>4, <1>5 DEF FlowInv, DataInv
<1> QED
  BY <1>3, <1>6, <1>7 DEF FlowInv

\* The event graph of a cluster ends before the results are merged.
LEMMA EventKeepsFlow ==
    ASSUME FlowInv, NEW n \in 1 .. MaxClusters, EventEnds(n)
    PROVE  FlowInv'
<1>1. PICK outcome \in {"done", "failed"} :
         /\ task[EventTask(n)] = "running" /\ task' = [task EXCEPT ![EventTask(n)] = outcome]
         /\ succeeded' \in {succeeded, succeeded \cup {n}}
         /\ outcome = "failed" => succeeded' = succeeded
  BY DEF EventEnds, Finishes
<1>2. /\ UNCHANGED <<flow, stored, inputs, news, clusters, merged, prepared>>
      /\ Once("cluster") \in Tasks /\ Once("calculate") \in Tasks /\ Once("deduplicate") \in Tasks
      /\ EventTask(n) # Once("calculate") /\ EventTask(n) # Once("deduplicate")
      /\ EventTask(n) # Once("cluster")
      /\ \A m \in 1 .. MaxClusters : EventTask(m) \in Tasks /\ (m # n => EventTask(m) # EventTask(n))
  BY TaskNames DEF EventEnds, SingleTasks
<1>3. TasksInv'
  BY <1>1, <1>2, FinishKeepsTasks DEF FlowInv
<1>4. task[Once("deduplicate")] = "none" /\ task[Once("cluster")] = "done" /\ n \in 1 .. clusters
  <2>1. task[Once("cluster")] = "done" /\ n \in 1 .. clusters
    BY <1>1 DEF FlowInv, ClustersInv
  <2>2. task[Once("deduplicate")] # "none" => task[EventTask(n)] = "done"
    BY <2>1 DEF FlowInv, ClustersInv
  <2> QED
    BY <1>1, <2>1, <2>2
<1>5. /\ task'[Once("calculate")] = task[Once("calculate")]
      /\ task'[Once("deduplicate")] = task[Once("deduplicate")]
      /\ task'[Once("cluster")] = task[Once("cluster")]
      /\ task'[EventTask(n)] = outcome
      /\ \A m \in 1 .. MaxClusters : m # n => task'[EventTask(m)] = task[EventTask(m)]
  BY <1>1, <1>2 DEF FlowInv, TasksInv
<1>6. ClustersInv'
  <2>1. /\ succeeded' \subseteq 1 .. MaxClusters
        /\ \A m \in succeeded' : task'[EventTask(m)] = "done"
    BY <1>1, <1>5 DEF FlowInv, ClustersInv
  <2>2. \A m \in 1 .. MaxClusters : task'[EventTask(m)] # "none" => m \in 1 .. clusters
    BY <1>4, <1>5 DEF FlowInv, ClustersInv
  <2> QED
    BY <1>2, <1>4, <1>5, <2>1, <2>2 DEF FlowInv, ClustersInv
<1>7. DataInv'
  BY <1>2, <1>4, <1>5 DEF FlowInv, DataInv
<1> QED
  BY <1>3, <1>6, <1>7 DEF FlowInv

LEMMA DeduplicateKeepsFlow ==
    ASSUME FlowInv, DeduplicateEnds
    PROVE  FlowInv'
<1>1. PICK outcome \in {"done", "failed"} :
         /\ task[Once("deduplicate")] = "running"
         /\ task' = [task EXCEPT ![Once("deduplicate")] = outcome]
         /\ outcome = "done" => merged' = Merge(1 .. clusters, succeeded)
  BY DEF DeduplicateEnds, Finishes
<1>2. /\ UNCHANGED <<flow, stored, inputs, news, clusters, succeeded, prepared>>
      /\ Once("deduplicate") \in Tasks /\ Once("calculate") \in Tasks
      /\ Once("deduplicate") # Once("calculate")
  BY TaskNames DEF DeduplicateEnds, SingleTasks
<1>3. TasksInv' /\ ClustersInv'
  BY <1>1, <1>2, FinishKeepsTasks, FinishKeepsClusters DEF FlowInv
<1>4. /\ task'[Once("calculate")] = task[Once("calculate")]
      /\ task'[Once("deduplicate")] = outcome
  BY <1>1, <1>2 DEF FlowInv, TasksInv
<1>5. ~prepared.given
  BY <1>1 DEF FlowInv, DataInv
<1>6. Merge(1 .. clusters, succeeded)' = Merge(1 .. clusters, succeeded)
  BY <1>2 DEF Merge
<1>7. DataInv'
  BY <1>1, <1>2, <1>4, <1>5, <1>6 DEF FlowInv, DataInv
<1> QED
  BY <1>3, <1>7 DEF FlowInv

LEMMA StageKeepsFlow ==
    ASSUME FlowInv, NEW name \in SingleTasks, StageEnds(name)
    PROVE  FlowInv'
<1>1. PICK outcome \in {"done", "failed"} :
         task[Once(name)] = "running" /\ task' = [task EXCEPT ![Once(name)] = outcome]
  BY DEF StageEnds, Finishes
<1>2. /\ UNCHANGED <<flow, stored, inputs, news, clusters, succeeded, merged, prepared>>
      /\ Once(name) \in Tasks
      /\ Once(name) # Once("calculate") /\ Once(name) # Once("deduplicate")
  BY TaskNames DEF StageEnds, SingleTasks
<1>3. TasksInv' /\ ClustersInv'
  BY <1>1, <1>2, FinishKeepsTasks, FinishKeepsClusters DEF FlowInv
<1>4. DataInv'
  BY <1>1, <1>2, FinishKeepsData DEF FlowInv
<1> QED
  BY <1>3, <1>4 DEF FlowInv

-----------------------------------------------------------------------------
(* The flow moves on.                                                        *)

LEMMA StartsKeepsFlow ==
    ASSUME FlowInv, FlowStarts
    PROVE  FlowInv'
<1> DEFINE ts == {Collect(k) : k \in Keys} \cup {Once("news")}
<1>1. /\ flow = "start" /\ flow' = "indicators" /\ task' = Submitted(ts)
      /\ UNCHANGED <<stored, inputs, news, clusters, succeeded, merged, prepared>>
  BY DEF FlowStarts, Goes
<1>2. \A t \in Tasks : task[t] = "none"
  BY <1>1 DEF FlowInv, TasksInv
<1>3. /\ Once("calculate") \in Tasks \ ts /\ Once("cluster") \in Tasks \ ts
      /\ Once("deduplicate") \in Tasks \ ts /\ \A n \in 1 .. MaxClusters : EventTask(n) \in Tasks \ ts
  BY TaskNames DEF SingleTasks
<1> HIDE DEF ts
<1>4. /\ task' \in [Tasks -> TaskStates] /\ task'[Once("calculate")] = "none"
      /\ task'[Once("cluster")] = "none" /\ task'[Once("deduplicate")] = "none"
      /\ \A n \in 1 .. MaxClusters : task'[EventTask(n)] = "none"
  BY <1>1, <1>2, <1>3 DEF Submitted, TaskStates
<1>5. /\ task[Once("calculate")] = "none" /\ task[Once("deduplicate")] = "none"
      /\ succeeded = {}
  <2>1. \A n \in 1 .. MaxClusters : task[EventTask(n)] = "none"
    BY <1>2, <1>3
  <2> QED
    BY <1>2, <1>3, <2>1 DEF FlowInv, ClustersInv
<1>6. TasksInv'
  BY <1>1, <1>4 DEF TasksInv, FlowSteps, AfterMerge
<1>7. ClustersInv'
  BY <1>1, <1>4, <1>5 DEF FlowInv, ClustersInv
<1>8. DataInv'
  BY <1>1, <1>4, <1>5 DEF FlowInv, DataInv
<1> QED
  BY <1>6, <1>7, <1>8 DEF FlowInv

\* The flow goes on and submits tasks that have not begun, none of which is the calculation,
\* and only calls them after what they need.
LEMMA GoesKeepsData ==
    ASSUME FlowInv, NEW ts, task' = Submitted(ts),
           Once("calculate") \notin ts \/ task[Once("calculate")] = "none",
           Once("deduplicate") \notin ts \/ task[Once("deduplicate")] = "none",
           UNCHANGED <<stored, inputs, news, clusters, succeeded, merged, prepared>>
    PROVE  DataInv'
<1>1. Once("calculate") \in Tasks /\ Once("deduplicate") \in Tasks
  BY TaskNames DEF SingleTasks
<1>2. /\ task'[Once("calculate")] = "done" <=> task[Once("calculate")] = "done"
      /\ task'[Once("deduplicate")] = "done" <=> task[Once("deduplicate")] = "done"
  BY <1>1 DEF Submitted
<1>3. /\ EventSourceAvailable' = EventSourceAvailable
      /\ Merge(1 .. clusters, succeeded)' = Merge(1 .. clusters, succeeded)
  BY DEF EventSourceAvailable, Merge
<1> QED
  BY <1>2, <1>3 DEF FlowInv, DataInv

LEMMA WaitedKeepsFlow ==
    ASSUME FlowInv, FlowWaited
    PROVE  FlowInv'
<1>1. /\ flow = "indicators" /\ IndicatorsEnded /\ flow' = "news"
      /\ task' = Submitted({Once("calculate")})
      /\ UNCHANGED <<stored, inputs, news, clusters, succeeded, merged, prepared>>
  BY DEF FlowWaited, Goes
<1>2. /\ Once("calculate") \in Tasks /\ Once("cluster") \in Tasks /\ Once("deduplicate") \in Tasks
      /\ Once("news") \in Tasks
      /\ Once("calculate") # Once("cluster") /\ Once("calculate") # Once("deduplicate")
      /\ Once("calculate") # Once("news")
      /\ \A n \in 1 .. MaxClusters : EventTask(n) \in Tasks /\ EventTask(n) # Once("calculate")
      /\ \A k \in Keys : Collect(k) \in Tasks /\ Collect(k) # Once("calculate")
  BY TaskNames DEF SingleTasks
<1>3. /\ task' \in [Tasks -> TaskStates]
      /\ \A t \in Tasks : t # Once("calculate") => task'[t] = task[t]
  BY <1>1 DEF Submitted, FlowInv, TasksInv, TaskStates
<1>4. IndicatorsEnded'
  BY <1>1, <1>2, <1>3 DEF IndicatorsEnded, Ended
<1>5. TasksInv'
  BY <1>1, <1>2, <1>3, <1>4
     DEF FlowInv, TasksInv, FlowSteps, BeforeNews, BeforeEvents, BeforeMerge, AfterMerge
<1>6. ClustersInv'
  <2>1. /\ task[Once("deduplicate")] = "none"
        /\ \A n \in 1 .. MaxClusters : task[EventTask(n)] = "none"
    BY <1>1 DEF FlowInv, TasksInv, BeforeMerge, BeforeEvents, BeforeNews
  <2> QED
    BY <1>1, <1>2, <1>3, <2>1 DEF FlowInv, ClustersInv
<1>7. DataInv'
  <2>1. task[Once("calculate")] = "none" /\ Once("deduplicate") \notin {Once("calculate")}
    BY <1>1, <1>2 DEF FlowInv, TasksInv
  <2> QED
    BY <1>1, <2>1, GoesKeepsData
<1> QED
  BY <1>5, <1>6, <1>7 DEF FlowInv

LEMMA RaisedKeepsFlow ==
    ASSUME FlowInv, flow' = "raised", task' = Submitted({}),
           UNCHANGED <<stored, inputs, news, clusters, succeeded, merged, prepared>>
    PROVE  FlowInv'
<1>1. task' = task
  BY DEF Submitted, FlowInv, TasksInv
<1>2. TasksInv'
  BY <1>1 DEF FlowInv, TasksInv, FlowSteps, BeforeNews, BeforeEvents, BeforeMerge, AfterMerge,
              IndicatorsEnded, Ended
<1>3. ClustersInv'
  BY <1>1 DEF FlowInv, ClustersInv
<1>4. DataInv'
  BY GoesKeepsData
<1> QED
  BY <1>2, <1>3, <1>4 DEF FlowInv

LEMMA HasNewsKeepsFlow ==
    ASSUME FlowInv, FlowHasNews
    PROVE  FlowInv'
<1>1. /\ flow = "news"
      /\ UNCHANGED <<stored, inputs, news, clusters, succeeded, merged, prepared>>
  BY DEF FlowHasNews, Awaits
<1>2. CASE task[Once("news")] # "done"
  BY <1>1, <1>2, RaisedKeepsFlow DEF FlowHasNews, Awaits, Goes
<1>3. CASE task[Once("news")] = "done"
  <2>1. flow' = "cluster" /\ task' = Submitted({Once("cluster")})
    BY <1>3 DEF FlowHasNews, Awaits, Goes
  <2>2. /\ Once("calculate") \in Tasks /\ Once("cluster") \in Tasks /\ Once("deduplicate") \in Tasks
        /\ Once("news") \in Tasks
        /\ Once("calculate") # Once("cluster") /\ Once("cluster") # Once("deduplicate")
        /\ Once("cluster") # Once("news")
        /\ \A n \in 1 .. MaxClusters : EventTask(n) \in Tasks /\ EventTask(n) # Once("cluster")
        /\ \A k \in Keys : Collect(k) \in Tasks /\ Collect(k) # Once("cluster")
    BY TaskNames DEF SingleTasks
  <2>3. /\ task' \in [Tasks -> TaskStates]
        /\ \A t \in Tasks : t # Once("cluster") => task'[t] = task[t]
    BY <2>1 DEF Submitted, FlowInv, TasksInv, TaskStates
  <2>4. IndicatorsEnded => IndicatorsEnded'
    BY <2>2, <2>3 DEF IndicatorsEnded, Ended
  <2>5. TasksInv'
    BY <1>1, <1>3, <2>1, <2>2, <2>3, <2>4
       DEF FlowInv, TasksInv, FlowSteps, BeforeNews, BeforeEvents, BeforeMerge, AfterMerge
  <2>6. \A n \in 1 .. MaxClusters : task[EventTask(n)] = "none"
    BY <1>1 DEF FlowInv, TasksInv, BeforeEvents, BeforeNews
  <2>7. ClustersInv'
    BY <1>1, <2>2, <2>3, <2>6 DEF FlowInv, ClustersInv
  <2>8. DataInv'
    BY <1>1, <2>1, <2>2, GoesKeepsData
  <2> QED
    BY <2>5, <2>7, <2>8 DEF FlowInv
<1> QED
  BY <1>2, <1>3

LEMMA HasClustersKeepsFlow ==
    ASSUME FlowInv, FlowHasClusters
    PROVE  FlowInv'
<1>1. /\ flow = "cluster"
      /\ UNCHANGED <<stored, inputs, news, clusters, succeeded, merged, prepared>>
  BY DEF FlowHasClusters, Awaits
<1>2. CASE task[Once("cluster")] # "done"
  BY <1>1, <1>2, RaisedKeepsFlow DEF FlowHasClusters, Awaits, Goes
<1>3. CASE task[Once("cluster")] = "done"
  <2> DEFINE ts == {EventTask(n) : n \in 1 .. clusters}
  <2>1. flow' = "events" /\ task' = Submitted(ts)
    BY <1>3 DEF FlowHasClusters, Awaits, Goes
  <2>2. clusters \in 0 .. MaxClusters /\ MaxClusters \in Nat
    BY FlowAssumption DEF FlowInv, ClustersInv
  <2>3. /\ Once("calculate") \in Tasks \ ts /\ Once("cluster") \in Tasks \ ts
        /\ Once("deduplicate") \in Tasks \ ts /\ Once("news") \in Tasks \ ts
        /\ \A k \in Keys : Collect(k) \in Tasks \ ts
        /\ \A n \in 1 .. MaxClusters : EventTask(n) \in Tasks
        /\ \A n \in 1 .. MaxClusters : EventTask(n) \in ts => n \in 1 .. clusters
    <3>1. \A n \in 1 .. clusters : n \in 1 .. MaxClusters
      BY <2>2
    <3> QED
      BY <3>1, TaskNames DEF SingleTasks
  <2> HIDE DEF ts
  <2>4. /\ task' \in [Tasks -> TaskStates]
        /\ \A t \in Tasks \ ts : task'[t] = task[t]
    BY <2>1 DEF Submitted, FlowInv, TasksInv, TaskStates
  <2>5. IndicatorsEnded => IndicatorsEnded'
    BY <2>3, <2>4 DEF IndicatorsEnded, Ended
  <2>6. /\ task[Once("deduplicate")] = "none"
        /\ \A n \in 1 .. MaxClusters : task[EventTask(n)] = "none"
    BY <1>1 DEF FlowInv, TasksInv, BeforeMerge, BeforeEvents
  <2>7. succeeded = {}
    BY <2>6 DEF FlowInv, ClustersInv
  <2>8. TasksInv'
    BY <1>1, <1>3, <2>1, <2>3, <2>4, <2>5, <2>6
       DEF FlowInv, TasksInv, FlowSteps, BeforeNews, BeforeEvents, BeforeMerge, AfterMerge
  <2>9. ClustersInv'
    <3>1. \A n \in 1 .. MaxClusters : task'[EventTask(n)] # "none" => n \in 1 .. clusters
      BY <2>3, <2>4, <2>6
    <3> QED
      BY <1>1, <1>3, <2>2, <2>3, <2>4, <2>6, <2>7, <3>1 DEF FlowInv, ClustersInv
  <2>10. DataInv'
    BY <1>1, <2>1, <2>3, GoesKeepsData
  <2> QED
    BY <2>8, <2>9, <2>10 DEF FlowInv
<1> QED
  BY <1>2, <1>3

LEMMA HasEventsKeepsFlow ==
    ASSUME FlowInv, FlowHasEvents
    PROVE  FlowInv'
<1>1. /\ flow = "events"
      /\ UNCHANGED <<stored, inputs, news, clusters, succeeded, merged, prepared>>
  BY DEF FlowHasEvents
<1>2. CASE ~ \A n \in 1 .. clusters : task[EventTask(n)] = "done"
  BY <1>1, <1>2, RaisedKeepsFlow DEF FlowHasEvents, Goes
<1>3. CASE \A n \in 1 .. clusters : task[EventTask(n)] = "done"
  <2>1. flow' = "deduplicate" /\ task' = Submitted({Once("deduplicate")})
    BY <1>3 DEF FlowHasEvents, Goes
  <2>2. /\ Once("calculate") \in Tasks /\ Once("cluster") \in Tasks /\ Once("deduplicate") \in Tasks
        /\ Once("news") \in Tasks
        /\ Once("calculate") # Once("deduplicate") /\ Once("cluster") # Once("deduplicate")
        /\ Once("deduplicate") # Once("news")
        /\ \A n \in 1 .. MaxClusters : EventTask(n) \in Tasks /\ EventTask(n) # Once("deduplicate")
        /\ \A k \in Keys : Collect(k) \in Tasks /\ Collect(k) # Once("deduplicate")
    BY TaskNames DEF SingleTasks
  <2>3. /\ task' \in [Tasks -> TaskStates]
        /\ \A t \in Tasks : t # Once("deduplicate") => task'[t] = task[t]
    BY <2>1 DEF Submitted, FlowInv, TasksInv, TaskStates
  <2>4. IndicatorsEnded => IndicatorsEnded'
    BY <2>2, <2>3 DEF IndicatorsEnded, Ended
  <2>5. task[Once("cluster")] = "done" /\ task[Once("deduplicate")] = "none"
    BY <1>1 DEF FlowInv, TasksInv, BeforeMerge
  <2>6. TasksInv'
    BY <1>1, <2>1, <2>2, <2>3, <2>4, <2>5
       DEF FlowInv, TasksInv, FlowSteps, BeforeNews, BeforeEvents, BeforeMerge, AfterMerge
  <2>7. ClustersInv'
    <3>1. \A n \in 1 .. clusters : n \in 1 .. MaxClusters
      BY FlowAssumption DEF FlowInv, ClustersInv
    <3>2. \A n \in 1 .. MaxClusters : task'[EventTask(n)] = task[EventTask(n)]
      BY <2>2, <2>3
    <3> QED
      BY <1>1, <1>3, <2>2, <2>3, <3>1, <3>2 DEF FlowInv, ClustersInv
  <2>8. DataInv'
    BY <1>1, <2>1, <2>2, <2>5, GoesKeepsData
  <2> QED
    BY <2>6, <2>7, <2>8 DEF FlowInv
<1> QED
  BY <1>2, <1>3

\* Waiting for a task of no concern to the invariant, after the merge is done.
LEMMA StagesKeepFlow ==
    ASSUME FlowInv, NEW t \in Tasks, NEW step \in AfterMerge, NEW ts \in SUBSET Tasks,
           flow \in AfterMerge \cup {"deduplicate"}, Awaits(t, step, ts),
           ts \subseteq {Once("resolve"), Once("score"), Once("explain")},
           task[t] = "done" => task[Once("deduplicate")] = "done"
    PROVE  FlowInv'
<1>1. UNCHANGED <<stored, inputs, news, clusters, succeeded, merged, prepared>>
  BY DEF Awaits
<1>2. CASE task[t] # "done"
  BY <1>1, <1>2, RaisedKeepsFlow DEF Awaits, Goes
<1>3. CASE task[t] = "done"
  <2>1. flow' = step /\ task' = Submitted(ts)
    BY <1>3 DEF Awaits, Goes
  <2>2. /\ Once("calculate") \in Tasks \ ts /\ Once("cluster") \in Tasks \ ts
        /\ Once("deduplicate") \in Tasks \ ts /\ Once("news") \in Tasks \ ts
        /\ \A k \in Keys : Collect(k) \in Tasks \ ts
        /\ \A n \in 1 .. MaxClusters : EventTask(n) \in Tasks \ ts
    BY TaskNames DEF SingleTasks
  <2>3. /\ task' \in [Tasks -> TaskStates]
        /\ \A u \in Tasks \ ts : task'[u] = task[u]
    BY <2>1 DEF Submitted, FlowInv, TasksInv, TaskStates
  <2>4. IndicatorsEnded => IndicatorsEnded'
    BY <2>2, <2>3 DEF IndicatorsEnded, Ended
  <2>5. TasksInv'
    BY <1>3, <2>1, <2>2, <2>3, <2>4
       DEF FlowInv, TasksInv, FlowSteps, BeforeNews, BeforeEvents, BeforeMerge, AfterMerge
  <2>6. ClustersInv'
    <3>1. \A n \in 1 .. clusters : n \in 1 .. MaxClusters
      BY FlowAssumption DEF FlowInv, ClustersInv
    <3> QED
      BY <1>1, <2>2, <2>3, <3>1 DEF FlowInv, ClustersInv
  <2>7. DataInv'
    BY <1>1, <2>1, <2>2, GoesKeepsData
  <2> QED
    BY <2>5, <2>6, <2>7 DEF FlowInv
<1> QED
  BY <1>2, <1>3

LEMMA HandsOverKeepsFlow ==
    ASSUME FlowInv, FlowHandsOver
    PROVE  FlowInv'
<1>1. /\ flow = "prepared" /\ flow' \in {"ended", "raised"}
      /\ UNCHANGED <<task, stored, inputs, news, clusters, succeeded, merged>>
      /\ prepared' = [available |-> EventSourceAvailable, events |-> merged.events,
                      warned |-> merged.warned, given |-> TRUE]
  BY DEF FlowHandsOver
<1>2. TasksInv' /\ task[Once("deduplicate")] = "done"
  BY <1>1 DEF FlowInv, TasksInv, FlowSteps, BeforeNews, BeforeEvents, BeforeMerge, AfterMerge,
              IndicatorsEnded, Ended
<1>3. ClustersInv'
  BY <1>1 DEF FlowInv, ClustersInv
<1>4. DataInv'
  BY <1>1, <1>2 DEF FlowInv, DataInv, EventSourceAvailable, Merge
<1> QED
  BY <1>2, <1>3, <1>4 DEF FlowInv

LEMMA FlowMovesKeepFlow ==
    ASSUME FlowInv, FlowMoves
    PROVE  FlowInv'
<1>1. /\ Once("resolve") \in Tasks /\ Once("score") \in Tasks /\ Once("explain") \in Tasks
      /\ Once("calculate") \in Tasks /\ Once("deduplicate") \in Tasks
  BY TaskNames DEF SingleTasks
<1>2. flow \in AfterMerge => task[Once("deduplicate")] = "done"
  BY DEF FlowInv, TasksInv
<1>3. CASE FlowHasMerged
  BY <1>1, <1>3, StagesKeepFlow DEF FlowHasMerged, AfterMerge
<1>4. CASE FlowHasInputs
  BY <1>1, <1>2, <1>4, StagesKeepFlow DEF FlowHasInputs, AfterMerge
<1>5. CASE FlowHasStates
  BY <1>1, <1>2, <1>5, StagesKeepFlow DEF FlowHasStates, AfterMerge
<1>6. CASE FlowHasScores
  BY <1>1, <1>2, <1>6, StagesKeepFlow DEF FlowHasScores, AfterMerge
<1>7. CASE FlowHasExplanations
  BY <1>1, <1>2, <1>7, StagesKeepFlow DEF FlowHasExplanations, AfterMerge
<1> QED
  BY <1>3, <1>4, <1>5, <1>6, <1>7, StartsKeepsFlow, WaitedKeepsFlow, HasNewsKeepsFlow,
     HasClustersKeepsFlow, HasEventsKeepsFlow, HandsOverKeepsFlow DEF FlowMoves

LEMMA FlowStep ==
    ASSUME FlowInv, [FlowNext]_flowVars
    PROVE  FlowInv'
<1>1. CASE TaskEnds
  BY <1>1, CollectKeepsFlow, NewsKeepsFlow, CalculateKeepsFlow, ClusterKeepsFlow,
     DeduplicateKeepsFlow, EventKeepsFlow, StageKeepsFlow DEF TaskEnds
<1>2. CASE UNCHANGED flowVars
  <2>1. TasksInv'
    BY <1>2 DEF flowVars, FlowInv, TasksInv, IndicatorsEnded, Ended
  <2>2. ClustersInv'
    BY <1>2 DEF flowVars, FlowInv, ClustersInv
  <2>3. DataInv'
    BY <1>2 DEF flowVars, FlowInv, DataInv, EventSourceAvailable, Merge
  <2> QED
    BY <2>1, <2>2, <2>3 DEF FlowInv
<1> QED
  BY <1>1, <1>2, FlowMovesKeepFlow, StartKeepsFlow DEF FlowNext

\* For any number of indicators, clusters, worker threads and retries: the factor inputs see
\* every observation the run's own collections stored, and run_analysis is told that its
\* event source was available only where every cluster gave its events; each one that did
\* not is in the warnings (analysis_flow.py).
THEOREM FlowHandsOverAll == FlowSpec => []PreparedIsWhole
  BY InitFlow, FlowStep, FlowInvImplies, PTL DEF FlowSpec

-----------------------------------------------------------------------------
(* The event graph: between validation and the end, what is flagged and        *)
(* material is on its way to the reviewer or through him.                      *)

Flags == {"UNVERIFIED_D_TIER_ONLY", "IMPLEMENTATION_TOO_HIGH_FOR_RUMOR"}

GraphInv ==
    graphMode # "mock" =>
        /\ errors \subseteq Flags
        /\ node # "ended" => event = NoEvent
        /\ node \in {"extract", "map_factors", "assess", "validate"} => errors = {}
        /\ node \in {"expert_review", "finalize"} =>
               (errors # {} /\ strength >= ExpertReviewMinStrength => escalate)
        /\ node = "ended" => ContestedIsReviewed

LEMMA InitGraph == EventInit => GraphInv
  BY DEF EventInit, GraphInv, Flags

\* A call that goes on, or gives up, decides nothing about the event.
LEMMA CallKeepsGraph ==
    ASSUME GraphInv, CallMoves
    PROVE  GraphInv'
<1>1. /\ UNCHANGED <<graphMode, errors, strength, escalate, review, event>>
      /\ Calling /\ node' \in {node, "exhausted"}
  BY DEF CallMoves, CallStarts, PostedInVain, PostRejected, AnswerInvalid, GoesOnWith, answered, given
<1>2. node \in {"extract", "map_factors", "assess", "expert_review"}
  BY <1>1 DEF Calling, TaskOf
<1> QED
  BY <1>1, <1>2 DEF GraphInv

LEMMA AnswersKeepGraph ==
    ASSUME GraphInv, ExtractAnswered \/ MappingAnswered \/ AssessmentAnswered \/ ReviewAnswered
    PROVE  GraphInv'
<1>1. CASE ExtractAnswered
  BY <1>1 DEF GraphInv, ExtractAnswered, Answers, Calling, given, Leaves, Edge, DirectStep,
              RouteAfterExtract
<1>2. CASE MappingAnswered
  BY <1>2 DEF GraphInv, MappingAnswered, Answers, Calling, given, Leaves, Edge, DirectStep,
              RouteAfterExtract, RouteAfterMapping
<1>3. CASE AssessmentAnswered
  BY <1>3 DEF GraphInv, AssessmentAnswered, Answers, Calling, given, Leaves, Edge, DirectStep
<1>4. CASE ReviewAnswered
  BY <1>4 DEF GraphInv, ReviewAnswered, Answers, Calling, given, Leaves, Edge, DirectStep
<1> QED
  BY <1>1, <1>2, <1>3, <1>4

LEMMA RulesKeepGraph ==
    ASSUME GraphInv, ValidateEvent \/ DetectConflict
    PROVE  GraphInv'
<1>1. CASE ValidateEvent
  BY <1>1 DEF GraphInv, ValidateEvent, Flags, given, Leaves, Edge, DirectStep
<1>2. CASE DetectConflict
  BY <1>2 DEF GraphInv, DetectConflict, Required, ExpertReviewMinStrength, given, Leaves, Edge,
              DirectStep, RouteAfterConflict
<1> QED
  BY <1>1, <1>2

LEMMA FinalizeKeepsGraph ==
    ASSUME GraphInv, FinalizeEvent
    PROVE  GraphInv'
<1>1. /\ graphMode # "mock" /\ node = "finalize" /\ node' = "ended"
      /\ UNCHANGED <<graphMode, errors, strength, escalate, review>>
      /\ errors \subseteq Flags
      /\ errors # {} /\ strength >= ExpertReviewMinStrength => escalate
  BY DEF FinalizeEvent, GraphInv, given
<1>2. ASSUME event' # NoEvent
      PROVE  ~Rejected /\ event'.verification = Verification
  BY <1>2 DEF FinalizeEvent
<1>3. errors # {} <=> Verification # "VERIFIED"
  BY <1>1 DEF Verification, Flags
<1>4. ContestedIsReviewed'
  BY <1>1, <1>2, <1>3 DEF ContestedIsReviewed, Rejected, ExpertReviewMinStrength
<1> QED
  BY <1>1, <1>4 DEF GraphInv

LEMMA GraphStep ==
    ASSUME GraphInv, [EventNext]_graphVars
    PROVE  GraphInv'
<1>1. CASE MockGraph
  BY <1>1 DEF MockGraph, given, GraphInv
<1>2. CASE UNCHANGED graphVars
  BY <1>2 DEF graphVars, GraphInv, ContestedIsReviewed
<1> QED
  BY <1>1, <1>2, CallKeepsGraph, AnswersKeepGraph, RulesKeepGraph, FinalizeKeepsGraph
     DEF EventNext, GraphMoves

LEMMA GraphInvImplies == GraphInv => ContestedIsReviewed
  BY DEF GraphInv, ContestedIsReviewed

\* For any aliases, routes, repairs, retries, factors, strengths and source tiers, in both
\* engines: a material event that validation flagged is never produced without the reviewer's
\* consent, and no flagged event passes for a verified one (production.py).
THEOREM ContestedEventsAreReviewed == EventSpec => []ContestedIsReviewed
  BY InitGraph, GraphStep, GraphInvImplies, PTL DEF EventSpec

-----------------------------------------------------------------------------
(* The event graph: what a cluster costs.                                     *)

\* A node whose call runs has an alias of its route left, within the repairs and the retries;
\* every attempt was worth at most Retries + 1 posts, every alias at most Repairs + 1 attempts.
CallInv(x, n, made) ==
    /\ x \in [alias : Nat, repairs : 0 .. Repairs, retries : 0 .. Retries]
    /\ x = NoCall \/
          /\ n \in DOMAIN TaskOf /\ x.alias \in 1 .. Len(RouteOf(n))
          /\ made <= ((x.alias - 1) * (Repairs + 1) + x.repairs) * (Retries + 1) + x.retries

PostsInv ==
    /\ posts \in 0 .. MostPosts + 1 /\ CallInv(call, node, posts)
    /\ graphMode = "mock" => call = NoCall

LEMMA NoCallInv == ASSUME NEW n, NEW made PROVE CallInv(NoCall, n, made)
  BY EventAssumption DEF CallInv, NoCall

LEMMA RouteFacts ==
    /\ DOMAIN TaskOf = {"extract", "map_factors", "assess", "expert_review"}
    /\ \A n \in DOMAIN TaskOf : RouteOf(n) \in Seq(Aliases) /\ Len(RouteOf(n)) \in Nat
<1>1. DOMAIN TaskOf = {"extract", "map_factors", "assess", "expert_review"}
  BY DEF TaskOf
<1>2. \A n \in DOMAIN TaskOf : TaskOf[n] \in TaskTypes
  BY DEF TaskOf, TaskTypes
<1>3. ASSUME NEW n \in DOMAIN TaskOf
      PROVE  RouteOf(n) \in Seq(Aliases) /\ Len(RouteOf(n)) \in Nat
  <2>1. RouteOf(n) \in Seq(Aliases)
    BY <1>2, EventAssumption DEF RouteOf
  <2> QED
    BY <2>1, LenProperties
<1> QED
  BY <1>1, <1>3

\* A product grows with its first factor.
LEMMA ProductGrows ==
    ASSUME NEW m \in Nat, NEW n \in Nat, NEW k \in Nat, m <= n
    PROVE  m * k <= n * k /\ m * k \in Nat /\ n * k \in Nat
<1>1. PICK d \in Nat : n = m + d
  BY Z3
<1>2. n * k = m * k + d * k
  BY <1>1, Z3
<1>3. m * k \in Nat /\ d * k \in Nat
  BY Z3
<1> QED
  BY <1>2, <1>3

LEMMA PostBoundType == \A n \in DOMAIN TaskOf : PostBound(n) \in Nat
<1> SUFFICES ASSUME NEW n \in DOMAIN TaskOf PROVE PostBound(n) \in Nat
  OBVIOUS
<1>1. PICK l \in Nat : l = Len(RouteOf(n))
  BY RouteFacts
<1>2. PICK a \in Nat, b \in Nat : a = Repairs + 1 /\ b = Retries + 1
  BY EventAssumption
<1>3. l * a \in Nat
  BY ProductGrows
<1>4. (l * a) * b \in Nat
  BY <1>3, ProductGrows
<1> QED
  BY <1>1, <1>2, <1>4 DEF PostBound

\* MostPosts is the largest of the bounds.
LEMMA MostPostsIsMost ==
    MostPosts \in Nat /\ \A n \in DOMAIN TaskOf : PostBound(n) <= MostPosts
<1> DEFINE B == {PostBound(n) : n \in DOMAIN TaskOf}
           Most(b) == \A n \in DOMAIN TaskOf : PostBound(n) <= b
<1>1. PICK e \in Nat, m \in Nat, a \in Nat, x \in Nat :
         /\ e = PostBound("extract") /\ m = PostBound("map_factors")
         /\ a = PostBound("assess") /\ x = PostBound("expert_review")
  BY PostBoundType, RouteFacts
<1>2. B = {e, m, a, x}
  BY <1>1, RouteFacts
<1>3. \A b : Most(b) <=> e <= b /\ m <= b /\ a <= b /\ x <= b
  BY <1>1, RouteFacts
<1>4. \E b \in {e, m, a, x} : e <= b /\ m <= b /\ a <= b /\ x <= b
  OBVIOUS
<1>5. \E b \in B : Most(b)
  BY <1>2, <1>3, <1>4
<1>6. MostPosts = CHOOSE b \in B : Most(b)
  BY DEF MostPosts
<1> HIDE DEF B, Most
<1>7. MostPosts \in B /\ Most(MostPosts)
  BY <1>5, <1>6
<1> QED
  BY <1>2, <1>7 DEF Most

\* One more post, counted.
LEMMA PostsType == ASSUME PostsInv, Posted PROVE posts' \in 0 .. MostPosts + 1 /\ posts' <= posts + 1
  BY MostPostsIsMost DEF PostsInv, Posted

LEMMA AliasFacts ==
    ASSUME NEW i \in Nat \ {0}, node \in DOMAIN TaskOf
    PROVE  NextAlias(i) = 0 \/ (NextAlias(i) \in 1 .. Len(RouteOf(node)) /\ NextAlias(i) >= i)
<1> DEFINE left == {j \in i .. Len(RouteOf(node)) : RouteOf(node)[j] \in keyed}
<1>1. Len(RouteOf(node)) \in Nat
  BY RouteFacts
<1>2. left \subseteq Nat /\ \A j \in left : j >= i /\ j <= Len(RouteOf(node))
  BY <1>1
<1>3. NextAlias(i) = IF left = {} THEN 0 ELSE CHOOSE j \in left : \A k \in left : j <= k
  BY DEF NextAlias
<1> HIDE DEF left
<1>4. CASE left # {}
  <2>1. \E j \in left : \A k \in left : j <= k
    BY <1>2, <1>4, NatHasMin
  <2>2. NextAlias(i) \in left
    BY <1>3, <1>4, <2>1
  <2>3. PICK z : z = NextAlias(i)
    OBVIOUS
  <2>4. z \in Nat /\ z >= i /\ z <= Len(RouteOf(node))
    BY <1>2, <2>2, <2>3
  <2>5. z \in 1 .. Len(RouteOf(node))
    BY <1>1, <2>4
  <2> QED
    BY <2>3, <2>4, <2>5
<1> QED
  BY <1>3, <1>4

\* The next alias starts with what the aliases before it may have cost.
LEMMA NextAliasCosts ==
    ASSUME NEW a \in Nat, NEW b \in Nat, NEW made \in Nat,
           a >= b, made <= (b * (Repairs + 1)) * (Retries + 1)
    PROVE  made <= (a * (Repairs + 1)) * (Retries + 1)
<1>1. PICK p \in Nat, q \in Nat : p = Repairs + 1 /\ q = Retries + 1
  BY EventAssumption
<1>2. b * p <= a * p /\ b * p \in Nat /\ a * p \in Nat
  BY ProductGrows
<1>3. (b * p) * q <= (a * p) * q /\ (b * p) * q \in Nat /\ (a * p) * q \in Nat
  BY <1>2, ProductGrows
<1> QED
  BY <1>1, <1>3

\* The last attempt of an alias fills the share of that alias.
LEMMA ShareOfAlias ==
    ASSUME NEW a \in Nat \ {0}, NEW r \in 0 .. Repairs, NEW t \in 0 .. Retries, NEW made \in Nat,
           made <= ((a - 1) * (Repairs + 1) + r) * (Retries + 1) + t
    PROVE  /\ made + 1 <= (a * (Repairs + 1)) * (Retries + 1)
           /\ r < Repairs => made + 1 <= ((a - 1) * (Repairs + 1) + (r + 1)) * (Retries + 1)
<1>1. PICK p \in Nat, q \in Nat : p = Repairs + 1 /\ q = Retries + 1
  BY EventAssumption
<1>2. PICK c \in Nat : c = (a - 1) * p
  BY ProductGrows
<1>3. a * p = c + p
  BY <1>2, Z3
<1>4. (c + (r + 1)) * q = (c + r) * q + q /\ (c + r) * q \in Nat
  <2>1. c + r \in Nat
    BY <1>2, EventAssumption
  <2>2. (c + r) * q \in Nat
    BY <2>1, ProductGrows
  <2>3. (c + (r + 1)) * q = (c + r) * q + q
    BY <2>1, Z3
  <2> QED
    BY <2>2, <2>3
<1>5. made + 1 <= (c + (r + 1)) * q
  <2>1. made <= (c + r) * q + t /\ t + 1 <= q /\ t \in Nat
    BY <1>1, <1>2, EventAssumption
  <2> QED
    BY <1>4, <2>1
<1>6. (c + (r + 1)) * q <= (c + p) * q
  <2>1. c + (r + 1) \in Nat /\ c + p \in Nat /\ c + (r + 1) <= c + p
    BY <1>1, EventAssumption
  <2> QED
    BY <2>1, ProductGrows
<1>7. (c + (r + 1)) * q \in Nat /\ (c + p) * q \in Nat
  <2>1. c + (r + 1) \in Nat /\ c + p \in Nat
    BY EventAssumption
  <2> QED
    BY <2>1, ProductGrows
<1>8. made + 1 <= (c + p) * q
  BY <1>5, <1>6, <1>7
<1>9. made + 1 <= (a * (Repairs + 1)) * (Retries + 1)
  BY <1>1, <1>3, <1>8
<1> QED
  BY <1>1, <1>2, <1>5, <1>9

\* Going on with alias a, or giving up, after posts that the aliases before a may cost.
LEMMA GoesOnKeeps ==
    ASSUME NEW a \in Nat, node \in DOMAIN TaskOf, a = 0 \/ a \in 1 .. Len(RouteOf(node)),
           NEW made \in Nat,
           a # 0 => made <= ((a - 1) * (Repairs + 1)) * (Retries + 1), GoesOnWith(a)
    PROVE  CallInv(call', node', made)
<1>1. CASE a = 0
  BY <1>1, NoCallInv DEF GoesOnWith
<1>2. CASE a # 0
  <2> DEFINE x == [alias |-> a, repairs |-> 0, retries |-> 0]
  <2>1. call' = x /\ node' = node
    BY <1>2 DEF GoesOnWith
  <2>2. PICK c \in Nat : c = (a - 1) * (Repairs + 1)
    <3>1. a - 1 \in Nat /\ Repairs + 1 \in Nat
      BY <1>2, EventAssumption
    <3> QED
      BY <3>1, ProductGrows
  <2>3. PICK d \in Nat : d = c * (Retries + 1)
    <3>1. Retries + 1 \in Nat
      BY EventAssumption
    <3> QED
      BY <3>1, ProductGrows
  <2>4. (c + 0) * (Retries + 1) + 0 = d
    <3>1. c + 0 = c
      OBVIOUS
    <3> QED
      BY <2>3, <3>1
  <2>5. made <= ((a - 1) * (Repairs + 1) + 0) * (Retries + 1) + 0
    BY <1>2, <2>2, <2>3, <2>4
  <2>6. CallInv(x, node, made)
    BY <1>2, <2>5, EventAssumption DEF CallInv
  <2> QED
    BY <2>1, <2>6
<1> QED
  BY <1>1, <1>2

\* A post that fails the alias: the next one starts, or none is left.
LEMMA FallThroughKeeps ==
    ASSUME PostsInv, Calling, call.alias > 0, call # NoCall, Posted, UNCHANGED graphMode,
           GoesOnWith(FallThrough(call.alias))
    PROVE  PostsInv'
<1>1. PICK a \in Nat \ {0}, r \in 0 .. Repairs, t \in 0 .. Retries, m \in Nat :
         /\ a = call.alias /\ r = call.repairs /\ t = call.retries /\ m = posts
         /\ a \in 1 .. Len(RouteOf(node))
         /\ m <= ((a - 1) * (Repairs + 1) + r) * (Retries + 1) + t
  BY MostPostsIsMost, RouteFacts DEF PostsInv, CallInv
<1>2. node \in DOMAIN TaskOf
  BY DEF Calling
<1>3. m + 1 <= (a * (Repairs + 1)) * (Retries + 1)
  BY <1>1, ShareOfAlias
<1>4. PICK z \in Nat : z = posts'
  BY PostsType, MostPostsIsMost
<1>5. z <= m + 1 /\ posts' \in 0 .. MostPosts + 1
  BY <1>1, <1>4, PostsType
<1>6. PICK k \in Nat : k = (a * (Repairs + 1)) * (Retries + 1)
  <2>1. Repairs + 1 \in Nat /\ Retries + 1 \in Nat
    BY EventAssumption
  <2>2. a * (Repairs + 1) \in Nat
    BY <2>1, ProductGrows
  <2> QED
    BY <2>1, <2>2, ProductGrows
<1>7. z <= (a * (Repairs + 1)) * (Retries + 1)
  BY <1>3, <1>5, <1>6
<1>8. PICK b : b = NextAlias(a + 1)
  OBVIOUS
<1>9. b = 0 \/ (b \in 1 .. Len(RouteOf(node)) /\ b >= a + 1)
  <2>1. a + 1 \in Nat \ {0}
    BY <1>1
  <2> QED
    BY <1>2, <1>8, <2>1, AliasFacts
<1>10. b \in Nat /\ GoesOnWith(b)
  <2>1. GoesOnWith(b)
    BY <1>1, <1>8 DEF FallThrough
  <2> QED
    BY <1>2, <1>9, <2>1, RouteFacts
<1>11. b # 0 => z <= ((b - 1) * (Repairs + 1)) * (Retries + 1)
  <2> SUFFICES ASSUME b # 0 PROVE z <= ((b - 1) * (Repairs + 1)) * (Retries + 1)
    OBVIOUS
  <2>1. b - 1 \in Nat /\ b - 1 >= a
    BY <1>1, <1>9, <1>10
  <2> QED
    BY <1>7, <2>1, NextAliasCosts
<1>12. CallInv(call', node', z)
  BY <1>2, <1>9, <1>10, <1>11, GoesOnKeeps
<1> QED
  BY <1>4, <1>5, <1>12 DEF PostsInv, Calling

LEMMA CallKeepsPosts ==
    ASSUME PostsInv, CallMoves
    PROVE  PostsInv'
<1>0. graphMode' # "mock"
  BY DEF CallMoves, CallStarts, PostedInVain, PostRejected, AnswerInvalid, Calling, given
<1>1. node \in DOMAIN TaskOf
  BY DEF CallMoves, CallStarts, PostedInVain, PostRejected, AnswerInvalid, Calling
<1>2. CASE CallStarts
  <2>1. PICK b : b = NextAlias(1) /\ GoesOnWith(b)
    BY <1>2 DEF CallStarts
  <2>2. (b = 0 \/ b \in 1 .. Len(RouteOf(node))) /\ b \in Nat
    BY <1>1, <2>1, AliasFacts, RouteFacts
  <2>3. b # 0 => 0 <= ((b - 1) * (Repairs + 1)) * (Retries + 1)
    <3> SUFFICES ASSUME b # 0 PROVE 0 <= ((b - 1) * (Repairs + 1)) * (Retries + 1)
      OBVIOUS
    <3>1. b - 1 \in Nat /\ Repairs + 1 \in Nat /\ Retries + 1 \in Nat
      BY <2>2, EventAssumption
    <3>2. (b - 1) * (Repairs + 1) \in Nat
      BY <3>1, ProductGrows
    <3>3. ((b - 1) * (Repairs + 1)) * (Retries + 1) \in Nat
      BY <3>1, <3>2, ProductGrows
    <3> QED
      BY <3>3
  <2>4. CallInv(call', node', 0)
    BY <1>1, <2>1, <2>2, <2>3, GoesOnKeeps
  <2>5. posts' = 0 /\ 0 \in 0 .. MostPosts + 1
    BY <1>2, MostPostsIsMost DEF CallStarts
  <2> QED
    BY <1>0, <2>4, <2>5 DEF PostsInv
<1>3. ASSUME call # NoCall, Posted, NEW r \in 0 .. Repairs, NEW t \in 0 .. Retries, node' = node,
             call' = [call EXCEPT !.repairs = r, !.retries = t],
             \/ r = call.repairs /\ t = call.retries + 1
             \/ r = call.repairs + 1 /\ t = 0 /\ call.repairs < Repairs
      PROVE  PostsInv'
  <2>1. call \in [alias : Nat, repairs : 0 .. Repairs, retries : 0 .. Retries]
    BY DEF PostsInv, CallInv
  <2>2. PICK a \in Nat \ {0}, q \in 0 .. Repairs, u \in 0 .. Retries, m \in Nat :
           /\ a = call.alias /\ q = call.repairs /\ u = call.retries /\ m = posts
           /\ a \in 1 .. Len(RouteOf(node))
           /\ m <= ((a - 1) * (Repairs + 1) + q) * (Retries + 1) + u
    BY <1>1, <1>3, <2>1, MostPostsIsMost, RouteFacts DEF PostsInv, CallInv
  <2>9. /\ a \in Nat \ {0} /\ q \in Nat /\ r \in Nat
        /\ Repairs \in Nat /\ Retries \in Nat
    BY EventAssumption
  <2>3. PICK z \in Nat : z = posts' /\ z <= m + 1 /\ z \in 0 .. MostPosts + 1
    BY <1>3, <2>2, PostsType, MostPostsIsMost
  <2>4. z <= ((a - 1) * (Repairs + 1) + r) * (Retries + 1) + t
    <3>1. CASE r = q /\ t = u + 1
      <4>1. PICK k \in Nat : k = ((a - 1) * (Repairs + 1) + q) * (Retries + 1)
        <5>1. a - 1 \in Nat /\ Repairs + 1 \in Nat /\ Retries + 1 \in Nat /\ q \in Nat
          BY <2>9
        <5>2. (a - 1) * (Repairs + 1) \in Nat
          BY <5>1, ProductGrows
        <5>3. (a - 1) * (Repairs + 1) + q \in Nat
          BY <5>1, <5>2
        <5> QED
          BY <5>1, <5>3, ProductGrows
      <4>2. m <= k + u
        BY <2>2, <4>1
      <4>3. z <= k + t
        BY <2>3, <3>1, <4>2
      <4> QED
        BY <3>1, <4>1, <4>3
    <3>2. CASE r = q + 1 /\ t = 0 /\ q < Repairs
      <4>1. m + 1 <= ((a - 1) * (Repairs + 1) + r) * (Retries + 1)
        BY <2>2, <3>2, ShareOfAlias
      <4>2. PICK k \in Nat : k = ((a - 1) * (Repairs + 1) + r) * (Retries + 1)
        <5>1. a - 1 \in Nat /\ Repairs + 1 \in Nat /\ Retries + 1 \in Nat /\ r \in Nat
          BY <2>9
        <5>2. (a - 1) * (Repairs + 1) \in Nat
          BY <5>1, ProductGrows
        <5>3. (a - 1) * (Repairs + 1) + r \in Nat
          BY <5>1, <5>2
        <5> QED
          BY <5>1, <5>3, ProductGrows
      <4>3. z <= k + 0
        BY <2>3, <4>1, <4>2
      <4> QED
        BY <3>2, <4>2, <4>3
    <3> QED
      BY <1>3, <2>2, <3>1, <3>2
  <2>5. PICK y : y = call'
    OBVIOUS
  <2>6. /\ y \in [alias : Nat, repairs : 0 .. Repairs, retries : 0 .. Retries]
        /\ y.alias = a /\ y.repairs = r /\ y.retries = t
    BY <1>3, <2>1, <2>2, <2>5
  <2>7. CallInv(y, node, z)
    BY <1>1, <2>2, <2>4, <2>6 DEF CallInv
  <2> QED
    BY <1>0, <1>3, <2>3, <2>5, <2>7 DEF PostsInv
<1>4. ASSUME PostedInVain \/ PostRejected \/ AnswerInvalid
      PROVE  call.alias > 0 /\ call # NoCall /\ Posted /\ Calling
  BY <1>4 DEF PostedInVain, PostRejected, AnswerInvalid, NoCall
<1>5. call \in [alias : Nat, repairs : 0 .. Repairs, retries : 0 .. Retries]
  BY DEF PostsInv, CallInv
<1>6. CASE PostedInVain /\ RetriesLeft
  <2>1. call.repairs \in 0 .. Repairs /\ call.retries + 1 \in 0 .. Retries
    BY <1>5, <1>6, EventAssumption DEF RetriesLeft
  <2>2. call' = [call EXCEPT !.repairs = call.repairs, !.retries = call.retries + 1] /\ node' = node
    BY <1>5, <1>6 DEF PostedInVain
  <2> QED
    BY <1>3, <1>4, <1>6, <2>1, <2>2
<1>7. CASE AnswerInvalid /\ call.repairs < Repairs
  <2>1. call.repairs + 1 \in 0 .. Repairs /\ 0 \in 0 .. Retries
    BY <1>5, <1>7, EventAssumption
  <2>2. call' = [call EXCEPT !.repairs = call.repairs + 1, !.retries = 0] /\ node' = node
    BY <1>5, <1>7 DEF AnswerInvalid
  <2> QED
    BY <1>3, <1>4, <1>7, <2>1, <2>2
<1>8. CASE \/ PostedInVain /\ ~RetriesLeft
           \/ PostRejected
           \/ AnswerInvalid /\ ~(call.repairs < Repairs)
  BY <1>4, <1>8, FallThroughKeeps DEF PostedInVain, PostRejected, AnswerInvalid, given
<1> QED
  BY <1>2, <1>6, <1>7, <1>8 DEF CallMoves

\* A node that gives its answer, or makes no call, leaves none open.
LEMMA GraphMovesKeepPosts ==
    ASSUME PostsInv, GraphMoves
    PROVE  PostsInv'
<1>1. ASSUME NEW n, Answers(n) PROVE PostsInv'
  <2>1. call' = NoCall /\ posts' \in 0 .. MostPosts + 1
    BY <1>1, PostsType DEF Answers
  <2> QED
    BY <2>1, NoCallInv DEF PostsInv
<1>2. ASSUME ValidateEvent \/ DetectConflict \/ FinalizeEvent PROVE PostsInv'
  <2>1. UNCHANGED <<call, posts>> /\ node \notin DOMAIN TaskOf
    BY <1>2, RouteFacts DEF ValidateEvent, DetectConflict, FinalizeEvent
  <2>2. call = NoCall
    BY <2>1 DEF PostsInv, CallInv
  <2> QED
    BY <2>1, <2>2, NoCallInv DEF PostsInv
<1>3. CASE MockGraph
  <2>1. UNCHANGED <<graphMode, call, posts>> /\ call = NoCall
    BY <1>3 DEF MockGraph, given, PostsInv
  <2> QED
    BY <2>1, NoCallInv DEF PostsInv
<1> QED
  BY <1>1, <1>2, <1>3 DEF GraphMoves, ExtractAnswered, MappingAnswered, AssessmentAnswered,
                          ReviewAnswered

LEMMA InitPosts == EventInit => PostsInv
<1> SUFFICES ASSUME EventInit PROVE PostsInv
  OBVIOUS
<1>1. call = NoCall /\ posts = 0 /\ 0 \in 0 .. MostPosts + 1
  BY MostPostsIsMost DEF EventInit
<1> QED
  BY <1>1, NoCallInv DEF PostsInv

LEMMA PostsStep ==
    ASSUME PostsInv, [EventNext]_graphVars
    PROVE  PostsInv'
<1>1. CASE UNCHANGED graphVars
  BY <1>1 DEF graphVars, PostsInv
<1> QED
  BY <1>1, CallKeepsPosts, GraphMovesKeepPosts DEF EventNext

LEMMA PostsInvImplies == PostsInv => PostsBounded
<1> SUFFICES ASSUME PostsInv, call # NoCall PROVE posts < PostBound(node)
  BY DEF PostsBounded
<1>1. PICK a \in Nat \ {0}, r \in 0 .. Repairs, t \in 0 .. Retries, m \in Nat :
         /\ a = call.alias /\ r = call.repairs /\ t = call.retries /\ m = posts
         /\ a \in 1 .. Len(RouteOf(node)) /\ node \in DOMAIN TaskOf
         /\ m <= ((a - 1) * (Repairs + 1) + r) * (Retries + 1) + t
  BY MostPostsIsMost, RouteFacts DEF PostsInv, CallInv
<1>2. m + 1 <= (a * (Repairs + 1)) * (Retries + 1)
  BY <1>1, ShareOfAlias
<1>3. PICK l \in Nat : l = Len(RouteOf(node)) /\ a <= l
  BY <1>1, RouteFacts
<1>4. m + 1 <= (l * (Repairs + 1)) * (Retries + 1)
  BY <1>2, <1>3, NextAliasCosts
<1>5. m + 1 <= PostBound(node) /\ PostBound(node) \in Nat
  BY <1>1, <1>3, <1>4, PostBoundType DEF PostBound
<1> QED
  BY <1>1, <1>5

-----------------------------------------------------------------------------
(* The nodes whose calls were paid for, at every node of the graph.           *)

Reviewed == IF escalate THEN <<"expert_review">> ELSE <<>>
PaidAll == <<"extract", "map_factors", "assess">> \o Reviewed

Paid == IF ~detected THEN <<"extract">> ELSE IF mapping = {} THEN <<"extract", "map_factors">>
        ELSE PaidAll

CostInv ==
    graphMode # "mock" =>
        /\ node \in LLMNodes \cup {"ended", "exhausted"}
        /\ node = "extract" => called = <<>> /\ ~detected /\ mapping = {}
        /\ node = "map_factors" => called = <<"extract">> /\ detected /\ mapping = {}
        /\ node = "assess" => called = <<"extract", "map_factors">> /\ detected /\ mapping # {}
        /\ node \in {"validate", "conflict", "expert_review"} =>
              called = <<"extract", "map_factors", "assess">> /\ detected /\ mapping # {}
        /\ node \in {"extract", "map_factors", "assess", "validate", "conflict"} =>
              ~escalate /\ event = NoEvent
        /\ node = "expert_review" => escalate /\ Required /\ event = NoEvent
        /\ node = "finalize" => event = NoEvent
        /\ node \in {"finalize", "ended"} =>
              /\ called = Paid
              /\ detected /\ mapping # {} => (escalate <=> Required)
              /\ ~detected => mapping = {}
        /\ node = "ended" /\ event # NoEvent =>
              event.cites = called /\ detected /\ mapping # {}

LEMMA AppendSecond == ASSUME NEW a, NEW b PROVE Append(<<a>>, b) = <<a, b>>
<1> DEFINE s == Append(<<a>>, b)
<1>1. <<a, b>> \in Seq({a, b}) /\ s \in Seq({a, b})
  OBVIOUS
<1>2. Len(s) = 2 /\ s[1] = a /\ s[2] = b
  OBVIOUS
<1>3. Len(<<a, b>>) = 2 /\ <<a, b>>[1] = a /\ <<a, b>>[2] = b
  OBVIOUS
<1> HIDE DEF s
<1>4. \A i \in 1 .. Len(s) : s[i] = <<a, b>>[i]
  BY <1>2, <1>3
<1>5. s = <<a, b>>
  BY <1>1, <1>2, <1>3, <1>4, SeqEqual
<1> QED
  BY <1>5 DEF s

LEMMA AppendThird == ASSUME NEW a, NEW b, NEW c PROVE Append(<<a, b>>, c) = <<a, b, c>>
<1> DEFINE s == Append(<<a, b>>, c)
<1>1. <<a, b, c>> \in Seq({a, b, c}) /\ s \in Seq({a, b, c})
  OBVIOUS
<1>2. Len(s) = 3 /\ s[1] = a /\ s[2] = b /\ s[3] = c
  OBVIOUS
<1>3. /\ Len(<<a, b, c>>) = 3 /\ <<a, b, c>>[1] = a /\ <<a, b, c>>[2] = b
      /\ <<a, b, c>>[3] = c
  OBVIOUS
<1> HIDE DEF s
<1>4. \A i \in 1 .. Len(s) : s[i] = <<a, b, c>>[i]
  BY <1>2, <1>3
<1>5. s = <<a, b, c>>
  BY <1>1, <1>2, <1>3, <1>4, SeqEqual
<1> QED
  BY <1>5 DEF s

LEMMA AppendFourth ==
    ASSUME NEW a, NEW b, NEW c, NEW d
    PROVE  Append(<<a, b, c>>, d) = <<a, b, c>> \o <<d>>
  OBVIOUS

LEMMA AppendNothing == ASSUME NEW a, NEW b, NEW c PROVE <<a, b, c>> \o <<>> = <<a, b, c>>
  OBVIOUS

LEMMA Appended ==
    /\ Append(<<>>, "extract") = <<"extract">>
    /\ Append(<<"extract">>, "map_factors") = <<"extract", "map_factors">>
    /\ Append(<<"extract", "map_factors">>, "assess") = <<"extract", "map_factors", "assess">>
    /\ Append(<<"extract", "map_factors", "assess">>, "expert_review")
          = <<"extract", "map_factors", "assess">> \o <<"expert_review">>
    /\ <<"extract", "map_factors", "assess">> \o <<>> = <<"extract", "map_factors", "assess">>
<1>1. Append(<<>>, "extract") = <<"extract">>
  OBVIOUS
<1>2. Append(<<"extract">>, "map_factors") = <<"extract", "map_factors">>
  BY AppendSecond
<1>3. Append(<<"extract", "map_factors">>, "assess") = <<"extract", "map_factors", "assess">>
  BY AppendThird
<1>4. Append(<<"extract", "map_factors", "assess">>, "expert_review")
        = <<"extract", "map_factors", "assess">> \o <<"expert_review">>
  BY AppendFourth
<1>5. <<"extract", "map_factors", "assess">> \o <<>> = <<"extract", "map_factors", "assess">>
  BY AppendNothing
<1> QED
  BY <1>1, <1>2, <1>3, <1>4, <1>5, Zenon

LEMMA InitCost == EventInit => CostInv
  BY DEF EventInit, CostInv, LLMNodes

LEMMA CallKeepsCost ==
    ASSUME CostInv, CallMoves
    PROVE  CostInv'
<1>1. /\ UNCHANGED <<graphMode, cluster, called, answered>> /\ Calling /\ node' \in {node, "exhausted"}
  BY DEF CallMoves, CallStarts, PostedInVain, PostRejected, AnswerInvalid, GoesOnWith, given
<1>2. node \in {"extract", "map_factors", "assess", "expert_review"}
  BY <1>1 DEF Calling, TaskOf
<1> QED
  BY <1>1, <1>2 DEF CostInv, answered, Required, LLMNodes

LEMMA AnswersKeepCost ==
    ASSUME CostInv, ExtractAnswered \/ MappingAnswered \/ AssessmentAnswered \/ ReviewAnswered
    PROVE  CostInv'
<1>1. CASE ExtractAnswered
  <2>1. called' = <<"extract">>
    BY <1>1, Appended DEF CostInv, ExtractAnswered, Answers, Executions, Calling
  <2> QED
    BY <1>1, <2>1 DEF CostInv, ExtractAnswered, Answers, Calling, given, Leaves, Edge, DirectStep,
                      RouteAfterExtract, LLMNodes, Paid
<1>2. CASE MappingAnswered
  <2>1. called' = <<"extract", "map_factors">>
    BY <1>2, Appended DEF CostInv, MappingAnswered, Answers, Executions, Calling
  <2> QED
    BY <1>2, <2>1 DEF CostInv, MappingAnswered, Answers, Calling, given, Leaves, Edge, DirectStep,
                      RouteAfterExtract, RouteAfterMapping, LLMNodes, Paid
<1>3. CASE AssessmentAnswered
  <2>1. called' = <<"extract", "map_factors", "assess">>
    BY <1>3, Appended DEF CostInv, AssessmentAnswered, Answers, Executions, Calling
  <2> QED
    BY <1>3, <2>1 DEF CostInv, AssessmentAnswered, Answers, Calling, given, Leaves, Edge,
                      DirectStep, LLMNodes
<1>4. CASE ReviewAnswered
  <2>1. called' = <<"extract", "map_factors", "assess">> \o <<"expert_review">>
    BY <1>4, Appended DEF CostInv, ReviewAnswered, Answers, Executions, Calling
  <2>2. called' = Paid' /\ detected /\ mapping # {} /\ escalate /\ Required /\ event = NoEvent
    BY <1>4, <2>1 DEF CostInv, ReviewAnswered, Answers, Calling, given, Paid, PaidAll, Reviewed
  <2>3. node' = "finalize" /\ UNCHANGED <<given, errors, detected, mapping, strength, escalate, event>>
    BY <1>4 DEF ReviewAnswered, Answers, Leaves, Edge, DirectStep
  <2> QED
    BY <1>4, <2>2, <2>3 DEF CostInv, given, Required, LLMNodes
<1> QED
  BY <1>1, <1>2, <1>3, <1>4

LEMMA RulesKeepCost ==
    ASSUME CostInv, ValidateEvent \/ DetectConflict
    PROVE  CostInv'
<1>1. CASE ValidateEvent
  BY <1>1 DEF CostInv, ValidateEvent, given, Leaves, Edge, DirectStep, LLMNodes
<1>2. CASE DetectConflict
  <2>1. /\ called = <<"extract", "map_factors", "assess">> /\ detected /\ mapping # {}
        /\ event = NoEvent /\ escalate' = Required
        /\ UNCHANGED <<given, called, errors, detected, mapping, strength, event>>
        /\ node' = IF escalate' THEN "expert_review" ELSE "finalize"
    BY <1>2 DEF CostInv, DetectConflict, Leaves, Edge, DirectStep, RouteAfterConflict
  <2>2. ~escalate' => called' = Paid'
    BY <2>1, Appended DEF Paid, PaidAll, Reviewed
  <2> QED
    BY <2>1, <2>2 DEF CostInv, given, Required, LLMNodes
<1> QED
  BY <1>1, <1>2

LEMMA FinalizeKeepsCost ==
    ASSUME CostInv, FinalizeEvent
    PROVE  CostInv'
<1>1. /\ graphMode # "mock" /\ node = "finalize" /\ node' = "ended"
      /\ UNCHANGED <<given, called, errors, detected, mapping, strength, escalate, Paid, Required>>
  BY DEF FinalizeEvent, Paid, PaidAll, Reviewed, Required, given
<1>2. event' # NoEvent => event'.cites = called /\ detected /\ mapping # {}
  BY DEF FinalizeEvent
<1> QED
  BY <1>1, <1>2 DEF CostInv, LLMNodes

LEMMA CostStep ==
    ASSUME CostInv, [EventNext]_graphVars
    PROVE  CostInv'
<1>1. CASE MockGraph
  BY <1>1 DEF MockGraph, given, CostInv
<1>2. CASE UNCHANGED graphVars
  BY <1>2 DEF graphVars, CostInv, Paid, PaidAll, Reviewed, Required
<1> QED
  BY <1>1, <1>2, CallKeepsCost, AnswersKeepCost, RulesKeepCost, FinalizeKeepsCost
     DEF EventNext, GraphMoves

LEMMA PaidLength ==
    Len(Paid) = IF ~detected THEN 1 ELSE IF mapping = {} THEN 2 ELSE IF escalate THEN 4 ELSE 3
  BY DEF Paid, PaidAll, Reviewed

LEMMA CostInvImplies ==
    ASSUME CostInv, PostsInv
    PROVE  CostContract
<1>1. PostsBounded
  BY PostsInvImplies
<1>2. ASSUME node = "ended", graphMode # "mock"
      PROVE  Len(called) = IF ~detected THEN 1 ELSE IF mapping = {} THEN 2
                           ELSE IF Required THEN 4 ELSE 3
  BY <1>2, PaidLength DEF CostInv
<1>3. ASSUME node = "ended", graphMode # "mock", event # NoEvent
      PROVE  event.cites = <<"extract", "map_factors", "assess">>
                           \o (IF escalate THEN <<"expert_review">> ELSE <<>>)
  BY <1>3 DEF CostInv, Paid, PaidAll, Reviewed
<1> QED
  BY <1>1, <1>2, <1>3 DEF CostContract, Required, ExpertReviewMinStrength

LEMMA EventInvariant == EventSpec => [](PostsInv /\ CostInv)
<1>1. EventInit => PostsInv /\ CostInv
  BY InitPosts, InitCost
<1>2. PostsInv /\ CostInv /\ [EventNext]_graphVars => PostsInv' /\ CostInv'
  BY PostsStep, CostStep
<1> QED
  BY <1>1, <1>2, PTL DEF EventSpec

\* For any aliases, routes, credentials, repairs, retries and answers, in both engines: what a
\* cluster costs follows from the event graph's edges alone (one call where it is no event,
\* two without a factor, a fourth for a contested one only), no structured call posts more
\* often than aliases, repairs and retries multiply to, and an event cites the calls that
\* were paid for it, in their order.
THEOREM CallsAreCounted == EventSpec => []CostContract
<1>1. PostsInv /\ CostInv => CostContract
  BY CostInvImplies
<1> QED
  BY <1>1, EventInvariant, PTL

-----------------------------------------------------------------------------
(* The types of the parts.                                                    *)

TraceTypes ==
    /\ events \in 0 .. MaxEvents /\ runStatus \in TerminalStatuses \cup {"RUNNING"}
    /\ attempt \in [number : 1 .. MaxAttempts,
                    step : {"locking", "working", "last", "failing", "over"}]

LEMMA InitTraceTypes == TraceInit => TraceTypes
  BY TraceAssumption DEF TraceInit, TraceTypes

LEMMA TraceTypesStep ==
    ASSUME TraceTypes, [TraceNext]_traceVars
    PROVE  TraceTypes'
<1> USE TraceAssumption DEF TraceTypes, TerminalStatuses
<1>1. ASSUME Emit PROVE events' \in 0 .. MaxEvents
  BY <1>1 DEF Emit
<1>2. CASE Refused \/ Started \/ Progress \/ Completed
  BY <1>1, <1>2 DEF Refused, Started, Progress, Completed, Goto
<1>3. CASE LastEvent \/ FailedEvent \/ FailedStatus
  BY <1>1, <1>3 DEF LastEvent, FailedEvent, FailedStatus, Goto
<1>4. CASE RetryAttempt \/ RunnerDies
  BY <1>4 DEF RetryAttempt, RunnerDies
<1>5. CASE UNCHANGED <<events, runStatus, attempt>>
  BY <1>5
<1> QED
  BY <1>2, <1>3, <1>4, <1>5 DEF TraceNext, RunStep, StreamStep, Connect, PollEvents, SendPage,
                                PollStatus, Disconnect, traceVars

LEMMA NarrowSequence ==
    ASSUME NEW S, NEW T, NEW s \in Seq(S), \A i \in 1 .. Len(s) : s[i] \in T
    PROVE  s \in Seq(T)
<1>1. Len(s) \in Nat /\ s = [i \in 1 .. Len(s) |-> s[i]]
  OBVIOUS
<1>2. [i \in 1 .. Len(s) |-> s[i]] \in [1 .. Len(s) -> T]
  OBVIOUS
<1>3. s \in [1 .. Len(s) -> T]
  BY <1>1, <1>2
<1> QED
  BY <1>1, <1>3, SeqDef

LEMMA TraceTypesImply ==
    ASSUME TraceInv, TraceTypes
    PROVE  TraceTypeOK
<1>1. /\ stream.sent \in Seq(Nat) /\ Len(stream.sent) = stream.cursor /\ stream.cursor \in 0 .. MaxEvents
      /\ \A i \in 1 .. Len(stream.sent) : stream.sent[i] = i
  BY TraceAssumption DEF TraceInv, Streams, TraceTypes
<1>2. stream.sent \in Seq(1 .. MaxEvents)
  <2>1. \A i \in 1 .. Len(stream.sent) : stream.sent[i] \in 1 .. MaxEvents
    BY <1>1, TraceAssumption
  <2> QED
    BY <1>1, <2>1, NarrowSequence
<1> QED
  BY <1>1, <1>2 DEF TraceTypes, TraceTypeOK, TraceInv, Streams

ResearchTypes ==
    /\ submission \in {"none", "dispatched", "answered"}
    /\ worker \in [attempt : 0 .. ResearchAttempts, step : WorkerSteps, found : BOOLEAN]
    /\ request \in RequestStatuses \cup {NoRow} /\ evidence \subseteq Attempts

LEMMA InitResearchTypes == ResearchInit => ResearchTypes
  BY ResearchAssumption DEF ResearchInit, ResearchTypes, WorkerSteps

LEMMA ResearchTypesStep ==
    ASSUME ResearchInv, ResearchTypes, [ResearchNext]_researchVars
    PROVE  ResearchTypes'
<1>0. 1 \in 0 .. ResearchAttempts /\ ResearchAttempts \in 0 .. ResearchAttempts
  BY ResearchAssumption
<1> USE ResearchAssumption DEF ResearchTypes, RequestStatuses, WorkerSteps, Attempts
<1>1. CASE Dispatch \/ WritePending \/ RunDirectly
  BY <1>0, <1>1 DEF Dispatch, WritePending, RunDirectly, CreateRequest
<1>2. CASE BeginResearch \/ Search \/ Synthesize \/ SaveCandidate \/ FinishResearch \/ WorkerDies
  BY <1>2 DEF BeginResearch, Search, SearchOutcomes, Synthesize, SaveCandidate, FinishResearch,
              WorkerDies, Working, Proceed, CreateRequest, UpdateRequest, ResearchInv
<1>3. CASE SaveEvidence
  BY <1>3 DEF SaveEvidence, Working, Proceed, ResearchInv
<1>4. CASE ResearchFails
  <2>1. request' \in RequestStatuses \cup {NoRow} /\ evidence' = evidence /\ submission' = submission
    BY <1>4 DEF ResearchFails, UpdateRequest
  <2>2. worker' \in [attempt : 0 .. ResearchAttempts, step : WorkerSteps, found : BOOLEAN]
    <3>1. CASE worker.attempt < ResearchAttempts
      <4>1. worker.attempt + 1 \in 0 .. ResearchAttempts
        <5>1. worker.attempt \in 0 .. ResearchAttempts
          OBVIOUS
        <5>2. PICK n \in Nat : n = ResearchAttempts
          OBVIOUS
        <5> QED
          BY ONLY <3>1, <5>1, <5>2
      <4>2. worker' = [attempt |-> worker.attempt + 1, step |-> "begin", found |-> FALSE]
        BY <1>4, <3>1 DEF ResearchFails
      <4> QED
        BY <4>1, <4>2
    <3>2. CASE ~(worker.attempt < ResearchAttempts)
      BY <1>4, <3>2 DEF ResearchFails
    <3> QED
      BY <3>1, <3>2
  <2> QED
    BY <2>1, <2>2
<1>5. CASE UNCHANGED <<submission, worker, request, evidence>>
  BY <1>5
<1> QED
  BY <1>1, <1>2, <1>3, <1>4, <1>5 DEF ResearchNext, Review, researchVars

LEMMA ResearchTypesImply ==
    ASSUME ResearchInv, ResearchTypes
    PROVE  ResearchTypeOK
  BY DEF ResearchInv, ResearchTypes, ResearchTypeOK

FlowTypes ==
    /\ tries \in 0 .. CalcRetries /\ stored \subseteq Keys /\ news \in NewsStatuses \cup {"none"}
    /\ merged \in [events : SUBSET (1 .. MaxClusters), complete : BOOLEAN,
                   warned : SUBSET (1 .. MaxClusters)]
    /\ prepared \in [available : BOOLEAN, events : SUBSET (1 .. MaxClusters),
                     warned : SUBSET (1 .. MaxClusters), given : BOOLEAN]

LEMMA InitFlowTypes == FlowInit => FlowTypes
  BY FlowAssumption DEF FlowInit, FlowTypes, NoPrepared

LEMMA FlowTypesStep ==
    ASSUME FlowInv, FlowTypes, [FlowNext]_flowVars
    PROVE  FlowTypes'
<1> USE DEF FlowTypes
<1>1. CASE UNCHANGED <<tries, stored, news, merged, prepared>>
  BY <1>1
<1>2. ASSUME NEW k \in Keys, CollectEnds(k) PROVE FlowTypes'
  BY <1>2 DEF CollectEnds
<1>3. CASE NewsEnds
  BY <1>3 DEF NewsEnds
<1>4. CASE CalculateEnds
  BY <1>4, FlowAssumption DEF CalculateEnds
<1>5. CASE DeduplicateEnds
  <2>1. clusters \in 0 .. MaxClusters /\ succeeded \subseteq 1 .. MaxClusters
    BY DEF FlowInv, ClustersInv
  <2>2. 1 .. clusters \subseteq 1 .. MaxClusters
    BY <2>1, FlowAssumption
  <2>3. Merge(1 .. clusters, succeeded)
          \in [events : SUBSET (1 .. MaxClusters), complete : BOOLEAN, warned : SUBSET (1 .. MaxClusters)]
    BY <2>1, <2>2 DEF Merge
  <2> QED
    BY <1>5, <2>3 DEF DeduplicateEnds
<1>6. CASE FlowHandsOver
  <2>1. EventSourceAvailable \in BOOLEAN
    BY DEF EventSourceAvailable
  <2> QED
    BY <1>6, <2>1 DEF FlowHandsOver
<1> QED
  BY <1>1, <1>2, <1>3, <1>4, <1>5, <1>6
     DEF FlowNext, FlowMoves, TaskEnds, TaskStarts, FlowStarts, FlowWaited, FlowHasNews,
         FlowHasClusters, FlowHasEvents, FlowHasMerged, FlowHasInputs, FlowHasStates,
         FlowHasScores, FlowHasExplanations, Awaits, ClusterEnds, EventEnds, StageEnds, flowVars

LEMMA FlowTypesImply ==
    ASSUME FlowInv, FlowTypes
    PROVE  FlowTypeOK
  BY DEF FlowInv, TasksInv, ClustersInv, DataInv, FlowTypes, FlowTypeOK

EventTypes ==
    /\ graphMode \in {"mock", "direct", "langgraph"} /\ keyed \in Configured
    /\ cluster \in [tiers : TierSets, rumor : BOOLEAN]
    /\ node \in LLMNodes \cup {"ended", "exhausted"} /\ called \in Seq(DOMAIN TaskOf)
    /\ errors \subseteq Flags /\ detected \in BOOLEAN /\ mapping \subseteq Factors
    /\ strength \in Strengths \cup {0} /\ implemented \in BOOLEAN /\ escalate \in BOOLEAN
    /\ review \in [approved : BOOLEAN, factors : SUBSET Factors, strength : Strengths \cup {0}]
    /\ event.factors \subseteq Factors /\ event.strength \in Strengths \cup {0}
    /\ event.verification \in {"none", "VERIFIED", "PARTIALLY_VERIFIED", "UNVERIFIED"}

LEMMA InitEventTypes == EventInit => EventTypes
<1> SUFFICES ASSUME EventInit PROVE EventTypes
  OBVIOUS
<1>1. NoReview \in [approved : BOOLEAN, factors : SUBSET Factors, strength : Strengths \cup {0}]
  BY DEF NoReview
<1>2. NoEvent.factors = {} /\ NoEvent.strength = 0 /\ NoEvent.verification = "none"
  BY DEF NoEvent
<1>3. called \in Seq(DOMAIN TaskOf)
  BY DEF EventInit
<1> QED
  BY <1>1, <1>2, <1>3 DEF EventInit, EventTypes, LLMNodes

LEMMA EventTypesStep ==
    ASSUME EventTypes, [EventNext]_graphVars
    PROVE  EventTypes'
<1> USE DEF EventTypes, given, answered
<1>1. CASE CallMoves
  BY <1>1 DEF CallMoves, CallStarts, PostedInVain, PostRejected, AnswerInvalid, GoesOnWith
<1>2. ASSUME NEW n, Answers(n)
      PROVE  called' \in Seq(DOMAIN TaskOf) /\ UNCHANGED given
  BY <1>2, AppendProperties DEF Answers, Executions, Calling
<1>3. CASE ExtractAnswered
  BY <1>2, <1>3 DEF ExtractAnswered, Leaves, Edge, DirectStep, RouteAfterExtract, LLMNodes
<1>4. CASE MappingAnswered
  BY <1>2, <1>4 DEF MappingAnswered, Leaves, Edge, DirectStep, RouteAfterMapping, LLMNodes
<1>5. CASE AssessmentAnswered
  BY <1>2, <1>5 DEF AssessmentAnswered, Leaves, Edge, DirectStep, LLMNodes
<1>6. CASE ReviewAnswered
  BY <1>2, <1>6 DEF ReviewAnswered, Leaves, Edge, DirectStep, LLMNodes
<1>7. CASE ValidateEvent
  BY <1>7 DEF ValidateEvent, Leaves, Edge, DirectStep, LLMNodes, Flags
<1>8. CASE DetectConflict
  BY <1>8 DEF DetectConflict, Required, Leaves, Edge, DirectStep, RouteAfterConflict, LLMNodes
<1>9. CASE FinalizeEvent
  BY <1>9 DEF FinalizeEvent, NoEvent, Verification
<1>10. CASE MockGraph
  BY <1>10, EventAssumption DEF MockGraph
<1>11. CASE UNCHANGED graphVars
  BY <1>11 DEF graphVars
<1> QED
  BY <1>1, <1>3, <1>4, <1>5, <1>6, <1>7, <1>8, <1>9, <1>10, <1>11 DEF EventNext, GraphMoves

LEMMA EventTypesImply ==
    ASSUME EventTypes, PostsInv
    PROVE  EventTypeOK
<1>1. call.repairs \in 0 .. Repairs /\ call.retries \in 0 .. Retries
      /\ (call = NoCall \/ (node \in DOMAIN TaskOf /\ call.alias \in 1 .. Len(RouteOf(node))))
  BY DEF PostsInv, CallInv
<1>2. posts \in 0 .. MostPosts + 1
  BY DEF PostsInv
<1> QED
  BY <1>1, <1>2 DEF EventTypes, EventTypeOK, Flags

-----------------------------------------------------------------------------
(* The composition.                                                           *)

PartsInv ==
    /\ part \in Parts
    /\ ConfigInv
    /\ TraceInv /\ TraceTypes
    /\ ResearchInv /\ ResearchTypes
    /\ FlowInv /\ FlowTypes
    /\ GraphInv /\ PostsInv /\ CostInv /\ EventTypes
    /\ LockInv

LEMMA PartsStep ==
    ASSUME PartsInv, [CoordinationNext]_coordinationVars
    PROVE  PartsInv'
<1>1. /\ [ConfigNext]_configVars /\ [TraceNext]_traceVars /\ [ResearchNext]_researchVars
      /\ [FlowNext]_flowVars /\ [EventNext]_graphVars /\ [LockNext]_lockVars /\ part' = part
  BY DEF CoordinationNext, Alone, coordinationVars, besideConfig, besideTrace, besideResearch,
         besideFlow, besideEvents, besideLock
<1>2. ConfigInv' /\ TraceInv' /\ TraceTypes'
  BY <1>1, ConfigStep, TraceStep, TraceTypesStep DEF PartsInv
<1>3. ResearchInv' /\ ResearchTypes' /\ FlowInv' /\ FlowTypes'
  BY <1>1, ResearchStep, ResearchTypesStep, FlowStep, FlowTypesStep DEF PartsInv
<1>4. GraphInv' /\ PostsInv' /\ CostInv' /\ EventTypes'
  BY <1>1, GraphStep, PostsStep, CostStep, EventTypesStep DEF PartsInv
<1>5. LockInv'
  BY <1>1, LockStep DEF PartsInv
<1> QED
  BY <1>1, <1>2, <1>3, <1>4, <1>5 DEF PartsInv

LEMMA PartsInvariant == CoordinationSpec => []PartsInv
<1>1. CoordinationInit => PartsInv
  BY InitConfig, InitTrace, InitTraceTypes, InitResearch, InitResearchTypes, InitFlow,
     InitFlowTypes, InitGraph, InitPosts, InitCost, InitEventTypes,
     InitLock
     DEF CoordinationInit, PartsInv
<1>2. PartsInv /\ [CoordinationNext]_coordinationVars => PartsInv'
  BY PartsStep
<1> QED
  BY <1>1, <1>2, PTL DEF CoordinationSpec

\* Every variable of the six parts keeps its type, for every value of their constants.
THEOREM PartsWellTyped == CoordinationSpec => []PartsTypeOK
<1>1. PartsInv => PartsTypeOK
  BY ConfigInvTypes, TraceTypesImply, ResearchTypesImply, FlowTypesImply, EventTypesImply
     DEF PartsInv, PartsTypeOK, LockInv
<1> QED
  BY <1>1, PartsInvariant, PTL

\* In the composition, whatever the constants of its parts: the ACTIVE bundle is sound and,
\* where it is read strictly, shared by all stages of a run; the stream drains, reviews are
\* backed, the flow hands over all it has, clusters cost what the contract says, contested
\* events are reviewed, and live leases of the run lock exclude one another.
THEOREM PartsKeepPromises ==
    CoordinationSpec => [](/\ ActiveBundleSound /\ (Strict => StagesShareBundle)
                           /\ DoneAfterDrain /\ ReviewableIsBacked
                           /\ PreparedIsWhole /\ CostContract /\ ContestedIsReviewed
                           /\ Exclusive /\ HeldIsStored)
<1>1. PartsInv => ActiveBundleSound /\ (Strict => StagesShareBundle)
  BY DEF PartsInv, ConfigInv, RunInv, StagesShareBundle
<1>2. PartsInv => DoneAfterDrain /\ ReviewableIsBacked /\ PreparedIsWhole
  BY TraceInvImplies, FlowInvImplies
     DEF PartsInv, ResearchInv, StatusesAreReviewed, ReviewableIsBacked
<1>3. PartsInv => CostContract /\ ContestedIsReviewed
  BY GraphInvImplies, CostInvImplies DEF PartsInv
<1>4. PartsInv => Exclusive /\ HeldIsStored
  BY LockInvExcludes DEF PartsInv, LockInv
<1> QED
  BY <1>1, <1>2, <1>3, <1>4, PartsInvariant, PTL
=============================================================================
