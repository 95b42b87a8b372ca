----------------------------- MODULE DataPathProofs -----------------------------
(*****************************************************************************)
(* What the parts on the way of the data promise, for every value of their     *)
(* constants: the indicator store, the earnings snapshots and the bridge's     *)
(* client, and the composition that lets one part move.                        *)
(*****************************************************************************)
EXTENDS DataPath, ComputationsProofs

-----------------------------------------------------------------------------
(* The indicator store.                                                      *)

\* A vintage that was offered of a date without crossing is the last one, to one who reads
\* as of its release: there is a row with its value, and none between the two.
Represented(v) ==
    \E r \in rows :
        /\ r.date = v.date /\ r.value = v.value /\ r.release <= v.release
        /\ \A q \in rows : q.date = v.date /\ q.release <= v.release => q.release <= r.release

TableInv ==
    /\ rows \subseteq offered
    /\ \A r, q \in rows : r.date = q.date /\ r.release = q.release => r = q
    /\ \A v, w \in offered :
          v.date = w.date /\ v.release = w.release /\ v.date \notin crossed => v = w
    /\ \A v \in offered : v.date \notin crossed => Represented(v)

\* What a collection found at its start is stored, by then, in vs.
StillStored(x, vs) ==
    \A e \in x.existing : \E r \in vs : r.date = e.date /\ r.release <= x.asOf

OnePerDate(vs) == \A v, w \in vs : v.date = w.date => v = w

Kept(x) ==
    \A e \in x.existing :
        \/ \E h \in x.history : h.date = e.date
        \/ Cardinality(x.history) = HistoryLimit

CollectionInv(x, vs) ==
    /\ x.step \in {"idle", "fetch", "compare", "commit", "reread", "done"}
    /\ x.step \in {"fetch", "compare", "commit", "reread"} =>
          x.asOf \in 0 .. MaxTime /\ StillStored(x, vs)
    /\ x.step \in {"compare", "commit"} => x.batch \subseteq Vintages /\ OnePerDate(x.batch)
    /\ x.step = "commit" =>
          x.inserts = {v \in x.batch : ~\E r \in x.latest[v.date] : r.value = v.value}
    /\ x.step = "done" => (x.conflict \/ Kept(x))

StoreInv ==
    /\ StoreTypeOK /\ TableInv
    /\ collector = [c \in Collectors |-> collector[c]]
    /\ \A c \in Collectors : CollectionInv(collector[c], rows)

-----------------------------------------------------------------------------
(* What is read.                                                             *)

\* Of the vintages of a date there is one released last by a time.
LEMMA LastExists ==
    ASSUME NEW vs, vs \subseteq Vintages, NEW t \in 0 .. MaxTime,
           NEW r \in vs, r.release <= t
    PROVE  \E q \in LastReleased(vs, t) : q.date = r.date
<1> DEFINE D == {q \in vs : q.date = r.date /\ q.release <= t}
           N == {q.release : q \in D}
<1>1. \A q \in vs : q.release \in 0 .. MaxTime
  BY DEF Vintages
<1>2. N \subseteq Nat /\ N # {} /\ t \in Nat /\ \A n \in N : n <= t
  <2>1. r \in D
    OBVIOUS
  <2> QED
    BY <1>1, <2>1, StoreAssumption
<1>3. PICK n \in N : \A m \in N : m <= n
  <2> HIDE DEF N
  <2> QED
    BY <1>2, BoundedHasMax
<1>4. PICK q \in D : q.release = n
  BY <1>3
<1>5. q \in LastReleased(vs, t)
  BY <1>3, <1>4 DEF LastReleased
<1> QED
  BY <1>4, <1>5

LEMMA LastUnique ==
    ASSUME NEW vs, vs \subseteq Vintages, NEW t,
           \A r, q \in vs : r.date = q.date /\ r.release = q.release => r = q
    PROVE  \A r, q \in LastReleased(vs, t) : r.date = q.date => r = q
<1>1. \A r \in vs : r.release \in Nat
  BY StoreAssumption DEF Vintages
<1> QED
  BY <1>1 DEF LastReleased

\* The rows are few: one per date.
LEMMA LastFinite ==
    ASSUME NEW vs, vs \subseteq Vintages, \A r, q \in vs : r.date = q.date => r = q
    PROVE  IsFiniteSet(vs)
<1> DEFINE f == [r \in vs |-> r.date]
<1>1. \A r \in vs : r.date \in ObsDates
  BY DEF Vintages
<1>2. f \in Injection(vs, ObsDates)
  BY <1>1 DEF Injection, IsInjective
<1> HIDE DEF f
<1> QED
  BY <1>2, StoreAssumption, FS_Injection

\* The limit takes as many dates as it allows, if there are so many.
LEMMA NewestFull ==
    ASSUME NEW vs, vs \subseteq Vintages, IsFiniteSet(vs),
           \A r, q \in vs : r.date = q.date => r = q
    PROVE  \A us \in SUBSET vs :
               Cardinality(us) >= HistoryLimit => Cardinality(Newest(us)) = HistoryLimit
<1> DEFINE later(us, r) == {q \in us : q.date > r.date}
           full(us) == Cardinality(us) >= HistoryLimit => Cardinality(Newest(us)) = HistoryLimit
           Good == {us \in SUBSET vs : full(us)}
<1>0. HistoryLimit \in Nat /\ HistoryLimit > 0
  BY StoreAssumption
<1>1. \A us \in SUBSET vs : IsFiniteSet(us) /\ Cardinality(us) \in Nat
  BY FS_Subset, FS_CardinalityType
<1>2. \A r \in vs : r.date \in Nat
  BY StoreAssumption DEF Vintages
<1>3. ASSUME NEW us \in SUBSET vs, \A ts \in SUBSET us : ts # us => ts \in Good,
             Cardinality(us) >= HistoryLimit
      PROVE  Cardinality(Newest(us)) = HistoryLimit
  <2> DEFINE N == {r.date : r \in us}
  <2>1. us # {}
    <3>1. ASSUME us = {} PROVE FALSE
      <4>1. Cardinality(us) = 0
        BY <3>1, FS_EmptySet
      <4> QED
        BY <1>0, <1>3, <4>1
    <3> QED
      BY <3>1
  <2>2. N \subseteq Nat /\ N # {}
    BY <1>2, <2>1
  <2>3. PICK n \in N : \A m \in N : n <= m
    <3> HIDE DEF N
    <3> QED
      BY <2>2, NatHasMin
  <2>4. PICK r \in us : r.date = n
    BY <2>3
  <2> DEFINE ts == us \ {r}
  <2>5. ts \in SUBSET us /\ ts # us /\ ts \in SUBSET vs
    BY <2>4
  <2>6. Cardinality(us) = Cardinality(ts) + 1
    <3>1. Cardinality(ts) = Cardinality(us) - 1
      BY <1>1, <2>4, FS_RemoveElement
    <3> QED
      BY <1>1, <2>5, <3>1
  <2>7. \A q \in ts : r.date < q.date
    <3>1. \A q \in ts : r.date <= q.date /\ q.date # r.date
      BY <2>3, <2>4
    <3> QED
      BY <1>2, <2>4, <3>1
  <2>8. \A q \in ts : later(us, q) = later(ts, q)
    BY <1>2, <2>7
  <2>9. later(us, r) = ts
    BY <1>2, <2>7
  <2>10. CASE Cardinality(ts) >= HistoryLimit
    <3>1. Cardinality(Newest(ts)) = HistoryLimit
      BY <1>3, <2>5, <2>10
    <3>2. r \notin Newest(us)
      <4>1. Cardinality(ts) \in Nat
        BY <1>1, <2>5
      <4>2. ~(Cardinality(later(us, r)) < HistoryLimit)
        BY <1>0, <2>9, <2>10, <4>1
      <4> QED
        BY <4>2 DEF Newest
    <3>3. Newest(us) = Newest(ts)
      BY <2>4, <2>8, <3>2 DEF Newest
    <3> QED
      BY <3>1, <3>3
  <2>11. CASE ~(Cardinality(ts) >= HistoryLimit)
    <3>1. Cardinality(us) = HistoryLimit
      BY <1>0, <1>1, <1>3, <2>5, <2>6, <2>11
    <3>2. ASSUME NEW q \in us PROVE Cardinality(later(us, q)) < HistoryLimit
      <4>1. later(us, q) \in SUBSET (us \ {q}) /\ us \ {q} \in SUBSET vs
        BY <1>2
      <4>2. Cardinality(us \ {q}) = Cardinality(us) - 1
        BY <1>1, FS_RemoveElement
      <4>3. Cardinality(later(us, q)) <= Cardinality(us \ {q})
        BY <1>1, <4>1, FS_Subset
      <4>4. later(us, q) \in SUBSET vs
        BY <4>1
      <4>5. Cardinality(later(us, q)) \in Nat
        BY <1>1, <4>4
      <4> QED
        BY <1>0, <3>1, <4>2, <4>3, <4>5
    <3>3. Newest(us) = us
      BY <3>2 DEF Newest
    <3> QED
      BY <3>1, <3>3
  <2> QED
    BY <2>10, <2>11
<1>4. \A us \in SUBSET vs : (\A ts \in SUBSET us : ts # us => ts \in Good) => us \in Good
  BY <1>3
<1>5. \A us \in SUBSET vs : us \in Good
  <2> HIDE DEF Good
  <2> QED
    BY <1>4, SubsetInduction
<1> QED
  BY <1>5

\* A collection that finds what it found at its start, or more, keeps all of its dates that
\* the limit leaves room for.
LEMMA AnswerKeeps ==
    ASSUME rows \subseteq Vintages,
           \A r, q \in rows : r.date = q.date /\ r.release = q.release => r = q,
           NEW x, x.asOf \in 0 .. MaxTime, StillStored(x, rows)
    PROVE  \A e \in x.existing :
               \/ \E h \in Answer(x) : h.date = e.date
               \/ Cardinality(Answer(x)) = HistoryLimit
<1> DEFINE last == LastReleased(rows, x.asOf)
<1>1. last \subseteq Vintages /\ \A r, q \in last : r.date = q.date => r = q
  <2>1. last \subseteq rows
    BY DEF LastReleased
  <2> QED
    BY <2>1, LastUnique
<1>2. IsFiniteSet(last)
  <2> HIDE DEF last
  <2> QED
    BY <1>1, LastFinite
<1> SUFFICES ASSUME NEW e \in x.existing, ~\E h \in Answer(x) : h.date = e.date
             PROVE  Cardinality(Answer(x)) = HistoryLimit
  OBVIOUS
<1>3. Answer(x) = Newest(last)
  BY DEF Answer, History
<1>4. PICK r \in rows : r.date = e.date /\ r.release <= x.asOf
  BY DEF StillStored
<1>5. PICK q \in last : q.date = r.date
  BY <1>4, LastExists
<1>6. q \notin Newest(last)
  BY <1>3, <1>4, <1>5
<1>7. ~(Cardinality({p \in last : p.date > q.date}) < HistoryLimit)
  BY <1>6, <1>5 DEF Newest
<1>8. Cardinality(last) >= HistoryLimit
  <2> DEFINE S == {p \in last : p.date > q.date}
  <2>1. IsFiniteSet(S) /\ Cardinality(S) <= Cardinality(last)
    BY <1>2, FS_Subset
  <2>2. Cardinality(S) \in Nat /\ Cardinality(last) \in Nat
    BY <1>2, <2>1, FS_CardinalityType
  <2> HIDE DEF last, S
  <2> QED
    BY <1>7, <2>1, <2>2, StoreAssumption DEF S
<1> HIDE DEF last
<1>9. Cardinality(Newest(last)) = HistoryLimit
  BY <1>1, <1>2, <1>8, NewestFull
<1> QED
  BY <1>3, <1>9

-----------------------------------------------------------------------------
(* Steps of the store.                                                       *)

LEMMA CollectionGrows ==
    ASSUME NEW x, NEW vs, NEW ws, CollectionInv(x, vs), vs \subseteq ws
    PROVE  CollectionInv(x, ws)
  BY DEF CollectionInv, StillStored

\* One collection goes on, in a table that has only grown.
LEMMA OneCollection ==
    ASSUME StoreInv, NEW c \in Collectors, NEW y, collector' = [collector EXCEPT ![c] = y],
           rows \subseteq rows', CollectionInv(y, rows')
    PROVE  /\ collector' = [k \in Collectors |-> collector'[k]]
           /\ \A k \in Collectors : CollectionInv(collector'[k], rows')
<1>1. \A k \in Collectors : CollectionInv(collector[k], rows')
  <2>1. \A k \in Collectors : CollectionInv(collector[k], rows)
    BY DEF StoreInv
  <2> QED
    BY <2>1, CollectionGrows
<1>2. \A k \in Collectors : collector'[k] = IF k = c THEN y ELSE collector[k]
  BY DEF StoreInv
<1>3. collector' = [k \in Collectors |-> collector'[k]]
  BY DEF StoreInv
<1> QED
  BY <1>1, <1>2, <1>3

LEMMA TableRests ==
    ASSUME StoreInv, UNCHANGED <<rows, offered, crossed>>
    PROVE  TableInv'
  BY DEF StoreInv, TableInv, Represented

LEMMA FetchedBatch ==
    ASSUME StoreTypeOK, NEW asOf \in 0 .. MaxTime
    PROVE  Fetched(asOf) \subseteq Vintages /\ OnePerDate(Fetched(asOf))
<1>1. \A d \in ObsDates : upstream[d] # NoObs =>
          upstream[d].release \in 0 .. MaxTime /\ upstream[d].value \in ObsValues
  BY DEF StoreTypeOK
<1> QED
  BY <1>1 DEF Fetched, Vintages, OnePerDate

\* What is stored is found at the start, whatever the limit leaves out.
LEMMA HistoryStored ==
    ASSUME NEW t
    PROVE  \A e \in History(t) : e \in rows /\ e.release <= t
  BY DEF History, Newest, LastReleased

\* A commit carries on what is represented, and orders what it does not cross.
LEMMA CommitTable ==
    ASSUME StoreInv, NEW c \in Collectors, CommitBatch(c)
    PROVE  TableInv' /\ rows' \subseteq Vintages /\ offered' \subseteq Vintages
           /\ crossed' \subseteq ObsDates
<1> DEFINE x == collector[c]
           inOrder(v) == /\ Latest(v.date) = x.latest[v.date]
                         /\ \A w \in offered : w.date = v.date => w.release < v.release \/ w = v
<1>1. /\ x.batch \subseteq Vintages /\ OnePerDate(x.batch)
      /\ x.inserts = {v \in x.batch : ~\E r \in x.latest[v.date] : r.value = v.value}
  BY DEF StoreInv, CollectionInv, CommitBatch
<1>2. /\ rows' = rows \cup x.inserts /\ offered' = offered \cup x.batch
      /\ crossed' = crossed \cup {v.date : v \in {w \in x.batch : ~inOrder(w)}}
      /\ ~Conflict(x.inserts)
  BY DEF CommitBatch
<1>3. rows \subseteq offered /\ offered \subseteq Vintages /\ rows \subseteq Vintages /\ crossed \subseteq ObsDates
  BY DEF StoreInv, StoreTypeOK, TableInv
<1> HIDE DEF x
<1>4. rows' \subseteq Vintages /\ offered' \subseteq Vintages /\ crossed' \subseteq ObsDates
      /\ rows' \subseteq offered'
  <2>1. \A v \in x.batch : v.date \in ObsDates
    BY <1>1 DEF Vintages
  <2> HIDE DEF inOrder
  <2> QED
    BY <1>1, <1>2, <1>3, <2>1
<1>5. \A v \in Vintages : v.release \in Nat
  BY StoreAssumption DEF Vintages
<1>6. \A r, q \in rows' : r.date = q.date /\ r.release = q.release => r = q
  <2>1. \A r, q \in rows : r.date = q.date /\ r.release = q.release => r = q
    BY DEF StoreInv, TableInv
  <2>2. \A v \in x.inserts, r \in rows : ~(v.date = r.date /\ v.release = r.release)
    BY <1>2 DEF Conflict
  <2>3. \A v, w \in x.inserts : v.date = w.date => v = w
    BY <1>1 DEF OnePerDate
  <2> QED
    BY <1>2, <2>1, <2>2, <2>3
<1>7. \A v \in x.batch : v.date \notin crossed' => v.date \notin crossed /\ inOrder(v)
  <2> HIDE DEF inOrder
  <2> QED
    BY <1>2
<1>8. \A v, w \in offered' :
          v.date = w.date /\ v.release = w.release /\ v.date \notin crossed' => v = w
  <2>1. \A v, w \in offered :
            v.date = w.date /\ v.release = w.release /\ v.date \notin crossed => v = w
    BY DEF StoreInv, TableInv
  <2>2. \A v \in x.batch, w \in offered : v.date = w.date /\ v.release = w.release
                                       /\ v.date \notin crossed' => v = w
    BY <1>1, <1>3, <1>5, <1>7
  <2>3. \A v, w \in x.batch : v.date = w.date => v = w
    BY <1>1 DEF OnePerDate
  <2>4. \A d : d \notin crossed' => d \notin crossed
    BY <1>2
  <2> QED
    BY <1>2, <2>1, <2>2, <2>3, <2>4
<1>9. ASSUME NEW v \in offered', v.date \notin crossed'
      PROVE  \E r \in rows' :
                 /\ r.date = v.date /\ r.value = v.value /\ r.release <= v.release
                 /\ \A q \in rows' : q.date = v.date /\ q.release <= v.release => q.release <= r.release
  <2>0. v \in Vintages /\ v.release \in Nat /\ v.date \notin crossed
    BY <1>2, <1>4, <1>5, <1>9
  <2>1. CASE v \in x.inserts
    <3>1. v \in rows' /\ v.release <= v.release
      BY <1>2, <2>0, <2>1
    <3> QED
      BY <3>1
  <2>2. CASE v \in x.batch /\ v \notin x.inserts
    <3>1. PICK r \in x.latest[v.date] : r.value = v.value
      BY <1>1, <2>2
    <3>2. r \in Latest(v.date) /\ inOrder(v)
      BY <1>7, <1>9, <2>2, <3>1
    <3>3. r \in rows /\ r.date = v.date /\ \A q \in rows : q.date = v.date => q.release <= r.release
      BY <3>2 DEF Latest
    <3>4. r.release <= v.release
      <4>1. r \in offered /\ r.release \in Nat
        BY <1>3, <1>5, <3>3
      <4>2. r.release < v.release \/ r = v
        BY <3>2, <3>3, <4>1
      <4> QED
        BY <2>0, <4>1, <4>2
    <3>5. \A q \in x.inserts : q.date # v.date
      BY <1>1, <2>2 DEF OnePerDate
    <3> QED
      BY <1>2, <3>1, <3>3, <3>4, <3>5
  <2>3. CASE v \in offered /\ v \notin x.batch
    <3>1. Represented(v)
      BY <2>0, <2>3 DEF StoreInv, TableInv
    <3>2. PICK r \in rows :
              /\ r.date = v.date /\ r.value = v.value /\ r.release <= v.release
              /\ \A q \in rows : q.date = v.date /\ q.release <= v.release => q.release <= r.release
      BY <3>1 DEF Represented
    <3>3. ASSUME NEW q \in x.inserts, q.date = v.date PROVE ~(q.release <= v.release)
      <4>1. q \in x.batch /\ q.date \notin crossed'
        BY <1>1, <1>9, <3>3
      <4>2. v.release < q.release
        BY <1>7, <2>3, <3>3, <4>1
      <4>3. q.release \in Nat
        BY <1>1, <1>5, <4>1
      <4> QED
        BY <2>0, <4>2, <4>3
    <3> QED
      BY <1>2, <3>2, <3>3
  <2> QED
    BY <1>2, <2>1, <2>2, <2>3
<1> QED
  BY <1>4, <1>6, <1>8, <1>9 DEF TableInv, Represented

\* A step of one collection that saves nothing.
LEMMA CollectionMoves ==
    ASSUME StoreInv, NEW c \in Collectors, NEW y, collector' = [collector EXCEPT ![c] = y],
           UNCHANGED <<kind, now, upstream, rows, revisions, offered, crossed>>,
           started' = started \/ started' = started + 1, CollectionInv(y, rows)
    PROVE  StoreInv'
<1>1. StoreTypeOK'
  BY DEF StoreInv, StoreTypeOK
<1>2. TableInv'
  BY TableRests
<1>3. rows' = rows
  OBVIOUS
<1>4. /\ collector' = [k \in Collectors |-> collector'[k]]
      /\ \A k \in Collectors : CollectionInv(collector'[k], rows')
  BY <1>3, OneCollection
<1> QED
  BY <1>1, <1>2, <1>4 DEF StoreInv

\* A step that leaves every collection where it is.
LEMMA SourceMoves ==
    ASSUME StoreInv, UNCHANGED <<rows, collector, offered, crossed>>, StoreTypeOK'
    PROVE  StoreInv'
<1>1. TableInv'
  BY TableRests
<1>2. \A k \in Collectors : CollectionInv(collector'[k], rows')
  BY DEF StoreInv
<1> QED
  BY <1>1, <1>2 DEF StoreInv

LEMMA CommitKeeps ==
    ASSUME StoreInv, NEW c \in Collectors, CommitBatch(c)
    PROVE  StoreInv'
<1> DEFINE x == collector[c]
           y == [step |-> "reread", asOf |-> x.asOf, existing |-> x.existing, batch |-> x.batch]
<1>1. TableInv' /\ rows' \subseteq Vintages /\ offered' \subseteq Vintages /\ crossed' \subseteq ObsDates
  BY CommitTable
<1>2. collector' = [collector EXCEPT ![c] = y] /\ rows \subseteq rows'
      /\ UNCHANGED <<kind, now, upstream, started, revisions>>
  BY DEF CommitBatch
<1>3. StoreTypeOK'
  BY <1>1, <1>2 DEF StoreInv, StoreTypeOK
<1>4. CollectionInv(y, rows')
  <2>1. CollectionInv(x, rows) /\ x.step = "commit"
    BY DEF StoreInv, CommitBatch
  <2>2. CollectionInv(x, rows')
    BY <1>2, <2>1, CollectionGrows
  <2> QED
    BY <2>1, <2>2 DEF CollectionInv, StillStored
<1> HIDE DEF y
<1>5. /\ collector' = [k \in Collectors |-> collector'[k]]
      /\ \A k \in Collectors : CollectionInv(collector'[k], rows')
  BY <1>2, <1>4, OneCollection
<1> QED
  BY <1>1, <1>3, <1>5 DEF StoreInv

LEMMA StoreStep ==
    ASSUME StoreInv, [StoreNext]_storeVars
    PROVE  StoreInv'
<1>1. CASE Tick
  <2>1. StoreTypeOK'
    BY <1>1, StoreAssumption DEF Tick, StoreInv, StoreTypeOK
  <2> QED
    BY <1>1, <2>1, SourceMoves DEF Tick
<1>2. ASSUME NEW d \in ObsDates, NEW v \in ObsValues, Revise(d, v)
      PROVE  StoreInv'
  <2>1. StoreTypeOK'
    BY <1>2, StoreAssumption DEF Revise, StoreInv, StoreTypeOK
  <2> QED
    BY <1>2, <2>1, SourceMoves DEF Revise
<1>3. ASSUME NEW c \in Collectors, CollectorStep(c)
      PROVE  StoreInv'
  <2> DEFINE x == collector[c]
  <2>0. CollectionInv(x, rows) /\ StoreTypeOK
    BY DEF StoreInv
  <2>1. ASSUME NEW asOf \in 0 .. now, BeginCollection(c, asOf)
        PROVE  StoreInv'
    <3> DEFINE y == [step |-> "fetch", asOf |-> asOf, existing |-> History(asOf)]
    <3>1. asOf \in 0 .. MaxTime
      BY <2>0, StoreAssumption DEF StoreTypeOK
    <3>2. CollectionInv(y, rows)
      <4>1. StillStored(y, rows)
        BY HistoryStored DEF StillStored
      <4> QED
        BY <3>1, <4>1 DEF CollectionInv
    <3>3. collector' = [collector EXCEPT ![c] = y] /\ started' = started + 1
          /\ UNCHANGED <<kind, now, upstream, rows, revisions, offered, crossed>>
      BY <2>1 DEF BeginCollection
    <3> HIDE DEF y
    <3> QED
      BY <3>2, <3>3, CollectionMoves
  <2>2. CASE UseStored(c)
    <3> DEFINE y == [step |-> "done", asOf |-> x.asOf, existing |-> x.existing,
                     history |-> x.existing, conflict |-> FALSE]
    <3>1. CollectionInv(y, rows)
      BY DEF CollectionInv, Kept
    <3>2. collector' = [collector EXCEPT ![c] = y] /\ started' = started
          /\ UNCHANGED <<kind, now, upstream, rows, revisions, offered, crossed>>
      BY <2>2 DEF UseStored, StoreInv
    <3> HIDE DEF y
    <3> QED
      BY <3>1, <3>2, CollectionMoves
  <2>3. CASE FetchSeries(c)
    <3> DEFINE y == [step |-> IF Fetched(x.asOf) = {} THEN "reread" ELSE "compare",
                     asOf |-> x.asOf, existing |-> x.existing, batch |-> Fetched(x.asOf)]
    <3>1. x.asOf \in 0 .. MaxTime /\ StillStored(x, rows)
      BY <2>0, <2>3 DEF CollectionInv, FetchSeries
    <3>2. CollectionInv(y, rows)
      BY <2>0, <3>1, FetchedBatch DEF CollectionInv, StillStored
    <3>3. collector' = [collector EXCEPT ![c] = y] /\ started' = started
          /\ UNCHANGED <<kind, now, upstream, rows, revisions, offered, crossed>>
      BY <2>3 DEF FetchSeries, StoreInv
    <3> HIDE DEF y
    <3> QED
      BY <3>2, <3>3, CollectionMoves
  <2>4. CASE FetchRejected(c)
    <3> DEFINE y == [step |-> "reread", asOf |-> x.asOf, existing |-> x.existing, batch |-> {}]
    <3>1. CollectionInv(y, rows)
      BY <2>0, <2>4 DEF CollectionInv, FetchRejected, StillStored
    <3>2. collector' = [collector EXCEPT ![c] = y] /\ started' = started
          /\ UNCHANGED <<kind, now, upstream, rows, revisions, offered, crossed>>
      BY <2>4 DEF FetchRejected, StoreInv
    <3> HIDE DEF y
    <3> QED
      BY <3>1, <3>2, CollectionMoves
  <2>5. ASSUME NEW v \in Vintages, Push(c, v)
        PROVE  StoreInv'
    <3> DEFINE y == [step |-> "compare", asOf |-> v.release, existing |-> {}, batch |-> {v}]
    <3>1. CollectionInv(y, rows)
      BY DEF CollectionInv, StillStored, OnePerDate, Vintages
    <3>2. collector' = [collector EXCEPT ![c] = y] /\ started' = started + 1
          /\ UNCHANGED <<kind, now, upstream, rows, revisions, offered, crossed>>
      BY <2>5 DEF Push
    <3> HIDE DEF y
    <3> QED
      BY <3>1, <3>2, CollectionMoves
  <2>6. CASE CompareBatch(c)
    <3> DEFINE y == [step |-> "commit", asOf |-> x.asOf, existing |-> x.existing, batch |-> x.batch,
                     inserts |-> {v \in x.batch : ~Unchanged(v)},
                     latest |-> [d \in ObsDates |-> Latest(d)]]
    <3>1. x.step = "compare" /\ x.batch \subseteq Vintages
      BY <2>0, <2>6 DEF CollectionInv, CompareBatch
    <3>2. \A v \in x.batch : y.latest[v.date] = Latest(v.date)
      BY <3>1 DEF Vintages
    <3>3. y.inserts = {v \in y.batch : ~\E r \in y.latest[v.date] : r.value = v.value}
      BY <3>2 DEF Unchanged
    <3>4. CollectionInv(y, rows)
      BY <2>0, <3>1, <3>3 DEF CollectionInv, StillStored
    <3>5. collector' = [collector EXCEPT ![c] = y] /\ started' = started
          /\ UNCHANGED <<kind, now, upstream, rows, revisions, offered, crossed>>
      BY <2>6 DEF CompareBatch
    <3> HIDE DEF y
    <3> QED
      BY <3>4, <3>5, CollectionMoves
  <2>7. CASE CommitBatch(c)
    BY <2>7, CommitKeeps
  <2>8. CASE CommitConflict(c)
    <3> DEFINE y == [step |-> "done", asOf |-> x.asOf, existing |-> x.existing,
                     history |-> {}, conflict |-> TRUE]
    <3>1. CollectionInv(y, rows)
      BY DEF CollectionInv
    <3>2. collector' = [collector EXCEPT ![c] = y] /\ started' = started
          /\ UNCHANGED <<kind, now, upstream, rows, revisions, offered, crossed>>
      BY <2>8 DEF CommitConflict
    <3> HIDE DEF y
    <3> QED
      BY <3>1, <3>2, CollectionMoves
  <2>9. CASE Reread(c)
    <3> DEFINE y == [step |-> "done", asOf |-> x.asOf, existing |-> x.existing,
                     history |-> Answer(x), conflict |-> FALSE]
    <3>1. x.asOf \in 0 .. MaxTime /\ StillStored(x, rows)
      BY <2>0, <2>9 DEF CollectionInv, Reread
    <3>2. /\ rows \subseteq Vintages
          /\ \A r, q \in rows : r.date = q.date /\ r.release = q.release => r = q
      BY DEF StoreInv, StoreTypeOK, TableInv
    <3>3. Kept(y)
      <4> HIDE DEF x
      <4>1. \A e \in x.existing :
                \/ \E h \in Answer(x) : h.date = e.date
                \/ Cardinality(Answer(x)) = HistoryLimit
        BY <3>1, <3>2, AnswerKeeps
      <4> QED
        BY <4>1 DEF Kept
    <3>4. CollectionInv(y, rows)
      <4> HIDE DEF x
      <4> QED
        BY <3>3 DEF CollectionInv
    <3>5. collector' = [collector EXCEPT ![c] = y] /\ started' = started
          /\ UNCHANGED <<kind, now, upstream, rows, revisions, offered, crossed>>
      BY <2>9 DEF Reread
    <3> HIDE DEF y
    <3> QED
      BY <3>4, <3>5, CollectionMoves
  <2>10. CASE EndCollection(c)
    <3>1. CollectionInv(NoCollection, rows)
      BY DEF CollectionInv, NoCollection
    <3> QED
      BY <2>10, <3>1, CollectionMoves DEF EndCollection
  <2> HIDE DEF x
  <2> QED
    BY <1>3, <2>1, <2>2, <2>3, <2>4, <2>5, <2>6, <2>7, <2>8, <2>9, <2>10 DEF CollectorStep
<1>4. CASE UNCHANGED storeVars
  <2>1. StoreTypeOK'
    BY <1>4 DEF storeVars, StoreInv, StoreTypeOK
  <2> QED
    BY <1>4, <2>1, SourceMoves DEF storeVars
<1> QED
  BY <1>1, <1>2, <1>3, <1>4 DEF StoreNext

LEMMA InitStore == StoreInit => StoreInv
<1> SUFFICES ASSUME StoreInit PROVE StoreInv
  OBVIOUS
<1>1. StoreTypeOK
  BY StoreAssumption DEF StoreInit, StoreTypeOK
<1>2. TableInv
  BY DEF StoreInit, TableInv
<1>3. \A c \in Collectors : CollectionInv(collector[c], rows)
  BY DEF StoreInit, CollectionInv, NoCollection
<1> QED
  BY <1>1, <1>2, <1>3 DEF StoreInit, StoreInv

LEMMA StoreInvariant == StoreSpec => []StoreInv
<1>1. StoreInv /\ [StoreNext]_storeVars => StoreInv'
  BY StoreStep
<1> QED
  BY <1>1, InitStore, PTL DEF StoreSpec

\* Reading the rows and reading all that was offered is the same, date by date.
LEMMA InvExact == StoreInv => VintageExact
<1> SUFFICES ASSUME StoreInv, NEW t \in 0 .. MaxTime
             PROVE  {k \in Known(LastReleased(rows, t)) : k.date \notin crossed}
                        = {k \in Known(LastReleased(offered, t)) : k.date \notin crossed}
  BY DEF VintageExact
<1>1. rows \subseteq offered /\ offered \subseteq Vintages
  BY DEF StoreInv, StoreTypeOK, TableInv
<1>2. \A v \in offered : v.release \in Nat /\ t \in Nat
  BY <1>1, StoreAssumption DEF Vintages
<1>3. ASSUME NEW v \in LastReleased(offered, t), v.date \notin crossed
      PROVE  \E r \in LastReleased(rows, t) : r.date = v.date /\ r.value = v.value
  <2>1. v \in offered /\ v.release <= t
        /\ \A q \in offered : q.date = v.date /\ q.release <= t => q.release <= v.release
    BY DEF LastReleased
  <2>2. PICK r \in rows :
            /\ r.date = v.date /\ r.value = v.value /\ r.release <= v.release
            /\ \A q \in rows : q.date = v.date /\ q.release <= v.release => q.release <= r.release
    BY <1>3, <2>1 DEF StoreInv, TableInv, Represented
  <2>3. r.release <= t
    BY <1>1, <1>2, <2>1, <2>2
  <2>4. \A q \in rows : q.date = r.date /\ q.release <= t => q.release <= r.release
    BY <1>1, <2>1, <2>2
  <2> QED
    BY <2>2, <2>3, <2>4 DEF LastReleased
<1>4. ASSUME NEW r \in LastReleased(rows, t), r.date \notin crossed
      PROVE  \E v \in LastReleased(offered, t) : v.date = r.date /\ v.value = r.value
  <2>1. r \in rows /\ r.release <= t /\ r \in offered
    BY <1>1 DEF LastReleased
  <2>2. PICK v \in LastReleased(offered, t) : v.date = r.date
    BY <1>1, <2>1, LastExists
  <2>3. PICK q \in LastReleased(rows, t) : q.date = v.date /\ q.value = v.value
    BY <1>3, <1>4, <2>2
  <2>4. q = r
    <3>1. \A p, s \in rows : p.date = s.date /\ p.release = s.release => p = s
      BY DEF StoreInv, TableInv
    <3>2. rows \subseteq Vintages
      BY <1>1
    <3> QED
      BY <2>2, <2>3, <3>1, <3>2, LastUnique
  <2> QED
    BY <2>2, <2>3, <2>4
<1> QED
  BY <1>3, <1>4 DEF Known

\* Storing only what changed loses no vintage, for any dates, values, collectors, limits and
\* bounds: a read as of any time finds the value that was the newest offered by then, of every
\* date whose saves did not overtake each other or come out of order.
THEOREM StoredExactly == StoreSpec => []VintageExact
  BY StoreInvariant, InvExact, PTL

\* No failed, rejected or partial fetch costs a run the stored history that it found at its
\* start, however many other collectors save meanwhile.
THEOREM HistoryKept == StoreSpec => []StoredHistoryKept
<1>1. StoreInv => StoredHistoryKept
  BY DEF StoreInv, CollectionInv, Kept, StoredHistoryKept
<1> QED
  BY <1>1, StoreInvariant, PTL

-----------------------------------------------------------------------------
(* The earnings snapshots.                                                   *)

\* The rows of a day were not collected before it; once only, if it was not saved again;
\* and on it, if no request for a past day saved them.
RowsInv(snap, until, again, late) ==
    \A d \in Days, s \in Stocks : snap[d][s] # NoValue =>
        /\ snap[d][s] <= until /\ d <= Day(snap[d][s])
        /\ d \notin again => {snap[d][k] : k \in Stocks} \ {NoValue} = {snap[d][s]}
        /\ d \notin late => Day(snap[d][s]) = d

\* What a request has read, in terms of what may have been saved since.
FetchInv(x, snap, again, late) ==
    /\ x.step \in {"idle", "saved", "found", "loaded", "served"}
    /\ x.step # "idle" => x.asOf \in Times
    /\ x.step \in {"found", "loaded", "served"} =>
          x.day \in Days /\ x.release \in Times /\ x.release <= x.asOf /\ x.day <= Day(x.release)
    /\ x.step = "found" /\ x.day \notin again =>
          {snap[x.day][s] : s \in Stocks} \ {NoValue} = {x.release}
    /\ x.step \in {"loaded", "served"} =>
          /\ x.values \in [Stocks -> Times \cup {NoValue}]
          /\ x.day \notin again => \A s \in Stocks : x.values[s] # NoValue => x.values[s] <= x.asOf
    /\ x.step = "served" =>
          /\ x.common \subseteq {s \in Stocks : x.values[s] # NoValue /\ x.old[s] # NoValue}
          /\ x.prior \in Days /\ x.prior < x.day
          /\ x.prior \notin late => \A s \in x.common : x.old[s] <= x.asOf

SnapshotsInv ==
    /\ clock \in Times
    /\ snapshot \in [Days -> [Stocks -> Times \cup {NoValue}]]
    /\ recollected \subseteq Days /\ backdated \subseteq Days
    /\ fetch = [r \in Requests |-> fetch[r]]
    /\ RowsInv(snapshot, clock, recollected, backdated)
    /\ \A r \in Requests : FetchInv(fetch[r], snapshot, recollected, backdated)

LEMMA DayType ==
    /\ \A t \in Nat : Day(t) \in Nat
    /\ \A a, b \in Nat : a <= b => Day(a) <= Day(b)
    /\ \A t \in Times : t \in Nat /\ Day(t) \in Days
    /\ Days \subseteq Nat /\ Day(MaxClock) \in Nat /\ \A d \in Days : d <= Day(MaxClock)
<1>1. DayLength \in Nat \ {0} /\ MaxClock \in Nat
  BY SnapshotAssumption
<1>2. \A t \in Nat : Day(t) \in Nat
  BY <1>1, DivisionMonotone DEF Day
<1>3. \A a, b \in Nat : a <= b => Day(a) <= Day(b)
  BY <1>1, DivisionMonotone DEF Day
<1>4. \A t \in Times : t \in Nat /\ t <= MaxClock
  BY <1>1 DEF Times
<1>5. \A t \in Times : Day(t) <= Day(MaxClock) /\ Day(t) \in Nat /\ Day(MaxClock) \in Nat
  BY <1>1, <1>2, <1>3, <1>4
<1> QED
  BY <1>1, <1>2, <1>3, <1>4, <1>5 DEF Days

\* What a request has read is as it was, when more days were saved again or late, and its
\* own is not changed unless it was saved again.
LEMMA FetchGrows ==
    ASSUME NEW x, NEW snap, NEW again, NEW late, NEW snap2, NEW again2, NEW late2,
           FetchInv(x, snap, again, late), again \subseteq again2, late \subseteq late2,
           \A d \in Days : d \notin again2 /\ {snap[d][s] : s \in Stocks} \ {NoValue} # {}
                        => snap2[d] = snap[d]
    PROVE  FetchInv(x, snap2, again2, late2)
<1>1. ASSUME x.step = "found", x.day \notin again2
      PROVE  {snap2[x.day][s] : s \in Stocks} \ {NoValue} = {x.release}
  <2>1. {snap[x.day][s] : s \in Stocks} \ {NoValue} = {x.release} /\ x.day \in Days
    BY <1>1 DEF FetchInv
  <2>2. snap2[x.day] = snap[x.day]
    BY <1>1, <2>1
  <2> QED
    BY <2>1, <2>2
<1> QED
  BY <1>1 DEF FetchInv

\* One request goes on.
LEMMA FetchMoves ==
    ASSUME SnapshotsInv, NEW r \in Requests, NEW y, fetch' = [fetch EXCEPT ![r] = y],
           UNCHANGED <<clock, snapshot, recollected, backdated>>,
           FetchInv(y, snapshot, recollected, backdated)
    PROVE  SnapshotsInv'
<1>1. \A k \in Requests : fetch'[k] = IF k = r THEN y ELSE fetch[k]
  BY DEF SnapshotsInv
<1>2. fetch' = [k \in Requests |-> fetch'[k]]
  BY DEF SnapshotsInv
<1>3. \A k \in Requests : FetchInv(fetch'[k], snapshot, recollected, backdated)
  BY <1>1 DEF SnapshotsInv
<1> QED
  BY <1>2, <1>3 DEF SnapshotsInv

\* Saving a snapshot: a day that had one is marked, and a late one is.
LEMMA SaveKeeps ==
    ASSUME SnapshotsInv, NEW r \in Requests, NEW asOf \in 0 .. clock,
           NEW found \in SUBSET Stocks \ {{}}, SaveSnapshot(r, asOf, found)
    PROVE  SnapshotsInv'
<1> DEFINE day == Day(asOf)
           y == [step |-> "saved", asOf |-> asOf]
<1>1. /\ snapshot' = [snapshot EXCEPT ![day] = [s \in Stocks |-> IF s \in found THEN clock ELSE @[s]]]
      /\ recollected' = IF Collected(day) = {} THEN recollected ELSE recollected \cup {day}
      /\ backdated' = IF day = Day(clock) THEN backdated ELSE backdated \cup {day}
      /\ fetch' = [fetch EXCEPT ![r] = y] /\ clock' = clock
  BY DEF SaveSnapshot
<1>2. clock \in Times /\ clock \in Nat /\ asOf \in Times /\ asOf \in Nat /\ asOf <= clock
  <2>1. clock \in 0 .. MaxClock /\ MaxClock \in Nat
    BY SnapshotAssumption DEF SnapshotsInv, Times
  <2> QED
    BY <2>1 DEF Times
<1>3. day \in Days /\ day <= Day(clock) /\ day \in Nat /\ Day(clock) \in Nat
  BY <1>2, DayType
<1> HIDE DEF day
<1>4. snapshot \in [Days -> [Stocks -> Times \cup {NoValue}]]
  BY DEF SnapshotsInv
<1>5. \A d \in Days : d # day => snapshot'[d] = snapshot[d]
  BY <1>1, <1>4
<1>6. \A s \in Stocks : snapshot'[day][s] = IF s \in found THEN clock ELSE snapshot[day][s]
  BY <1>1, <1>3, <1>4
<1>7. snapshot' \in [Days -> [Stocks -> Times \cup {NoValue}]]
  BY <1>1, <1>2, <1>3, <1>4
<1>8. recollected' \subseteq Days /\ backdated' \subseteq Days
      /\ recollected \subseteq recollected' /\ backdated \subseteq backdated'
  BY <1>1, <1>3 DEF SnapshotsInv
<1>9. clock # NoValue
  BY <1>2, SnapshotAssumption
<1>10. ASSUME NEW d \in Days, NEW s \in Stocks, snapshot'[d][s] # NoValue
       PROVE  /\ snapshot'[d][s] <= clock /\ d <= Day(snapshot'[d][s])
              /\ d \notin recollected' => {snapshot'[d][k] : k \in Stocks} \ {NoValue} = {snapshot'[d][s]}
              /\ d \notin backdated' => Day(snapshot'[d][s]) = d
  <2>0. ASSUME snapshot[d][s] # NoValue
        PROVE  /\ snapshot[d][s] <= clock /\ d <= Day(snapshot[d][s])
               /\ d \notin recollected => {snapshot[d][k] : k \in Stocks} \ {NoValue} = {snapshot[d][s]}
               /\ d \notin backdated => Day(snapshot[d][s]) = d
    BY <2>0 DEF SnapshotsInv, RowsInv, Collected
  <2>1. CASE d # day
    BY <1>5, <1>8, <1>10, <2>0, <2>1
  <2>2. CASE d = day
    <3>1. CASE s \in found
      <4>1. snapshot'[d][s] = clock
        BY <1>6, <2>2, <3>1
      <4>2. ASSUME d \notin recollected'
            PROVE  {snapshot'[d][k] : k \in Stocks} \ {NoValue} = {clock}
        <5>1. \A k \in Stocks : snapshot[day][k] = NoValue
          BY <1>1, <1>3, <2>2, <4>2 DEF Collected
        <5>2. \A k \in Stocks : snapshot'[day][k] = IF k \in found THEN clock ELSE NoValue
          BY <1>6, <5>1
        <5> QED
          BY <1>9, <2>2, <3>1, <5>2
      <4>3. d \notin backdated' => Day(clock) = d
        BY <1>1, <2>2
      <4> QED
        BY <1>2, <1>3, <2>2, <4>1, <4>2, <4>3
    <3>2. CASE s \notin found
      <4>1. snapshot'[d][s] = snapshot[d][s] /\ snapshot[d][s] # NoValue
        BY <1>6, <1>10, <2>2, <3>2
      <4>2. d \in recollected'
        <5>1. Collected(day) # {}
          BY <2>2, <4>1 DEF Collected
        <5> QED
          BY <1>1, <2>2, <5>1
      <4> QED
        BY <1>8, <2>0, <4>1, <4>2
    <3> QED
      BY <3>1, <3>2
  <2> QED
    BY <2>1, <2>2
<1>11. RowsInv(snapshot', clock', recollected', backdated')
  BY <1>1, <1>10 DEF RowsInv
<1>12. \A k \in Requests : FetchInv(fetch[k], snapshot', recollected', backdated')
  <2>1. \A k \in Requests : FetchInv(fetch[k], snapshot, recollected, backdated)
    BY DEF SnapshotsInv
  <2>2. ASSUME NEW d \in Days, d \notin recollected', {snapshot[d][s] : s \in Stocks} \ {NoValue} # {}
        PROVE  snapshot'[d] = snapshot[d]
    <3>1. d # day
      BY <1>1, <2>2 DEF Collected
    <3> QED
      BY <1>5, <3>1
  <2>3. PICK snap2, again2, late2 :
            snap2 = snapshot' /\ again2 = recollected' /\ late2 = backdated'
    OBVIOUS
  <2>4. \A d \in Days : d \notin again2 /\ {snapshot[d][s] : s \in Stocks} \ {NoValue} # {}
                       => snap2[d] = snapshot[d]
    BY <2>2, <2>3
  <2>5. recollected \subseteq again2 /\ backdated \subseteq late2
    BY <1>8, <2>3
  <2>6. \A k \in Requests : FetchInv(fetch[k], snap2, again2, late2)
    BY <2>1, <2>4, <2>5, FetchGrows
  <2> QED
    BY <2>3, <2>6
<1>13. FetchInv(y, snapshot', recollected', backdated')
  BY <1>2 DEF FetchInv
<1>14. \A k \in Requests : fetch'[k] = IF k = r THEN y ELSE fetch[k]
  BY <1>1 DEF SnapshotsInv
<1>15. fetch' = [k \in Requests |-> fetch'[k]]
  BY <1>1 DEF SnapshotsInv
<1>16. \A k \in Requests : FetchInv(fetch'[k], snapshot', recollected', backdated')
  BY <1>12, <1>13, <1>14
<1> QED
  BY <1>1, <1>2, <1>7, <1>8, <1>11, <1>15, <1>16 DEF SnapshotsInv

\* The latest rows by a cutoff are of the day found, and collected by then.
LEMMA FoundRows ==
    ASSUME SnapshotsInv, NEW d \in Days, NEW asOf \in Times, CollectedBy(d, asOf) # {}
    PROVE  /\ Max(CollectedBy(d, asOf)) \in Times /\ Max(CollectedBy(d, asOf)) <= asOf
           /\ d <= Day(Max(CollectedBy(d, asOf)))
           /\ d \notin recollected => Collected(d) = {Max(CollectedBy(d, asOf))}
<1> DEFINE C == CollectedBy(d, asOf)
<1>1. C \subseteq Times /\ \A c \in C : c <= asOf /\ c \in Collected(d)
  BY DEF CollectedBy, Collected, SnapshotsInv
<1>2. C \subseteq Nat /\ asOf \in Nat
  BY <1>1, DayType
<1> HIDE DEF C
<1>3. C # {}
  BY DEF C
<1>4. Max(C) \in C
  BY <1>1, <1>2, <1>3, MaxBounds
<1>5. PICK s \in Stocks : snapshot[d][s] = Max(C) /\ snapshot[d][s] # NoValue
  BY <1>1, <1>4 DEF Collected
<1>6. d <= Day(Max(C)) /\ (d \notin recollected => Collected(d) = {Max(C)})
  BY <1>5 DEF SnapshotsInv, RowsInv, Collected
<1> QED
  BY <1>1, <1>4, <1>6 DEF C

LEMMA SnapshotsStep ==
    ASSUME SnapshotsInv, [SnapshotsNext]_snapshotVars
    PROVE  SnapshotsInv'
<1>1. CASE PassHour
  <2>1. clock' = clock + 1 /\ clock < MaxClock /\ clock \in Nat /\ MaxClock \in Nat
        /\ snapshot' = snapshot /\ recollected' = recollected /\ backdated' = backdated /\ fetch' = fetch
    BY <1>1, SnapshotAssumption DEF PassHour, SnapshotsInv, Times
  <2>2. clock' \in Times
    BY <2>1 DEF Times
  <2>3. RowsInv(snapshot, clock + 1, recollected, backdated)
    <3>1. ASSUME NEW d \in Days, NEW s \in Stocks, snapshot[d][s] # NoValue
          PROVE  /\ snapshot[d][s] <= clock + 1 /\ d <= Day(snapshot[d][s])
                 /\ d \notin recollected => Collected(d) = {snapshot[d][s]}
                 /\ d \notin backdated => Day(snapshot[d][s]) = d
      <4>1. snapshot[d][s] \in Nat
        BY <3>1, DayType DEF SnapshotsInv
      <4> QED
        BY <2>1, <3>1, <4>1 DEF SnapshotsInv, RowsInv, Collected
    <3> QED
      BY <3>1 DEF RowsInv, Collected
  <2> QED
    BY <2>1, <2>2, <2>3 DEF SnapshotsInv
<1>2. ASSUME NEW r \in Requests, NEW asOf \in 0 .. clock, NEW found \in SUBSET Stocks \ {{}},
             SaveSnapshot(r, asOf, found)
      PROVE  SnapshotsInv'
  BY <1>2, SaveKeeps
<1>3. ASSUME NEW r \in Requests, FindLatest(r)
      PROVE  SnapshotsInv'
  <2> DEFINE x == fetch[r]
  <2>1. x.asOf \in Times /\ UNCHANGED <<clock, snapshot, recollected, backdated>>
    BY <1>3 DEF FindLatest, SnapshotsInv, FetchInv
  <2>2. FetchInv(NoFetch, snapshot, recollected, backdated)
    BY DEF FetchInv, NoFetch
  <2>3. CASE fetch' = [fetch EXCEPT ![r] = NoFetch]
    BY <2>1, <2>2, <2>3, FetchMoves
  <2>4. ASSUME NEW d \in Days, CollectedBy(d, x.asOf) # {},
               fetch' = [fetch EXCEPT ![r] = [step |-> "found", asOf |-> x.asOf, day |-> d,
                                              release |-> Max(CollectedBy(d, x.asOf))]]
        PROVE  SnapshotsInv'
    <3> DEFINE y == [step |-> "found", asOf |-> x.asOf, day |-> d,
                     release |-> Max(CollectedBy(d, x.asOf))]
    <3>1. /\ y.release \in Times /\ y.release <= x.asOf /\ d <= Day(y.release)
          /\ d \notin recollected => Collected(d) = {y.release}
      BY <2>1, <2>4, FoundRows
    <3>2. FetchInv(y, snapshot, recollected, backdated)
      BY <2>1, <3>1 DEF FetchInv, Collected
    <3> HIDE DEF y
    <3>3. fetch' = [fetch EXCEPT ![r] = y]
      BY <2>4 DEF y
    <3> QED
      BY <2>1, <3>2, <3>3, FetchMoves
  <2> QED
    BY <1>3, <2>3, <2>4 DEF FindLatest
<1>4. ASSUME NEW r \in Requests, LoadLatest(r)
      PROVE  SnapshotsInv'
  <2> DEFINE x == fetch[r]
             y == [step |-> "loaded", asOf |-> x.asOf, day |-> x.day, release |-> x.release,
                   values |-> snapshot[x.day]]
  <2>1. x.step = "found" /\ FetchInv(x, snapshot, recollected, backdated)
        /\ UNCHANGED <<clock, snapshot, recollected, backdated>>
    BY <1>4 DEF LoadLatest, SnapshotsInv
  <2>2. fetch' = [fetch EXCEPT ![r] = y]
    BY <1>4 DEF LoadLatest, SnapshotsInv
  <2>3. /\ x.day \in Days /\ x.asOf \in Times /\ x.release \in Times
        /\ x.release <= x.asOf /\ x.day <= Day(x.release)
        /\ x.day \notin recollected => Collected(x.day) = {x.release}
    BY <2>1 DEF FetchInv, Collected
  <2>4. snapshot[x.day] \in [Stocks -> Times \cup {NoValue}]
    BY <2>3 DEF SnapshotsInv
  <2>5. ASSUME x.day \notin recollected, NEW s \in Stocks, snapshot[x.day][s] # NoValue
        PROVE  snapshot[x.day][s] <= x.asOf
    <3>1. snapshot[x.day][s] \in Collected(x.day)
      BY <2>5 DEF Collected
    <3> QED
      BY <2>3, <2>5, <3>1
  <2>6. FetchInv(y, snapshot, recollected, backdated)
    BY <2>3, <2>4, <2>5 DEF FetchInv
  <2> HIDE DEF y
  <2> QED
    BY <2>1, <2>2, <2>6, FetchMoves
<1>5. ASSUME NEW r \in Requests, LoadPrior(r)
      PROVE  SnapshotsInv'
  <2> DEFINE x == fetch[r]
             days == {d \in Days : d <= x.day - WindowDays /\ Collected(d) # {}}
             both(d) == {s \in Stocks : x.values[s] # NoValue /\ snapshot[d][s] # NoValue}
             y == [step |-> "served", asOf |-> x.asOf, day |-> x.day, release |-> x.release,
                   values |-> x.values, prior |-> Max(days), old |-> snapshot[Max(days)],
                   common |-> both(Max(days))]
  <2>1. x.step = "loaded" /\ FetchInv(x, snapshot, recollected, backdated)
        /\ UNCHANGED <<clock, snapshot, recollected, backdated>>
    BY <1>5 DEF LoadPrior, SnapshotsInv
  <2>2. FetchInv(NoFetch, snapshot, recollected, backdated)
    BY DEF FetchInv, NoFetch
  <2>3. fetch' = [fetch EXCEPT ![r] = NoFetch] \/ (days # {} /\ fetch' = [fetch EXCEPT ![r] = y])
    BY <1>5 DEF LoadPrior
  <2>4. CASE fetch' = [fetch EXCEPT ![r] = NoFetch]
    BY <2>1, <2>2, <2>4, FetchMoves
  <2>5. CASE days # {} /\ fetch' = [fetch EXCEPT ![r] = y]
    <3>1. Max(days) \in days
      <4>1. days \subseteq Nat /\ Day(MaxClock) \in Nat /\ \A d \in days : d <= Day(MaxClock)
        BY DayType
      <4> HIDE DEF days
      <4> QED
        BY <2>5, <4>1, MaxBounds
    <3>2. PICK p \in Days : p = Max(days) /\ p <= x.day - WindowDays
      BY <3>1
    <3>3. /\ x.day \in Days /\ x.asOf \in Times /\ x.release \in Times
          /\ x.release <= x.asOf /\ x.day <= Day(x.release)
      BY <2>1 DEF FetchInv
    <3>4. p < x.day /\ p \in Nat /\ x.day \in Nat
      BY <3>2, <3>3, DayType, SnapshotAssumption
    <3>5. ASSUME p \notin backdated, NEW s \in both(p) PROVE snapshot[p][s] <= x.asOf
      <4>1. s \in Stocks /\ snapshot[p][s] # NoValue
        BY <3>5
      <4>2. Day(snapshot[p][s]) = p /\ snapshot[p][s] \in Times
        BY <3>5, <4>1 DEF SnapshotsInv, RowsInv
      <4>3. snapshot[p][s] \in Nat /\ x.asOf \in Nat /\ x.release \in Nat
        BY <3>3, <4>2, DayType
      <4>4. Day(x.release) <= Day(x.asOf) /\ Day(x.release) \in Nat /\ Day(x.asOf) \in Nat
        BY <3>3, <4>3, DayType
      <4>5. ~(Day(x.asOf) <= Day(snapshot[p][s]))
        BY <3>3, <3>4, <4>2, <4>4
      <4>6. ~(x.asOf <= snapshot[p][s])
        BY <4>3, <4>5, DayType
      <4> QED
        BY <4>3, <4>6
    <3>6. FetchInv(y, snapshot, recollected, backdated)
      <4>1. y.step = "served" /\ y.asOf = x.asOf /\ y.day = x.day /\ y.release = x.release
            /\ y.values = x.values /\ y.prior = p /\ y.old = snapshot[p] /\ y.common = both(p)
        BY <3>2
      <4> HIDE DEF y
      <4>2. y.common \subseteq {s \in Stocks : y.values[s] # NoValue /\ y.old[s] # NoValue}
        BY <4>1
      <4>3. y.prior \notin backdated => \A s \in y.common : y.old[s] <= y.asOf
        BY <3>5, <4>1
      <4> HIDE DEF both
      <4> QED
        BY <2>1, <3>2, <3>4, <4>1, <4>2, <4>3 DEF FetchInv
    <3> HIDE DEF y
    <3> QED
      BY <2>1, <2>5, <3>6, FetchMoves
  <2> QED
    BY <2>3, <2>4, <2>5
<1>6. ASSUME NEW r \in Requests, EndFetch(r)
      PROVE  SnapshotsInv'
  <2>1. FetchInv(NoFetch, snapshot, recollected, backdated)
    BY DEF FetchInv, NoFetch
  <2> QED
    BY <1>6, <2>1, FetchMoves DEF EndFetch
<1>7. CASE UNCHANGED snapshotVars
  <2>1. clock' = clock /\ snapshot' = snapshot /\ recollected' = recollected
        /\ backdated' = backdated /\ fetch' = fetch
    BY <1>7 DEF snapshotVars
  <2> QED
    BY <2>1 DEF SnapshotsInv
<1> QED
  BY <1>1, <1>2, <1>3, <1>4, <1>5, <1>6, <1>7 DEF SnapshotsNext

LEMMA InitSnapshots == SnapshotsInit => SnapshotsInv
<1> SUFFICES ASSUME SnapshotsInit PROVE SnapshotsInv
  OBVIOUS
<1>1. clock \in Times /\ snapshot \in [Days -> [Stocks -> Times \cup {NoValue}]]
      /\ recollected \subseteq Days /\ backdated \subseteq Days
  BY SnapshotAssumption DEF SnapshotsInit, Times
<1>2. RowsInv(snapshot, clock, recollected, backdated)
  BY DEF SnapshotsInit, RowsInv
<1>3. \A r \in Requests : FetchInv(fetch[r], snapshot, recollected, backdated)
  BY DEF SnapshotsInit, FetchInv, NoFetch
<1> QED
  BY <1>1, <1>2, <1>3 DEF SnapshotsInit, SnapshotsInv

LEMMA SnapshotsInvariant == SnapshotsSpec => []SnapshotsInv
<1>1. SnapshotsInv /\ [SnapshotsNext]_snapshotVars => SnapshotsInv'
  BY SnapshotsStep
<1> QED
  BY <1>1, InitSnapshots, PTL DEF SnapshotsSpec

\* A revision breadth rests on nothing collected after its cutoff, on either side, for any
\* requests, stocks, length of a day, window and bounds, however saves and reads overlap;
\* excepted are the days that were saved again, and the earlier ones saved late.
THEOREM RevisionsPointInTime == SnapshotsSpec => []EarningsPointInTime
<1>1. SnapshotsInv => EarningsPointInTime
  <2> SUFFICES ASSUME SnapshotsInv, NEW r \in Requests, fetch[r].step = "served"
               PROVE  LET x == fetch[r] IN
                      /\ x.release <= x.asOf /\ x.prior < x.day
                      /\ x.day \notin recollected => \A s \in x.common : x.values[s] <= x.asOf
                      /\ x.prior \notin backdated => \A s \in x.common : x.old[s] <= x.asOf
    BY DEF EarningsPointInTime
  <2>1. FetchInv(fetch[r], snapshot, recollected, backdated)
    BY DEF SnapshotsInv
  <2> QED
    BY <2>1 DEF FetchInv
<1> QED
  BY <1>1, SnapshotsInvariant, PTL

-----------------------------------------------------------------------------
(* The bridge's client.                                                      *)

Lapses == 0 .. Horizon

Loads == [step : {"page", "request"}, since : Lapses, asked : Lapses, tries : Nat, ages : Seq(Lapses)]

\* A page that is cached is no older than what its deadline leaves of its lifetime.
PageInv(x) ==
    x # Nothing => x.left \in 0 .. PageTTL /\ x.age \in Lapses /\ x.age + x.left <= PageTTL

\* A frame is no older than both lifetimes, less what its deadline leaves.
FrameInv(x) ==
    x # Nothing =>
        /\ x.left \in 1 .. FrameTTL /\ x.ages \in [PageNumbers -> Lapses]
        /\ \A p \in PageNumbers : x.ages[p] + x.left <= PageTTL + FrameTTL

\* A load's pages are no older than their lifetime and the time it has taken.
ThreadInv(x) ==
    /\ x.step \in {"idle", "page", "request", "served", "failed"}
    /\ x.step \in {"page", "request"} =>
          /\ x \in Loads /\ Len(x.ages) <= Pages
          /\ \A i \in 1 .. Len(x.ages) : x.ages[i] <= PageTTL + x.since
    /\ x.step = "request" => Len(x.ages) < Pages
    /\ x.step = "served" => \A p \in PageNumbers : x.ages[p] <= PageTTL + x.kept

BridgeInv ==
    /\ sourceUp \in BOOLEAN
    /\ page = [p \in PageNumbers |-> page[p]] /\ \A p \in PageNumbers : PageInv(page[p])
    /\ pageFail \in [PageNumbers -> 0 .. PageBackoff]
    /\ FrameInv(frame) /\ frameFail \in 0 .. FrameBackoff
    /\ thread = [t \in Threads |-> thread[t]] /\ \A t \in Threads : ThreadInv(thread[t])

LEMMA LapseFacts ==
    /\ PageTTL \in Nat /\ FrameTTL \in Nat /\ FrameTTL > 0 /\ Horizon \in Nat
    /\ Horizon = PageTTL + FrameTTL + 1
    /\ \A n \in Lapses : n \in Nat /\ n <= Horizon /\ Older(n) \in Lapses /\ Older(n) <= n + 1
                      /\ (n < Horizon => Older(n) = n + 1) /\ (~(n < Horizon) => Older(n) = Horizon)
<1>1. PageTTL \in Nat /\ FrameTTL \in Nat /\ FrameTTL > 0
  BY BridgeAssumption
<1>2. Horizon \in Nat /\ Horizon = PageTTL + FrameTTL + 1
  BY <1>1 DEF Horizon
<1> QED
  BY <1>1, <1>2 DEF Lapses, Older

\* One thread goes on.
LEMMA ThreadMoves ==
    ASSUME BridgeInv, NEW t \in Threads, NEW y, thread' = [thread EXCEPT ![t] = y], ThreadInv(y)
    PROVE  thread' = [k \in Threads |-> thread'[k]] /\ \A k \in Threads : ThreadInv(thread'[k])
<1>1. \A k \in Threads : thread'[k] = IF k = t THEN y ELSE thread[k]
  BY DEF BridgeInv
<1>2. thread' = [k \in Threads |-> thread'[k]]
  BY DEF BridgeInv
<1> QED
  BY <1>1, <1>2 DEF BridgeInv

LEMMA OthersRest ==
    ASSUME BridgeInv, UNCHANGED <<sourceUp, page, pageFail, frame>>, frameFail' \in 0 .. FrameBackoff,
           NEW t \in Threads, NEW y, thread' = [thread EXCEPT ![t] = y], ThreadInv(y)
    PROVE  BridgeInv'
<1>1. thread' = [k \in Threads |-> thread'[k]] /\ \A k \in Threads : ThreadInv(thread'[k])
  BY ThreadMoves
<1> QED
  BY <1>1 DEF BridgeInv

\* A failed load keeps its back-off in bounds.
LEMMA LoadFails ==
    ASSUME BridgeInv, NEW t \in Threads, thread[t].step \in {"page", "request"}, FailLoad(t)
    PROVE  /\ frameFail' \in 0 .. FrameBackoff
           /\ thread' = [thread EXCEPT ![t] = Failed] /\ ThreadInv(Failed)
<1>1. thread[t] \in Loads
  BY DEF BridgeInv, ThreadInv
<1>2. thread[t].since \in Nat /\ FrameBackoff \in Nat
  BY <1>1, LapseFacts, BridgeAssumption DEF Loads
<1>3. ThreadInv(Failed)
  BY DEF ThreadInv, Failed
<1> QED
  BY <1>2, <1>3 DEF FailLoad

\* With the next page a load is still what it was.
LEMMA PageTaken ==
    ASSUME BridgeInv, NEW t \in Threads, thread[t].step \in {"page", "request"},
           Len(thread[t].ages) < Pages, NEW age \in Lapses, age <= PageTTL, TakePage(t, age)
    PROVE  \E y : thread' = [thread EXCEPT ![t] = y] /\ ThreadInv(y)
<1> DEFINE x == thread[t]
           y == [x EXCEPT !.step = "page", !.tries = 0, !.ages = Append(x.ages, age)]
<1>1. x \in Loads /\ \A i \in 1 .. Len(x.ages) : x.ages[i] <= PageTTL + x.since
  BY DEF BridgeInv, ThreadInv
<1>3. thread' = [thread EXCEPT ![t] = y]
  <2>1. thread = [k \in Threads |-> thread[k]]
    BY DEF BridgeInv
  <2> QED
    BY <2>1 DEF TakePage
<1>4. x.ages \in Seq(Lapses) /\ x.since \in Lapses /\ x.asked \in Lapses /\ Pages \in Nat
  BY <1>1, BridgeAssumption DEF Loads
<1>9. Append(x.ages, age) \in Seq(Lapses)
  BY <1>4, AppendProperties
<1>10. y \in Loads /\ y.step = "page" /\ y.since = x.since /\ y.ages = Append(x.ages, age)
  BY <1>1, <1>9 DEF Loads
<1> HIDE DEF x, y
<1>5. /\ y.ages \in Seq(Lapses) /\ Len(y.ages) = Len(x.ages) + 1
      /\ \A i \in 1 .. Len(x.ages) : y.ages[i] = x.ages[i]
      /\ y.ages[Len(x.ages) + 1] = age
  BY <1>4, <1>10, AppendProperties
<1>6. Len(x.ages) \in Nat /\ Len(x.ages) < Pages
  BY <1>4, LenProperties DEF x
<1>7. ASSUME NEW i \in 1 .. Len(y.ages) PROVE y.ages[i] <= PageTTL + x.since
  <2>1. CASE i \in 1 .. Len(x.ages)
    BY <1>1, <1>5, <2>1
  <2>2. CASE i = Len(x.ages) + 1
    <3>1. x.since \in Nat /\ age \in Nat /\ PageTTL \in Nat
      BY <1>4, LapseFacts
    <3> QED
      BY <1>5, <2>2, <3>1
  <2>3. i \in 1 .. Len(x.ages) \/ i = Len(x.ages) + 1
    BY <1>5, <1>6
  <2> QED
    BY <2>1, <2>2, <2>3
<1>8. ThreadInv(y)
  <2>1. Len(y.ages) <= Pages
    BY <1>4, <1>5, <1>6
  <2> QED
    BY <1>7, <1>10, <2>1 DEF ThreadInv
<1> QED
  BY <1>3, <1>8

\* Ages grow together with the time that excuses them.
LEMMA AgedLoad ==
    ASSUME NEW x, ThreadInv(x), x.step \in {"page", "request"}
    PROVE  ThreadInv([x EXCEPT !.since = Older(@), !.asked = Older(@), !.ages = Aged(@)])
<1> DEFINE y == [x EXCEPT !.since = Older(@), !.asked = Older(@), !.ages = Aged(@)]
<1>1. x \in Loads /\ Len(x.ages) <= Pages /\ \A i \in 1 .. Len(x.ages) : x.ages[i] <= PageTTL + x.since
  BY DEF ThreadInv
<1>3. x.ages \in Seq(Lapses) /\ x.since \in Lapses /\ x.asked \in Lapses /\ x.tries \in Nat
  BY <1>1 DEF Loads
<1>4. Len(x.ages) \in Nat /\ DOMAIN x.ages = 1 .. Len(x.ages) /\ \A i \in 1 .. Len(x.ages) : x.ages[i] \in Lapses
  BY <1>3, LenProperties, ElementOfSeq
<1>5. Aged(x.ages) = [i \in 1 .. Len(x.ages) |-> Older(x.ages[i])]
  BY <1>4 DEF Aged
<1>6. Aged(x.ages) \in Seq(Lapses) /\ Len(Aged(x.ages)) = Len(x.ages)
  <2>1. \A i \in 1 .. Len(x.ages) : Older(x.ages[i]) \in Lapses
    BY <1>4, LapseFacts
  <2>2. [i \in 1 .. Len(x.ages) |-> Older(x.ages[i])] \in [1 .. Len(x.ages) -> Lapses]
    BY <2>1
  <2> QED
    BY <1>4, <1>5, <2>2, SeqDef, LenProperties
<1>7. ASSUME NEW i \in 1 .. Len(x.ages) PROVE Aged(x.ages)[i] <= PageTTL + Older(x.since)
  <2>1. Aged(x.ages)[i] = Older(x.ages[i]) /\ x.ages[i] \in Lapses /\ x.ages[i] <= PageTTL + x.since
    BY <1>1, <1>4, <1>5
  <2>2. PICK a \in Lapses : a = x.ages[i]
    BY <2>1
  <2>3. PICK s \in Lapses : s = x.since
    BY <1>3
  <2>4. Older(a) <= PageTTL + Older(s)
    <3>1. CASE s < Horizon
      BY <2>1, <2>2, <2>3, <3>1, LapseFacts
    <3>2. CASE ~(s < Horizon)
      <4>1. Older(a) \in Lapses /\ Older(s) = Horizon
        BY <3>2, LapseFacts
      <4>2. Older(a) <= Horizon /\ Older(a) \in Nat
        BY <4>1, LapseFacts
      <4> QED
        BY <4>1, <4>2, LapseFacts
    <3> QED
      BY <3>1, <3>2
  <2> QED
    BY <2>1, <2>2, <2>3, <2>4
<1>8. y \in Loads /\ y.step = x.step /\ y.since = Older(x.since) /\ y.ages = Aged(x.ages)
  <2>1. Older(x.since) \in Lapses /\ Older(x.asked) \in Lapses
    BY <1>3, LapseFacts
  <2> QED
    BY <1>1, <1>6, <2>1 DEF Loads
<1> HIDE DEF y
<1>9. ThreadInv(y)
  BY <1>1, <1>6, <1>7, <1>8 DEF ThreadInv
<1> QED
  BY <1>9 DEF y

\* A frame that lies on, or the ages of a thread's: one older, and one less left.
LEMMA AgedFrame ==
    ASSUME NEW x, FrameInv(x), x # Nothing, x.left # 1
    PROVE  FrameInv([left |-> x.left - 1, ages |-> Aged(x.ages)])
<1> DEFINE y == [left |-> x.left - 1, ages |-> Aged(x.ages)]
<1>1. /\ x.left \in 1 .. FrameTTL /\ x.ages \in [PageNumbers -> Lapses]
      /\ \A p \in PageNumbers : x.ages[p] + x.left <= PageTTL + FrameTTL
  BY DEF FrameInv
<1>2. Aged(x.ages) = [p \in PageNumbers |-> Older(x.ages[p])]
  BY <1>1 DEF Aged
<1>3. \A p \in PageNumbers : Older(x.ages[p]) \in Lapses /\ Older(x.ages[p]) <= x.ages[p] + 1
                           /\ x.ages[p] \in Nat /\ Older(x.ages[p]) \in Nat
  BY <1>1, LapseFacts
<1>4. y.left \in 1 .. FrameTTL /\ y.ages \in [PageNumbers -> Lapses]
  BY <1>1, <1>2, <1>3, LapseFacts
<1>5. ASSUME NEW p \in PageNumbers PROVE y.ages[p] + y.left <= PageTTL + FrameTTL
  <2>1. y.ages[p] = Older(x.ages[p]) /\ y.left = x.left - 1 /\ x.left \in Nat
    BY <1>1, <1>2, LapseFacts
  <2> HIDE DEF y
  <2>2. PICK o \in Nat, a \in Nat : o = Older(x.ages[p]) /\ a = x.ages[p] /\ o <= a + 1
    BY <1>3
  <2>3. a + x.left <= PageTTL + FrameTTL
    BY <1>1, <2>2
  <2> QED
    BY <2>1, <2>2, <2>3, LapseFacts
<1> QED
  BY <1>4, <1>5 DEF FrameInv

LEMMA AgedPage ==
    ASSUME NEW x, PageInv(x), x # Nothing, x.left # 0
    PROVE  PageInv([left |-> x.left - 1, age |-> Older(x.age)])
<1>1. x.left \in 0 .. PageTTL /\ x.age \in Lapses /\ x.age + x.left <= PageTTL
  BY DEF PageInv
<1>2. Older(x.age) \in Lapses /\ Older(x.age) <= x.age + 1 /\ x.age \in Nat /\ Older(x.age) \in Nat
  BY <1>1, LapseFacts
<1> QED
  BY <1>1, <1>2, LapseFacts DEF PageInv

\* A back-off that is counted down, cleared or set stays one.
LEMMA BackoffFacts ==
    /\ PageBackoff \in Nat /\ 0 \in 0 .. PageBackoff /\ PageBackoff \in 0 .. PageBackoff
    /\ \A m \in Nat : \A n \in 0 .. m : Sooner(n) \in 0 .. m
    /\ FrameBackoff \in Nat
<1>1. PageBackoff \in Nat /\ FrameBackoff \in Nat
  BY BridgeAssumption
<1>2. \A m \in Nat : \A n \in 0 .. m : Sooner(n) \in 0 .. m
  BY DEF Sooner
<1> QED
  BY <1>1, <1>2

LEMMA TimeKeeps ==
    ASSUME BridgeInv, PassTime
    PROVE  BridgeInv'
<1>1. PageInv(Nothing) /\ FrameInv(Nothing) /\ ThreadInv(NoRequest)
  BY DEF PageInv, FrameInv, ThreadInv, NoRequest
<1>2. page' = [p \in PageNumbers |-> page'[p]] /\ \A p \in PageNumbers : PageInv(page'[p])
  <2>1. \A p \in PageNumbers :
            page'[p] = IF page[p] = Nothing \/ page[p].left = 0 THEN Nothing
                       ELSE [left |-> page[p].left - 1, age |-> Older(page[p].age)]
    BY DEF PassTime
  <2>2. \A p \in PageNumbers : PageInv(page[p])
    BY DEF BridgeInv
  <2>3. page' = [p \in PageNumbers |-> page'[p]]
    BY DEF PassTime
  <2> QED
    BY <1>1, <2>1, <2>2, <2>3, AgedPage
<1>3. pageFail' \in [PageNumbers -> 0 .. PageBackoff]
  <2>1. pageFail' = [p \in PageNumbers |-> Sooner(pageFail[p])]
    BY DEF PassTime
  <2>2. \A p \in PageNumbers : Sooner(pageFail[p]) \in 0 .. PageBackoff
    BY BackoffFacts DEF BridgeInv
  <2> QED
    BY <2>1, <2>2
<1>4. FrameInv(frame')
  BY <1>1, AgedFrame DEF PassTime, BridgeInv
<1>5. frameFail' \in 0 .. FrameBackoff
  <2>1. frameFail' = Sooner(frameFail) /\ frameFail \in 0 .. FrameBackoff
    BY DEF PassTime, BridgeInv
  <2> QED
    BY <2>1, BackoffFacts
<1>6. thread' = [t \in Threads |-> thread'[t]] /\ \A t \in Threads : ThreadInv(thread'[t])
  <2>1. \A t \in Threads :
            thread'[t] = IF thread[t].step \in {"page", "request"}
                         THEN [thread[t] EXCEPT !.since = Older(@), !.asked = Older(@), !.ages = Aged(@)]
                         ELSE NoRequest
    BY DEF PassTime
  <2>2. thread' = [t \in Threads |-> thread'[t]]
    BY DEF PassTime
  <2>3. ASSUME NEW t \in Threads PROVE ThreadInv(thread'[t])
    <3>1. ThreadInv(thread[t])
      BY DEF BridgeInv
    <3>2. CASE thread[t].step \in {"page", "request"}
      <4>1. thread'[t] = [thread[t] EXCEPT !.since = Older(@), !.asked = Older(@), !.ages = Aged(@)]
        BY <2>1, <3>2
      <4> QED
        BY <3>1, <3>2, <4>1, AgedLoad
    <3>3. CASE thread[t].step \notin {"page", "request"}
      BY <1>1, <2>1, <3>3
    <3> QED
      BY <3>2, <3>3
  <2> QED
    BY <2>2, <2>3
<1>7. sourceUp' \in BOOLEAN
  BY DEF PassTime, BridgeInv
<1> QED
  BY <1>2, <1>3, <1>4, <1>5, <1>6, <1>7 DEF BridgeInv

LEMMA FrameKeeps ==
    ASSUME BridgeInv, NEW t \in Threads, StoreFrame(t)
    PROVE  BridgeInv'
<1> DEFINE x == thread[t]
           y == [step |-> "served", ages |-> x.ages, kept |-> x.since]
<1>1. /\ x.step = "page" /\ Len(x.ages) + 1 > Pages
      /\ frame' = IF FrameTTL - x.since > 0 THEN [left |-> FrameTTL - x.since, ages |-> x.ages] ELSE Nothing
      /\ frameFail' = 0 /\ thread' = [thread EXCEPT ![t] = y]
      /\ sourceUp' = sourceUp /\ page' = page /\ pageFail' = pageFail
  BY DEF StoreFrame, Current, FrameLeft, Serve
<1>2. x \in Loads /\ Len(x.ages) <= Pages /\ \A i \in 1 .. Len(x.ages) : x.ages[i] <= PageTTL + x.since
  BY <1>1 DEF BridgeInv, ThreadInv
<1>3. x.ages \in Seq(Lapses) /\ x.since \in Lapses /\ x.since \in Nat /\ Pages \in Nat
  BY <1>2, LapseFacts, BridgeAssumption DEF Loads
<1>4. Len(x.ages) \in Nat /\ x.ages \in [1 .. Len(x.ages) -> Lapses]
  BY <1>3, LenProperties
<1>5. Len(x.ages) = Pages
  BY <1>1, <1>2, <1>3, <1>4
<1>6. x.ages \in [PageNumbers -> Lapses] /\ \A p \in PageNumbers : x.ages[p] <= PageTTL + x.since
  BY <1>2, <1>4, <1>5 DEF PageNumbers
<1>7. ThreadInv(y)
  BY <1>6 DEF ThreadInv
<1> HIDE DEF x
<1>8. FrameInv(frame')
  <2>1. CASE FrameTTL - x.since > 0
    <3> DEFINE f == [left |-> FrameTTL - x.since, ages |-> x.ages]
    <3>1. f.left = FrameTTL - x.since /\ f.left \in 1 .. FrameTTL /\ f.ages = x.ages
      BY <1>3, <2>1, LapseFacts
    <3>2. ASSUME NEW p \in PageNumbers PROVE f.ages[p] + f.left <= PageTTL + FrameTTL
      <4>1. x.ages[p] \in Nat /\ x.ages[p] <= PageTTL + x.since
        BY <1>6, LapseFacts
      <4> HIDE DEF f
      <4> QED
        BY <1>3, <3>1, <4>1, LapseFacts
    <3>3. frame' = f
      BY <1>1, <2>1
    <3> HIDE DEF f
    <3> QED
      BY <1>6, <3>1, <3>2, <3>3 DEF FrameInv
  <2>2. CASE ~(FrameTTL - x.since > 0)
    BY <1>1, <2>2 DEF FrameInv
  <2> QED
    BY <2>1, <2>2
<1> HIDE DEF y
<1>9. thread' = [k \in Threads |-> thread'[k]] /\ \A k \in Threads : ThreadInv(thread'[k])
  BY <1>1, <1>7, ThreadMoves
<1>10. frameFail' \in 0 .. FrameBackoff
  BY <1>1, BridgeAssumption
<1> QED
  BY <1>1, <1>8, <1>9, <1>10 DEF BridgeInv

LEMMA ArrivalKeeps ==
    ASSUME BridgeInv, NEW t \in Threads, PageArrives(t)
    PROVE  BridgeInv'
<1> DEFINE x == thread[t]
           p == Current(t)
<1>1. /\ x.step = "request" /\ TakePage(t, 0)
      /\ page' = [page EXCEPT ![p] = IF PageTTL >= x.asked THEN [left |-> PageTTL - x.asked, age |-> 0]
                                     ELSE Nothing]
      /\ pageFail' = [pageFail EXCEPT ![p] = 0]
      /\ sourceUp' = sourceUp /\ frame' = frame /\ frameFail' = frameFail
  BY DEF PageArrives
<1>2. x \in Loads /\ Len(x.ages) < Pages
  BY <1>1 DEF BridgeInv, ThreadInv
<1>3. x.asked \in Nat
  BY <1>2, LapseFacts DEF Loads
<1>4. 0 \in Lapses /\ 0 <= PageTTL
  BY LapseFacts DEF Lapses
<1>5. PICK y : thread' = [thread EXCEPT ![t] = y] /\ ThreadInv(y)
  BY <1>1, <1>2, <1>4, PageTaken
<1>6. thread' = [k \in Threads |-> thread'[k]] /\ \A k \in Threads : ThreadInv(thread'[k])
  BY <1>5, ThreadMoves
<1> HIDE DEF x, p
<1>7. PageInv(IF PageTTL >= x.asked THEN [left |-> PageTTL - x.asked, age |-> 0] ELSE Nothing)
  BY <1>3, <1>4, LapseFacts DEF PageInv
<1>8. page' = [k \in PageNumbers |-> page'[k]] /\ \A k \in PageNumbers : PageInv(page'[k])
  <2>1. page = [k \in PageNumbers |-> page[k]] /\ \A k \in PageNumbers : PageInv(page[k])
    BY DEF BridgeInv
  <2>2. PICK z : page' = [page EXCEPT ![p] = z] /\ PageInv(z)
    BY <1>1, <1>7
  <2>3. \A k \in PageNumbers : page'[k] = IF k = p THEN z ELSE page[k]
    BY <2>1, <2>2
  <2>4. page' = [k \in PageNumbers |-> page'[k]]
    BY <2>1, <2>2
  <2> QED
    BY <2>1, <2>2, <2>3, <2>4
<1>9. pageFail' \in [PageNumbers -> 0 .. PageBackoff]
  <2>1. pageFail \in [PageNumbers -> 0 .. PageBackoff] /\ 0 \in 0 .. PageBackoff
    BY BackoffFacts DEF BridgeInv
  <2> QED
    BY <1>1, <2>1
<1> QED
  BY <1>1, <1>6, <1>8, <1>9 DEF BridgeInv

LEMMA BridgeStep ==
    ASSUME BridgeInv, [BridgeNext]_bridgeVars
    PROVE  BridgeInv'
<1>1. CASE SourceTurns
  BY <1>1 DEF SourceTurns, BridgeInv
<1>2. CASE PassTime
  BY <1>2, TimeKeeps
<1>3. ASSUME NEW t \in Threads, ThreadStep(t)
      PROVE  BridgeInv'
  <2> DEFINE x == thread[t]
  <2>0. ThreadInv(x) /\ frameFail \in 0 .. FrameBackoff
    BY DEF BridgeInv
  <2>1. CASE AskFresh(t)
    <3> DEFINE y == [step |-> "served", ages |-> frame.ages, kept |-> FrameTTL]
    <3>1. thread' = [thread EXCEPT ![t] = y] /\ frame # Nothing
          /\ UNCHANGED <<sourceUp, page, pageFail, frame, frameFail>>
      BY <2>1 DEF AskFresh, Serve
    <3>2. ASSUME NEW p \in PageNumbers PROVE frame.ages[p] <= PageTTL + FrameTTL
      <4>1. frame.left \in 1 .. FrameTTL /\ frame.ages[p] \in Lapses
            /\ frame.ages[p] + frame.left <= PageTTL + FrameTTL
        BY <3>1 DEF BridgeInv, FrameInv
      <4> QED
        BY <4>1, LapseFacts
    <3>3. ThreadInv(y)
      BY <3>2 DEF ThreadInv
    <3> HIDE DEF y
    <3> QED
      BY <2>0, <3>1, <3>3, OthersRest
  <2>2. CASE AskLoad(t)
    <3> DEFINE y == [step |-> "page", since |-> 0, asked |-> 0, tries |-> 0, ages |-> <<>>]
    <3>1. ThreadInv(y)
      <4>1. y \in Loads /\ y.step = "page" /\ Len(y.ages) = 0 /\ Pages \in Nat
        BY LapseFacts, BridgeAssumption DEF Loads, Lapses
      <4> HIDE DEF y
      <4> QED
        BY <4>1 DEF ThreadInv
    <3>2. thread' = [thread EXCEPT ![t] = y] /\ UNCHANGED <<sourceUp, page, pageFail, frame, frameFail>>
      BY <2>2 DEF AskLoad
    <3> HIDE DEF y
    <3> QED
      BY <2>0, <3>1, <3>2, OthersRest
  <2>3. CASE AskRefused(t)
    <3>1. ThreadInv(Failed) /\ frameFail' = frameFail
      BY <2>3 DEF ThreadInv, Failed, AskRefused, RefusedUntil
    <3>2. thread' = [thread EXCEPT ![t] = Failed] /\ UNCHANGED <<sourceUp, page, pageFail, frame>>
      BY <2>3 DEF AskRefused
    <3> QED
      BY <2>0, <3>1, <3>2, OthersRest
  <2>4. CASE StoreFrame(t)
    BY <2>4, FrameKeeps
  <2>5. CASE PageInBackoff(t)
    <3>1. frameFail' \in 0 .. FrameBackoff /\ thread' = [thread EXCEPT ![t] = Failed] /\ ThreadInv(Failed)
      BY <2>5, LoadFails DEF PageInBackoff
    <3> QED
      BY <2>5, <3>1, OthersRest DEF PageInBackoff
  <2>6. CASE PageCached(t)
    <3>1. x.step = "page" /\ Len(x.ages) < Pages /\ x \in Loads
      <4>1. x.step = "page" /\ Len(x.ages) + 1 <= Pages /\ x \in Loads
        BY <2>0, <2>6 DEF PageCached, Current, ThreadInv
      <4>2. Len(x.ages) \in Nat /\ Pages \in Nat
        BY <4>1, LenProperties, BridgeAssumption DEF Loads
      <4> QED
        BY <4>1, <4>2
    <3>2. Current(t) \in PageNumbers
      <4>1. Len(x.ages) \in Nat /\ Pages \in Nat
        BY <3>1, LenProperties, BridgeAssumption DEF Loads
      <4> QED
        BY <3>1, <4>1 DEF Current, PageNumbers
    <3>3. page[Current(t)].age \in Lapses /\ page[Current(t)].age <= PageTTL
      <4>1. PageInv(page[Current(t)]) /\ page[Current(t)] # Nothing
        BY <2>6, <3>2 DEF BridgeInv, PageCached
      <4>2. /\ page[Current(t)].left \in 0 .. PageTTL /\ page[Current(t)].age \in Lapses
            /\ page[Current(t)].age + page[Current(t)].left <= PageTTL
        BY <4>1 DEF PageInv
      <4> QED
        BY <4>2, LapseFacts
    <3>4. TakePage(t, page[Current(t)].age) /\ UNCHANGED <<sourceUp, page, pageFail, frame, frameFail>>
      BY <2>6 DEF PageCached
    <3>5. PICK y : thread' = [thread EXCEPT ![t] = y] /\ ThreadInv(y)
      BY <3>1, <3>3, <3>4, PageTaken
    <3> QED
      BY <2>0, <3>4, <3>5, OthersRest
  <2>7. CASE PageAsked(t)
    <3> DEFINE y == [x EXCEPT !.step = "request", !.asked = 0]
    <3>1. x.step = "page" /\ Len(x.ages) < Pages /\ x \in Loads
          /\ \A i \in 1 .. Len(x.ages) : x.ages[i] <= PageTTL + x.since
      <4>1. x.step = "page" /\ Len(x.ages) + 1 <= Pages /\ x \in Loads
            /\ \A i \in 1 .. Len(x.ages) : x.ages[i] <= PageTTL + x.since
        BY <2>0, <2>7 DEF PageAsked, Current, ThreadInv
      <4>2. Len(x.ages) \in Nat /\ Pages \in Nat
        BY <4>1, LenProperties, BridgeAssumption DEF Loads
      <4> QED
        BY <4>1, <4>2
    <3>2. thread' = [thread EXCEPT ![t] = y] /\ UNCHANGED <<sourceUp, page, pageFail, frame, frameFail>>
      BY <2>7 DEF PageAsked, BridgeInv
    <3>3. y \in Loads /\ y.step = "request" /\ y.ages = x.ages /\ y.since = x.since
      <4>1. 0 \in Lapses
        BY LapseFacts DEF Lapses
      <4> HIDE DEF x
      <4> QED
        BY <3>1, <4>1 DEF Loads
    <3> HIDE DEF y
    <3>4. ThreadInv(y)
      <4>1. Len(x.ages) <= Pages
        BY <2>0, <3>1 DEF ThreadInv
      <4> QED
        BY <3>1, <3>3, <4>1 DEF ThreadInv
    <3> QED
      BY <2>0, <3>2, <3>4, OthersRest
  <2>8. CASE PageArrives(t)
    BY <2>8, ArrivalKeeps
  <2>9. CASE PageFails(t)
    <3>1. x.step = "request" /\ x \in Loads /\ UNCHANGED <<sourceUp, page, frame>>
      BY <2>0, <2>9 DEF PageFails, ThreadInv
    <3>2. CASE x.tries + 1 < PageAttempts
      <4> DEFINE y == [x EXCEPT !.tries = @ + 1]
      <4>1. thread' = [thread EXCEPT ![t] = y] /\ UNCHANGED <<pageFail, frameFail>>
        BY <2>9, <3>2 DEF PageFails, BridgeInv
      <4>2. y \in Loads /\ y.step = "request" /\ y.ages = x.ages /\ y.since = x.since
        <5>1. x.tries \in Nat
          BY <3>1 DEF Loads
        <5> HIDE DEF x
        <5> QED
          BY <3>1, <5>1 DEF Loads
      <4> HIDE DEF y
      <4>3. ThreadInv(y)
        BY <2>0, <3>1, <4>2 DEF ThreadInv
      <4> QED
        BY <2>0, <3>1, <4>1, <4>3, OthersRest
    <3>3. CASE ~(x.tries + 1 < PageAttempts)
      <4>1. pageFail' = [pageFail EXCEPT ![Current(t)] = PageBackoff] /\ FailLoad(t)
        BY <2>9, <3>3 DEF PageFails
      <4>2. frameFail' \in 0 .. FrameBackoff /\ thread' = [thread EXCEPT ![t] = Failed] /\ ThreadInv(Failed)
        BY <3>1, <4>1, LoadFails
      <4>3. pageFail' \in [PageNumbers -> 0 .. PageBackoff]
        <5>1. pageFail \in [PageNumbers -> 0 .. PageBackoff] /\ PageBackoff \in 0 .. PageBackoff
          BY BackoffFacts DEF BridgeInv
        <5> QED
          BY <4>1, <5>1
      <4>4. thread' = [k \in Threads |-> thread'[k]] /\ \A k \in Threads : ThreadInv(thread'[k])
        BY <4>2, ThreadMoves
      <4> QED
        BY <3>1, <4>2, <4>3, <4>4 DEF BridgeInv
    <3> QED
      BY <3>2, <3>3
  <2> QED
    BY <1>3, <2>1, <2>2, <2>3, <2>4, <2>5, <2>6, <2>7, <2>8, <2>9 DEF ThreadStep
<1>4. CASE UNCHANGED bridgeVars
  BY <1>4 DEF bridgeVars, BridgeInv
<1> QED
  BY <1>1, <1>2, <1>3, <1>4 DEF BridgeNext

LEMMA InitBridge == BridgeInit => BridgeInv
<1> SUFFICES ASSUME BridgeInit PROVE BridgeInv
  OBVIOUS
<1>1. PageInv(Nothing) /\ FrameInv(Nothing) /\ ThreadInv(NoRequest)
  BY DEF PageInv, FrameInv, ThreadInv, NoRequest
<1> QED
  BY <1>1, BridgeAssumption DEF BridgeInit, BridgeInv

LEMMA BridgeInvariant == BridgeSpec => []BridgeInv
<1>1. BridgeInv /\ [BridgeNext]_bridgeVars => BridgeInv'
  BY BridgeStep
<1> QED
  BY <1>1, InitBridge, PTL DEF BridgeSpec

LEMMA BridgeInvImplies == BridgeInv => StalenessBounded
  BY DEF BridgeInv, ThreadInv, StalenessBounded

\* No forecast is served that left the source longer ago than the lifetimes of page and
\* frame together, for any threads, pages, lifetimes, back-offs and attempts: the two
\* caches do not add up to more, whichever threads fill them and however long a load takes.
THEOREM ForecastsFresh == BridgeSpec => []StalenessBounded
  BY BridgeInvImplies, BridgeInvariant, PTL

-----------------------------------------------------------------------------
(* The composition.                                                          *)

\* A part moves by a step of its own, or rests.
LEMMA DataSteps ==
    ASSUME [DataNext]_dataVars
    PROVE  /\ [StoreNext]_storeVars /\ [SnapshotsNext]_snapshotVars
           /\ [BridgeNext]_bridgeVars /\ [ComputationsNext]_computationVars
           /\ part' = part
<1>1. CASE Alone("bridge", BridgeNext, besideBridge)
  BY <1>1 DEF Alone, besideBridge
<1>2. CASE Alone("snapshots", SnapshotsNext, besideSnapshots)
  BY <1>2 DEF Alone, besideSnapshots
<1>3. CASE Alone("store", StoreNext, besideStore)
  BY <1>3 DEF Alone, besideStore
<1>4. CASE Alone("computations", ComputationsNext, besideComputations)
  BY <1>4 DEF Alone, besideComputations
<1>5. CASE UNCHANGED dataVars
  BY <1>5 DEF dataVars
<1> QED
  BY <1>1, <1>2, <1>3, <1>4, <1>5 DEF DataNext

SubjectInv == subject \in {"none", "factor", "feature", "score", "clusters", "events"}

DataInv == part \in Parts /\ StoreInv /\ SnapshotsInv /\ BridgeInv /\ SubjectInv

LEMMA DataInvariant == DataSpec => []DataInv
<1>1. DataInit => DataInv
  BY InitStore, InitSnapshots, InitBridge DEF DataInit, DataInv, ComputationsInit, SubjectInv
<1>2. DataInv /\ [DataNext]_dataVars => DataInv'
  <2> SUFFICES ASSUME DataInv, [DataNext]_dataVars PROVE DataInv'
    OBVIOUS
  <2>1. /\ [StoreNext]_storeVars /\ [SnapshotsNext]_snapshotVars
        /\ [BridgeNext]_bridgeVars /\ [ComputationsNext]_computationVars /\ part' = part
    BY DataSteps
  <2>2. SubjectInv'
    BY <2>1 DEF DataInv, SubjectInv, ComputationsNext, computationVars, CalculateFactor,
                ComputeFeature, ScoreAsset, ClusterFeed, MergeEvents
  <2> QED
    BY <2>1, <2>2, StoreStep, SnapshotsStep, BridgeStep DEF DataInv
<1> QED
  BY <1>1, <1>2, PTL DEF DataSpec

\* Every behaviour of the way of the data is one of each of its parts.
THEOREM DataRunsParts ==
    DataSpec => /\ StoreSpec /\ SnapshotsSpec /\ ComputationsSpec
                /\ BridgeInit /\ [][BridgeNext]_bridgeVars
<1>1. DataInit => StoreInit /\ SnapshotsInit /\ BridgeInit /\ ComputationsInit
  BY DEF DataInit
<1>2. [DataNext]_dataVars => /\ [StoreNext]_storeVars /\ [SnapshotsNext]_snapshotVars
                            /\ [BridgeNext]_bridgeVars /\ [ComputationsNext]_computationVars
  BY DataSteps
<1> QED
  BY <1>1, <1>2, PTL DEF DataSpec, StoreSpec, SnapshotsSpec, ComputationsSpec

\* The variables of the parts keep their types, whichever part moves.
THEOREM DataWellTyped == DataSpec => []DataTypeOK
<1>1. BridgeInv => BridgeTypeOK
  BY DEF BridgeInv, BridgeTypeOK, PageInv, FrameInv, ThreadInv, Lapses
<1>2. SnapshotsInv => SnapshotsTypeOK
  BY DEF SnapshotsInv, SnapshotsTypeOK, FetchInv
<1>3. DataInv => DataTypeOK
  BY <1>1, <1>2 DEF DataInv, DataTypeOK, StoreInv, SubjectInv
<1> QED
  BY <1>3, DataInvariant, PTL

\* What the three stateful parts promise, and the factors, features, scores and events computed
\* on what they hold, is kept in their composition, whichever part moves.
THEOREM DataKeepsPromises ==
    DataSpec => [](/\ VintageExact /\ StoredHistoryKept /\ EarningsPointInTime
                   /\ StalenessBounded /\ WholeOrMuted /\ AgeingNeverHelps /\ DirectionKept
                   /\ ScoreSound /\ EventsMergeOnce)
<1>1. DataSpec => [](VintageExact /\ StoredHistoryKept)
  BY DataRunsParts, StoredExactly, HistoryKept, PTL
<1>2. DataSpec => []EarningsPointInTime
  BY DataRunsParts, RevisionsPointInTime, PTL
<1>3. BridgeInv => StalenessBounded
  BY BridgeInvImplies
<1>4. DataSpec => []BridgeInv
  <2>1. DataInv => BridgeInv
    BY DEF DataInv
  <2> QED
    BY <2>1, DataInvariant, PTL
<1>5. DataSpec => [](WholeOrMuted /\ AgeingNeverHelps)
  BY DataRunsParts, GapsAreMuted, OlderIsNoBetter, PTL
<1>6. DataSpec => [](DirectionKept /\ ScoreSound /\ EventsMergeOnce)
  BY DataRunsParts, ScoresPointRight, ScoresAreSound, NothingCountsTwice, PTL
<1> QED
  BY <1>1, <1>2, <1>3, <1>4, <1>5, <1>6, PTL
=============================================================================
