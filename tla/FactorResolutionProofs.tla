----------------------- MODULE FactorResolutionProofs -----------------------
(***************************************************************************)
(* Theorems about the resolution of factors and the quality gate, for any  *)
(* factors, assets, weights, limits, thresholds, inputs and times.         *)
(***************************************************************************)
EXTENDS QualityGate, NumberFacts

RunRecord == [asof : AsOfTimes, rows : [RowKeys -> Row]]

(* What a run hands to ResolveRow: an input of the factor, or none, and the   *)
(* run to carry the row from, or none.                                        *)
Legal(i, j, t) ==
    /\ i \in Inputs \cup {NoInput}
    /\ j = Nothing \/ (j \in 1 .. Len(runs) /\ runs[j].asof < t)

(* A stored row with coverage exactly when its factor is available.           *)
Sound(row) ==
    /\ row \in Row
    /\ row.coverage = 0 <=> row.status = "UNAVAILABLE"

(* A stored run, and its time.                                                *)
LEMMA StoredRun ==
    ASSUME TypeOK, NEW j \in 1 .. Len(runs)
    PROVE  runs[j] \in RunRecord /\ runs[j].asof \in Nat
<1>1. runs \in Seq(RunRecord)
    BY DEF TypeOK, RunRecord
<1>2. runs[j] \in RunRecord
    BY <1>1
<1>3. runs[j].asof \in AsOfTimes
    BY <1>2 DEF RunRecord
<1> QED
    BY <1>2, <1>3, FactorAssumption

(* Coverage never leaves 25 .. 100, whatever the age.                         *)
LEMMA CoverageRange ==
    ASSUME NEW f \in Factors, NEW age \in Nat
    PROVE  CoverageAt(f, age) \in 25 .. 100
<1> DEFINE loss == (100 * age) \div MaxStale[f]
<1>1. MaxStale[f] \in Nat /\ MaxStale[f] > 0
    BY FactorAssumption
<1>2. loss \in Int /\ loss >= 0
    BY <1>1
<1> HIDE DEF loss
<1>3. CoverageAt(f, age) = Larger(25, 100 - loss)
    BY DEF CoverageAt, loss
<1> QED
    BY <1>2, <1>3 DEF Larger

(* The run that a row is carried from is about an earlier time.               *)
LEMMA CandidatesLegal ==
    ASSUME NEW t \in AsOfTimes, NEW seen \in 0 .. Len(runs), NEW j \in Candidates(seen, t),
           Len(runs) \in Nat
    PROVE  j = Nothing \/ (j \in 1 .. Len(runs) /\ runs[j].asof < t)
BY DEF Candidates, LatestBefore, Earlier

(* Each of the ways to resolve a row yields a row, with coverage exactly when *)
(* the factor is available, resting on nothing later than the run.            *)
LEMMA ResolvedSound ==
    ASSUME TypeOK, PointInTime, NEW k \in RowKeys, NEW t \in AsOfTimes,
           NEW scanned \in BOOLEAN, NEW moved, NEW i, NEW j, Legal(i, j, t)
    PROVE  LET row == ResolveRow(k, i, j, t, scanned, moved)
           IN  Sound(row) /\ row.basis <= t
<1> DEFINE row == ResolveRow(k, i, j, t, scanned, moved)
<1>f. k[1] \in Factors
    BY DEF RowKeys
<1>t. t \in Nat /\ t > 0
    BY FactorAssumption
<1>1. CASE Usable(k[1], i)
  <2>1. i \in Inputs /\ i.status \in InputStatus /\ i.age \in Nat /\ i.age < t
      BY <1>1, FactorAssumption DEF Usable, Legal
  <2>2. row = FromInput(k[1], i, t)
      BY <1>1 DEF ResolveRow
  <2>3. EffectiveStatus(k[1], i) \in InputStatus
      BY <2>1 DEF EffectiveStatus, InputStatus
  <2>4. CoverageAt(k[1], i.age) \in 25 .. 100
      BY <1>f, <2>1, CoverageRange
  <2>5. row.coverage \in 25 .. 100 /\ row.status \in InputStatus /\ row.lkg \in BOOLEAN
      BY <2>2, <2>3, <2>4 DEF FromInput
  <2>6. row.basis \in Nat /\ row.basis <= t
      BY <1>t, <2>1, <2>2 DEF FromInput
  <2>7. row = [status |-> row.status, coverage |-> row.coverage, lkg |-> row.lkg, basis |-> row.basis]
      BY <2>2 DEF FromInput
  <2> QED
      BY <2>5, <2>6, <2>7 DEF Sound, Row, InputStatus
<1>2. CASE ~Usable(k[1], i) /\ UsesPrevious(k[1], j, t)
  <2>1. j \in 1 .. Len(runs) /\ runs[j].asof < t
      BY <1>2 DEF UsesPrevious, Legal
  <2>2. runs[j] \in RunRecord /\ runs[j].asof \in Nat
      BY <2>1, StoredRun
  <2>3. row = FromPrevious(k, j, t)
      BY <1>2 DEF ResolveRow
  <2>4. HoursBetween(t, runs[j].asof) \in Nat
      BY <1>t, <2>2 DEF HoursBetween
  <2>5. row.coverage \in 25 .. 100
      BY <1>f, <2>3, <2>4, CoverageRange DEF FromPrevious
  <2>6. runs[j].rows[k] \in Row
      BY <2>2 DEF RunRecord
  <2>7. row.basis \in Nat /\ row.basis <= runs[j].asof
      BY <2>1, <2>3, <2>6 DEF FromPrevious, PointInTime, Row
  <2>8. row.basis <= t
      BY <1>t, <2>1, <2>2, <2>7
  <2> QED
      BY <2>3, <2>5, <2>7, <2>8 DEF FromPrevious, Sound, Row, InputStatus
<1>3. CASE ~Usable(k[1], i) /\ ~UsesPrevious(k[1], j, t)
  <2>1. row \in {EventOnly(t), Neutral(t), Unavailable}
      BY <1>3 DEF ResolveRow
  <2>2. Sound(EventOnly(t)) /\ EventOnly(t).basis <= t
      BY <1>t DEF EventOnly, Sound, Row, InputStatus
  <2>3. Sound(Neutral(t)) /\ Neutral(t).basis <= t
      BY <1>t DEF Neutral, Sound, Row, InputStatus
  <2>4. Sound(Unavailable) /\ Unavailable.basis <= t
      BY <1>t DEF Unavailable, Nothing, Sound, Row
  <2> QED
      BY <2>1, <2>2, <2>3, <2>4
<1> QED
    BY <1>1, <1>2, <1>3

(* A row that carries the flag was carried, from a run not too far back.      *)
LEMMA CarriedSound ==
    ASSUME TypeOK, NEW k \in RowKeys, NEW t \in AsOfTimes, NEW scanned \in BOOLEAN, NEW moved,
           NEW i, NEW j, Legal(i, j, t), ResolveRow(k, i, j, t, scanned, moved).lkg
    PROVE  /\ j \in 1 .. Len(runs)
           /\ runs[j].asof < t
           /\ t <= runs[j].asof + MaxStale[k[1]]
           /\ ResolveRow(k, i, j, t, scanned, moved).basis = runs[j].rows[k].basis
<1>1. ~Usable(k[1], i) /\ UsesPrevious(k[1], j, t)
    BY DEF ResolveRow, FromInput, EventOnly, Neutral, Unavailable
<1>2. j \in 1 .. Len(runs) /\ runs[j].asof < t
    BY <1>1 DEF UsesPrevious, Legal
<1>3. runs[j].asof \in Nat /\ t \in Nat /\ MaxStale[k[1]] \in Nat
  <2>1. k[1] \in Factors
      BY DEF RowKeys
  <2> QED
      BY <1>2, <2>1, StoredRun, FactorAssumption
<1>4. t - runs[j].asof <= MaxStale[k[1]]
    BY <1>1, <1>2, <1>3 DEF UsesPrevious, HoursBetween
<1>5. ResolveRow(k, i, j, t, scanned, moved).basis = runs[j].rows[k].basis
    BY <1>1 DEF ResolveRow, FromPrevious
<1> QED
    BY <1>2, <1>3, <1>4, <1>5

(* A row counts for nothing, or it was carried over, or it is recent.         *)
RecentRow(row, t, f) ==
    \/ row.basis # Nothing /\ row.basis >= t - MaxStale[f]
    \/ row.status = "PARTIAL"

CarriedOrRecent(row, t, f) == row.coverage = 0 \/ row.lkg \/ RecentRow(row, t, f)

LEMMA ResolvedRecent ==
    ASSUME NEW k \in RowKeys, NEW t \in AsOfTimes, NEW scanned \in BOOLEAN, NEW moved,
           NEW i, NEW j, Legal(i, j, t)
    PROVE  CarriedOrRecent(ResolveRow(k, i, j, t, scanned, moved), t, k[1])
<1> DEFINE row == ResolveRow(k, i, j, t, scanned, moved)
<1>t. t \in Nat /\ t > 0 /\ MaxStale[k[1]] \in Nat
    BY FactorAssumption DEF RowKeys
<1>1. CASE Usable(k[1], i)
  <2>1. row = FromInput(k[1], i, t)
      BY <1>1 DEF ResolveRow
  <2>2. i \in Inputs /\ i.status \in InputStatus /\ i.age \in Nat /\ i.age < t
      BY <1>1, FactorAssumption DEF Usable, Legal
  <2>3. row.basis = t - i.age /\ row.status = EffectiveStatus(k[1], i)
      BY <2>1 DEF FromInput
  <2>4. row.basis # Nothing
      BY <1>t, <2>2, <2>3 DEF Nothing
  <2>5. i.age <= MaxStale[k[1]] \/ row.status = "PARTIAL"
      BY <1>1, <1>t, <2>2, <2>3 DEF Usable, EffectiveStatus, InputStatus
  <2> QED
      BY <1>t, <2>2, <2>3, <2>4, <2>5 DEF CarriedOrRecent, RecentRow
<1>2. CASE ~Usable(k[1], i) /\ UsesPrevious(k[1], j, t)
    BY <1>2 DEF ResolveRow, FromPrevious, CarriedOrRecent
<1>3. CASE ~Usable(k[1], i) /\ ~UsesPrevious(k[1], j, t)
  <2>1. row \in {EventOnly(t), Neutral(t), Unavailable}
      BY <1>3 DEF ResolveRow
  <2> QED
      BY <1>t, <2>1 DEF EventOnly, Neutral, Unavailable, Nothing, CarriedOrRecent, RecentRow
<1> QED
    BY <1>1, <1>2, <1>3

----------------------------------------------------------------------------
RecentUnlessCarried ==
    \A n \in 1 .. Len(runs), k \in RowKeys :
        CarriedOrRecent(runs[n].rows[k], runs[n].asof, k[1])

IInv == TypeOK /\ PointInTime /\ CarriedFromEarlier /\ RecentUnlessCarried

(* One step: the new run's rows are as above, and those before keep theirs.   *)
LEMMA ResolvePreserves ==
    ASSUME IInv, NEW t \in AsOfTimes, NEW seen \in 0 .. Len(runs), NEW scanned \in BOOLEAN,
           NEW moved \in EventSets, Resolve(t, seen, scanned, moved)
    PROVE  IInv'
<1> DEFINE len == Len(runs)
<1>1. PICK input \in [RowKeys -> Inputs \cup {NoInput}],
           previous \in [RowKeys -> Candidates(seen, t)] :
          runs' = Append(runs,
                    [asof |-> t,
                     rows |-> [k \in RowKeys |->
                                 ResolveRow(k, input[k], previous[k], t, scanned, moved)]])
    BY DEF Resolve
<1> DEFINE row(k) == ResolveRow(k, input[k], previous[k], t, scanned, moved)
           new    == [asof |-> t, rows |-> [k \in RowKeys |-> row(k)]]
<1>2. runs \in Seq(RunRecord) /\ len \in Nat
    BY DEF IInv, TypeOK, RunRecord
<1>3. \A k \in RowKeys : Legal(input[k], previous[k], t)
    BY <1>1, <1>2, CandidatesLegal DEF Legal
<1>4. \A k \in RowKeys : Sound(row(k)) /\ row(k).basis <= t
    BY <1>3, ResolvedSound DEF IInv
<1>5. \A k \in RowKeys : row(k).lkg =>
          /\ previous[k] \in 1 .. len
          /\ runs[previous[k]].asof < t
          /\ t <= runs[previous[k]].asof + MaxStale[k[1]]
          /\ row(k).basis = runs[previous[k]].rows[k].basis
    BY <1>3, CarriedSound DEF IInv
<1>r. \A k \in RowKeys : CarriedOrRecent(row(k), t, k[1])
    BY <1>3, ResolvedRecent
<1> HIDE DEF row
<1>6. new \in RunRecord
    BY <1>4 DEF RunRecord, Sound
<1>7. /\ runs' \in Seq(RunRecord)
      /\ Len(runs') = len + 1
      /\ \A n \in 1 .. len : runs'[n] = runs[n]
      /\ runs'[len + 1] = new
    BY <1>1, <1>2, <1>6 DEF row
<1>8. TypeOK'
  <2>1. \A k \in RowKeys : new.rows[k].coverage = 0 <=> new.rows[k].status = "UNAVAILABLE"
      BY <1>4 DEF Sound
  <2> QED
      BY <1>2, <1>7, <2>1 DEF IInv, TypeOK, RunRecord
<1>9. PointInTime'
  <2>1. \A k \in RowKeys : new.rows[k].basis <= new.asof
      BY <1>4
  <2> QED
      BY <1>2, <1>7, <2>1 DEF IInv, PointInTime
<1>10. CarriedFromEarlier'
  <2> SUFFICES ASSUME NEW n \in 1 .. len + 1, NEW k \in RowKeys, runs'[n].rows[k].lkg
               PROVE  \E j \in 1 .. n - 1 :
                         /\ runs'[j].asof < runs'[n].asof
                         /\ runs'[n].asof <= runs'[j].asof + MaxStale[k[1]]
                         /\ runs'[n].rows[k].basis = runs'[j].rows[k].basis
      BY <1>7 DEF CarriedFromEarlier
  <2>1. CASE n \in 1 .. len
    <3>1. PICK j \in 1 .. n - 1 :
              /\ runs[j].asof < runs[n].asof
              /\ runs[n].asof <= runs[j].asof + MaxStale[k[1]]
              /\ runs[n].rows[k].basis = runs[j].rows[k].basis
        BY <1>7, <2>1 DEF IInv, CarriedFromEarlier
    <3>2. j \in 1 .. len
        BY <1>2, <2>1
    <3> QED
        BY <1>7, <2>1, <3>1, <3>2
  <2>2. CASE n = len + 1
    <3>1. new.rows[k] = row(k) /\ row(k).lkg
        BY <1>7, <2>2
    <3>2. /\ previous[k] \in 1 .. n - 1
          /\ runs'[previous[k]] = runs[previous[k]]
        BY <1>2, <1>5, <1>7, <2>2, <3>1
    <3> QED
        BY <1>5, <1>7, <2>2, <3>1, <3>2
  <2> QED
      BY <1>2, <2>1, <2>2
<1>11. RecentUnlessCarried'
  <2>1. \A k \in RowKeys : CarriedOrRecent(new.rows[k], new.asof, k[1])
      BY <1>r
  <2> HIDE DEF new
  <2>2. \A n \in 1 .. len + 1, k \in RowKeys : CarriedOrRecent(runs'[n].rows[k], runs'[n].asof, k[1])
      BY <1>2, <1>7, <2>1 DEF IInv, RecentUnlessCarried
  <2> QED
      BY <1>7, <2>2 DEF RecentUnlessCarried, CarriedOrRecent, RecentRow
<1> QED
    BY <1>8, <1>9, <1>10, <1>11 DEF IInv

(* The inductive invariant.                                                   *)
LEMMA InvariantHolds == Spec => []IInv
<1>1. Init => IInv
    BY DEF Init, IInv, TypeOK, PointInTime, CarriedFromEarlier, RecentUnlessCarried
<1>2. IInv /\ [Next]_runs => IInv'
  <2> SUFFICES ASSUME IInv, [Next]_runs PROVE IInv'
      OBVIOUS
  <2>1. CASE Next
      BY <2>1, ResolvePreserves DEF Next
  <2>2. CASE UNCHANGED runs
    <3>1. TypeOK'
        BY <2>2 DEF IInv, TypeOK
    <3>2. PointInTime'
        BY <2>2 DEF IInv, PointInTime
    <3>3. CarriedFromEarlier'
        BY <2>2 DEF IInv, CarriedFromEarlier
    <3>4. RecentUnlessCarried'
        BY <2>2 DEF IInv, RecentUnlessCarried, CarriedOrRecent, RecentRow
    <3> QED
        BY <3>1, <3>2, <3>3, <3>4 DEF IInv
  <2> QED
      BY <2>1, <2>2
<1> QED
    BY <1>1, <1>2, PTL DEF Spec

(* Stored states are well-formed, and only an unavailable one counts for      *)
(* nothing, whatever the limits and inputs.                                   *)
THEOREM StatesWellFormed == Spec => []TypeOK
<1>1. IInv => TypeOK
    BY DEF IInv
<1> QED
    BY <1>1, InvariantHolds, PTL

(* No chain of last known good states, in whatever order runs and replays     *)
(* store them, brings an observation to a run about an earlier time.          *)
THEOREM NoLookAhead == Spec => []PointInTime
<1>1. IInv => PointInTime
    BY DEF IInv
<1> QED
    BY <1>1, InvariantHolds, PTL

(* Every carried row is that of a run about an earlier time within the limit. *)
THEOREM CarriedWithinLimit == Spec => []CarriedFromEarlier
<1>1. IInv => CarriedFromEarlier
    BY DEF IInv
<1> QED
    BY <1>1, InvariantHolds, PTL

----------------------------------------------------------------------------
(* The sums of the gate.                                                      *)
LEMMA RelevantFinite ==
    ASSUME NEW a \in Assets
    PROVE  Relevant(a) \in SUBSET Factors /\ IsFiniteSet(Factors)
               /\ \A f \in Factors : Sensitivity[a][f] \in Nat
    BY GateAssumption DEF Relevant

LEMMA WeightTotal ==
    ASSUME NEW a \in Assets, NEW F \in SUBSET Factors
    PROVE  WeightOf(a, F) = TotalOf(Sensitivity[a], F)
    BY DEF WeightOf, TotalOf

(* The weight times the coverage, as a function.                              *)
Covered(rows, a, F) == [f \in F |-> Sensitivity[a][f] * RowOf(rows, a, f).coverage]

LEMMA CoveredTotal ==
    ASSUME NEW rows, NEW a \in Assets, NEW F \in SUBSET Factors
    PROVE  CoveredWeight(rows, a, F) = TotalOf(Covered(rows, a, F), F)
<1> DEFINE w == Covered(rows, a, F)
           part(f) == Sensitivity[a][f] * RowOf(rows, a, f).coverage
           fits(g) == g = [s \in SUBSET F |->
                              IF s = {} THEN 0 ELSE part(Picked(s)) + g[s \ {Picked(s)}]]
           iter == CHOOSE g : fits(g)
<1>1. IsFiniteSet(F)
    BY GateAssumption, FS_Subset
<1>2. CoveredWeight(rows, a, F) = iter[F]
    BY Zenon DEF CoveredWeight, MapThenSumSet, MapThenFoldSet, Picked
<1>3. \A s \in SUBSET F : s # {} => w[Picked(s)] = part(Picked(s))
  <2>1. \A s \in SUBSET F : s # {} => Picked(s) \in F
      BY DEF Picked
  <2> HIDE DEF part
  <2>2. \A f \in F : w[f] = part(f)
      BY DEF Covered, part
  <2> QED
      BY <2>1, <2>2
<1> HIDE DEF w, part
<1>4. \A g : fits(g) <=> Sums(g, w, F)
    BY <1>3 DEF Sums
<1>5. \E g : Sums(g, w, F)
    BY <1>1, SumsExist
<1>6. Sums(iter, w, F)
  <2>1. \E g : fits(g)
      BY <1>4, <1>5
  <2> HIDE DEF fits
  <2>2. fits(iter)
      BY <2>1
  <2> QED
      BY <1>4, <2>2
<1> HIDE DEF iter
<1>7. \A T \in SUBSET F : TotalOf(w, T) = iter[T]
    BY <1>1, <1>6, TotalSums
<1> QED
    BY <1>2, <1>7 DEF w
(* The row of a factor that bears on an asset is a row of the run.            *)
LEMMA RowStored ==
    ASSUME IInv, NEW n \in 1 .. Len(runs), NEW a \in Assets, NEW f \in Relevant(a)
    PROVE  /\ RowOf(runs[n].rows, a, f) \in Row
           /\ CarriedOrRecent(RowOf(runs[n].rows, a, f), runs[n].asof, f)
<1> DEFINE k == IF a \in Targets[f] THEN <<f, a>> ELSE <<f, NoAsset>>
<1>1. f \in Factors /\ {a, NoAsset} \cap Targets[f] # {}
  <2>1. f \in Factors /\ Sensitivity[a][f] > 0
      BY DEF Relevant
  <2> QED
      BY <2>1, GateAssumption
<1>2. k \in RowKeys /\ k[1] = f
    BY <1>1 DEF RowKeys
<1>3. RowOf(runs[n].rows, a, f) = runs[n].rows[k]
    BY DEF RowOf
<1>4. runs[n] \in RunRecord
    BY StoredRun DEF IInv
<1> HIDE DEF k
<1>5. runs[n].rows[k] \in Row
    BY <1>2, <1>4 DEF RunRecord
<1>6. CarriedOrRecent(runs[n].rows[k], runs[n].asof, k[1])
    BY <1>2 DEF IInv, RecentUnlessCarried
<1> QED
    BY <1>2, <1>3, <1>5, <1>6

(* Coverage is at most all there is.                                          *)
LEMMA PartOfWhole ==
    ASSUME NEW w \in Nat, NEW c \in Percent
    PROVE  w * c \in Nat /\ w * c <= 100 * w
<1>1. c \in Nat /\ c <= 100
    BY DEF Percent
<1>2. w * c \in Nat /\ w * (100 - c) \in Nat
    BY <1>1
<1>3. w * 100 = w * c + w * (100 - c)
    BY <1>1
<1> QED
    BY <1>2, <1>3

LEMMA FreshRestsOnRecent ==
    ASSUME IInv, NEW n \in 1 .. Len(runs), NEW a \in Assets
    PROVE  CoveredWeight(runs[n].rows, a, FreshFactors(runs[n].rows, a, Relevant(a)))
               <= 100 * WeightOf(a, RecentFactors(runs[n], a))
<1> DEFINE rows  == runs[n].rows
           fresh == FreshFactors(rows, a, Relevant(a))
           R     == RecentFactors(runs[n], a)
           w     == Sensitivity[a]
           g     == Covered(rows, a, fresh)
<1>1. /\ fresh \in SUBSET Relevant(a) /\ R \in SUBSET Relevant(a)
      /\ fresh \in SUBSET Factors /\ R \in SUBSET Factors
    BY RelevantFinite DEF FreshFactors, RecentFactors
<1>2. IsFiniteSet(fresh) /\ IsFiniteSet(R)
    BY <1>1, RelevantFinite, FS_Subset
<1>3. \A f \in Factors : w[f] \in Nat
    BY RelevantFinite
<1>4. ASSUME NEW f \in fresh
      PROVE  /\ g[f] \in Nat
             /\ IF f \in fresh \cap R THEN g[f] <= 100 * w[f] ELSE g[f] = 0
  <2> DEFINE row == RowOf(rows, a, f)
  <2>1. row \in Row /\ CarriedOrRecent(row, runs[n].asof, f)
      BY <1>1, RowStored
  <2>2. row.coverage \in Percent /\ ~row.lkg
      BY <2>1 DEF Row, Percent, FreshFactors
  <2>3. g[f] = w[f] * row.coverage
      BY DEF Covered
  <2>4. w[f] \in Nat
      BY <1>1, <1>3
  <2>5. g[f] \in Nat /\ g[f] <= 100 * w[f]
      BY <2>2, <2>3, <2>4, PartOfWhole
  <2>6. f \notin R => g[f] = 0
    <3>1. f \notin R => row.coverage = 0
        BY <1>1, <2>1, <2>2 DEF RecentFactors, CarriedOrRecent, RecentRow
    <3>2. w[f] * 0 = 0
        BY <2>4
    <3> QED
        BY <2>3, <3>1, <3>2
  <2> QED
      BY <2>5, <2>6
<1>5. TotalOf(g, fresh) <= 100 * TotalOf(w, fresh \cap (fresh \cap R))
  <2>1. \A f \in fresh : w[f] \in Nat /\ g[f] \in Nat
      BY <1>1, <1>3, <1>4
  <2>2. \A f \in fresh : IF f \in fresh \cap R THEN g[f] <= 100 * w[f] ELSE g[f] = 0
      BY <1>4
  <2> HIDE DEF fresh, R, w, g
  <2>3. fresh \cap R \in SUBSET fresh
      OBVIOUS
  <2> QED
      BY <1>2, <2>1, <2>2, <2>3, TotalWithin
<1>6. TotalOf(w, fresh \cap R) <= TotalOf(w, R) /\ TotalOf(w, fresh \cap R) \in Nat /\ TotalOf(w, R) \in Nat
  <2> HIDE DEF fresh, R, w
  <2>1. fresh \cap R \in SUBSET R /\ \A f \in R : w[f] \in Nat
      BY <1>1, <1>3
  <2> QED
      BY <1>2, <2>1, TotalSubset, TotalType
<1>7. fresh \cap (fresh \cap R) = fresh \cap R
    OBVIOUS
<1>8. CoveredWeight(rows, a, fresh) = TotalOf(g, fresh) /\ WeightOf(a, R) = TotalOf(w, R)
    BY <1>1, CoveredTotal, WeightTotal
<1> HIDE DEF fresh, R, w, g
<1>9. TotalOf(g, fresh) <= 100 * TotalOf(w, R)
  <2>1. PICK x \in Nat : x = TotalOf(w, fresh \cap R)
      BY <1>6
  <2>2. PICK y \in Nat : y = TotalOf(w, R)
      BY <1>6
  <2>3. 100 * x <= 100 * y
      BY <1>6, <2>1, <2>2
  <2>4. TotalOf(g, fresh) \in Nat
    <3>1. \A f \in fresh : g[f] \in Nat
        BY <1>4
    <3> QED
        BY <1>2, <3>1, TotalType
  <2>5. PICK z \in Nat : z = TotalOf(g, fresh)
      BY <2>4
  <2>6. z <= 100 * x
      BY <1>5, <1>7, <2>1, <2>5
  <2>7. z <= 100 * y
      BY <2>3, <2>6
  <2> QED
      BY <2>2, <2>5, <2>7
<1> QED
    BY <1>8, <1>9 DEF fresh, R

(* A run that may be published rests on recent observations, for any chain of *)
(* runs, weights and thresholds: rows carried over do not count as fresh, and *)
(* every other row that counts is of an observation within its limit, or was  *)
(* reported in part.                                                          *)
THEOREM PublishedOnRecent == Spec => []PublishRestsOnRecent
<1>1. IInv => PublishRestsOnRecent
  <2> SUFFICES ASSUME IInv, NEW n \in 1 .. Len(runs), PassedForPublish(runs[n].rows),
                      NEW a \in Assets
               PROVE  100 * WeightOf(a, RecentFactors(runs[n], a))
                          >= FreshCoverage * WeightOf(a, Relevant(a))
      BY DEF PublishRestsOnRecent
  <2> DEFINE covered == CoveredWeight(runs[n].rows, a, FreshFactors(runs[n].rows, a, Relevant(a)))
             needed  == FreshCoverage * WeightOf(a, Relevant(a))
             recent  == WeightOf(a, RecentFactors(runs[n], a))
  <2>1. covered >= needed
      BY DEF PassedForPublish
  <2>2. covered <= 100 * recent
      BY FreshRestsOnRecent
  <2>3. covered \in Int /\ needed \in Int /\ recent \in Int
    <3>1. /\ Relevant(a) \in SUBSET Factors
          /\ RecentFactors(runs[n], a) \in SUBSET Factors
          /\ FreshFactors(runs[n].rows, a, Relevant(a)) \in SUBSET Relevant(a)
        BY RelevantFinite DEF RecentFactors, FreshFactors
    <3>2. WeightOf(a, Relevant(a)) \in Nat /\ recent \in Nat
        BY <3>1, RelevantFinite, WeightTotal, TotalType
    <3>3. FreshCoverage \in Nat
      <4>1. FreshCoverage \in Percent
          BY GateAssumption
      <4> QED
          BY <4>1 DEF Percent
    <3>4. needed \in Nat
        BY <3>2, <3>3
    <3>5. covered \in Nat
      <4> DEFINE F == FreshFactors(runs[n].rows, a, Relevant(a))
                 g == Covered(runs[n].rows, a, F)
      <4>1. F \in SUBSET Factors /\ IsFiniteSet(F)
          BY <3>1, RelevantFinite, FS_Subset
      <4>2. ASSUME NEW f \in F PROVE g[f] \in Nat
        <5>1. RowOf(runs[n].rows, a, f) \in Row
            BY <3>1, RowStored
        <5>2. RowOf(runs[n].rows, a, f).coverage \in Percent /\ Sensitivity[a][f] \in Nat
            BY <4>1, <5>1, RelevantFinite DEF Row, Percent
        <5> QED
            BY <5>2, PartOfWhole DEF Covered
      <4>3. covered = TotalOf(g, F)
          BY <4>1, CoveredTotal
      <4> HIDE DEF g, F, covered
      <4>4. \A f \in F : g[f] \in Nat
          BY <4>2
      <4> QED
          BY <4>1, <4>3, <4>4, TotalType
    <3> QED
        BY <3>2, <3>4, <3>5
  <2> HIDE DEF covered, needed, recent
  <2>4. 100 * recent >= needed
      BY <2>1, <2>2, <2>3
  <2> QED
      BY <2>4 DEF needed, recent
<1> QED
    BY <1>1, InvariantHolds, PTL
================================================================================
