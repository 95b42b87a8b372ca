----------------------------- MODULE QualityGate -----------------------------
(***************************************************************************)
(* engine/quality.py: the coverage of each asset by the rows of a run, and *)
(* the gate that lets the run's snapshot be previewed or published.  Every *)
(* ratio is in percent, multiplied out.                                    *)
(***************************************************************************)
EXTENDS FactorResolution, FiniteSetsExt

CONSTANTS
    Sensitivity,     \* the weight of a factor for an asset; 0: irrelevant
    Critical,        \* the critical factors of the asset's family
    PreviewCoverage, PublishCoverage, FreshCoverage, CriticalCoverage,
    UnavailableRatio \* the thresholds of configs/resilience.yaml

Percent == 0 .. 100

(* Every factor that bears on an asset has a row for it, as in configs/.      *)
ASSUME GateAssumption ==
    /\ IsFiniteSet(Factors)
    /\ Sensitivity \in [Assets -> [Factors -> Nat]]
    /\ Critical \in [Assets -> SUBSET Factors]
    /\ \A a \in Assets, f \in Factors :
          Sensitivity[a][f] > 0 => {a, NoAsset} \cap Targets[f] # {}
    /\ {PreviewCoverage, PublishCoverage, FreshCoverage, CriticalCoverage,
        UnavailableRatio} \subseteq Percent

Relevant(a) == {f \in Factors : Sensitivity[a][f] > 0}

(* _states_for_asset: the asset's own row before the one for every asset.     *)
RowOf(rows, a, f) ==
    IF a \in Targets[f] THEN rows[<<f, a>>] ELSE rows[<<f, NoAsset>>]

WeightOf(a, F) == MapThenSumSet(LAMBDA f : Sensitivity[a][f], F)

CoveredWeight(rows, a, F) ==
    MapThenSumSet(LAMBDA f : Sensitivity[a][f] * RowOf(rows, a, f).coverage, F)

(* Mutant of FreshFactors: a last known good row counts as fresh.             *)
AllFactors(rows, a, F) == F

(* The factors of F whose rows are not last known good.                       *)
FreshFactors(rows, a, F) == {f \in F : ~RowOf(rows, a, f).lkg}

UnavailableFactors(rows, a) ==
    {f \in Relevant(a) : RowOf(rows, a, f).status = "UNAVAILABLE"}

Scoreable(rows, a) ==
    /\ Relevant(a) # {}
    /\ CoveredWeight(rows, a, Relevant(a)) >= PreviewCoverage * WeightOf(a, Relevant(a))
    /\ 100 * Cardinality(UnavailableFactors(rows, a))
          <= UnavailableRatio * Cardinality(Relevant(a))

PassedForPreview(rows) == \A a \in Assets : Scoreable(rows, a)

PassedForPublish(rows) ==
    /\ PassedForPreview(rows)
    /\ \A a \in Assets :
          LET all      == Relevant(a)
              fresh    == FreshFactors(rows, a, all)
              critical == all \cap Critical[a]
          IN  /\ CoveredWeight(rows, a, all) >= PublishCoverage * WeightOf(a, all)
              /\ CoveredWeight(rows, a, fresh) >= FreshCoverage * WeightOf(a, all)
              /\ CoveredWeight(rows, a, critical) >= CriticalCoverage * WeightOf(a, critical)

----------------------------------------------------------------------------
(* The factors whose row rests on an observation no older than the factor's   *)
(* max_stale_hours, or on one its calculator reported in part.                *)
RecentFactors(run, a) ==
    {f \in Relevant(a) :
        LET row == RowOf(run.rows, a, f)
        IN  \/ row.basis # Nothing /\ row.basis >= run.asof - MaxStale[f]
            \/ row.status = "PARTIAL"}

(* docs/02: last known good states may support a preview, they cannot by      *)
(* themselves make a new published snapshot.  However long states have been   *)
(* carried from run to run, a run that may be published rests, for every      *)
(* asset, by the fresh share of its weight on recent observations.            *)
PublishRestsOnRecent ==
    \A n \in 1 .. Len(runs) :
        PassedForPublish(runs[n].rows) =>
            \A a \in Assets :
                100 * WeightOf(a, RecentFactors(runs[n], a))
                    >= FreshCoverage * WeightOf(a, Relevant(a))

============================================================================
