-------------------------------- MODULE Scoring --------------------------------
(*****************************************************************************)
(* The score of one asset (engine/scoring.py), the conflict rules that damp    *)
(* single contributions (engine/rules.py) and the confidence that goes with    *)
(* the score (engine/confidence.py).                                           *)
(*                                                                             *)
(* Units: a factor's state is in steps of 20 points, -5 .. 5; its reliability  *)
(* and coverage in halves; horizon weights, conflict multipliers and group     *)
(* caps in twentieths; directions, scores and confidences in thousandths.  A   *)
(* quotient is rounded towards zero, which floating point does not need; the   *)
(* share that a cap leaves of a group is rounded once for the group, so that   *)
(* rounding cannot turn the order of two scores.                               *)
(*****************************************************************************)
EXTENDS Integers, FiniteSets, FiniteSetsExt

CONSTANTS
  ScoredAssets,   \* asset ids, and which of them is gold
  GoldAsset,
  Everywhere,     \* the asset of a row that is valid for all of them
  Sensitivity,    \* Sensitivity[a][f]: the weight of a factor for an asset, 0: none
  GroupOf,        \* the group of a factor
  GroupCap,       \* the cap of a group in twentieths, for the groups that have one
  HorizonWeight,  \* HorizonWeight[f][h]
  CriticalFactors,\* the critical factors of an asset's family
  CriticalCap     \* confidence_cap_if_critical_missing, in thousandths

ScoredFactors == DOMAIN GroupOf
Horizons == {"tactical", "swing", "strategic"}
\* HORIZON_BLEND, in twentieths.
Blend == [tactical |-> 9, swing |-> 7, strategic |-> 4]

ASSUME ScoringAssumption ==
  /\ GoldAsset \in ScoredAssets /\ Everywhere \notin ScoredAssets
  /\ IsFiniteSet(ScoredFactors) /\ CriticalCap \in 0 .. 1000
  /\ \A a \in ScoredAssets, f \in ScoredFactors : Sensitivity[a][f] \in Int
  /\ \A f \in ScoredFactors, h \in Horizons : HorizonWeight[f][h] \in 0 .. 20

\* Together the capped groups may make up the whole, and no more (weights.yaml: group_caps).
ASSUME CapsAssumption ==
  /\ IsFiniteSet(DOMAIN GroupCap) /\ \A g \in DOMAIN GroupCap : GroupCap[g] \in Nat
  /\ SumFunction(GroupCap) <= 20

Abs(v) == IF v < 0 THEN -v ELSE v
Ratio(n, d) == IF d = 0 THEN 0 ELSE IF n < 0 THEN -((-n) \div d) ELSE n \div d
Within(lo, v, hi) == IF v < lo THEN lo ELSE IF v > hi THEN hi ELSE v

-----------------------------------------------------------------------------
(* The rows of an asset.                                                     *)

\* Mutant of RowsFor: a row of any asset counts.
AnyRows(rows, a) ==
  {r \in rows : \A q \in rows : q.factor = r.factor => r.asset # Everywhere \/ q = r}

\* The asset's own row of a factor before the one for all assets.
RowsFor(rows, a) ==
  {r \in rows : \/ r.asset = a
                \/ r.asset = Everywhere /\ ~\E q \in rows : q.asset = a /\ q.factor = r.factor}

\* _state_values: a factor without a row counts as 0.
StateOf(rows, a, f) == SumFunction([r \in {q \in RowsFor(rows, a) : q.factor = f} |-> r.state])

Flagged(rows, a, f, flag) == \E r \in RowsFor(rows, a) : r.factor = f /\ flag \in r.flags

-----------------------------------------------------------------------------
(* evaluate_conflicts.                                                       *)

\* Thresholds of 40, 30 and 20 points.
LiquidityUnconfirmed(rows, a) ==
  /\ a # GoldAsset
  /\ StateOf(rows, a, "EQ01_CN_FUNDING_LIQUIDITY") > 2
  /\ StateOf(rows, a, "EQ04_CN_GROWTH_MOMENTUM") < -2
  /\ StateOf(rows, a, "EQ06_INDEX_EARNINGS") < -1

GrowthScare(rows, a) ==
  /\ a # GoldAsset
  /\ 20 * StateOf(rows, a, "EQ03_CN_DISCOUNT_RATE") > 30
  /\ 20 * StateOf(rows, a, "EQ04_CN_GROWTH_MOMENTUM") < -30
  /\ StateOf(rows, a, "EQ06_INDEX_EARNINGS") < -1

Multiplier20(rows, a, f) ==
  CASE f = "EQ01_CN_FUNDING_LIQUIDITY" /\ LiquidityUnconfirmed(rows, a) -> 12
    [] f = "EQ03_CN_DISCOUNT_RATE" /\ GrowthScare(rows, a) -> 11
    [] OTHER -> 20

\* The flags a row can carry into a penalty (gold's crowding: at most this), for the equities
\* and for gold; the divergence of credit and money stands for its three flags.
FlagPenalty ==
  [idiosyncratic_rmb_weakness |-> 30, ppi_reflation_without_profit_confirmation |-> 30,
   credit_money_signal_divergence |-> 40, growth_signal_divergence |-> 30]
GoldFlagPenalty ==
  [cftc_long_crowding |-> 50, global_central_bank_demand_missing_china_proxy_only |-> 20]

ConfidencePenalty(rows, a) ==
  LET table == IF a = GoldAsset THEN GoldFlagPenalty ELSE FlagPenalty
      raised == {flag \in DOMAIN table : \E f \in ScoredFactors : Flagged(rows, a, f, flag)}
  IN SumFunction([flag \in raised |-> table[flag]])
       + (IF LiquidityUnconfirmed(rows, a) THEN 80 ELSE 0)
       + (IF GrowthScare(rows, a) THEN 40 ELSE 0)

-----------------------------------------------------------------------------
(* The score.                                                                *)

\* _raw_horizon_contributions: the rows that count on a horizon, each with the weight it has
\* at a full state and with what it contributes after the conflict rules.
RawRows(rows, a, h) ==
  LET weight(r) == Sensitivity[a][r.factor] * r.reliability * HorizonWeight[r.factor][h]
      counting == {r \in RowsFor(rows, a) :
                     /\ r.status # "UNAVAILABLE" /\ r.coverage > 0 /\ r.reliability > 0
                     /\ Sensitivity[a][r.factor] # 0 /\ HorizonWeight[r.factor][h] # 0}
  IN {[row |-> r, weight |-> weight(r),
       after |-> Ratio(weight(r) * r.state * Multiplier20(rows, a, r.factor), 20)] : r \in counting}

Total(raw) == SumFunction([x \in raw |-> Abs(x.after)])
Net(raw) == SumFunction([x \in raw |-> x.after])
InGroup(raw, g) == {x \in raw : GroupOf[x.row.factor] = g}

\* What a group may contribute, in twentieths: all it has, or a share of the total before any cap.
Allowed(raw, g) ==
  LET all == 20 * Total(InGroup(raw, g))
  IN IF g \in DOMAIN GroupCap /\ GroupCap[g] * Total(raw) < all THEN GroupCap[g] * Total(raw) ELSE all

\* What the cap of a group leaves of an amount of it, in twentieths.
Capped(raw, g, amount) == Ratio(amount * Allowed(raw, g), Total(InGroup(raw, g)))

\* _apply_group_caps.
CappedRows(raw) ==
  {[row |-> x.row, capped |-> Capped(raw, GroupOf[x.row.factor], x.after)] : x \in raw}

\* _direction_for_horizon, before the clip and with it: the groups, capped, over the full weight.
RawDirection(raw) ==
  LET groups == {GroupOf[x.row.factor] : x \in raw}
      numerator == SumFunction([g \in groups |-> Capped(raw, g, Net(InGroup(raw, g)))])
  IN Ratio(10 * numerator, SumFunction([x \in raw |-> Abs(x.weight)]))
Direction(raw) == Within(-1000, RawDirection(raw), 1000)

\* _horizon_results: every horizon once.
HorizonResults(rows, a) ==
  [h \in Horizons |-> LET raw == RawRows(rows, a, h)
                      IN [direction |-> Direction(raw), rows |-> CappedRows(raw)]]

\* The blend of the horizons around 500.
Score(results) ==
  LET blended == Ratio(SumFunction([h \in Horizons |-> Blend[h] * results[h].direction]), 20)
  IN Within(0, 500 + Ratio(blended, 2), 1000)

\* _composite_contributions: what each row contributes over the horizons.
Contributions(results) ==
  LET counted == {x.row : x \in UNION {results[h].rows : h \in Horizons}}
      on(r, h) == SumFunction([x \in {y \in results[h].rows : y.row = r} |-> Blend[h] * x.capped])
  IN {[row |-> r, value |-> SumFunction([h \in Horizons |-> on(r, h)])] : r \in counted}

-----------------------------------------------------------------------------
(* calculate_confidence.                                                     *)

WeightIn(a, F) == SumFunction([f \in F |-> Abs(Sensitivity[a][f])])
CoveredIn(rows, a) == SumFunction([r \in RowsFor(rows, a) |-> Abs(Sensitivity[a][r.factor]) * r.coverage])

\* The share of the contributions on the stronger side; 500 where there are none.
Agreement(contributions) ==
  LET on(s) == {c \in contributions : s * c.value > 0}
      side(s) == SumFunction([c \in on(s) |-> Abs(c.value)])
  IN IF side(1) + side(-1) = 0 THEN 500
     ELSE Ratio(100 * Max({side(1), side(-1)}), Ratio(side(1) + side(-1), 10))

\* The less one factor dominates, the more stable.
Stability(contributions) ==
  LET total == SumFunction([c \in contributions |-> Abs(c.value)])
      largest == IF contributions = {} THEN 1000
                 ELSE Ratio(100 * Max({Abs(c.value) : c \in contributions}), Ratio(total, 10))
  IN Max({450, 1000 - (55 * largest) \div 100})

SourceQuality(contributions, a) ==
  LET weight(c) == Abs(Sensitivity[a][c.row.factor])
  IN Ratio(250 * SumFunction([c \in contributions |-> weight(c) * c.row.reliability * c.row.coverage]),
           SumFunction([c \in contributions |-> weight(c)]))

StalePenalty(contributions) ==
  Min({120, 15 * Cardinality({c \in contributions : c.row.status = "STALE"})})

CriticalMissing(rows, a) ==
  \E f \in CriticalFactors[a] : ~\E r \in RowsFor(rows, a) : r.factor = f /\ r.coverage > 0

Confidence(rows, contributions, a) ==
  LET covered == Ratio(500 * CoveredIn(rows, a), WeightIn(a, ScoredFactors))
      raw == (30 * covered + 25 * SourceQuality(contributions, a) + 20 * Agreement(contributions)
                + 15 * Stability(contributions) + 10 * 800) \div 100
             - ConfidencePenalty(rows, a) - StalePenalty(contributions)
      capped == IF CriticalMissing(rows, a) THEN Min({raw, CriticalCap}) ELSE raw
  IN Within(0, capped, 1000)

\* calculate_asset_score.
AssetScore(rows, a) ==
  LET results == HorizonResults(rows, a)
  IN [score |-> Score(results), confidence |-> Confidence(rows, Contributions(results), a)]
=============================================================================
