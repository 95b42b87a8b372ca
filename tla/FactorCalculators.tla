--------------------------- MODULE FactorCalculators ---------------------------
(*****************************************************************************)
(* The numeric factors (engine/factor_calculators.py): which value, status,    *)
(* reliability and observation time a calculator reports, given what its       *)
(* indicators offer.                                                           *)
(*                                                                             *)
(* An indicator offers a channel: the age of its latest observation (NoHistory *)
(* when it has none) and the scores of those features its history is long      *)
(* enough for.  Scores are whole points in -100 .. 100 and weights per cent; a *)
(* factor's value is in hundredths of a point.  Freshness multipliers are      *)
(* exact: they count hundredths of Span, and reliabilities hundredths of that, *)
(* the constant multipliers of the configuration left out.  Times count back   *)
(* from as_of.                                                                 *)
(*****************************************************************************)
EXTENDS Integers, FiniteSets, FiniteSetsExt

CONSTANTS
  FreshAge,    \* fresh_hours of the indicators' frequency
  HardAge,     \* hard_max_age_hours
  Floor        \* stale_reliability_floor, per cent

ASSUME CalculatorsAssumption ==
  /\ FreshAge \in Nat /\ HardAge \in Nat /\ FreshAge < HardAge /\ Floor \in 1 .. 99

NoHistory == -1
NoScore == 1000000

Least(a, b) == IF a <= b THEN a ELSE b
Clamp(v, bound) == IF v > bound THEN bound ELSE IF v < -bound THEN -bound ELSE v
Magnitude(v) == IF v < 0 THEN -v ELSE v

-----------------------------------------------------------------------------
(* Freshness.                                                                *)

\* _history_freshness: missing, fresh, stale or hard_expired.
Freshness(ch) == CASE ch.age = NoHistory -> "missing"
                   [] ch.age # NoHistory /\ ch.age <= FreshAge -> "fresh"
                   [] ch.age > HardAge -> "hard_expired"
                   [] OTHER -> "stale"

Span == HardAge - FreshAge

\* The multiplier of a stale series falls linearly to the floor.
Multiplier(ch) ==
  IF Freshness(ch) = "fresh" THEN 100 * Span
  ELSE LET fallen == 100 * Span - (100 - Floor) * (ch.age - FreshAge)
       IN IF fallen < Floor * Span THEN Floor * Span ELSE fallen

\* _effective_input_history: an expired history counts as none.
Usable(ch) == Freshness(ch) \in {"fresh", "stale"}

\* _single_indicator_feature_bundle: the scores of an unusable history are not looked at.
Scored(ch) == IF Usable(ch) THEN ch.scores ELSE [f \in {} |-> 0]

\* The mean of the scores there are, by weight, in hundredths of a point.
Mean(scores, weight) ==
  LET have == DOMAIN scores \cap DOMAIN weight
      total == MapThenSumSet(LAMBDA f : weight[f], have)
  IN IF have = {} THEN NoScore
     ELSE (100 * MapThenSumSet(LAMBDA f : weight[f] * scores[f], have)) \div total

OrZero(v) == IF v = NoScore THEN 0 ELSE v

-----------------------------------------------------------------------------
(* What a calculator reports.                                                *)

Unavailable == [value |-> NoScore, status |-> "UNAVAILABLE", reliability |-> 0, age |-> 0]

\* Mutant of StatusOf: only full coverage is asked for.
StatusByCoverage(coverage, used) == IF coverage >= 80 THEN "VALID" ELSE "PARTIAL"

\* 80 per cent of the weight make a factor whole; one stale contribution makes it STALE.
StatusOf(coverage, used) ==
  IF coverage < 80 THEN "PARTIAL"
  ELSE IF \E ch \in used : Freshness(ch) = "stale" THEN "STALE" ELSE "VALID"

\* Mutant of Trust: the freshest contribution governs.
BestTrust(coverage, used) == coverage * CHOOSE m \in {Multiplier(ch) : ch \in used} :
                                         \A ch \in used : m >= Multiplier(ch)

\* The most outdated contribution governs the reliability and the observation time.
Trust(coverage, used) == coverage * CHOOSE m \in {Multiplier(ch) : ch \in used} :
                                     \A ch \in used : m <= Multiplier(ch)

Oldest(used) == CHOOSE a \in {ch.age : ch \in used} : \A ch \in used : a >= ch.age

Report(value, coverage, used) ==
  [value |-> Clamp(value, 10000), status |-> StatusOf(coverage, used),
   reliability |-> Trust(coverage, used), age |-> Oldest(used)]

-----------------------------------------------------------------------------
(* The calculators.                                                          *)

\* _funding_liquidity: level and two changes of DR007, all inverted.
FundingWeights == [level_robust |-> 30, change_5 |-> 35, change_20 |-> 35]
FundingLiquidity(in) ==
  LET scores == Scored(in.CN_DR007)
      used == MapThenSumSet(LAMBDA f : FundingWeights[f], DOMAIN scores)
  IN IF DOMAIN scores = {} THEN Unavailable
     ELSE Report(-Mean(scores, FundingWeights), used, {in.CN_DR007})

\* Mutant of Muted: a partial reading counts in full.
Unmuted(value, bound) == value

\* What a partial or contradicted reading may say at most.
Muted(value, bound) == Clamp(value, 100 * bound)

\* _credit_money: activation and credit must confirm each other.
CreditMoney(in) ==
  LET m1 == Mean(Scored(in.CN_M1_YOY), [level_robust |-> 60, change_3 |-> 40])
      tsf == Mean(Scored(in.CN_TSFIN_GROWTH), [yoy_pct_12 |-> 100])
      both == m1 # NoScore /\ tsf # NoScore
      sum == (45 * OrZero(m1) + 55 * OrZero(tsf)) \div 100
      contradicted == (m1 > 3000 /\ tsf < -3000) \/ (tsf > 3000 /\ m1 < -3000)
      coverage == (IF m1 # NoScore THEN 45 ELSE 0) + (IF tsf # NoScore THEN 55 ELSE 0)
      used == {ch \in {in.CN_M1_YOY} : m1 # NoScore} \cup {ch \in {in.CN_TSFIN_GROWTH} : tsf # NoScore}
  IN IF coverage = 0 THEN Unavailable
     ELSE Report(IF ~both THEN Muted(sum, 35) ELSE IF contradicted THEN Least(sum, 2000) ELSE sum,
                 coverage, used)

\* _growth_momentum: PMI leads, production and exports confirm.
GrowthWeights == [CN_PMI_MANUFACTURING |-> 45, CN_INDUSTRIAL_PRODUCTION_YOY |-> 35,
                  CN_EXPORTS_YOY |-> 20]
GrowthComponent(in, i) ==
  IF i = "CN_PMI_MANUFACTURING" THEN Mean(Scored(in[i]), [pmi_state |-> 100])
  ELSE Mean(Scored(in[i]), [level_robust |-> 55, change_3 |-> 45])
GrowthMomentum(in) ==
  LET have == {i \in DOMAIN GrowthWeights : GrowthComponent(in, i) # NoScore}
      coverage == MapThenSumSet(LAMBDA i : GrowthWeights[i], have)
      sum == MapThenSumSet(LAMBDA i : GrowthWeights[i] * GrowthComponent(in, i), have) \div 100
      muted == IF coverage < 80 THEN Muted(sum, 45) ELSE sum
      diverging == /\ \E i \in have : GrowthComponent(in, i) > 2500
                   /\ \E i \in have : GrowthComponent(in, i) < -2500
  IN IF have = {} THEN Unavailable
     ELSE Report(IF diverging THEN Muted(muted, 35) ELSE muted, coverage, {in[i] : i \in have})

\* _central_bank_gold_demand: China's reserves confirm, or stand in weakly.
CentralBankGoldDemand(in) ==
  LET global == Mean(Scored(in.GLOBAL_CENTRAL_BANK_GOLD), [level_robust |-> 100])
      china == Mean(Scored(in.CN_OFFICIAL_GOLD_RESERVE), [change_3 |-> 100])
      used == {ch \in {in.GLOBAL_CENTRAL_BANK_GOLD} : global # NoScore}
                \cup {ch \in {in.CN_OFFICIAL_GOLD_RESERVE} : china # NoScore}
  IN IF global = NoScore /\ china = NoScore THEN Unavailable
     ELSE IF global = NoScore THEN Report(Muted((15 * china) \div 100, 25), 15, used)
     ELSE Report((85 * global + 15 * OrZero(china)) \div 100,
                 IF china # NoScore THEN 100 ELSE 85, used)

\* _rmb_external_balance: the RMB's move beyond the broad dollar's.
RmbExternalBalance(in) ==
  LET rmb == Mean(Scored(in.USDCNY), [change_20 |-> 100])
      usd == Mean(Scored(in.US_BROAD_DOLLAR), [change_20 |-> 100])
  IN IF rmb = NoScore THEN Unavailable
     ELSE IF usd = NoScore THEN Report(Muted(-((35 * rmb) \div 100), 30), 55, {in.USDCNY})
     ELSE Report(Clamp(-(rmb - (65 * usd) \div 100), 7000), 100, {in.USDCNY, in.US_BROAD_DOLLAR})

\* _price_profit_cycle: profits first; reflation without them is no support.
PriceProfitCycle(in) ==
  LET ppi == Mean(Scored(in.CN_PPI_YOY), [level_robust |-> 40, change_3 |-> 60])
      profit == Mean(Scored(in.CN_INDUSTRIAL_PROFIT_YOY), [level_robust |-> 65, change_3 |-> 35])
      sum == (72 * profit + 28 * OrZero(ppi)) \div 100
      used == {ch \in {in.CN_PPI_YOY} : ppi # NoScore}
                \cup {ch \in {in.CN_INDUSTRIAL_PROFIT_YOY} : profit # NoScore}
  IN IF ppi = NoScore /\ profit = NoScore THEN Unavailable
     ELSE IF profit = NoScore THEN Report(Muted(ppi, 35), 28, used)
     ELSE IF ppi = NoScore THEN Report(sum, 72, used)
     ELSE IF ppi > 3500 /\ profit < -2000 THEN Report(Least(sum, 1000), 100, used)
     ELSE IF ppi < -3500 /\ profit > 2500 /\ sum < -1000 THEN Report(-1000, 100, used)
     ELSE Report(sum, 100, used)

\* _cftc_positioning: crowded longs are damped, short covering is confirmed a little.
CftcWeights == [change_4 |-> 65, level_robust |-> 35]
CftcPositioning(in) ==
  LET scores == Scored(in.CFTC_GOLD_NET_LONG)
      sum == Mean(scores, CftcWeights)
      level == IF "level_robust" \in DOMAIN scores THEN scores.level_robust ELSE 0
      change == IF "change_4" \in DOMAIN scores THEN scores.change_4 ELSE 0
      crowd == Least(100, (100 * (level - 65)) \div 35)
      kept == IF 100 - (75 * crowd) \div 100 < 25 THEN 25 ELSE 100 - (75 * crowd) \div 100
      damped == (IF sum > 0 THEN (sum * kept) \div 100 ELSE sum) - 15 * crowd
      value == IF level >= 65 THEN damped
               ELSE IF level <= -75 /\ change > 20 THEN sum + Least(1200, 15 * change) ELSE sum
  IN IF DOMAIN scores = {} THEN Unavailable
     ELSE Report(Clamp(value, 8500), MapThenSumSet(LAMBDA f : CftcWeights[f], DOMAIN scores),
                 {in.CFTC_GOLD_NET_LONG})

\* The pairs of _equity_erp: every price-earnings observation with the latest rate known by
\* its date; dates without an earlier rate are passed over.
ErpPairs(pe, rates) ==
  {<<d, Max({r \in rates : r <= d})>> : d \in {x \in pe : \E r \in rates : r <= x}}

\* _equity_erp: at least three pairs; erp is the score of the last premium.
EquityErp(in) ==
  IF \/ ~Usable(in.CN_INDEX_PE) \/ ~Usable(in.CN_CGB_10Y)
     \/ Cardinality(ErpPairs(in.CN_INDEX_PE.dates, in.CN_CGB_10Y.dates)) < 3
    THEN Unavailable
    ELSE Report(100 * in.CN_INDEX_PE.scores.erp, 100, {in.CN_INDEX_PE, in.CN_CGB_10Y})

\* _gold_china_premium: the premium over the theoretical price and its trend.
GoldChinaPremium(in) ==
  LET trend == Scored(in.SGE_AU9999)
      used == {in.SGE_AU9999, in.GOLD_USD, in.USDCNY}
      whole == "return_20" \in DOMAIN trend
  IN IF \E ch \in used : ~Usable(ch) THEN Unavailable
     ELSE IF whole THEN Report(75 * in.SGE_AU9999.premium + 25 * trend.return_20, 100, used)
     ELSE Report(100 * in.SGE_AU9999.premium, 75, used)

-----------------------------------------------------------------------------
(* The configured weighted mean (_calculate_one) and the inflation regime,   *)
(* whose weights add up to 100.                                              *)

\* The inputs that have a score; each counts with its weight times its freshness.
Contributing(in, spec) == {i \in DOMAIN spec : spec[i].feature \in DOMAIN Scored(in[i])}
Oriented(in, spec, i) == spec[i].orientation * Scored(in[i])[spec[i].feature]
Effective(in, spec, i) ==
  IF i \in Contributing(in, spec) THEN spec[i].weight * Multiplier(in[i]) ELSE 0
Coverage(in, spec) == SumFunction([i \in DOMAIN spec |-> Effective(in, spec, i)])

\* Here freshness is part of the coverage, so the multiplier does not count again.
ReportCoverage(in, spec, value) ==
  LET used == {in[i] : i \in Contributing(in, spec)}
      coverage == Coverage(in, spec)
  IN [value |-> Clamp(value, 10000), status |-> StatusOf(coverage \div (100 * Span), used),
      reliability |-> coverage, age |-> Oldest(used)]

WeightedMean(in, spec, bound) ==
  LET have == Contributing(in, spec)
      total == MapThenSumSet(LAMBDA i : Effective(in, spec, i), have)
      sum == MapThenSumSet(LAMBDA i : Effective(in, spec, i) * Oriented(in, spec, i), have)
  IN IF Coverage(in, spec) = 0 THEN Unavailable
     ELSE ReportCoverage(in, spec, Clamp((100 * sum) \div total, 100 * bound))

\* _gold_inflation_conditional: inflation speaks only with real yields or the dollar.
GoldInflation(in, spec) ==
  LET of(i) == IF i \in Contributing(in, spec) THEN Oriented(in, spec, i) ELSE 0
      inflation == of("US_CPI_YOY")
      yields == of("US_REAL_YIELD_10Y")
      usd == of("US_BROAD_DOLLAR")
      value == IF inflation <= 15 THEN 0
               ELSE IF yields > 10 /\ usd > 5 THEN 45 * inflation + 35 * yields + 20 * usd
               ELSE IF yields < -10 /\ usd < -5 THEN 10 * inflation + 55 * yields + 35 * usd
               ELSE Muted(10 * inflation + 20 * yields + 15 * usd, 35)
  IN IF "US_CPI_YOY" \notin Contributing(in, spec) THEN Unavailable
     ELSE ReportCoverage(in, spec, value)

\* The inputs of EQ10_GLOBAL_FIN_CONDITIONS and of G05_INFLATION_REGIME (factor_calculators.yaml).
Input(weight, orientation, feature) ==
  [weight |-> weight, orientation |-> orientation, feature |-> feature]
GlobalConditionsSpec ==
  [US_REAL_YIELD_10Y |-> Input(40, -1, "change_20"), US_BROAD_DOLLAR |-> Input(35, -1, "change_20"),
   US_VIX |-> Input(25, -1, "change_20")]
InflationSpec ==
  [US_CPI_YOY |-> Input(30, 1, "change_3"), US_REAL_YIELD_10Y |-> Input(40, -1, "change_20"),
   US_BROAD_DOLLAR |-> Input(30, -1, "change_20")]

\* _calculate_one: the calculator a factor's specification names.
Calculate(factor, in) ==
  CASE factor = "funding_liquidity" -> FundingLiquidity(in)
    [] factor = "credit_money" -> CreditMoney(in)
    [] factor = "growth_momentum" -> GrowthMomentum(in)
    [] factor = "rmb_external_balance" -> RmbExternalBalance(in)
    [] factor = "price_profit_cycle" -> PriceProfitCycle(in)
    [] factor = "cftc_positioning" -> CftcPositioning(in)
    [] factor = "central_bank_gold_demand" -> CentralBankGoldDemand(in)
    [] factor = "equity_erp" -> EquityErp(in)
    [] factor = "gold_inflation" -> GoldInflation(in, InflationSpec)
    [] factor = "gold_china_premium" -> GoldChinaPremium(in)
    [] factor = "event_only" -> Unavailable
    [] OTHER -> WeightedMean(in, GlobalConditionsSpec, 100)
=============================================================================
