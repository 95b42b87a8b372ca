----------------------------- MODULE MCDataPath -----------------------------
EXTENDS DataPath, TLC

\* An observation that is fresh, stale, staler, expired.
MCAges == {0, 2, 3, 5}

Points == {-90, 40, 80}
ScoresOver(features) == UNION {[F -> Points] : F \in SUBSET features}
\* All features of a series say the same, or the level alone is there.
EvenScores(level, change) ==
  {[f \in F |-> v] : F \in {{level, change}, {level}}, v \in Points} \cup {[f \in {} |-> 0]}

Channels(scores) == [age : MCAges, scores : scores] \cup {[age |-> -1, scores |-> [f \in {} |-> 0]]}

Level == ScoresOver({"level_robust"})
Change(lag) == ScoresOver({lag})

DateSets == {{1, 2, 4}, {2, 3, 4}, {1, 3}, {3, 4, 5}}
Dated(scores) == {[age |-> c.age, scores |-> c.scores, dates |-> d] : c \in Channels(scores), d \in DateSets}
Priced(scores) == {[age |-> c.age, scores |-> c.scores, premium |-> p] : c \in Channels(scores), p \in {-60, 60}}
Erp == {s \in ScoresOver({"erp"}) : DOMAIN s # {}}
Conditions == [US_REAL_YIELD_10Y : Channels(Change("change_20")), US_BROAD_DOLLAR : Channels(Change("change_20")),
               US_VIX : Channels({[change_20 |-> 40], [f \in {} |-> 0]})]

MCCalculatorInputs ==
  [funding_liquidity |-> [CN_DR007 : Channels(ScoresOver({"level_robust", "change_5", "change_20"}))],
   credit_money |-> [CN_M1_YOY : Channels(ScoresOver({"level_robust", "change_3"})),
                     CN_TSFIN_GROWTH : Channels(ScoresOver({"yoy_pct_12"}))],
   growth_momentum |-> [CN_PMI_MANUFACTURING : Channels(ScoresOver({"pmi_state"})),
                        CN_INDUSTRIAL_PRODUCTION_YOY : Channels({[level_robust |-> -90], [level_robust |-> 80, change_3 |-> 80]}),
                        CN_EXPORTS_YOY : Channels({[level_robust |-> 80], [f \in {} |-> 0]})],
   central_bank_gold_demand |-> [GLOBAL_CENTRAL_BANK_GOLD : Channels(Level),
                                 CN_OFFICIAL_GOLD_RESERVE : Channels(Change("change_3"))],
   rmb_external_balance |-> [USDCNY : Channels(Change("change_20")), US_BROAD_DOLLAR : Channels(Change("change_20"))],
   price_profit_cycle |-> [CN_PPI_YOY : Channels(EvenScores("level_robust", "change_3")),
                           CN_INDUSTRIAL_PROFIT_YOY : Channels(EvenScores("level_robust", "change_3"))],
   cftc_positioning |-> [CFTC_GOLD_NET_LONG : Channels(ScoresOver({"change_4", "level_robust"}))],
   equity_erp |-> [CN_INDEX_PE : Dated(Erp), CN_CGB_10Y : Dated({[f \in {} |-> 0]})],
   gold_inflation |-> [US_CPI_YOY : Channels(Change("change_3")), US_REAL_YIELD_10Y : Channels(Change("change_20")),
                       US_BROAD_DOLLAR : Channels(Change("change_20"))],
   gold_china_premium |-> [SGE_AU9999 : Priced(Change("return_20")), GOLD_USD : Channels({[f \in {} |-> 0]}),
                           USDCNY : Channels({[f \in {} |-> 0]})],
   global_conditions |-> Conditions,
   event_only |-> {[i \in {} |-> 0]}]

MCHistories == UNION {[1 .. n -> {-2, -1, 0, 1, 3, 60}] : n \in 1 .. 4}

Equities == "CSI300"
Gold == "RMB_GOLD"
MCSensitivity ==
  [a \in {Equities, Gold} |->
     [EQ01_CN_FUNDING_LIQUIDITY |-> IF a = Gold THEN 0 ELSE 4, EQ03_CN_DISCOUNT_RATE |-> IF a = Gold THEN 0 ELSE 4,
      EQ04_CN_GROWTH_MOMENTUM |-> IF a = Gold THEN 0 ELSE 7, EQ06_INDEX_EARNINGS |-> IF a = Gold THEN 0 ELSE 8,
      EQ14_TREND_MOMENTUM |-> IF a = Gold THEN 0 ELSE 5,
      G01_US_REAL_YIELD |-> IF a = Gold THEN 8 ELSE 0, G02_USD |-> IF a = Gold THEN 8 ELSE 0,
      G06_CENTRAL_BANK_DEMAND |-> IF a = Gold THEN 6 ELSE 0, G07_GOLD_ETF_FLOW |-> IF a = Gold THEN 6 ELSE 0,
      G08_CFTC_POSITIONING |-> IF a = Gold THEN 4 ELSE 0]]
MCGroupOf ==
  [EQ01_CN_FUNDING_LIQUIDITY |-> "cn_liquidity", EQ03_CN_DISCOUNT_RATE |-> "cn_rates",
   EQ04_CN_GROWTH_MOMENTUM |-> "macro", EQ06_INDEX_EARNINGS |-> "earnings", EQ14_TREND_MOMENTUM |-> "market_state",
   G01_US_REAL_YIELD |-> "gold_rates_fx", G02_USD |-> "gold_rates_fx",
   G06_CENTRAL_BANK_DEMAND |-> "gold_structural", G07_GOLD_ETF_FLOW |-> "gold_positioning",
   G08_CFTC_POSITIONING |-> "gold_positioning"]
MCGroupCap == [market_state |-> 5, gold_rates_fx |-> 9, gold_positioning |-> 6]
\* The weights of a factor that is fast, in between, or slow.
Fast == [tactical |-> 13, swing |-> 7, strategic |-> 0]
Even == [tactical |-> 5, swing |-> 11, strategic |-> 4]
Slow == [tactical |-> 2, swing |-> 11, strategic |-> 7]
MCHorizonWeight ==
  [f \in DOMAIN MCGroupOf |->
     IF f \in {"EQ01_CN_FUNDING_LIQUIDITY", "EQ14_TREND_MOMENTUM", "G07_GOLD_ETF_FLOW", "G08_CFTC_POSITIONING"} THEN Fast
     ELSE IF f \in {"EQ03_CN_DISCOUNT_RATE", "G01_US_REAL_YIELD", "G02_USD"} THEN Even ELSE Slow]
MCCriticalFactors ==
  [a \in {Equities, Gold} |-> IF a = Gold THEN {"G01_US_REAL_YIELD", "G02_USD"}
                              ELSE {"EQ01_CN_FUNDING_LIQUIDITY", "EQ04_CN_GROWTH_MOMENTUM", "EQ06_INDEX_EARNINGS"}]

\* A row: strong either way, weak and stale, or none; earnings have a row of the asset's own.
Row(f, a, state, trust, status) ==
  [factor |-> f, asset |-> a, state |-> state, reliability |-> trust, coverage |-> trust,
   status |-> status, flags |-> IF state = -3 /\ f = "EQ04_CN_GROWTH_MOMENTUM"
                                THEN {"growth_signal_divergence"} ELSE {}]
RowOfTone(f, tone) ==
  CASE tone = "high" -> Row(f, "ALL", 3, 2, "VALID") [] tone = "low" -> Row(f, "ALL", -3, 2, "VALID")
    [] tone = "stale" -> Row(f, "ALL", 1, 1, "STALE") [] tone = "none" -> Row(f, "ALL", 0, 0, "UNAVAILABLE")
FamilyRows(F) == {{RowOfTone(f, tone[f]) : f \in F} : tone \in [F -> {"high", "low", "stale", "none"}]}
EquityFactors == {"EQ01_CN_FUNDING_LIQUIDITY", "EQ03_CN_DISCOUNT_RATE", "EQ04_CN_GROWTH_MOMENTUM", "EQ14_TREND_MOMENTUM"}
GoldFactors == {"G01_US_REAL_YIELD", "G02_USD", "G06_CENTRAL_BANK_DEMAND", "G07_GOLD_ETF_FLOW", "G08_CFTC_POSITIONING"}
Earnings(a, s) == Row("EQ06_INDEX_EARNINGS", a, s, 2, "VALID")
MCRowSets ==
  (Equities :> {given \cup own : given \in FamilyRows(EquityFactors),
                 own \in {{Earnings(Equities, -3), Earnings("CHINEXT", 3)}, {Earnings(Equities, 3), Earnings("CHINEXT", -3)},
                          {Earnings("ALL", 2), Earnings("CHINEXT", -3)}}})
  @@ (Gold :> FamilyRows(GoldFactors))

Headlines == {[title |-> t, at |-> x, tier |-> tier, relevance |-> r] :
                t \in 1 .. 3, x \in {0, 2, 5}, tier \in {"A", "C"}, r \in {1}}
             \cup {[title |-> 2, at |-> 5, tier |-> "C", relevance |-> 0], [title |-> 4, at |-> 4, tier |-> "C", relevance |-> 2]}
MCFeeds == UNION {kSubset(n, Headlines) : n \in 0 .. 4}
MCCutoffs == {4, 5}

Interpretations ==
  {[title |-> t, at |-> x, type |-> y, factors |-> {"f"}, verification |-> "VERIFIED", tier |-> tier,
    confidence |-> 1, strength |-> s, evidence |-> {<<t, x>>}] :
      t \in 1 .. 4, x \in {0, 2, 4}, y \in {"policy"}, tier \in {"A"}, s \in {2}}
  \cup {[title |-> t, at |-> x, type |-> "policy", factors |-> {"f"}, verification |-> "UNVERIFIED", tier |-> "C",
         confidence |-> 1, strength |-> 4, evidence |-> {<<t, x + 10>>}] : t \in 1 .. 3, x \in {0, 3}}
  \cup {[title |-> 2, at |-> 2, type |-> "data", factors |-> {"f"}, verification |-> "VERIFIED", tier |-> "A",
         confidence |-> 1, strength |-> 3, evidence |-> {<<2, 20>>}]}
MCEventSets == UNION {kSubset(n, Interpretations) : n \in 0 .. 3}
=============================================================================
