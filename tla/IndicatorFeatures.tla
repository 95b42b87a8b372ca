--------------------------- MODULE IndicatorFeatures ---------------------------
(*****************************************************************************)
(* The features of an indicator's history (engine/indicator_features.py), on   *)
(* integer observations in the order of their dates.  Squash stands for        *)
(* 100 * tanh: odd, monotone and bounded by 100, which is what the scores'     *)
(* consumers rely on; it saturates instead of bending.                         *)
(*****************************************************************************)
EXTENDS Integers, Sequences, FiniteSets, FiniteSetsExt, Functions

CONSTANT
  Window         \* how many observations or changes the scale is estimated from (120)

ASSUME FeaturesAssumption == Window \in Nat /\ Window >= 4

NoFeature == 1000000

Size(v) == IF v < 0 THEN -v ELSE v

\* 100 * tanh(num / den) for den >= 0; a vanishing scale saturates.
Squash(num, den) ==
  LET size == IF den = 0 THEN (IF num = 0 THEN 0 ELSE 100)
              ELSE IF Size(num) >= den THEN 100 ELSE (100 * Size(num)) \div den
  IN IF num < 0 THEN -size ELSE size

\* The k-th smallest value of f: the least one that k of the values do not exceed.
Ranked(f, k) == Min({x \in Range(f) : Cardinality({i \in DOMAIN f : f[i] <= x}) >= k})

\* Twice the median.
Median2(f) ==
  LET n == Cardinality(DOMAIN f)
  IN IF n % 2 = 1 THEN 2 * Ranked(f, (n + 1) \div 2)
     ELSE Ranked(f, n \div 2) + Ranked(f, n \div 2 + 1)

\* The n latest of the indices S.
LastIndices(S, n) == {i \in S : Cardinality({j \in S : j >= i}) <= n}
Sizes(f) == [i \in DOMAIN f |-> Size(f[i])]

\* robust_score: the distance from the median in units of the median absolute deviation.
RobustScore(value, history) ==
  LET m == Median2(history)
      mad4 == Median2([i \in DOMAIN history |-> Size(2 * history[i] - m)])
      off == 2 * value - m
  IN IF Cardinality(DOMAIN history) < 3 THEN 0
     ELSE IF mad4 = 0 THEN Squash(50 * off, Size(m)) ELSE Squash(10000 * off, 14826 * mad4)

\* The latest value against those before it, or against all of so few.
LevelRobust(values) ==
  LET n == Len(values)
      window == LastIndices(1 .. n, Window)
      history == IF Cardinality(window) > 3 THEN window \ {n} ELSE window
  IN IF n < 3 THEN NoFeature ELSE RobustScore(values[n], [i \in history |-> values[i]])

\* Mutant of ChangeScore: the change is centred on the median change.
CentredChange(change, earlier, base) == Squash(50 * (2 * change - Median2(earlier)), Size(base))

\* The last change in units of the median size of the earlier ones: centred at zero.
ChangeScore(change, earlier, base) ==
  LET m == Median2(Sizes(earlier))
  IN IF m = 0 THEN Squash(50 * change, Size(base)) ELSE Squash(10000 * change, 14826 * m)

ChangeRobust(values, lag) ==
  LET n == Len(values)
      window == LastIndices(lag + 1 .. n, Window)
      earlier == IF Cardinality(window) > 1 THEN window \ {n} ELSE window
  IN IF n <= lag THEN NoFeature
     ELSE ChangeScore(values[n] - values[n - lag],
                      [i \in earlier |-> values[i] - values[i - lag]], values[n - lag])

\* The logarithmic return; the scale grows with the horizon.
ReturnRobust(values, lag) ==
  LET n == Len(values)
      base == values[n - lag]
      scale == IF lag <= 20 THEN 8 ELSE IF lag <= 60 THEN 15 ELSE 25
  IN IF n <= lag \/ base <= 0 \/ values[n] <= 0 THEN NoFeature
     ELSE Squash(100 * (values[n] - base), scale * base)

\* In hundredths of a point: 65 per cent level around 50, 35 per cent the last step.
PmiState(values) ==
  LET n == Len(values)
      level == Squash(values[n] - 50, 4)
  IN IF n = 0 THEN NoFeature
     ELSE IF n < 2 THEN 100 * level
     ELSE 65 * level + 35 * Squash(values[n] - values[n - 1], 2)

\* The change over a year in per cent of the year-ago level, against its own usual size.
YoyPctRobust(values, lag) ==
  LET n == Len(values)
      base == values[n - lag]
      now == 100 * (values[n] - base)
      signed == IF base < 0 THEN -now ELSE now
      usual == LastIndices({i \in lag + 1 .. n - 1 : values[i - lag] # 0}, 60)
      typical == (14826 * Median2([i \in usual |->
                    (100 * Size(values[i] - values[i - lag])) \div Size(values[i - lag])])) \div 20000
      scale == IF typical < 5 THEN 5 ELSE typical
  IN IF n <= lag \/ base = 0 THEN NoFeature
     ELSE IF Cardinality(usual) < 3 THEN Squash(signed, 20 * Size(base))
     ELSE Squash(signed, 2 * scale * Size(base))

\* feature_score: the feature's name carries its lag.
FeatureScore(feature, lag, values) ==
  CASE feature = "level_robust" -> LevelRobust(values) [] feature = "pmi_state" -> PmiState(values)
    [] feature = "change" -> ChangeRobust(values, lag)
    [] feature = "return" -> ReturnRobust(values, lag)
    [] feature = "yoy_pct" -> YoyPctRobust(values, lag)
=============================================================================
