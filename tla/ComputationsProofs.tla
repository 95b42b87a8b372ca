--------------------------- MODULE ComputationsProofs ---------------------------
(*****************************************************************************)
(* What the computations promise for whatever their inputs are: a factor with  *)
(* gaps is muted and never gains by age, a feature points where the values      *)
(* moved, no headline and no interpretation of one counts twice, and a score    *)
(* follows the rows it is computed from.                                        *)
(*****************************************************************************)
EXTENDS Computations, NumberFacts, SequenceTheorems

-----------------------------------------------------------------------------
(* Means of scores.                                                          *)

\* An integer between bounds.
AtMost(v, bound) == v \in Int /\ -bound <= v /\ v <= bound

(* NoScore is no score.                                                       *)
LEMMA NoScoreApart == NoScore \in Int /\ ~AtMost(NoScore, 10000)
  BY SMT DEF NoScore, AtMost

(* The mean of scores is NoScore where there are none, and within their       *)
(* bounds otherwise.                                                          *)
LEMMA MeanBounded ==
    ASSUME NEW weight, IsFiniteSet(DOMAIN weight), NEW scores,
           \A f \in DOMAIN weight : weight[f] \in Nat \ {0},
           \A f \in DOMAIN scores : scores[f] \in -100 .. 100
    PROVE  IF DOMAIN scores \cap DOMAIN weight = {} THEN Mean(scores, weight) = NoScore
           ELSE AtMost(Mean(scores, weight), 10000)
<1> DEFINE F == DOMAIN scores \cap DOMAIN weight
           part(f) == weight[f] * scores[f]
           g == [f \in F |-> part(f)]
           fits(h) == h = [s \in SUBSET F |->
                              IF s = {} THEN 0 ELSE part(Picked(s)) + h[s \ {Picked(s)}]]
           iter == CHOOSE h : fits(h)
           num == iter[F]
           total == TotalOf(weight, F)
<1>1. IsFiniteSet(F)
  BY FS_Subset
<1>2. Mean(scores, weight) = IF F = {} THEN NoScore ELSE (100 * num) \div total
  BY Zenon DEF Mean, TotalOf, MapThenSumSet, MapThenFoldSet, Picked
<1>3. num = TotalOf(g, F)
  <2>1. \A s \in SUBSET F : s # {} => g[Picked(s)] = part(Picked(s))
    <3>1. \A s \in SUBSET F : s # {} => Picked(s) \in F
      BY DEF Picked
    <3> HIDE DEF part
    <3> QED
      BY <3>1
  <2>2. \A h : fits(h) <=> Sums(h, g, F)
    <3> HIDE DEF part, g, F
    <3> QED
      BY <2>1 DEF Sums
  <2>3. iter = CHOOSE h : Sums(h, g, F)
    BY <2>2
  <2>4. \E h : Sums(h, g, F)
    BY <1>1, SumsExist
  <2>5. Sums(iter, g, F)
    <3> HIDE DEF g, F, iter
    <3> QED
      BY <2>3, <2>4
  <2>6. TotalOf(g, F) = iter[F]
    <3> HIDE DEF g, F, iter
    <3> QED
      BY <1>1, <2>5, TotalSums
  <2> QED
    BY <2>6
<1>4. ASSUME F # {} PROVE AtMost((100 * num) \div total, 10000)
  <2>1. \A f \in F : weight[f] \in Nat \ {0} /\ scores[f] \in -100 .. 100
    OBVIOUS
  <2>2. total \in Nat \ {0}
    <3> HIDE DEF F
    <3> QED
      BY <1>1, <1>4, <2>1, TotalPositive
  <2>3. \A f \in F : weight[f] \in Nat /\ g[f] \in Int
                     /\ -(100 * weight[f]) <= g[f] /\ g[f] <= 100 * weight[f]
    <3> SUFFICES ASSUME NEW f \in F
                 PROVE  weight[f] \in Nat /\ g[f] \in Int
                        /\ -(100 * weight[f]) <= g[f] /\ g[f] <= 100 * weight[f]
      OBVIOUS
    <3>1. PICK w \in Nat : w = weight[f]
      BY <2>1
    <3>2. PICK s \in -100 .. 100 : s = scores[f]
      BY <2>1
    <3>3. g[f] = w * s
      BY <3>1, <3>2
    <3>4. w * s \in Int /\ -(100 * w) <= w * s /\ w * s <= 100 * w
      BY Z3
    <3> QED
      BY <3>1, <3>3, <3>4
  <2>4. /\ TotalOf(g, F) \in Int
        /\ -(100 * total) <= TotalOf(g, F) /\ TotalOf(g, F) <= 100 * total
    <3> HIDE DEF F, g
    <3> QED
      BY <1>1, <2>3, TotalBetween
  <2> HIDE DEF num, total
  <2>5. num \in Int /\ -(100 * total) <= num /\ num <= 100 * total
    BY <1>3, <2>4
  <2>6. 100 * num \in Int /\ -(10000 * total) <= 100 * num /\ 100 * num <= 10000 * total
    BY <2>2, <2>5
  <2>7. /\ (100 * num) \div total \in Int
        /\ -10000 <= (100 * num) \div total /\ (100 * num) \div total <= 10000
    <3>1. PICK k \in Nat : k = 10000
      OBVIOUS
    <3>2. PICK v \in Int : v = 100 * num
      BY <2>6
    <3>3. -(k * total) <= v /\ v <= k * total
      BY <2>6, <3>1, <3>2
    <3>4. v \div total \in Int /\ -k <= v \div total /\ v \div total <= k
      BY <2>2, <3>3, QuotientBetween
    <3> QED
      BY <3>1, <3>2, <3>4
  <2> QED
    BY <2>7 DEF AtMost
<1> QED
  BY <1>2, <1>4

(* A channel that offers what it is asked for speaks exactly where its mean   *)
(* is a score.                                                                *)
LEMMA ChannelMean ==
    ASSUME NEW weight, IsFiniteSet(DOMAIN weight), NEW ch,
           \A f \in DOMAIN weight : weight[f] \in Nat \ {0},
           Offers(ch, DOMAIN weight)
    PROVE  /\ Speaks(ch) <=> Mean(Scored(ch), weight) # NoScore
           /\ Speaks(ch) => AtMost(Mean(Scored(ch), weight), 10000)
           /\ Mean(Scored(ch), weight) \in Int
<1> DEFINE none == [f \in {} |-> 0]
<1>1. CASE Speaks(ch)
  <2>1. Scored(ch) = ch.scores /\ DOMAIN ch.scores \cap DOMAIN weight # {}
    BY <1>1 DEF Speaks, Scored, Offers
  <2>2. AtMost(Mean(ch.scores, weight), 10000)
    BY <2>1, MeanBounded DEF Offers
  <2> QED
    BY <1>1, <2>1, <2>2, NoScoreApart DEF AtMost
<1>2. CASE ~Speaks(ch)
  <2>1. DOMAIN Scored(ch) = {}
    BY <1>2 DEF Speaks, Scored
  <2>2. \A f \in DOMAIN Scored(ch) : Scored(ch)[f] \in -100 .. 100
    BY <2>1
  <2>3. DOMAIN Scored(ch) \cap DOMAIN weight = {}
    BY <2>1
  <2>4. Mean(Scored(ch), weight) = NoScore
    <3> HIDE DEF NoScore
    <3> QED
      BY <2>2, <2>3, MeanBounded
  <2> QED
    BY <1>2, <2>4, NoScoreApart
<1> QED
  BY <1>1, <1>2

LEMMA ClampWithin ==
    ASSUME NEW v \in Int, NEW b \in Nat
    PROVE  /\ AtMost(Clamp(v, b), b)
           /\ \A c \in Nat : AtMost(v, c) => AtMost(Clamp(v, b), c)
           /\ \A c \in Nat : AtMost(v, c) => Magnitude(Clamp(v, b)) <= c
  BY DEF Clamp, AtMost, Magnitude

-----------------------------------------------------------------------------
(* What WholeOrMuted asks of a factor's report.                              *)
SpeakingOf(f, in) == {i \in DOMAIN IndicatorWeight[f] : Speaks(in[i])}
FreshOf(f, in) == {i \in SpeakingOf(f, in) : Freshness(in[i]) = "fresh"}

Whole(f, in, report) ==
    /\ report.status = "VALID" =>
          /\ FreshOf(f, in) = SpeakingOf(f, in)
          /\ TotalOf(IndicatorWeight[f], FreshOf(f, in)) >= 80
    /\ report.status = "PARTIAL" => Magnitude(report.value) <= PartialBound[f]
    /\ report.status = "UNAVAILABLE" => report.value = NoScore /\ report.reliability = 0

Asks(f, in) == \A i \in DOMAIN AskedOf[f] : Offers(in[i], AskedOf[f][i])

LEMMA UnavailableWhole ==
    ASSUME NEW f, NEW in
    PROVE  Whole(f, in, Unavailable)
<1> HIDE DEF NoScore
<1> QED
  BY DEF Whole, Unavailable

(* A report whose coverage is the weight of what speaks, or rather not more   *)
(* than that where it is whole.                                               *)
LEMMA ReportWhole ==
    ASSUME NEW f, NEW in, NEW v \in Int, NEW c \in Int, NEW used, NEW b \in Nat,
           PartialBound[f] = b,
           \A i \in SpeakingOf(f, in) : in[i] \in used,
           c >= 80 => TotalOf(IndicatorWeight[f], SpeakingOf(f, in)) >= 80,
           c < 80 => AtMost(v, b)
    PROVE  Whole(f, in, Report(v, c, used))
<1> DEFINE r == Report(v, c, used)
<1>1. r.status = StatusOf(c, used) /\ r.value = Clamp(v, 10000)
  BY DEF Report
<1>2. CASE c < 80
  <2>1. r.status = "PARTIAL"
    BY <1>1, <1>2 DEF StatusOf
  <2>2. Magnitude(Clamp(v, 10000)) <= b
    <3>1. 10000 \in Nat
      OBVIOUS
    <3> QED
      BY <1>2, <3>1, ClampWithin
  <2> QED
    BY <1>1, <2>1, <2>2 DEF Whole
<1>3. CASE ~(c < 80)
  <2>1. r.status \in {"STALE", "VALID"}
    BY <1>1, <1>3 DEF StatusOf
  <2>2. ASSUME r.status = "VALID" PROVE FreshOf(f, in) = SpeakingOf(f, in)
    <3>1. \A ch \in used : Freshness(ch) # "stale"
      BY <1>1, <1>3, <2>2 DEF StatusOf
    <3>2. \A i \in SpeakingOf(f, in) : Freshness(in[i]) \in {"fresh", "stale"}
      BY DEF SpeakingOf, Speaks, Usable
    <3> QED
      BY <3>1, <3>2 DEF FreshOf
  <2>3. TotalOf(IndicatorWeight[f], SpeakingOf(f, in)) >= 80
    BY <1>3
  <2> QED
    BY <2>1, <2>2, <2>3 DEF Whole
<1> QED
  BY <1>2, <1>3

-----------------------------------------------------------------------------
(* The calculators.                                                          *)
LEMMA PairFinite ==
    ASSUME NEW a, NEW b
    PROVE  IsFiniteSet({a, b}) /\ IsFiniteSet({a})
<1>1. IsFiniteSet({a}) /\ {a, b} = {a} \cup {b}
  BY FS_Singleton
<1> QED
  BY <1>1, FS_AddElement

LEMMA CreditMoneyWhole ==
    ASSUME NEW in, Asks("credit_money", in)
    PROVE  Whole("credit_money", in, CreditMoney(in))
<1> DEFINE f  == "credit_money"
           a  == in.CN_M1_YOY
           b  == in.CN_TSFIN_GROWTH
           wa == [level_robust |-> 60, change_3 |-> 40]
           wb == [yoy_pct_12 |-> 100]
           m1 == Mean(Scored(a), wa)
           tsf == Mean(Scored(b), wb)
           sum == (45 * OrZero(m1) + 55 * OrZero(tsf)) \div 100
           both == m1 # NoScore /\ tsf # NoScore
           contradicted == (m1 > 3000 /\ tsf < -3000) \/ (tsf > 3000 /\ m1 < -3000)
           v == IF ~both THEN Muted(sum, 35) ELSE IF contradicted THEN Least(sum, 2000) ELSE sum
           c == (IF m1 # NoScore THEN 45 ELSE 0) + (IF tsf # NoScore THEN 55 ELSE 0)
           used == {ch \in {a} : m1 # NoScore} \cup {ch \in {b} : tsf # NoScore}
<1> HIDE DEF NoScore
<1>1. CreditMoney(in) = IF c = 0 THEN Unavailable ELSE Report(v, c, used)
  BY DEF CreditMoney
<1>2. (Speaks(a) <=> m1 # NoScore) /\ m1 \in Int
  <2>1. DOMAIN wa = {"level_robust", "change_3"} /\ \A x \in DOMAIN wa : wa[x] \in Nat \ {0}
    OBVIOUS
  <2>2. Offers(a, DOMAIN wa)
    BY <2>1 DEF Asks, AskedOf
  <2>3. IsFiniteSet(DOMAIN wa)
    BY <2>1, PairFinite
  <2> HIDE DEF wa, a
  <2> QED
    BY <2>1, <2>2, <2>3, ChannelMean
<1>3. (Speaks(b) <=> tsf # NoScore) /\ tsf \in Int
  <2>1. DOMAIN wb = {"yoy_pct_12"} /\ \A x \in DOMAIN wb : wb[x] \in Nat \ {0}
    OBVIOUS
  <2>2. Offers(b, DOMAIN wb)
    BY <2>1 DEF Asks, AskedOf
  <2>3. IsFiniteSet(DOMAIN wb)
    BY <2>1, PairFinite
  <2> HIDE DEF wb, b
  <2> QED
    BY <2>1, <2>2, <2>3, ChannelMean
<1>4. \A i \in SpeakingOf(f, in) : in[i] \in used
  <2>1. \A i \in SpeakingOf(f, in) : i \in {"CN_M1_YOY", "CN_TSFIN_GROWTH"} /\ Speaks(in[i])
    BY DEF SpeakingOf, IndicatorWeight
  <2> HIDE DEF m1, tsf
  <2> QED
    BY <1>2, <1>3, <2>1
<1>5. c >= 80 => TotalOf(IndicatorWeight[f], SpeakingOf(f, in)) >= 80
  <2> SUFFICES ASSUME c >= 80 PROVE TotalOf(IndicatorWeight[f], SpeakingOf(f, in)) >= 80
    OBVIOUS
  <2>1. m1 # NoScore /\ tsf # NoScore
    <3> HIDE DEF m1, tsf
    <3> QED
      OBVIOUS
  <2>2. SpeakingOf(f, in) = {"CN_M1_YOY", "CN_TSFIN_GROWTH"}
    BY <1>2, <1>3, <2>1 DEF SpeakingOf, IndicatorWeight
  <2> DEFINE w == IndicatorWeight[f]
  <2>3. w["CN_M1_YOY"] = 45 /\ w["CN_TSFIN_GROWTH"] = 55
    BY DEF IndicatorWeight
  <2> HIDE DEF w
  <2>4. TotalOf(w, {"CN_M1_YOY", "CN_TSFIN_GROWTH"}) = w["CN_M1_YOY"] + w["CN_TSFIN_GROWTH"]
    <3>1. "CN_M1_YOY" # "CN_TSFIN_GROWTH" /\ w["CN_M1_YOY"] \in Nat /\ w["CN_TSFIN_GROWTH"] \in Nat
      BY <2>3
    <3> QED
      BY <3>1, TotalTwo
  <2>5. TotalOf(w, SpeakingOf(f, in)) >= 80
    BY <2>2, <2>3, <2>4
  <2> QED
    BY <2>5 DEF w
<1> HIDE DEF m1, tsf
<1>6. sum \in Int
  BY <1>2, <1>3 DEF OrZero
<1> HIDE DEF sum
<1>7. v \in Int /\ (c < 80 => AtMost(v, 3500))
  <2>1. AtMost(Muted(sum, 35), 3500)
    <3>1. 100 * 35 = 3500 /\ 3500 \in Nat
      OBVIOUS
    <3> QED
      BY <1>6, <3>1, ClampWithin DEF Muted
  <2>2. v \in Int
    BY <1>6, <2>1 DEF Least, AtMost
  <2>3. c < 80 => ~both
    OBVIOUS
  <2> QED
    BY <2>1, <2>2, <2>3
<1>8. c \in Int /\ PartialBound[f] = 3500 /\ 3500 \in Nat
  BY DEF PartialBound
<1> HIDE DEF f, v, c, used
<1>9. Whole(f, in, Report(v, c, used))
  BY <1>4, <1>5, <1>7, <1>8, ReportWhole
<1> QED
  BY <1>1, <1>9, UnavailableWhole DEF f

(* The central banks' buying weighs four fifths and more by itself.           *)
LEMMA CentralBankWhole ==
    ASSUME NEW in, Asks("central_bank_gold_demand", in)
    PROVE  Whole("central_bank_gold_demand", in, CentralBankGoldDemand(in))
<1> DEFINE f  == "central_bank_gold_demand"
           a  == in.GLOBAL_CENTRAL_BANK_GOLD
           b  == in.CN_OFFICIAL_GOLD_RESERVE
           wa == [level_robust |-> 100]
           wb == [change_3 |-> 100]
           global == Mean(Scored(a), wa)
           china == Mean(Scored(b), wb)
           used == {ch \in {a} : global # NoScore} \cup {ch \in {b} : china # NoScore}
           weak == Muted((15 * china) \div 100, 25)
           sum == (85 * global + 15 * OrZero(china)) \div 100
           c == IF china # NoScore THEN 100 ELSE 85
           T == TotalOf(IndicatorWeight[f], SpeakingOf(f, in))
<1> HIDE DEF NoScore
<1>1. CentralBankGoldDemand(in) = IF global = NoScore /\ china = NoScore THEN Unavailable
                                  ELSE IF global = NoScore THEN Report(weak, 15, used)
                                  ELSE Report(sum, c, used)
  BY DEF CentralBankGoldDemand
<1>2. (Speaks(a) <=> global # NoScore) /\ global \in Int
  <2>1. DOMAIN wa = {"level_robust"} /\ \A x \in DOMAIN wa : wa[x] \in Nat \ {0}
    OBVIOUS
  <2>2. Offers(a, DOMAIN wa)
    BY <2>1 DEF Asks, AskedOf
  <2>3. IsFiniteSet(DOMAIN wa)
    BY <2>1, PairFinite
  <2> HIDE DEF wa, a
  <2> QED
    BY <2>1, <2>2, <2>3, ChannelMean
<1>3. (Speaks(b) <=> china # NoScore) /\ china \in Int
  <2>1. DOMAIN wb = {"change_3"} /\ \A x \in DOMAIN wb : wb[x] \in Nat \ {0}
    OBVIOUS
  <2>2. Offers(b, DOMAIN wb)
    BY <2>1 DEF Asks, AskedOf
  <2>3. IsFiniteSet(DOMAIN wb)
    BY <2>1, PairFinite
  <2> HIDE DEF wb, b
  <2> QED
    BY <2>1, <2>2, <2>3, ChannelMean
<1> HIDE DEF global, china
<1>4. \A i \in SpeakingOf(f, in) : in[i] \in used
  <2>1. \A i \in SpeakingOf(f, in) :
           i \in {"GLOBAL_CENTRAL_BANK_GOLD", "CN_OFFICIAL_GOLD_RESERVE"} /\ Speaks(in[i])
    BY DEF SpeakingOf, IndicatorWeight
  <2> QED
    BY <1>2, <1>3, <2>1
<1>5. global # NoScore => T >= 80
  <2> SUFFICES ASSUME global # NoScore PROVE T >= 80
    OBVIOUS
  <2> DEFINE w == IndicatorWeight[f]
             S == SpeakingOf(f, in)
             g == "GLOBAL_CENTRAL_BANK_GOLD"
             r == "CN_OFFICIAL_GOLD_RESERVE"
  <2>1. S \in {{g}, {g, r}}
    BY <1>2 DEF SpeakingOf, IndicatorWeight
  <2>2. g # r /\ w[g] = 85 /\ w[r] = 15
    BY DEF IndicatorWeight
  <2> HIDE DEF w, S, g, r
  <2>3. TotalOf(w, {g}) = w[g]
    BY <2>2, TotalOne
  <2>5. TotalOf(w, {g, r}) = w[g] + w[r]
    <3>1. g # r /\ w[g] \in Nat /\ w[r] \in Nat
      BY <2>2
    <3> QED
      BY ONLY <3>1, TotalTwo
  <2>4. TotalOf(w, S) >= 80
    BY <2>1, <2>2, <2>3, <2>5
  <2> QED
    BY <2>4 DEF w, S
<1>6. weak \in Int /\ AtMost(weak, 2500)
  <2>1. 100 * 25 = 2500 /\ 2500 \in Nat
    OBVIOUS
  <2>2. PICK v \in Int : v = (15 * china) \div 100
    BY <1>3
  <2>3. AtMost(Clamp(v, 2500), 2500)
    BY <2>1, ClampWithin
  <2> QED
    BY <2>1, <2>2, <2>3 DEF Muted, AtMost
<1>7. sum \in Int
  BY <1>2, <1>3 DEF OrZero
<1>8. PartialBound[f] = 2500 /\ 2500 \in Nat
  BY DEF PartialBound
<1> HIDE DEF f, weak, sum, used
<1>9. Whole(f, in, Report(weak, 15, used))
  <2>1. 15 \in Int /\ 15 < 80
    OBVIOUS
  <2> HIDE DEF T, c
  <2> QED
    BY <1>4, <1>6, <1>8, <2>1, ReportWhole
<1>10. global # NoScore => Whole(f, in, Report(sum, c, used))
  <2> SUFFICES ASSUME global # NoScore PROVE Whole(f, in, Report(sum, c, used))
    OBVIOUS
  <2>1. c \in Int /\ ~(c < 80)
    OBVIOUS
  <2> HIDE DEF c
  <2> QED
    BY <1>4, <1>5, <1>7, <1>8, <2>1, ReportWhole
<1> QED
  BY <1>1, <1>9, <1>10, UnavailableWhole DEF f

LEMMA RmbWhole ==
    ASSUME NEW in, Asks("rmb_external_balance", in)
    PROVE  Whole("rmb_external_balance", in, RmbExternalBalance(in))
<1> DEFINE f  == "rmb_external_balance"
           a  == in.USDCNY
           b  == in.US_BROAD_DOLLAR
           wt == [change_20 |-> 100]
           rmb == Mean(Scored(a), wt)
           usd == Mean(Scored(b), wt)
           lone == Muted(-((35 * rmb) \div 100), 30)
           beyond == Clamp(-(rmb - (65 * usd) \div 100), 7000)
           T == TotalOf(IndicatorWeight[f], SpeakingOf(f, in))
<1> HIDE DEF NoScore
<1>1. RmbExternalBalance(in) = IF rmb = NoScore THEN Unavailable
                               ELSE IF usd = NoScore THEN Report(lone, 55, {a})
                               ELSE Report(beyond, 100, {a, b})
  BY DEF RmbExternalBalance
<1>2. /\ (Speaks(a) <=> rmb # NoScore) /\ rmb \in Int
      /\ (Speaks(b) <=> usd # NoScore) /\ usd \in Int
  <2>1. DOMAIN wt = {"change_20"} /\ \A x \in DOMAIN wt : wt[x] \in Nat \ {0}
    OBVIOUS
  <2>2. Offers(a, DOMAIN wt) /\ Offers(b, DOMAIN wt)
    BY <2>1 DEF Asks, AskedOf
  <2>3. IsFiniteSet(DOMAIN wt)
    BY <2>1, PairFinite
  <2> HIDE DEF wt, a, b
  <2> QED
    BY <2>1, <2>2, <2>3, ChannelMean
<1> HIDE DEF rmb, usd
<1>3. \A i \in SpeakingOf(f, in) : i \in {"USDCNY", "US_BROAD_DOLLAR"} /\ Speaks(in[i])
  BY DEF SpeakingOf, IndicatorWeight
<1>4. \A i \in SpeakingOf(f, in) : in[i] \in {a, b} /\ (usd = NoScore => in[i] \in {a})
  BY <1>2, <1>3
<1>5. rmb # NoScore /\ usd # NoScore => T >= 80
  <2> SUFFICES ASSUME rmb # NoScore, usd # NoScore PROVE T >= 80
    OBVIOUS
  <2> DEFINE w == IndicatorWeight[f]
             S == SpeakingOf(f, in)
             g == "USDCNY"
             r == "US_BROAD_DOLLAR"
  <2>1. S = {g, r}
    BY <1>2 DEF SpeakingOf, IndicatorWeight
  <2>2. g # r /\ w[g] = 55 /\ w[r] = 45
    BY DEF IndicatorWeight
  <2> HIDE DEF w, S, g, r
  <2>3. TotalOf(w, S) >= 80
    BY <2>1, <2>2, TotalTwo, SMTT(30)
  <2> QED
    BY <2>3 DEF w, S
<1>6. lone \in Int /\ AtMost(lone, 3000)
  <2>1. 100 * 30 = 3000 /\ 3000 \in Nat
    OBVIOUS
  <2>2. PICK v \in Int : v = -((35 * rmb) \div 100)
    BY <1>2
  <2>3. AtMost(Clamp(v, 3000), 3000)
    BY <2>1, ClampWithin
  <2> QED
    BY <2>1, <2>2, <2>3 DEF Muted, AtMost
<1>7. beyond \in Int
  BY <1>2 DEF Clamp
<1>8. PartialBound[f] = 3000 /\ 3000 \in Nat
  BY DEF PartialBound
<1> HIDE DEF f, lone, beyond
<1>9. usd = NoScore => Whole(f, in, Report(lone, 55, {a}))
  BY <1>4, <1>6, <1>8, ReportWhole
<1>10. rmb # NoScore /\ usd # NoScore => Whole(f, in, Report(beyond, 100, {a, b}))
  BY <1>4, <1>5, <1>7, <1>8, ReportWhole
<1> QED
  BY <1>1, <1>9, <1>10, UnavailableWhole DEF f

LEMMA PriceProfitWhole ==
    ASSUME NEW in, Asks("price_profit_cycle", in)
    PROVE  Whole("price_profit_cycle", in, PriceProfitCycle(in))
<1> DEFINE f  == "price_profit_cycle"
           a  == in.CN_PPI_YOY
           b  == in.CN_INDUSTRIAL_PROFIT_YOY
           wa == [level_robust |-> 40, change_3 |-> 60]
           wb == [level_robust |-> 65, change_3 |-> 35]
           ppi == Mean(Scored(a), wa)
           profit == Mean(Scored(b), wb)
           sum == (72 * profit + 28 * OrZero(ppi)) \div 100
           used == {ch \in {a} : ppi # NoScore} \cup {ch \in {b} : profit # NoScore}
           weak == Muted(ppi, 35)
           whole(r) == Whole(f, in, r)
           T == TotalOf(IndicatorWeight[f], SpeakingOf(f, in))
<1> HIDE DEF NoScore
<1>1. PriceProfitCycle(in) =
         IF ppi = NoScore /\ profit = NoScore THEN Unavailable
         ELSE IF profit = NoScore THEN Report(weak, 28, used)
         ELSE IF ppi = NoScore THEN Report(sum, 72, used)
         ELSE IF ppi > 3500 /\ profit < -2000 THEN Report(Least(sum, 1000), 100, used)
         ELSE IF ppi < -3500 /\ profit > 2500 /\ sum < -1000 THEN Report(-1000, 100, used)
         ELSE Report(sum, 100, used)
  BY DEF PriceProfitCycle
<1>2. (Speaks(a) <=> ppi # NoScore) /\ ppi \in Int
  <2>1. DOMAIN wa = {"level_robust", "change_3"} /\ \A x \in DOMAIN wa : wa[x] \in Nat \ {0}
    OBVIOUS
  <2>2. Offers(a, DOMAIN wa)
    BY <2>1 DEF Asks, AskedOf
  <2>3. IsFiniteSet(DOMAIN wa)
    BY <2>1, PairFinite
  <2> HIDE DEF wa, a
  <2> QED
    BY <2>1, <2>2, <2>3, ChannelMean
<1>3. /\ (Speaks(b) <=> profit # NoScore) /\ profit \in Int
      /\ profit # NoScore => AtMost(profit, 10000)
  <2>1. DOMAIN wb = {"level_robust", "change_3"} /\ \A x \in DOMAIN wb : wb[x] \in Nat \ {0}
    OBVIOUS
  <2>2. Offers(b, DOMAIN wb)
    BY <2>1 DEF Asks, AskedOf
  <2>3. IsFiniteSet(DOMAIN wb)
    BY <2>1, PairFinite
  <2> HIDE DEF wb, b
  <2> QED
    BY <2>1, <2>2, <2>3, ChannelMean
<1> HIDE DEF ppi, profit
<1>4. \A i \in SpeakingOf(f, in) : in[i] \in used
  <2>1. \A i \in SpeakingOf(f, in) :
           i \in {"CN_PPI_YOY", "CN_INDUSTRIAL_PROFIT_YOY"} /\ Speaks(in[i])
    BY DEF SpeakingOf, IndicatorWeight
  <2> QED
    BY <1>2, <1>3, <2>1
<1>5. ppi # NoScore /\ profit # NoScore => T >= 80
  <2> SUFFICES ASSUME ppi # NoScore, profit # NoScore PROVE T >= 80
    OBVIOUS
  <2> DEFINE w == IndicatorWeight[f]
             S == SpeakingOf(f, in)
             g == "CN_PPI_YOY"
             r == "CN_INDUSTRIAL_PROFIT_YOY"
  <2>1. S = {g, r}
    BY <1>2, <1>3 DEF SpeakingOf, IndicatorWeight
  <2>2. g # r /\ w[g] = 28 /\ w[r] = 72
    BY DEF IndicatorWeight
  <2> HIDE DEF w, S, g, r
  <2>3. TotalOf(w, {g, r}) = w[g] + w[r]
    <3>1. g # r /\ w[g] \in Nat /\ w[r] \in Nat
      BY <2>2
    <3> QED
      BY ONLY <3>1, TotalTwo
  <2>4. TotalOf(w, S) >= 80
    BY <2>1, <2>2, <2>3
  <2> QED
    BY <2>4 DEF w, S
<1>6. weak \in Int /\ AtMost(weak, 7200)
  <2>1. 100 * 35 = 3500 /\ 3500 \in Nat
    OBVIOUS
  <2>2. AtMost(Clamp(ppi, 3500), 3500)
    BY <1>2, <2>1, ClampWithin
  <2> QED
    BY <2>1, <2>2 DEF Muted, AtMost
<1>7. sum \in Int /\ (ppi = NoScore /\ profit # NoScore => AtMost(sum, 7200))
  <2>1. OrZero(ppi) \in Int /\ (ppi = NoScore => OrZero(ppi) = 0)
    BY <1>2 DEF OrZero
  <2>2. PICK v \in Int : v = OrZero(ppi) /\ (ppi = NoScore => v = 0)
    BY <2>1
  <2>3. sum = (72 * profit + 28 * v) \div 100
    BY <2>2
  <2>4. sum \in Int
    BY <1>3, <2>3
  <2>5. ASSUME ppi = NoScore, profit # NoScore PROVE AtMost(sum, 7200)
    <3>1. -10000 <= profit /\ profit <= 10000
      BY <1>3, <2>5 DEF AtMost
    <3>2. sum = (72 * profit) \div 100
      BY <1>3, <2>2, <2>3, <2>5
    <3>3. -7200 <= (72 * profit) \div 100 /\ (72 * profit) \div 100 <= 7200
      BY <1>3, <3>1
    <3> QED
      BY <2>4, <3>2, <3>3 DEF AtMost
  <2> QED
    BY <2>4, <2>5
<1>8. PartialBound[f] = 7200 /\ 7200 \in Nat
  BY DEF PartialBound
<1>9. Least(sum, 1000) \in Int /\ -1000 \in Int
  BY <1>7 DEF Least
<1> HIDE DEF f, weak, sum, used
<1>10. Whole(f, in, Report(weak, 28, used))
  <2>1. 28 \in Int /\ 28 < 80
    OBVIOUS
  <2> HIDE DEF T
  <2> QED
    BY <1>4, <1>6, <1>8, <2>1, ReportWhole
<1>11. ppi = NoScore /\ profit # NoScore => Whole(f, in, Report(sum, 72, used))
  <2>1. 72 \in Int /\ 72 < 80
    OBVIOUS
  <2> HIDE DEF T
  <2> QED
    BY <1>4, <1>7, <1>8, <2>1, ReportWhole
<1>12. ppi # NoScore /\ profit # NoScore =>
          \A v \in Int : Whole(f, in, Report(v, 100, used))
  <2> SUFFICES ASSUME ppi # NoScore, profit # NoScore, NEW v \in Int
               PROVE  Whole(f, in, Report(v, 100, used))
    OBVIOUS
  <2>1. 100 \in Int /\ ~(100 < 80) /\ T >= 80
    BY <1>5
  <2> QED
    BY <1>4, <1>8, <2>1, ReportWhole
<1> QED
  BY <1>1, <1>7, <1>9, <1>10, <1>11, <1>12, UnavailableWhole DEF f

LEMMA GrowthWhole ==
    ASSUME NEW in, Asks("growth_momentum", in)
    PROVE  Whole("growth_momentum", in, GrowthMomentum(in))
<1> DEFINE f  == "growth_momentum"
           of(i) == GrowthComponent(in, i)
           have == {i \in DOMAIN GrowthWeights : of(i) # NoScore}
           part(i) == GrowthWeights[i] * of(i)
           g == [i \in have |-> part(i)]
           fits(h) == h = [s \in SUBSET have |->
                              IF s = {} THEN 0 ELSE part(Picked(s)) + h[s \ {Picked(s)}]]
           iter == CHOOSE h : fits(h)
           num == iter[have]
           sum == num \div 100
           c == TotalOf(GrowthWeights, have)
           muted == IF c < 80 THEN Muted(sum, 45) ELSE sum
           diverging == /\ \E i \in have : of(i) > 2500
                        /\ \E i \in have : of(i) < -2500
           v == IF diverging THEN Muted(muted, 35) ELSE muted
           used == {in[i] : i \in have}
<1> HIDE DEF NoScore
<1>1. GrowthMomentum(in) = IF have = {} THEN Unavailable ELSE Report(v, c, used)
  BY Zenon DEF GrowthMomentum, TotalOf, MapThenSumSet, MapThenFoldSet, Picked
<1>2. ASSUME NEW i \in DOMAIN GrowthWeights
      PROVE  (Speaks(in[i]) <=> of(i) # NoScore) /\ of(i) \in Int
  <2>1. CASE i = "CN_PMI_MANUFACTURING"
    <3> DEFINE w == [pmi_state |-> 100]
    <3>1. DOMAIN w = {"pmi_state"} /\ \A x \in DOMAIN w : w[x] \in Nat \ {0}
      OBVIOUS
    <3>2. Offers(in[i], DOMAIN w)
      BY <2>1, <3>1 DEF Asks, AskedOf
    <3>3. IsFiniteSet(DOMAIN w)
      BY <3>1, PairFinite
    <3>4. of(i) = Mean(Scored(in[i]), w)
      BY <2>1 DEF GrowthComponent
    <3> HIDE DEF w, of
    <3> QED
      BY <3>1, <3>2, <3>3, <3>4, ChannelMean
  <2>2. CASE i \in {"CN_INDUSTRIAL_PRODUCTION_YOY", "CN_EXPORTS_YOY"}
    <3> DEFINE w == [level_robust |-> 55, change_3 |-> 45]
    <3>1. DOMAIN w = {"level_robust", "change_3"} /\ \A x \in DOMAIN w : w[x] \in Nat \ {0}
      OBVIOUS
    <3>2. Offers(in[i], DOMAIN w)
      BY <2>2, <3>1 DEF Asks, AskedOf
    <3>3. IsFiniteSet(DOMAIN w)
      BY <3>1, PairFinite
    <3>4. of(i) = Mean(Scored(in[i]), w)
      BY <2>2 DEF GrowthComponent
    <3> HIDE DEF w, of
    <3> QED
      BY <3>1, <3>2, <3>3, <3>4, ChannelMean
  <2> QED
    BY <2>1, <2>2 DEF GrowthWeights
<1>3. SpeakingOf(f, in) = have
  <2>1. DOMAIN IndicatorWeight[f] = DOMAIN GrowthWeights
    BY DEF IndicatorWeight
  <2> HIDE DEF of
  <2> QED
    BY <1>2, <2>1 DEF SpeakingOf
<1>4. IndicatorWeight[f] = GrowthWeights
  BY DEF IndicatorWeight
<1>5. IsFiniteSet(DOMAIN GrowthWeights) /\ \A i \in DOMAIN GrowthWeights : GrowthWeights[i] \in Nat
  <2>1. DOMAIN GrowthWeights =
           {"CN_PMI_MANUFACTURING", "CN_INDUSTRIAL_PRODUCTION_YOY"} \cup {"CN_EXPORTS_YOY"}
    BY DEF GrowthWeights
  <2>2. IsFiniteSet({"CN_PMI_MANUFACTURING", "CN_INDUSTRIAL_PRODUCTION_YOY"})
    BY PairFinite
  <2>3. \A i \in DOMAIN GrowthWeights : GrowthWeights[i] \in Nat
    BY DEF GrowthWeights
  <2> QED
    BY <2>1, <2>2, <2>3, FS_AddElement
<1>6. IsFiniteSet(have)
  BY <1>5, FS_Subset
<1>7. c \in Nat
  <2> HIDE DEF have
  <2>1. have \in SUBSET DOMAIN GrowthWeights
    BY DEF have
  <2> QED
    BY <1>5, <2>1, TotalType
<1>8. num \in Int
  <2>1. \A s \in SUBSET have : s # {} => g[Picked(s)] = part(Picked(s))
    <3>1. \A s \in SUBSET have : s # {} => Picked(s) \in have
      BY DEF Picked
    <3> HIDE DEF part, have
    <3> QED
      BY <3>1
  <2>2. \A h : fits(h) <=> Sums(h, g, have)
    <3> HIDE DEF part, g, have
    <3> QED
      BY <2>1 DEF Sums
  <2>3. iter = CHOOSE h : Sums(h, g, have)
    BY <2>2
  <2>4. \E h : Sums(h, g, have)
    BY <1>6, SumsExist
  <2>5. TotalOf(g, have) = iter[have]
    <3> HIDE DEF g, have, iter
    <3>1. Sums(iter, g, have)
      BY <2>3, <2>4
    <3> QED
      BY <1>6, <3>1, TotalSums
  <2>6. \A i \in have : g[i] \in Int
    <3>1. ASSUME NEW i \in have PROVE part(i) \in Int
      <4>1. PICK x \in Int : x = of(i)
        BY <1>2
      <4>2. PICK y \in Nat : y = GrowthWeights[i]
        BY <1>5
      <4> HIDE DEF of
      <4> QED
        BY <4>1, <4>2
    <3> HIDE DEF part, have
    <3> QED
      BY <3>1
  <2> HIDE DEF g, have, iter
  <2>7. TotalOf(g, have) \in Int
    BY <1>6, <2>6, TotalInt
  <2> QED
    BY <2>5, <2>7
<1>9. sum \in Int
  <2> HIDE DEF num
  <2> QED
    BY <1>8
<1> HIDE DEF sum, c, have, used, f, of, diverging
<1>10. muted \in Int /\ (c < 80 => AtMost(muted, 4500))
  <2>1. 100 * 45 = 4500 /\ 4500 \in Nat
    OBVIOUS
  <2>2. AtMost(Clamp(sum, 4500), 4500)
    BY <1>9, <2>1, ClampWithin
  <2> QED
    BY <1>9, <2>1, <2>2 DEF Muted, AtMost
<1> HIDE DEF muted
<1>11. v \in Int /\ (c < 80 => AtMost(v, 4500))
  <2>1. 100 * 35 = 3500 /\ 3500 \in Nat /\ 4500 \in Nat
    OBVIOUS
  <2>2. /\ AtMost(Clamp(muted, 3500), 3500)
        /\ AtMost(muted, 4500) => AtMost(Clamp(muted, 3500), 4500)
    BY <1>10, <2>1, ClampWithin
  <2> QED
    BY <1>10, <2>1, <2>2 DEF Muted, AtMost
<1>12. PartialBound[f] = 4500 /\ 4500 \in Nat
  BY DEF PartialBound, f
<1>13. \A i \in SpeakingOf(f, in) : in[i] \in used
  BY <1>3 DEF used
<1>14. c >= 80 => TotalOf(IndicatorWeight[f], SpeakingOf(f, in)) >= 80
  BY <1>3, <1>4 DEF c
<1> HIDE DEF v
<1>15. Whole(f, in, Report(v, c, used))
  <2>1. c \in Int
    BY <1>7
  <2>2. PICK b \in Nat : b = 4500
    OBVIOUS
  <2>3. PartialBound[f] = b /\ (c < 80 => AtMost(v, b)) /\ v \in Int
    BY <1>11, <1>12, <2>2
  <2> QED
    BY <1>13, <1>14, <2>1, <2>3, ReportWhole
<1> QED
  BY <1>1, <1>15, UnavailableWhole DEF f

-----------------------------------------------------------------------------
(* What was computed, and from what.                                         *)
FactorComputed ==
    subject = "factor" =>
        /\ input.factor \in DOMAIN CalculatorInputs
        /\ input.channels \in CalculatorInputs[input.factor]
        /\ answer = Calculate(input.factor, input.channels)

LEMMA FactorInvariant == ComputationsSpec => []FactorComputed
<1>1. ComputationsInit => FactorComputed
  BY DEF ComputationsInit, FactorComputed
<1>2. FactorComputed /\ [ComputationsNext]_computationVars => FactorComputed'
  <2> SUFFICES ASSUME FactorComputed, [ComputationsNext]_computationVars PROVE FactorComputed'
    OBVIOUS
  <2>1. CASE CalculateFactor
    <3>1. PICK f \in DOMAIN CalculatorInputs : \E channels \in CalculatorInputs[f] :
             /\ input' = [factor |-> f, channels |-> channels]
             /\ answer' = Calculate(f, channels)
      BY <2>1 DEF CalculateFactor
    <3> QED
      BY <3>1 DEF FactorComputed
  <2>2. CASE ComputeFeature \/ ScoreAsset \/ ClusterFeed \/ MergeEvents
    <3>1. subject' \in {"feature", "score", "clusters", "events"}
      BY <2>2 DEF ComputeFeature, ScoreAsset, ClusterFeed, MergeEvents
    <3> QED
      BY <3>1 DEF FactorComputed
  <2>3. CASE UNCHANGED computationVars
    BY <2>3 DEF FactorComputed, computationVars
  <2> QED
    BY <2>1, <2>2, <2>3 DEF ComputationsNext
<1> QED
  BY <1>1, <1>2, PTL DEF ComputationsSpec

(* Each of the five calculators with a bound reports as WholeOrMuted asks,    *)
(* from whatever its indicators offer.                                        *)
LEMMA CalculatedWhole ==
    ASSUME NEW f \in DOMAIN IndicatorWeight, NEW in, Asks(f, in)
    PROVE  Whole(f, in, Calculate(f, in))
<1>1. CASE f = "credit_money"
  <2>1. Calculate(f, in) = CreditMoney(in)
    BY <1>1 DEF Calculate
  <2> QED
    BY <1>1, <2>1, CreditMoneyWhole
<1>2. CASE f = "growth_momentum"
  <2>1. Calculate(f, in) = GrowthMomentum(in)
    BY <1>2 DEF Calculate
  <2> QED
    BY <1>2, <2>1, GrowthWhole
<1>3. CASE f = "central_bank_gold_demand"
  <2>1. Calculate(f, in) = CentralBankGoldDemand(in)
    BY <1>3 DEF Calculate
  <2> QED
    BY <1>3, <2>1, CentralBankWhole
<1>4. CASE f = "rmb_external_balance"
  <2>1. Calculate(f, in) = RmbExternalBalance(in)
    BY <1>4 DEF Calculate
  <2> QED
    BY <1>4, <2>1, RmbWhole
<1>5. CASE f = "price_profit_cycle"
  <2>1. Calculate(f, in) = PriceProfitCycle(in)
    BY <1>5 DEF Calculate
  <2> QED
    BY <1>5, <2>1, PriceProfitWhole
<1> QED
  BY <1>1, <1>2, <1>3, <1>4, <1>5 DEF IndicatorWeight

(* A factor that is VALID rests on fresh observations of four fifths of its   *)
(* weight, and one with less of them is muted, whatever its indicators offer. *)
THEOREM GapsAreMuted == ComputationsSpec => []WholeOrMuted
<1>1. FactorComputed => WholeOrMuted
  <2> SUFFICES ASSUME FactorComputed, subject = "factor", input.factor \in DOMAIN IndicatorWeight
               PROVE  WholeOrMuted
    BY DEF WholeOrMuted
  <2>1. Asks(input.factor, input.channels)
    <3>1. /\ DOMAIN input.channels = DOMAIN AskedOf[input.factor]
          /\ \A i \in DOMAIN input.channels : Offers(input.channels[i], AskedOf[input.factor][i])
      BY ComputationsAssumption DEF FactorComputed
    <3> QED
      BY <3>1 DEF Asks
  <2>2. Whole(input.factor, input.channels, answer)
    BY <2>1, CalculatedWhole DEF FactorComputed
  <2> HIDE DEF NoScore
  <2> QED
    BY <2>2 DEF WholeOrMuted, Whole, FreshOf, SpeakingOf, TotalOf
<1> QED
  BY <1>1, FactorInvariant, PTL

-----------------------------------------------------------------------------
(* Observations that grow older.                                             *)

(* One that is fresh or stale has a positive multiplier, which is whole while *)
(* it is fresh, and lower the older it is from then on.                       *)
LEMMA MultiplierFalls ==
    ASSUME NEW c, NEW d, c.age \in Nat, d.age \in Nat, c.age <= d.age, d.age <= HardAge
    PROVE  /\ Usable(c) /\ Usable(d)
           /\ Multiplier(c) \in Nat \ {0} /\ Multiplier(d) \in Nat \ {0}
           /\ Multiplier(d) <= Multiplier(c) /\ Multiplier(c) <= 100 * Span
           /\ Freshness(c) = "fresh" => Multiplier(c) = 100 * Span
           /\ d.age > FreshAge => Multiplier(d) < 100 * Span
           /\ Freshness(d) = "fresh" => Freshness(c) = "fresh"
<1>1. /\ FreshAge \in Nat /\ HardAge \in Nat /\ Span \in Nat \ {0}
      /\ HardAge = FreshAge + Span /\ Floor \in 1 .. 99
  BY CalculatorsAssumption DEF Span
<1>2. \A x \in Nat : NoHistory # x
  BY DEF NoHistory
<1>3. ASSUME NEW e, e.age \in Nat, e.age <= HardAge
      PROVE  /\ Freshness(e) = IF e.age <= FreshAge THEN "fresh" ELSE "stale"
             /\ Usable(e)
  <2>1. CASE e.age <= FreshAge
    BY <1>1, <1>2, <1>3, <2>1 DEF Freshness, Usable
  <2>2. CASE ~(e.age <= FreshAge)
    <3>1. ~(e.age > HardAge)
      BY <1>1, <1>3
    <3> QED
      BY <1>2, <1>3, <2>2, <3>1 DEF Freshness, Usable
  <2> QED
    BY <2>1, <2>2
<1> DEFINE lost(x) == (100 - Floor) * (x - FreshAge)
<1>4. ASSUME NEW e, e.age \in Nat, e.age <= HardAge
      PROVE  /\ e.age <= FreshAge => Multiplier(e) = 100 * Span
             /\ e.age > FreshAge => Multiplier(e) = 100 * Span - lost(e.age)
  <2>1. CASE e.age <= FreshAge
    BY <1>1, <1>3, <1>4, <2>1 DEF Multiplier
  <2>2. CASE e.age > FreshAge
    <3>1. PICK k \in 0 .. Span : e.age - FreshAge = k
      BY <1>1, <1>4, <2>2
    <3>2. PICK m \in 1 .. 99 : m = 100 - Floor
      BY <1>1
    <3>3. m * k <= m * Span
      BY <1>1, Z3
    <3>4. m * Span + Floor * Span = 100 * Span
      BY <1>1, <3>2, Z3
    <3>5. m * k \in Int /\ m * Span \in Int /\ Floor * Span \in Int
      BY <1>1
    <3>6. ~(100 * Span - m * k < Floor * Span)
      BY <1>1, <3>3, <3>4, <3>5
    <3>7. Freshness(e) # "fresh"
      BY <1>1, <1>3, <1>4, <2>2
    <3>8. (100 - Floor) * (e.age - FreshAge) = m * k
      BY <3>1, <3>2
    <3>9. Multiplier(e) = 100 * Span - m * k
      BY <3>6, <3>7, <3>8 DEF Multiplier
    <3>10. lost(e.age) = m * k
      BY <3>8
    <3>11. ~(e.age <= FreshAge)
      BY <1>1, <1>4, <2>2
    <3> HIDE DEF lost
    <3> QED
      BY <3>9, <3>10, <3>11
  <2> QED
    BY <1>1, <1>4, <2>1, <2>2
<1>5. ASSUME NEW x \in Nat, NEW y \in Nat, FreshAge < x, x <= y, y <= HardAge
      PROVE  /\ lost(x) \in Nat \ {0} /\ lost(x) <= lost(y) /\ lost(y) < 100 * Span
  <2>1. PICK m \in 1 .. 99 : m = 100 - Floor
    BY <1>1
  <2>2. PICK j \in 1 .. Span : j = x - FreshAge
    BY <1>1, <1>5
  <2>3. PICK k \in 1 .. Span : k = y - FreshAge
    BY <1>1, <1>5
  <2>4. j <= k
    BY <1>1, <1>5, <2>2, <2>3
  <2>5. m * j \in Nat \ {0} /\ m * j <= m * k /\ m * k <= m * Span /\ m * Span < 100 * Span
    BY <1>1, <2>4, Z3
  <2>6. m * k \in Int /\ m * Span \in Int
    BY <1>1, Z3
  <2>7. m * k < 100 * Span
    BY <1>1, <2>5, <2>6
  <2> QED
    BY <2>1, <2>2, <2>3, <2>5, <2>7
<1> HIDE DEF lost
<1>6. c.age <= HardAge
  BY <1>1
<1>7. d.age > FreshAge => lost(d.age) \in Nat \ {0} /\ lost(d.age) < 100 * Span
  BY <1>5
<1>8. c.age > FreshAge =>
        /\ lost(c.age) \in Nat \ {0} /\ lost(c.age) < 100 * Span
        /\ d.age > FreshAge /\ lost(c.age) <= lost(d.age)
  BY <1>1, <1>5, <1>6
<1> QED
  BY <1>1, <1>3, <1>4, <1>6, <1>7, <1>8

\* The channels with one of them older.
Delayed(in, i, x) == [in EXCEPT ![i].age = x]

\* What a calculator is asked with.
Offered(f, in) ==
    /\ f \in DOMAIN AskedOf /\ DOMAIN in = DOMAIN AskedOf[f]
    /\ \A i \in DOMAIN in : Offers(in[i], AskedOf[f][i])

LEMMA UsableAge ==
    ASSUME NEW f, NEW in, Offered(f, in), NEW i \in DOMAIN in, Usable(in[i])
    PROVE  in[i].age \in Nat /\ in[i].age <= HardAge
<1>1. in[i].age \in Nat \cup {NoHistory} /\ HardAge \in Nat
  BY CalculatorsAssumption DEF Offered, Offers
<1>2. in[i].age # NoHistory
  BY DEF Usable, Freshness
<1>3. ASSUME in[i].age > HardAge PROVE FALSE
  <2>1. FreshAge \in Nat /\ FreshAge < HardAge
    BY CalculatorsAssumption
  <2>2. ~(in[i].age <= FreshAge)
    BY <1>1, <1>2, <1>3, <2>1
  <2> QED
    BY <1>2, <1>3, <2>2 DEF Usable, Freshness
<1> QED
  BY <1>1, <1>2, <1>3

LEMMA OlderChannels ==
    ASSUME NEW f, NEW in, Offered(f, in), NEW i \in DOMAIN in, NEW x
    PROVE  /\ DOMAIN Delayed(in, i, x) = DOMAIN in
           /\ \A j \in DOMAIN in : j # i => Delayed(in, i, x)[j] = in[j]
           /\ Delayed(in, i, x)[i].age = x
           /\ Delayed(in, i, x)[i].scores = in[i].scores
           /\ "dates" \in DOMAIN in[i] => Delayed(in, i, x)[i].dates = in[i].dates
  BY DEF Offered, Offers, Delayed

(* While none expires, the older channels offer the same.                     *)
LEMMA OlderOffers ==
    ASSUME NEW f, NEW in, Offered(f, in), NEW i \in DOMAIN in, NEW x \in Nat,
           Usable(in[i]), in[i].age < x, x <= HardAge
    PROVE  \A j \in DOMAIN in :
             /\ Usable(Delayed(in, i, x)[j]) <=> Usable(in[j])
             /\ Scored(Delayed(in, i, x)[j]) = Scored(in[j])
             /\ Speaks(Delayed(in, i, x)[j]) <=> Speaks(in[j])
             /\ Usable(in[j]) =>
                  /\ in[j].age \in Nat /\ Delayed(in, i, x)[j].age \in Nat
                  /\ in[j].age <= Delayed(in, i, x)[j].age /\ Delayed(in, i, x)[j].age <= HardAge
<1> DEFINE o == Delayed(in, i, x)
<1>1. /\ \A j \in DOMAIN in : j # i => o[j] = in[j]
      /\ o[i].age = x /\ o[i].scores = in[i].scores
  BY OlderChannels
<1>2. in[i].age \in Nat /\ in[i].age <= HardAge
  BY UsableAge
<1> HIDE DEF o
<1>3. Usable(o[i])
  BY <1>1, <1>2, MultiplierFalls
<1>4. /\ Usable(o[i]) <=> Usable(in[i])
      /\ Scored(o[i]) = Scored(in[i])
      /\ Speaks(o[i]) <=> Speaks(in[i])
  BY <1>1, <1>3 DEF Scored, Speaks
<1>5. \A j \in DOMAIN in : Usable(in[j]) => in[j].age \in Nat /\ in[j].age <= HardAge
  BY UsableAge
<1>6. ASSUME NEW j \in DOMAIN in
      PROVE  /\ Usable(o[j]) <=> Usable(in[j])
             /\ Scored(o[j]) = Scored(in[j])
             /\ Speaks(o[j]) <=> Speaks(in[j])
             /\ Usable(in[j]) => /\ in[j].age \in Nat /\ o[j].age \in Nat
                                 /\ in[j].age <= o[j].age /\ o[j].age <= HardAge
  <2>1. CASE j = i
    BY <1>1, <1>2, <1>4, <2>1
  <2>2. CASE j # i
    <3>1. o[j] = in[j]
      BY <1>1, <2>2
    <3>2. Usable(in[j]) => in[j].age \in Nat /\ in[j].age <= HardAge
      BY <1>5
    <3> QED
      BY <3>1, <3>2
  <2> QED
    BY <2>1, <2>2
<1> QED
  BY <1>6 DEF o

\* What AgeingNeverHelps asks of a report and of the one made from older channels.
NoBetter(report, older) ==
    /\ older.reliability <= report.reliability
    /\ older.status = "VALID" => report.status = "VALID"

Costs(report, older) == report.reliability > 0 => older.reliability < report.reliability

(* The least multiplier of some channels is that of one of them.              *)
LEMMA LeastMultiplier ==
    ASSUME NEW K, IsFiniteSet(K), K # {}, NEW p, \A j \in K : Multiplier(p[j]) \in Nat \ {0},
           NEW c
    PROVE  \E k \in K : /\ Trust(c, {p[j] : j \in K}) = c * Multiplier(p[k])
                        /\ \A j \in K : Multiplier(p[k]) <= Multiplier(p[j])
<1> DEFINE S == {p[j] : j \in K}
           m == [j \in K |-> Multiplier(p[j])]
           least == CHOOSE n \in {Multiplier(ch) : ch \in S} : \A ch \in S : n <= Multiplier(ch)
<1>1. \A j \in K : m[j] \in Int
  OBVIOUS
<1>2. PICK k \in K : \A j \in K : m[k] <= m[j]
  <2> HIDE DEF m
  <2> QED
    BY <1>1, LeastPlace
<1>3. \A j \in K : Multiplier(p[k]) <= Multiplier(p[j])
  BY <1>2
<1>4. \A ch \in S : Multiplier(p[k]) <= Multiplier(ch)
  BY <1>3
<1>5. least \in {Multiplier(ch) : ch \in S} /\ \A ch \in S : least <= Multiplier(ch)
  BY <1>4
<1>6. least = Multiplier(p[k])
  <2>1. PICK j \in K : least = Multiplier(p[j])
    BY <1>5
  <2>2. least <= Multiplier(p[k]) /\ Multiplier(p[k]) <= Multiplier(p[j])
    BY <1>3, <1>5
  <2>3. Multiplier(p[k]) \in Nat /\ Multiplier(p[j]) \in Nat
    OBVIOUS
  <2> HIDE DEF least, S
  <2> QED
    BY <2>1, <2>2, <2>3
<1>7. Trust(c, S) = c * least
  BY DEF Trust
<1> HIDE DEF least
<1> QED
  BY <1>3, <1>6, <1>7

NoYounger(in, o, K) ==
    \A j \in K : in[j].age \in Nat /\ o[j].age \in Nat /\ in[j].age <= o[j].age /\ o[j].age <= HardAge

AgesWell(in, o, K, report, older) ==
    /\ NoBetter(report, older)
    /\ older.age >= report.age
    /\ (\A j \in K : Freshness(in[j]) = "fresh") /\ (\E j \in K : o[j].age > FreshAge)
         => Costs(report, older)

(* The least multiplier governs; so a report on the same channels, some of    *)
(* them older, is trusted no more, and less where all of them were fresh and  *)
(* one no longer is.                                                          *)
LEMMA ReportAges ==
    ASSUME NEW K, IsFiniteSet(K), K # {}, NEW in, NEW o, NoYounger(in, o, K),
           NEW c \in Nat, NEW v, NEW w
    PROVE  AgesWell(in, o, K, Report(v, c, {in[j] : j \in K}), Report(w, c, {o[j] : j \in K}))
<1>0. \A j \in K : in[j].age \in Nat /\ o[j].age \in Nat /\ in[j].age <= o[j].age /\ o[j].age <= HardAge
  BY DEF NoYounger
<1> DEFINE U == {in[j] : j \in K}
           V == {o[j] : j \in K}
<1>1. \A j \in K :
        /\ Multiplier(in[j]) \in Nat \ {0} /\ Multiplier(o[j]) \in Nat \ {0}
        /\ Multiplier(o[j]) <= Multiplier(in[j]) /\ Multiplier(in[j]) <= 100 * Span
        /\ Freshness(in[j]) = "fresh" => Multiplier(in[j]) = 100 * Span
        /\ o[j].age > FreshAge => Multiplier(o[j]) < 100 * Span
        /\ Freshness(o[j]) = "fresh" => Freshness(in[j]) = "fresh"
        /\ Usable(in[j]) /\ Usable(o[j])
  BY <1>0, MultiplierFalls, SMTT(30)
<1>3. PICK k \in K : /\ Trust(c, U) = c * Multiplier(in[k])
                     /\ \A j \in K : Multiplier(in[k]) <= Multiplier(in[j])
  BY <1>1, LeastMultiplier, ZenonT(60)
<1>4. PICK l \in K : /\ Trust(c, V) = c * Multiplier(o[l])
                     /\ \A j \in K : Multiplier(o[l]) <= Multiplier(o[j])
  BY <1>1, LeastMultiplier
<1>5. Trust(c, U) = c * Multiplier(in[k]) /\ Trust(c, V) = c * Multiplier(o[l])
  BY <1>3, <1>4
<1>6. PICK m \in Nat \ {0} : m = Multiplier(in[k])
  BY <1>1
<1>7. PICK n \in Nat \ {0} : n = Multiplier(o[l])
  BY <1>1
<1>8. n <= m
  <2>1. n <= Multiplier(o[k]) /\ Multiplier(o[k]) <= m /\ Multiplier(o[k]) \in Nat
    BY <1>1, <1>4, <1>6, <1>7
  <2> QED
    BY <2>1
<1>9. Trust(c, V) <= Trust(c, U)
  <2>1. c * n <= c * m
    BY <1>8, Z3
  <2> QED
    BY <1>5, <1>6, <1>7, <2>1
<1>10. ASSUME \A ch \in V : Freshness(ch) # "stale" PROVE \A ch \in U : Freshness(ch) # "stale"
  <2>1. ASSUME NEW j \in K PROVE Freshness(in[j]) # "stale"
    <3>1. Freshness(o[j]) = "fresh"
      BY <1>1, <1>10 DEF Usable
    <3> QED
      BY <1>1, <3>1
  <2> QED
    BY <2>1
<1>11. StatusOf(c, V) = "VALID" => StatusOf(c, U) = "VALID"
  <2> HIDE DEF U, V
  <2> QED
    BY <1>10 DEF StatusOf
<1>12. Oldest(V) >= Oldest(U)
  <2>1. ASSUME NEW p, \A j \in K : p[j].age \in Nat
        PROVE  \E j \in K : /\ Oldest({p[i] : i \in K}) = p[j].age
                            /\ \A i \in K : p[i].age <= p[j].age
    <3> DEFINE S == {p[i] : i \in K}
               a == [i \in K |-> p[i].age]
    <3>1. \A i \in K : a[i] \in Int
      BY <2>1
    <3>2. PICK j \in K : \A i \in K : a[i] <= a[j]
      <4> HIDE DEF a
      <4> QED
        BY <3>1, GreatestPlace
    <3>3. \A i \in K : p[i].age <= p[j].age
      BY <3>2
    <3>4. \A ch \in S : p[j].age >= ch.age
      BY <2>1, <3>3
    <3>5. Oldest(S) \in {ch.age : ch \in S} /\ \A ch \in S : Oldest(S) >= ch.age
      BY <3>4 DEF Oldest
    <3>6. PICK i \in K : Oldest(S) = p[i].age
      BY <3>5
    <3>7. Oldest(S) >= p[j].age /\ p[i].age <= p[j].age
      BY <3>3, <3>5
    <3>8. Oldest(S) = p[j].age
      <4>1. p[i].age \in Nat /\ p[j].age \in Nat
        BY <2>1
      <4> HIDE DEF S
      <4> QED
        BY <3>6, <3>7, <4>1
    <3> QED
      BY <3>3, <3>8
  <2>2. PICK i \in K : Oldest(U) = in[i].age
    BY <1>0, <2>1
  <2>3. PICK j \in K : Oldest(V) = o[j].age /\ \A h \in K : o[h].age <= o[j].age
    BY <1>0, <2>1
  <2>4. /\ in[i].age <= o[i].age /\ o[i].age <= o[j].age
        /\ in[i].age \in Nat /\ o[i].age \in Nat /\ o[j].age \in Nat
    BY <1>0, <2>3
  <2> QED
    BY <2>2, <2>3, <2>4
<1>13. ASSUME \A j \in K : Freshness(in[j]) = "fresh", NEW h \in K, o[h].age > FreshAge, Trust(c, U) > 0
       PROVE  Trust(c, V) < Trust(c, U)
  <2>1. m = 100 * Span /\ Span \in Nat \ {0}
    BY <1>1, <1>6, <1>13, CalculatorsAssumption DEF Span
  <2>2. n < m
    <3>1. n <= Multiplier(o[h]) /\ Multiplier(o[h]) < 100 * Span /\ Multiplier(o[h]) \in Nat
      BY <1>1, <1>4, <1>7, <1>13
    <3> QED
      BY <2>1, <3>1
  <2>3. c > 0
    <3>1. c * m > 0
      BY <1>5, <1>6, <1>13
    <3>2. c = 0 => c * m = 0
      OBVIOUS
    <3> QED
      BY <3>1, <3>2
  <2>4. c * n < c * m
    BY <2>2, <2>3, Z3
  <2> QED
    BY <1>5, <1>6, <1>7, <2>4
<1> DEFINE report == Report(v, c, U)
           older == Report(w, c, V)
<1>14. /\ report.status = StatusOf(c, U) /\ older.status = StatusOf(c, V)
       /\ report.reliability = Trust(c, U) /\ older.reliability = Trust(c, V)
       /\ report.age = Oldest(U) /\ older.age = Oldest(V)
  <2> HIDE DEF U, V
  <2> QED
    BY DEF Report
<1>15. (\A j \in K : Freshness(in[j]) = "fresh") /\ (\E j \in K : o[j].age > FreshAge)
         => Costs(report, older)
  <2> HIDE DEF report, older, U, V
  <2> QED
    BY <1>13, <1>14 DEF Costs
<1>16. NoBetter(report, older) /\ older.age >= report.age
  <2> HIDE DEF report, older, U, V
  <2> QED
    BY <1>9, <1>11, <1>12, <1>14 DEF NoBetter
<1> HIDE DEF report, older
<1>17. AgesWell(in, o, K, report, older)
  BY <1>15, <1>16 DEF AgesWell
<1> QED
  BY <1>17 DEF report, older

\* Either way unavailable, or a report on the same channels.
SameReport(in, o, i, report, older) ==
    \/ report = Unavailable /\ older = Unavailable
    \/ \E K \in SUBSET DOMAIN in : \E c \in Nat : \E v, w :
         /\ K # {} /\ (Speaks(in[i]) => i \in K) /\ \A j \in K : Usable(in[j])
         /\ report = Report(v, c, {in[j] : j \in K})
         /\ older = Report(w, c, {o[j] : j \in K})

\* What AgeingNeverHelps asks of a factor, when channel i is as old as x.
NeverHelps(f, in, i, x) ==
    LET report == Calculate(f, in)
        older == Calculate(f, Delayed(in, i, x))
    IN /\ NoBetter(report, older)
       /\ x > HardAge \/ older.age >= report.age
       /\ /\ Speaks(in[i]) /\ x > FreshAge
          /\ \A j \in DOMAIN in : Usable(in[j]) => Freshness(in[j]) = "fresh"
          => Costs(report, older)

LEMMA UnavailableAges ==
    NoBetter(Unavailable, Unavailable) /\ Costs(Unavailable, Unavailable) /\ Unavailable.age >= Unavailable.age
  BY DEF NoBetter, Costs, Unavailable

LEMMA SameNeverHelps ==
    ASSUME NEW f, NEW in, Offered(f, in), IsFiniteSet(DOMAIN in), NEW i \in DOMAIN in, NEW x \in Nat,
           Usable(in[i]), in[i].age < x, x <= HardAge,
           SameReport(in, Delayed(in, i, x), i, Calculate(f, in), Calculate(f, Delayed(in, i, x)))
    PROVE  NeverHelps(f, in, i, x)
<1> DEFINE o == Delayed(in, i, x)
           r == Calculate(f, in)
           s == Calculate(f, o)
<1>1. CASE r = Unavailable /\ s = Unavailable
  <2> HIDE DEF r, s
  <2>1. NoBetter(r, s) /\ Costs(r, s) /\ s.age >= r.age
    BY <1>1, UnavailableAges
  <2> QED
    BY <2>1 DEF NeverHelps, r, s, o
<1>2. ASSUME NEW K \in SUBSET DOMAIN in, NEW c \in Nat, NEW v, NEW w,
             K # {}, Speaks(in[i]) => i \in K, \A j \in K : Usable(in[j]),
             r = Report(v, c, {in[j] : j \in K}), s = Report(w, c, {o[j] : j \in K})
      PROVE  NeverHelps(f, in, i, x)
  <2>1. NoYounger(in, o, K)
    BY <1>2, OlderOffers DEF NoYounger
  <2>2. o[i].age = x
    BY OlderChannels
  <2>3. IsFiniteSet(K)
    BY FS_Subset
  <2> HIDE DEF o
  <2>4. AgesWell(in, o, K, Report(v, c, {in[j] : j \in K}), Report(w, c, {o[j] : j \in K}))
    BY <1>2, <2>1, <2>3, ReportAges
  <2> HIDE DEF r, s
  <2>6. AgesWell(in, o, K, r, s)
    BY <1>2, <2>4
  <2>5. ASSUME Speaks(in[i]), x > FreshAge, \A j \in DOMAIN in : Usable(in[j]) => Freshness(in[j]) = "fresh"
        PROVE  Costs(r, s)
    <3>1. (\A j \in K : Freshness(in[j]) = "fresh") /\ (\E j \in K : o[j].age > FreshAge)
      BY <1>2, <2>2, <2>5
    <3> QED
      BY <2>6, <3>1 DEF AgesWell
  <2> QED
    BY <2>6, <2>5 DEF NeverHelps, AgesWell, o, r, s
<1> QED
  BY <1>1, <1>2 DEF SameReport

-----------------------------------------------------------------------------
(* The calculators, asked again with older channels.                         *)

\* The channels of o score as those of in do.
ScoresAlike(in, o) ==
    /\ DOMAIN o = DOMAIN in
    /\ \A j \in DOMAIN in : Scored(o[j]) = Scored(in[j]) /\ (Usable(o[j]) <=> Usable(in[j]))

(* A channel speaks where it has a mean of what it is asked for.              *)
LEMMA AskedMean ==
    ASSUME NEW f, NEW in, Offered(f, in), NEW i \in DOMAIN in, NEW weight,
           DOMAIN weight = AskedOf[f][i], IsFiniteSet(DOMAIN weight),
           \A g \in DOMAIN weight : weight[g] \in Nat \ {0}
    PROVE  /\ Speaks(in[i]) <=> Mean(Scored(in[i]), weight) # NoScore
           /\ Speaks(in[i]) => Usable(in[i])
<1>1. Offers(in[i], DOMAIN weight)
  BY DEF Offered
<1>2. Speaks(in[i]) <=> Mean(Scored(in[i]), weight) # NoScore
  BY <1>1, ChannelMean
<1> QED
  BY <1>2 DEF Speaks

LEMMA FundingAges ==
    ASSUME NEW in, Offered("funding_liquidity", in), NEW o, ScoresAlike(in, o), NEW i \in DOMAIN in
    PROVE  SameReport(in, o, i, FundingLiquidity(in), FundingLiquidity(o))
<1> DEFINE K == {"CN_DR007"}
           scores == Scored(in.CN_DR007)
           c == MapThenSumSet(LAMBDA g : FundingWeights[g], DOMAIN scores)
           v == -Mean(scores, FundingWeights)
<1>1. DOMAIN in = K /\ Offers(in.CN_DR007, {"level_robust", "change_5", "change_20"})
  BY DEF Offered, AskedOf
<1>2. Scored(o.CN_DR007) = scores
  BY <1>1 DEF ScoresAlike
<1>3. /\ FundingLiquidity(in) = IF DOMAIN scores = {} THEN Unavailable ELSE Report(v, c, {in.CN_DR007})
      /\ FundingLiquidity(o) = IF DOMAIN scores = {} THEN Unavailable ELSE Report(v, c, {o.CN_DR007})
  BY <1>2 DEF FundingLiquidity
<1>4. CASE DOMAIN scores # {}
  <2>1. Usable(in.CN_DR007) /\ DOMAIN scores \subseteq DOMAIN FundingWeights
    BY <1>1, <1>4 DEF Scored, Offers, FundingWeights
  <2>2. c \in Nat
    <3>1. c = TotalOf(FundingWeights, DOMAIN scores)
      BY DEF TotalOf
    <3>2. /\ DOMAIN FundingWeights = {"level_robust", "change_5"} \cup {"change_20"}
          /\ \A g \in DOMAIN FundingWeights : FundingWeights[g] \in Nat
      BY DEF FundingWeights
    <3>3. IsFiniteSet(DOMAIN FundingWeights)
      <4>1. IsFiniteSet({"level_robust", "change_5"})
        BY PairFinite
      <4> QED
        BY <3>2, <4>1, FS_AddElement
    <3>4. TotalOf(FundingWeights, DOMAIN scores) \in Nat
      BY <2>1, <3>2, <3>3, TotalType
    <3> QED
      BY <3>1, <3>4
  <2>3. {in.CN_DR007} = {in[j] : j \in K} /\ {o.CN_DR007} = {o[j] : j \in K}
    OBVIOUS
  <2>4. K \in SUBSET DOMAIN in /\ K # {} /\ i \in K /\ \A j \in K : Usable(in[j])
    BY <1>1, <2>1
  <2> HIDE DEF c, v, K, scores
  <2> QED
    BY <1>3, <1>4, <2>2, <2>3, <2>4 DEF SameReport
<1> QED
  BY <1>3, <1>4 DEF SameReport

LEMMA CftcAges ==
    ASSUME NEW in, Offered("cftc_positioning", in), NEW o, ScoresAlike(in, o), NEW i \in DOMAIN in
    PROVE  SameReport(in, o, i, CftcPositioning(in), CftcPositioning(o))
<1> DEFINE K == {"CFTC_GOLD_NET_LONG"}
           scores == Scored(in.CFTC_GOLD_NET_LONG)
           c == MapThenSumSet(LAMBDA g : CftcWeights[g], DOMAIN scores)
           sum == Mean(scores, CftcWeights)
           level == IF "level_robust" \in DOMAIN scores THEN scores.level_robust ELSE 0
           change == IF "change_4" \in DOMAIN scores THEN scores.change_4 ELSE 0
           crowd == Least(100, (100 * (level - 65)) \div 35)
           kept == IF 100 - (75 * crowd) \div 100 < 25 THEN 25 ELSE 100 - (75 * crowd) \div 100
           damped == (IF sum > 0 THEN (sum * kept) \div 100 ELSE sum) - 15 * crowd
           v == Clamp(IF level >= 65 THEN damped
                      ELSE IF level <= -75 /\ change > 20 THEN sum + Least(1200, 15 * change) ELSE sum,
                      8500)
<1>1. DOMAIN in = K /\ Offers(in.CFTC_GOLD_NET_LONG, {"change_4", "level_robust"})
  BY DEF Offered, AskedOf
<1>2. Scored(o.CFTC_GOLD_NET_LONG) = scores
  BY <1>1 DEF ScoresAlike
<1>3. /\ CftcPositioning(in) = IF DOMAIN scores = {} THEN Unavailable ELSE Report(v, c, {in.CFTC_GOLD_NET_LONG})
      /\ CftcPositioning(o) = IF DOMAIN scores = {} THEN Unavailable ELSE Report(v, c, {o.CFTC_GOLD_NET_LONG})
  BY <1>2 DEF CftcPositioning
<1>4. CASE DOMAIN scores # {}
  <2>1. Usable(in.CFTC_GOLD_NET_LONG) /\ DOMAIN scores \subseteq DOMAIN CftcWeights
    BY <1>1, <1>4 DEF Scored, Offers, CftcWeights
  <2>2. c \in Nat
    <3>1. c = TotalOf(CftcWeights, DOMAIN scores)
      BY DEF TotalOf
    <3>2. /\ DOMAIN CftcWeights = {"change_4", "level_robust"}
          /\ \A g \in DOMAIN CftcWeights : CftcWeights[g] \in Nat
      BY DEF CftcWeights
    <3>3. IsFiniteSet(DOMAIN CftcWeights)
      BY <3>2, PairFinite
    <3>4. TotalOf(CftcWeights, DOMAIN scores) \in Nat
      BY <2>1, <3>2, <3>3, TotalType
    <3> QED
      BY <3>1, <3>4
  <2>3. {in.CFTC_GOLD_NET_LONG} = {in[j] : j \in K} /\ {o.CFTC_GOLD_NET_LONG} = {o[j] : j \in K}
    OBVIOUS
  <2>4. K \in SUBSET DOMAIN in /\ K # {} /\ i \in K /\ \A j \in K : Usable(in[j])
    BY <1>1, <2>1
  <2> HIDE DEF c, v, K, scores
  <2> QED
    BY <1>3, <1>4, <2>2, <2>3, <2>4 DEF SameReport
<1> HIDE DEF c, v, K, scores
<1> QED
  BY <1>3, <1>4 DEF SameReport

LEMMA CreditMoneyAges ==
    ASSUME NEW in, Offered("credit_money", in), NEW o, ScoresAlike(in, o), NEW i \in DOMAIN in
    PROVE  SameReport(in, o, i, CreditMoney(in), CreditMoney(o))
<1> DEFINE a == "CN_M1_YOY"
           b == "CN_TSFIN_GROWTH"
           wa == [level_robust |-> 60, change_3 |-> 40]
           wb == [yoy_pct_12 |-> 100]
           m1 == Mean(Scored(in[a]), wa)
           tsf == Mean(Scored(in[b]), wb)
           c == (IF m1 # NoScore THEN 45 ELSE 0) + (IF tsf # NoScore THEN 55 ELSE 0)
           K == {j \in {a} : m1 # NoScore} \cup {j \in {b} : tsf # NoScore}
           used(p) == {ch \in {p[a]} : m1 # NoScore} \cup {ch \in {p[b]} : tsf # NoScore}
<1> HIDE DEF NoScore
<1>1. DOMAIN in = {a, b}
  BY DEF Offered, AskedOf
<1>2. Scored(o[a]) = Scored(in[a]) /\ Scored(o[b]) = Scored(in[b])
  BY <1>1 DEF ScoresAlike
<1>3. \E v :
        /\ CreditMoney(in) = IF c = 0 THEN Unavailable ELSE Report(v, c, used(in))
        /\ CreditMoney(o) = IF c = 0 THEN Unavailable ELSE Report(v, c, used(o))
  BY <1>2 DEF CreditMoney
<1>4. (Speaks(in[a]) <=> m1 # NoScore) /\ (Speaks(in[a]) => Usable(in[a]))
  <2>1. DOMAIN wa = {"level_robust", "change_3"} /\ \A x \in DOMAIN wa : wa[x] \in Nat \ {0}
    OBVIOUS
  <2>2. DOMAIN wa = AskedOf["credit_money"][a]
    BY <2>1 DEF AskedOf
  <2>3. IsFiniteSet(DOMAIN wa)
    BY <2>1, PairFinite
  <2> HIDE DEF wa
  <2> QED
    BY <1>1, <2>1, <2>2, <2>3, AskedMean
<1>5. (Speaks(in[b]) <=> tsf # NoScore) /\ (Speaks(in[b]) => Usable(in[b]))
  <2>1. DOMAIN wb = {"yoy_pct_12"} /\ \A x \in DOMAIN wb : wb[x] \in Nat \ {0}
    OBVIOUS
  <2>2. DOMAIN wb = AskedOf["credit_money"][b]
    BY <2>1 DEF AskedOf
  <2>3. IsFiniteSet(DOMAIN wb)
    BY <2>1, PairFinite
  <2> HIDE DEF wb
  <2> QED
    BY <1>1, <2>1, <2>2, <2>3, AskedMean
<1> HIDE DEF m1, tsf
<1>6. c \in Nat /\ (c # 0 => K # {})
  OBVIOUS
<1>7. used(in) = {in[j] : j \in K} /\ used(o) = {o[j] : j \in K}
  OBVIOUS
<1>8. K \in SUBSET DOMAIN in /\ (Speaks(in[i]) => i \in K) /\ \A j \in K : Usable(in[j])
  BY <1>1, <1>4, <1>5
<1> HIDE DEF K, c, used
<1> QED
  BY <1>3, <1>6, <1>7, <1>8 DEF SameReport

LEMMA CentralBankAges ==
    ASSUME NEW in, Offered("central_bank_gold_demand", in), NEW o, ScoresAlike(in, o), NEW i \in DOMAIN in
    PROVE  SameReport(in, o, i, CentralBankGoldDemand(in), CentralBankGoldDemand(o))
<1> DEFINE a == "GLOBAL_CENTRAL_BANK_GOLD"
           b == "CN_OFFICIAL_GOLD_RESERVE"
           wa == [level_robust |-> 100]
           wb == [change_3 |-> 100]
           global == Mean(Scored(in[a]), wa)
           china == Mean(Scored(in[b]), wb)
           c == IF global = NoScore THEN 15 ELSE IF china # NoScore THEN 100 ELSE 85
           v == IF global = NoScore THEN Muted((15 * china) \div 100, 25)
                ELSE (85 * global + 15 * OrZero(china)) \div 100
           K == {j \in {a} : global # NoScore} \cup {j \in {b} : china # NoScore}
           used(p) == {ch \in {p[a]} : global # NoScore} \cup {ch \in {p[b]} : china # NoScore}
           silent == global = NoScore /\ china = NoScore
<1> HIDE DEF NoScore
<1>1. DOMAIN in = {a, b}
  BY DEF Offered, AskedOf
<1>2. Scored(o[a]) = Scored(in[a]) /\ Scored(o[b]) = Scored(in[b])
  BY <1>1 DEF ScoresAlike
<1>3. ASSUME NEW p, Scored(p[a]) = Scored(in[a]), Scored(p[b]) = Scored(in[b])
      PROVE  CentralBankGoldDemand(p) = IF silent THEN Unavailable ELSE Report(v, c, used(p))
  <2>1. CASE silent
    BY <1>3, <2>1 DEF CentralBankGoldDemand
  <2>2. CASE global = NoScore /\ ~silent
    BY <1>3, <2>2 DEF CentralBankGoldDemand
  <2>3. CASE global # NoScore
    BY <1>3, <2>3, ZenonT(60) DEF CentralBankGoldDemand
  <2> QED
    BY <2>1, <2>2, <2>3
<1>4. (Speaks(in[a]) <=> global # NoScore) /\ (Speaks(in[a]) => Usable(in[a]))
  <2>1. DOMAIN wa = {"level_robust"} /\ \A x \in DOMAIN wa : wa[x] \in Nat \ {0}
    OBVIOUS
  <2>2. DOMAIN wa = AskedOf["central_bank_gold_demand"][a]
    BY <2>1 DEF AskedOf
  <2>3. IsFiniteSet(DOMAIN wa)
    BY <2>1, PairFinite
  <2> HIDE DEF wa
  <2> QED
    BY <1>1, <2>1, <2>2, <2>3, AskedMean
<1>5. (Speaks(in[b]) <=> china # NoScore) /\ (Speaks(in[b]) => Usable(in[b]))
  <2>1. DOMAIN wb = {"change_3"} /\ \A x \in DOMAIN wb : wb[x] \in Nat \ {0}
    OBVIOUS
  <2>2. DOMAIN wb = AskedOf["central_bank_gold_demand"][b]
    BY <2>1 DEF AskedOf
  <2>3. IsFiniteSet(DOMAIN wb)
    BY <2>1, PairFinite
  <2> HIDE DEF wb
  <2> QED
    BY <1>1, <2>1, <2>2, <2>3, AskedMean
<1> HIDE DEF global, china
<1>6. c \in Nat /\ (~silent => K # {})
  OBVIOUS
<1>7. used(in) = {in[j] : j \in K} /\ used(o) = {o[j] : j \in K}
  OBVIOUS
<1>8. K \in SUBSET DOMAIN in /\ (Speaks(in[i]) => i \in K) /\ \A j \in K : Usable(in[j])
  BY <1>1, <1>4, <1>5
<1> HIDE DEF K, c, v, used, silent
<1> QED
  BY <1>2, <1>3, <1>6, <1>7, <1>8 DEF SameReport

LEMMA PriceProfitAges ==
    ASSUME NEW in, Offered("price_profit_cycle", in), NEW o, ScoresAlike(in, o), NEW i \in DOMAIN in
    PROVE  SameReport(in, o, i, PriceProfitCycle(in), PriceProfitCycle(o))
<1> DEFINE a == "CN_PPI_YOY"
           b == "CN_INDUSTRIAL_PROFIT_YOY"
           wa == [level_robust |-> 40, change_3 |-> 60]
           wb == [level_robust |-> 65, change_3 |-> 35]
           ppi == Mean(Scored(in[a]), wa)
           profit == Mean(Scored(in[b]), wb)
           sum == (72 * profit + 28 * OrZero(ppi)) \div 100
           c == IF profit = NoScore THEN 28 ELSE IF ppi = NoScore THEN 72 ELSE 100
           v == IF profit = NoScore THEN Muted(ppi, 35)
                ELSE IF ppi = NoScore THEN sum
                ELSE IF ppi > 3500 /\ profit < -2000 THEN Least(sum, 1000)
                ELSE IF ppi < -3500 /\ profit > 2500 /\ sum < -1000 THEN -1000 ELSE sum
           K == {j \in {a} : ppi # NoScore} \cup {j \in {b} : profit # NoScore}
           used(p) == {ch \in {p[a]} : ppi # NoScore} \cup {ch \in {p[b]} : profit # NoScore}
           silent == ppi = NoScore /\ profit = NoScore
<1> HIDE DEF NoScore
<1>1. DOMAIN in = {a, b}
  BY DEF Offered, AskedOf
<1>2. Scored(o[a]) = Scored(in[a]) /\ Scored(o[b]) = Scored(in[b])
  BY <1>1 DEF ScoresAlike
<1>3. ASSUME NEW p, Scored(p[a]) = Scored(in[a]), Scored(p[b]) = Scored(in[b])
      PROVE  PriceProfitCycle(p) = IF silent THEN Unavailable ELSE Report(v, c, used(p))
  <2>1. CASE silent
    BY <1>3, <2>1 DEF PriceProfitCycle
  <2>2. CASE profit = NoScore /\ ~silent
    BY <1>3, <2>2 DEF PriceProfitCycle
  <2>3. CASE profit # NoScore /\ ppi = NoScore
    BY <1>3, <2>3 DEF PriceProfitCycle
  <2>4. CASE profit # NoScore /\ ppi # NoScore
    BY <1>3, <2>4, SMTT(30) DEF PriceProfitCycle
  <2> QED
    BY <2>1, <2>2, <2>3, <2>4
<1>4. (Speaks(in[a]) <=> ppi # NoScore) /\ (Speaks(in[a]) => Usable(in[a]))
  <2>1. DOMAIN wa = {"level_robust", "change_3"} /\ \A x \in DOMAIN wa : wa[x] \in Nat \ {0}
    OBVIOUS
  <2>2. DOMAIN wa = AskedOf["price_profit_cycle"][a]
    BY <2>1 DEF AskedOf
  <2>3. IsFiniteSet(DOMAIN wa)
    BY <2>1, PairFinite
  <2> HIDE DEF wa
  <2> QED
    BY <1>1, <2>1, <2>2, <2>3, AskedMean
<1>5. (Speaks(in[b]) <=> profit # NoScore) /\ (Speaks(in[b]) => Usable(in[b]))
  <2>1. DOMAIN wb = {"level_robust", "change_3"} /\ \A x \in DOMAIN wb : wb[x] \in Nat \ {0}
    OBVIOUS
  <2>2. DOMAIN wb = AskedOf["price_profit_cycle"][b]
    BY <2>1 DEF AskedOf
  <2>3. IsFiniteSet(DOMAIN wb)
    BY <2>1, PairFinite
  <2> HIDE DEF wb
  <2> QED
    BY <1>1, <2>1, <2>2, <2>3, AskedMean
<1> HIDE DEF ppi, profit
<1>6. c \in Nat /\ (~silent => K # {})
  OBVIOUS
<1>7. used(in) = {in[j] : j \in K} /\ used(o) = {o[j] : j \in K}
  OBVIOUS
<1>8. K \in SUBSET DOMAIN in /\ (Speaks(in[i]) => i \in K) /\ \A j \in K : Usable(in[j])
  BY <1>1, <1>4, <1>5
<1> HIDE DEF K, c, v, used, silent
<1> QED
  BY <1>2, <1>3, <1>6, <1>7, <1>8 DEF SameReport

(* The dollar alone says nothing of the RMB.                                  *)
LEMMA RmbAges ==
    ASSUME NEW in, Offered("rmb_external_balance", in), NEW o, ScoresAlike(in, o), NEW i \in DOMAIN in
    PROVE  SameReport(in, o, i, RmbExternalBalance(in), RmbExternalBalance(o))
<1> DEFINE a == "USDCNY"
           b == "US_BROAD_DOLLAR"
           wt == [change_20 |-> 100]
           rmb == Mean(Scored(in[a]), wt)
           usd == Mean(Scored(in[b]), wt)
           c == IF usd = NoScore THEN 55 ELSE 100
           K == {a} \cup {j \in {b} : usd # NoScore}
           used(p) == IF usd = NoScore THEN {p[a]} ELSE {p[a], p[b]}
<1> HIDE DEF NoScore
<1>1. DOMAIN in = {a, b}
  BY DEF Offered, AskedOf
<1>2. Scored(o[a]) = Scored(in[a]) /\ Scored(o[b]) = Scored(in[b])
  BY <1>1 DEF ScoresAlike
<1>3. \E v :
        /\ RmbExternalBalance(in) = IF rmb = NoScore THEN Unavailable ELSE Report(v, c, used(in))
        /\ RmbExternalBalance(o) = IF rmb = NoScore THEN Unavailable ELSE Report(v, c, used(o))
  BY <1>2 DEF RmbExternalBalance
<1>4. /\ (Speaks(in[a]) <=> rmb # NoScore) /\ (Speaks(in[a]) => Usable(in[a]))
      /\ (Speaks(in[b]) <=> usd # NoScore) /\ (Speaks(in[b]) => Usable(in[b]))
  <2>1. DOMAIN wt = {"change_20"} /\ \A x \in DOMAIN wt : wt[x] \in Nat \ {0}
    OBVIOUS
  <2>2. DOMAIN wt = AskedOf["rmb_external_balance"][a] /\ DOMAIN wt = AskedOf["rmb_external_balance"][b]
    BY <2>1 DEF AskedOf
  <2>3. IsFiniteSet(DOMAIN wt)
    BY <2>1, PairFinite
  <2> HIDE DEF wt
  <2> QED
    BY <1>1, <2>1, <2>2, <2>3, AskedMean
<1> HIDE DEF rmb, usd
<1>5. c \in Nat /\ K # {}
  OBVIOUS
<1>6. used(in) = {in[j] : j \in K} /\ used(o) = {o[j] : j \in K}
  OBVIOUS
<1>7. rmb # NoScore =>
        K \in SUBSET DOMAIN in /\ (Speaks(in[i]) => i \in K) /\ \A j \in K : Usable(in[j])
  BY <1>1, <1>4
<1> HIDE DEF K, c, used
<1> QED
  BY <1>3, <1>5, <1>6, <1>7 DEF SameReport

LEMMA GrowthAges ==
    ASSUME NEW in, Offered("growth_momentum", in), NEW o, ScoresAlike(in, o), NEW i \in DOMAIN in
    PROVE  SameReport(in, o, i, GrowthMomentum(in), GrowthMomentum(o))
<1> DEFINE K(p) == {j \in DOMAIN GrowthWeights : GrowthComponent(p, j) # NoScore}
           c(p) == TotalOf(GrowthWeights, K(p))
<1> HIDE DEF NoScore
<1>1. DOMAIN in = DOMAIN GrowthWeights
  BY DEF Offered, AskedOf, GrowthWeights
<1>2. ASSUME NEW p
      PROVE  \E v : GrowthMomentum(p) = IF K(p) = {} THEN Unavailable
                                       ELSE Report(v, c(p), {p[j] : j \in K(p)})
  <2> DEFINE have == K(p)
             part(j) == GrowthWeights[j] * GrowthComponent(p, j)
             fits(h) == h = [s \in SUBSET have |->
                                IF s = {} THEN 0 ELSE part(Picked(s)) + h[s \ {Picked(s)}]]
             iter == CHOOSE h : fits(h)
             sum == iter[have] \div 100
             muted == IF c(p) < 80 THEN Muted(sum, 45) ELSE sum
             diverging == /\ \E j \in have : GrowthComponent(p, j) > 2500
                          /\ \E j \in have : GrowthComponent(p, j) < -2500
             v == IF diverging THEN Muted(muted, 35) ELSE muted
  <2>1. GrowthMomentum(p) = IF have = {} THEN Unavailable ELSE Report(v, c(p), {p[j] : j \in have})
    BY Zenon DEF GrowthMomentum, TotalOf, MapThenSumSet, MapThenFoldSet, Picked
  <2> HIDE DEF v
  <2> QED
    BY <2>1
<1>3. \A j \in DOMAIN in : GrowthComponent(o, j) = GrowthComponent(in, j)
  BY DEF ScoresAlike, GrowthComponent
<1>4. K(o) = K(in)
  BY <1>1, <1>3
<1>5. ASSUME NEW j \in DOMAIN in
      PROVE  (Speaks(in[j]) <=> GrowthComponent(in, j) # NoScore) /\ (Speaks(in[j]) => Usable(in[j]))
  <2>1. CASE j = "CN_PMI_MANUFACTURING"
    <3> DEFINE w == [pmi_state |-> 100]
    <3>1. DOMAIN w = {"pmi_state"} /\ \A x \in DOMAIN w : w[x] \in Nat \ {0}
      OBVIOUS
    <3>2. DOMAIN w = AskedOf["growth_momentum"][j] /\ IsFiniteSet(DOMAIN w)
      BY <2>1, <3>1, PairFinite DEF AskedOf
    <3>3. GrowthComponent(in, j) = Mean(Scored(in[j]), w)
      BY <2>1 DEF GrowthComponent
    <3> HIDE DEF w
    <3> QED
      BY <3>1, <3>2, <3>3, AskedMean
  <2>2. CASE j \in {"CN_INDUSTRIAL_PRODUCTION_YOY", "CN_EXPORTS_YOY"}
    <3> DEFINE w == [level_robust |-> 55, change_3 |-> 45]
    <3>1. DOMAIN w = {"level_robust", "change_3"} /\ \A x \in DOMAIN w : w[x] \in Nat \ {0}
      OBVIOUS
    <3>2. DOMAIN w = AskedOf["growth_momentum"][j] /\ IsFiniteSet(DOMAIN w)
      <4>1. IsFiniteSet(DOMAIN w)
        BY <3>1, PairFinite
      <4> QED
        BY <2>2, <3>1, <4>1 DEF AskedOf
    <3>3. GrowthComponent(in, j) = Mean(Scored(in[j]), w)
      BY <2>2 DEF GrowthComponent
    <3> HIDE DEF w
    <3> QED
      BY <3>1, <3>2, <3>3, AskedMean
  <2> QED
    BY <1>1, <2>1, <2>2 DEF GrowthWeights
<1>6. c(in) \in Nat
  <2>1. DOMAIN GrowthWeights =
           {"CN_PMI_MANUFACTURING", "CN_INDUSTRIAL_PRODUCTION_YOY"} \cup {"CN_EXPORTS_YOY"}
    BY DEF GrowthWeights
  <2>2. IsFiniteSet({"CN_PMI_MANUFACTURING", "CN_INDUSTRIAL_PRODUCTION_YOY"})
    BY PairFinite
  <2>3. IsFiniteSet(DOMAIN GrowthWeights)
    BY <2>1, <2>2, FS_AddElement
  <2>4. \A j \in DOMAIN GrowthWeights : GrowthWeights[j] \in Nat
    BY DEF GrowthWeights
  <2>5. K(in) \in SUBSET DOMAIN GrowthWeights
    OBVIOUS
  <2> HIDE DEF K
  <2> QED
    BY <2>3, <2>4, <2>5, TotalType
<1>7. c(o) = c(in)
  BY <1>4
<1>8. K(in) \in SUBSET DOMAIN in /\ (Speaks(in[i]) => i \in K(in)) /\ \A j \in K(in) : Usable(in[j])
  BY <1>1, <1>5
<1> HIDE DEF K, c
<1>9. CASE K(in) = {}
  BY <1>2, <1>4, <1>9 DEF SameReport
<1>10. CASE K(in) # {}
  <2>1. PICK v : GrowthMomentum(in) = Report(v, c(in), {in[j] : j \in K(in)})
    BY <1>2, <1>10
  <2>2. PICK w : GrowthMomentum(o) = Report(w, c(in), {o[j] : j \in K(in)})
    BY <1>2, <1>4, <1>7, <1>10
  <2> QED
    BY <1>6, <1>8, <1>10, <2>1, <2>2 DEF SameReport
<1> QED
  BY <1>9, <1>10

(* The premium of equities looks at the dates, not at the scores of a channel. *)
LEMMA EquityAges ==
    ASSUME NEW in, Offered("equity_erp", in), NEW o, ScoresAlike(in, o), NEW i \in DOMAIN in,
           \A j \in DOMAIN in : o[j].dates = in[j].dates
    PROVE  SameReport(in, o, i, EquityErp(in), EquityErp(o))
<1> DEFINE a == "CN_INDEX_PE"
           b == "CN_CGB_10Y"
           K == {a, b}
           few == Cardinality(ErpPairs(in[a].dates, in[b].dates)) < 3
           v(p) == 100 * p[a].scores.erp
<1>1. DOMAIN in = K
  BY DEF Offered, AskedOf
<1>2. /\ o[a].dates = in[a].dates /\ o[b].dates = in[b].dates
      /\ Usable(o[a]) <=> Usable(in[a])
      /\ Usable(o[b]) <=> Usable(in[b])
  BY <1>1 DEF ScoresAlike
<1>3. ASSUME NEW p, p[a].dates = in[a].dates, p[b].dates = in[b].dates,
             Usable(p[a]) <=> Usable(in[a]), Usable(p[b]) <=> Usable(in[b])
      PROVE  EquityErp(p) = IF ~Usable(in[a]) \/ ~Usable(in[b]) \/ few THEN Unavailable
                            ELSE Report(v(p), 100, {p[a], p[b]})
  BY <1>3 DEF EquityErp
<1>4. {in[a], in[b]} = {in[j] : j \in K} /\ {o[a], o[b]} = {o[j] : j \in K}
  OBVIOUS
<1>5. /\ EquityErp(in) = IF ~Usable(in[a]) \/ ~Usable(in[b]) \/ few THEN Unavailable
                         ELSE Report(v(in), 100, {in[j] : j \in K})
      /\ EquityErp(o) = IF ~Usable(in[a]) \/ ~Usable(in[b]) \/ few THEN Unavailable
                        ELSE Report(v(o), 100, {o[j] : j \in K})
  <2> HIDE DEF few, v, K
  <2> QED
    BY <1>2, <1>3, <1>4
<1>6. K # {} /\ K \in SUBSET DOMAIN in /\ i \in K /\ 100 \in Nat
  BY <1>1
<1>7. Usable(in[a]) /\ Usable(in[b]) => \A j \in K : Usable(in[j])
  OBVIOUS
<1> HIDE DEF few, v, K
<1> QED
  BY <1>5, <1>6, <1>7, ZenonT(60) DEF SameReport

LEMMA PremiumAges ==
    ASSUME NEW in, Offered("gold_china_premium", in), NEW o, ScoresAlike(in, o), NEW i \in DOMAIN in
    PROVE  SameReport(in, o, i, GoldChinaPremium(in), GoldChinaPremium(o))
<1> DEFINE a == "SGE_AU9999"
           K == {a, "GOLD_USD", "USDCNY"}
           whole == "return_20" \in DOMAIN Scored(in[a])
           c == IF whole THEN 100 ELSE 75
           v(p) == IF whole THEN 75 * p[a].premium + 25 * Scored(p[a]).return_20 ELSE 100 * p[a].premium
<1>1. DOMAIN in = K
  BY DEF Offered, AskedOf
<1>2. Scored(o[a]) = Scored(in[a]) /\ \A j \in K : Usable(o[j]) <=> Usable(in[j])
  BY <1>1 DEF ScoresAlike
<1>3. ASSUME NEW p, Scored(p[a]) = Scored(in[a]), \A j \in K : Usable(p[j]) <=> Usable(in[j])
      PROVE  GoldChinaPremium(p) = IF \E j \in K : ~Usable(in[j]) THEN Unavailable
                                   ELSE Report(v(p), c, {p[j] : j \in K})
  <2>1. {p.SGE_AU9999, p.GOLD_USD, p.USDCNY} = {p[j] : j \in K}
    OBVIOUS
  <2>2. (\E ch \in {p[j] : j \in K} : ~Usable(ch)) <=> \E j \in K : ~Usable(in[j])
    BY <1>3
  <2>3. CASE \E j \in K : ~Usable(in[j])
    BY <2>1, <2>2, <2>3 DEF GoldChinaPremium
  <2>4. CASE ~(\E j \in K : ~Usable(in[j])) /\ whole
    BY <1>3, <2>1, <2>2, <2>4 DEF GoldChinaPremium
  <2>5. CASE ~(\E j \in K : ~Usable(in[j])) /\ ~whole
    BY <1>3, <2>1, <2>2, <2>5 DEF GoldChinaPremium
  <2> QED
    BY <2>3, <2>4, <2>5
<1>4. /\ GoldChinaPremium(in) = IF \E j \in K : ~Usable(in[j]) THEN Unavailable
                                ELSE Report(v(in), c, {in[j] : j \in K})
      /\ GoldChinaPremium(o) = IF \E j \in K : ~Usable(in[j]) THEN Unavailable
                               ELSE Report(v(o), c, {o[j] : j \in K})
  <2> HIDE DEF c, v, K
  <2> QED
    BY <1>2, <1>3
<1>5. K # {} /\ K \in SUBSET DOMAIN in /\ i \in K /\ c \in Nat
  BY <1>1
<1> HIDE DEF c, v, K
<1> QED
  BY <1>4, <1>5 DEF SameReport

-----------------------------------------------------------------------------
(* The calculators whose coverage counts freshness.                          *)

\* No input of a specification weighs so little that the others make it whole.
Configured(spec, in) ==
    /\ IsFiniteSet(DOMAIN spec) /\ DOMAIN in = DOMAIN spec
    /\ TotalOf([j \in DOMAIN spec |-> spec[j].weight], DOMAIN spec) = 100
    /\ \A j \in DOMAIN spec : spec[j].weight \in 21 .. 100 /\ Offers(in[j], {spec[j].feature})

\* The channels o are those of in, with channel i as old as x.
DelayedTo(in, o, i, x) ==
    /\ DOMAIN o = DOMAIN in /\ i \in DOMAIN in /\ \A j \in DOMAIN in : j # i => o[j] = in[j]
    /\ {"age", "scores"} \subseteq DOMAIN o[i] /\ o[i].age = x /\ o[i].scores = in[i].scores
    /\ Usable(in[i]) /\ x \in Nat /\ in[i].age < x

LEMMA SpeaksAge ==
    ASSUME NEW ch, NEW F, Offers(ch, F)
    PROVE  /\ Usable(ch) => ch.age \in Nat /\ ch.age <= HardAge
           /\ ch.age > HardAge => ~Usable(ch) /\ ~Speaks(ch)
<1>1. /\ ch.age \in Nat \cup {NoHistory} /\ HardAge \in Nat /\ FreshAge \in Nat
      /\ FreshAge < HardAge /\ ~(NoHistory > HardAge)
  BY CalculatorsAssumption DEF Offers, NoHistory
<1>2. ASSUME ch.age > HardAge PROVE Freshness(ch) = "hard_expired"
  <2>1. ch.age # NoHistory
    BY <1>1, <1>2
  <2>2. ~(ch.age <= FreshAge)
    BY <1>1, <1>2, <2>1
  <2> QED
    BY <1>2, <2>1, <2>2 DEF Freshness
<1>3. Usable(ch) => ch.age # NoHistory
  BY DEF Usable, Freshness
<1>4. Usable(ch) => ~(ch.age > HardAge)
  BY <1>2 DEF Usable
<1>5. Usable(ch) => ch.age \in Nat /\ ch.age <= HardAge
  BY <1>1, <1>3, <1>4
<1> QED
  BY <1>4, <1>5 DEF Speaks

LEMMA ContributingSpeaks ==
    ASSUME NEW spec, NEW in, Configured(spec, in)
    PROVE  Contributing(in, spec) = {j \in DOMAIN in : Speaks(in[j])}
<1>1. ASSUME NEW j \in DOMAIN spec PROVE spec[j].feature \in DOMAIN Scored(in[j]) <=> Speaks(in[j])
  BY DEF Configured, Offers, Scored, Speaks
<1> QED
  BY <1>1 DEF Contributing, Configured

LEMMA AgedConfigured ==
    ASSUME NEW spec, NEW in, Configured(spec, in), NEW o, NEW i, NEW x, DelayedTo(in, o, i, x)
    PROVE  Configured(spec, o)
<1>1. ASSUME NEW k \in DOMAIN spec PROVE Offers(o[k], {spec[k].feature})
  <2>1. CASE k # i
    BY <2>1 DEF DelayedTo, Configured
  <2>2. CASE k = i
    BY <2>2 DEF DelayedTo, Configured, Offers
  <2> QED
    BY <2>1, <2>2
<1> QED
  BY <1>1 DEF Configured, DelayedTo

LEMMA EffectiveType ==
    ASSUME NEW spec, NEW in, Configured(spec, in), NEW j \in DOMAIN in
    PROVE  /\ Effective(in, spec, j) \in Nat /\ Effective(in, spec, j) <= (100 * Span) * spec[j].weight
           /\ Effective(in, spec, j) = IF Speaks(in[j]) THEN spec[j].weight * Multiplier(in[j]) ELSE 0
           /\ Speaks(in[j]) => /\ Multiplier(in[j]) \in Nat \ {0} /\ Multiplier(in[j]) <= 100 * Span
                               /\ Effective(in, spec, j) > 0
<1>0. Span \in Nat \ {0} /\ HardAge \in Nat
  BY CalculatorsAssumption DEF Span
<1>1. Effective(in, spec, j) = IF Speaks(in[j]) THEN spec[j].weight * Multiplier(in[j]) ELSE 0
  BY ContributingSpeaks DEF Effective
<1>2. PICK w \in 21 .. 100 : w = spec[j].weight
  <2>1. spec[j].weight \in 21 .. 100
    BY ZenonT(60) DEF Configured
  <2> QED
    BY <2>1
<1>3. PICK k \in Nat : k = 100 * Span
  BY <1>0
<1>4. CASE Speaks(in[j])
  <2>1. in[j].age \in Nat /\ in[j].age <= HardAge
    BY <1>4, SpeaksAge, ZenonT(60) DEF Configured, Speaks
  <2>2. PICK m \in Nat \ {0} : m = Multiplier(in[j])
    BY <2>1, MultiplierFalls
  <2>3. m <= k
    BY <1>3, <2>1, <2>2, MultiplierFalls
  <2>4. w * m \in Nat /\ w * m > 0 /\ w * m <= k * w
    BY <2>3, Z3
  <2> QED
    BY <1>1, <1>2, <1>3, <1>4, <2>2, <2>3, <2>4
<1>5. CASE ~Speaks(in[j])
  <2>1. k * w \in Nat
    BY Z3
  <2> QED
    BY <1>1, <1>2, <1>3, <1>5, <2>1
<1> QED
  BY <1>4, <1>5

(* What each input counts with is less the older it is, and nothing once it   *)
(* has expired.                                                               *)
LEMMA EffectiveAges ==
    ASSUME NEW spec, NEW in, Configured(spec, in), NEW o, NEW i, NEW x, DelayedTo(in, o, i, x),
           NEW j \in DOMAIN in
    PROVE  /\ Effective(o, spec, j) <= Effective(in, spec, j)
           /\ Speaks(o[j]) <=> Speaks(in[j]) /\ (j = i => x <= HardAge)
           /\ Speaks(o[j]) => /\ in[j].age \in Nat /\ o[j].age \in Nat /\ in[j].age <= o[j].age
                              /\ o[j].age <= HardAge
           /\ j = i /\ Speaks(in[j]) /\ Freshness(in[j]) = "fresh" /\ x > FreshAge
                => Effective(o, spec, j) < Effective(in, spec, j)
<1>0. HardAge \in Nat /\ FreshAge \in Nat /\ Span \in Nat \ {0} /\ FreshAge < HardAge
  BY CalculatorsAssumption DEF Span
<1>1. Configured(spec, o) /\ DOMAIN o = DOMAIN in
  BY AgedConfigured DEF DelayedTo
<1>2. /\ Offers(in[j], {spec[j].feature}) /\ Offers(o[j], {spec[j].feature})
      /\ spec[j].weight \in 21 .. 100
  BY <1>1 DEF Configured
<1>3. /\ Effective(in, spec, j) \in Nat /\ Effective(o, spec, j) \in Nat
      /\ Effective(in, spec, j) = IF Speaks(in[j]) THEN spec[j].weight * Multiplier(in[j]) ELSE 0
      /\ Effective(o, spec, j) = IF Speaks(o[j]) THEN spec[j].weight * Multiplier(o[j]) ELSE 0
      /\ Speaks(in[j]) => Effective(in, spec, j) > 0
  BY <1>1, EffectiveType
<1>4. CASE j # i
  <2>1. o[j] = in[j]
    BY <1>4 DEF DelayedTo
  <2>2. Speaks(in[j]) => in[j].age \in Nat /\ in[j].age <= HardAge
    BY <1>2, SpeaksAge DEF Speaks
  <2> QED
    BY <1>3, <1>4, <2>1, <2>2
<1>5. CASE j = i /\ x > HardAge
  <2>1. ~Speaks(o[j])
    BY <1>2, <1>5, SpeaksAge DEF DelayedTo
  <2>2. ~(x <= HardAge)
    BY <1>0, <1>5 DEF DelayedTo
  <2> QED
    BY <1>3, <1>5, <2>1, <2>2
<1>6. CASE j = i /\ x <= HardAge
  <2>1. in[j].age \in Nat /\ o[j].age = x /\ x \in Nat /\ in[j].age < x /\ o[j].scores = in[j].scores
    BY <1>2, <1>6, SpeaksAge DEF DelayedTo
  <2>2. in[j].age <= o[j].age /\ o[j].age <= HardAge /\ o[j].age \in Nat
    BY <1>6, <2>1
  <2>3. /\ Usable(in[j]) /\ Usable(o[j])
        /\ Multiplier(in[j]) \in Nat \ {0} /\ Multiplier(o[j]) \in Nat \ {0}
        /\ Multiplier(o[j]) <= Multiplier(in[j])
        /\ Freshness(in[j]) = "fresh" => Multiplier(in[j]) = 100 * Span
        /\ o[j].age > FreshAge => Multiplier(o[j]) < 100 * Span
    BY <2>1, <2>2, MultiplierFalls
  <2>4. Speaks(o[j]) <=> Speaks(in[j])
    BY <2>1, <2>3 DEF Speaks
  <2>5. PICK w \in 21 .. 100 : w = spec[j].weight
    BY <1>2
  <2>6. PICK m \in Nat : m = Multiplier(in[j])
    BY <2>3
  <2>7. PICK n \in Nat : n = Multiplier(o[j])
    BY <2>3
  <2>8. w * n <= w * m /\ (n < m => w * n < w * m)
    BY <2>3, <2>6, <2>7, Z3
  <2>9. Effective(o, spec, j) <= Effective(in, spec, j)
    <3>1. CASE Speaks(in[j])
      BY <1>3, <2>4, <2>5, <2>6, <2>7, <2>8, <3>1
    <3>2. CASE ~Speaks(in[j])
      BY <1>3, <2>4, <3>2
    <3> QED
      BY <3>1, <3>2
  <2>10. ASSUME Speaks(in[j]), Freshness(in[j]) = "fresh", x > FreshAge
         PROVE  Effective(o, spec, j) < Effective(in, spec, j)
    <3>1. n < m
      BY <2>1, <2>3, <2>6, <2>7, <2>10
    <3> QED
      BY <1>3, <2>4, <2>5, <2>6, <2>7, <2>8, <2>10, <3>1
  <2> QED
    BY <1>6, <2>1, <2>2, <2>4, <2>9, <2>10
<1> QED
  <2>1. x <= HardAge \/ x > HardAge
    BY <1>0 DEF DelayedTo
  <2> QED
    BY <1>4, <1>5, <1>6, <2>1

(* So is the coverage, and it keeps less than four fifths of the weight when  *)
(* an input that spoke has expired.                                           *)
LEMMA CoverageAges ==
    ASSUME NEW spec, NEW in, Configured(spec, in), NEW o, NEW i, NEW x, DelayedTo(in, o, i, x)
    PROVE  /\ Coverage(in, spec) \in Nat /\ Coverage(o, spec) \in Nat
           /\ Coverage(o, spec) <= Coverage(in, spec)
           /\ Speaks(in[i]) /\ Freshness(in[i]) = "fresh" /\ x > FreshAge
                => Coverage(o, spec) < Coverage(in, spec)
           /\ Speaks(in[i]) /\ ~Speaks(o[i]) => Coverage(o, spec) \div (100 * Span) < 80
<1> DEFINE D == DOMAIN spec
           e == [j \in D |-> Effective(in, spec, j)]
           d == [j \in D |-> Effective(o, spec, j)]
           w == [j \in D |-> spec[j].weight]
           k == 100 * Span
<1>1. Coverage(in, spec) = TotalOf(e, D) /\ Coverage(o, spec) = TotalOf(d, D)
  <2>1. DOMAIN e = D /\ DOMAIN d = D
    OBVIOUS
  <2>2. Coverage(in, spec) = SumFunction(e) /\ Coverage(o, spec) = SumFunction(d)
    BY DEF Coverage
  <2> HIDE DEF e, d, D
  <2> QED
    BY <2>1, <2>2, SumIsTotal
<1>2. IsFiniteSet(D) /\ DOMAIN in = D /\ DOMAIN o = D /\ i \in D /\ Configured(spec, o)
  BY AgedConfigured, ZenonT(60) DEF Configured, DelayedTo
<1>3. ASSUME NEW j \in D
      PROVE  /\ e[j] \in Nat /\ d[j] \in Nat /\ w[j] \in Nat
             /\ d[j] <= e[j] /\ d[j] <= k * w[j]
  <2>1. w[j] \in 21 .. 100 /\ w[j] = spec[j].weight
    BY ZenonT(60) DEF Configured
  <2>2. e[j] = Effective(in, spec, j) /\ d[j] = Effective(o, spec, j)
    OBVIOUS
  <2>3. /\ Effective(in, spec, j) \in Nat /\ Effective(o, spec, j) \in Nat
        /\ Effective(o, spec, j) <= k * spec[j].weight
    BY <1>2, EffectiveType
  <2>4. Effective(o, spec, j) <= Effective(in, spec, j)
    BY <1>2, EffectiveAges
  <2> HIDE DEF e, d, w, k
  <2> QED
    BY <2>1, <2>2, <2>3, <2>4
<1>4. k \in Nat \ {0}
  BY CalculatorsAssumption DEF Span
<1>5. Speaks(in[i]) /\ Freshness(in[i]) = "fresh" /\ x > FreshAge => d[i] < e[i]
  BY <1>2, EffectiveAges
<1>6. Speaks(in[i]) /\ ~Speaks(o[i]) => d[i] = 0
  BY <1>2, EffectiveType
<1>7. TotalOf(w, D) = 100 /\ w[i] \in 21 .. 100
  BY <1>2 DEF Configured
<1> HIDE DEF e, d, w, D, k
<1>8. \A T \in SUBSET D : TotalOf(e, T) \in Nat /\ TotalOf(d, T) \in Nat /\ TotalOf(w, T) \in Nat
  <2>1. \A T \in SUBSET D : TotalOf(e, T) \in Nat
    BY <1>2, <1>3, TotalType
  <2>2. \A T \in SUBSET D : TotalOf(d, T) \in Nat
    BY <1>2, <1>3, TotalType
  <2>3. \A T \in SUBSET D : TotalOf(w, T) \in Nat
    BY <1>2, <1>3, TotalType
  <2> QED
    BY <2>1, <2>2, <2>3
<1>9. TotalOf(d, D) <= TotalOf(e, D)
  BY <1>2, <1>3, TotalOrder
<1>10. /\ TotalOf(e, D) = e[i] + TotalOf(e, D \ {i})
       /\ TotalOf(d, D) = d[i] + TotalOf(d, D \ {i})
       /\ TotalOf(w, D) = w[i] + TotalOf(w, D \ {i})
  BY <1>2, <1>3, TotalRemove
<1>11. TotalOf(d, D \ {i}) <= TotalOf(e, D \ {i})
  <2>1. IsFiniteSet(D \ {i}) /\ \A j \in D \ {i} : d[j] \in Int /\ e[j] \in Int /\ d[j] <= e[j]
    BY <1>2, <1>3, FS_Subset
  <2> QED
    BY <2>1, TotalOrder
<1>12. ASSUME d[i] < e[i] PROVE TotalOf(d, D) < TotalOf(e, D)
  <2>1. TotalOf(d, D \ {i}) \in Nat /\ TotalOf(e, D \ {i}) \in Nat /\ d[i] \in Nat /\ e[i] \in Nat
    BY <1>2, <1>3, <1>8
  <2> QED
    BY <1>10, <1>11, <1>12, <2>1
<1>13. ASSUME d[i] = 0 PROVE TotalOf(d, D) \div k < 80
  <2> DEFINE R == D \ {i}
  <2>1. TotalOf(d, D) <= k * TotalOf(w, D \cap R)
    <3>1. \A j \in D : IF j \in R THEN d[j] <= k * w[j] ELSE d[j] = 0
      BY <1>3, <1>13
    <3>2. R \in SUBSET D /\ k \in Nat /\ D \in SUBSET D
      BY <1>4
    <3>3. \A j \in D : w[j] \in Nat /\ d[j] \in Nat
      BY <1>3
    <3> HIDE DEF R
    <3> QED
      BY <1>2, <3>1, <3>2, <3>3, TotalWithin
  <2>2. D \cap R = D \ {i}
    OBVIOUS
  <2>3. PICK t \in 0 .. 79 : t = TotalOf(w, D \ {i})
    <3>1. TotalOf(w, D \ {i}) \in Nat /\ 100 = w[i] + TotalOf(w, D \ {i})
      BY <1>7, <1>8, <1>10
    <3> QED
      BY <1>7, <3>1
  <2>4. PICK c \in Nat : c = TotalOf(d, D)
    BY <1>8
  <2>5. c <= k * t
    BY <2>1, <2>2, <2>3, <2>4
  <2>6. -(t * k) <= c /\ c <= t * k
    <3>1. t * k \in Nat /\ t * k = k * t
      BY <1>4
    <3> QED
      BY <2>5, <3>1
  <2>7. c \div k <= t
    BY <1>4, <2>6, QuotientBetween
  <2>8. c \div k \in Int
    BY <1>4
  <2> QED
    BY <2>4, <2>7, <2>8
<1> QED
  BY <1>1, <1>5, <1>6, <1>8, <1>9, <1>12, <1>13 DEF k

\* A factor that is unavailable, or reports on the inputs that speak.
ReportsOn(in, spec, report) ==
    \/ report = Unavailable
    \/ \E v : report = ReportCoverage(in, spec, v) /\ Contributing(in, spec) # {}

LEMMA ReportCoverageAges ==
    ASSUME NEW spec, NEW in, Configured(spec, in), NEW o, NEW i, NEW x, DelayedTo(in, o, i, x),
           NEW v, NEW w, Contributing(in, spec) # {}, Contributing(o, spec) # {}
    PROVE  LET report == ReportCoverage(in, spec, v)
               older == ReportCoverage(o, spec, w)
           IN /\ NoBetter(report, older)
              /\ x <= HardAge => older.age >= report.age
<1> DEFINE report == ReportCoverage(in, spec, v)
           older == ReportCoverage(o, spec, w)
           K == Contributing(in, spec)
           L == Contributing(o, spec)
           k == 100 * Span
           p == Coverage(in, spec) \div k
           q == Coverage(o, spec) \div k
           U == {in[j] : j \in K}
           V == {o[j] : j \in L}
<1>1. Configured(spec, o) /\ DOMAIN o = DOMAIN in /\ i \in DOMAIN in
  BY AgedConfigured DEF DelayedTo
<1>2. K = {j \in DOMAIN in : Speaks(in[j])} /\ L = {j \in DOMAIN in : Speaks(o[j])}
  BY <1>1, ContributingSpeaks
<1>3. /\ report.status = StatusOf(p, U) /\ older.status = StatusOf(q, V)
      /\ report.reliability = Coverage(in, spec) /\ older.reliability = Coverage(o, spec)
      /\ report.age = Oldest(U) /\ older.age = Oldest(V)
  BY DEF ReportCoverage
<1>4. /\ Coverage(in, spec) \in Nat /\ Coverage(o, spec) \in Nat
      /\ Coverage(o, spec) <= Coverage(in, spec)
  BY CoverageAges
<1>5. p \in Int /\ q \in Int /\ q <= p
  <2>1. k \in Nat \ {0}
    BY CalculatorsAssumption DEF Span
  <2> HIDE DEF k
  <2> QED
    BY <1>4, <2>1, DivisionMonotone
<1>6. CASE Speaks(in[i]) /\ ~Speaks(o[i])
  <2>1. q < 80
    BY <1>6, CoverageAges
  <2>2. older.status # "VALID"
    <3> HIDE DEF q, V, older
    <3> QED
      BY <1>3, <2>1 DEF StatusOf
  <2>3. ~(x <= HardAge)
    BY <1>1, <1>6, EffectiveAges
  <2> HIDE DEF report, older
  <2> QED
    BY <1>3, <1>4, <2>2, <2>3 DEF NoBetter, report, older
<1>7. CASE ~(Speaks(in[i]) /\ ~Speaks(o[i]))
  <2>1. ASSUME NEW j \in DOMAIN in PROVE Speaks(o[j]) <=> Speaks(in[j])
    BY <1>7, EffectiveAges
  <2>2. L = K
    BY <1>2, <2>1
  <2>3. NoYounger(in, o, K)
    <3>1. ASSUME NEW j \in DOMAIN in, Speaks(o[j])
          PROVE  in[j].age \in Nat /\ o[j].age \in Nat /\ in[j].age <= o[j].age /\ o[j].age <= HardAge
      BY <3>1, EffectiveAges
    <3> QED
      BY <1>2, <2>2, <3>1 DEF NoYounger
  <2>4. IsFiniteSet(K) /\ K # {} /\ 100 \in Nat
    BY <1>1, <1>2, FS_Subset DEF Configured
  <2>5. AgesWell(in, o, K, Report(v, 100, {in[j] : j \in K}), Report(w, 100, {o[j] : j \in K}))
    <3> HIDE DEF K
    <3> QED
      BY <2>3, <2>4, ReportAges
  <2>6. V = {o[j] : j \in K}
    BY <2>2
  <2>7. Oldest(V) >= Oldest(U) /\ (StatusOf(100, V) = "VALID" => StatusOf(100, U) = "VALID")
    <3> HIDE DEF U, V
    <3>1. AgesWell(in, o, K, Report(v, 100, U), Report(w, 100, V))
      BY <2>5, <2>6 DEF U
    <3> QED
      BY <3>1 DEF AgesWell, NoBetter, Report
  <2>8. older.status = "VALID" => report.status = "VALID"
    <3> HIDE DEF U, V, p, q, report, older
    <3> QED
      BY <1>3, <1>5, <2>7 DEF StatusOf
  <2> HIDE DEF report, older, U, V
  <2> QED
    BY <1>3, <1>4, <2>7, <2>8 DEF NoBetter, report, older
<1> QED
  BY <1>6, <1>7

LEMMA ConfiguredAges ==
    ASSUME NEW spec, NEW in, Configured(spec, in), NEW o, NEW i, NEW x, DelayedTo(in, o, i, x),
           NEW report, ReportsOn(in, spec, report), NEW older, ReportsOn(o, spec, older),
           report = Unavailable => older = Unavailable,
           x <= HardAge /\ older = Unavailable => report = Unavailable
    PROVE  /\ NoBetter(report, older)
           /\ x <= HardAge => older.age >= report.age
           /\ Speaks(in[i]) /\ Freshness(in[i]) = "fresh" /\ x > FreshAge => Costs(report, older)
<1>1. CASE report = Unavailable
  BY <1>1, UnavailableAges
<1>2. CASE report # Unavailable /\ older = Unavailable
  <2>1. report.reliability \in Nat
    <3>1. Coverage(in, spec) \in Nat
      BY CoverageAges
    <3>2. PICK v : report = ReportCoverage(in, spec, v)
      BY <1>2 DEF ReportsOn
    <3>3. report.reliability = Coverage(in, spec)
      BY <3>2 DEF ReportCoverage
    <3> QED
      BY <3>1, <3>3
  <2>2. older.reliability = 0 /\ older.status # "VALID"
    BY <1>2 DEF Unavailable
  <2> QED
    BY <1>2, <2>1, <2>2 DEF NoBetter, Costs
<1>3. CASE report # Unavailable /\ older # Unavailable
  <2>1. PICK v : report = ReportCoverage(in, spec, v) /\ Contributing(in, spec) # {}
    BY <1>3 DEF ReportsOn
  <2>2. PICK w : older = ReportCoverage(o, spec, w) /\ Contributing(o, spec) # {}
    BY <1>3 DEF ReportsOn
  <2>3. /\ NoBetter(report, older)
        /\ x <= HardAge => older.age >= report.age
    BY <2>1, <2>2, ReportCoverageAges
  <2>4. report.reliability = Coverage(in, spec) /\ older.reliability = Coverage(o, spec)
    BY <2>1, <2>2 DEF ReportCoverage
  <2>5. Speaks(in[i]) /\ Freshness(in[i]) = "fresh" /\ x > FreshAge
          => Coverage(o, spec) < Coverage(in, spec)
    BY CoverageAges
  <2> QED
    BY <2>3, <2>4, <2>5 DEF Costs
<1> QED
  BY <1>1, <1>2, <1>3

(* The weighted mean is unavailable where no input speaks.                    *)
LEMMA MeanReports ==
    ASSUME NEW spec, NEW in, Configured(spec, in), NEW b
    PROVE  LET report == WeightedMean(in, spec, b)
           IN /\ ReportsOn(in, spec, report)
              /\ report = Unavailable <=> \A j \in DOMAIN in : ~Speaks(in[j])
<1> DEFINE have == Contributing(in, spec)
           total == MapThenSumSet(LAMBDA i : Effective(in, spec, i), have)
           sum == MapThenSumSet(LAMBDA i : Effective(in, spec, i) * Oriented(in, spec, i), have)
           v == Clamp((100 * sum) \div total, 100 * b)
           e == [j \in DOMAIN spec |-> Effective(in, spec, j)]
           D == DOMAIN spec
<1>1. WeightedMean(in, spec, b) = IF Coverage(in, spec) = 0 THEN Unavailable ELSE ReportCoverage(in, spec, v)
  BY DEF WeightedMean
<1> HIDE DEF v
<1>2. Coverage(in, spec) = TotalOf(e, D)
  <2>1. DOMAIN e = D /\ Coverage(in, spec) = SumFunction(e)
    BY DEF Coverage
  <2> HIDE DEF e, D
  <2> QED
    BY <2>1, SumIsTotal
<1>3. have = {j \in DOMAIN in : Speaks(in[j])} /\ DOMAIN in = D /\ IsFiniteSet(D)
  BY ContributingSpeaks DEF Configured
<1>4. ASSUME NEW j \in D PROVE e[j] \in Nat /\ (Speaks(in[j]) <=> e[j] > 0)
  <2>1. /\ Effective(in, spec, j) \in Nat
        /\ Speaks(in[j]) => Effective(in, spec, j) > 0
        /\ ~Speaks(in[j]) => Effective(in, spec, j) = 0
    BY <1>3, EffectiveType
  <2> QED
    BY <2>1
<1> HIDE DEF e, D
<1>5. Coverage(in, spec) \in Nat
  BY <1>2, <1>3, <1>4, TotalType
<1>6. ASSUME NEW j \in D, Speaks(in[j]) PROVE Coverage(in, spec) # 0
  <2>1. TotalOf(e, D) = e[j] + TotalOf(e, D \ {j})
    BY <1>3, <1>4, TotalRemove
  <2>2. TotalOf(e, D \ {j}) \in Nat
    BY <1>3, <1>4, TotalType
  <2> QED
    BY <1>2, <1>4, <1>6, <2>1, <2>2
<1>7. ASSUME \A j \in D : ~Speaks(in[j]) PROVE Coverage(in, spec) = 0
  <2> DEFINE z == [j \in D |-> 0]
  <2>1. \A j \in D : e[j] \in Nat /\ z[j] \in Nat /\ e[j] = z[j]
    BY <1>4, <1>7
  <2>2. \A j \in D : IF j \in {} THEN e[j] <= 1 * z[j] ELSE e[j] = 0
    BY <2>1
  <2>3. TotalOf(e, D) <= 1 * TotalOf(z, D \cap {})
    <3> HIDE DEF z
    <3>1. {} \in SUBSET D /\ D \in SUBSET D /\ 1 \in Nat
      OBVIOUS
    <3> QED
      BY <1>3, <2>1, <2>2, <3>1, TotalWithin
  <2>4. TotalOf(z, D \cap {}) = 0
    <3>1. D \cap {} = {}
      OBVIOUS
    <3> QED
      BY <3>1, TotalEmpty
  <2> QED
    BY <1>2, <1>5, <2>3, <2>4
<1>8. \A c : ReportCoverage(in, spec, c) # Unavailable
  BY DEF ReportCoverage, StatusOf, Unavailable
<1> QED
  <2>1. CASE \A j \in D : ~Speaks(in[j])
    BY <1>1, <1>3, <1>7, <2>1 DEF ReportsOn
  <2>2. CASE ~ \A j \in D : ~Speaks(in[j])
    <3>1. Coverage(in, spec) # 0 /\ have # {}
      BY <1>3, <1>6, <2>2
    <3>2. WeightedMean(in, spec, b) = ReportCoverage(in, spec, v)
      BY <1>1, <3>1
    <3> QED
      BY <1>3, <1>8, <2>2, <3>1, <3>2 DEF ReportsOn
  <2> QED
    BY <2>1, <2>2

(* Inflation is silent without the consumer prices.                           *)
LEMMA InflationReports ==
    ASSUME NEW spec, NEW in, Configured(spec, in), "US_CPI_YOY" \in DOMAIN in
    PROVE  LET report == GoldInflation(in, spec)
           IN /\ ReportsOn(in, spec, report)
              /\ report = Unavailable <=> ~Speaks(in["US_CPI_YOY"])
<1> DEFINE of(i) == IF i \in Contributing(in, spec) THEN Oriented(in, spec, i) ELSE 0
           inflation == of("US_CPI_YOY")
           yields == of("US_REAL_YIELD_10Y")
           usd == of("US_BROAD_DOLLAR")
           v == IF inflation <= 15 THEN 0
                ELSE IF yields > 10 /\ usd > 5 THEN 45 * inflation + 35 * yields + 20 * usd
                ELSE IF yields < -10 /\ usd < -5 THEN 10 * inflation + 55 * yields + 35 * usd
                ELSE Muted(10 * inflation + 20 * yields + 15 * usd, 35)
<1>1. GoldInflation(in, spec) = IF "US_CPI_YOY" \notin Contributing(in, spec) THEN Unavailable
                                ELSE ReportCoverage(in, spec, v)
  BY DEF GoldInflation
<1> HIDE DEF v
<1>2. "US_CPI_YOY" \in Contributing(in, spec) <=> Speaks(in["US_CPI_YOY"])
  BY ContributingSpeaks
<1>3. \A c : ReportCoverage(in, spec, c) # Unavailable
  BY DEF ReportCoverage, StatusOf, Unavailable
<1>4. CASE Speaks(in["US_CPI_YOY"])
  <2>1. GoldInflation(in, spec) = ReportCoverage(in, spec, v) /\ Contributing(in, spec) # {}
    BY <1>1, <1>2, <1>4
  <2> QED
    BY <1>3, <1>4, <2>1 DEF ReportsOn
<1>5. CASE ~Speaks(in["US_CPI_YOY"])
  <2>1. GoldInflation(in, spec) = Unavailable
    BY <1>1, <1>2, <1>5
  <2> QED
    BY <1>5, <2>1 DEF ReportsOn
<1> QED
  BY <1>4, <1>5

LEMMA GlobalConfigured ==
    ASSUME NEW in, Offered("global_conditions", in)
    PROVE  Configured(GlobalConditionsSpec, in)
<1> DEFINE spec == GlobalConditionsSpec
           a == "US_REAL_YIELD_10Y"
           b == "US_BROAD_DOLLAR"
           c == "US_VIX"
           w == [j \in DOMAIN spec |-> spec[j].weight]
<1>1. DOMAIN spec = {a, b, c} /\ DOMAIN in = {a, b, c}
  BY DEF Offered, AskedOf, GlobalConditionsSpec
<1>2. /\ spec[a].weight = 40 /\ spec[b].weight = 35 /\ spec[c].weight = 25
      /\ spec[a].feature = "change_20" /\ spec[b].feature = "change_20" /\ spec[c].feature = "change_20"
  BY DEF GlobalConditionsSpec, Input
<1>3. \A j \in {a, b, c} : Offers(in[j], {"change_20"})
  <2>1. \A j \in {a, b, c} : AskedOf["global_conditions"][j] = {"change_20"}
    BY DEF AskedOf
  <2> QED
    BY <1>1, <2>1 DEF Offered
<1> HIDE DEF spec
<1>4. \A j \in DOMAIN spec : spec[j].weight \in 21 .. 100 /\ Offers(in[j], {spec[j].feature})
  BY <1>1, <1>2, <1>3
<1>5. w[a] = 40 /\ w[b] = 35 /\ w[c] = 25
  BY <1>1, <1>2
<1>6. a # b /\ a # c /\ b # c
  OBVIOUS
<1>7. IsFiniteSet({a, b, c})
  <2>1. {a, b, c} = {a, b} \cup {c} /\ IsFiniteSet({a, b})
    BY PairFinite
  <2>2. IsFiniteSet({a, b} \cup {c})
    BY <2>1, FS_AddElement
  <2> QED
    BY <2>1, <2>2
<1>8. TotalOf(w, {a, b, c}) = 100
  <2>1. w[a] \in Nat /\ w[b] \in Nat /\ w[c] \in Nat /\ {a, b, c} \ {a} = {b, c}
    BY <1>5, <1>6
  <2> HIDE DEF w
  <2>2. TotalOf(w, {b, c}) = w[b] + w[c]
    BY <1>6, <2>1, TotalTwo
  <2>3. TotalOf(w, {a, b, c}) = w[a] + TotalOf(w, {a, b, c} \ {a})
    <3> HIDE DEF a, b, c
    <3>1. \A j \in {a, b, c} : w[j] \in Int
      BY <2>1
    <3>2. PICK S : S = {a, b, c}
      OBVIOUS
    <3>3. IsFiniteSet(S) /\ S \in SUBSET S /\ a \in S /\ \A j \in S : w[j] \in Int
      BY <1>7, <3>1, <3>2
    <3>4. TotalOf(w, S) = w[a] + TotalOf(w, S \ {a})
      BY <3>3, TotalRemove
    <3> QED
      BY <3>2, <3>4
  <2> QED
    BY <1>5, <2>1, <2>2, <2>3
<1>9. TotalOf(w, DOMAIN spec) = 100
  BY <1>1, <1>8
<1> HIDE DEF a, b, c
<1>10. Configured(spec, in)
  BY <1>1, <1>4, <1>7, <1>9 DEF Configured
<1> QED
  BY <1>10 DEF spec

LEMMA InflationConfigured ==
    ASSUME NEW in, Offered("gold_inflation", in)
    PROVE  Configured(InflationSpec, in) /\ "US_CPI_YOY" \in DOMAIN in
<1> DEFINE spec == InflationSpec
           a == "US_CPI_YOY"
           b == "US_REAL_YIELD_10Y"
           c == "US_BROAD_DOLLAR"
           w == [j \in DOMAIN spec |-> spec[j].weight]
<1>1. DOMAIN spec = {a, b, c} /\ DOMAIN in = {a, b, c}
  BY DEF Offered, AskedOf, InflationSpec
<1>2. /\ spec[a].weight = 30 /\ spec[b].weight = 40 /\ spec[c].weight = 30
      /\ spec[a].feature = "change_3" /\ spec[b].feature = "change_20" /\ spec[c].feature = "change_20"
  BY DEF InflationSpec, Input
<1>3. Offers(in[a], {"change_3"}) /\ Offers(in[b], {"change_20"}) /\ Offers(in[c], {"change_20"})
  BY <1>1, SMTT(30) DEF Offered, AskedOf
<1> HIDE DEF spec
<1>4. \A j \in DOMAIN spec : spec[j].weight \in 21 .. 100 /\ Offers(in[j], {spec[j].feature})
  BY <1>1, <1>2, <1>3
<1>5. w[a] = 30 /\ w[b] = 40 /\ w[c] = 30
  BY <1>1, <1>2
<1>6. a # b /\ a # c /\ b # c
  OBVIOUS
<1>7. IsFiniteSet({a, b, c})
  <2>1. {a, b, c} = {a, b} \cup {c} /\ IsFiniteSet({a, b})
    BY PairFinite
  <2>2. IsFiniteSet({a, b} \cup {c})
    BY <2>1, FS_AddElement
  <2> QED
    BY <2>1, <2>2
<1>8. TotalOf(w, {a, b, c}) = 100
  <2>1. w[a] \in Nat /\ w[b] \in Nat /\ w[c] \in Nat /\ {a, b, c} \ {a} = {b, c}
    BY <1>5, <1>6
  <2> HIDE DEF w
  <2>2. TotalOf(w, {b, c}) = w[b] + w[c]
    BY <1>6, <2>1, TotalTwo
  <2>3. TotalOf(w, {a, b, c}) = w[a] + TotalOf(w, {a, b, c} \ {a})
    <3> HIDE DEF a, b, c
    <3>1. \A j \in {a, b, c} : w[j] \in Int
      BY <2>1
    <3>2. PICK S : S = {a, b, c}
      OBVIOUS
    <3>3. IsFiniteSet(S) /\ S \in SUBSET S /\ a \in S /\ \A j \in S : w[j] \in Int
      BY <1>7, <3>1, <3>2
    <3>4. TotalOf(w, S) = w[a] + TotalOf(w, S \ {a})
      BY <3>3, TotalRemove
    <3> QED
      BY <3>2, <3>4
  <2> QED
    BY <1>5, <2>1, <2>2, <2>3
<1>9. TotalOf(w, DOMAIN spec) = 100
  BY <1>1, <1>8
<1>10. "US_CPI_YOY" \in DOMAIN in
  BY <1>1
<1> HIDE DEF a, b, c
<1>11. Configured(spec, in)
  BY <1>1, <1>4, <1>7, <1>9 DEF Configured
<1> QED
  BY <1>10, <1>11 DEF spec

-----------------------------------------------------------------------------
(* No calculator trusts older observations more.                             *)

LEMMA OlderAged ==
    ASSUME NEW f, NEW in, Offered(f, in), NEW i \in DOMAIN in, Usable(in[i]),
           NEW x \in Nat, in[i].age < x
    PROVE  DelayedTo(in, Delayed(in, i, x), i, x)
<1>1. {"age", "scores"} \subseteq DOMAIN Delayed(in, i, x)[i]
  BY DEF Offered, Offers, Delayed
<1> QED
  BY <1>1, OlderChannels DEF DelayedTo

LEMMA AskedFinite == \A f \in DOMAIN AskedOf : IsFiniteSet(DOMAIN AskedOf[f])
<1> DEFINE D(f) == DOMAIN AskedOf[f]
<1>1. ASSUME NEW S, NEW a, NEW b, S = {a, b} PROVE IsFiniteSet(S)
  BY <1>1, PairFinite
<1>2. ASSUME NEW S, NEW a, NEW b, NEW c, S = {a, b, c} PROVE IsFiniteSet(S)
  <2>1. S = {a, b} \cup {c} /\ IsFiniteSet({a, b})
    BY <1>2, PairFinite
  <2> QED
    BY <2>1, FS_AddElement
<1>3. /\ D("funding_liquidity") = {"CN_DR007", "CN_DR007"}
      /\ D("cftc_positioning") = {"CFTC_GOLD_NET_LONG", "CFTC_GOLD_NET_LONG"}
      /\ D("credit_money") = {"CN_M1_YOY", "CN_TSFIN_GROWTH"}
      /\ D("central_bank_gold_demand") = {"GLOBAL_CENTRAL_BANK_GOLD", "CN_OFFICIAL_GOLD_RESERVE"}
      /\ D("rmb_external_balance") = {"USDCNY", "US_BROAD_DOLLAR"}
      /\ D("price_profit_cycle") = {"CN_PPI_YOY", "CN_INDUSTRIAL_PROFIT_YOY"}
      /\ D("equity_erp") = {"CN_INDEX_PE", "CN_CGB_10Y"}
  BY DEF AskedOf
<1>4. /\ D("growth_momentum") = {"CN_PMI_MANUFACTURING", "CN_INDUSTRIAL_PRODUCTION_YOY", "CN_EXPORTS_YOY"}
      /\ D("gold_inflation") = {"US_CPI_YOY", "US_REAL_YIELD_10Y", "US_BROAD_DOLLAR"}
      /\ D("gold_china_premium") = {"SGE_AU9999", "GOLD_USD", "USDCNY"}
      /\ D("global_conditions") = {"US_REAL_YIELD_10Y", "US_BROAD_DOLLAR", "US_VIX"}
      /\ D("event_only") = {}
  BY DEF AskedOf
<1>5. DOMAIN AskedOf = {"funding_liquidity", "cftc_positioning", "credit_money", "central_bank_gold_demand",
                        "rmb_external_balance", "price_profit_cycle", "equity_erp", "growth_momentum",
                        "gold_inflation", "gold_china_premium", "global_conditions", "event_only"}
  BY DEF AskedOf
<1> HIDE DEF D
<1>6. IsFiniteSet(D("growth_momentum")) /\ IsFiniteSet(D("gold_inflation"))
  BY <1>2, <1>4, ZenonT(60)
<1>7. IsFiniteSet(D("gold_china_premium")) /\ IsFiniteSet(D("global_conditions"))
  BY <1>2, <1>4, ZenonT(60)
<1>8. \A f \in {"funding_liquidity", "cftc_positioning", "credit_money", "central_bank_gold_demand",
              "rmb_external_balance", "price_profit_cycle", "equity_erp"} :
        IsFiniteSet(D(f))
  <2>1. IsFiniteSet(D("funding_liquidity"))
    BY <1>1, <1>3, ZenonT(60)
  <2>2. IsFiniteSet(D("cftc_positioning"))
    BY <1>1, <1>3, ZenonT(60)
  <2>3. IsFiniteSet(D("credit_money"))
    BY <1>1, <1>3
  <2>4. IsFiniteSet(D("central_bank_gold_demand"))
    BY <1>1, <1>3
  <2>5. IsFiniteSet(D("rmb_external_balance"))
    BY <1>1, <1>3
  <2>6. IsFiniteSet(D("price_profit_cycle"))
    BY <1>1, <1>3
  <2>7. IsFiniteSet(D("equity_erp"))
    BY <1>1, <1>3
  <2> QED
    BY <2>1, <2>2, <2>3, <2>4, <2>5, <2>6, <2>7
<1>10. IsFiniteSet(D("event_only"))
  BY <1>4, FS_EmptySet
<1>9. \A f \in DOMAIN AskedOf : IsFiniteSet(D(f))
  BY <1>5, <1>6, <1>7, <1>8, <1>10
<1> QED
  BY <1>9 DEF D

\* The calculators that report on channels, whatever their age.
ByChannels == {"funding_liquidity", "credit_money", "growth_momentum", "central_bank_gold_demand",
               "rmb_external_balance", "price_profit_cycle", "cftc_positioning", "equity_erp",
               "gold_china_premium"}

LEMMA ChannelsReport ==
    ASSUME NEW f \in ByChannels, NEW in, Offered(f, in), NEW o, ScoresAlike(in, o), NEW i \in DOMAIN in,
           f = "equity_erp" => \A j \in DOMAIN in : o[j].dates = in[j].dates
    PROVE  SameReport(in, o, i, Calculate(f, in), Calculate(f, o))
<1>1. CASE f = "funding_liquidity"
  <2>1. Calculate(f, in) = FundingLiquidity(in) /\ Calculate(f, o) = FundingLiquidity(o)
    BY <1>1 DEF Calculate
  <2> QED
    BY <1>1, <2>1, FundingAges
<1>2. CASE f = "credit_money"
  <2>1. Calculate(f, in) = CreditMoney(in) /\ Calculate(f, o) = CreditMoney(o)
    BY <1>2 DEF Calculate
  <2> QED
    BY <1>2, <2>1, CreditMoneyAges
<1>3. CASE f = "growth_momentum"
  <2>1. Calculate(f, in) = GrowthMomentum(in) /\ Calculate(f, o) = GrowthMomentum(o)
    BY <1>3 DEF Calculate
  <2> QED
    BY <1>3, <2>1, GrowthAges
<1>4. CASE f = "central_bank_gold_demand"
  <2>1. Calculate(f, in) = CentralBankGoldDemand(in) /\ Calculate(f, o) = CentralBankGoldDemand(o)
    BY <1>4 DEF Calculate
  <2> QED
    BY <1>4, <2>1, CentralBankAges
<1>5. CASE f = "rmb_external_balance"
  <2>1. Calculate(f, in) = RmbExternalBalance(in) /\ Calculate(f, o) = RmbExternalBalance(o)
    BY <1>5 DEF Calculate
  <2> QED
    BY <1>5, <2>1, RmbAges
<1>6. CASE f = "price_profit_cycle"
  <2>1. Calculate(f, in) = PriceProfitCycle(in) /\ Calculate(f, o) = PriceProfitCycle(o)
    BY <1>6 DEF Calculate
  <2> QED
    BY <1>6, <2>1, PriceProfitAges
<1>7. CASE f = "cftc_positioning"
  <2>1. Calculate(f, in) = CftcPositioning(in) /\ Calculate(f, o) = CftcPositioning(o)
    BY <1>7 DEF Calculate
  <2> QED
    BY <1>7, <2>1, CftcAges
<1>8. CASE f = "equity_erp"
  <2>1. Calculate(f, in) = EquityErp(in) /\ Calculate(f, o) = EquityErp(o)
    BY <1>8 DEF Calculate
  <2> QED
    BY <1>8, <2>1, EquityAges
<1>9. CASE f = "gold_china_premium"
  <2>1. Calculate(f, in) = GoldChinaPremium(in) /\ Calculate(f, o) = GoldChinaPremium(o)
    BY <1>9 DEF Calculate
  <2> QED
    BY <1>9, <2>1, PremiumAges
<1> QED
  BY <1>1, <1>2, <1>3, <1>4, <1>5, <1>6, <1>7, <1>8, <1>9 DEF ByChannels

LEMMA ReliabilityType ==
    ASSUME NEW f \in ByChannels, NEW in, Offered(f, in), NEW i \in DOMAIN in
    PROVE  Calculate(f, in).reliability \in Nat
<1> DEFINE r == Calculate(f, in)
<1>1. SameReport(in, in, i, r, r)
  BY ChannelsReport DEF ScoresAlike
<1> HIDE DEF r
<1>2. CASE r = Unavailable
  BY <1>2 DEF Unavailable, r
<1>3. ASSUME NEW K \in SUBSET DOMAIN in, NEW c \in Nat, NEW v, K # {}, \A j \in K : Usable(in[j]),
             r = Report(v, c, {in[j] : j \in K})
      PROVE  r.reliability \in Nat
  <2>1. ASSUME NEW j \in K PROVE Multiplier(in[j]) \in Nat \ {0}
    <3>1. in[j].age \in Nat /\ in[j].age <= HardAge
      BY <1>3, UsableAge
    <3> QED
      BY <3>1, MultiplierFalls
  <2>2. IsFiniteSet(K)
    BY AskedFinite, FS_Subset DEF Offered
  <2>3. PICK k \in K : /\ Trust(c, {in[j] : j \in K}) = c * Multiplier(in[k])
                       /\ \A j \in K : Multiplier(in[k]) <= Multiplier(in[j])
    BY <1>3, <2>1, <2>2, LeastMultiplier
  <2>4. PICK m \in Nat : m = Multiplier(in[k])
    BY <2>1
  <2>5. c * m \in Nat
    OBVIOUS
  <2>6. r.reliability = Trust(c, {in[j] : j \in K})
    BY <1>3 DEF Report
  <2> QED
    BY <2>3, <2>4, <2>5, <2>6
<1> QED
  BY <1>1, <1>2, <1>3 DEF SameReport, r

(* Without one of its channels, such a calculator is unavailable.             *)
LEMMA ExpiredUnavailable ==
    ASSUME NEW f \in {"funding_liquidity", "cftc_positioning", "equity_erp", "gold_china_premium"},
           NEW o, DOMAIN o = DOMAIN AskedOf[f], NEW i \in DOMAIN o, ~Usable(o[i])
    PROVE  Calculate(f, o) = Unavailable
<1>1. CASE f = "funding_liquidity"
  <2>1. i = "CN_DR007"
    BY <1>1 DEF AskedOf
  <2>2. DOMAIN Scored(o.CN_DR007) = {}
    BY <2>1 DEF Scored
  <2>3. FundingLiquidity(o) = Unavailable
    BY <2>2 DEF FundingLiquidity
  <2> QED
    BY <1>1, <2>3 DEF Calculate
<1>2. CASE f = "cftc_positioning"
  <2>1. i = "CFTC_GOLD_NET_LONG"
    BY <1>2 DEF AskedOf
  <2>2. DOMAIN Scored(o.CFTC_GOLD_NET_LONG) = {}
    BY <2>1 DEF Scored
  <2>3. CftcPositioning(o) = Unavailable
    BY <2>2 DEF CftcPositioning
  <2> QED
    BY <1>2, <2>3 DEF Calculate
<1>3. CASE f = "equity_erp"
  <2>1. i \in {"CN_INDEX_PE", "CN_CGB_10Y"}
    BY <1>3 DEF AskedOf
  <2>2. EquityErp(o) = Unavailable
    BY <2>1 DEF EquityErp
  <2> QED
    BY <1>3, <2>2 DEF Calculate
<1>4. CASE f = "gold_china_premium"
  <2>1. i \in {"SGE_AU9999", "GOLD_USD", "USDCNY"}
    BY <1>4 DEF AskedOf
  <2>2. \E ch \in {o.SGE_AU9999, o.GOLD_USD, o.USDCNY} : ~Usable(ch)
    BY <2>1
  <2>3. GoldChinaPremium(o) = Unavailable
    BY <2>2 DEF GoldChinaPremium
  <2> QED
    BY <1>4, <2>3 DEF Calculate
<1> QED
  BY <1>1, <1>2, <1>3, <1>4

LEMMA EveryFactorAges ==
    ASSUME NEW f, NEW in, Offered(f, in), NEW i \in DOMAIN in, Usable(in[i]),
           NEW x \in Nat, in[i].age < x, x > HardAge => f \notin GovernedByOldest,
           f = "equity_erp" => \A j \in DOMAIN in : "dates" \in DOMAIN in[j]
    PROVE  NeverHelps(f, in, i, x)
<1> DEFINE o == Delayed(in, i, x)
           r == Calculate(f, in)
           s == Calculate(f, o)
<1>0. /\ DelayedTo(in, o, i, x) /\ HardAge \in Nat /\ IsFiniteSet(DOMAIN in)
      /\ f \in DOMAIN AskedOf /\ DOMAIN in = DOMAIN AskedOf[f] /\ DOMAIN o = DOMAIN in
  BY OlderAged, OlderChannels, AskedFinite, CalculatorsAssumption DEF Offered
<1>1. CASE f \in ByChannels /\ x <= HardAge
  <2>1. ScoresAlike(in, o)
    BY <1>0, <1>1, OlderOffers DEF ScoresAlike
  <2>2. f = "equity_erp" => \A j \in DOMAIN in : o[j].dates = in[j].dates
    <3>1. ASSUME NEW j \in DOMAIN in, f = "equity_erp" PROVE o[j].dates = in[j].dates
      <4>1. "dates" \in DOMAIN in[i]
        BY <3>1
      <4>2. (j # i => o[j] = in[j]) /\ o[i].dates = in[i].dates
        BY <4>1, OlderChannels
      <4> QED
        BY <4>2
    <3> QED
      BY <3>1
  <2>3. SameReport(in, o, i, r, s)
    <3> HIDE DEF o
    <3> QED
      BY <1>1, <2>1, <2>2, ChannelsReport
  <2> QED
    BY <1>0, <1>1, <2>3, SameNeverHelps
<1>2. CASE f \in ByChannels /\ x > HardAge
  <2>1. f \in {"funding_liquidity", "cftc_positioning", "equity_erp", "gold_china_premium"}
    BY <1>2 DEF ByChannels, GovernedByOldest
  <2>2. ~Usable(o[i])
    <3>1. o[i].age = x /\ x # NoHistory
      BY <1>0 DEF DelayedTo, NoHistory
    <3>2. ~(x <= FreshAge)
      BY <1>2, CalculatorsAssumption
    <3>3. Freshness(o[i]) = "hard_expired"
      BY <1>2, <3>1, <3>2 DEF Freshness
    <3> QED
      BY <3>3 DEF Usable
  <2>3. s = Unavailable
    <3> HIDE DEF o
    <3> QED
      BY <1>0, <2>1, <2>2, ExpiredUnavailable
  <2>4. r.reliability \in Nat
    BY <1>2, ReliabilityType
  <2> HIDE DEF r, s
  <2>5. NoBetter(r, s) /\ Costs(r, s)
    BY <2>3, <2>4 DEF NoBetter, Costs, Unavailable
  <2> QED
    BY <1>2, <2>5 DEF NeverHelps, r, s, o
<1>3. CASE f \in {"gold_inflation", "global_conditions"}
  <2>1. PICK spec : /\ Configured(spec, in)
                    /\ ReportsOn(in, spec, r) /\ ReportsOn(o, spec, s)
                    /\ r = Unavailable => s = Unavailable
                    /\ x <= HardAge /\ s = Unavailable => r = Unavailable
    <3>1. CASE f = "gold_inflation"
      <4> DEFINE a == "US_CPI_YOY"
                 spec == InflationSpec
      <4> HIDE DEF o
      <4>1. Configured(spec, in) /\ a \in DOMAIN in /\ Configured(spec, o) /\ a \in DOMAIN o
        BY <1>0, <3>1, InflationConfigured, AgedConfigured
      <4>2. r = GoldInflation(in, spec) /\ s = GoldInflation(o, spec)
        BY <3>1 DEF Calculate
      <4> HIDE DEF spec, r, s
      <4>3. ReportsOn(in, spec, r) /\ (r = Unavailable <=> ~Speaks(in[a]))
        BY <4>1, <4>2, InflationReports
      <4>4. ReportsOn(o, spec, s) /\ (s = Unavailable <=> ~Speaks(o[a]))
        BY <4>1, <4>2, InflationReports
      <4>5. Speaks(o[a]) <=> Speaks(in[a]) /\ (a = i => x <= HardAge)
        BY <1>0, <4>1, EffectiveAges
      <4> QED
        BY <4>1, <4>3, <4>4, <4>5
    <3>2. CASE f = "global_conditions"
      <4> DEFINE spec == GlobalConditionsSpec
      <4> HIDE DEF o
      <4>1. Configured(spec, in) /\ Configured(spec, o)
        BY <1>0, <3>2, GlobalConfigured, AgedConfigured
      <4>2. r = WeightedMean(in, spec, 100) /\ s = WeightedMean(o, spec, 100)
        BY <3>2 DEF Calculate
      <4> HIDE DEF spec, r, s
      <4>3. ReportsOn(in, spec, r) /\ (r = Unavailable <=> \A j \in DOMAIN in : ~Speaks(in[j]))
        BY <4>1, <4>2, MeanReports
      <4>4. ReportsOn(o, spec, s) /\ (s = Unavailable <=> \A j \in DOMAIN o : ~Speaks(o[j]))
        BY <4>1, <4>2, MeanReports
      <4>5. \A j \in DOMAIN in : Speaks(o[j]) <=> Speaks(in[j]) /\ (j = i => x <= HardAge)
        BY <1>0, <4>1, EffectiveAges
      <4> QED
        BY <1>0, <4>1, <4>3, <4>4, <4>5
    <3> QED
      BY <1>3, <3>1, <3>2
  <2> HIDE DEF r, s, o
  <2>2. /\ NoBetter(r, s)
        /\ x <= HardAge => s.age >= r.age
        /\ Speaks(in[i]) /\ Freshness(in[i]) = "fresh" /\ x > FreshAge => Costs(r, s)
    BY <1>0, <2>1, ConfiguredAges
  <2>3. x <= HardAge \/ x > HardAge
    BY <1>0
  <2> QED
    BY <2>2, <2>3 DEF NeverHelps, r, s, o
<1>4. f # "event_only"
  <2>1. DOMAIN AskedOf["event_only"] = {}
    BY DEF AskedOf
  <2> QED
    BY <1>0, <2>1
<1>5. x <= HardAge \/ x > HardAge
  BY <1>0
<1>6. f \in ByChannels \cup {"gold_inflation", "global_conditions", "event_only"}
  BY <1>0 DEF ByChannels, AskedOf
<1> QED
  BY <1>1, <1>2, <1>3, <1>4, <1>5, <1>6

(* No factor is trusted more, becomes VALID or passes for a later observation *)
(* because one of its observations is older, and a stale one among fresh ones *)
(* costs trust: for every age and every input that the calculators are given. *)
THEOREM OlderIsNoBetter == ComputationsSpec => []AgeingNeverHelps
<1>1. FactorComputed => AgeingNeverHelps
  <2> SUFFICES ASSUME FactorComputed, subject = "factor",
                      NEW i \in DOMAIN input.channels, NEW x \in Ages, x > input.channels[i].age,
                      Usable(input.channels[i]), ~(x > HardAge /\ input.factor \in GovernedByOldest)
               PROVE  LET older == Calculate(input.factor, [input.channels EXCEPT ![i].age = x])
                          expires == x > HardAge
                      IN /\ older.reliability <= answer.reliability
                         /\ older.status = "VALID" => answer.status = "VALID"
                         /\ expires \/ older.age >= answer.age
                         /\ (/\ answer.reliability > 0 /\ Speaks(input.channels[i]) /\ x > FreshAge
                             /\ \A j \in DOMAIN input.channels :
                                  Usable(input.channels[j]) => Freshness(input.channels[j]) = "fresh")
                            => older.reliability < answer.reliability
    BY DEF AgeingNeverHelps
  <2> DEFINE f == input.factor
             in == input.channels
  <2>1. /\ f \in DOMAIN CalculatorInputs /\ in \in CalculatorInputs[f] /\ answer = Calculate(f, in)
        /\ x \in Nat
    BY ComputationsAssumption DEF FactorComputed
  <2>2. /\ Offered(f, in)
        /\ f = "equity_erp" => \A j \in DOMAIN in : "dates" \in DOMAIN in[j]
    BY <2>1, ComputationsAssumption DEF Offered
  <2>3. in[i].age < x
    <3>1. in[i].age \in Nat
      BY <2>2, UsableAge
    <3> QED
      BY <2>1, <3>1
  <2>4. NeverHelps(f, in, i, x)
    <3> HIDE DEF f, in
    <3>1. x > HardAge => f \notin GovernedByOldest
      BY DEF f
    <3>2. Usable(in[i]) /\ i \in DOMAIN in
      BY DEF in
    <3> QED
      BY <2>1, <2>2, <2>3, <3>1, <3>2, EveryFactorAges
  <2> QED
    BY <2>1, <2>4 DEF NeverHelps, NoBetter, Costs, Delayed
<1> QED
  BY <1>1, FactorInvariant, PTL

-----------------------------------------------------------------------------
(* Order statistics.                                                         *)

\* A finite family of integers.
Integral(f) == IsFiniteSet(DOMAIN f) /\ \A i \in DOMAIN f : f[i] \in Int

(* There is a k-th smallest value, for every k up to their number.            *)
LEMMA RankedValue ==
    ASSUME NEW f, Integral(f), NEW k \in Nat, k <= Cardinality(DOMAIN f), DOMAIN f # {}
    PROVE  Ranked(f, k) \in Int
<1> DEFINE upTo(x) == {i \in DOMAIN f : f[i] <= x}
           S == {x \in Range(f) : Cardinality(upTo(x)) >= k}
<1>1. IsFiniteSet(Range(f)) /\ Range(f) \subseteq Int /\ Range(f) # {}
  <2>1. Range(f) = {f[i] : i \in DOMAIN f}
    BY DEF Range
  <2>2. [i \in DOMAIN f |-> f[i]] \in Surjection(DOMAIN f, Range(f))
    BY <2>1 DEF Surjection
  <2>3. IsFiniteSet(Range(f))
    BY <2>2, FS_Surjection DEF Integral, ExistsSurjection
  <2> QED
    BY <2>1, <2>3 DEF Integral
<1>2. PICK m \in Range(f) : \A y \in Range(f) : y <= m
  BY <1>1, IntExtremes
<1>3. m \in S
  <2>1. upTo(m) = DOMAIN f
    BY <1>2 DEF Range
  <2>2. Cardinality(DOMAIN f) \in Nat
    BY FS_CardinalityType DEF Integral
  <2> QED
    BY <2>1, <2>2
<1>4. IsFiniteSet(S) /\ S \subseteq Int
  BY <1>1, FS_Subset
<1> HIDE DEF S
<1>5. \E x \in S : \A y \in S : x <= y
  BY <1>3, <1>4, IntExtremes
<1>6. Min(S) \in S
  BY <1>5 DEF Min
<1> QED
  BY <1>4, <1>6 DEF Ranked, S

LEMMA MedianIntegral ==
    ASSUME NEW f, Integral(f), DOMAIN f # {}
    PROVE  Median2(f) \in Int
<1> DEFINE n == Cardinality(DOMAIN f)
<1>1. n \in Nat /\ n # 0
  BY FS_CardinalityType, FS_EmptySet DEF Integral
<1> HIDE DEF n
<1>2. CASE n % 2 = 1
  <2>1. (n + 1) \div 2 \in Nat /\ (n + 1) \div 2 <= n
    BY <1>1, <1>2
  <2>2. Ranked(f, (n + 1) \div 2) \in Int
    BY <2>1, RankedValue DEF n
  <2>3. Median2(f) = 2 * Ranked(f, (n + 1) \div 2)
    BY <1>2 DEF Median2, n
  <2> QED
    BY <2>2, <2>3
<1>3. CASE n % 2 # 1
  <2>1. /\ n \div 2 \in Nat /\ n \div 2 <= n
        /\ n \div 2 + 1 \in Nat /\ n \div 2 + 1 <= n
    BY <1>1, <1>3
  <2>2. Ranked(f, n \div 2) \in Int /\ Ranked(f, n \div 2 + 1) \in Int
    BY <2>1, RankedValue DEF n
  <2>3. Median2(f) = Ranked(f, n \div 2) + Ranked(f, n \div 2 + 1)
    BY <1>3 DEF Median2, n
  <2> QED
    BY <2>2, <2>3
<1> QED
  BY <1>2, <1>3

(* NoFeature is no score.                                                     *)
LEMMA NoFeatureApart == NoFeature \in Int /\ ~(Size(NoFeature) <= 10000)
  BY SMT DEF NoFeature, Size

(* Squash keeps the sign, and the bound.                                      *)
Signed(v, moved) == (moved > 0 => v >= 0) /\ (moved < 0 => v <= 0)

LEMMA SquashSigned ==
    ASSUME NEW num \in Int, NEW den \in Int
    PROVE  /\ Squash(num, den) \in Int /\ Size(Squash(num, den)) <= 100
           /\ Signed(Squash(num, den), num)
<1> DEFINE size == IF den = 0 THEN (IF num = 0 THEN 0 ELSE 100)
                   ELSE IF Size(num) >= den THEN 100 ELSE (100 * Size(num)) \div den
<1>1. Size(num) \in Nat
  BY DEF Size
<1>2. size \in Int /\ 0 <= size /\ size <= 100
  <2>1. CASE den = 0
    BY <2>1
  <2>2. CASE den # 0 /\ Size(num) >= den
    BY <1>1, <2>2
  <2>3. CASE den # 0 /\ ~(Size(num) >= den)
    <3>1. PICK d \in Nat \ {0} : d = den
      BY <1>1, <2>3
    <3>2. PICK s \in Nat : s = Size(num) /\ s < d
      BY <1>1, <2>3, <3>1
    <3>3. (100 * s) \div d \in Int /\ 0 <= (100 * s) \div d /\ (100 * s) \div d <= 100
      <4>1. 0 <= 100 * s /\ 100 * s <= 100 * d
        BY <3>2
      <4>2. PICK v \in Nat : v = 100 * s
        OBVIOUS
      <4>3. PICK k \in Nat : k = 100
        OBVIOUS
      <4>4. v \div d \in Nat /\ v \div d <= k
        BY <4>1, <4>2, <4>3, QuotientBetween
      <4> QED
        BY <4>2, <4>3, <4>4
    <3> QED
      BY <2>3, <3>1, <3>2, <3>3
  <2> QED
    BY <2>1, <2>2, <2>3
<1>3. Squash(num, den) = IF num < 0 THEN -size ELSE size
  BY DEF Squash
<1> HIDE DEF size
<1> QED
  BY <1>2, <1>3 DEF Signed, Size

(* Agreement in sign makes no negative product.                               *)
LEMMA SignedProduct ==
    ASSUME NEW v \in Int, NEW m \in Int, Signed(v, m)
    PROVE  v * m >= 0
<1>1. CASE m > 0
  <2>1. v >= 0
    BY <1>1 DEF Signed
  <2>2. PICK a \in Nat : a = v
    BY <2>1
  <2>3. PICK b \in Nat : b = m
    BY <1>1
  <2>4. a * b \in Nat
    OBVIOUS
  <2> QED
    BY <2>2, <2>3, <2>4
<1>2. CASE m < 0
  <2>1. v <= 0
    BY <1>2 DEF Signed
  <2>2. PICK a \in Nat : v = -a
    <3>1. -v \in Nat /\ v = -(-v)
      BY <2>1
    <3> QED
      BY <3>1
  <2>3. PICK b \in Nat : m = -b
    <3>1. -m \in Nat /\ m = -(-m)
      BY <1>2
    <3> QED
      BY <3>1
  <2>4. a * b \in Nat /\ (-a) * (-b) = a * b
    OBVIOUS
  <2> QED
    BY <2>2, <2>3, <2>4
<1>3. CASE m = 0
  BY <1>3
<1> QED
  BY <1>1, <1>2, <1>3

LEMMA LastIndicesFacts ==
    ASSUME NEW S, IsFiniteSet(S), NEW k
    PROVE  LastIndices(S, k) \in SUBSET S /\ IsFiniteSet(LastIndices(S, k))
<1>1. LastIndices(S, k) \in SUBSET S
  BY DEF LastIndices
<1> QED
  BY <1>1, FS_Subset

(* The last of some numbers in a row is always among the latest.              *)
LEMMA LastIsLatest ==
    ASSUME NEW a \in Nat, NEW n \in Nat, a < n, NEW k \in Nat \ {0}
    PROVE  n \in LastIndices(a + 1 .. n, k)
<1>1. {j \in a + 1 .. n : j >= n} = {n}
  OBVIOUS
<1>2. Cardinality({n}) = 1
  BY FS_Singleton
<1> QED
  BY <1>1, <1>2 DEF LastIndices

(* The scores from the distance to the median and from the size of a change.  *)
LEMMA RobustBounded ==
    ASSUME NEW value \in Int, NEW history, Integral(history)
    PROVE  RobustScore(value, history) \in Int /\ Size(RobustScore(value, history)) <= 100
<1> DEFINE m == Median2(history)
           dist == [i \in DOMAIN history |-> Size(2 * history[i] - m)]
           mad4 == Median2(dist)
           off == 2 * value - m
<1>1. RobustScore(value, history) =
         IF Cardinality(DOMAIN history) < 3 THEN 0
         ELSE IF mad4 = 0 THEN Squash(50 * off, Size(m)) ELSE Squash(10000 * off, 14826 * mad4)
  BY DEF RobustScore
<1>2. CASE Cardinality(DOMAIN history) < 3
  BY <1>1, <1>2 DEF Size
<1>3. CASE ~(Cardinality(DOMAIN history) < 3)
  <2>1. DOMAIN history # {}
    BY <1>3, FS_EmptySet
  <2>2. m \in Int
    BY <2>1, MedianIntegral
  <2>3. mad4 \in Int
    <3>1. \A i \in DOMAIN history : dist[i] \in Int
      BY <2>2 DEF Integral, Size
    <3>2. Integral(dist) /\ DOMAIN dist # {}
      BY <2>1, <3>1 DEF Integral
    <3> HIDE DEF dist
    <3> QED
      BY <3>2, MedianIntegral
  <2> HIDE DEF m, mad4
  <2>4. 50 * off \in Int /\ Size(m) \in Int /\ 10000 * off \in Int /\ 14826 * mad4 \in Int
    BY <2>2, <2>3 DEF Size
  <2> HIDE DEF off
  <2>5. /\ Squash(50 * off, Size(m)) \in Int /\ Size(Squash(50 * off, Size(m))) <= 100
        /\ Squash(10000 * off, 14826 * mad4) \in Int
        /\ Size(Squash(10000 * off, 14826 * mad4)) <= 100
    BY <2>4, SquashSigned
  <2> QED
    BY <1>1, <1>3, <2>5
<1> QED
  BY <1>2, <1>3

LEMMA ChangeSigned ==
    ASSUME NEW change \in Int, NEW earlier, Integral(earlier), DOMAIN earlier # {}, NEW base \in Int
    PROVE  LET v == ChangeScore(change, earlier, base)
           IN v \in Int /\ Size(v) <= 100 /\ Signed(v, change)
<1> DEFINE m == Median2(Sizes(earlier))
<1>1. m \in Int
  <2>1. Integral(Sizes(earlier)) /\ DOMAIN Sizes(earlier) # {}
    BY DEF Integral, Sizes, Size
  <2> QED
    BY <2>1, MedianIntegral
<1>2. ChangeScore(change, earlier, base) =
         IF m = 0 THEN Squash(50 * change, Size(base)) ELSE Squash(10000 * change, 14826 * m)
  BY DEF ChangeScore
<1> HIDE DEF m
<1>3. PICK a \in Int : a = 50 * change
  OBVIOUS
<1>4. PICK b \in Int : b = 10000 * change
  OBVIOUS
<1>5. PICK c \in Int : c = 14826 * m
  BY <1>1
<1>6. PICK d \in Int : d = Size(base)
  BY DEF Size
<1>7. Squash(a, d) \in Int /\ Size(Squash(a, d)) <= 100 /\ Signed(Squash(a, d), a)
  BY SquashSigned
<1>8. Squash(b, c) \in Int /\ Size(Squash(b, c)) <= 100 /\ Signed(Squash(b, c), b)
  BY SquashSigned
<1>9. Signed(Squash(a, d), change) /\ Signed(Squash(b, c), change)
  BY <1>3, <1>4, <1>7, <1>8 DEF Signed
<1> QED
  BY <1>2, <1>3, <1>4, <1>5, <1>6, <1>7, <1>8, <1>9

-----------------------------------------------------------------------------
(* The features of a history of n values.                                    *)
LEMMA LevelFeature ==
    ASSUME NEW values \in Seq(Int)
    PROVE  LevelRobust(values) = NoFeature <=> Len(values) < 3
<1> DEFINE n == Len(values)
           window == LastIndices(1 .. n, Window)
           history == IF Cardinality(window) > 3 THEN window \ {n} ELSE window
           past == [i \in history |-> values[i]]
<1>1. n \in Nat /\ \A i \in 1 .. n : values[i] \in Int
  OBVIOUS
<1>2. LevelRobust(values) = IF n < 3 THEN NoFeature ELSE RobustScore(values[n], past)
  BY DEF LevelRobust
<1>3. Integral(past)
  <2>1. window \in SUBSET (1 .. n) /\ IsFiniteSet(window)
    <3>1. IsFiniteSet(1 .. n)
      BY <1>1, FS_Interval
    <3> QED
      BY <3>1, LastIndicesFacts
  <2> HIDE DEF window
  <2>2. history \in SUBSET (1 .. n) /\ IsFiniteSet(history)
    BY <2>1, FS_Subset
  <2> HIDE DEF history, n
  <2> QED
    BY <1>1, <2>2 DEF Integral
<1> HIDE DEF past
<1>4. n >= 3 => RobustScore(values[n], past) # NoFeature
  <2> SUFFICES ASSUME n >= 3 PROVE RobustScore(values[n], past) # NoFeature
    OBVIOUS
  <2>1. values[n] \in Int
    BY <1>1
  <2>2. Size(RobustScore(values[n], past)) <= 100 /\ RobustScore(values[n], past) \in Int
    BY <1>3, <2>1, RobustBounded
  <2>3. ~(Size(NoFeature) <= 100)
    BY NoFeatureApart DEF Size
  <2> HIDE DEF NoFeature
  <2> QED
    BY <2>2, <2>3
<1> HIDE DEF NoFeature
<1> QED
  BY <1>1, <1>2, <1>4

LEMMA PmiFeature ==
    ASSUME NEW values \in Seq(Int)
    PROVE  PmiState(values) = NoFeature \/ Size(PmiState(values)) <= 10000
<1> DEFINE n == Len(values)
           level == Squash(values[n] - 50, 4)
           step == Squash(values[n] - values[n - 1], 2)
<1> HIDE DEF NoFeature
<1>1. n \in Nat /\ \A i \in 1 .. n : values[i] \in Int
  OBVIOUS
<1>2. PmiState(values) = IF n = 0 THEN NoFeature
                         ELSE IF n < 2 THEN 100 * level ELSE 65 * level + 35 * step
  BY DEF PmiState
<1>3. n # 0 => level \in Int /\ Size(level) <= 100
  <2> SUFFICES ASSUME n # 0 PROVE level \in Int /\ Size(level) <= 100
    OBVIOUS
  <2>1. values[n] - 50 \in Int /\ 4 \in Int
    BY <1>1
  <2> QED
    BY <2>1, SquashSigned
<1>4. n >= 2 => step \in Int /\ Size(step) <= 100
  <2> SUFFICES ASSUME n >= 2 PROVE step \in Int /\ Size(step) <= 100
    OBVIOUS
  <2>1. values[n] - values[n - 1] \in Int /\ 2 \in Int
    BY <1>1
  <2> QED
    BY <2>1, SquashSigned
<1> HIDE DEF level, step, n
<1> QED
  BY <1>1, <1>2, <1>3, <1>4, SMTT(30) DEF Size

\* A feature that is there where it should be, and points where the values moved.
PointsRight(v, there, moved) ==
    /\ (v # NoFeature) <=> there
    /\ v # NoFeature => v \in Int /\ Size(v) <= 100 /\ Signed(v, moved)

LEMMA ChangeFeature ==
    ASSUME NEW values \in Seq(Int), NEW lag \in Nat \ {0}
    PROVE  PointsRight(ChangeRobust(values, lag), Len(values) > lag,
                  values[Len(values)] - values[Len(values) - lag])
<1> DEFINE n == Len(values)
           window == LastIndices(lag + 1 .. n, Window)
           earlier == IF Cardinality(window) > 1 THEN window \ {n} ELSE window
           moved == values[n] - values[n - lag]
           past == [i \in earlier |-> values[i] - values[i - lag]]
           v == ChangeScore(moved, past, values[n - lag])
<1> HIDE DEF NoFeature
<1>1. n \in Nat /\ \A i \in 1 .. n : values[i] \in Int
  OBVIOUS
<1>2. ChangeRobust(values, lag) = IF n <= lag THEN NoFeature ELSE v
  BY DEF ChangeRobust
<1>3. n > lag => v \in Int /\ Size(v) <= 100 /\ Signed(v, moved)
  <2> SUFFICES ASSUME n > lag PROVE v \in Int /\ Size(v) <= 100 /\ Signed(v, moved)
    OBVIOUS
  <2>1. moved \in Int /\ values[n - lag] \in Int
    BY <1>1
  <2>2. window \in SUBSET (lag + 1 .. n) /\ IsFiniteSet(window)
    <3>1. IsFiniteSet(lag + 1 .. n)
      BY <1>1, FS_Interval
    <3> QED
      BY <3>1, LastIndicesFacts
  <2>3. n \in window
    BY <1>1, LastIsLatest, FeaturesAssumption
  <2>4. earlier \in SUBSET (lag + 1 .. n) /\ IsFiniteSet(earlier) /\ earlier # {}
    <3> HIDE DEF window
    <3>1. CASE Cardinality(window) > 1
      <4>1. window # {n}
        BY <3>1, FS_Singleton, SMTT(30)
      <4>2. earlier = window \ {n}
        BY <3>1
      <4>3. IsFiniteSet(window \ {n})
        BY <2>2, FS_Subset
      <4> QED
        BY <2>2, <2>3, <4>1, <4>2, <4>3
    <3>2. CASE ~(Cardinality(window) > 1)
      BY <2>2, <2>3, <3>2
    <3> QED
      BY <3>1, <3>2
  <2> HIDE DEF earlier
  <2>5. Integral(past) /\ DOMAIN past # {}
    <3>1. \A i \in earlier : values[i] \in Int /\ values[i - lag] \in Int
      BY <1>1, <2>4
    <3> QED
      BY <2>4, <3>1 DEF Integral
  <2> HIDE DEF past, moved, n
  <2> QED
    BY <2>1, <2>5, ChangeSigned
<1>4. ~(Size(NoFeature) <= 100)
  BY NoFeatureApart DEF Size
<1> HIDE DEF v, moved
<1> QED
  BY <1>1, <1>2, <1>3, <1>4 DEF PointsRight, moved

LEMMA ReturnFeature ==
    ASSUME NEW values \in Seq(Int), NEW lag \in Nat \ {0}
    PROVE  LET n == Len(values)
           IN PointsRight(ReturnRobust(values, lag),
                     n > lag /\ values[n - lag] > 0 /\ values[n] > 0, values[n] - values[n - lag])
<1> DEFINE n == Len(values)
           base == values[n - lag]
           scale == IF lag <= 20 THEN 8 ELSE IF lag <= 60 THEN 15 ELSE 25
           moved == values[n] - base
           v == Squash(100 * moved, scale * base)
<1> HIDE DEF NoFeature
<1>1. n \in Nat /\ \A i \in 1 .. n : values[i] \in Int
  OBVIOUS
<1>2. ReturnRobust(values, lag) = IF n <= lag \/ base <= 0 \/ values[n] <= 0 THEN NoFeature ELSE v
  BY DEF ReturnRobust
<1>3. n > lag => base \in Int /\ values[n] \in Int /\ v \in Int /\ Size(v) <= 100 /\ Signed(v, moved)
  <2> SUFFICES ASSUME n > lag
               PROVE  base \in Int /\ values[n] \in Int /\ v \in Int /\ Size(v) <= 100 /\ Signed(v, moved)
    OBVIOUS
  <2>1. base \in Int /\ values[n] \in Int /\ scale \in Int
    BY <1>1
  <2>2. PICK a \in Int : a = 100 * moved
    BY <2>1
  <2>3. PICK d \in Int : d = scale * base
    BY <2>1
  <2>4. Squash(a, d) \in Int /\ Size(Squash(a, d)) <= 100 /\ Signed(Squash(a, d), a)
    BY SquashSigned
  <2>5. Signed(Squash(a, d), moved)
    BY <2>1, <2>2, <2>4, SMTT(30) DEF Signed
  <2> QED
    BY <2>1, <2>2, <2>3, <2>4, <2>5
<1>4. ~(Size(NoFeature) <= 100)
  BY NoFeatureApart DEF Size
<1> HIDE DEF v, moved, base
<1> QED
  BY <1>1, <1>2, <1>3, <1>4 DEF PointsRight, moved, base

\* Over a positive base.
LEMMA YearlyFeature ==
    ASSUME NEW values \in Seq(Int), NEW lag \in Nat \ {0}
    PROVE  LET n == Len(values)
               v == YoyPctRobust(values, lag)
           IN /\ (v # NoFeature) <=> (n > lag /\ values[n - lag] # 0)
              /\ v # NoFeature => v \in Int /\ Size(v) <= 100
              /\ v # NoFeature /\ values[n - lag] > 0 => Signed(v, values[n] - values[n - lag])
<1> DEFINE n == Len(values)
           base == values[n - lag]
           moved == values[n] - base
           now == 100 * moved
           signed == IF base < 0 THEN -now ELSE now
           whole == {i \in lag + 1 .. n - 1 : values[i - lag] # 0}
           usual == LastIndices(whole, 60)
           past == [i \in usual |-> (100 * Size(values[i] - values[i - lag]))
                                       \div Size(values[i - lag])]
           typical == (14826 * Median2(past)) \div 20000
           scale == IF typical < 5 THEN 5 ELSE typical
           few == Squash(signed, 20 * Size(base))
           many == Squash(signed, 2 * scale * Size(base))
           v == IF Cardinality(usual) < 3 THEN few ELSE many
<1> HIDE DEF NoFeature
<1>1. n \in Nat /\ \A i \in 1 .. n : values[i] \in Int
  OBVIOUS
<1>2. YoyPctRobust(values, lag) = IF n <= lag \/ base = 0 THEN NoFeature ELSE v
  BY DEF YoyPctRobust
<1>3. ASSUME n > lag
      PROVE  base \in Int /\ values[n] \in Int /\ v \in Int /\ Size(v) <= 100
             /\ (base > 0 => Signed(v, moved))
  <2>1. base \in Int /\ values[n] \in Int /\ moved \in Int
    BY <1>1, <1>3
  <2>2. usual \in SUBSET whole /\ IsFiniteSet(usual)
    <3>1. IsFiniteSet(lag + 1 .. n - 1)
      BY <1>1, FS_Interval
    <3>2. IsFiniteSet(whole)
      BY <3>1, FS_Subset
    <3> HIDE DEF whole
    <3> QED
      BY <3>2, LastIndicesFacts
  <2>3. Cardinality(usual) >= 3 => Median2(past) \in Int
    <3> SUFFICES ASSUME Cardinality(usual) >= 3 PROVE Median2(past) \in Int
      OBVIOUS
    <3>1. usual # {}
      <4> HIDE DEF usual
      <4> QED
        BY FS_EmptySet
    <3>2. ASSUME NEW i \in usual
          PROVE  (100 * Size(values[i] - values[i - lag])) \div Size(values[i - lag]) \in Int
      <4>1. i \in lag + 1 .. n - 1 /\ values[i - lag] # 0
        BY <2>2
      <4>2. values[i] \in Int /\ values[i - lag] \in Int
        BY <1>1, <4>1
      <4>3. PICK a \in Nat : a = Size(values[i] - values[i - lag])
        BY <4>2 DEF Size
      <4>4. PICK b \in Nat \ {0} : b = Size(values[i - lag])
        BY <4>1, <4>2, SMTT(30) DEF Size
      <4>5. (100 * a) \div b \in Int
        OBVIOUS
      <4> QED
        BY <4>3, <4>4, <4>5
    <3> HIDE DEF usual
    <3>3. Integral(past) /\ DOMAIN past # {}
      BY <2>2, <3>1, <3>2 DEF Integral
    <3> HIDE DEF past
    <3> QED
      BY <3>3, MedianIntegral
  <2> HIDE DEF past, usual
  <2>4. Cardinality(usual) >= 3 => scale \in Int
    BY <2>3
  <2>5. PICK s \in Int : s = signed /\ (base > 0 => s = 100 * moved)
    BY <2>1
  <2>6. PICK b \in Nat : b = Size(base)
    BY <2>1 DEF Size
  <2>7. few \in Int /\ Size(few) <= 100 /\ Signed(few, s)
    <3>1. 20 * b \in Int
      OBVIOUS
    <3> QED
      BY <2>5, <2>6, <3>1, SquashSigned, ZenonT(60)
  <2>8. Cardinality(usual) >= 3 => many \in Int /\ Size(many) <= 100 /\ Signed(many, s)
    <3> SUFFICES ASSUME Cardinality(usual) >= 3
                 PROVE  many \in Int /\ Size(many) <= 100 /\ Signed(many, s)
      OBVIOUS
    <3>1. PICK c \in Int : c = scale
      BY <2>4
    <3>2. PICK d \in Int : d = 2 * c * b
      OBVIOUS
    <3>3. many = Squash(s, d)
      BY <2>5, <2>6, <3>1, <3>2
    <3> QED
      BY <3>3, SquashSigned
  <2> HIDE DEF few, many, signed
  <2>9. Cardinality(usual) \in Nat
    BY <2>2, FS_CardinalityType
  <2>10. v \in Int /\ Size(v) <= 100 /\ Signed(v, s)
    BY <2>7, <2>8, <2>9
  <2>11. base > 0 => Signed(v, moved)
    <3> HIDE DEF v, moved
    <3> QED
      BY <2>1, <2>5, <2>10 DEF Signed
  <2> QED
    BY <2>1, <2>10, <2>11
<1>4. ~(Size(NoFeature) <= 100)
  BY NoFeatureApart DEF Size
<1> HIDE DEF v, moved, base
<1> QED
  BY <1>1, <1>2, <1>3, <1>4 DEF moved, base

-----------------------------------------------------------------------------
FeatureComputed ==
    subject = "feature" =>
        /\ input.feature \in {"level_robust", "change", "return", "yoy_pct", "pmi_state"}
        /\ input.lag \in {1, 2} /\ input.values \in Histories
        /\ answer = FeatureScore(input.feature, input.lag, input.values)

LEMMA FeatureInvariant == ComputationsSpec => []FeatureComputed
<1>1. ComputationsInit => FeatureComputed
  BY DEF ComputationsInit, FeatureComputed
<1>2. FeatureComputed /\ [ComputationsNext]_computationVars => FeatureComputed'
  <2> SUFFICES ASSUME FeatureComputed, [ComputationsNext]_computationVars PROVE FeatureComputed'
    OBVIOUS
  <2>1. CASE ComputeFeature
    <3>1. PICK feature \in {"level_robust", "change", "return", "yoy_pct", "pmi_state"},
               lag \in {1, 2}, values \in Histories :
             /\ input' = [feature |-> feature, lag |-> lag, values |-> values]
             /\ answer' = FeatureScore(feature, lag, values)
      BY <2>1 DEF ComputeFeature
    <3> QED
      BY <3>1 DEF FeatureComputed
  <2>2. CASE CalculateFactor \/ ScoreAsset \/ ClusterFeed \/ MergeEvents
    <3>1. subject' \in {"factor", "score", "clusters", "events"}
      BY <2>2 DEF CalculateFactor, ScoreAsset, ClusterFeed, MergeEvents
    <3> QED
      BY <3>1 DEF FeatureComputed
  <2>3. CASE UNCHANGED computationVars
    BY <2>3 DEF FeatureComputed, computationVars
  <2> QED
    BY <2>1, <2>2, <2>3 DEF ComputationsNext
<1> QED
  BY <1>1, <1>2, PTL DEF ComputationsSpec

(* The score of a change, a return or a yearly change points where the values *)
(* moved, and there is one exactly where the history allows it, for every     *)
(* history of integers, however long, and every window.                       *)
THEOREM ScoresPointRight == ComputationsSpec => []DirectionKept
<1>1. FeatureComputed => DirectionKept
  <2> SUFFICES ASSUME FeatureComputed, subject = "feature" PROVE DirectionKept
    BY DEF DirectionKept
  <2> DEFINE values == input.values
             lag == input.lag
             n == Len(values)
             base == values[n - lag]
             moved == values[n] - base
  <2> HIDE DEF NoFeature
  <2>1. /\ values \in Seq(Int) /\ lag \in Nat \ {0} /\ n \in Nat
        /\ answer = FeatureScore(input.feature, lag, values)
    <3>1. values \in Seq(Int)
      BY ComputationsAssumption DEF FeatureComputed
    <3> QED
      BY <3>1 DEF FeatureComputed
  <2>2. n > lag => base \in Int /\ values[n] \in Int /\ moved \in Int
    BY <2>1, SMTT(30)
  <2>3. CASE input.feature = "level_robust"
    <3>1. answer = LevelRobust(values)
      BY <2>1, <2>3 DEF FeatureScore
    <3> QED
      BY <2>1, <2>3, <3>1, LevelFeature DEF DirectionKept
  <2>4. CASE input.feature = "pmi_state"
    <3>1. answer = PmiState(values)
      BY <2>1, <2>4 DEF FeatureScore
    <3> QED
      BY <2>1, <2>4, <3>1, PmiFeature DEF DirectionKept
  <2>5. CASE input.feature = "change"
    <3>1. answer = ChangeRobust(values, lag)
      BY <2>1, <2>5 DEF FeatureScore
    <3>2. PointsRight(answer, n > lag, moved)
      BY <2>1, <3>1, ChangeFeature
    <3>3. answer # NoFeature => answer * moved >= 0
      BY <2>2, <3>2, SignedProduct DEF PointsRight
    <3> HIDE DEF moved, base
    <3> QED
      BY <2>5, <3>2, <3>3 DEF DirectionKept, PointsRight, moved, base
  <2>6. CASE input.feature = "return"
    <3>1. answer = ReturnRobust(values, lag)
      BY <2>1, <2>6 DEF FeatureScore
    <3>2. PointsRight(answer, n > lag /\ base > 0 /\ values[n] > 0, moved)
      BY <2>1, <3>1, ReturnFeature
    <3>3. answer # NoFeature => answer * moved >= 0
      BY <2>2, <3>2, SignedProduct DEF PointsRight
    <3> HIDE DEF moved, base
    <3> QED
      BY <2>6, <3>2, <3>3 DEF DirectionKept, PointsRight, moved, base
  <2>7. CASE input.feature = "yoy_pct"
    <3>1. answer = YoyPctRobust(values, lag)
      BY <2>1, <2>7 DEF FeatureScore
    <3>2. /\ (answer # NoFeature) <=> (n > lag /\ base # 0)
          /\ answer # NoFeature => answer \in Int /\ Size(answer) <= 100
          /\ answer # NoFeature /\ base > 0 => Signed(answer, moved)
      BY <2>1, <3>1, YearlyFeature
    <3>3. answer # NoFeature /\ base > 0 => answer * moved >= 0
      BY <2>2, <3>2, SignedProduct
    <3> HIDE DEF moved, base
    <3> QED
      BY <2>7, <3>2, <3>3 DEF DirectionKept, moved, base
  <2> QED
    BY <2>3, <2>4, <2>5, <2>6, <2>7 DEF FeatureComputed
<1> QED
  BY <1>1, FeatureInvariant, PTL

-----------------------------------------------------------------------------
(* Tuples compare like Python's: a strict order whose complement is transitive. *)
LEMMA BeforeOrder ==
  ASSUME NEW n \in Nat, NEW s \in [1 .. n -> Int], NEW t \in [1 .. n -> Int], NEW u \in [1 .. n -> Int]
  PROVE  /\ ~Before(s, s)
         /\ ~(Before(s, t) /\ Before(t, s))
         /\ ~Before(s, t) /\ ~Before(t, u) => ~Before(s, u)
<1>1. ~Before(s, s)
  BY DEF Before
<1>2. ~(Before(s, t) /\ Before(t, s))
  <2> SUFFICES ASSUME NEW i \in 1 .. n, s[i] < t[i], \A j \in 1 .. i - 1 : s[j] = t[j],
                      NEW k \in 1 .. n, t[k] < s[k], \A j \in 1 .. k - 1 : t[j] = s[j]
               PROVE  FALSE
    BY DEF Before
  <2> QED
    BY SMTT(30)
<1>3. ASSUME ~Before(s, t), ~Before(t, u), Before(s, u) PROVE FALSE
  <2>1. PICK i \in 1 .. n : s[i] < u[i] /\ \A j \in 1 .. i - 1 : s[j] = u[j]
    BY <1>3 DEF Before
  <2> DEFINE D == {j \in 1 .. i : t[j] # s[j] \/ t[j] # u[j]}
  <2>2. i \in D
    BY <2>1
  <2>3. PICK k \in D : \A j \in D : k <= j
    <3>1. D \subseteq Nat
      OBVIOUS
    <3>2. D # {}
      BY <2>2
    <3> HIDE DEF D
    <3> QED
      BY <3>1, <3>2, NatHasMin
  <2>4. \A j \in 1 .. k - 1 : t[j] = s[j] /\ t[j] = u[j]
    BY <2>3
  <2>5. s[k] <= u[k] /\ k \in 1 .. n
    <3>1. k \in 1 .. i /\ i \in 1 .. n
      BY <2>3
    <3>2. CASE k = i
      BY <2>1, <3>2
    <3>3. CASE k # i
      <4>1. k \in 1 .. i - 1 /\ k \in 1 .. n
        BY <3>1, <3>3
      <4>2. s[k] = u[k] /\ s[k] \in Int
        BY <2>1, <4>1
      <4> QED
        BY <4>1, <4>2
    <3> QED
      BY <3>2, <3>3
  <2>6. ~(s[k] < t[k]) /\ ~(t[k] < u[k])
    BY <1>3, <2>4, <2>5 DEF Before
  <2> QED
    BY <2>1, <2>3, <2>5, <2>6
<1> QED
  BY <1>1, <1>2, <1>3

\* The elements of a set have keys that compare.
Keyed(S, key, n) == \A x \in S : key[x] \in [1 .. n -> Int]

(* A finite set has a greatest element.                                       *)
LEMMA GreatestExists ==
  ASSUME NEW S, IsFiniteSet(S), NEW n \in Nat, NEW key, Keyed(S, key, n)
  PROVE  \A T \in SUBSET S : T # {} =>
            Greatest(T, key) \in T /\ \A y \in T : ~Before(key[Greatest(T, key)], key[y])
<1> DEFINE Top(T) == \E x \in T : \A y \in T : ~Before(key[x], key[y])
           Good == {T \in SUBSET S : T # {} => Top(T)}
<1>1. ASSUME NEW T \in SUBSET S, \A U \in SUBSET T : U # T => U \in Good, T # {} PROVE Top(T)
  <2>1. PICK x \in T : TRUE
    BY <1>1
  <2>2. CASE T = {x}
    <3>1. ~Before(key[x], key[x])
      BY BeforeOrder DEF Keyed
    <3> QED
      BY <2>2, <3>1
  <2>3. CASE T # {x}
    <3>1. T \ {x} \in SUBSET T /\ T \ {x} # T /\ T \ {x} # {}
      BY <2>1, <2>3
    <3>2. PICK g \in T \ {x} : \A y \in T \ {x} : ~Before(key[g], key[y])
      BY <1>1, <3>1
    <3>3. CASE Before(key[g], key[x])
      <4>1. ASSUME NEW y \in T PROVE ~Before(key[x], key[y])
        <5>1. CASE y = x
          BY <5>1, BeforeOrder DEF Keyed
        <5>2. CASE y # x
          <6>1. ~Before(key[g], key[y]) /\ ~Before(key[x], key[g])
            BY <3>2, <3>3, <5>2, BeforeOrder DEF Keyed
          <6> QED
            BY <6>1, BeforeOrder DEF Keyed
        <5> QED
          BY <5>1, <5>2
      <4> QED
        BY <4>1
    <3>4. CASE ~Before(key[g], key[x])
      BY <3>2, <3>4
    <3> QED
      BY <3>3, <3>4
  <2> QED
    BY <2>2, <2>3
<1>2. \A T \in SUBSET S : (\A U \in SUBSET T : U # T => U \in Good) => T \in Good
  BY <1>1
<1>3. \A T \in SUBSET S : T \in Good
  <2> HIDE DEF Good
  <2> QED
    BY <1>2, SubsetInduction
<1>4. SUFFICES ASSUME NEW T \in SUBSET S, T # {}
               PROVE  Greatest(T, key) \in T /\ \A y \in T : ~Before(key[Greatest(T, key)], key[y])
  OBVIOUS
<1>5. Top(T)
  BY <1>3, <1>4
<1> QED
  BY <1>5 DEF Greatest

\* Descending, one element at a time.
Listing(f, S, key) ==
  \A T \in SUBSET S : f[T] = IF T = {} THEN <<>>
                            ELSE <<Greatest(T, key)>> \o f[T \ {Greatest(T, key)}]

LEMMA DescendingStep ==
  ASSUME NEW S, IsFiniteSet(S), NEW n \in Nat, NEW key, Keyed(S, key, n)
  PROVE  \E f : Listing(f, S, key) /\ Descending(S, key) = f[S]
<1> DEFINE x(s) == Greatest(s, key)
           fits(f) == f = [s \in SUBSET S |-> IF s = {} THEN <<>> ELSE <<x(s)>> \o f[s \ {x(s)}]]
           iter == CHOOSE f : fits(f)
           pick == [s \in SUBSET S |-> x(s)]
           B == Seq(S)
           step == [p \in S \X B |-> <<p[1]>> \o p[2]]
<1>1. Descending(S, key) = iter[S]
  BY Zenon DEF Descending, MapThenFoldSet
<1>2. \A s \in SUBSET S : s # {} => x(s) \in s /\ pick[s] = x(s)
  BY GreatestExists
<1>3. step \in [S \X B -> B] /\ <<>> \in B
  OBVIOUS
<1> HIDE DEF B
<1>4. PICK f : Folding(f, pick, step, <<>>, S)
  <2> HIDE DEF pick, step
  <2> QED
    BY <1>2, FoldExists
<1>5. \A s \in SUBSET S : f[s] \in B
  <2> HIDE DEF pick, step
  <2> QED
    BY <1>2, <1>3, <1>4, FoldType, ZenonT(60)
<1>6. ASSUME NEW s \in SUBSET S, s # {} PROVE step[<<pick[s], f[s \ {pick[s]}]>>] = <<x(s)>> \o f[s \ {x(s)}]
  <2> DEFINE p == <<x(s), f[s \ {x(s)}]>>
  <2>1. x(s) \in S /\ f[s \ {x(s)}] \in B /\ pick[s] = x(s)
    BY <1>2, <1>5, <1>6
  <2> HIDE DEF x, pick
  <2> QED
    BY <2>1
<1>7. fits(f)
  <2> HIDE DEF pick, step, x
  <2> QED
    BY <1>4, <1>6 DEF Folding
<1>8. fits(iter)
  BY <1>7
<1> HIDE DEF iter
<1>9. Listing(iter, S, key)
  BY <1>8 DEF Listing
<1> QED
  BY <1>1, <1>9

\* A sequence lists a set, each element once, the greatest keys first.
Lists(d, T, key) ==
  /\ d \in Seq(T) /\ Len(d) = Cardinality(T)
  /\ \A x \in T : \E i \in 1 .. Len(d) : d[i] = x
  /\ \A i, j \in 1 .. Len(d) : i < j => d[i] # d[j] /\ ~Before(key[d[i]], key[d[j]])

LEMMA DescendingLists ==
  ASSUME NEW S, IsFiniteSet(S), NEW n \in Nat, NEW key, Keyed(S, key, n)
  PROVE  Lists(Descending(S, key), S, key)
<1>1. PICK f : Listing(f, S, key) /\ Descending(S, key) = f[S]
  BY DescendingStep
<1> DEFINE Good == {T \in SUBSET S : Lists(f[T], T, key)}
<1>2. ASSUME NEW T \in SUBSET S, \A U \in SUBSET T : U # T => U \in Good PROVE Lists(f[T], T, key)
  <2>1. CASE T = {}
    <3>1. f[T] = <<>> /\ Cardinality(T) = 0
      BY <1>1, <2>1, FS_EmptySet DEF Listing
    <3> QED
      BY <2>1, <3>1 DEF Lists
  <2>2. CASE T # {}
    <3>1. PICK g : g = Greatest(T, key)
      OBVIOUS
    <3>2. g \in T /\ \A y \in T : ~Before(key[g], key[y])
      BY <2>2, <3>1, GreatestExists
    <3> DEFINE R == T \ {g}
    <3>3. R \in SUBSET T /\ R # T /\ T = R \cup {g} /\ g \notin R
      BY <3>2
    <3>4. PICK r : r = f[R]
      OBVIOUS
    <3>5. Lists(r, R, key)
      BY <1>2, <3>3, <3>4
    <3>6. IsFiniteSet(T)
      BY FS_Subset
    <3>7. Cardinality(R) = Cardinality(T) - 1 /\ Cardinality(R) \in Nat /\ Cardinality(T) \in Nat
      BY <3>2, <3>3, <3>6, FS_RemoveElement, FS_CardinalityType, FS_Subset
    <3>8. f[T] = <<g>> \o r
      BY <1>1, <2>2, <3>1, <3>4 DEF Listing
    <3> HIDE DEF R
    <3>9. PICK d : d = <<g>> \o r
      OBVIOUS
    <3>10. r \in Seq(T) /\ Len(r) \in Nat /\ \A i \in 1 .. Len(r) : r[i] \in R
      BY <3>3, <3>5 DEF Lists
    <3>11. d \in Seq(T) /\ Len(d) = 1 + Len(r) /\ d[1] = g /\ \A i \in 2 .. Len(d) : d[i] = r[i - 1] /\ i - 1 \in 1 .. Len(r)
      BY <3>2, <3>9, <3>10
    <3>12. Len(d) = Cardinality(T)
      BY <3>5, <3>7, <3>10, <3>11 DEF Lists
    <3>13. ASSUME NEW x \in T PROVE \E i \in 1 .. Len(d) : d[i] = x
      <4>1. CASE x = g
        BY <3>10, <3>11, <4>1
      <4>2. CASE x # g
        <5>1. PICK i \in 1 .. Len(r) : r[i] = x
          BY <3>3, <3>5, <4>2 DEF Lists
        <5>2. i + 1 \in 2 .. Len(d) /\ (i + 1) - 1 = i
          BY <3>10, <3>11, <5>1
        <5>3. d[i + 1] = x /\ i + 1 \in 1 .. Len(d)
          BY <3>10, <3>11, <5>1, <5>2
        <5> QED
          BY <5>3
      <4> QED
        BY <4>1, <4>2
    <3>14. ASSUME NEW i \in 1 .. Len(d), NEW j \in 1 .. Len(d), i < j
           PROVE  d[i] # d[j] /\ ~Before(key[d[i]], key[d[j]])
      <4>1. j \in 2 .. Len(d)
        BY <3>14
      <4>2. d[j] = r[j - 1] /\ j - 1 \in 1 .. Len(r) /\ d[j] \in R
        BY <3>10, <3>11, <4>1
      <4>3. CASE i = 1
        <5>1. d[j] \in T /\ d[j] # g /\ d[i] = g
          BY <3>3, <3>11, <4>2, <4>3
        <5> QED
          BY <3>2, <5>1
      <4>4. CASE i # 1
        <5>1. i \in 2 .. Len(d) /\ i - 1 < j - 1
          BY <3>14, <4>4
        <5>2. d[i] = r[i - 1] /\ i - 1 \in 1 .. Len(r)
          BY <3>11, <5>1
        <5> QED
          BY <3>5, <4>2, <5>1, <5>2 DEF Lists
      <4> QED
        BY <4>3, <4>4
    <3>15. Lists(d, T, key)
      BY <3>11, <3>12, <3>13, <3>14 DEF Lists
    <3> QED
      BY <3>8, <3>9, <3>15
  <2> QED
    BY <2>1, <2>2
<1>3. \A T \in SUBSET S : (\A U \in SUBSET T : U # T => U \in Good) => T \in Good
  BY <1>2
<1>4. S \in Good
  <2> HIDE DEF Good
  <2> QED
    BY <1>3, SubsetInduction
<1> QED
  BY <1>1, <1>4

-----------------------------------------------------------------------------
(* Merged events.                                                            *)

\* The events of one run, and what may be made of them.
EventsOver(S) ==
  [title : Int, at : Int, type : {e.type : e \in S}, factors : {e.factors : e \in S},
   verification : DOMAIN VerifyRank, tier : DOMAIN TierRank, confidence : Int, strength : Int,
   evidence : SUBSET UNION {e.evidence : e \in S}]

LEMMA EventsAreOver ==
  ASSUME NEW S, \A e \in S : Interpretation(e)
  PROVE  S \subseteq EventsOver(S)
<1> SUFFICES ASSUME NEW e \in S PROVE e \in EventsOver(S)
  OBVIOUS
<1> DEFINE r == [title |-> e.title, at |-> e.at, type |-> e.type, factors |-> e.factors,
                 verification |-> e.verification, tier |-> e.tier, confidence |-> e.confidence,
                 strength |-> e.strength, evidence |-> e.evidence]
<1>1. e = r /\ {e.title, e.at, e.confidence, e.strength} \subseteq Int
      /\ e.verification \in DOMAIN VerifyRank /\ e.tier \in DOMAIN TierRank
  BY DEF Interpretation
<1>2. e.type \in {d.type : d \in S} /\ e.factors \in {d.factors : d \in S}
      /\ e.evidence \in SUBSET UNION {d.evidence : d \in S}
  OBVIOUS
<1>3. r \in EventsOver(S)
  BY <1>1, <1>2 DEF EventsOver
<1> QED
  BY <1>1, <1>3

LEMMA QualityType ==
  ASSUME NEW S, NEW e \in EventsOver(S)
  PROVE  Quality(e) \in [1 .. 4 -> Int]
<1>1. e.verification \in DOMAIN VerifyRank /\ e.tier \in DOMAIN TierRank
      /\ e.confidence \in Int /\ e.strength \in Int
  BY DEF EventsOver
<1>2. VerifyRank[e.verification] \in Int /\ TierRank[e.tier] \in Int
  BY <1>1 DEF VerifyRank, TierRank
<1> QED
  BY <1>1, <1>2 DEF Quality

\* An event that stands for a set of them: it says what the best of them says, as early as the
\* earliest, with everything they rest on.
Stands(x, P) ==
  /\ x.evidence = UNION {e.evidence : e \in P}
  /\ \E e \in P : e.at = x.at
  /\ \A e \in P : x.at <= e.at /\ e.type = x.type /\ e.factors = x.factors
  /\ \E e \in P : /\ x.strength = e.strength /\ Quality(x) = Quality(e)
                  /\ \A d \in P : ~Before(Quality(e), Quality(d))

LEMMA StandsForItself ==
  ASSUME NEW S, NEW e \in EventsOver(S)
  PROVE  Stands(e, {e})
<1>1. e.at \in Int
  BY DEF EventsOver
<1>2. ~Before(Quality(e), Quality(e))
  BY QualityType, BeforeOrder
<1> QED
  BY <1>1, <1>2 DEF Stands

LEMMA BestFields ==
  ASSUME NEW S, NEW x \in EventsOver(S), NEW y \in EventsOver(S)
  PROVE  /\ Best(x, y) \in EventsOver(S)
         /\ Best(x, y).at \in {x.at, y.at} /\ Best(x, y).at <= x.at /\ Best(x, y).at <= y.at
         /\ Best(x, y).evidence = x.evidence \cup y.evidence
         /\ LET p == IF Before(Quality(x), Quality(y)) THEN y ELSE x
            IN /\ Best(x, y).type = p.type /\ Best(x, y).factors = p.factors
               /\ Best(x, y).strength = p.strength /\ Quality(Best(x, y)) = Quality(p)
<1> DEFINE z == Best(x, y)
           primary == IF Before(Quality(x), Quality(y)) THEN y ELSE x
<1>1. PICK p : p = primary
  OBVIOUS
<1>2. p \in EventsOver(S)
  BY <1>1
<1>3. PICK at : at = Min({x.at, y.at})
  OBVIOUS
<1>4. at \in Int /\ at \in {x.at, y.at} /\ at <= x.at /\ at <= y.at
  <2>1. x.at \in Int /\ y.at \in Int
    BY DEF EventsOver
  <2>2. at = CHOOSE v \in {x.at, y.at} : \A w \in {x.at, y.at} : v <= w
    BY <1>3 DEF Min
  <2>3. \E v \in {x.at, y.at} : \A w \in {x.at, y.at} : v <= w
    BY <2>1
  <2>4. at \in {x.at, y.at} /\ \A w \in {x.at, y.at} : at <= w
    BY <2>2, <2>3
  <2> QED
    BY <2>1, <2>4
<1>5. PICK ev : ev = x.evidence \cup y.evidence
  OBVIOUS
<1>6. z = [p EXCEPT !.at = at, !.evidence = ev]
  BY <1>1, <1>3, <1>5 DEF Best
<1>7. z \in EventsOver(S) /\ z.at = at /\ z.evidence = ev /\ z.type = p.type /\ z.factors = p.factors
      /\ z.strength = p.strength /\ z.verification = p.verification /\ z.tier = p.tier
      /\ z.confidence = p.confidence
  <2>1. ev \in SUBSET UNION {e.evidence : e \in S}
    BY <1>5 DEF EventsOver
  <2> QED
    BY <1>2, <1>4, <1>6, <2>1 DEF EventsOver
<1> HIDE DEF z
<1>8. Quality(z) = Quality(p)
  BY <1>7 DEF Quality
<1> HIDE DEF primary
<1>9. z \in EventsOver(S) /\ z.at \in {x.at, y.at} /\ z.at <= x.at /\ z.at <= y.at
      /\ z.evidence = x.evidence \cup y.evidence /\ z.type = primary.type /\ z.factors = primary.factors
      /\ z.strength = primary.strength /\ Quality(z) = Quality(primary)
  BY <1>1, <1>4, <1>5, <1>7, <1>8
<1> QED
  BY <1>9 DEF z, primary

LEMMA BestStands ==
  ASSUME NEW S, NEW P \in SUBSET EventsOver(S), NEW x \in EventsOver(S), NEW y \in EventsOver(S),
         Stands(x, P), x.type = y.type, x.factors = y.factors
  PROVE  Stands(Best(x, y), P \cup {y})
<1> DEFINE Q == P \cup {y}
           primary == IF Before(Quality(x), Quality(y)) THEN y ELSE x
<1>1. PICK p : p = primary
  OBVIOUS
<1>2. p \in EventsOver(S) /\ p.type = x.type /\ p.factors = x.factors
  BY <1>1
<1>3. PICK z : z = Best(x, y)
  OBVIOUS
<1>4. z.at \in {x.at, y.at} /\ z.at <= x.at /\ z.at <= y.at /\ z.evidence = x.evidence \cup y.evidence
  BY <1>3, BestFields
<1>7. z.type = p.type /\ z.factors = p.factors /\ z.strength = p.strength
  BY <1>1, <1>3, BestFields
<1>8. Quality(z) = Quality(p)
  BY <1>1, <1>3, BestFields
<1>9. z.evidence = UNION {e.evidence : e \in Q}
  BY <1>4 DEF Stands
<1>10. \E e \in Q : e.at = z.at
  BY <1>4, <1>7 DEF Stands
<1>11. ASSUME NEW e \in Q PROVE z.at <= e.at /\ e.type = z.type /\ e.factors = z.factors
  <2>1. CASE e = y
    BY <1>2, <1>4, <1>7, <2>1
  <2>2. CASE e \in P
    <3>1. x.at <= e.at /\ e.type = x.type /\ e.factors = x.factors
      BY <2>2 DEF Stands
    <3>2. e.at \in Int /\ x.at \in Int /\ z.at \in Int
      BY <1>4, <2>2 DEF EventsOver
    <3> QED
      BY <1>2, <1>4, <1>7, <3>1, <3>2
  <2> QED
    BY <2>1, <2>2
<1>12. \E e \in Q : /\ z.strength = e.strength /\ Quality(z) = Quality(e)
                    /\ \A d \in Q : ~Before(Quality(e), Quality(d))
  <2>1. PICK b \in P : /\ x.strength = b.strength /\ Quality(x) = Quality(b)
                       /\ \A d \in P : ~Before(Quality(b), Quality(d))
    BY DEF Stands
  <2>2. \A d \in Q : Quality(d) \in [1 .. 4 -> Int]
    BY QualityType
  <2>3. CASE Before(Quality(x), Quality(y))
    <3>0. Quality(x) \in [1 .. 4 -> Int] /\ Quality(y) \in [1 .. 4 -> Int]
      BY QualityType
    <3>1. p = y /\ ~Before(Quality(y), Quality(x)) /\ ~Before(Quality(y), Quality(y))
      BY <1>1, <2>3, <3>0, BeforeOrder
    <3>2. \A d \in P : ~Before(Quality(y), Quality(d))
      BY <2>1, <2>2, <3>1, BeforeOrder
    <3> QED
      BY <1>7, <1>8, <3>1, <3>2
  <2>4. CASE ~Before(Quality(x), Quality(y))
    <3>1. p = x
      BY <1>1, <2>4
    <3>2. \A d \in Q : ~Before(Quality(b), Quality(d))
      BY <2>1, <2>4
    <3> QED
      BY <1>7, <1>8, <2>1, <3>1, <3>2
  <2> QED
    BY <2>3, <2>4
<1> QED
  BY <1>3, <1>9, <1>10, <1>11, <1>12 DEF Stands

(* The least index of a set of them is one of them.                           *)
LEMMA LeastIndex ==
  ASSUME NEW I, I \subseteq Nat, I # {}
  PROVE  Min(I) \in I
<1>1. \E i \in I : \A j \in I : i <= j
  BY NatHasMin
<1> QED
  BY <1>1 DEF Min

(* Merging another event keeps the merged events of their type; the event is  *)
(* added, or one of the merged of its kind becomes the best of both.          *)
LEMMA MergedMoves ==
  ASSUME NEW S, NEW m \in Seq(EventsOver(S)), NEW e \in EventsOver(S)
  PROVE  \/ Merged(m, e) = Append(m, e)
         \/ \E k \in 1 .. Len(m) : /\ m[k].type = e.type /\ m[k].factors = e.factors
                                 /\ Merged(m, e) = [m EXCEPT ![k] = Best(m[k], e)]
<1> DEFINE same == {i \in DOMAIN m : Duplicate(m[i], e)}
<1>1. CASE same = {}
  BY <1>1 DEF Merged
<1>2. CASE same # {}
  <2>1. PICK k : k = Min(same)
    OBVIOUS
  <2>2. same \subseteq Nat
    OBVIOUS
  <2>3. k \in same
    <3> HIDE DEF same
    <3> QED
      BY <1>2, <2>1, <2>2, LeastIndex
  <2>4. m[k].type = e.type /\ m[k].factors = e.factors /\ k \in 1 .. Len(m)
    BY <2>3 DEF Duplicate
  <2>5. Merged(m, e) = [m EXCEPT ![k] = Best(m[k], e)]
    BY <1>2, <2>1 DEF Merged
  <2> QED
    BY <2>4, <2>5
<1> QED
  BY <1>1, <1>2

\* Each event of a set is in one of the merged ones, which stand for those that are in them.
Assigned(m, T, home) ==
  /\ home \in [T -> 1 .. Len(m)]
  /\ \A i \in 1 .. Len(m) : Stands(m[i], {e \in T : home[e] = i})

Covers(m, T, S) == m \in Seq(EventsOver(S)) /\ \E home : Assigned(m, T, home)

LEMMA MergedCovers ==
  ASSUME NEW S, NEW R \in SUBSET EventsOver(S), NEW e \in EventsOver(S), e \notin R,
         NEW m, Covers(m, R, S)
  PROVE  Covers(Merged(m, e), R \cup {e}, S)
<1>1. m \in Seq(EventsOver(S)) /\ Len(m) \in Nat
  BY DEF Covers
<1>2. PICK home : Assigned(m, R, home)
  BY DEF Covers
<1> DEFINE T == R \cup {e}
<1>3. PICK n : n = Merged(m, e)
  OBVIOUS
<1>4. CASE n = Append(m, e)
  <2>1. n \in Seq(EventsOver(S)) /\ Len(n) = Len(m) + 1 /\ n[Len(n)] = e
        /\ \A i \in 1 .. Len(m) : n[i] = m[i]
    BY <1>1, <1>4
  <2> DEFINE new == [x \in T |-> IF x = e THEN Len(n) ELSE home[x]]
  <2>2. new \in [T -> 1 .. Len(n)]
    BY <1>1, <1>2, <2>1 DEF Assigned
  <2>3. ASSUME NEW i \in 1 .. Len(n) PROVE Stands(n[i], {x \in T : new[x] = i})
    <3>1. CASE i = Len(n)
      <4>1. {x \in T : new[x] = i} = {e}
        BY <1>1, <1>2, <2>1, <3>1 DEF Assigned
      <4> QED
        BY <2>1, <3>1, <4>1, StandsForItself
    <3>2. CASE i # Len(n)
      <4>1. i \in 1 .. Len(m)
        BY <1>1, <2>1, <3>2
      <4>2. {x \in T : new[x] = i} = {x \in R : home[x] = i}
        BY <1>1, <3>2
      <4> QED
        BY <1>2, <2>1, <4>1, <4>2 DEF Assigned
    <3> QED
      BY <3>1, <3>2
  <2>4. Assigned(n, T, new)
    <3> HIDE DEF new, T
    <3> QED
      BY <2>2, <2>3 DEF Assigned
  <2> QED
    BY <1>3, <2>1, <2>4 DEF Covers
<1>5. CASE \E k \in 1 .. Len(m) : /\ m[k].type = e.type /\ m[k].factors = e.factors
                                /\ n = [m EXCEPT ![k] = Best(m[k], e)]
  <2>1. PICK k \in 1 .. Len(m) : /\ m[k].type = e.type /\ m[k].factors = e.factors
                                /\ n = [m EXCEPT ![k] = Best(m[k], e)]
    BY <1>5
  <2> DEFINE P(i) == {x \in R : home[x] = i}
             new == [x \in T |-> IF x = e THEN k ELSE home[x]]
  <2>2. m[k] \in EventsOver(S) /\ Stands(m[k], P(k)) /\ P(k) \in SUBSET EventsOver(S)
    <3>1. m[k] \in EventsOver(S)
      BY <1>1, <2>1
    <3>2. Stands(m[k], P(k))
      BY <1>2, <2>1 DEF Assigned
    <3> QED
      BY <3>1, <3>2
  <2>3. PICK b : b = Best(m[k], e)
    OBVIOUS
  <2>4. b \in EventsOver(S) /\ Stands(b, P(k) \cup {e})
    <3> HIDE DEF P
    <3> QED
      BY <2>1, <2>2, <2>3, BestStands, BestFields
  <2>5. n \in Seq(EventsOver(S)) /\ Len(n) = Len(m) /\ n[k] = b /\ \A i \in 1 .. Len(m) : i # k => n[i] = m[i]
    BY <1>1, <2>1, <2>3, <2>4
  <2>6. new \in [T -> 1 .. Len(n)]
    BY <1>2, <2>5 DEF Assigned
  <2>7. ASSUME NEW i \in 1 .. Len(n) PROVE Stands(n[i], {x \in T : new[x] = i})
    <3>1. CASE i = k
      <4>1. {x \in T : new[x] = i} = P(k) \cup {e}
        BY <3>1
      <4> QED
        BY <2>4, <2>5, <3>1, <4>1
    <3>2. CASE i # k
      <4>1. {x \in T : new[x] = i} = P(i)
        BY <3>2
      <4> QED
        BY <1>2, <2>5, <3>2, <4>1 DEF Assigned
    <3> QED
      BY <3>1, <3>2
  <2>8. Assigned(n, T, new)
    <3> HIDE DEF new, T
    <3> QED
      BY <2>6, <2>7 DEF Assigned
  <2> QED
    BY <1>3, <2>5, <2>8 DEF Covers
<1>6. n = Append(m, e) \/ \E k \in 1 .. Len(m) : /\ m[k].type = e.type /\ m[k].factors = e.factors
                                               /\ n = [m EXCEPT ![k] = Best(m[k], e)]
  BY <1>1, <1>3, MergedMoves
<1> QED
  BY <1>4, <1>5, <1>6

LEMMA MergedType ==
  ASSUME NEW S, NEW m \in Seq(EventsOver(S)), NEW e \in EventsOver(S)
  PROVE  Merged(m, e) \in Seq(EventsOver(S))
<1>1. CASE Merged(m, e) = Append(m, e)
  BY <1>1
<1>2. CASE \E k \in 1 .. Len(m) : Merged(m, e) = [m EXCEPT ![k] = Best(m[k], e)]
  <2>1. PICK k \in 1 .. Len(m) : Merged(m, e) = [m EXCEPT ![k] = Best(m[k], e)]
    BY <1>2
  <2>2. m[k] \in EventsOver(S)
    BY <2>1
  <2>3. PICK b : b = Best(m[k], e)
    OBVIOUS
  <2>4. b \in EventsOver(S)
    BY <2>2, <2>3, BestFields
  <2> QED
    BY <2>1, <2>3, <2>4
<1> QED
  BY <1>1, <1>2, MergedMoves

\* Merging, one event at a time.
Merging(f, S, key) ==
  \A T \in SUBSET S : f[T] = IF T = {} THEN <<>>
                            ELSE Merged(f[T \ {Greatest(T, key)}], Greatest(T, key))

LEMMA MergingStep ==
  ASSUME NEW S, IsFiniteSet(S), \A e \in S : Interpretation(e)
  PROVE  \E f, key : /\ Merging(f, S, key) /\ Deduplicated(S) = f[S]
                     /\ \A T \in SUBSET S : T # {} => Greatest(T, key) \in T
<1> DEFINE key == [e \in S |-> <<e.at, e.title>>]
           B == Seq(EventsOver(S))
           x(s) == Greatest(s, key)
           fits(f) == f = [s \in SUBSET S |-> IF s = {} THEN <<>> ELSE Merged(f[s \ {x(s)}], x(s))]
           iter == CHOOSE f : fits(f)
           pick == [s \in SUBSET S |-> x(s)]
           step == [p \in S \X B |-> Merged(p[2], p[1])]
<1>0. \A e \in S : e.at \in Int /\ e.title \in Int
  BY DEF Interpretation
<1>1. Keyed(S, key, 2)
  BY <1>0 DEF Keyed
<1> HIDE DEF key
<1>2. Deduplicated(S) = iter[S]
  BY Zenon DEF Deduplicated, InOrder, MapThenFoldSet, key
<1>3. \A s \in SUBSET S : s # {} => x(s) \in s /\ pick[s] = x(s)
  BY <1>1, GreatestExists
<1>4. S \subseteq EventsOver(S)
  BY EventsAreOver
<1>5. step \in [S \X B -> B] /\ <<>> \in B
  <2>1. ASSUME NEW p \in S \X B PROVE Merged(p[2], p[1]) \in B
    BY <1>4, MergedType
  <2>2. <<>> \in B
    OBVIOUS
  <2> HIDE DEF B
  <2> QED
    BY <2>1, <2>2
<1> HIDE DEF B
<1>6. PICK f : Folding(f, pick, step, <<>>, S)
  <2> HIDE DEF pick, step
  <2> QED
    BY <1>3, FoldExists
<1>7. \A s \in SUBSET S : f[s] \in B
  <2> HIDE DEF pick, step
  <2> QED
    BY <1>3, <1>5, <1>6, FoldType, ZenonT(60)
<1>8. ASSUME NEW s \in SUBSET S, s # {} PROVE step[<<pick[s], f[s \ {pick[s]}]>>] = Merged(f[s \ {x(s)}], x(s))
  <2>1. x(s) \in S /\ f[s \ {x(s)}] \in B /\ pick[s] = x(s)
    BY <1>3, <1>7, <1>8
  <2> HIDE DEF x, pick
  <2> QED
    BY <2>1
<1>9. fits(f)
  <2> HIDE DEF pick, step, x
  <2> QED
    BY <1>6, <1>8 DEF Folding
<1>10. fits(iter)
  BY <1>9
<1> HIDE DEF iter
<1>11. Merging(iter, S, key)
  BY <1>10 DEF Merging
<1> QED
  BY <1>2, <1>3, <1>11

(* So the merged events of a run cover its events.                            *)
LEMMA DeduplicatedCovers ==
  ASSUME NEW S, IsFiniteSet(S), \A e \in S : Interpretation(e)
  PROVE  Covers(Deduplicated(S), S, S)
<1>1. PICK f, key : /\ Merging(f, S, key) /\ Deduplicated(S) = f[S]
                    /\ \A T \in SUBSET S : T # {} => Greatest(T, key) \in T
  BY MergingStep
<1>2. S \subseteq EventsOver(S)
  BY EventsAreOver
<1> DEFINE Good == {T \in SUBSET S : Covers(f[T], T, S)}
<1>3. ASSUME NEW T \in SUBSET S, \A U \in SUBSET T : U # T => U \in Good PROVE Covers(f[T], T, S)
  <2>1. CASE T = {}
    <3>1. f[T] = <<>>
      BY <1>1, <2>1 DEF Merging
    <3> DEFINE home == [x \in {} |-> 1]
    <3>2. Assigned(<<>>, {}, home)
      BY DEF Assigned
    <3> QED
      BY <2>1, <3>1, <3>2 DEF Covers
  <2>2. CASE T # {}
    <3>1. PICK g : g = Greatest(T, key)
      OBVIOUS
    <3> DEFINE R == T \ {g}
    <3>2. g \in T /\ f[T] = Merged(f[R], g)
      BY <1>1, <2>2, <3>1 DEF Merging
    <3>3. R \in SUBSET T /\ R # T /\ T = R \cup {g} /\ g \notin R
      BY <3>2
    <3>4. PICK m : m = f[R]
      OBVIOUS
    <3>5. Covers(m, R, S)
      BY <1>3, <3>3, <3>4
    <3>6. R \in SUBSET EventsOver(S) /\ g \in EventsOver(S)
      BY <1>2, <3>2, <3>3
    <3> HIDE DEF R
    <3>7. Covers(Merged(m, g), R \cup {g}, S)
      BY <3>3, <3>5, <3>6, MergedCovers
    <3> QED
      BY <3>2, <3>3, <3>4, <3>7
  <2> QED
    BY <2>1, <2>2
<1>4. \A T \in SUBSET S : (\A U \in SUBSET T : U # T => U \in Good) => T \in Good
  BY <1>3
<1>5. S \in Good
  <2> HIDE DEF Good
  <2> QED
    BY <1>4, SubsetInduction
<1> QED
  BY <1>1, <1>5

\* Each of the events counts in one of those that they were merged into, and that one is as
\* early as the earliest and says what the best of them says.
MergedOnce(S, m) ==
  LET parts(i) == {e \in S : e.evidence \subseteq m[i].evidence}
  IN /\ \A e \in S : Cardinality({i \in DOMAIN m : e \in parts(i)}) = 1
     /\ \A i \in DOMAIN m :
          /\ m[i].at = Min({e.at : e \in parts(i)})
          /\ \A d, e \in parts(i) : d.type = e.type /\ d.factors = e.factors
          /\ \E e \in parts(i) :
               /\ m[i].strength = e.strength /\ Quality(m[i]) = Quality(e)
               /\ \A d \in parts(i) : ~Before(Quality(e), Quality(d))

LEMMA CoveredOnce ==
  ASSUME NEW S, \A e \in S : Interpretation(e), Unshared(S), NEW m, Covers(m, S, S)
  PROVE  MergedOnce(S, m)
<1> DEFINE parts(i) == {e \in S : e.evidence \subseteq m[i].evidence}
<1>1. PICK home : Assigned(m, S, home)
  BY DEF Covers
<1>2. DOMAIN m = 1 .. Len(m)
  BY DEF Covers
<1>3. ASSUME NEW i \in 1 .. Len(m) PROVE parts(i) = {e \in S : home[e] = i}
  <2>1. m[i].evidence = UNION {e.evidence : e \in {e \in S : home[e] = i}}
    BY <1>1 DEF Assigned, Stands
  <2>2. ASSUME NEW e \in parts(i) PROVE home[e] = i
    <3>0. e \in S /\ e.evidence \subseteq m[i].evidence
      OBVIOUS
    <3>1. PICK w \in e.evidence : TRUE
      BY <3>0 DEF Unshared
    <3>2. w \in m[i].evidence
      BY <3>0, <3>1
    <3>3. PICK d \in S : home[d] = i /\ w \in d.evidence
      BY <2>1, <3>2
    <3>4. d = e
      BY <3>0, <3>1, <3>3 DEF Unshared
    <3> QED
      BY <3>3, <3>4
  <2>3. ASSUME NEW e \in S, home[e] = i PROVE e \in parts(i)
    BY <2>1, <2>3
  <2> QED
    BY <2>2, <2>3
<1>4. \A i \in 1 .. Len(m) : Stands(m[i], parts(i))
  BY <1>1, <1>3 DEF Assigned
<1>5. ASSUME NEW e \in S PROVE Cardinality({i \in DOMAIN m : e \in parts(i)}) = 1
  <2>1. home[e] \in 1 .. Len(m)
    BY <1>1 DEF Assigned
  <2>2. {i \in DOMAIN m : e \in parts(i)} = {home[e]}
    <3> HIDE DEF parts
    <3>1. \A i \in 1 .. Len(m) : e \in parts(i) <=> home[e] = i
      BY <1>3
    <3> QED
      BY <1>2, <2>1, <3>1
  <2> QED
    BY <2>2, FS_Singleton
<1>6. ASSUME NEW i \in DOMAIN m
      PROVE  /\ m[i].at = Min({e.at : e \in parts(i)})
             /\ \A d, e \in parts(i) : d.type = e.type /\ d.factors = e.factors
             /\ \E e \in parts(i) :
                      /\ m[i].strength = e.strength /\ Quality(m[i]) = Quality(e)
                      /\ \A d \in parts(i) : ~Before(Quality(e), Quality(d))
  <2>1. Stands(m[i], parts(i))
    BY <1>2, <1>4
  <2>2. \A e \in parts(i) : e.at \in Int
    BY DEF Interpretation
  <2>3. PICK P : P = parts(i)
    OBVIOUS
  <2>4. m[i].at = Min({e.at : e \in P})
    <3> DEFINE A == {e.at : e \in P}
    <3>1. A \subseteq Int /\ m[i].at \in A /\ \A a \in A : m[i].at <= a
      BY <2>1, <2>2, <2>3 DEF Stands
    <3> HIDE DEF A
    <3>2. PICK v : v = Min(A)
      OBVIOUS
    <3>3. v \in A /\ \A a \in A : v <= a
      BY <3>1, <3>2 DEF Min
    <3>4. v \in Int /\ m[i].at \in Int /\ v <= m[i].at /\ m[i].at <= v
      BY <3>1, <3>3
    <3>5. Min(A) = m[i].at
      BY <3>2, <3>4
    <3> QED
      BY <3>5 DEF A
  <2> HIDE DEF parts
  <2> QED
    BY <2>1, <2>3, <2>4 DEF Stands
<1> HIDE DEF parts
<1> QED
  BY <1>5, <1>6 DEF MergedOnce, parts

-----------------------------------------------------------------------------
(* Clusters.                                                                 *)

Feed(S) == IsFiniteSet(S) /\ \A h \in S : Headline(h)

Groups(S) == {G \in SUBSET S : G # {}}

(* The canonical headline of a group is one of it.                            *)
LEMMA CanonicalIn ==
  ASSUME NEW S, Feed(S), NEW G \in Groups(S)
  PROVE  Canonical(G) \in G
<1> DEFINE key == [d \in G |-> <<TierRank[d.tier], d.at, -d.title>>]
<1>0. G \subseteq S /\ G # {}
  BY DEF Groups
<1>1. IsFiniteSet(G) /\ G # {} /\ \A d \in G : Headline(d)
  BY <1>0, FS_Subset DEF Feed
<1>2. Keyed(G, key, 3)
  <2>1. \A tier \in DOMAIN TierRank : TierRank[tier] \in Int
    BY DEF TierRank
  <2> QED
    BY <1>1, <2>1 DEF Keyed, Headline
<1>3. Canonical(G) = Greatest(G, key)
  BY DEF Canonical
<1> HIDE DEF key
<1> QED
  BY <1>1, <1>2, <1>3, GreatestExists

LEMMA LatestSeen ==
  ASSUME NEW S, Feed(S), NEW G \in Groups(S)
  PROVE  LastSeen(G) \in Int /\ \E d \in G : LastSeen(G) = d.at
<1> DEFINE key == [d \in G |-> <<d.at>>]
           A == {d.at : d \in G}
<1>0. G \subseteq S /\ G # {}
  BY DEF Groups
<1>1. IsFiniteSet(G) /\ G # {} /\ \A d \in G : d.at \in Int
  BY <1>0, FS_Subset DEF Feed, Headline
<1>2. Keyed(G, key, 1)
  BY <1>1 DEF Keyed
<1>3. PICK g \in G : \A y \in G : ~Before(key[g], key[y])
  <2> HIDE DEF key
  <2> QED
    BY <1>1, <1>2, GreatestExists
<1>4. ASSUME NEW y \in G PROVE y.at <= g.at
  <2>1. ~Before(<<g.at>>, <<y.at>>)
    BY <1>3
  <2>2. ~(g.at < y.at)
    BY <2>1 DEF Before
  <2> QED
    BY <1>1, <2>2
<1>5. g.at \in A /\ A \subseteq Int /\ \A a \in A : a <= g.at
  BY <1>1, <1>4
<1> HIDE DEF A
<1>6. PICK v : v = Max(A)
  OBVIOUS
<1>7. v \in A
  BY <1>5, <1>6 DEF Max
<1>8. LastSeen(G) = v
  BY <1>6 DEF LastSeen, A
<1> QED
  BY <1>5, <1>7, <1>8 DEF A

(* The index of the group that a headline joins, 0 for none.                  *)
LEMMA BestGroupType ==
  ASSUME NEW S, Feed(S), NEW groups \in Seq(Groups(S)), NEW d \in S
  PROVE  BestGroup(groups, d) \in 0 .. Len(groups)
<1> DEFINE near == {i \in DOMAIN groups : /\ Apart(d.at, Canonical(groups[i]).at) <= MaxGap
                                          /\ Alike(d.title, Canonical(groups[i]).title)}
           score(i) == Similarity(d.title, Canonical(groups[i]).title)
           best == {i \in near : \A j \in near : score(j) <= score(i)}
           scores == {score(i) : i \in near}
<1>1. CASE near = {}
  BY <1>1 DEF BestGroup
<1>2. CASE near # {}
  <2>1. ASSUME NEW i \in near PROVE score(i) \in Nat /\ score(i) <= 2
    <3>1. Canonical(groups[i]).title \in Int /\ d.title \in Int
      BY CanonicalIn, SMTT(30) DEF Groups, Feed, Headline
    <3> QED
      BY <3>1 DEF Similarity, Apart
  <2>2. scores \subseteq Nat /\ scores # {} /\ \A v \in scores : v <= 2
    BY <1>2, <2>1
  <2>3. PICK v \in scores : \A w \in scores : w <= v
    <3> HIDE DEF scores
    <3> QED
      BY <2>2, BoundedHasMax
  <2>4. PICK i \in near : score(i) = v
    BY <2>3
  <2>5. i \in best
    BY <2>3, <2>4
  <2>6. best \subseteq DOMAIN groups /\ best # {}
    BY <2>5
  <2>7. BestGroup(groups, d) = Min(best)
    BY <1>2 DEF BestGroup
  <2> HIDE DEF best
  <2>8. Min(best) \in best
    BY <2>6, LeastIndex
  <2> QED
    BY <2>6, <2>7, <2>8
<1> QED
  BY <1>1, <1>2

\* Groups that share nothing and leave nothing of T out.
Parted(groups, T, S) ==
  /\ groups \in Seq(Groups(S))
  /\ \A i \in 1 .. Len(groups) : groups[i] \subseteq T
  /\ \A d \in T : \E i \in 1 .. Len(groups) : d \in groups[i]
  /\ \A i, j \in 1 .. Len(groups) : i # j => groups[i] \cap groups[j] = {}

LEMMA JoinedType ==
  ASSUME NEW S, Feed(S), NEW groups \in Seq(Groups(S)), NEW d \in S
  PROVE  Joined(groups, d) \in Seq(Groups(S))
<1>1. {d} \in Groups(S)
  BY DEF Groups
<1>2. PICK k : k = BestGroup(groups, d)
  OBVIOUS
<1>3. k \in 0 .. Len(groups)
  BY <1>2, BestGroupType
<1>4. CASE k = 0
  BY <1>1, <1>2, <1>4 DEF Joined
<1>5. CASE k # 0
  <2>1. k \in 1 .. Len(groups) /\ Joined(groups, d) = [groups EXCEPT ![k] = groups[k] \cup {d}]
    BY <1>2, <1>3, <1>5 DEF Joined
  <2>2. PICK G : G = groups[k] \cup {d}
    OBVIOUS
  <2>3. G \in Groups(S)
    <3>1. groups[k] \in Groups(S)
      BY <2>1
    <3> QED
      BY <2>2, <3>1 DEF Groups
  <2> QED
    BY <2>1, <2>2, <2>3
<1> QED
  BY <1>4, <1>5

LEMMA JoinedParts ==
  ASSUME NEW S, Feed(S), NEW R \in SUBSET S, NEW d \in S, d \notin R, NEW groups, Parted(groups, R, S)
  PROVE  Parted(Joined(groups, d), R \cup {d}, S)
<1>1. groups \in Seq(Groups(S)) /\ Len(groups) \in Nat
  BY DEF Parted
<1>2. PICK n : n = Joined(groups, d)
  OBVIOUS
<1>3. n \in Seq(Groups(S))
  BY <1>1, <1>2, JoinedType
<1>4. CASE n = Append(groups, {d})
  <2>1. Len(n) = Len(groups) + 1 /\ n[Len(n)] = {d} /\ \A i \in 1 .. Len(groups) : n[i] = groups[i]
    BY <1>1, <1>4
  <2>2. \A i \in 1 .. Len(n) : i = Len(n) \/ i \in 1 .. Len(groups)
    BY <1>1, <2>1
  <2>3. \A i \in 1 .. Len(n) : n[i] \subseteq R \cup {d}
    BY <2>1, <2>2 DEF Parted
  <2>4. \A e \in R \cup {d} : \E i \in 1 .. Len(n) : e \in n[i]
    <3>1. Len(n) \in 1 .. Len(n) /\ \A i \in 1 .. Len(groups) : i \in 1 .. Len(n)
      BY <1>1, <2>1
    <3> QED
      BY <2>1, <3>1 DEF Parted
  <2>5. ASSUME NEW i \in 1 .. Len(n), NEW j \in 1 .. Len(n), i # j PROVE n[i] \cap n[j] = {}
    <3>1. \A k \in 1 .. Len(groups) : d \notin groups[k]
      BY DEF Parted
    <3> QED
      BY <2>1, <2>2, <2>5, <3>1 DEF Parted
  <2> QED
    BY <1>2, <1>3, <2>3, <2>4, <2>5 DEF Parted
<1>5. CASE \E k \in 1 .. Len(groups) : n = [groups EXCEPT ![k] = groups[k] \cup {d}]
  <2>1. PICK k \in 1 .. Len(groups) : n = [groups EXCEPT ![k] = groups[k] \cup {d}]
    BY <1>5
  <2>2. Len(n) = Len(groups) /\ n[k] = groups[k] \cup {d} /\ \A i \in 1 .. Len(groups) : i # k => n[i] = groups[i]
    BY <1>1, <2>1
  <2>3. \A i \in 1 .. Len(n) : n[i] \subseteq R \cup {d}
    BY <2>2 DEF Parted
  <2>4. \A e \in R \cup {d} : \E i \in 1 .. Len(n) : e \in n[i]
    BY <2>1, <2>2 DEF Parted
  <2>5. ASSUME NEW i \in 1 .. Len(n), NEW j \in 1 .. Len(n), i # j PROVE n[i] \cap n[j] = {}
    <3>1. \A x \in 1 .. Len(groups) : d \notin groups[x]
      BY DEF Parted
    <3>2. groups[i] \cap groups[j] = {}
      BY <2>2, <2>5 DEF Parted
    <3> QED
      BY <2>2, <2>5, <3>1, <3>2
  <2> QED
    BY <1>2, <1>3, <2>3, <2>4, <2>5 DEF Parted
<1>6. PICK k : k = BestGroup(groups, d)
  OBVIOUS
<1>7. k \in 0 .. Len(groups)
  BY <1>1, <1>6, BestGroupType
<1>8. CASE k = 0
  <2>1. n = Append(groups, {d})
    BY <1>2, <1>6, <1>8 DEF Joined
  <2> QED
    BY <1>4, <2>1
<1>9. CASE k # 0
  <2>1. k \in 1 .. Len(groups) /\ n = [groups EXCEPT ![k] = groups[k] \cup {d}]
    BY <1>2, <1>6, <1>7, <1>9 DEF Joined
  <2> QED
    BY <1>5, <2>1
<1> QED
  BY <1>8, <1>9

\* Clustering, one headline at a time.
Clustering(f, S, key) ==
  \A T \in SUBSET S : f[T] = IF T = {} THEN <<>>
                            ELSE Joined(f[T \ {Greatest(T, key)}], Greatest(T, key))

LEMMA ClusteringStep ==
  ASSUME NEW S, Feed(S)
  PROVE  \E f, key : /\ Clustering(f, S, key) /\ Clusters(S) = f[S]
                     /\ \A T \in SUBSET S : T # {} => Greatest(T, key) \in T
<1> DEFINE key == [d \in S |-> <<d.at, d.title>>]
           B == Seq(Groups(S))
           x(s) == Greatest(s, key)
           fits(f) == f = [s \in SUBSET S |-> IF s = {} THEN <<>> ELSE Joined(f[s \ {x(s)}], x(s))]
           iter == CHOOSE f : fits(f)
           pick == [s \in SUBSET S |-> x(s)]
           step == [p \in S \X B |-> Joined(p[2], p[1])]
<1>0. IsFiniteSet(S) /\ \A d \in S : d.at \in Int /\ d.title \in Int
  BY DEF Feed, Headline
<1>1. Keyed(S, key, 2)
  BY <1>0 DEF Keyed
<1> HIDE DEF key
<1>2. Clusters(S) = iter[S]
  BY Zenon DEF Clusters, InOrder, MapThenFoldSet, key
<1>3. \A s \in SUBSET S : s # {} => x(s) \in s /\ pick[s] = x(s)
  BY <1>0, <1>1, GreatestExists
<1>5. step \in [S \X B -> B] /\ <<>> \in B
  <2>1. ASSUME NEW p \in S \X B PROVE Joined(p[2], p[1]) \in B
    BY JoinedType
  <2>2. <<>> \in B
    OBVIOUS
  <2> HIDE DEF B
  <2> QED
    BY <2>1, <2>2
<1> HIDE DEF B
<1>6. PICK f : Folding(f, pick, step, <<>>, S)
  <2> HIDE DEF pick, step
  <2> QED
    BY <1>0, <1>3, FoldExists
<1>7. \A s \in SUBSET S : f[s] \in B
  <2> HIDE DEF pick, step
  <2> QED
    BY <1>0, <1>3, <1>5, <1>6, FoldType, ZenonT(60)
<1>8. ASSUME NEW s \in SUBSET S, s # {} PROVE step[<<pick[s], f[s \ {pick[s]}]>>] = Joined(f[s \ {x(s)}], x(s))
  <2>1. x(s) \in S /\ f[s \ {x(s)}] \in B /\ pick[s] = x(s)
    BY <1>3, <1>7, <1>8
  <2> HIDE DEF x, pick
  <2> QED
    BY <2>1
<1>9. fits(f)
  <2> HIDE DEF pick, step, x
  <2> QED
    BY <1>6, <1>8 DEF Folding
<1>10. fits(iter)
  BY <1>9
<1> HIDE DEF iter
<1>11. Clustering(iter, S, key)
  BY <1>10 DEF Clustering
<1> QED
  BY <1>2, <1>3, <1>11

LEMMA ClustersPart ==
  ASSUME NEW S, Feed(S)
  PROVE  Parted(Clusters(S), S, S)
<1>1. PICK f, key : /\ Clustering(f, S, key) /\ Clusters(S) = f[S]
                    /\ \A T \in SUBSET S : T # {} => Greatest(T, key) \in T
  BY ClusteringStep
<1> DEFINE Good == {T \in SUBSET S : Parted(f[T], T, S)}
<1>3. ASSUME NEW T \in SUBSET S, \A U \in SUBSET T : U # T => U \in Good PROVE Parted(f[T], T, S)
  <2>1. CASE T = {}
    <3>1. f[T] = <<>>
      BY <1>1, <2>1 DEF Clustering
    <3> QED
      BY <2>1, <3>1 DEF Parted
  <2>2. CASE T # {}
    <3>1. PICK g : g = Greatest(T, key)
      OBVIOUS
    <3> DEFINE R == T \ {g}
    <3>2. g \in T /\ f[T] = Joined(f[R], g)
      BY <1>1, <2>2, <3>1 DEF Clustering
    <3>3. R \in SUBSET T /\ R # T /\ T = R \cup {g} /\ g \notin R /\ R \in SUBSET S /\ g \in S
      BY <3>2
    <3>4. PICK m : m = f[R]
      OBVIOUS
    <3>5. Parted(m, R, S)
      BY <1>3, <3>3, <3>4
    <3> HIDE DEF R
    <3>7. Parted(Joined(m, g), R \cup {g}, S)
      BY <3>3, <3>5, JoinedParts
    <3> QED
      BY <3>2, <3>3, <3>4, <3>7
  <2> QED
    BY <2>1, <2>2
<1>4. \A T \in SUBSET S : (\A U \in SUBSET T : U # T => U \in Good) => T \in Good
  BY <1>3
<1>5. S \in Good
  <2>1. IsFiniteSet(S)
    BY DEF Feed
  <2> HIDE DEF Good
  <2> QED
    BY <1>4, <2>1, SubsetInduction
<1> QED
  BY <1>1, <1>5

(* The groups are as many as the sets they are.                               *)
LEMMA PartsCounted ==
  ASSUME NEW S, NEW T, NEW groups, Parted(groups, T, S)
  PROVE  IsFiniteSet(Range(groups)) /\ Cardinality(Range(groups)) = Len(groups)
<1>1. groups \in Seq(Groups(S)) /\ Len(groups) \in Nat /\ DOMAIN groups = 1 .. Len(groups)
  BY DEF Parted
<1>2. groups \in [1 .. Len(groups) -> Range(groups)]
  BY <1>1 DEF Range
<1>3. ASSUME NEW i \in 1 .. Len(groups), NEW j \in 1 .. Len(groups), groups[i] = groups[j] PROVE i = j
  <2>1. groups[i] # {}
    BY <1>1 DEF Groups
  <2> QED
    BY <1>3, <2>1 DEF Parted
<1>4. \A G \in Range(groups) : \E i \in 1 .. Len(groups) : groups[i] = G
  BY <1>1 DEF Range
<1>5. groups \in Bijection(1 .. Len(groups), Range(groups))
  BY <1>2, <1>3, <1>4 DEF Bijection, Injection, Surjection, IsInjective
<1>6. ExistsBijection(1 .. Len(groups), Range(groups))
  BY <1>5 DEF ExistsBijection
<1> QED
  BY <1>1, <1>6, FS_NatBijection, FS_CountingElements

LEMMA PriorityType ==
  ASSUME NEW S, Feed(S), NEW G \in Groups(S)
  PROVE  Priority(G) \in [1 .. 3 -> Int]
<1>0. G \subseteq S /\ G # {} /\ IsFiniteSet(G)
  BY FS_Subset DEF Groups, Feed
<1>1. Cardinality(G) \in Int
  BY <1>0, FS_CardinalityType
<1>2. TierRank[Canonical(G).tier] \in Int
  <2>1. Canonical(G) \in S
    BY <1>0, CanonicalIn
  <2> QED
    BY <2>1 DEF TierRank, Feed, Headline
<1>3. LastSeen(G) \in Int
  BY LatestSeen
<1> QED
  BY <1>1, <1>2, <1>3 DEF Priority

(* A group of one headline is as good as the headline, and one of the same    *)
(* priority or a lower one that is not preferred is of one headline, too.     *)
LEMMA SinglePriority ==
  ASSUME NEW S, Feed(S), NEW d \in S
  PROVE  Priority({d}) = <<1, TierRank[d.tier], d.at>>
<1>1. {d} \in Groups(S)
  BY DEF Groups
<1>2. Canonical({d}) = d
  BY <1>1, CanonicalIn
<1>3. LastSeen({d}) = d.at
  BY <1>1, LatestSeen
<1> QED
  BY <1>2, <1>3, FS_Singleton DEF Priority

LEMMA DroppedIsWorse ==
  ASSUME NEW S, Feed(S), NEW k \in S, NEW d \in S, NEW G \in Groups(S), d \in G,
         ~Before(Priority({k}), Priority(G))
  PROVE  ~Before(<<TierRank[k.tier], k.at>>, <<TierRank[d.tier], d.at>>)
<1>0. G \subseteq S /\ G # {} /\ IsFiniteSet(G)
  BY FS_Subset DEF Groups, Feed
<1>1. Priority({k}) = <<1, TierRank[k.tier], k.at>>
  BY SinglePriority
<1>2. Priority(G)[1] = Cardinality(G) /\ Cardinality(G) \in Nat
  BY <1>0, FS_CardinalityType DEF Priority
<1>3. ~(1 < Cardinality(G))
  <2>1. CASE 1 < Cardinality(G)
    <3>1. Priority({k})[1] < Priority(G)[1] /\ 1 \in DOMAIN Priority({k})
      BY <1>1, <1>2, <2>1
    <3>2. Before(Priority({k}), Priority(G))
      BY <3>1 DEF Before
    <3> QED
      BY <3>2
  <2> QED
    BY <2>1
<1>4. G = {d}
  <2>1. Cardinality(G) = 1
    <3>1. Cardinality(G) # 0
      BY <1>0, FS_EmptySet
    <3> QED
      BY <1>2, <1>3, <3>1
  <2> QED
    BY <1>0, <2>1, FS_Singleton
<1>5. Priority(G) = <<1, TierRank[d.tier], d.at>>
  BY <1>4, SinglePriority
<1>6. PICK a, b, e, f : a = TierRank[k.tier] /\ b = k.at /\ e = TierRank[d.tier] /\ f = d.at
  OBVIOUS
<1>7. ~Before(<<1, a, b>>, <<1, e, f>>)
  BY <1>1, <1>5, <1>6
<1>8. ~(a < e) /\ ~(b < f /\ a = e)
  <2> DEFINE s == <<1, a, b>>
             t == <<1, e, f>>
  <2>1. CASE a < e
    <3>1. s[2] < t[2] /\ \A j \in 1 .. 2 - 1 : s[j] = t[j]
      BY <2>1
    <3>2. 2 \in DOMAIN s
      OBVIOUS
    <3>3. Before(s, t)
      BY <3>1, <3>2 DEF Before
    <3> QED
      BY <1>7, <3>3
  <2>2. CASE b < f /\ a = e
    <3>1. s[3] < t[3] /\ \A j \in 1 .. 3 - 1 : s[j] = t[j]
      BY <2>2
    <3>2. 3 \in DOMAIN s
      OBVIOUS
    <3>3. Before(s, t)
      BY <3>1, <3>2 DEF Before
    <3> QED
      BY <1>7, <3>3
  <2> QED
    BY <2>1, <2>2
<1>9. ~Before(<<a, b>>, <<e, f>>)
  BY <1>8 DEF Before
<1> QED
  BY <1>6, <1>9

\* What the event graphs get: each headline at most once, all of them while the budget lasts,
\* and no single one that is worse than one that is left out.
GivenOnce(S, groups) ==
  LET kept == UNION {groups[i] : i \in DOMAIN groups}
  IN /\ \A i, j \in DOMAIN groups : i # j => groups[i] \cap groups[j] = {}
     /\ Len(groups) <= ClusterBudget
     /\ Len(groups) < ClusterBudget => kept = S
     /\ \A d \in S \ kept, i \in DOMAIN groups : \A k \in groups[i] :
          groups[i] = {k} => ~Before(<<TierRank[k.tier], k.at>>, <<TierRank[d.tier], d.at>>)

LEMMA ClustersDistributed ==
  ASSUME NEW S, Feed(S), NEW result, result = ClustersFor(S)
  PROVE  GivenOnce(S, result)
<1> DEFINE kept == UNION {result[i] : i \in DOMAIN result}
<1>1. PICK groups : groups = Clusters(S)
  OBVIOUS
<1>2. Parted(groups, S, S)
  BY <1>1, ClustersPart
<1>3. groups \in Seq(Groups(S)) /\ Len(groups) \in Nat /\ DOMAIN groups = 1 .. Len(groups)
  BY <1>2 DEF Parted
<1>4. ClusterBudget \in Nat /\ ClusterBudget > 0
  BY NewsAssumption
<1>5. CASE Len(groups) <= ClusterBudget
  <2>1. result = groups
    BY <1>1, <1>5 DEF ClustersFor
  <2>2. kept = S
    BY <1>2, <1>3, <2>1 DEF Parted
  <2>3. \A i, j \in DOMAIN result : i # j => result[i] \cap result[j] = {}
    BY <1>2, <1>3, <2>1 DEF Parted
  <2> HIDE DEF kept
  <2>4. S \ kept = {}
    BY <2>2
  <2> QED
    BY <1>5, <2>1, <2>2, <2>3, <2>4 DEF GivenOnce, kept
<1>6. CASE ~(Len(groups) <= ClusterBudget)
  <2> DEFINE key == [G \in Range(groups) |-> Priority(G)]
  <2>1. IsFiniteSet(Range(groups)) /\ Cardinality(Range(groups)) = Len(groups)
    BY <1>2, PartsCounted
  <2>2. Range(groups) \subseteq Groups(S)
    BY <1>3 DEF Range
  <2>3. Keyed(Range(groups), key, 3)
    BY <2>2, PriorityType DEF Keyed
  <2>4. PICK D : D = Descending(Range(groups), key)
    OBVIOUS
  <2>5. Lists(D, Range(groups), key)
    <3> HIDE DEF key
    <3> QED
      BY <2>1, <2>3, <2>4, DescendingLists
  <2>6. result = SubSeq(D, 1, ClusterBudget)
    BY <1>1, <1>6, <2>4 DEF ClustersFor, Budgeted
  <2>7. D \in Seq(Range(groups)) /\ Len(D) = Len(groups) /\ Len(D) > ClusterBudget
    BY <1>3, <1>4, <1>6, <2>1, <2>5 DEF Lists
  <2>8. result \in Seq(Range(groups)) /\ Len(result) = ClusterBudget
        /\ \A i \in 1 .. ClusterBudget : result[i] = D[i]
    <3>1. \A i \in 1 .. ClusterBudget : D[i] \in Range(groups)
      BY <1>3, <1>4, <2>7
    <3>2. \A i \in 1 .. ClusterBudget : 1 + i - 1 = i
      OBVIOUS
    <3>3. ClusterBudget - 1 + 1 = ClusterBudget /\ 1 <= ClusterBudget /\ ClusterBudget \in Int
      BY <1>4
    <3> QED
      BY <2>6, <3>1, <3>2, <3>3, SubSeqProperties
  <2>9. DOMAIN result = 1 .. ClusterBudget /\ \A i \in 1 .. ClusterBudget : i \in 1 .. Len(D)
    BY <1>3, <1>4, <2>7, <2>8
  <2>10. ASSUME NEW G \in Range(groups), NEW H \in Range(groups), G # H PROVE G \cap H = {}
    <3>1. PICK i \in 1 .. Len(groups), j \in 1 .. Len(groups) : G = groups[i] /\ H = groups[j]
      BY <1>3 DEF Range
    <3> QED
      BY <1>2, <2>10, <3>1 DEF Parted
  <2>11. ASSUME NEW i \in 1 .. ClusterBudget, NEW j \in 1 .. ClusterBudget, i # j
         PROVE  result[i] \cap result[j] = {}
    <3>1. D[i] # D[j]
      <4>1. i < j \/ j < i
        BY <2>11
      <4> QED
        BY <2>5, <2>9, <4>1 DEF Lists
    <3>2. D[i] \in Range(groups) /\ D[j] \in Range(groups)
      BY <2>7, <2>9
    <3> QED
      BY <2>8, <2>10, <3>1, <3>2
  <2>12. ASSUME NEW d \in S \ kept, NEW i \in 1 .. ClusterBudget, NEW k \in result[i], result[i] = {k}
         PROVE  ~Before(<<TierRank[k.tier], k.at>>, <<TierRank[d.tier], d.at>>)
    <3>1. PICK n \in 1 .. Len(groups) : d \in groups[n]
      BY <1>2 DEF Parted
    <3>2. PICK G : G = groups[n]
      OBVIOUS
    <3>3. G \in Range(groups) /\ G \in Groups(S) /\ d \in G
      BY <1>3, <2>2, <3>1, <3>2 DEF Range
    <3>4. PICK j \in 1 .. Len(D) : D[j] = G
      BY <2>5, <3>3 DEF Lists
    <3>5. j \notin 1 .. ClusterBudget
      <4>1. CASE j \in 1 .. ClusterBudget
        <5>1. G = result[j] /\ j \in DOMAIN result
          BY <2>8, <2>9, <3>4, <4>1
        <5>2. d \in kept
          BY <3>3, <5>1
        <5> QED
          BY <5>2
      <4> QED
        BY <4>1
    <3>6. i < j /\ i \in 1 .. Len(D)
      BY <1>3, <1>4, <2>7, <2>9, <3>5
    <3>7. ~Before(key[D[i]], key[D[j]])
      BY <2>5, <3>6 DEF Lists
    <3>8. D[i] = {k} /\ {k} \in Range(groups) /\ {k} \in Groups(S)
      <4>1. D[i] = {k}
        BY <2>8, <2>12
      <4>2. D[i] \in Range(groups)
        BY <2>7, <3>6
      <4> QED
        BY <2>2, <4>1, <4>2
    <3>9. k \in S
      BY <3>8 DEF Groups
    <3>10. key[D[i]] = Priority({k}) /\ key[D[j]] = Priority(G)
      BY <3>3, <3>4, <3>8
    <3>11. ~Before(Priority({k}), Priority(G))
      BY <3>7, <3>10
    <3> QED
      BY <3>3, <3>9, <3>11, DroppedIsWorse
  <2> HIDE DEF kept, key
  <2>13. Len(result) <= ClusterBudget /\ ~(Len(result) < ClusterBudget)
    BY <1>4, <2>8
  <2> QED
    BY <2>9, <2>11, <2>12, <2>13 DEF GivenOnce, kept
<1> QED
  BY <1>5, <1>6

(* What the provider hands over is of the feed.                               *)
LEMMA FetchedIsFed ==
  ASSUME NEW S, Feed(S), NEW asOf
  PROVE  Feed(FetchNews(S, asOf))
<1> DEFINE candidates == {h \in S : /\ asOf - Lookback <= h.at /\ h.at <= asOf
                                   /\ h.relevance >= 1}
           key == [h \in candidates |-> <<h.relevance, h.at>>]
<1>1. candidates \subseteq S /\ IsFiniteSet(candidates)
  BY FS_Subset DEF Feed
<1>2. Keyed(candidates, key, 2)
  BY DEF Keyed, Feed, Headline
<1>3. PICK ranked : ranked = Descending(candidates, key)
  OBVIOUS
<1>4. FetchNews(S, asOf) = {ranked[i] : i \in DOMAIN ranked \cap 1 .. MaxDocuments}
  BY <1>3 DEF FetchNews
<1> HIDE DEF candidates, key
<1>5. ranked \in Seq(candidates)
  BY <1>1, <1>2, <1>3, DescendingLists DEF Lists
<1>6. FetchNews(S, asOf) \subseteq S
  BY <1>1, <1>4, <1>5
<1> QED
  BY <1>6, FS_Subset DEF Feed

NewsComputed ==
  /\ subject = "clusters" =>
       answer = ClustersFor(input) /\ \E feed \in Feeds, asOf \in Cutoffs : input = FetchNews(feed, asOf)
  /\ subject = "events" => input \in EventSets /\ answer = Deduplicated(input)

LEMMA NewsInvariant == ComputationsSpec => []NewsComputed
<1>1. ComputationsInit => NewsComputed
  BY DEF ComputationsInit, NewsComputed
<1>2. NewsComputed /\ [ComputationsNext]_computationVars => NewsComputed'
  <2> SUFFICES ASSUME NewsComputed, [ComputationsNext]_computationVars
               PROVE  NewsComputed'
    OBVIOUS
  <2>1. CASE CalculateFactor \/ ComputeFeature \/ ScoreAsset
    BY <2>1 DEF CalculateFactor, ComputeFeature, ScoreAsset, NewsComputed
  <2>2. CASE ClusterFeed
    BY <2>2 DEF ClusterFeed, NewsComputed
  <2>3. CASE MergeEvents
    BY <2>3 DEF MergeEvents, NewsComputed
  <2>4. CASE UNCHANGED computationVars
    BY <2>4 DEF computationVars, NewsComputed
  <2> QED
    BY <2>1, <2>2, <2>3, <2>4 DEF ComputationsNext
<1> QED
  BY <1>1, <1>2, PTL DEF ComputationsSpec

\* For any feed, cut-off, window, budget and set of interpretations: every headline reaches at
\* most one event graph and, within the budget, exactly one; and merged events count each
\* interpretation once, with the best one's impact, in whatever order they arrive.
THEOREM NothingCountsTwice == ComputationsSpec => []EventsMergeOnce
<1>1. NewsComputed => EventsMergeOnce
  <2> SUFFICES ASSUME NewsComputed PROVE EventsMergeOnce
    OBVIOUS
  <2>1. ASSUME subject = "clusters" PROVE GivenOnce(input, answer)
    <3>1. PICK feed \in Feeds, asOf \in Cutoffs : input = FetchNews(feed, asOf)
      BY <2>1 DEF NewsComputed
    <3>2. Feed(feed)
      BY ComputationsAssumption DEF Feed
    <3>3. PICK S : S = input
      OBVIOUS
    <3>4. Feed(S)
      BY <3>1, <3>2, <3>3, FetchedIsFed
    <3>5. PICK a : a = answer
      OBVIOUS
    <3>6. a = ClustersFor(S)
      BY <2>1, <3>3, <3>5 DEF NewsComputed
    <3> QED
      BY <3>3, <3>4, <3>5, <3>6, ClustersDistributed
  <2>2. ASSUME subject = "events" PROVE MergedOnce(input, answer)
    <3>1. PICK S \in EventSets : S = input
      BY <2>2 DEF NewsComputed
    <3>2. IsFiniteSet(S) /\ Unshared(S) /\ \A e \in S : Interpretation(e)
      BY ComputationsAssumption
    <3>3. PICK a : a = answer
      OBVIOUS
    <3>4. Covers(a, S, S)
      BY <2>2, <3>1, <3>2, <3>3, DeduplicatedCovers DEF NewsComputed
    <3> QED
      BY <3>1, <3>2, <3>3, <3>4, CoveredOnce
  <2> QED
    BY <2>1, <2>2 DEF EventsMergeOnce, GivenOnce, MergedOnce
<1> QED
  BY <1>1, NewsInvariant, PTL

-----------------------------------------------------------------------------
(* Quotients rounded towards zero.                                           *)
LEMMA AbsFacts ==
    ASSUME NEW v \in Int
    PROVE  /\ Abs(v) \in Nat /\ -Abs(v) <= v /\ v <= Abs(v) /\ Abs(-v) = Abs(v)
           /\ v >= 0 => Abs(v) = v
  BY DEF Abs

LEMMA RatioBounded ==
    ASSUME NEW n \in Int, NEW d \in Nat, NEW k \in Nat, -(k * d) <= n, n <= k * d
    PROVE  Ratio(n, d) \in Int /\ -k <= Ratio(n, d) /\ Ratio(n, d) <= k
<1>1. CASE d = 0
  BY <1>1 DEF Ratio
<1>2. CASE d # 0 /\ n < 0
  <2>1. d \in Nat \ {0} /\ -n \in Int
    BY <1>2
  <2>2. k * d \in Nat
    BY Z3
  <2>3. -(k * d) <= -n /\ -n <= k * d
    BY <2>2
  <2>4. (-n) \div d \in Int /\ -k <= (-n) \div d /\ (-n) \div d <= k
    BY <2>1, <2>3, QuotientBetween
  <2>5. Ratio(n, d) = -((-n) \div d)
    BY <1>2 DEF Ratio
  <2> QED
    BY <2>4, <2>5
<1>3. CASE d # 0 /\ ~(n < 0)
  <2>1. d \in Nat \ {0}
    BY <1>3
  <2>2. n \div d \in Int /\ -k <= n \div d /\ n \div d <= k
    BY <2>1, QuotientBetween
  <2>3. Ratio(n, d) = n \div d
    BY <1>3 DEF Ratio
  <2> QED
    BY <2>2, <2>3
<1> QED
  BY <1>1, <1>2, <1>3

LEMMA RatioType ==
    ASSUME NEW n \in Int, NEW d \in Nat
    PROVE  Ratio(n, d) \in Int /\ (n >= 0 => Ratio(n, d) \in Nat) /\ (n = 0 => Ratio(n, d) = 0)
<1>1. CASE d = 0
  <2>1. Ratio(n, d) = 0
    BY <1>1, Zenon DEF Ratio
  <2> QED
    BY <2>1
<1>2. CASE d # 0
  <2>1. d \in Nat \ {0}
    BY <1>2
  <2>2. (-n) \div d \in Int /\ n \div d \in Int /\ (n >= 0 => n \div d \in Nat) /\ 0 \div d = 0
    BY <2>1
  <2> QED
    BY <1>2, <2>2 DEF Ratio
<1> QED
  BY <1>1, <1>2

LEMMA NothingNegated == \A z \in Int : z = 0 => -z = 0
<1>1. ASSUME NEW z \in Int, z <= 0, 0 <= z
      PROVE  -z = 0
  BY <1>1
<1>2. \A z \in Int : z = 0 => z <= 0 /\ 0 <= z
  OBVIOUS
<1> QED
  BY <1>1, <1>2

LEMMA RatioNegated ==
    ASSUME NEW n \in Int, NEW d \in Nat
    PROVE  Ratio(-n, d) = -Ratio(n, d)
<1>1. CASE d = 0
  <2>1. Ratio(-n, d) = 0 /\ Ratio(n, d) = 0
    BY <1>1, Zenon DEF Ratio
  <2>2. Ratio(n, d) \in Int
    BY RatioType
  <2> QED
    BY <2>1, <2>2, NothingNegated
<1>2. CASE d # 0 /\ n < 0
  <2>1. ~(-n < 0) /\ (-n) \div d \in Int
    BY <1>2
  <2> QED
    BY <1>2, <2>1 DEF Ratio
<1>3. CASE d # 0 /\ n > 0
  <2>1. -n < 0 /\ -(-n) = n /\ ~(n < 0) /\ n \div d \in Int
    BY <1>3
  <2> QED
    BY <1>3, <2>1 DEF Ratio
<1>4. CASE n = 0
  <2>1. -n \in Int /\ -n = 0
    BY <1>4, NothingNegated
  <2>2. Ratio(n, d) = 0 /\ Ratio(-n, d) = 0 /\ Ratio(n, d) \in Int
    BY <1>4, <2>1, RatioType
  <2> QED
    BY <2>2, NothingNegated
<1> QED
  BY <1>1, <1>2, <1>3, <1>4

LEMMA RatioOrder ==
    ASSUME NEW n \in Int, NEW m \in Int, n <= m, NEW d \in Nat
    PROVE  Ratio(n, d) <= Ratio(m, d)
<1>1. CASE d = 0
  BY <1>1 DEF Ratio
<1>2. CASE d # 0 /\ n < 0 /\ m < 0
  <2>1. d \in Nat \ {0} /\ -m \in Nat /\ -n \in Nat /\ -m <= -n
    BY <1>2
  <2>2. (-m) \div d <= (-n) \div d /\ (-m) \div d \in Nat /\ (-n) \div d \in Nat
    BY <2>1, DivisionMonotone
  <2> QED
    BY <1>2, <2>2 DEF Ratio
<1>3. CASE d # 0 /\ n < 0 /\ ~(m < 0)
  <2>1. Ratio(n, d) = -Ratio(-n, d) /\ Ratio(-n, d) \in Nat /\ Ratio(m, d) \in Nat
    BY <1>3, RatioNegated, RatioType
  <2> QED
    BY <2>1
<1>4. CASE d # 0 /\ ~(n < 0)
  <2>1. d \in Nat \ {0} /\ n \in Nat /\ m \in Nat /\ ~(m < 0)
    BY <1>4
  <2>2. n \div d <= m \div d
    BY <2>1, DivisionMonotone
  <2> QED
    BY <1>4, <2>1, <2>2 DEF Ratio
<1> QED
  BY <1>1, <1>2, <1>3, <1>4

(* A share of something changes by no more than what it is a share of.        *)
LEMMA RatioSlack ==
    ASSUME NEW n \in Int, NEW t \in Nat, -t <= n, n <= t, NEW p \in Nat, NEW q \in Nat, NEW d \in Nat,
           p <= q + d, q <= p + d
    PROVE  Ratio(n * p, t) - d <= Ratio(n * q, t)
<1>1. ASSUME NEW m \in Nat, m <= t, t # 0, NEW x \in Nat, NEW y \in Nat, x <= y + d
      PROVE  /\ Ratio(m * x, t) = (m * x) \div t /\ (m * x) \div t \in Int /\ (m * y) \div t \in Int
             /\ (m * x) \div t <= (m * y) \div t + d
  <2>1. m * x \in Nat /\ m * y \in Nat /\ t * d \in Nat /\ t \in Nat \ {0}
    BY <1>1, Z3
  <2>2. m * x <= m * y + t * d
    <3>1. m * x <= m * (y + d)
      BY <1>1, Z3
    <3>2. m * (y + d) = m * y + m * d
      BY Z3
    <3>3. m * d <= t * d
      BY <1>1, Z3
    <3>4. m * d \in Nat
      BY Z3
    <3> QED
      BY <2>1, <3>1, <3>2, <3>3, <3>4
  <2>3. (m * x) \div t <= (m * y + t * d) \div t
    <3>1. PICK u \in Nat, v \in Nat : u = m * x /\ v = m * y + t * d
      BY <2>1
    <3>2. u \div t <= v \div t
      BY <2>1, <2>2, <3>1, DivisionMonotone
    <3> QED
      BY <3>1, <3>2
  <2>4. (m * y + t * d) \div t = (m * y) \div t + d
    <3>1. PICK u \in Nat : u = m * y
      BY <2>1
    <3>2. PICK e \in Nat : e = u \div t
      BY <2>1
    <3>3. t * e <= u /\ u < t * e + t
      BY <2>1, <3>2, Z3
    <3>4. t * (e + d) = t * e + t * d /\ t * e \in Nat
      BY Z3
    <3>5. t * (e + d) <= u + t * d /\ u + t * d < t * (e + d) + t
      BY <2>1, <3>3, <3>4
    <3>6. (u + t * d) \div t = e + d
      <4>1. PICK b \in Nat : b = u + t * d
        BY <2>1
      <4>2. PICK f \in Nat : f = e + d
        OBVIOUS
      <4>3. t * f <= b /\ b < t * f + t
        BY <3>5, <4>1, <4>2
      <4>4. b \div t = f
        BY <2>1, <4>3, Z3
      <4> QED
        BY <4>1, <4>2, <4>4
    <3> QED
      BY <3>1, <3>2, <3>6
  <2>5. ~(m * x < 0)
    BY <2>1
  <2>6. Ratio(m * x, t) = (m * x) \div t
    BY <1>1, <2>5 DEF Ratio
  <2>7. (m * x) \div t \in Int /\ (m * y) \div t \in Int
    BY <2>1
  <2> QED
    BY <2>3, <2>4, <2>6, <2>7
<1>2. CASE t = 0
  BY <1>2 DEF Ratio
<1>5. ASSUME NEW m \in Nat, m <= t, t # 0, NEW x \in Nat, NEW y \in Nat, x <= y + d
      PROVE  /\ Ratio(m * x, t) \in Int /\ Ratio(m * y, t) \in Int
             /\ Ratio(m * x, t) <= Ratio(m * y, t) + d
  <2>1. y <= y + d
    OBVIOUS
  <2>2. Ratio(m * y, t) = (m * y) \div t
    BY <1>1, <1>5, <2>1
  <2>3. /\ Ratio(m * x, t) = (m * x) \div t /\ (m * x) \div t \in Int /\ (m * y) \div t \in Int
        /\ (m * x) \div t <= (m * y) \div t + d
    BY <1>1, <1>5
  <2> QED
    BY <2>2, <2>3
<1>3. CASE t # 0 /\ n >= 0
  <2>1. PICK m \in Nat : n = m
    BY <1>3
  <2>2. m <= t
    BY <2>1
  <2>3. /\ Ratio(m * p, t) \in Int /\ Ratio(m * q, t) \in Int
        /\ Ratio(m * p, t) <= Ratio(m * q, t) + d
    BY <1>3, <1>5, <2>2
  <2> QED
    BY <2>1, <2>3
<1>4. CASE t # 0 /\ n < 0
  <2>1. PICK m \in Nat : n = -m
    <3>1. -n \in Nat /\ n = -(-n)
      BY <1>4
    <3> QED
      BY <3>1
  <2>2. m <= t
    BY <2>1
  <2>3. /\ Ratio(m * q, t) \in Int /\ Ratio(m * p, t) \in Int
        /\ Ratio(m * q, t) <= Ratio(m * p, t) + d
    BY <1>4, <1>5, <2>2
  <2>4. n * p = -(m * p) /\ n * q = -(m * q) /\ m * p \in Int /\ m * q \in Int
    BY <2>1, Z3
  <2>5. Ratio(n * p, t) = -Ratio(m * p, t) /\ Ratio(n * q, t) = -Ratio(m * q, t)
    BY <2>4, RatioNegated
  <2> QED
    BY <2>3, <2>5
<1> QED
  BY <1>2, <1>3, <1>4

-----------------------------------------------------------------------------
(* The rows of an asset, and what they contribute before any cap.             *)
RowsSound(rows) ==
  /\ IsFiniteSet(rows) /\ \A r \in rows : ScoredRow(r)
  /\ \A q, r \in rows : q.factor = r.factor /\ q.asset = r.asset => q = r

RawSound(raw) ==
  /\ IsFiniteSet(raw)
  /\ \A x \in raw : /\ x = [row |-> x.row, weight |-> x.weight, after |-> x.after]
                    /\ ScoredRow(x.row) /\ x.weight \in Int /\ x.after \in Int
                    /\ Abs(x.after) <= 5 * Abs(x.weight)
  /\ \A x, y \in raw : x.row.factor = y.row.factor => x = y

Counting(rows, a, h) ==
  {r \in RowsFor(rows, a) :
     /\ r.status # "UNAVAILABLE" /\ r.coverage > 0 /\ r.reliability > 0
     /\ Sensitivity[a][r.factor] # 0 /\ HorizonWeight[r.factor][h] # 0}
FullWeight(a, h, r) == Sensitivity[a][r.factor] * r.reliability * HorizonWeight[r.factor][h]
RawItem(rows, a, h, r) ==
  [row |-> r, weight |-> FullWeight(a, h, r),
   after |-> Ratio(FullWeight(a, h, r) * r.state * Multiplier20(rows, a, r.factor), 20)]

LEMMA RawRowsAre ==
    \A rows, a, h : RawRows(rows, a, h) = {RawItem(rows, a, h, r) : r \in Counting(rows, a, h)}
  BY DEF RawRows, RawItem, Counting, FullWeight

LEMMA RowsForSound ==
    ASSUME NEW rows, RowsSound(rows), NEW a
    PROVE  /\ RowsFor(rows, a) \subseteq rows /\ IsFiniteSet(RowsFor(rows, a))
           /\ \A r \in RowsFor(rows, a) : ScoredRow(r)
           /\ \A q, r \in RowsFor(rows, a) : q.factor = r.factor => q = r
<1>1. RowsFor(rows, a) \subseteq rows
  BY DEF RowsFor
<1>2. IsFiniteSet(RowsFor(rows, a))
  BY <1>1, FS_Subset DEF RowsSound
<1>3. \A r \in RowsFor(rows, a) : ScoredRow(r)
  BY <1>1 DEF RowsSound
<1>4. ASSUME NEW q \in RowsFor(rows, a), NEW r \in RowsFor(rows, a), q.factor = r.factor
      PROVE  q.asset = r.asset
  BY <1>4 DEF RowsFor
<1>5. \A q, r \in RowsFor(rows, a) : q.factor = r.factor => q = r
  BY <1>1, <1>4 DEF RowsSound
<1> QED
  BY <1>1, <1>2, <1>3, <1>5

LEMMA WeightType ==
    ASSUME NEW r, ScoredRow(r), NEW a \in ScoredAssets, NEW h \in Horizons
    PROVE  /\ FullWeight(a, h, r) \in Int
           /\ Sensitivity[a][r.factor] >= 0 => FullWeight(a, h, r) >= 0
<1>1. /\ Sensitivity[a][r.factor] \in Int /\ r.reliability \in Nat
      /\ HorizonWeight[r.factor][h] \in Nat
  BY ScoringAssumption DEF ScoredRow
<1>2. PICK s \in Int, p \in Nat, w \in Nat :
        s = Sensitivity[a][r.factor] /\ p = r.reliability /\ w = HorizonWeight[r.factor][h]
  BY <1>1
<1>3. s * p * w \in Int /\ (s >= 0 => s * p * w >= 0)
  <2>1. s * p \in Int /\ s * p * w \in Int
    BY Z3
  <2>2. s >= 0 => s * p >= 0
    BY Z3
  <2>3. \A z \in Int : z >= 0 => z * w >= 0
    BY Z3
  <2> QED
    BY <2>1, <2>2, <2>3
<1> QED
  BY <1>2, <1>3 DEF FullWeight

LEMMA MultiplierType == \A rows, a, f : Multiplier20(rows, a, f) \in {11, 12, 20}
  BY DEF Multiplier20

LEMMA AfterBounded ==
    ASSUME NEW w \in Int, NEW s \in -5 .. 5, NEW m \in 0 .. 20
    PROVE  /\ w * s * m \in Int /\ Ratio(w * s * m, 20) \in Int
           /\ Abs(Ratio(w * s * m, 20)) <= 5 * Abs(w)
<1>1. PICK k \in Nat : k = 5 * Abs(w)
  BY AbsFacts
<1>2. PICK v \in Int : v = w * s
  BY Z3
<1>3. -k <= v /\ v <= k
  BY <1>1, <1>2, Z3 DEF Abs
<1>4. PICK n \in Int : n = v * m
  BY Z3
<1>5. -(k * 20) <= n /\ n <= k * 20
  <2>1. v * m <= k * m /\ (-k) * m <= v * m
    BY <1>3, Z3
  <2>2. k * m <= k * 20 /\ (-k) * m = -(k * m)
    BY Z3
  <2>3. k * m \in Int /\ (-k) * m \in Int
    BY Z3
  <2> QED
    BY <1>4, <2>1, <2>2, <2>3
<1>6. Ratio(n, 20) \in Int /\ -k <= Ratio(n, 20) /\ Ratio(n, 20) <= k
  BY <1>5, RatioBounded
<1>7. Abs(Ratio(n, 20)) <= k
  BY <1>6 DEF Abs
<1> QED
  BY <1>1, <1>2, <1>4, <1>6, <1>7

LEMMA RawRowsSound ==
    ASSUME NEW rows, RowsSound(rows), NEW a \in ScoredAssets, NEW h \in Horizons
    PROVE  RawSound(RawRows(rows, a, h))
<1> DEFINE C == Counting(rows, a, h)
           m == [r \in C |-> RawItem(rows, a, h, r)]
<1>1. RawRows(rows, a, h) = {m[r] : r \in C}
  BY RawRowsAre
<1>2. C \subseteq RowsFor(rows, a)
  BY DEF Counting
<1>3. IsFiniteSet(C) /\ \A r \in C : ScoredRow(r)
  BY <1>2, RowsForSound, FS_Subset
<1>4. \A q, r \in C : q.factor = r.factor => q = r
  BY <1>2, RowsForSound
<1>5. IsFiniteSet({m[r] : r \in C})
  <2> HIDE DEF m, C
  <2> QED
    BY <1>3, ImageFinite
<1>6. ASSUME NEW r \in C
      PROVE  /\ m[r] = [row |-> m[r].row, weight |-> m[r].weight, after |-> m[r].after]
             /\ m[r].row = r /\ m[r].weight \in Int /\ m[r].after \in Int
             /\ Abs(m[r].after) <= 5 * Abs(m[r].weight)
  <2>1. PICK w \in Int : w = FullWeight(a, h, r)
    BY <1>3, WeightType
  <2>2. PICK s \in -5 .. 5 : s = r.state
    BY <1>3 DEF ScoredRow
  <2>3. PICK p \in 0 .. 20 : p = Multiplier20(rows, a, r.factor)
    BY MultiplierType
  <2>4. m[r] = [row |-> r, weight |-> w, after |-> Ratio(w * s * p, 20)]
    BY <2>1, <2>2, <2>3 DEF RawItem
  <2>5. Ratio(w * s * p, 20) \in Int /\ Abs(Ratio(w * s * p, 20)) <= 5 * Abs(w)
    BY AfterBounded
  <2> HIDE DEF m
  <2> QED
    BY <2>4, <2>5
<1> HIDE DEF m, C
<1>7. ASSUME NEW x \in {m[r] : r \in C}
      PROVE  /\ x = [row |-> x.row, weight |-> x.weight, after |-> x.after]
             /\ ScoredRow(x.row) /\ x.weight \in Int /\ x.after \in Int
             /\ Abs(x.after) <= 5 * Abs(x.weight)
  <2>1. PICK r \in C : x = m[r]
    OBVIOUS
  <2>2. /\ x = [row |-> x.row, weight |-> x.weight, after |-> x.after]
        /\ x.row = r /\ x.weight \in Int /\ x.after \in Int /\ Abs(x.after) <= 5 * Abs(x.weight)
    BY <1>6, <2>1
  <2> QED
    BY <1>3, <2>2
<1>8. ASSUME NEW x \in {m[r] : r \in C}, NEW y \in {m[r] : r \in C}, x.row.factor = y.row.factor
      PROVE  x = y
  <2>1. PICK q \in C, r \in C : x = m[q] /\ y = m[r]
    OBVIOUS
  <2>2. x.row = q /\ y.row = r
    BY <1>6, <2>1
  <2> QED
    BY <1>4, <1>8, <2>1, <2>2
<1> QED
  BY <1>1, <1>5, <1>7, <1>8 DEF RawSound

-----------------------------------------------------------------------------
(* The direction of a horizon.                                                *)
Amounts(raw) == [x \in raw |-> Abs(x.after)]
Afters(raw) == [x \in raw |-> x.after]
Masses(raw) == [x \in raw |-> Abs(x.weight)]
Mass(raw) == SumFunction(Masses(raw))
GroupsIn(raw) == {GroupOf[x.row.factor] : x \in raw}
GroupNet(raw, g) == Capped(raw, g, Net(InGroup(raw, g)))
Numerator(raw) == SumFunction([g \in GroupsIn(raw) |-> GroupNet(raw, g)])

LEMMA RawDirectionIs == \A raw : RawDirection(raw) = Ratio(10 * Numerator(raw), Mass(raw))
  BY DEF RawDirection, Numerator, Mass, Masses, GroupsIn, GroupNet

LEMMA RawTotals ==
    ASSUME NEW raw, RawSound(raw)
    PROVE  /\ \A S \in SUBSET raw :
                /\ Total(S) = TotalOf(Amounts(raw), S) /\ Net(S) = TotalOf(Afters(raw), S)
                /\ Total(S) \in Nat /\ Net(S) \in Int /\ -Total(S) <= Net(S) /\ Net(S) <= Total(S)
           /\ Mass(raw) = TotalOf(Masses(raw), raw) /\ Mass(raw) \in Nat
           /\ Total(raw) <= 5 * Mass(raw)
<1>1. IsFiniteSet(raw) /\ \A S \in SUBSET raw : IsFiniteSet(S)
  BY FS_Subset DEF RawSound
<1>2. \A x \in raw : /\ Amounts(raw)[x] \in Nat /\ Afters(raw)[x] \in Int /\ Masses(raw)[x] \in Nat
                     /\ -(1 * Amounts(raw)[x]) <= Afters(raw)[x] /\ Afters(raw)[x] <= 1 * Amounts(raw)[x]
                     /\ Amounts(raw)[x] <= 5 * Masses(raw)[x] /\ -(5 * Masses(raw)[x]) <= Amounts(raw)[x]
  <2> TAKE x \in raw
  <2>1. x.after \in Int /\ x.weight \in Int /\ Abs(x.after) <= 5 * Abs(x.weight)
    BY DEF RawSound
  <2>2. Amounts(raw)[x] = Abs(x.after) /\ Afters(raw)[x] = x.after /\ Masses(raw)[x] = Abs(x.weight)
    BY DEF Amounts, Afters, Masses
  <2>3. /\ Abs(x.after) \in Nat /\ -Abs(x.after) <= x.after /\ x.after <= Abs(x.after)
        /\ Abs(x.weight) \in Nat
    BY <2>1, AbsFacts
  <2> QED
    BY <2>1, <2>2, <2>3
<1>3. ASSUME NEW S \in SUBSET raw
      PROVE  /\ Total(S) = TotalOf(Amounts(raw), S) /\ Net(S) = TotalOf(Afters(raw), S)
             /\ Total(S) \in Nat /\ Net(S) \in Int /\ -Total(S) <= Net(S) /\ Net(S) <= Total(S)
  <2> DEFINE size == [x \in S |-> Abs(x.after)]
             after == [x \in S |-> x.after]
  <2>1. Total(S) = TotalOf(size, S) /\ Net(S) = TotalOf(after, S)
    BY SumIsTotal DEF Total, Net
  <2>2. \A x \in S : size[x] = Amounts(raw)[x] /\ after[x] = Afters(raw)[x]
    BY DEF Amounts, Afters
  <2> HIDE DEF size, after
  <2>3. TotalOf(size, S) = TotalOf(Amounts(raw), S) /\ TotalOf(after, S) = TotalOf(Afters(raw), S)
    BY <1>1, <2>2, TotalSame
  <2>4. /\ TotalOf(Amounts(raw), S) \in Nat
        /\ TotalOf(Afters(raw), S) \in Int
        /\ -(1 * TotalOf(Amounts(raw), S)) <= TotalOf(Afters(raw), S)
        /\ TotalOf(Afters(raw), S) <= 1 * TotalOf(Amounts(raw), S)
    <3>1. TotalOf(Amounts(raw), S) \in Nat
      BY <1>1, <1>2, TotalType
    <3>2. /\ TotalOf(Afters(raw), S) \in Int
          /\ -(1 * TotalOf(Amounts(raw), S)) <= TotalOf(Afters(raw), S)
          /\ TotalOf(Afters(raw), S) <= 1 * TotalOf(Amounts(raw), S)
      BY <1>1, <1>2, TotalBetween
    <3> QED
      BY <3>1, <3>2
  <2> QED
    BY <2>1, <2>3, <2>4
<1>4. Mass(raw) = TotalOf(Masses(raw), raw) /\ Mass(raw) \in Nat
  <2>1. DOMAIN Masses(raw) = raw
    BY DEF Masses
  <2>2. Mass(raw) = TotalOf(Masses(raw), raw)
    BY <2>1, SumIsTotal DEF Mass
  <2>3. TotalOf(Masses(raw), raw) \in Nat
    BY <1>1, <1>2, TotalType
  <2> QED
    BY <2>2, <2>3
<1>5. TotalOf(Amounts(raw), raw) <= 5 * TotalOf(Masses(raw), raw)
  BY <1>1, <1>2, TotalBetween
<1> QED
  BY <1>3, <1>4, <1>5

(* A cap never leaves more than there is, and the groups outside the caps keep all. *)
LEMMA AllowedFacts ==
    ASSUME NEW raw, RawSound(raw), NEW g
    PROVE  /\ Total(InGroup(raw, g)) \in Nat /\ Net(InGroup(raw, g)) \in Int
           /\ -Total(InGroup(raw, g)) <= Net(InGroup(raw, g))
           /\ Net(InGroup(raw, g)) <= Total(InGroup(raw, g))
           /\ Allowed(raw, g) \in Nat /\ Allowed(raw, g) <= 20 * Total(InGroup(raw, g))
           /\ g \notin DOMAIN GroupCap => Allowed(raw, g) = 20 * Total(InGroup(raw, g))
<1>1. InGroup(raw, g) \in SUBSET raw /\ raw \in SUBSET raw
  BY DEF InGroup
<1>2. PICK t \in Nat : t = Total(InGroup(raw, g))
  BY <1>1, RawTotals
<1>3. PICK w \in Nat : w = Total(raw)
  BY <1>1, RawTotals
<1>4. g \in DOMAIN GroupCap => GroupCap[g] * w \in Nat
  <2>1. ASSUME g \in DOMAIN GroupCap
        PROVE  GroupCap[g] * w \in Nat
    <3>1. PICK c \in Nat : c = GroupCap[g]
      BY <2>1, CapsAssumption
    <3>2. c * w \in Nat
      BY Z3
    <3> QED
      BY <3>1, <3>2
  <2> QED
    BY <2>1
<1>5. Allowed(raw, g) = IF g \in DOMAIN GroupCap /\ GroupCap[g] * w < 20 * t
                        THEN GroupCap[g] * w ELSE 20 * t
  BY <1>2, <1>3 DEF Allowed
<1>6. /\ Allowed(raw, g) \in Nat /\ Allowed(raw, g) <= 20 * t
      /\ g \notin DOMAIN GroupCap => Allowed(raw, g) = 20 * t
  BY <1>4, <1>5
<1>7. /\ Net(InGroup(raw, g)) \in Int
      /\ -Total(InGroup(raw, g)) <= Net(InGroup(raw, g))
      /\ Net(InGroup(raw, g)) <= Total(InGroup(raw, g))
  BY <1>1, RawTotals
<1> QED
  BY <1>2, <1>6, <1>7

LEMMA CappedBounded ==
    ASSUME NEW raw, RawSound(raw), NEW g, NEW v \in Int,
           -Total(InGroup(raw, g)) <= v, v <= Total(InGroup(raw, g))
    PROVE  /\ Capped(raw, g, v) \in Int
           /\ -Allowed(raw, g) <= Capped(raw, g, v) /\ Capped(raw, g, v) <= Allowed(raw, g)
<1>1. PICK t \in Nat, k \in Nat : t = Total(InGroup(raw, g)) /\ k = Allowed(raw, g)
  BY AllowedFacts
<1>2. PICK n \in Int : n = v * k
  BY Z3
<1>3. -(k * t) <= n /\ n <= k * t
  <2>1. v * k <= t * k /\ (-t) * k <= v * k
    BY <1>1, Z3
  <2>2. t * k = k * t /\ (-t) * k = -(k * t) /\ k * t \in Int
    BY Z3
  <2> QED
    BY <1>2, <2>1, <2>2
<1>4. Ratio(n, t) \in Int /\ -k <= Ratio(n, t) /\ Ratio(n, t) <= k
  BY <1>3, RatioBounded
<1>5. Capped(raw, g, v) = Ratio(n, t)
  BY <1>1, <1>2 DEF Capped
<1> QED
  BY <1>1, <1>4, <1>5

LEMMA GroupNetBounded ==
    ASSUME NEW raw, RawSound(raw), NEW g
    PROVE  /\ GroupNet(raw, g) \in Int
           /\ -(20 * Total(InGroup(raw, g))) <= GroupNet(raw, g)
           /\ GroupNet(raw, g) <= 20 * Total(InGroup(raw, g))
<1>1. PICK t \in Nat, n \in Int, k \in Nat :
        /\ t = Total(InGroup(raw, g)) /\ n = Net(InGroup(raw, g)) /\ k = Allowed(raw, g)
        /\ -t <= n /\ n <= t /\ k <= 20 * t
  BY AllowedFacts
<1>2. Capped(raw, g, n) \in Int /\ -k <= Capped(raw, g, n) /\ Capped(raw, g, n) <= k
  BY <1>1, CappedBounded
<1>3. GroupNet(raw, g) = Capped(raw, g, n)
  BY <1>1 DEF GroupNet
<1> QED
  BY <1>1, <1>2, <1>3

LEMMA GroupsFinite ==
    ASSUME NEW raw, RawSound(raw)
    PROVE  IsFiniteSet(GroupsIn(raw))
<1> DEFINE m == [x \in raw |-> GroupOf[x.row.factor]]
<1>1. GroupsIn(raw) = {m[x] : x \in raw}
  BY DEF GroupsIn
<1>2. IsFiniteSet(raw)
  BY DEF RawSound
<1> HIDE DEF m
<1> QED
  BY <1>1, <1>2, ImageFinite

LEMMA NumeratorIs ==
    ASSUME NEW raw, NEW nets, \A g \in GroupsIn(raw) : nets[g] = GroupNet(raw, g),
           IsFiniteSet(GroupsIn(raw))
    PROVE  Numerator(raw) = TotalOf(nets, GroupsIn(raw))
<1> DEFINE f == [g \in GroupsIn(raw) |-> GroupNet(raw, g)]
<1>1. Numerator(raw) = TotalOf(f, GroupsIn(raw))
  BY SumIsTotal DEF Numerator
<1>2. \A g \in GroupsIn(raw) : f[g] = nets[g]
  OBVIOUS
<1> HIDE DEF f
<1> QED
  BY <1>1, <1>2, TotalSame

(* No direction needs the clip.                                               *)
LEMMA DirectionBounded ==
    ASSUME NEW raw, RawSound(raw)
    PROVE  /\ RawDirection(raw) \in Int /\ -1000 <= RawDirection(raw) /\ RawDirection(raw) <= 1000
           /\ Numerator(raw) \in Int /\ Mass(raw) \in Nat
<1> DEFINE P == GroupsIn(raw)
           nets == [g \in P |-> GroupNet(raw, g)]
           sums == [g \in P |-> Total(InGroup(raw, g))]
           part == [x \in raw |-> GroupOf[x.row.factor]]
<1>1. IsFiniteSet(raw) /\ IsFiniteSet(P)
  BY GroupsFinite DEF RawSound
<1>2. \A x \in raw : part[x] \in P
  BY DEF GroupsIn
<1>3. \A x \in raw : Amounts(raw)[x] \in Int
  <2> TAKE x \in raw
  <2>1. x.after \in Int
    BY DEF RawSound
  <2> QED
    BY <2>1, AbsFacts DEF Amounts
<1>4. TotalsOfParts(sums, Amounts(raw), raw, part, P)
  <2>1. ASSUME NEW g \in P PROVE sums[g] = TotalOf(Amounts(raw), {x \in raw : part[x] = g})
    <3>1. {x \in raw : part[x] = g} = InGroup(raw, g)
      BY DEF InGroup
    <3>2. InGroup(raw, g) \in SUBSET raw
      BY DEF InGroup
    <3> QED
      BY <3>1, <3>2, RawTotals, ZenonT(60)
  <2> HIDE DEF sums, part, P
  <2> QED
    BY <1>2, <2>1 DEF TotalsOfParts
<1>5. \A g \in P : /\ sums[g] \in Nat /\ nets[g] \in Int
                   /\ -(20 * sums[g]) <= nets[g] /\ nets[g] <= 20 * sums[g]
  BY GroupNetBounded, AllowedFacts
<1>6. \A g \in P : nets[g] = GroupNet(raw, g)
  OBVIOUS
<1> HIDE DEF nets, sums, part
<1>7. TotalOf(sums, P) = TotalOf(Amounts(raw), raw)
  <2> HIDE DEF P
  <2> QED
    BY <1>1, <1>3, <1>4, TotalParted
<1>8. Numerator(raw) = TotalOf(nets, P)
  BY <1>1, <1>6, NumeratorIs
<1>9. /\ TotalOf(nets, P) \in Int
      /\ -(20 * TotalOf(sums, P)) <= TotalOf(nets, P) /\ TotalOf(nets, P) <= 20 * TotalOf(sums, P)
  <2> HIDE DEF P
  <2> QED
    BY <1>1, <1>5, TotalBetween
<1>10. PICK m \in Nat : m = Mass(raw)
  BY RawTotals
<1>11. Total(raw) = TotalOf(Amounts(raw), raw) /\ Total(raw) \in Nat /\ Total(raw) <= 5 * m
  <2>1. raw \in SUBSET raw
    OBVIOUS
  <2> QED
    BY <1>10, <2>1, RawTotals
<1>12. PICK n \in Int : n = Numerator(raw)
  BY <1>8, <1>9
<1>13. 10 * n \in Int /\ -(1000 * m) <= 10 * n /\ 10 * n <= 1000 * m
  BY <1>7, <1>8, <1>9, <1>11, <1>12
<1>14. Ratio(10 * n, m) \in Int /\ -1000 <= Ratio(10 * n, m) /\ Ratio(10 * n, m) <= 1000
  BY <1>13, RatioBounded
<1> QED
  BY <1>10, <1>12, <1>14, RawDirectionIs

-----------------------------------------------------------------------------
(* A contribution that grows, all others being as they were.                  *)
OneApart(R, S, x, y) == x \in R /\ y \in S /\ R \ {x} = S \ {y}

LEMMA TotalsApart ==
    ASSUME NEW R, IsFiniteSet(R), NEW S, IsFiniteSet(S), NEW x, NEW y, OneApart(R, S, x, y),
           NEW f, NEW g, \A z \in R : f[z] \in Int, \A z \in S : g[z] \in Int,
           \A z \in R \ {x} : f[z] = g[z]
    PROVE  /\ TotalOf(f, R) \in Int /\ TotalOf(g, S) \in Int
           /\ TotalOf(g, S) = TotalOf(f, R) + (g[y] - f[x])
<1>1. x \in R /\ y \in S /\ R \ {x} = S \ {y}
  BY DEF OneApart
<1>2. /\ TotalOf(f, R) = f[x] + TotalOf(f, R \ {x}) /\ TotalOf(g, S) = g[y] + TotalOf(g, S \ {y})
  BY <1>1, TotalRemove
<1>3. TotalOf(f, R \ {x}) = TotalOf(g, R \ {x}) /\ TotalOf(f, R \ {x}) \in Int
  <2>1. IsFiniteSet(R \ {x}) /\ \A z \in R \ {x} : f[z] \in Int
    BY FS_Subset
  <2> QED
    BY <2>1, TotalSame, TotalInt
<1>4. f[x] \in Int /\ g[y] \in Int
  BY <1>1
<1> QED
  BY <1>1, <1>2, <1>3, <1>4

Risen(raw, other, x, y) ==
  /\ OneApart(raw, other, x, y)
  /\ y.row.factor = x.row.factor /\ y.weight = x.weight /\ x.after <= y.after

LEMMA RisenTotals ==
    ASSUME NEW raw, RawSound(raw), NEW other, RawSound(other), NEW x, NEW y, Risen(raw, other, x, y),
           NEW d \in Nat, d = y.after - x.after
    PROVE  /\ Total(raw) \in Nat /\ Total(other) \in Nat
           /\ Total(other) <= Total(raw) + d /\ Total(raw) <= Total(other) + d
           /\ Mass(other) = Mass(raw) /\ GroupsIn(other) = GroupsIn(raw)
           /\ Net(InGroup(other, GroupOf[x.row.factor])) = Net(InGroup(raw, GroupOf[x.row.factor])) + d
           /\ \A g : g # GroupOf[x.row.factor] => InGroup(other, g) = InGroup(raw, g)
<1>1. /\ x \in raw /\ y \in other /\ raw \ {x} = other \ {y}
      /\ y.row.factor = x.row.factor /\ y.weight = x.weight
  BY DEF Risen, OneApart
<1>2. /\ x.after \in Int /\ y.after \in Int /\ x.weight \in Int
      /\ IsFiniteSet(raw) /\ IsFiniteSet(other)
  BY <1>1 DEF RawSound
<1>3. OneApart(raw, other, x, y) /\ raw \in SUBSET raw /\ other \in SUBSET other
  BY DEF Risen
<1>4. /\ \A z \in raw : Amounts(raw)[z] \in Int /\ Afters(raw)[z] \in Int /\ Masses(raw)[z] \in Int
      /\ \A z \in other : Amounts(other)[z] \in Int /\ Afters(other)[z] \in Int /\ Masses(other)[z] \in Int
  <2>1. ASSUME NEW some, RawSound(some), NEW z \in some
        PROVE  Amounts(some)[z] \in Int /\ Afters(some)[z] \in Int /\ Masses(some)[z] \in Int
    <3>1. z.after \in Int /\ z.weight \in Int
      BY <2>1 DEF RawSound
    <3> QED
      BY <3>1, AbsFacts DEF Amounts, Afters, Masses
  <2> QED
    BY <2>1
<1>5. \A z \in raw \ {x} : /\ Amounts(raw)[z] = Amounts(other)[z] /\ Afters(raw)[z] = Afters(other)[z]
                           /\ Masses(raw)[z] = Masses(other)[z]
  BY <1>1 DEF Amounts, Afters, Masses
<1>6. /\ Amounts(raw)[x] = Abs(x.after) /\ Amounts(other)[y] = Abs(y.after)
      /\ Masses(raw)[x] = Abs(x.weight) /\ Masses(other)[y] = Abs(x.weight)
      /\ Afters(raw)[x] = x.after /\ Afters(other)[y] = y.after
  BY <1>1 DEF Amounts, Afters, Masses
<1>7. Total(other) = Total(raw) + (Abs(y.after) - Abs(x.after)) /\ Total(raw) \in Nat /\ Total(other) \in Nat
  <2>1. TotalOf(Amounts(other), other) = TotalOf(Amounts(raw), raw) + (Amounts(other)[y] - Amounts(raw)[x])
    BY <1>2, <1>3, <1>4, <1>5, TotalsApart
  <2>2. /\ Total(raw) = TotalOf(Amounts(raw), raw) /\ Total(other) = TotalOf(Amounts(other), other)
        /\ Total(raw) \in Nat /\ Total(other) \in Nat
    BY <1>3, RawTotals
  <2> QED
    BY <1>6, <2>1, <2>2
<1>8. Total(other) <= Total(raw) + d /\ Total(raw) <= Total(other) + d
  <2>1. Abs(y.after) <= Abs(x.after) + d /\ Abs(x.after) <= Abs(y.after) + d
        /\ Abs(x.after) \in Int /\ Abs(y.after) \in Int
    BY <1>2 DEF Abs
  <2> QED
    BY <1>7, <2>1
<1>9. Mass(other) = Mass(raw)
  <2>1. TotalOf(Masses(other), other) = TotalOf(Masses(raw), raw) + (Masses(other)[y] - Masses(raw)[x])
    BY <1>2, <1>3, <1>4, <1>5, TotalsApart
  <2>2. Masses(other)[y] - Masses(raw)[x] = 0
    BY <1>2, <1>6, AbsFacts
  <2>3. /\ Mass(raw) = TotalOf(Masses(raw), raw) /\ Mass(other) = TotalOf(Masses(other), other)
        /\ Mass(raw) \in Nat
    BY RawTotals
  <2> QED
    BY <2>1, <2>2, <2>3
<1>10. GroupsIn(other) = GroupsIn(raw)
  <2>1. \A z : z \in raw => z = x \/ z \in other
    BY <1>1
  <2>2. \A z : z \in other => z = y \/ z \in raw
    BY <1>1
  <2>3. ASSUME NEW g \in GroupsIn(raw) PROVE g \in GroupsIn(other)
    <3>1. PICK z \in raw : g = GroupOf[z.row.factor]
      BY DEF GroupsIn
    <3> QED
      BY <1>1, <2>1, <3>1 DEF GroupsIn
  <2>4. ASSUME NEW g \in GroupsIn(other) PROVE g \in GroupsIn(raw)
    <3>1. PICK z \in other : g = GroupOf[z.row.factor]
      BY DEF GroupsIn
    <3> QED
      BY <1>1, <2>2, <3>1 DEF GroupsIn
  <2> QED
    BY <2>3, <2>4
<1>11. Net(InGroup(other, GroupOf[x.row.factor])) = Net(InGroup(raw, GroupOf[x.row.factor])) + d
  <2> DEFINE R == InGroup(raw, GroupOf[x.row.factor])
             S == InGroup(other, GroupOf[x.row.factor])
  <2>1. OneApart(R, S, x, y)
    BY <1>1 DEF OneApart, InGroup
  <2>2. R \in SUBSET raw /\ S \in SUBSET other
    BY DEF InGroup
  <2> HIDE DEF R, S
  <2>3. IsFiniteSet(R) /\ IsFiniteSet(S)
    BY <1>2, <2>2, FS_Subset
  <2>4. /\ \A z \in R : Afters(raw)[z] \in Int
        /\ \A z \in S : Afters(other)[z] \in Int
        /\ \A z \in R \ {x} : Afters(raw)[z] = Afters(other)[z]
    BY <1>4, <1>5, <2>2
  <2>5. TotalOf(Afters(other), S) = TotalOf(Afters(raw), R) + (Afters(other)[y] - Afters(raw)[x])
    BY <2>1, <2>3, <2>4, TotalsApart
  <2>6. Net(R) = TotalOf(Afters(raw), R) /\ Net(S) = TotalOf(Afters(other), S)
    BY <2>2, RawTotals
  <2>7. Net(S) = Net(R) + d
    BY <1>6, <2>5, <2>6
  <2> QED
    BY <2>7 DEF R, S
<1>12. \A g : g # GroupOf[x.row.factor] => InGroup(other, g) = InGroup(raw, g)
  <2> TAKE g
  <2> HAVE g # GroupOf[x.row.factor]
  <2>1. \A z \in raw : GroupOf[z.row.factor] = g => z \in other
    BY <1>1
  <2>2. \A z \in other : GroupOf[z.row.factor] = g => z \in raw
    BY <1>1
  <2> QED
    BY <2>1, <2>2 DEF InGroup
<1> QED
  BY <1>7, <1>8, <1>9, <1>10, <1>11, <1>12

(* What a cap allows moves by no more than its share of the rise.              *)
CapShare(g) == IF g \in DOMAIN GroupCap THEN GroupCap[g] ELSE 0

LEMMA CapsShared ==
    ASSUME NEW P, IsFiniteSet(P), NEW shares, \A g \in P : shares[g] = CapShare(g)
    PROVE  TotalOf(shares, P) \in Nat /\ TotalOf(shares, P) <= 20
<1> DEFINE D == DOMAIN GroupCap
           U == P \cup D
           all == [g \in U |-> CapShare(g)]
<1>1. IsFiniteSet(D) /\ \A g \in D : GroupCap[g] \in Nat
  BY CapsAssumption
<1>2. IsFiniteSet(U)
  BY <1>1, FS_Union
<1>3. \A g \in U : all[g] \in Nat /\ (g \notin D => all[g] = 0)
  BY <1>1 DEF CapShare
<1>4. \A g \in D : GroupCap[g] = all[g]
  BY DEF CapShare
<1>5. \A g \in P : shares[g] = all[g]
  OBVIOUS
<1>6. P \in SUBSET U /\ D \in SUBSET U /\ U \in SUBSET U
  OBVIOUS
<1>7. SumFunction(GroupCap) = TotalOf(GroupCap, D)
  BY SumIsTotal
<1> HIDE DEF all, U, D
<1>8. TotalOf(shares, P) = TotalOf(all, P) /\ TotalOf(GroupCap, D) = TotalOf(all, D)
  BY <1>1, <1>4, <1>5, TotalSame
<1>9. TotalOf(all, U) <= 1 * TotalOf(all, U \cap D)
  <2>1. \A g \in U : all[g] \in Nat /\ all[g] \in Nat
    BY <1>3
  <2>2. \A g \in U : IF g \in D THEN all[g] <= 1 * all[g] ELSE all[g] = 0
    BY <1>3
  <2> QED
    BY <1>2, <1>6, <2>1, <2>2, TotalWithin
<1>10. U \cap D = D
  BY <1>6
<1>11. TotalOf(all, P) <= TotalOf(all, U) /\ TotalOf(all, P) \in Nat /\ TotalOf(all, D) \in Nat
       /\ TotalOf(all, U) \in Nat
  BY <1>2, <1>3, <1>6, TotalSubset, TotalType
<1>12. TotalOf(all, D) <= 20
  BY <1>7, <1>8, CapsAssumption
<1>13. TotalOf(all, U) <= TotalOf(all, D)
  <2>1. PICK n \in Nat : n = TotalOf(all, D)
    BY <1>11
  <2>2. TotalOf(all, U \cap D) = n
    BY <1>10, <2>1
  <2>3. TotalOf(all, U) <= 1 * n
    BY <1>9, <2>2
  <2> QED
    BY <1>11, <2>1, <2>3
<1> QED
  BY <1>8, <1>11, <1>12, <1>13

LEMMA GroupNetMoves ==
    ASSUME NEW raw, RawSound(raw), NEW other, RawSound(other), NEW x, NEW y, Risen(raw, other, x, y),
           NEW d \in Nat, d = y.after - x.after, NEW g, g # GroupOf[x.row.factor]
    PROVE  CapShare(g) \in Nat /\ GroupNet(raw, g) - CapShare(g) * d <= GroupNet(other, g)
<1>1. PICK t \in Nat, n \in Int, p \in Nat :
        /\ t = Total(InGroup(raw, g)) /\ n = Net(InGroup(raw, g)) /\ p = Allowed(raw, g)
        /\ -t <= n /\ n <= t /\ p <= 20 * t
        /\ g \notin DOMAIN GroupCap => p = 20 * t
  BY AllowedFacts
<1>2. InGroup(other, g) = InGroup(raw, g)
  BY RisenTotals
<1>3. t = Total(InGroup(other, g)) /\ n = Net(InGroup(other, g))
  BY <1>1, <1>2
<1>4. PICK q \in Nat : q = Allowed(other, g) /\ (g \notin DOMAIN GroupCap => q = 20 * t)
  BY <1>3, AllowedFacts
<1>5. PICK c \in Nat : c = CapShare(g)
  BY CapsAssumption DEF CapShare
<1>6. PICK e \in Nat : e = c * d
  BY Z3
<1>7. p <= q + e /\ q <= p + e
  <2>1. CASE g \notin DOMAIN GroupCap
    BY <1>1, <1>4, <2>1
  <2>2. CASE g \in DOMAIN GroupCap
    <3>1. PICK u \in Nat, v \in Nat :
            u = Total(raw) /\ v = Total(other) /\ v <= u + d /\ u <= v + d
      BY RisenTotals
    <3>2. c = GroupCap[g]
      BY <1>5, <2>2 DEF CapShare
    <3>3. /\ p = IF c * u < 20 * t THEN c * u ELSE 20 * t
          /\ q = IF c * v < 20 * t THEN c * v ELSE 20 * t
      BY <1>1, <1>3, <1>4, <2>2, <3>1, <3>2 DEF Allowed
    <3>4. c * v <= c * u + e /\ c * u <= c * v + e /\ c * u \in Int /\ c * v \in Int
      <4>1. c * v <= c * (u + d) /\ c * u <= c * (v + d)
        BY <3>1, Z3
      <4>2. c * (u + d) = c * u + c * d /\ c * (v + d) = c * v + c * d
        BY Z3
      <4>3. c * u \in Int /\ c * v \in Int
        BY Z3
      <4> QED
        BY <1>6, <4>1, <4>2, <4>3
    <3> QED
      BY <3>3, <3>4
  <2> QED
    BY <2>1, <2>2
<1>8. Ratio(n * p, t) - e <= Ratio(n * q, t)
  BY <1>1, <1>7, RatioSlack
<1>9. GroupNet(raw, g) = Ratio(n * p, t) /\ GroupNet(other, g) = Ratio(n * q, t)
  BY <1>1, <1>3, <1>4 DEF GroupNet, Capped
<1> QED
  BY <1>5, <1>6, <1>8, <1>9

(* A group outside the caps gains twenty times the rise, in twentieths.         *)
LEMMA UncappedNet ==
    ASSUME NEW raw, RawSound(raw), NEW g, g \notin DOMAIN GroupCap
    PROVE  GroupNet(raw, g) = 20 * Net(InGroup(raw, g))
<1>1. PICK t \in Nat, n \in Int, p \in Nat :
        /\ t = Total(InGroup(raw, g)) /\ n = Net(InGroup(raw, g)) /\ p = Allowed(raw, g)
        /\ -t <= n /\ n <= t /\ p = 20 * t
  BY AllowedFacts
<1>2. GroupNet(raw, g) = Ratio(n * p, t)
  BY <1>1 DEF GroupNet, Capped
<1>3. CASE t = 0
  <2>1. n <= 0 /\ 0 <= n
    BY <1>1, <1>3
  <2>2. n * p \in Int /\ n = 0
    BY <2>1, Z3
  <2>3. Ratio(n * p, t) = 0
    BY <1>3, Zenon DEF Ratio
  <2> QED
    BY <1>1, <1>2, <2>2, <2>3
<1>4. ASSUME NEW m \in Nat, t # 0
      PROVE  Ratio(m * p, t) = 20 * m
  <2>1. m * p = (20 * m) * t
    BY <1>1, Z3
  <2>2. PICK k \in Nat : k = 20 * m
    OBVIOUS
  <2>3. PICK b \in Nat : b = k * t
    BY Z3
  <2>4. b \div t = k
    BY <1>4, <2>3, Z3
  <2>5. Ratio(b, t) = b \div t
    BY <1>4 DEF Ratio
  <2> QED
    BY <2>1, <2>2, <2>3, <2>4, <2>5
<1>5. CASE t # 0 /\ n >= 0
  <2>1. PICK m \in Nat : n = m
    BY <1>5
  <2> QED
    BY <1>1, <1>2, <1>4, <1>5, <2>1
<1>6. CASE t # 0 /\ n < 0
  <2>1. PICK m \in Nat : n = -m
    <3>1. -n \in Nat /\ n = -(-n)
      BY <1>6
    <3> QED
      BY <3>1
  <2>2. Ratio(m * p, t) = 20 * m
    BY <1>4, <1>6
  <2>3. n * p = -(m * p) /\ m * p \in Int
    BY <2>1, Z3
  <2>4. Ratio(n * p, t) = -(20 * m)
    BY <2>2, <2>3, RatioNegated
  <2> QED
    BY <1>1, <1>2, <2>1, <2>4
<1> QED
  BY <1>3, <1>5, <1>6

(* What the caps take from the other groups is never more than what that one gains. *)
LEMMA NumeratorRises ==
    ASSUME NEW raw, RawSound(raw), NEW other, RawSound(other), NEW x, NEW y, Risen(raw, other, x, y),
           GroupOf[x.row.factor] \notin DOMAIN GroupCap
    PROVE  Numerator(raw) <= Numerator(other)
<1>1. x \in raw /\ y \in other /\ x.after <= y.after
  BY DEF Risen, OneApart
<1>2. PICK d \in Nat : d = y.after - x.after
  <2>1. x.after \in Int /\ y.after \in Int
    BY <1>1 DEF RawSound
  <2>2. y.after - x.after \in Nat
    BY <1>1, <2>1
  <2> QED
    BY <2>2
<1> DEFINE G == GroupOf[x.row.factor]
           P == GroupsIn(raw)
           k == [g \in P |-> IF g = G THEN 20 ELSE -CapShare(g)]
           shares == [g \in P |-> CapShare(g)]
           nets == [g \in P |-> GroupNet(raw, g)]
           lower == [g \in P |-> GroupNet(raw, g) + d * k[g]]
           after == [g \in P |-> GroupNet(other, g)]
<1>3. G \in P /\ IsFiniteSet(P) /\ GroupsIn(other) = P
  <2>1. G \in P
    BY <1>1 DEF GroupsIn
  <2>2. GroupsIn(other) = P
    BY <1>2, RisenTotals
  <2> QED
    BY <2>1, <2>2, GroupsFinite
<1>4. \A g : CapShare(g) \in Nat
  BY CapsAssumption DEF CapShare
<1>5. \A g \in P : k[g] \in Int /\ shares[g] \in Nat /\ shares[g] = CapShare(g)
  BY <1>4
<1>6. \A g \in P : /\ nets[g] \in Int /\ nets[g] = GroupNet(raw, g) /\ after[g] \in Int
                   /\ after[g] = GroupNet(other, g) /\ lower[g] = nets[g] + d * k[g]
  BY GroupNetBounded
<1>7. ASSUME NEW g \in P
      PROVE  lower[g] \in Int /\ lower[g] <= after[g]
  <2>1. CASE g = G
    <3>1. k[g] = 20
      BY <2>1
    <3>2. PICK n \in Int, m \in Int : n = Net(InGroup(raw, G)) /\ m = Net(InGroup(other, G))
      BY AllowedFacts
    <3>3. m = n + d
      BY <1>2, <3>2, RisenTotals
    <3>4. nets[g] = 20 * n /\ after[g] = 20 * m
      BY <1>6, <2>1, <3>2, UncappedNet
    <3>5. lower[g] = nets[g] + d * 20
      BY <1>6, <3>1
    <3> QED
      BY <1>6, <3>3, <3>4, <3>5
  <2>2. CASE g # G
    <3>1. PICK c \in Nat : c = CapShare(g)
      BY <1>4
    <3>2. GroupNet(raw, g) - CapShare(g) * d <= GroupNet(other, g)
      BY <1>2, <2>2, GroupNetMoves
    <3>3. k[g] = -c
      BY <2>2, <3>1
    <3>4. d * (-c) = -(c * d) /\ c * d \in Int
      BY Z3
    <3>5. lower[g] = nets[g] + d * (-c)
      BY <1>6, <3>3
    <3>6. nets[g] - c * d <= after[g]
      BY <1>6, <3>1, <3>2
    <3> QED
      BY <1>6, <3>4, <3>5, <3>6
  <2> QED
    BY <2>1, <2>2
<1>8. k[G] = 20 /\ \A g \in P \ {G} : k[g] = -shares[g]
  BY <1>3
<1>9. G \notin DOMAIN GroupCap /\ P \ {G} \in SUBSET P /\ P \in SUBSET P
  OBVIOUS
<1> HIDE DEF k, shares, nets, lower, after, P, G
<1>10. PICK w \in Nat : w = TotalOf(k, P)
  <2>1. IsFiniteSet(P \ {G}) /\ \A g \in P \ {G} : shares[g] \in Nat /\ shares[g] = CapShare(g)
    BY <1>3, <1>5, FS_Subset
  <2>2. TotalOf(shares, P \ {G}) \in Nat /\ TotalOf(shares, P \ {G}) <= 20
    BY <2>1, CapsShared
  <2>3. TotalOf(k, P \ {G}) = -TotalOf(shares, P \ {G})
    <3>1. \A g \in P \ {G} : shares[g] \in Int /\ k[g] = -shares[g]
      BY <1>8, <2>1
    <3> QED
      BY <2>1, <3>1, TotalNegated
  <2>4. TotalOf(k, P) = k[G] + TotalOf(k, P \ {G})
    BY <1>3, <1>5, <1>9, TotalRemove
  <2>5. TotalOf(k, P) \in Nat
    BY <1>8, <2>2, <2>3, <2>4
  <2> QED
    BY <2>5
<1>11. /\ TotalOf(nets, P) \in Int /\ TotalOf(lower, P) = TotalOf(nets, P) + d * TotalOf(k, P)
  BY <1>3, <1>5, <1>6, TotalLinear
<1>12. /\ TotalOf(lower, P) <= TotalOf(after, P) /\ TotalOf(lower, P) \in Int
       /\ TotalOf(after, P) \in Int
  BY <1>3, <1>6, <1>7, TotalOrder
<1>13. Numerator(raw) = TotalOf(nets, P) /\ Numerator(other) = TotalOf(after, P)
  <2>1. IsFiniteSet(GroupsIn(raw)) /\ IsFiniteSet(GroupsIn(other)) /\ P = GroupsIn(raw)
    BY GroupsFinite DEF P
  <2>2. \A g \in GroupsIn(raw) : nets[g] = GroupNet(raw, g) /\ after[g] = GroupNet(other, g)
    BY <1>6, <2>1
  <2>3. Numerator(raw) = TotalOf(nets, GroupsIn(raw)) /\ Numerator(other) = TotalOf(after, GroupsIn(other))
    BY <1>3, <2>1, <2>2, NumeratorIs
  <2> QED
    BY <1>3, <2>1, <2>3
<1>14. d * w >= 0 /\ d * w \in Int
  BY Z3
<1> QED
  BY <1>10, <1>11, <1>12, <1>13, <1>14

LEMMA DirectionRises ==
    ASSUME NEW raw, RawSound(raw), NEW other, RawSound(other), NEW x, NEW y, Risen(raw, other, x, y),
           GroupOf[x.row.factor] \notin DOMAIN GroupCap
    PROVE  RawDirection(raw) <= RawDirection(other)
<1>1. PICK n \in Int, m \in Int, w \in Nat :
        n = Numerator(raw) /\ m = Numerator(other) /\ w = Mass(raw)
  BY DirectionBounded
<1>2. n <= m
  BY <1>1, NumeratorRises
<1>3. Mass(other) = w
  <2>1. x.after \in Int /\ y.after \in Int /\ x.after <= y.after
    BY DEF RawSound, Risen, OneApart
  <2>2. PICK d \in Nat : d = y.after - x.after
    <3>1. y.after - x.after \in Nat
      BY <2>1
    <3> QED
      BY <3>1
  <2> QED
    BY <1>1, <2>2, RisenTotals
<1>4. 10 * n \in Int /\ 10 * m \in Int /\ 10 * n <= 10 * m
  BY <1>2
<1>5. Ratio(10 * n, w) <= Ratio(10 * m, w)
  BY <1>4, RatioOrder
<1> QED
  BY <1>1, <1>3, <1>5, RawDirectionIs

-----------------------------------------------------------------------------
(* The score follows the directions.                                          *)
LEMMA HorizonsFinite == IsFiniteSet(Horizons) /\ \A h \in Horizons : Blend[h] \in Nat
<1>1. IsFiniteSet({"tactical"})
  BY FS_Singleton
<1>2. IsFiniteSet({"tactical"} \cup {"swing"})
  BY <1>1, FS_Singleton, FS_Union
<1>3. IsFiniteSet({"tactical"} \cup {"swing"} \cup {"strategic"})
  BY <1>2, FS_Singleton, FS_Union
<1>4. Horizons = {"tactical"} \cup {"swing"} \cup {"strategic"}
  BY DEF Horizons
<1> QED
  BY <1>3, <1>4 DEF Horizons, Blend

Blends(results) == [h \in Horizons |-> Blend[h] * results[h].direction]

LEMMA ScoreIs ==
    ASSUME NEW results, \A h \in Horizons : results[h].direction \in Int
    PROVE  /\ \A h \in Horizons : /\ Blends(results)[h] \in Int
                                  /\ Blends(results)[h] = Blend[h] * results[h].direction
           /\ TotalOf(Blends(results), Horizons) \in Int
           /\ Score(results) =
                Within(0, 500 + Ratio(Ratio(TotalOf(Blends(results), Horizons), 20), 2), 1000)
<1>1. DOMAIN Blends(results) = Horizons
  BY DEF Blends
<1>2. SumFunction(Blends(results)) = TotalOf(Blends(results), Horizons)
  BY <1>1, SumIsTotal
<1>3. Score(results) =
        Within(0, 500 + Ratio(Ratio(SumFunction(Blends(results)), 20), 2), 1000)
  BY DEF Score, Blends
<1>4. \A h \in Horizons : /\ Blends(results)[h] \in Int
                          /\ Blends(results)[h] = Blend[h] * results[h].direction
  <2> TAKE h \in Horizons
  <2>1. PICK b \in Nat, v \in Int : b = Blend[h] /\ v = results[h].direction
    BY HorizonsFinite
  <2>2. Blends(results)[h] = b * v /\ b * v \in Int
    BY <2>1, Z3 DEF Blends
  <2> QED
    BY <2>1, <2>2
<1>5. TotalOf(Blends(results), Horizons) \in Int
  BY <1>4, HorizonsFinite, TotalInt
<1> QED
  BY <1>2, <1>3, <1>4, <1>5

LEMMA ScoreRises ==
    ASSUME NEW results, \A h \in Horizons : results[h].direction \in Int,
           NEW others, \A h \in Horizons : others[h].direction \in Int,
           \A h \in Horizons : results[h].direction <= others[h].direction
    PROVE  Score(results) <= Score(others)
<1>1. \A h \in Horizons : /\ Blends(results)[h] \in Int /\ Blends(others)[h] \in Int
                          /\ Blends(results)[h] <= Blends(others)[h]
  <2> TAKE h \in Horizons
  <2>1. PICK b \in Nat, v \in Int, w \in Int :
          b = Blend[h] /\ v = results[h].direction /\ w = others[h].direction
    BY HorizonsFinite
  <2>2. b * v <= b * w
    BY <2>1, Z3
  <2>3. Blends(results)[h] \in Int /\ Blends(results)[h] = b * v
    BY <2>1, ScoreIs
  <2>4. Blends(others)[h] \in Int /\ Blends(others)[h] = b * w
    BY <2>1, ScoreIs
  <2> QED
    BY <2>2, <2>3, <2>4
<1>2. PICK n \in Int, m \in Int :
        n = TotalOf(Blends(results), Horizons) /\ m = TotalOf(Blends(others), Horizons) /\ n <= m
  BY <1>1, HorizonsFinite, TotalOrder
<1>3. PICK b \in Int, c \in Int : b = Ratio(n, 20) /\ c = Ratio(m, 20) /\ b <= c
  BY <1>2, RatioType, RatioOrder
<1>4. PICK u \in Int, v \in Int : u = Ratio(b, 2) /\ v = Ratio(c, 2) /\ u <= v
  BY <1>3, RatioType, RatioOrder
<1>5. Score(results) = Within(0, 500 + u, 1000) /\ Score(others) = Within(0, 500 + v, 1000)
  BY <1>2, <1>3, <1>4, ScoreIs
<1> QED
  BY <1>4, <1>5 DEF Within

LEMMA ScoreMirrored ==
    ASSUME NEW results, \A h \in Horizons : results[h].direction \in Int,
           NEW others, \A h \in Horizons : others[h].direction = -results[h].direction
    PROVE  Score(others) = 1000 - Score(results)
<1>0. \A h \in Horizons : others[h].direction \in Int
  OBVIOUS
<1>1. \A h \in Horizons : /\ Blends(results)[h] \in Int
                          /\ Blends(others)[h] = -Blends(results)[h]
  <2> TAKE h \in Horizons
  <2>1. PICK b \in Nat, v \in Int : b = Blend[h] /\ v = results[h].direction
    BY HorizonsFinite
  <2>2. b * (-v) = -(b * v)
    BY Z3
  <2>3. Blends(results)[h] \in Int /\ Blends(results)[h] = b * v
    BY <2>1, ScoreIs
  <2>4. Blends(others)[h] = b * (-v)
    BY <1>0, <2>1, ScoreIs
  <2> QED
    BY <2>2, <2>3, <2>4
<1>2. PICK n \in Int : n = TotalOf(Blends(results), Horizons) /\ TotalOf(Blends(others), Horizons) = -n
  BY <1>1, HorizonsFinite, TotalNegated
<1>3. PICK b \in Int : b = Ratio(n, 20) /\ Ratio(-n, 20) = -b
  BY <1>2, RatioType, RatioNegated
<1>4. PICK u \in Int : u = Ratio(b, 2) /\ Ratio(-b, 2) = -u
  BY RatioType, RatioNegated
<1>5. Score(results) = Within(0, 500 + u, 1000) /\ Score(others) = Within(0, 500 + (-u), 1000)
  BY <1>0, <1>2, <1>3, <1>4, ScoreIs
<1>6. Within(0, 500 + (-u), 1000) = 1000 - Within(0, 500 + u, 1000)
  BY <1>4 DEF Within
<1> QED
  BY <1>5, <1>6

LEMMA HorizonResultsAre ==
    ASSUME NEW rows, RowsSound(rows), NEW a \in ScoredAssets, NEW h \in Horizons
    PROVE  /\ HorizonResults(rows, a)[h].direction = RawDirection(RawRows(rows, a, h))
           /\ HorizonResults(rows, a)[h].direction \in Int
           /\ HorizonResults(rows, a)[h].rows = CappedRows(RawRows(rows, a, h))
<1>1. RawSound(RawRows(rows, a, h))
  BY RawRowsSound
<1>2. PICK v \in Int : v = RawDirection(RawRows(rows, a, h)) /\ -1000 <= v /\ v <= 1000
  BY <1>1, DirectionBounded
<1>3. Direction(RawRows(rows, a, h)) = v
  BY <1>2 DEF Direction, Within
<1>4. HorizonResults(rows, a)[h] = [direction |-> Direction(RawRows(rows, a, h)),
                                    rows |-> CappedRows(RawRows(rows, a, h))]
  BY DEF HorizonResults
<1> QED
  BY <1>2, <1>3, <1>4

-----------------------------------------------------------------------------
(* A row with a better state.                                                 *)
Better(r) == [r EXCEPT !.state = @ + 1]

LEMMA BetterRow ==
    ASSUME NEW r, ScoredRow(r), r.state < 5
    PROVE  /\ ScoredRow(Better(r)) /\ Better(r).factor = r.factor /\ Better(r).asset = r.asset
           /\ Better(r).state = r.state + 1 /\ Better(r).reliability = r.reliability
           /\ Better(r).coverage = r.coverage /\ Better(r).status = r.status
           /\ Better(r).flags = r.flags /\ r.state \in -5 .. 5
<1>1. r = [factor |-> r.factor, asset |-> r.asset, state |-> r.state, reliability |-> r.reliability,
           coverage |-> r.coverage, status |-> r.status, flags |-> r.flags]
  BY DEF ScoredRow
<1>2. Better(r) = [factor |-> r.factor, asset |-> r.asset, state |-> r.state + 1,
                   reliability |-> r.reliability, coverage |-> r.coverage, status |-> r.status,
                   flags |-> r.flags]
  BY <1>1 DEF Better
<1>3. r.state \in -5 .. 5 /\ r.state + 1 \in -5 .. 5
  BY DEF ScoredRow
<1>4. /\ Better(r).factor = r.factor /\ Better(r).asset = r.asset
      /\ Better(r).state = r.state + 1 /\ Better(r).reliability = r.reliability
      /\ Better(r).coverage = r.coverage /\ Better(r).status = r.status
      /\ Better(r).flags = r.flags
  BY <1>2
<1>5. ScoredRow(Better(r))
  BY <1>2, <1>3, <1>4 DEF ScoredRow
<1> QED
  BY <1>3, <1>4, <1>5

LEMMA RaisedRows ==
    ASSUME NEW rows, RowsSound(rows), NEW r \in rows, r.state < 5, NEW a
    PROVE  /\ RowsSound(Raised(rows, r))
           /\ r \notin RowsFor(rows, a) => RowsFor(Raised(rows, r), a) = RowsFor(rows, a)
           /\ r \in RowsFor(rows, a) =>
                /\ Better(r) \in RowsFor(Raised(rows, r), a)
                /\ RowsFor(Raised(rows, r), a) \ {Better(r)} = RowsFor(rows, a) \ {r}
<1> DEFINE other == Raised(rows, r)
<1>1. other = (rows \ {r}) \cup {Better(r)}
  BY DEF Raised, Better
<1>2. /\ ScoredRow(Better(r)) /\ Better(r).factor = r.factor /\ Better(r).asset = r.asset
      /\ Better(r).state = r.state + 1 /\ r.state \in -5 .. 5
  BY BetterRow DEF RowsSound
<1>3. Better(r) # r /\ Better(r) \notin rows
  <2>1. Better(r) # r
    BY <1>2
  <2> QED
    BY <1>2, <2>1 DEF RowsSound
<1>4. RowsSound(other)
  <2>1. IsFiniteSet(other)
    <3>1. IsFiniteSet(rows) /\ rows \ {r} \subseteq rows
      BY DEF RowsSound
    <3>2. IsFiniteSet(rows \ {r})
      BY <3>1, FS_Subset
    <3>3. IsFiniteSet({Better(r)})
      BY FS_Singleton
    <3> QED
      BY <1>1, <3>2, <3>3, FS_Union
  <2>2. \A q \in other : ScoredRow(q)
    BY <1>1, <1>2 DEF RowsSound
  <2>3. ASSUME NEW p \in other, NEW q \in other, p.factor = q.factor, p.asset = q.asset
        PROVE  p = q
    <3>1. CASE p \in rows /\ q \in rows
      BY <2>3, <3>1 DEF RowsSound
    <3>2. CASE p = Better(r) /\ q = Better(r)
      BY <3>2
    <3>3. CASE p = Better(r) /\ q \in rows
      <4>1. q = r
        BY <1>2, <2>3, <3>3 DEF RowsSound
      <4> QED
        BY <1>1, <1>3, <4>1
    <3>4. CASE p \in rows /\ q = Better(r)
      <4>1. p = r
        BY <1>2, <2>3, <3>4 DEF RowsSound
      <4> QED
        BY <1>1, <1>3, <4>1
    <3> QED
      BY <1>1, <3>1, <3>2, <3>3, <3>4
  <2> QED
    BY <2>1, <2>2, <2>3 DEF RowsSound
<1> DEFINE Owned(some, f) == \E q \in some : q.asset = a /\ q.factor = f
<1>5. \A f : Owned(other, f) <=> Owned(rows, f)
  BY <1>1, <1>2
<1>6. \A some, q : q \in RowsFor(some, a) <=>
        q \in some /\ (q.asset = a \/ (q.asset = Everywhere /\ ~Owned(some, q.factor)))
  BY DEF RowsFor
<1>7. \A q \in rows \ {r} : q \in RowsFor(other, a) <=> q \in RowsFor(rows, a)
  BY <1>1, <1>5, <1>6
<1>8. Better(r) \in RowsFor(other, a) <=> r \in RowsFor(rows, a)
  BY <1>1, <1>2, <1>5, <1>6
<1>9. /\ \A q \in RowsFor(rows, a) : q = r \/ q \in rows \ {r}
      /\ \A q \in RowsFor(other, a) : q = Better(r) \/ q \in rows \ {r}
      /\ r \notin RowsFor(other, a) /\ Better(r) \notin RowsFor(rows, a)
  BY <1>1, <1>3, <1>6
<1> HIDE DEF Owned, other
<1>10. r \notin RowsFor(rows, a) => RowsFor(other, a) = RowsFor(rows, a)
  BY <1>7, <1>8, <1>9
<1>11. r \in RowsFor(rows, a) =>
         /\ Better(r) \in RowsFor(other, a)
         /\ RowsFor(other, a) \ {Better(r)} = RowsFor(rows, a) \ {r}
  BY <1>7, <1>8, <1>9
<1> QED
  BY <1>4, <1>10, <1>11 DEF other

(* What a computation sees of rows are the asset's rows.                      *)
LEMMA SameRows ==
    ASSUME NEW p, NEW q, NEW a, RowsFor(p, a) = RowsFor(q, a)
    PROVE  /\ HorizonResults(p, a) = HorizonResults(q, a)
           /\ AssetScore(p, a) = AssetScore(q, a)
<1> DEFINE StateIn(R, f) == SumFunction([r \in {s \in R : s.factor = f} |-> r.state])
           FlaggedIn(R, f, flag) == \E r \in R : r.factor = f /\ flag \in r.flags
           LiquidityIn(R) ==
             /\ a # GoldAsset
             /\ StateIn(R, "EQ01_CN_FUNDING_LIQUIDITY") > 2
             /\ StateIn(R, "EQ04_CN_GROWTH_MOMENTUM") < -2
             /\ StateIn(R, "EQ06_INDEX_EARNINGS") < -1
           ScareIn(R) ==
             /\ a # GoldAsset
             /\ 20 * StateIn(R, "EQ03_CN_DISCOUNT_RATE") > 30
             /\ 20 * StateIn(R, "EQ04_CN_GROWTH_MOMENTUM") < -30
             /\ StateIn(R, "EQ06_INDEX_EARNINGS") < -1
           table == IF a = GoldAsset THEN GoldFlagPenalty ELSE FlagPenalty
           RaisedIn(R) == {flag \in DOMAIN table : \E f \in ScoredFactors : FlaggedIn(R, f, flag)}
           PenaltyIn(R) ==
             SumFunction([flag \in RaisedIn(R) |-> table[flag]])
               + (IF LiquidityIn(R) THEN 80 ELSE 0) + (IF ScareIn(R) THEN 40 ELSE 0)
           MultiplierIn(R, f) ==
             CASE f = "EQ01_CN_FUNDING_LIQUIDITY" /\ LiquidityIn(R) -> 12
               [] f = "EQ03_CN_DISCOUNT_RATE" /\ ScareIn(R) -> 11
               [] OTHER -> 20
           CountingIn(R, h) ==
             {r \in R :
                /\ r.status # "UNAVAILABLE" /\ r.coverage > 0 /\ r.reliability > 0
                /\ Sensitivity[a][r.factor] # 0 /\ HorizonWeight[r.factor][h] # 0}
           RawIn(R, h) ==
             {[row |-> r, weight |-> FullWeight(a, h, r),
               after |-> Ratio(FullWeight(a, h, r) * r.state * MultiplierIn(R, r.factor), 20)]
                 : r \in CountingIn(R, h)}
           ResultsIn(R) ==
             [h \in Horizons |-> [direction |-> Direction(RawIn(R, h)), rows |-> CappedRows(RawIn(R, h))]]
           CoveredOf(R) == SumFunction([r \in R |-> Abs(Sensitivity[a][r.factor]) * r.coverage])
           MissingIn(R) == \E f \in CriticalFactors[a] : ~\E r \in R : r.factor = f /\ r.coverage > 0
<1>1. \A rows, f : StateOf(rows, a, f) = StateIn(RowsFor(rows, a), f)
  BY DEF StateOf
<1>2. \A rows, f, flag : Flagged(rows, a, f, flag) <=> FlaggedIn(RowsFor(rows, a), f, flag)
  BY DEF Flagged
<1> HIDE DEF StateIn, FlaggedIn
<1>3. \A rows : /\ LiquidityUnconfirmed(rows, a) <=> LiquidityIn(RowsFor(rows, a))
                /\ GrowthScare(rows, a) <=> ScareIn(RowsFor(rows, a))
  BY <1>1 DEF LiquidityUnconfirmed, GrowthScare
<1> HIDE DEF LiquidityIn, ScareIn
<1>4. \A rows : ConfidencePenalty(rows, a) = PenaltyIn(RowsFor(rows, a))
  BY <1>2, <1>3 DEF ConfidencePenalty
<1>5. \A rows, f : Multiplier20(rows, a, f) = MultiplierIn(RowsFor(rows, a), f)
  BY <1>3 DEF Multiplier20
<1>6. \A rows, h : Counting(rows, a, h) = CountingIn(RowsFor(rows, a), h)
  BY DEF Counting
<1> HIDE DEF MultiplierIn, CountingIn, PenaltyIn
<1>7. \A rows, h : RawRows(rows, a, h) = RawIn(RowsFor(rows, a), h)
  BY <1>5, <1>6, RawRowsAre DEF RawItem
<1> HIDE DEF RawIn
<1>8. \A rows : HorizonResults(rows, a) = ResultsIn(RowsFor(rows, a))
  BY <1>7 DEF HorizonResults
<1>9. \A rows : CoveredIn(rows, a) = CoveredOf(RowsFor(rows, a))
  BY DEF CoveredIn
<1>10. \A rows : CriticalMissing(rows, a) <=> MissingIn(RowsFor(rows, a))
  BY DEF CriticalMissing
<1> HIDE DEF ResultsIn, CoveredOf, MissingIn
<1>11. /\ HorizonResults(p, a) = HorizonResults(q, a)
       /\ ConfidencePenalty(p, a) = ConfidencePenalty(q, a)
       /\ CoveredIn(p, a) = CoveredIn(q, a)
       /\ CriticalMissing(p, a) <=> CriticalMissing(q, a)
  BY <1>4, <1>8, <1>9, <1>10
<1>12. \A c : Confidence(p, c, a) = Confidence(q, c, a)
  BY <1>11 DEF Confidence
<1>13. AssetScore(p, a) = AssetScore(q, a)
  BY <1>11, <1>12 DEF AssetScore
<1> QED
  BY <1>11, <1>13

(* The rows of other assets have no say.                                      *)
LEMMA OwnRowsDecide ==
    ASSUME NEW rows, NEW a
    PROVE  AssetScore(rows, a) = AssetScore({r \in rows : r.asset \in {a, Everywhere}}, a)
<1> DEFINE own == {r \in rows : r.asset \in {a, Everywhere}}
<1>1. \A f : (\E q \in rows : q.asset = a /\ q.factor = f) <=> (\E q \in own : q.asset = a /\ q.factor = f)
  OBVIOUS
<1>2. RowsFor(own, a) = RowsFor(rows, a)
  BY <1>1 DEF RowsFor
<1> QED
  BY <1>2, SameRows

SameRules(some, other, a) ==
  \A f \in ScoredFactors : Multiplier20(some, a, f) = Multiplier20(other, a, f)

LEMMA CountingSound ==
    ASSUME NEW rows, RowsSound(rows), NEW a \in ScoredAssets, NEW h \in Horizons
    PROVE  /\ Counting(rows, a, h) \in SUBSET RowsFor(rows, a)
           /\ \A r \in Counting(rows, a, h) : ScoredRow(r) /\ r.factor \in ScoredFactors
           /\ \A r : RawItem(rows, a, h, r).row = r
  BY RowsForSound DEF Counting, RawItem, ScoredRow

LEMMA RawRises ==
    ASSUME NEW rows, RowsSound(rows), NEW r \in rows, r.state < 5, NEW a \in ScoredAssets,
           Sensitivity[a][r.factor] >= 0, SameRules(rows, Raised(rows, r), a),
           NEW h \in Horizons, r \in RowsFor(rows, a)
    PROVE  \/ RawRows(Raised(rows, r), a, h) = RawRows(rows, a, h)
           \/ Risen(RawRows(rows, a, h), RawRows(Raised(rows, r), a, h),
                    RawItem(rows, a, h, r), RawItem(Raised(rows, r), a, h, Better(r)))
<1> DEFINE other == Raised(rows, r)
           C == Counting(rows, a, h)
           D == Counting(other, a, h)
<1>1. /\ RowsSound(other) /\ Better(r) \in RowsFor(other, a)
      /\ RowsFor(other, a) \ {Better(r)} = RowsFor(rows, a) \ {r}
  BY RaisedRows
<1>2. /\ ScoredRow(Better(r)) /\ Better(r).factor = r.factor
      /\ Better(r).state = r.state + 1 /\ Better(r).reliability = r.reliability
      /\ Better(r).coverage = r.coverage /\ Better(r).status = r.status /\ r.state \in -5 .. 5
  BY BetterRow DEF RowsSound
<1>3. D \ {Better(r)} = C \ {r}
  <2>1. \A q : q \in RowsFor(other, a) /\ q # Better(r) <=> q \in RowsFor(rows, a) /\ q # r
    BY <1>1
  <2> QED
    BY <2>1 DEF Counting
<1>4. Better(r) \in D <=> r \in C
  BY <1>1, <1>2 DEF Counting
<1>5. \A q \in C \ {r} : RawItem(rows, a, h, q) = RawItem(other, a, h, q)
  <2> TAKE q \in C \ {r}
  <2>1. q.factor \in ScoredFactors
    BY CountingSound
  <2>2. Multiplier20(rows, a, q.factor) = Multiplier20(other, a, q.factor)
    BY <2>1 DEF SameRules
  <2> QED
    BY <2>2 DEF RawItem
<1>6. /\ RawRows(rows, a, h) = {RawItem(rows, a, h, q) : q \in C}
      /\ RawRows(other, a, h) = {RawItem(other, a, h, q) : q \in D}
  BY RawRowsAre
<1>7. \A q : RawItem(rows, a, h, q).row = q /\ RawItem(other, a, h, q).row = q
  BY CountingSound, <1>1
<1> HIDE DEF C, D, other
<1>8. CASE r \notin C
  <2>1. C = D
    BY <1>3, <1>4, <1>8
  <2>2. \A q \in C : RawItem(rows, a, h, q) = RawItem(other, a, h, q)
    BY <1>5, <1>8
  <2>3. RawRows(other, a, h) = RawRows(rows, a, h)
    <3>1. ASSUME NEW x \in RawRows(rows, a, h) PROVE x \in RawRows(other, a, h)
      BY <1>6, <2>1, <2>2
    <3>2. ASSUME NEW x \in RawRows(other, a, h) PROVE x \in RawRows(rows, a, h)
      BY <1>6, <2>1, <2>2
    <3> QED
      BY <3>1, <3>2
  <2> QED
    BY <2>3 DEF other
<1>9. CASE r \in C
  <2> DEFINE x == RawItem(rows, a, h, r)
             y == RawItem(other, a, h, Better(r))
  <2>1. x \in RawRows(rows, a, h) /\ y \in RawRows(other, a, h) /\ x.row = r /\ y.row = Better(r)
    BY <1>4, <1>6, <1>7, <1>9
  <2>2. RawRows(rows, a, h) \ {x} = RawRows(other, a, h) \ {y}
    <3>1. ASSUME NEW z \in RawRows(rows, a, h), z # x PROVE z \in RawRows(other, a, h) /\ z # y
      <4>1. PICK q \in C : z = RawItem(rows, a, h, q)
        BY <1>6
      <4>2. q # r /\ q \in D /\ q # Better(r)
        BY <1>3, <3>1, <4>1
      <4>3. z = RawItem(other, a, h, q)
        BY <1>5, <4>1, <4>2
      <4>4. z.row = q
        BY <1>7, <4>1
      <4> QED
        BY <1>6, <2>1, <4>2, <4>3, <4>4
    <3>2. ASSUME NEW z \in RawRows(other, a, h), z # y PROVE z \in RawRows(rows, a, h) /\ z # x
      <4>1. PICK q \in D : z = RawItem(other, a, h, q)
        BY <1>6
      <4>2. q # Better(r) /\ q \in C /\ q # r
        BY <1>3, <3>2, <4>1
      <4>3. z = RawItem(rows, a, h, q)
        BY <1>5, <4>1, <4>2
      <4>4. z.row = q
        BY <1>7, <4>1
      <4> QED
        BY <1>6, <2>1, <4>2, <4>3, <4>4
    <3> QED
      BY <3>1, <3>2
  <2>3. OneApart(RawRows(rows, a, h), RawRows(other, a, h), x, y)
    BY <2>1, <2>2 DEF OneApart
  <2>4. y.weight = x.weight /\ x.after <= y.after
    <3>1. PICK w \in Int : w = FullWeight(a, h, r) /\ w >= 0
      <4>1. ScoredRow(r)
        BY DEF RowsSound
      <4> QED
        BY <4>1, WeightType
    <3>2. FullWeight(a, h, Better(r)) = w
      BY <1>2, <3>1 DEF FullWeight
    <3>3. r.factor \in ScoredFactors
      BY DEF RowsSound, ScoredRow
    <3>4. PICK m \in 0 .. 20 : m = Multiplier20(rows, a, r.factor) /\ m = Multiplier20(other, a, r.factor)
      <4>1. Multiplier20(rows, a, r.factor) \in 0 .. 20
        BY MultiplierType
      <4>2. Multiplier20(rows, a, r.factor) = Multiplier20(other, a, r.factor)
        BY <3>3 DEF SameRules, other
      <4> QED
        BY <4>1, <4>2
    <3>5. PICK s \in Int : s = r.state
      BY <1>2
    <3>6. x = [row |-> r, weight |-> w, after |-> Ratio(w * s * m, 20)]
      BY <3>1, <3>4, <3>5 DEF RawItem
    <3>7. y = [row |-> Better(r), weight |-> w, after |-> Ratio(w * (s + 1) * m, 20)]
      BY <1>2, <3>2, <3>4, <3>5 DEF RawItem
    <3>8. w * s * m \in Int /\ w * (s + 1) * m \in Int /\ w * s * m <= w * (s + 1) * m
      <4>1. PICK u \in Int, v \in Int : u = w * s /\ v = w * (s + 1) /\ u <= v
        <5>1. w * (s + 1) = w * s + w /\ w * s \in Int /\ w * (s + 1) \in Int
          BY Z3
        <5>2. w * s <= w * (s + 1)
          BY <3>1, <5>1
        <5> QED
          BY <5>1, <5>2
      <4>2. u * m \in Int /\ v * m \in Int /\ u * m <= v * m
        BY <4>1, Z3
      <4> QED
        BY <4>1, <4>2
    <3>9. Ratio(w * s * m, 20) <= Ratio(w * (s + 1) * m, 20)
      BY <3>8, RatioOrder
    <3> HIDE DEF x, y
    <3> QED
      BY <3>6, <3>7, <3>9
  <2>5. y.row.factor = x.row.factor
    BY <1>2, <2>1
  <2>6. Risen(RawRows(rows, a, h), RawRows(other, a, h), x, y)
    BY <2>3, <2>4, <2>5 DEF Risen
  <2> QED
    BY <2>6 DEF other
<1> QED
  BY <1>8, <1>9

(* A better state of a factor outside the capped groups never lowers the score. *)
LEMMA ScoreNeverFalls ==
    ASSUME NEW rows, RowsSound(rows), NEW r \in rows, r.state < 5, NEW a \in ScoredAssets,
           Sensitivity[a][r.factor] >= 0, GroupOf[r.factor] \notin DOMAIN GroupCap,
           SameRules(rows, Raised(rows, r), a)
    PROVE  Score(HorizonResults(rows, a)) <= Score(HorizonResults(Raised(rows, r), a))
<1> DEFINE other == Raised(rows, r)
<1>1. RowsSound(other)
  BY RaisedRows
<1>2. ASSUME NEW h \in Horizons
      PROVE  /\ HorizonResults(rows, a)[h].direction \in Int
             /\ HorizonResults(other, a)[h].direction \in Int
             /\ HorizonResults(rows, a)[h].direction <= HorizonResults(other, a)[h].direction
  <2>1. /\ HorizonResults(rows, a)[h].direction = RawDirection(RawRows(rows, a, h))
        /\ HorizonResults(rows, a)[h].direction \in Int
    BY HorizonResultsAre
  <2>2. /\ HorizonResults(other, a)[h].direction = RawDirection(RawRows(other, a, h))
        /\ HorizonResults(other, a)[h].direction \in Int
    BY <1>1, HorizonResultsAre
  <2>3. RawSound(RawRows(rows, a, h)) /\ RawSound(RawRows(other, a, h))
    BY <1>1, RawRowsSound
  <2>4. CASE r \notin RowsFor(rows, a)
    <3>1. RowsFor(other, a) = RowsFor(rows, a)
      BY <2>4, RaisedRows
    <3>2. HorizonResults(other, a) = HorizonResults(rows, a)
      BY <3>1, SameRows
    <3> QED
      BY <2>1, <3>2
  <2>5. CASE RawRows(other, a, h) = RawRows(rows, a, h)
    BY <2>1, <2>2, <2>5
  <2>6. CASE Risen(RawRows(rows, a, h), RawRows(other, a, h),
                   RawItem(rows, a, h, r), RawItem(other, a, h, Better(r)))
    <3>1. GroupOf[RawItem(rows, a, h, r).row.factor] \notin DOMAIN GroupCap
      BY DEF RawItem
    <3>2. RawDirection(RawRows(rows, a, h)) <= RawDirection(RawRows(other, a, h))
      BY <2>3, <2>6, <3>1, DirectionRises
    <3> QED
      BY <2>1, <2>2, <3>2
  <2> QED
    BY <2>4, <2>5, <2>6, RawRises
<1> HIDE DEF other
<1>3. Score(HorizonResults(rows, a)) <= Score(HorizonResults(other, a))
  BY <1>2, ScoreRises
<1> QED
  BY <1>3 DEF other

-----------------------------------------------------------------------------
(* Opposite rows.                                                             *)
Mirror(r) == [r EXCEPT !.state = -r.state]

LEMMA MirrorRow ==
    ASSUME NEW r, ScoredRow(r)
    PROVE  /\ ScoredRow(Mirror(r)) /\ Mirror(r).factor = r.factor /\ Mirror(r).asset = r.asset
           /\ Mirror(r).state = -r.state /\ Mirror(r).reliability = r.reliability
           /\ Mirror(r).coverage = r.coverage /\ Mirror(r).status = r.status
           /\ Mirror(r).flags = r.flags /\ r.state \in -5 .. 5
<1>1. r = [factor |-> r.factor, asset |-> r.asset, state |-> r.state, reliability |-> r.reliability,
           coverage |-> r.coverage, status |-> r.status, flags |-> r.flags]
  BY DEF ScoredRow
<1>2. Mirror(r) = [factor |-> r.factor, asset |-> r.asset, state |-> -r.state,
                   reliability |-> r.reliability, coverage |-> r.coverage, status |-> r.status,
                   flags |-> r.flags]
  BY <1>1 DEF Mirror
<1>3. r.state \in -5 .. 5 /\ -r.state \in -5 .. 5
  BY DEF ScoredRow
<1>4. /\ Mirror(r).factor = r.factor /\ Mirror(r).asset = r.asset
      /\ Mirror(r).state = -r.state /\ Mirror(r).reliability = r.reliability
      /\ Mirror(r).coverage = r.coverage /\ Mirror(r).status = r.status
      /\ Mirror(r).flags = r.flags
  BY <1>2
<1>5. ScoredRow(Mirror(r))
  BY <1>2, <1>3, <1>4 DEF ScoredRow
<1> QED
  BY <1>3, <1>4, <1>5

LEMMA MirrorTells ==
    ASSUME NEW q, ScoredRow(q), NEW r, ScoredRow(r), Mirror(q) = Mirror(r)
    PROVE  q = r
<1>1. /\ q.factor = r.factor /\ q.asset = r.asset /\ q.reliability = r.reliability
      /\ q.coverage = r.coverage /\ q.status = r.status /\ q.flags = r.flags
  <2>1. /\ Mirror(q).factor = q.factor /\ Mirror(q).asset = q.asset
        /\ Mirror(q).reliability = q.reliability /\ Mirror(q).coverage = q.coverage
        /\ Mirror(q).status = q.status /\ Mirror(q).flags = q.flags
    BY MirrorRow
  <2>2. /\ Mirror(r).factor = r.factor /\ Mirror(r).asset = r.asset
        /\ Mirror(r).reliability = r.reliability /\ Mirror(r).coverage = r.coverage
        /\ Mirror(r).status = r.status /\ Mirror(r).flags = r.flags
    BY MirrorRow
  <2> QED
    BY <2>1, <2>2
<1>2. q.state = r.state
  <2>1. Mirror(q).state = -q.state /\ q.state \in Int /\ Mirror(r).state = -r.state /\ r.state \in Int
    BY MirrorRow
  <2> QED
    BY <2>1
<1>3. /\ q = [factor |-> q.factor, asset |-> q.asset, state |-> q.state, reliability |-> q.reliability,
              coverage |-> q.coverage, status |-> q.status, flags |-> q.flags]
      /\ r = [factor |-> r.factor, asset |-> r.asset, state |-> r.state, reliability |-> r.reliability,
              coverage |-> r.coverage, status |-> r.status, flags |-> r.flags]
  BY DEF ScoredRow
<1> QED
  BY <1>1, <1>2, <1>3

LEMMA MirroredRows ==
    ASSUME NEW rows, RowsSound(rows), NEW a
    PROVE  /\ RowsSound(Mirrored(rows))
           /\ \A r \in RowsFor(rows, a) : Mirror(r) \in RowsFor(Mirrored(rows), a)
           /\ \A q \in RowsFor(Mirrored(rows), a) : \E r \in RowsFor(rows, a) : q = Mirror(r)
<1> DEFINE other == Mirrored(rows)
           m == [r \in rows |-> Mirror(r)]
<1>1. other = {m[r] : r \in rows} /\ \A r \in rows : m[r] = Mirror(r)
  BY DEF Mirrored, Mirror
<1>2. \A r \in rows : /\ ScoredRow(r) /\ ScoredRow(Mirror(r))
                      /\ Mirror(r).factor = r.factor /\ Mirror(r).asset = r.asset
  BY MirrorRow DEF RowsSound
<1> HIDE DEF other, m
<1>3. IsFiniteSet(other)
  BY <1>1, ImageFinite DEF RowsSound
<1>4. /\ \A r \in rows : Mirror(r) \in other
      /\ \A q \in other : \E r \in rows : q = Mirror(r)
  BY <1>1
<1>5. ASSUME NEW p \in other, NEW q \in other, p.factor = q.factor, p.asset = q.asset
      PROVE  p = q
  <2>1. PICK r \in rows, s \in rows : p = Mirror(r) /\ q = Mirror(s)
    BY <1>4
  <2>2. r.factor = s.factor /\ r.asset = s.asset
    BY <1>2, <1>5, <2>1
  <2> QED
    BY <2>1, <2>2 DEF RowsSound
<1>6. RowsSound(other)
  <2>1. \A q \in other : ScoredRow(q)
    BY <1>2, <1>4
  <2> QED
    BY <1>3, <1>5, <2>1 DEF RowsSound
<1> DEFINE Owned(some, f) == \E q \in some : q.asset = a /\ q.factor = f
<1>7. \A f : Owned(other, f) <=> Owned(rows, f)
  <2>1. ASSUME NEW f, Owned(other, f) PROVE Owned(rows, f)
    BY <1>2, <1>4, <2>1
  <2>2. ASSUME NEW f, Owned(rows, f) PROVE Owned(other, f)
    BY <1>2, <1>4, <2>2
  <2> QED
    BY <2>1, <2>2
<1>8. \A some, q : q \in RowsFor(some, a) <=>
        q \in some /\ (q.asset = a \/ (q.asset = Everywhere /\ ~Owned(some, q.factor)))
  BY DEF RowsFor
<1> HIDE DEF Owned
<1>9. \A r \in rows : r \in RowsFor(rows, a) <=> Mirror(r) \in RowsFor(other, a)
  BY <1>2, <1>4, <1>7, <1>8
<1>10. \A r \in RowsFor(rows, a) : r \in rows /\ Mirror(r) \in RowsFor(other, a)
  BY <1>8, <1>9
<1>11. \A q \in RowsFor(other, a) : \E r \in RowsFor(rows, a) : q = Mirror(r)
  <2> TAKE q \in RowsFor(other, a)
  <2>1. PICK r \in rows : q = Mirror(r)
    BY <1>4, <1>8
  <2>2. r \in RowsFor(rows, a)
    BY <1>9, <2>1
  <2> QED
    BY <2>1, <2>2
<1> QED
  BY <1>6, <1>10, <1>11 DEF other

\* No conflict rule acts on the rows.
Unruled(rows, a) == \A f \in ScoredFactors : Multiplier20(rows, a, f) = 20

MirrorItem(x) == [row |-> Mirror(x.row), weight |-> x.weight, after |-> -x.after]
MirrorSets(raw, other) ==
  /\ \A x \in raw : MirrorItem(x) \in other
  /\ \A y \in other : \E x \in raw : y = MirrorItem(x)

LEMMA MirroredItem ==
    ASSUME NEW rows, NEW other, NEW a \in ScoredAssets, NEW h \in Horizons,
           NEW r, ScoredRow(r), Unruled(rows, a), Unruled(other, a)
    PROVE  RawItem(other, a, h, Mirror(r)) = MirrorItem(RawItem(rows, a, h, r))
<1>1. /\ Mirror(r).factor = r.factor /\ Mirror(r).reliability = r.reliability
      /\ Mirror(r).state = -r.state /\ r.state \in -5 .. 5
  BY MirrorRow
<1>2. r.factor \in ScoredFactors
  BY DEF ScoredRow
<1>3. Multiplier20(rows, a, r.factor) = 20 /\ Multiplier20(other, a, r.factor) = 20
  BY <1>2 DEF Unruled
<1>4. PICK w \in Int : w = FullWeight(a, h, r)
  BY WeightType
<1>5. FullWeight(a, h, Mirror(r)) = w
  BY <1>1, <1>4 DEF FullWeight
<1>6. PICK s \in Int : s = r.state
  BY <1>1
<1>7. RawItem(rows, a, h, r) = [row |-> r, weight |-> w, after |-> Ratio(w * s * 20, 20)]
  BY <1>3, <1>4, <1>6 DEF RawItem
<1>8. RawItem(other, a, h, Mirror(r)) =
        [row |-> Mirror(r), weight |-> w, after |-> Ratio(w * (-s) * 20, 20)]
  BY <1>1, <1>3, <1>5, <1>6 DEF RawItem
<1>9. PICK n \in Int : n = w * s * 20 /\ -n = w * (-s) * 20
  <2>1. PICK u \in Int : u = w * s /\ w * (-s) = -u
    BY Z3
  <2> QED
    BY <2>1
<1>10. Ratio(-n, 20) = -Ratio(n, 20)
  BY RatioNegated
<1>11. RawItem(rows, a, h, r) = [row |-> r, weight |-> w, after |-> Ratio(n, 20)]
  BY <1>7, <1>9
<1>12. RawItem(other, a, h, Mirror(r)) = [row |-> Mirror(r), weight |-> w, after |-> -Ratio(n, 20)]
  BY <1>8, <1>9, <1>10
<1> QED
  BY <1>11, <1>12 DEF MirrorItem

LEMMA MirroredRaw ==
    ASSUME NEW rows, RowsSound(rows), NEW a \in ScoredAssets, NEW h \in Horizons,
           Unruled(rows, a), Unruled(Mirrored(rows), a)
    PROVE  MirrorSets(RawRows(rows, a, h), RawRows(Mirrored(rows), a, h))
<1> DEFINE other == Mirrored(rows)
           C == Counting(rows, a, h)
           D == Counting(other, a, h)
<1>1. \A r \in RowsFor(rows, a) :
        /\ ScoredRow(r) /\ Mirror(r) \in RowsFor(other, a)
        /\ RawItem(other, a, h, Mirror(r)) = MirrorItem(RawItem(rows, a, h, r))
        /\ r \in C <=> Mirror(r) \in D
  <2> TAKE r \in RowsFor(rows, a)
  <2>1. ScoredRow(r) /\ Mirror(r) \in RowsFor(other, a)
    BY RowsForSound, MirroredRows
  <2>2. /\ Mirror(r).factor = r.factor /\ Mirror(r).reliability = r.reliability
        /\ Mirror(r).coverage = r.coverage /\ Mirror(r).status = r.status
    BY <2>1, MirrorRow
  <2>3. r \in C <=> Mirror(r) \in D
    BY <2>1, <2>2 DEF Counting
  <2> QED
    BY <2>1, <2>3, MirroredItem
<1>2. \A q \in D : \E r \in C : q = Mirror(r)
  <2> TAKE q \in D
  <2>1. q \in RowsFor(other, a)
    BY DEF Counting
  <2>2. PICK r \in RowsFor(rows, a) : q = Mirror(r)
    BY <2>1, MirroredRows
  <2> QED
    BY <1>1, <2>2
<1>3. C \in SUBSET RowsFor(rows, a)
  BY DEF Counting
<1>4. /\ RawRows(rows, a, h) = {RawItem(rows, a, h, q) : q \in C}
      /\ RawRows(other, a, h) = {RawItem(other, a, h, q) : q \in D}
  BY RawRowsAre
<1> HIDE DEF C, D, other
<1>5. ASSUME NEW x \in RawRows(rows, a, h) PROVE MirrorItem(x) \in RawRows(other, a, h)
  <2>1. PICK r \in C : x = RawItem(rows, a, h, r)
    BY <1>4
  <2>2. Mirror(r) \in D /\ RawItem(other, a, h, Mirror(r)) = MirrorItem(x)
    BY <1>1, <1>3, <2>1
  <2> QED
    BY <1>4, <2>2
<1>6. ASSUME NEW y \in RawRows(other, a, h) PROVE \E x \in RawRows(rows, a, h) : y = MirrorItem(x)
  <2>1. PICK q \in D : y = RawItem(other, a, h, q)
    BY <1>4
  <2>2. PICK r \in C : q = Mirror(r)
    BY <1>2
  <2>3. RawItem(rows, a, h, r) \in RawRows(rows, a, h)
    BY <1>4
  <2>4. y = MirrorItem(RawItem(rows, a, h, r))
    BY <1>1, <1>3, <2>1, <2>2
  <2> QED
    BY <2>3, <2>4
<1> QED
  BY <1>5, <1>6 DEF MirrorSets, other

\* T is the image of S under m, which tells the members of S apart.
OneToOne(m, S, T) ==
  /\ \A x \in S : m[x] \in T
  /\ \A y \in T : \E x \in S : y = m[x]
  /\ \A x, y \in S : m[x] = m[y] => x = y

LEMMA SumOfImage ==
    ASSUME NEW S, IsFiniteSet(S), NEW T, NEW m, OneToOne(m, S, T),
           NEW f, NEW g, \A x \in S : f[x] \in Int /\ g[m[x]] = f[x]
    PROVE  TotalOf(g, T) = TotalOf(f, S) /\ TotalOf(f, S) \in Int /\ IsFiniteSet(T)
<1>1. T = {m[x] : x \in S}
  BY DEF OneToOne
<1>2. \A x, y \in S : m[x] = m[y] => x = y
  BY DEF OneToOne
<1>3. TotalOf(g, {m[x] : x \in S}) = TotalOf(f, S)
  BY <1>2, TotalImage
<1>4. IsFiniteSet({m[x] : x \in S})
  BY ImageFinite
<1> QED
  BY <1>1, <1>3, <1>4, TotalInt

LEMMA MirrorItemFacts ==
    ASSUME NEW raw, RawSound(raw)
    PROVE  /\ \A x \in raw : /\ MirrorItem(x).row = Mirror(x.row) /\ MirrorItem(x).weight = x.weight
                             /\ MirrorItem(x).after = -x.after /\ x.after \in Int /\ x.weight \in Int
                             /\ MirrorItem(x).row.factor = x.row.factor
           /\ \A x, y \in raw : MirrorItem(x) = MirrorItem(y) => x = y
<1>1. ASSUME NEW x \in raw
      PROVE  /\ MirrorItem(x).row = Mirror(x.row) /\ MirrorItem(x).weight = x.weight
             /\ MirrorItem(x).after = -x.after /\ x.after \in Int /\ x.weight \in Int
             /\ MirrorItem(x).row.factor = x.row.factor
  <2>1. ScoredRow(x.row) /\ x.after \in Int /\ x.weight \in Int
    BY DEF RawSound
  <2>2. Mirror(x.row).factor = x.row.factor
    BY <2>1, MirrorRow
  <2> QED
    BY <2>1, <2>2 DEF MirrorItem
<1>2. ASSUME NEW x \in raw, NEW y \in raw, MirrorItem(x) = MirrorItem(y)
      PROVE  x = y
  <2>1. x.row.factor = y.row.factor
    BY <1>1, <1>2
  <2> QED
    BY <2>1 DEF RawSound
<1> QED
  BY <1>1, <1>2

LEMMA MirroredTotals ==
    ASSUME NEW raw, RawSound(raw), NEW other, RawSound(other), NEW S \in SUBSET raw,
           NEW T \in SUBSET other, MirrorSets(S, T)
    PROVE  Total(T) = Total(S) /\ Net(T) = -Net(S)
<1> DEFINE m == [x \in S |-> MirrorItem(x)]
           size == [x \in S |-> Abs(x.after)]
           after == [x \in S |-> x.after]
           turned == [x \in S |-> -x.after]
<1>1. IsFiniteSet(S)
  BY FS_Subset DEF RawSound
<1>2. \A x \in S : /\ m[x] = MirrorItem(x) /\ m[x] \in T /\ m[x].after = -x.after
                   /\ x.after \in Int /\ x \in raw
  BY MirrorItemFacts DEF MirrorSets
<1>3. OneToOne(m, S, T)
  <2>1. \A y \in T : \E x \in S : y = m[x]
    BY DEF MirrorSets
  <2>2. \A x, y \in S : m[x] = m[y] => x = y
    BY <1>2, MirrorItemFacts
  <2> QED
    BY <1>2, <2>1, <2>2 DEF OneToOne
<1>4. \A x \in S : /\ size[x] = Abs(x.after) /\ after[x] = x.after /\ turned[x] = -x.after
  OBVIOUS
<1>5. /\ \A x \in S : Amounts(raw)[x] = size[x] /\ Afters(raw)[x] = after[x]
      /\ \A y \in T : Amounts(other)[y] = Abs(y.after) /\ Afters(other)[y] = y.after
  BY DEF Amounts, Afters
<1> HIDE DEF m, size, after, turned
<1>6. \A x \in S : size[x] \in Int /\ Amounts(other)[m[x]] = size[x]
  BY <1>2, <1>4, <1>5, AbsFacts
<1>7. \A x \in S : turned[x] \in Int /\ Afters(other)[m[x]] = turned[x]
  BY <1>2, <1>4, <1>5
<1>8. TotalOf(Amounts(other), T) = TotalOf(size, S)
  BY <1>1, <1>3, <1>6, SumOfImage
<1>9. TotalOf(Afters(other), T) = TotalOf(turned, S)
  BY <1>1, <1>3, <1>7, SumOfImage
<1>10. TotalOf(turned, S) = -TotalOf(after, S)
  <2>1. \A x \in S : after[x] \in Int /\ turned[x] = -after[x]
    BY <1>2, <1>4
  <2> QED
    BY <1>1, <2>1, TotalNegated
<1>11. TotalOf(size, S) = TotalOf(Amounts(raw), S) /\ TotalOf(after, S) = TotalOf(Afters(raw), S)
  BY <1>1, <1>5, TotalSame
<1>12. Total(S) = TotalOf(Amounts(raw), S) /\ Net(S) = TotalOf(Afters(raw), S)
  BY RawTotals
<1>13. Total(T) = TotalOf(Amounts(other), T) /\ Net(T) = TotalOf(Afters(other), T)
  BY RawTotals
<1> QED
  BY <1>8, <1>9, <1>10, <1>11, <1>12, <1>13

LEMMA MirroredGroups ==
    ASSUME NEW raw, RawSound(raw), NEW other, RawSound(other), MirrorSets(raw, other)
    PROVE  /\ GroupsIn(other) = GroupsIn(raw) /\ Mass(other) = Mass(raw)
           /\ \A g : /\ Total(InGroup(other, g)) = Total(InGroup(raw, g))
                     /\ Net(InGroup(other, g)) = -Net(InGroup(raw, g))
                     /\ Allowed(other, g) = Allowed(raw, g)
<1>1. /\ \A x \in raw : MirrorItem(x) \in other /\ MirrorItem(x).row.factor = x.row.factor
                        /\ MirrorItem(x).weight = x.weight /\ x.weight \in Int
      /\ \A y \in other : \E x \in raw : y = MirrorItem(x)
  BY MirrorItemFacts DEF MirrorSets
<1>2. GroupsIn(other) = GroupsIn(raw)
  <2>1. ASSUME NEW g \in GroupsIn(raw) PROVE g \in GroupsIn(other)
    <3>1. PICK x \in raw : g = GroupOf[x.row.factor]
      BY DEF GroupsIn
    <3>2. g = GroupOf[MirrorItem(x).row.factor] /\ MirrorItem(x) \in other
      BY <1>1, <3>1
    <3> QED
      BY <3>2 DEF GroupsIn
  <2>2. ASSUME NEW g \in GroupsIn(other) PROVE g \in GroupsIn(raw)
    <3>1. PICK y \in other : g = GroupOf[y.row.factor]
      BY DEF GroupsIn
    <3>2. PICK x \in raw : y = MirrorItem(x)
      BY <1>1
    <3>3. g = GroupOf[x.row.factor]
      BY <1>1, <3>1, <3>2
    <3> QED
      BY <3>3 DEF GroupsIn
  <2> QED
    BY <2>1, <2>2
<1>3. Mass(other) = Mass(raw)
  <2> DEFINE m == [x \in raw |-> MirrorItem(x)]
  <2>1. OneToOne(m, raw, other)
    <3>1. \A x \in raw : m[x] = MirrorItem(x)
      OBVIOUS
    <3> HIDE DEF m
    <3> QED
      BY <1>1, <3>1, MirrorItemFacts DEF OneToOne
  <2>2. \A x \in raw : m[x] = MirrorItem(x)
    OBVIOUS
  <2> HIDE DEF m
  <2>3. \A x \in raw : Masses(raw)[x] \in Int /\ Masses(other)[m[x]] = Masses(raw)[x]
    <3> TAKE x \in raw
    <3>1. Masses(raw)[x] = Abs(x.weight) /\ Masses(other)[MirrorItem(x)] = Abs(MirrorItem(x).weight)
      BY <1>1 DEF Masses
    <3>2. MirrorItem(x).weight = x.weight /\ Abs(x.weight) \in Int
      BY <1>1, AbsFacts
    <3> QED
      BY <2>2, <3>1, <3>2
  <2>4. IsFiniteSet(raw)
    BY DEF RawSound
  <2>5. TotalOf(Masses(other), other) = TotalOf(Masses(raw), raw)
    BY <2>1, <2>3, <2>4, SumOfImage
  <2> QED
    BY <2>5, RawTotals
<1>4. Total(other) = Total(raw)
  <2>1. raw \in SUBSET raw /\ other \in SUBSET other
    OBVIOUS
  <2> QED
    BY <2>1, MirroredTotals
<1>5. ASSUME NEW g
      PROVE  /\ Total(InGroup(other, g)) = Total(InGroup(raw, g))
             /\ Net(InGroup(other, g)) = -Net(InGroup(raw, g))
             /\ Allowed(other, g) = Allowed(raw, g)
  <2>1. InGroup(raw, g) \in SUBSET raw /\ InGroup(other, g) \in SUBSET other
    BY DEF InGroup
  <2>2. MirrorSets(InGroup(raw, g), InGroup(other, g))
    <3>1. \A x \in InGroup(raw, g) : MirrorItem(x) \in InGroup(other, g)
      BY <1>1 DEF InGroup
    <3>2. \A y \in InGroup(other, g) : \E x \in InGroup(raw, g) : y = MirrorItem(x)
      <4> TAKE y \in InGroup(other, g)
      <4>1. y \in other /\ GroupOf[y.row.factor] = g
        BY DEF InGroup
      <4>2. PICK x \in raw : y = MirrorItem(x)
        BY <1>1, <4>1
      <4>3. x \in InGroup(raw, g)
        BY <1>1, <4>1, <4>2 DEF InGroup
      <4> QED
        BY <4>2, <4>3
    <3> QED
      BY <3>1, <3>2 DEF MirrorSets
  <2>3. /\ Total(InGroup(other, g)) = Total(InGroup(raw, g))
        /\ Net(InGroup(other, g)) = -Net(InGroup(raw, g))
    BY <2>1, <2>2, MirroredTotals
  <2> QED
    BY <1>4, <2>3 DEF Allowed
<1> QED
  BY <1>2, <1>3, <1>5

LEMMA CappedTurned ==
    ASSUME NEW raw, RawSound(raw), NEW other, RawSound(other), MirrorSets(raw, other),
           NEW g, NEW v \in Int
    PROVE  Capped(other, g, -v) = -Capped(raw, g, v)
<1>1. PICK t \in Nat, k \in Nat : t = Total(InGroup(raw, g)) /\ k = Allowed(raw, g)
  BY AllowedFacts
<1>2. t = Total(InGroup(other, g)) /\ k = Allowed(other, g)
  BY <1>1, MirroredGroups
<1>3. PICK n \in Int : n = v * k /\ (-v) * k = -n
  BY Z3
<1>4. Ratio(-n, t) = -Ratio(n, t)
  BY RatioNegated
<1>5. Capped(raw, g, v) = Ratio(v * k, t) /\ Capped(other, g, -v) = Ratio((-v) * k, t)
  BY <1>1, <1>2 DEF Capped
<1> QED
  BY <1>3, <1>4, <1>5

LEMMA DirectionTurned ==
    ASSUME NEW raw, RawSound(raw), NEW other, RawSound(other), MirrorSets(raw, other)
    PROVE  RawDirection(other) = -RawDirection(raw)
<1> DEFINE P == GroupsIn(raw)
           nets == [g \in P |-> GroupNet(raw, g)]
           turned == [g \in P |-> GroupNet(other, g)]
<1>1. IsFiniteSet(P) /\ GroupsIn(other) = P
  BY GroupsFinite, MirroredGroups
<1>2. \A g \in P : /\ nets[g] = GroupNet(raw, g) /\ nets[g] \in Int
                   /\ turned[g] = GroupNet(other, g) /\ turned[g] = -nets[g]
  <2> TAKE g \in P
  <2>1. PICK n \in Int : n = Net(InGroup(raw, g))
    BY AllowedFacts
  <2>2. Net(InGroup(other, g)) = -n
    BY <2>1, MirroredGroups
  <2>3. Capped(other, g, -n) = -Capped(raw, g, n)
    BY CappedTurned
  <2>4. GroupNet(raw, g) = Capped(raw, g, n) /\ GroupNet(other, g) = Capped(other, g, -n)
    BY <2>1, <2>2 DEF GroupNet
  <2> QED
    BY <2>3, <2>4, GroupNetBounded
<1> HIDE DEF nets, turned
<1>3. Numerator(raw) = TotalOf(nets, P) /\ Numerator(other) = TotalOf(turned, P)
  <2>1. Numerator(raw) = TotalOf(nets, GroupsIn(raw))
    BY <1>1, <1>2, NumeratorIs
  <2>2. Numerator(other) = TotalOf(turned, GroupsIn(other))
    BY <1>1, <1>2, NumeratorIs
  <2> QED
    BY <1>1, <2>1, <2>2
<1>4. TotalOf(nets, P) \in Int /\ TotalOf(turned, P) = -TotalOf(nets, P)
  <2> HIDE DEF P
  <2> QED
    BY <1>1, <1>2, TotalNegated
<1>5. PICK n \in Int, w \in Nat : n = Numerator(raw) /\ Numerator(other) = -n /\ w = Mass(raw) /\ w = Mass(other)
  BY <1>3, <1>4, MirroredGroups, RawTotals
<1>6. Ratio(-(10 * n), w) = -Ratio(10 * n, w)
  BY RatioNegated
<1>7. 10 * (-n) = -(10 * n)
  OBVIOUS
<1> QED
  BY <1>5, <1>6, <1>7, RawDirectionIs

-----------------------------------------------------------------------------
(* What the rows contribute after the caps, and over the horizons.            *)
CappedSound(cs) ==
  /\ IsFiniteSet(cs)
  /\ \A c \in cs : c = [row |-> c.row, capped |-> c.capped] /\ ScoredRow(c.row) /\ c.capped \in Int

LEMMA CappedType ==
    ASSUME NEW raw, RawSound(raw), NEW g, NEW v \in Int
    PROVE  Capped(raw, g, v) \in Int
<1>1. PICK t \in Nat, k \in Nat : t = Total(InGroup(raw, g)) /\ k = Allowed(raw, g)
  BY AllowedFacts
<1>2. PICK n \in Int : n = v * k
  BY Z3
<1>3. Ratio(n, t) \in Int
  BY RatioType
<1> QED
  BY <1>1, <1>2, <1>3 DEF Capped

CappedItem(raw, x) == [row |-> x.row, capped |-> Capped(raw, GroupOf[x.row.factor], x.after)]

LEMMA CappedRowsSound ==
    ASSUME NEW raw, RawSound(raw)
    PROVE  /\ CappedRows(raw) = {CappedItem(raw, x) : x \in raw}
           /\ CappedSound(CappedRows(raw))
<1> DEFINE m == [x \in raw |-> CappedItem(raw, x)]
<1>1. CappedRows(raw) = {CappedItem(raw, x) : x \in raw}
  BY DEF CappedRows, CappedItem
<1>2. CappedRows(raw) = {m[x] : x \in raw}
  BY <1>1
<1>3. IsFiniteSet(raw)
  BY DEF RawSound
<1> HIDE DEF m
<1>4. IsFiniteSet(CappedRows(raw))
  BY <1>2, <1>3, ImageFinite
<1>5. ASSUME NEW c \in CappedRows(raw)
      PROVE  c = [row |-> c.row, capped |-> c.capped] /\ ScoredRow(c.row) /\ c.capped \in Int
  <2>1. PICK x \in raw : c = CappedItem(raw, x)
    BY <1>1
  <2>2. ScoredRow(x.row) /\ x.after \in Int
    BY DEF RawSound
  <2>3. PICK v \in Int : v = Capped(raw, GroupOf[x.row.factor], x.after)
    BY <2>2, CappedType
  <2>4. c = [row |-> x.row, capped |-> v]
    BY <2>1, <2>3 DEF CappedItem
  <2> QED
    BY <2>2, <2>4
<1> QED
  BY <1>1, <1>4, <1>5 DEF CappedSound

MirrorCapped(c) == [row |-> Mirror(c.row), capped |-> -c.capped]
CappedTurns(cs, ds) ==
  /\ \A c \in cs : MirrorCapped(c) \in ds
  /\ \A d \in ds : \E c \in cs : d = MirrorCapped(c)

LEMMA CappedRowsTurned ==
    ASSUME NEW raw, RawSound(raw), NEW other, RawSound(other), MirrorSets(raw, other)
    PROVE  CappedTurns(CappedRows(raw), CappedRows(other))
<1>1. /\ CappedRows(raw) = {CappedItem(raw, x) : x \in raw}
      /\ CappedRows(other) = {CappedItem(other, x) : x \in other}
  BY CappedRowsSound
<1>2. ASSUME NEW x \in raw
      PROVE  /\ MirrorItem(x) \in other
             /\ CappedItem(other, MirrorItem(x)) = MirrorCapped(CappedItem(raw, x))
  <2>1. /\ MirrorItem(x).row = Mirror(x.row) /\ MirrorItem(x).after = -x.after /\ x.after \in Int
        /\ MirrorItem(x).row.factor = x.row.factor
    BY MirrorItemFacts
  <2>2. PICK v \in Int : v = x.after
    BY <2>1
  <2> DEFINE g == GroupOf[x.row.factor]
  <2>3. Capped(other, g, -v) = -Capped(raw, g, v)
    BY CappedTurned
  <2>4. CappedItem(other, MirrorItem(x)) = [row |-> Mirror(x.row), capped |-> -Capped(raw, g, v)]
    BY <2>1, <2>2, <2>3 DEF CappedItem
  <2>5. CappedItem(raw, x) = [row |-> x.row, capped |-> Capped(raw, g, v)]
    BY <2>2 DEF CappedItem
  <2>6. MirrorItem(x) \in other
    BY DEF MirrorSets
  <2> QED
    BY <2>4, <2>5, <2>6 DEF MirrorCapped
<1>3. ASSUME NEW c \in CappedRows(raw) PROVE MirrorCapped(c) \in CappedRows(other)
  <2>1. PICK x \in raw : c = CappedItem(raw, x)
    BY <1>1
  <2> QED
    BY <1>1, <1>2, <2>1
<1>4. ASSUME NEW d \in CappedRows(other) PROVE \E c \in CappedRows(raw) : d = MirrorCapped(c)
  <2>1. PICK y \in other : d = CappedItem(other, y)
    BY <1>1
  <2>2. PICK x \in raw : y = MirrorItem(x)
    BY DEF MirrorSets
  <2>3. CappedItem(raw, x) \in CappedRows(raw)
    BY <1>1
  <2> QED
    BY <1>2, <2>1, <2>2, <2>3
<1> QED
  BY <1>3, <1>4 DEF CappedTurns

LEMMA MirrorCappedFacts ==
    ASSUME NEW cs, CappedSound(cs)
    PROVE  /\ \A c \in cs : /\ MirrorCapped(c).row = Mirror(c.row) /\ MirrorCapped(c).capped = -c.capped
                            /\ c.capped \in Int /\ ScoredRow(c.row)
           /\ \A c, d \in cs : MirrorCapped(c) = MirrorCapped(d) => c = d
<1>1. ASSUME NEW c \in cs
      PROVE  /\ MirrorCapped(c).row = Mirror(c.row) /\ MirrorCapped(c).capped = -c.capped
             /\ c.capped \in Int /\ ScoredRow(c.row) /\ c = [row |-> c.row, capped |-> c.capped]
  BY DEF MirrorCapped, CappedSound
<1>2. ASSUME NEW c \in cs, NEW d \in cs, MirrorCapped(c) = MirrorCapped(d)
      PROVE  c = d
  <2>1. Mirror(c.row) = Mirror(d.row) /\ -c.capped = -d.capped
    BY <1>1, <1>2
  <2>2. c.row = d.row
    BY <1>1, <2>1, MirrorTells
  <2>3. c.capped = d.capped
    BY <1>1, <2>1
  <2> QED
    BY <1>1, <2>2, <2>3
<1> QED
  BY <1>1, <1>2

ResultsSound(results) == \A h \in Horizons : CappedSound(results[h].rows)
Counted(results) == {x.row : x \in UNION {results[h].rows : h \in Horizons}}
OfRow(results, r, h) == {y \in results[h].rows : y.row = r}
OnHorizon(results, r, h) == SumFunction([x \in OfRow(results, r, h) |-> Blend[h] * x.capped])
Worth(results, r) == SumFunction([h \in Horizons |-> OnHorizon(results, r, h)])

LEMMA ContributionsAre ==
    \A results : Contributions(results) =
                   {[row |-> r, value |-> Worth(results, r)] : r \in Counted(results)}
  BY DEF Contributions, Worth, OnHorizon, OfRow, Counted

LEMMA OnHorizonType ==
    ASSUME NEW results, ResultsSound(results), NEW r, NEW h \in Horizons
    PROVE  OnHorizon(results, r, h) \in Int
<1> DEFINE S == OfRow(results, r, h)
           f == [x \in S |-> Blend[h] * x.capped]
<1>1. S \subseteq results[h].rows /\ CappedSound(results[h].rows)
  BY DEF OfRow, ResultsSound
<1>2. IsFiniteSet(S)
  BY <1>1, FS_Subset DEF CappedSound
<1>3. \A x \in S : f[x] \in Int
  <2> TAKE x \in S
  <2>1. PICK b \in Nat, v \in Int : b = Blend[h] /\ v = x.capped
    BY <1>1, HorizonsFinite DEF CappedSound
  <2>2. b * v \in Int
    BY Z3
  <2> QED
    BY <2>1, <2>2
<1>4. OnHorizon(results, r, h) = TotalOf(f, S)
  BY SumIsTotal DEF OnHorizon
<1> HIDE DEF f, S
<1> QED
  BY <1>2, <1>3, <1>4, TotalInt

LEMMA WorthType ==
    ASSUME NEW results, ResultsSound(results), NEW r
    PROVE  Worth(results, r) \in Int
<1> DEFINE f == [h \in Horizons |-> OnHorizon(results, r, h)]
<1>1. \A h \in Horizons : f[h] \in Int
  BY OnHorizonType
<1>2. Worth(results, r) = TotalOf(f, Horizons)
  BY SumIsTotal DEF Worth
<1> HIDE DEF f
<1> QED
  BY <1>1, <1>2, HorizonsFinite, TotalInt

ContributionsSound(cs) ==
  /\ IsFiniteSet(cs)
  /\ \A c \in cs : c = [row |-> c.row, value |-> c.value] /\ ScoredRow(c.row) /\ c.value \in Int

LEMMA ContributionsAreSound ==
    ASSUME NEW results, ResultsSound(results)
    PROVE  ContributionsSound(Contributions(results))
<1> DEFINE R == [h \in Horizons |-> results[h].rows]
           U == UNION {R[h] : h \in Horizons}
           row == [x \in U |-> x.row]
           m == [r \in Counted(results) |-> [row |-> r, value |-> Worth(results, r)]]
<1>1. \A h \in Horizons : R[h] = results[h].rows /\ CappedSound(results[h].rows)
  BY DEF ResultsSound
<1>2. U = UNION {results[h].rows : h \in Horizons}
  OBVIOUS
<1>3. IsFiniteSet(U)
  <2>1. IsFiniteSet({R[h] : h \in Horizons})
    <3> HIDE DEF R
    <3> QED
      BY HorizonsFinite, ImageFinite
  <2>2. \A T \in {R[h] : h \in Horizons} : IsFiniteSet(T)
    BY <1>1 DEF CappedSound
  <2> HIDE DEF R
  <2> QED
    BY <2>1, <2>2, FS_UNION
<1>4. Counted(results) = {row[x] : x \in U}
  BY <1>2 DEF Counted
<1>5. \A r \in Counted(results) : ScoredRow(r)
  <2> TAKE r \in Counted(results)
  <2>1. PICK h \in Horizons : \E x \in results[h].rows : r = x.row
    BY DEF Counted
  <2> QED
    BY <1>1, <2>1 DEF CappedSound
<1>6. IsFiniteSet(Counted(results))
  <2> HIDE DEF row, U
  <2> QED
    BY <1>3, <1>4, ImageFinite
<1>7. Contributions(results) = {m[r] : r \in Counted(results)}
  BY ContributionsAre
<1>8. \A r \in Counted(results) : m[r] = [row |-> r, value |-> Worth(results, r)]
  OBVIOUS
<1> HIDE DEF m
<1>9. IsFiniteSet(Contributions(results))
  BY <1>6, <1>7, ImageFinite
<1>10. ASSUME NEW c \in Contributions(results)
       PROVE  c = [row |-> c.row, value |-> c.value] /\ ScoredRow(c.row) /\ c.value \in Int
  <2>1. PICK r \in Counted(results) : c = m[r]
    BY <1>7
  <2>2. PICK v \in Int : v = Worth(results, r)
    BY WorthType
  <2>3. c = [row |-> r, value |-> v]
    BY <1>8, <2>1, <2>2
  <2> QED
    BY <1>5, <2>3
<1> QED
  BY <1>9, <1>10 DEF ContributionsSound

MirrorValue(c) == [row |-> Mirror(c.row), value |-> -c.value]
ValuesTurn(cs, ds) ==
  /\ \A c \in cs : MirrorValue(c) \in ds
  /\ \A d \in ds : \E c \in cs : d = MirrorValue(c)

LEMMA OnHorizonTurned ==
    ASSUME NEW results, ResultsSound(results), NEW others, ResultsSound(others),
           NEW h \in Horizons, CappedTurns(results[h].rows, others[h].rows),
           NEW r, ScoredRow(r)
    PROVE  OnHorizon(others, Mirror(r), h) = -OnHorizon(results, r, h)
<1> DEFINE S == OfRow(results, r, h)
           T == OfRow(others, Mirror(r), h)
           m == [x \in S |-> MirrorCapped(x)]
           f == [x \in S |-> Blend[h] * x.capped]
           turned == [x \in S |-> -(Blend[h] * x.capped)]
           g == [x \in T |-> Blend[h] * x.capped]
<1>1. CappedSound(results[h].rows) /\ CappedSound(others[h].rows)
  BY DEF ResultsSound
<1>2. IsFiniteSet(S) /\ S \subseteq results[h].rows
  BY <1>1, FS_Subset DEF CappedSound, OfRow
<1>3. PICK b \in Nat : b = Blend[h]
  BY HorizonsFinite
<1>4. \A x \in S : /\ m[x] = MirrorCapped(x) /\ m[x] \in T /\ m[x].capped = -x.capped
                   /\ x.capped \in Int /\ x.row = r /\ ScoredRow(x.row)
  <2> TAKE x \in S
  <2>1. x \in results[h].rows /\ x.row = r
    BY DEF OfRow
  <2>2. /\ MirrorCapped(x).row = Mirror(x.row) /\ MirrorCapped(x).capped = -x.capped
        /\ x.capped \in Int /\ ScoredRow(x.row)
    BY <1>1, <2>1, MirrorCappedFacts
  <2>3. MirrorCapped(x) \in others[h].rows
    BY <2>1 DEF CappedTurns
  <2> QED
    BY <2>1, <2>2, <2>3 DEF OfRow
<1>5. \A y \in T : \E x \in S : y = m[x]
  <2> TAKE y \in T
  <2>1. y \in others[h].rows /\ y.row = Mirror(r)
    BY DEF OfRow
  <2>2. PICK x \in results[h].rows : y = MirrorCapped(x)
    BY <2>1 DEF CappedTurns
  <2>3. Mirror(x.row) = Mirror(r) /\ ScoredRow(x.row)
    BY <1>1, <2>1, <2>2, MirrorCappedFacts
  <2>4. x \in S
    BY <2>3, MirrorTells DEF OfRow
  <2> QED
    BY <1>4, <2>2, <2>4
<1>6. OneToOne(m, S, T)
  <2>1. \A x, y \in S : m[x] = m[y] => x = y
    BY <1>1, <1>2, <1>4, MirrorCappedFacts
  <2> HIDE DEF m, S, T
  <2> QED
    BY <1>4, <1>5, <2>1 DEF OneToOne
<1>7. /\ \A x \in S : f[x] = b * x.capped /\ turned[x] = -(b * x.capped)
      /\ \A y \in T : g[y] = b * y.capped
  BY <1>3
<1>8. OnHorizon(results, r, h) = TotalOf(f, S) /\ OnHorizon(others, Mirror(r), h) = TotalOf(g, T)
  BY SumIsTotal DEF OnHorizon
<1> HIDE DEF m, S, T, f, turned, g
<1>9. \A x \in S : turned[x] \in Int /\ g[m[x]] = turned[x] /\ f[x] \in Int /\ turned[x] = -f[x]
  <2> TAKE x \in S
  <2>1. PICK v \in Int : v = x.capped
    BY <1>4
  <2>2. b * v \in Int /\ b * (-v) = -(b * v)
    BY Z3
  <2>3. g[m[x]] = b * (-v) /\ turned[x] = -(b * v) /\ f[x] = b * v
    BY <1>4, <1>7, <2>1
  <2> QED
    BY <2>2, <2>3
<1>10. TotalOf(g, T) = TotalOf(turned, S)
  BY <1>2, <1>6, <1>9, SumOfImage
<1>11. TotalOf(turned, S) = -TotalOf(f, S)
  BY <1>2, <1>9, TotalNegated
<1> QED
  BY <1>8, <1>10, <1>11

LEMMA WorthTurned ==
    ASSUME NEW results, ResultsSound(results), NEW others, ResultsSound(others),
           \A h \in Horizons : CappedTurns(results[h].rows, others[h].rows),
           NEW r, ScoredRow(r)
    PROVE  Worth(others, Mirror(r)) = -Worth(results, r)
<1> DEFINE f == [h \in Horizons |-> OnHorizon(results, r, h)]
           g == [h \in Horizons |-> OnHorizon(others, Mirror(r), h)]
<1>1. \A h \in Horizons : f[h] \in Int /\ g[h] = -f[h]
  BY OnHorizonType, OnHorizonTurned
<1>2. Worth(results, r) = TotalOf(f, Horizons) /\ Worth(others, Mirror(r)) = TotalOf(g, Horizons)
  BY SumIsTotal DEF Worth
<1> HIDE DEF f, g
<1> QED
  BY <1>1, <1>2, HorizonsFinite, TotalNegated

LEMMA ContributionsTurned ==
    ASSUME NEW results, ResultsSound(results), NEW others, ResultsSound(others),
           \A h \in Horizons : CappedTurns(results[h].rows, others[h].rows)
    PROVE  ValuesTurn(Contributions(results), Contributions(others))
<1>1. /\ Contributions(results) = {[row |-> r, value |-> Worth(results, r)] : r \in Counted(results)}
      /\ Contributions(others) = {[row |-> r, value |-> Worth(others, r)] : r \in Counted(others)}
  BY ContributionsAre
<1>2. \A r \in Counted(results) : ScoredRow(r) /\ Mirror(r) \in Counted(others)
  <2> TAKE r \in Counted(results)
  <2>1. PICK h \in Horizons : \E x \in results[h].rows : r = x.row
    BY DEF Counted
  <2>2. PICK x \in results[h].rows : r = x.row
    BY <2>1
  <2>3. CappedSound(results[h].rows) /\ CappedTurns(results[h].rows, others[h].rows)
    BY DEF ResultsSound
  <2>4. MirrorCapped(x) \in others[h].rows /\ MirrorCapped(x).row = Mirror(r) /\ ScoredRow(r)
    BY <2>2, <2>3, MirrorCappedFacts DEF CappedTurns
  <2>5. Mirror(r) \in Counted(others)
    BY <2>4 DEF Counted
  <2> QED
    BY <2>4, <2>5
<1>3. \A q \in Counted(others) : \E r \in Counted(results) : q = Mirror(r)
  <2> TAKE q \in Counted(others)
  <2>1. PICK h \in Horizons : \E y \in others[h].rows : q = y.row
    BY DEF Counted
  <2>2. PICK y \in others[h].rows : q = y.row
    BY <2>1
  <2>3. CappedSound(results[h].rows) /\ CappedTurns(results[h].rows, others[h].rows)
    BY DEF ResultsSound
  <2>4. PICK x \in results[h].rows : y = MirrorCapped(x)
    BY <2>3 DEF CappedTurns
  <2>5. q = Mirror(x.row)
    BY <2>2, <2>3, <2>4, MirrorCappedFacts
  <2>6. x.row \in Counted(results)
    BY DEF Counted
  <2> QED
    BY <2>5, <2>6
<1>4. ASSUME NEW r \in Counted(results)
      PROVE  MirrorValue([row |-> r, value |-> Worth(results, r)])
               = [row |-> Mirror(r), value |-> Worth(others, Mirror(r))]
  <2>1. Worth(others, Mirror(r)) = -Worth(results, r)
    BY <1>2, WorthTurned
  <2> QED
    BY <2>1 DEF MirrorValue
<1>5. ASSUME NEW c \in Contributions(results) PROVE MirrorValue(c) \in Contributions(others)
  <2>1. PICK r \in Counted(results) : c = [row |-> r, value |-> Worth(results, r)]
    BY <1>1
  <2>2. MirrorValue(c) = [row |-> Mirror(r), value |-> Worth(others, Mirror(r))]
    BY <1>4, <2>1
  <2> QED
    BY <1>1, <1>2, <2>2
<1>6. ASSUME NEW d \in Contributions(others) PROVE \E c \in Contributions(results) : d = MirrorValue(c)
  <2>1. PICK q \in Counted(others) : d = [row |-> q, value |-> Worth(others, q)]
    BY <1>1
  <2>2. PICK r \in Counted(results) : q = Mirror(r)
    BY <1>3
  <2>3. d = MirrorValue([row |-> r, value |-> Worth(results, r)])
    BY <1>4, <2>1, <2>2
  <2> QED
    BY <1>1, <2>3
<1> QED
  BY <1>5, <1>6 DEF ValuesTurn

-----------------------------------------------------------------------------
(* The confidence.                                                            *)
LEMMA MaxOfInts ==
    ASSUME NEW S, IsFiniteSet(S), S \subseteq Int, S # {}
    PROVE  Max(S) \in Int
<1>1. \E x \in S : \A y \in S : y <= x
  BY IntExtremes
<1>2. Max(S) \in S
  BY <1>1 DEF Max
<1> QED
  BY <1>2

LEMMA OfTwo ==
    \A p, q \in Int : /\ Max({p, q}) \in Int /\ Min({p, q}) \in Int
                      /\ Min({p, q}) <= p /\ Min({p, q}) <= q
<1> SUFFICES ASSUME NEW p \in Int, NEW q \in Int
             PROVE  /\ Max({p, q}) \in Int /\ Min({p, q}) \in Int
                    /\ Min({p, q}) <= p /\ Min({p, q}) <= q
  OBVIOUS
<1>1. \E x \in {p, q} : \A y \in {p, q} : y <= x
  OBVIOUS
<1>2. \E x \in {p, q} : \A y \in {p, q} : x <= y
  OBVIOUS
<1>3. Max({p, q}) \in {p, q}
  BY <1>1 DEF Max
<1>4. Min({p, q}) \in {p, q} /\ \A y \in {p, q} : Min({p, q}) <= y
  BY <1>2 DEF Min
<1> QED
  BY <1>3, <1>4

LEMMA SumOfInts ==
    ASSUME NEW S, IsFiniteSet(S), NEW f, DOMAIN f = S, \A x \in S : f[x] \in Int
    PROVE  /\ SumFunction(f) = TotalOf(f, S) /\ SumFunction(f) \in Int
           /\ (\A x \in S : f[x] \in Nat) => SumFunction(f) \in Nat
<1>1. SumFunction(f) = TotalOf(f, S)
  BY SumIsTotal
<1>2. TotalOf(f, S) \in Int
  BY TotalInt
<1>3. (\A x \in S : f[x] \in Nat) => TotalOf(f, S) \in Nat
  BY TotalType
<1> QED
  BY <1>1, <1>2, <1>3

LEMMA SensitivityType ==
    \A a \in ScoredAssets, f \in ScoredFactors : Abs(Sensitivity[a][f]) \in Nat
  BY ScoringAssumption, AbsFacts

\* The contributions on a side, and the parts of the confidence, each named.
OnSide(cs, s) == {c \in cs : s * c.value > 0}
SideOf(cs, s) == SumFunction([c \in OnSide(cs, s) |-> Abs(c.value)])
Worths(cs) == SumFunction([c \in cs |-> Abs(c.value)])
Largest(cs) == {Abs(c.value) : c \in cs}
SourceSum(cs, a) ==
  SumFunction([c \in cs |-> Abs(Sensitivity[a][c.row.factor]) * c.row.reliability * c.row.coverage])
SourceWeight(cs, a) == SumFunction([c \in cs |-> Abs(Sensitivity[a][c.row.factor])])
Stales(cs) == {c \in cs : c.row.status = "STALE"}

LEMMA ConfidenceParts ==
    \A cs, a :
      /\ Agreement(cs) = IF SideOf(cs, 1) + SideOf(cs, -1) = 0 THEN 500
                         ELSE Ratio(100 * Max({SideOf(cs, 1), SideOf(cs, -1)}),
                                    Ratio(SideOf(cs, 1) + SideOf(cs, -1), 10))
      /\ Stability(cs) =
           Max({450, 1000 - (55 * (IF cs = {} THEN 1000
                                   ELSE Ratio(100 * Max(Largest(cs)), Ratio(Worths(cs), 10)))) \div 100})
      /\ SourceQuality(cs, a) = Ratio(250 * SourceSum(cs, a), SourceWeight(cs, a))
      /\ StalePenalty(cs) = Min({120, 15 * Cardinality(Stales(cs))})
<1> TAKE cs, a
<1>1. Agreement(cs) = IF SideOf(cs, 1) + SideOf(cs, -1) = 0 THEN 500
                      ELSE Ratio(100 * Max({SideOf(cs, 1), SideOf(cs, -1)}),
                                 Ratio(SideOf(cs, 1) + SideOf(cs, -1), 10))
  BY DEF Agreement, SideOf, OnSide
<1>2. Stability(cs) =
        Max({450, 1000 - (55 * (IF cs = {} THEN 1000
                                ELSE Ratio(100 * Max(Largest(cs)), Ratio(Worths(cs), 10)))) \div 100})
  BY DEF Stability, Worths, Largest
<1>3. SourceQuality(cs, a) = Ratio(250 * SourceSum(cs, a), SourceWeight(cs, a))
  BY DEF SourceQuality, SourceSum, SourceWeight
<1>4. StalePenalty(cs) = Min({120, 15 * Cardinality(Stales(cs))})
  BY DEF StalePenalty, Stales
<1> QED
  BY <1>1, <1>2, <1>3, <1>4

LEMMA ContributionTypes ==
    ASSUME NEW cs, ContributionsSound(cs), NEW a \in ScoredAssets
    PROVE  \A c \in cs : /\ c.value \in Int /\ Abs(c.value) \in Nat
                         /\ ScoredRow(c.row) /\ c.row.factor \in ScoredFactors
                         /\ Abs(Sensitivity[a][c.row.factor]) \in Nat
                         /\ Abs(Sensitivity[a][c.row.factor]) * c.row.reliability * c.row.coverage \in Int
<1> TAKE c \in cs
<1>1. c.value \in Int /\ ScoredRow(c.row)
  BY DEF ContributionsSound
<1>2. c.row.factor \in ScoredFactors /\ c.row.reliability \in Nat /\ c.row.coverage \in Nat
  BY <1>1 DEF ScoredRow
<1>3. PICK w \in Nat, p \in Nat, q \in Nat :
        w = Abs(Sensitivity[a][c.row.factor]) /\ p = c.row.reliability /\ q = c.row.coverage
  BY <1>2, SensitivityType
<1>4. w * p * q \in Int
  BY Z3
<1> QED
  BY <1>1, <1>2, <1>3, <1>4, AbsFacts

LEMMA SideType ==
    ASSUME NEW cs, ContributionsSound(cs), NEW s
    PROVE  SideOf(cs, s) \in Nat /\ IsFiniteSet(OnSide(cs, s))
<1> DEFINE f == [c \in OnSide(cs, s) |-> Abs(c.value)]
<1>1. IsFiniteSet(OnSide(cs, s)) /\ OnSide(cs, s) \subseteq cs
  BY FS_Subset DEF OnSide, ContributionsSound
<1>2. \A c \in OnSide(cs, s) : f[c] \in Nat /\ f[c] \in Int
  BY <1>1, AbsFacts DEF ContributionsSound
<1>3. DOMAIN f = OnSide(cs, s) /\ SideOf(cs, s) = SumFunction(f)
  BY DEF SideOf
<1> HIDE DEF f
<1> QED
  BY <1>1, <1>2, <1>3, SumOfInts

LEMMA SumsType ==
    ASSUME NEW cs, ContributionsSound(cs), NEW a \in ScoredAssets
    PROVE  Worths(cs) \in Nat /\ SourceSum(cs, a) \in Int /\ SourceWeight(cs, a) \in Nat
<1> DEFINE f == [c \in cs |-> Abs(c.value)]
           g == [c \in cs |-> Abs(Sensitivity[a][c.row.factor]) * c.row.reliability * c.row.coverage]
           w == [c \in cs |-> Abs(Sensitivity[a][c.row.factor])]
<1>1. IsFiniteSet(cs)
  BY DEF ContributionsSound
<1>2. \A c \in cs : f[c] \in Nat /\ f[c] \in Int /\ g[c] \in Int /\ w[c] \in Nat /\ w[c] \in Int
  BY ContributionTypes
<1>3. /\ DOMAIN f = cs /\ DOMAIN g = cs /\ DOMAIN w = cs
      /\ Worths(cs) = SumFunction(f) /\ SourceSum(cs, a) = SumFunction(g)
      /\ SourceWeight(cs, a) = SumFunction(w)
  BY DEF Worths, SourceSum, SourceWeight
<1> HIDE DEF f, g, w
<1> QED
  BY <1>1, <1>2, <1>3, SumOfInts

LEMMA PartsType ==
    ASSUME NEW cs, ContributionsSound(cs), NEW a \in ScoredAssets
    PROVE  /\ Agreement(cs) \in Int /\ Stability(cs) \in Int
           /\ SourceQuality(cs, a) \in Int /\ StalePenalty(cs) \in Int
<1>1. Agreement(cs) \in Int
  <2>1. PICK p \in Nat, q \in Nat : p = SideOf(cs, 1) /\ q = SideOf(cs, -1)
    BY SideType
  <2>2. PICK m \in Int : m = Max({p, q})
    BY OfTwo
  <2>0. PICK b \in Nat : b = p + q
    OBVIOUS
  <2>3. PICK d \in Nat : d = Ratio(b, 10)
    BY RatioType
  <2>4. Ratio(100 * m, d) \in Int
    BY RatioType
  <2>5. Agreement(cs) = IF p + q = 0 THEN 500 ELSE Ratio(100 * m, d)
    BY <2>0, <2>1, <2>2, <2>3, ConfidenceParts
  <2> QED
    BY <2>4, <2>5
<1>2. Stability(cs) \in Int
  <2>1. PICK t \in Nat : t = Worths(cs)
    BY SumsType
  <2>2. PICK d \in Nat : d = Ratio(t, 10)
    BY RatioType
  <2> DEFINE largest == IF cs = {} THEN 1000 ELSE Ratio(100 * Max(Largest(cs)), d)
  <2>3. largest \in Int
    <3>1. CASE cs = {}
      BY <3>1
    <3>2. CASE cs # {}
      <4> DEFINE m == [c \in cs |-> Abs(c.value)]
      <4>1. Largest(cs) = {m[c] : c \in cs}
        BY DEF Largest
      <4>2. \A c \in cs : m[c] \in Int
        BY ContributionTypes
      <4> HIDE DEF m
      <4>3. IsFiniteSet(Largest(cs)) /\ Largest(cs) # {} /\ Largest(cs) \subseteq Int
        BY <3>2, <4>1, <4>2, ImageFinite DEF ContributionsSound
      <4>4. PICK v \in Int : v = Max(Largest(cs))
        BY <4>3, MaxOfInts
      <4>5. Ratio(100 * v, d) \in Int
        BY RatioType
      <4> QED
        BY <3>2, <4>4, <4>5
    <3> QED
      BY <3>1, <3>2
  <2>4. PICK l \in Int : l = largest
    BY <2>3
  <2>5. Stability(cs) = Max({450, 1000 - (55 * l) \div 100})
    BY <2>1, <2>2, <2>4, ConfidenceParts
  <2>6. PICK e \in Int : e = 1000 - (55 * l) \div 100
    OBVIOUS
  <2>7. PICK k \in Int : k = 450
    OBVIOUS
  <2>8. Max({k, e}) \in Int
    BY OfTwo
  <2> QED
    BY <2>5, <2>6, <2>7, <2>8
<1>3. SourceQuality(cs, a) \in Int
  <2>1. PICK p \in Int, q \in Nat : p = SourceSum(cs, a) /\ q = SourceWeight(cs, a)
    BY SumsType
  <2>2. Ratio(250 * p, q) \in Int
    BY RatioType
  <2> QED
    BY <2>1, <2>2, ConfidenceParts
<1>4. StalePenalty(cs) \in Int
  <2>1. IsFiniteSet(Stales(cs))
    BY FS_Subset DEF Stales, ContributionsSound
  <2>2. PICK k \in Nat : k = Cardinality(Stales(cs))
    BY <2>1, FS_CardinalityType
  <2>3. PICK b \in Int, e \in Int : b = 120 /\ e = 15 * k
    OBVIOUS
  <2>4. Min({b, e}) \in Int
    BY OfTwo
  <2>5. StalePenalty(cs) = Min({b, e})
    BY <2>2, <2>3, ConfidenceParts
  <2> QED
    BY <2>4, <2>5
<1> QED
  BY <1>1, <1>2, <1>3, <1>4

LEMMA PenaltyType ==
    ASSUME NEW rows, NEW a
    PROVE  ConfidencePenalty(rows, a) \in Int
<1> DEFINE table == IF a = GoldAsset THEN GoldFlagPenalty ELSE FlagPenalty
           raised == {flag \in DOMAIN table : \E f \in ScoredFactors : Flagged(rows, a, f, flag)}
           w == [flag \in raised |-> table[flag]]
<1>1. IsFiniteSet(DOMAIN table) /\ \A flag \in DOMAIN table : table[flag] \in Int
  <2>1. CASE a = GoldAsset
    <3>1. DOMAIN table = {"cftc_long_crowding"}
                           \cup {"global_central_bank_demand_missing_china_proxy_only"}
      BY <2>1 DEF GoldFlagPenalty
    <3>2. \A flag \in DOMAIN table : table[flag] \in Int
      BY <2>1 DEF GoldFlagPenalty
    <3>3. IsFiniteSet({"cftc_long_crowding"}
                        \cup {"global_central_bank_demand_missing_china_proxy_only"})
      BY FS_Singleton, FS_Union
    <3> QED
      BY <3>1, <3>2, <3>3
  <2>2. CASE a # GoldAsset
    <3>1. DOMAIN table = {"idiosyncratic_rmb_weakness"} \cup {"ppi_reflation_without_profit_confirmation"}
                           \cup {"credit_money_signal_divergence"} \cup {"growth_signal_divergence"}
      BY <2>2 DEF FlagPenalty
    <3>2. \A flag \in DOMAIN table : table[flag] \in Int
      BY <2>2 DEF FlagPenalty
    <3>3. IsFiniteSet({"idiosyncratic_rmb_weakness"} \cup {"ppi_reflation_without_profit_confirmation"})
      BY FS_Singleton, FS_Union
    <3>4. IsFiniteSet({"idiosyncratic_rmb_weakness"} \cup {"ppi_reflation_without_profit_confirmation"}
                        \cup {"credit_money_signal_divergence"})
      BY <3>3, FS_Singleton, FS_Union
    <3>5. IsFiniteSet({"idiosyncratic_rmb_weakness"} \cup {"ppi_reflation_without_profit_confirmation"}
                        \cup {"credit_money_signal_divergence"} \cup {"growth_signal_divergence"})
      BY <3>4, FS_Singleton, FS_Union
    <3> QED
      BY <3>1, <3>2, <3>5
  <2> QED
    BY <2>1, <2>2
<1>2. ConfidencePenalty(rows, a) =
        SumFunction(w) + (IF LiquidityUnconfirmed(rows, a) THEN 80 ELSE 0)
          + (IF GrowthScare(rows, a) THEN 40 ELSE 0)
  BY DEF ConfidencePenalty
<1>3. DOMAIN w = raised /\ IsFiniteSet(raised) /\ \A flag \in raised : w[flag] \in Int
  <2>1. raised \subseteq DOMAIN table
    OBVIOUS
  <2> HIDE DEF table
  <2>2. \A flag \in raised : w[flag] \in Int
    BY <1>1, <2>1
  <2>3. DOMAIN w = raised
    OBVIOUS
  <2> HIDE DEF raised, w
  <2>4. IsFiniteSet(raised)
    BY <1>1, <2>1, FS_Subset
  <2> QED
    BY <2>2, <2>3, <2>4
<1> HIDE DEF w, raised, table
<1>4. PICK v \in Int : v = SumFunction(w)
  BY <1>3, SumOfInts
<1> QED
  BY <1>2, <1>4

LEMMA CoveredType ==
    ASSUME NEW rows, RowsSound(rows), NEW a \in ScoredAssets
    PROVE  CoveredIn(rows, a) \in Int /\ WeightIn(a, ScoredFactors) \in Nat
<1> DEFINE f == [r \in RowsFor(rows, a) |-> Abs(Sensitivity[a][r.factor]) * r.coverage]
           w == [g \in ScoredFactors |-> Abs(Sensitivity[a][g])]
<1>1. \A r \in RowsFor(rows, a) : f[r] \in Int
  <2> TAKE r \in RowsFor(rows, a)
  <2>1. ScoredRow(r)
    BY RowsForSound
  <2>2. r.factor \in ScoredFactors /\ r.coverage \in Nat
    BY <2>1 DEF ScoredRow
  <2>3. PICK u \in Nat, v \in Nat : u = Abs(Sensitivity[a][r.factor]) /\ v = r.coverage
    BY <2>2, SensitivityType
  <2>4. u * v \in Int
    BY Z3
  <2> QED
    BY <2>3, <2>4
<1>2. \A g \in ScoredFactors : w[g] \in Nat /\ w[g] \in Int
  BY SensitivityType
<1>3. /\ DOMAIN f = RowsFor(rows, a) /\ DOMAIN w = ScoredFactors
      /\ CoveredIn(rows, a) = SumFunction(f) /\ WeightIn(a, ScoredFactors) = SumFunction(w)
  BY DEF CoveredIn, WeightIn
<1>4. IsFiniteSet(RowsFor(rows, a)) /\ IsFiniteSet(ScoredFactors)
  BY RowsForSound, ScoringAssumption
<1> HIDE DEF f, w
<1> QED
  BY <1>1, <1>2, <1>3, <1>4, SumOfInts

(* A missing critical factor caps the confidence.                             *)
LEMMA ConfidenceCapped ==
    ASSUME NEW rows, RowsSound(rows), NEW a \in ScoredAssets, NEW cs, ContributionsSound(cs),
           CriticalMissing(rows, a)
    PROVE  Confidence(rows, cs, a) <= CriticalCap
<1>1. PICK u \in Int, v \in Nat : u = CoveredIn(rows, a) /\ v = WeightIn(a, ScoredFactors)
  BY CoveredType
<1>2. PICK c \in Int : c = Ratio(500 * u, v)
  BY RatioType
<1>3. PICK g \in Int, t \in Int, q \in Int, p \in Int :
        g = Agreement(cs) /\ t = Stability(cs) /\ q = SourceQuality(cs, a) /\ p = StalePenalty(cs)
  BY PartsType
<1>4. PICK n \in Int : n = ConfidencePenalty(rows, a)
  BY PenaltyType
<1> DEFINE raw == (30 * c + 25 * q + 20 * g + 15 * t + 10 * 800) \div 100 - n - p
<1>5. raw \in Int /\ CriticalCap \in 0 .. 1000
  BY ScoringAssumption
<1>6. Confidence(rows, cs, a) = Within(0, Min({raw, CriticalCap}), 1000)
  BY <1>1, <1>2, <1>3, <1>4 DEF Confidence
<1> HIDE DEF raw
<1>7. PICK m \in Int : m = Min({raw, CriticalCap}) /\ m <= CriticalCap
  <2>1. PICK b \in Int, e \in Int : b = raw /\ e = CriticalCap
    BY <1>5
  <2>2. Min({b, e}) \in Int /\ Min({b, e}) <= e
    BY OfTwo
  <2> QED
    BY <2>1, <2>2
<1>8. Within(0, m, 1000) <= CriticalCap
  BY <1>5, <1>7 DEF Within
<1> QED
  BY <1>6, <1>7, <1>8

LEMMA MirrorValueFacts ==
    ASSUME NEW cs, ContributionsSound(cs)
    PROVE  /\ \A c \in cs : /\ MirrorValue(c).row = Mirror(c.row) /\ MirrorValue(c).value = -c.value
                            /\ c.value \in Int /\ ScoredRow(c.row)
                            /\ MirrorValue(c).row.factor = c.row.factor
                            /\ MirrorValue(c).row.reliability = c.row.reliability
                            /\ MirrorValue(c).row.coverage = c.row.coverage
                            /\ MirrorValue(c).row.status = c.row.status
           /\ \A c, d \in cs : MirrorValue(c) = MirrorValue(d) => c = d
<1>1. ASSUME NEW c \in cs
      PROVE  /\ MirrorValue(c).row = Mirror(c.row) /\ MirrorValue(c).value = -c.value
             /\ c.value \in Int /\ ScoredRow(c.row) /\ c = [row |-> c.row, value |-> c.value]
  BY DEF MirrorValue, ContributionsSound
<1>2. ASSUME NEW c \in cs, NEW d \in cs, MirrorValue(c) = MirrorValue(d)
      PROVE  c = d
  <2>1. Mirror(c.row) = Mirror(d.row) /\ -c.value = -d.value
    BY <1>1, <1>2
  <2>2. c.row = d.row
    BY <1>1, <2>1, MirrorTells
  <2>3. c.value = d.value
    BY <1>1, <2>1
  <2> QED
    BY <1>1, <2>2, <2>3
<1>3. ASSUME NEW c \in cs
      PROVE  /\ MirrorValue(c).row.factor = c.row.factor
             /\ MirrorValue(c).row.reliability = c.row.reliability
             /\ MirrorValue(c).row.coverage = c.row.coverage
             /\ MirrorValue(c).row.status = c.row.status
  BY <1>1, MirrorRow
<1> QED
  BY <1>1, <1>2, <1>3

\* The image of some of the contributions under turning each.
LEMMA TurnedImage ==
    ASSUME NEW cs, ContributionsSound(cs), NEW S \in SUBSET cs, NEW T, ValuesTurn(S, T)
    PROVE  /\ IsFiniteSet(S) /\ OneToOne([c \in S |-> MirrorValue(c)], S, T)
           /\ \A c \in S : [b \in S |-> MirrorValue(b)][c] = MirrorValue(c)
<1> DEFINE m == [c \in S |-> MirrorValue(c)]
<1>1. IsFiniteSet(S)
  BY FS_Subset DEF ContributionsSound
<1>2. \A c \in S : m[c] = MirrorValue(c)
  OBVIOUS
<1> HIDE DEF m
<1>3. OneToOne(m, S, T)
  BY <1>2, MirrorValueFacts DEF OneToOne, ValuesTurn
<1> QED
  BY <1>1, <1>2, <1>3 DEF m

LEMMA SideTurned ==
    ASSUME NEW cs, ContributionsSound(cs), NEW ds, ContributionsSound(ds), ValuesTurn(cs, ds),
           NEW s \in {1, -1}, NEW u \in {1, -1}, u = -s
    PROVE  SideOf(ds, u) = SideOf(cs, s)
<1> DEFINE S == OnSide(cs, s)
           T == OnSide(ds, u)
           m == [c \in S |-> MirrorValue(c)]
           f == [c \in S |-> Abs(c.value)]
           g == [c \in T |-> Abs(c.value)]
<1>1. \A c \in cs : /\ MirrorValue(c) \in ds /\ MirrorValue(c).value = -c.value /\ c.value \in Int
                    /\ s * c.value > 0 <=> u * MirrorValue(c).value > 0
  <2> TAKE c \in cs
  <2>1. MirrorValue(c) \in ds /\ MirrorValue(c).value = -c.value /\ c.value \in Int
    BY MirrorValueFacts DEF ValuesTurn
  <2>2. PICK v \in Int : v = c.value
    BY <2>1
  <2>3. s * v > 0 <=> u * (-v) > 0
    <3>1. CASE s = 1 /\ u = -1
      BY <3>1
    <3>2. CASE s = -1 /\ u = 1
      BY <3>2
    <3> QED
      BY <3>1, <3>2
  <2> QED
    BY <2>1, <2>2, <2>3
<1>2. S \in SUBSET cs /\ T \in SUBSET ds
  BY DEF OnSide
<1>3. ValuesTurn(S, T)
  <2>1. \A c \in S : MirrorValue(c) \in T
    BY <1>1 DEF OnSide
  <2>2. \A d \in T : \E c \in S : d = MirrorValue(c)
    <3> TAKE d \in T
    <3>1. d \in ds /\ u * d.value > 0
      BY DEF OnSide
    <3>2. PICK c \in cs : d = MirrorValue(c)
      BY <3>1 DEF ValuesTurn
    <3>3. c \in S
      BY <1>1, <3>1, <3>2 DEF OnSide
    <3> QED
      BY <3>2, <3>3
  <2> QED
    BY <2>1, <2>2 DEF ValuesTurn
<1>4. SideOf(cs, s) = TotalOf(f, S) /\ SideOf(ds, u) = TotalOf(g, T)
  BY SumIsTotal DEF SideOf
<1>5. \A c \in S : f[c] = Abs(c.value) /\ c.value \in Int /\ MirrorValue(c).value = -c.value
  BY <1>1, <1>2
<1>6. \A d \in T : g[d] = Abs(d.value)
  OBVIOUS
<1> HIDE DEF S, T, f, g
<1>7. IsFiniteSet(S) /\ OneToOne(m, S, T) /\ \A c \in S : m[c] = MirrorValue(c)
  BY <1>2, <1>3, TurnedImage
<1> HIDE DEF m
<1>8. \A c \in S : f[c] \in Int /\ g[m[c]] = f[c]
  <2> TAKE c \in S
  <2>1. m[c] \in T /\ m[c].value = -c.value
    BY <1>5, <1>7 DEF OneToOne
  <2> QED
    BY <1>5, <1>6, <2>1, AbsFacts
<1> QED
  BY <1>4, <1>7, <1>8, SumOfImage

LEMMA PartsTurned ==
    ASSUME NEW cs, ContributionsSound(cs), NEW ds, ContributionsSound(ds), ValuesTurn(cs, ds),
           NEW a \in ScoredAssets
    PROVE  /\ Agreement(ds) = Agreement(cs) /\ Stability(ds) = Stability(cs)
           /\ SourceQuality(ds, a) = SourceQuality(cs, a) /\ StalePenalty(ds) = StalePenalty(cs)
<1> DEFINE m == [c \in cs |-> MirrorValue(c)]
<1>1. IsFiniteSet(cs) /\ OneToOne(m, cs, ds) /\ \A c \in cs : m[c] = MirrorValue(c)
  <2>1. cs \in SUBSET cs
    OBVIOUS
  <2> QED
    BY <2>1, TurnedImage
<1> HIDE DEF m
<1>2. \A c \in cs : /\ m[c] \in ds /\ m[c].value = -c.value /\ c.value \in Int
                    /\ m[c].row.factor = c.row.factor /\ m[c].row.status = c.row.status
                    /\ m[c].row.reliability = c.row.reliability /\ m[c].row.coverage = c.row.coverage
  BY <1>1, MirrorValueFacts DEF OneToOne
<1>3. \A d \in ds : \E c \in cs : d = m[c]
  BY <1>1 DEF OneToOne
<1>4. Agreement(ds) = Agreement(cs)
  <2>1. PICK p \in Nat, q \in Nat : p = SideOf(cs, 1) /\ q = SideOf(cs, -1)
    BY SideType
  <2>2. SideOf(ds, -1) = p /\ SideOf(ds, 1) = q
    <3>1. PICK one \in {1, -1}, minus \in {1, -1} : one = 1 /\ minus = -1
      OBVIOUS
    <3>2. minus = -one /\ one = -minus
      <4>1. one \in Int /\ minus \in Int /\ one + minus = 0
        BY <3>1
      <4> QED
        BY <4>1
    <3>3. SideOf(ds, minus) = SideOf(cs, one) /\ SideOf(ds, one) = SideOf(cs, minus)
      BY <3>2, SideTurned, ZenonT(60)
    <3> QED
      BY <2>1, <3>1, <3>3
  <2>3. {p, q} = {q, p} /\ p + q = q + p
    OBVIOUS
  <2>4. Agreement(cs) = IF p + q = 0 THEN 500 ELSE Ratio(100 * Max({p, q}), Ratio(p + q, 10))
    BY <2>1, ConfidenceParts
  <2>5. Agreement(ds) = IF q + p = 0 THEN 500 ELSE Ratio(100 * Max({q, p}), Ratio(q + p, 10))
    BY <2>2, ConfidenceParts
  <2> QED
    BY <2>3, <2>4, <2>5
<1>5. Stability(ds) = Stability(cs)
  <2>1. Worths(ds) = Worths(cs)
    <3> DEFINE f == [c \in cs |-> Abs(c.value)]
               g == [c \in ds |-> Abs(c.value)]
    <3>1. Worths(cs) = TotalOf(f, cs) /\ Worths(ds) = TotalOf(g, ds)
      BY SumIsTotal DEF Worths
    <3>2. \A c \in cs : f[c] = Abs(c.value) /\ g[m[c]] = Abs(m[c].value)
      BY <1>2
    <3> HIDE DEF f, g
    <3>3. \A c \in cs : f[c] \in Int /\ g[m[c]] = f[c]
      BY <1>2, <3>2, AbsFacts
    <3> QED
      BY <1>1, <3>1, <3>3, SumOfImage
  <2>2. Largest(ds) = Largest(cs)
    <3>1. \A c \in cs : Abs(m[c].value) = Abs(c.value)
      BY <1>2, AbsFacts
    <3>2. ASSUME NEW v \in Largest(cs) PROVE v \in Largest(ds)
      <4>1. PICK c \in cs : v = Abs(c.value)
        BY DEF Largest
      <4>2. m[c] \in ds /\ v = Abs(m[c].value)
        BY <1>2, <3>1, <4>1
      <4> QED
        BY <4>2 DEF Largest
    <3>3. ASSUME NEW v \in Largest(ds) PROVE v \in Largest(cs)
      <4>1. PICK d \in ds : v = Abs(d.value)
        BY DEF Largest
      <4>2. PICK c \in cs : d = m[c]
        BY <1>3
      <4>3. v = Abs(c.value)
        BY <3>1, <4>1, <4>2
      <4> QED
        BY <4>3 DEF Largest
    <3> QED
      BY <3>2, <3>3
  <2>3. cs = {} <=> ds = {}
    BY <1>2, <1>3
  <2> DEFINE largest(some) == IF some = {} THEN 1000
                              ELSE Ratio(100 * Max(Largest(some)), Ratio(Worths(some), 10))
             stable(l) == Max({450, 1000 - (55 * l) \div 100})
  <2>4. largest(ds) = largest(cs)
    BY <2>1, <2>2, <2>3
  <2>5. Stability(cs) = stable(largest(cs)) /\ Stability(ds) = stable(largest(ds))
    BY ConfidenceParts
  <2> HIDE DEF largest, stable
  <2> QED
    BY <2>4, <2>5
<1>6. SourceQuality(ds, a) = SourceQuality(cs, a)
  <2> DEFINE f == [c \in cs |-> Abs(Sensitivity[a][c.row.factor]) * c.row.reliability * c.row.coverage]
             g == [c \in ds |-> Abs(Sensitivity[a][c.row.factor]) * c.row.reliability * c.row.coverage]
             w == [c \in cs |-> Abs(Sensitivity[a][c.row.factor])]
             v == [c \in ds |-> Abs(Sensitivity[a][c.row.factor])]
  <2>1. /\ SourceSum(cs, a) = TotalOf(f, cs) /\ SourceSum(ds, a) = TotalOf(g, ds)
        /\ SourceWeight(cs, a) = TotalOf(w, cs) /\ SourceWeight(ds, a) = TotalOf(v, ds)
    BY SumIsTotal DEF SourceSum, SourceWeight
  <2>2. \A c \in cs : f[c] \in Int /\ w[c] \in Int
    BY ContributionTypes
  <2>3. \A c \in cs : g[m[c]] = f[c] /\ v[m[c]] = w[c]
    <3> TAKE c \in cs
    <3>1. /\ g[m[c]] = Abs(Sensitivity[a][m[c].row.factor]) * m[c].row.reliability * m[c].row.coverage
          /\ v[m[c]] = Abs(Sensitivity[a][m[c].row.factor])
      BY <1>2
    <3> QED
      BY <1>2, <3>1
  <2> HIDE DEF f, g, w, v
  <2>4. TotalOf(g, ds) = TotalOf(f, cs) /\ TotalOf(v, ds) = TotalOf(w, cs)
    BY <1>1, <2>2, <2>3, SumOfImage
  <2> QED
    BY <2>1, <2>4, ConfidenceParts
<1>7. StalePenalty(ds) = StalePenalty(cs)
  <2> DEFINE n == [c \in Stales(cs) |-> m[c]]
  <2>1. \A c \in Stales(cs) : c \in cs /\ n[c] = m[c] /\ n[c] \in Stales(ds)
    BY <1>2 DEF Stales
  <2>2. \A d \in Stales(ds) : \E c \in Stales(cs) : n[c] = d
    <3> TAKE d \in Stales(ds)
    <3>1. PICK c \in cs : d = m[c]
      BY <1>3 DEF Stales
    <3>2. c \in Stales(cs)
      BY <1>2, <3>1 DEF Stales
    <3> QED
      BY <3>1, <3>2
  <2>3. \A c, d \in Stales(cs) : n[c] = n[d] => c = d
    BY <1>1, <2>1 DEF OneToOne
  <2>4. n \in [Stales(cs) -> Stales(ds)]
    BY <2>1
  <2> HIDE DEF n
  <2>5. n \in Bijection(Stales(cs), Stales(ds))
    BY <2>2, <2>3, <2>4 DEF Bijection, Injection, IsInjective, Surjection
  <2>6. IsFiniteSet(Stales(cs))
    BY <1>1, FS_Subset DEF Stales
  <2>7. Cardinality(Stales(ds)) = Cardinality(Stales(cs))
    BY <2>5, <2>6, FS_Bijection DEF ExistsBijection
  <2> DEFINE penalty(k) == Min({120, 15 * k})
  <2>8. /\ StalePenalty(cs) = penalty(Cardinality(Stales(cs)))
        /\ StalePenalty(ds) = penalty(Cardinality(Stales(ds)))
    BY ConfidenceParts
  <2> HIDE DEF penalty
  <2> QED
    BY <2>7, <2>8
<1> QED
  BY <1>4, <1>5, <1>6, <1>7

(* Where no factor is damped no conflict rule acts: one the configuration does *)
(* not know has no row, and a state of 0.                                      *)
LEMMA UnruledIsQuiet ==
    ASSUME NEW rows, RowsSound(rows), NEW a, Unruled(rows, a)
    PROVE  ~LiquidityUnconfirmed(rows, a) /\ ~GrowthScare(rows, a)
<1>1. ASSUME NEW f, f \notin ScoredFactors
      PROVE  StateOf(rows, a, f) = 0
  <2> DEFINE S == {q \in RowsFor(rows, a) : q.factor = f}
             w == [r \in S |-> r.state]
  <2>1. S = {}
    <3>1. \A q \in RowsFor(rows, a) : q.factor \in ScoredFactors
      BY RowsForSound DEF ScoredRow
    <3> QED
      BY <1>1, <3>1
  <2>2. StateOf(rows, a, f) = TotalOf(w, S)
    BY SumIsTotal DEF StateOf
  <2> HIDE DEF w, S
  <2> QED
    BY <2>1, <2>2, TotalEmpty
<1>2. ~LiquidityUnconfirmed(rows, a)
  <2>1. CASE "EQ01_CN_FUNDING_LIQUIDITY" \in ScoredFactors
    <3>1. Multiplier20(rows, a, "EQ01_CN_FUNDING_LIQUIDITY") = 20
      BY <2>1 DEF Unruled
    <3> QED
      BY <3>1 DEF Multiplier20
  <2>2. CASE "EQ01_CN_FUNDING_LIQUIDITY" \notin ScoredFactors
    <3>1. StateOf(rows, a, "EQ01_CN_FUNDING_LIQUIDITY") = 0
      BY <1>1, <2>2
    <3> QED
      BY <3>1 DEF LiquidityUnconfirmed
  <2> QED
    BY <2>1, <2>2
<1>3. ~GrowthScare(rows, a)
  <2>1. CASE "EQ03_CN_DISCOUNT_RATE" \in ScoredFactors
    <3>1. Multiplier20(rows, a, "EQ03_CN_DISCOUNT_RATE") = 20
      BY <2>1 DEF Unruled
    <3> QED
      BY <3>1 DEF Multiplier20
  <2>2. CASE "EQ03_CN_DISCOUNT_RATE" \notin ScoredFactors
    <3>1. StateOf(rows, a, "EQ03_CN_DISCOUNT_RATE") = 0
      BY <1>1, <2>2
    <3> QED
      BY <3>1 DEF GrowthScare
  <2> QED
    BY <2>1, <2>2
<1> QED
  BY <1>2, <1>3

LEMMA ConfidenceTurned ==
    ASSUME NEW rows, RowsSound(rows), NEW a \in ScoredAssets,
           Unruled(rows, a), Unruled(Mirrored(rows), a),
           NEW cs, ContributionsSound(cs), NEW ds, ContributionsSound(ds), ValuesTurn(cs, ds)
    PROVE  Confidence(Mirrored(rows), ds, a) = Confidence(rows, cs, a)
<1> DEFINE other == Mirrored(rows)
           S == RowsFor(rows, a)
           T == RowsFor(other, a)
           m == [r \in S |-> Mirror(r)]
<1>1. RowsSound(other)
  BY MirroredRows
<1>2. \A r \in S : /\ ScoredRow(r) /\ m[r] = Mirror(r) /\ m[r] \in T
                   /\ m[r].factor = r.factor /\ m[r].coverage = r.coverage /\ m[r].flags = r.flags
  <2> TAKE r \in S
  <2>1. ScoredRow(r) /\ Mirror(r) \in T
    BY RowsForSound, MirroredRows
  <2>2. Mirror(r).factor = r.factor /\ Mirror(r).coverage = r.coverage /\ Mirror(r).flags = r.flags
    BY <2>1, MirrorRow
  <2> QED
    BY <2>1, <2>2
<1>3. \A q \in T : \E r \in S : q = m[r]
  <2> TAKE q \in T
  <2>1. PICK r \in S : q = Mirror(r)
    BY MirroredRows
  <2> QED
    BY <1>2, <2>1
<1> HIDE DEF m
<1>4. CoveredIn(other, a) = CoveredIn(rows, a)
  <2> DEFINE f == [r \in S |-> Abs(Sensitivity[a][r.factor]) * r.coverage]
             g == [r \in T |-> Abs(Sensitivity[a][r.factor]) * r.coverage]
  <2>1. CoveredIn(rows, a) = TotalOf(f, S) /\ CoveredIn(other, a) = TotalOf(g, T)
    BY SumIsTotal DEF CoveredIn
  <2>2. OneToOne(m, S, T)
    <3>1. \A q, r \in S : m[q] = m[r] => q = r
      BY <1>2, MirrorTells
    <3> HIDE DEF S, T
    <3> QED
      BY <1>2, <1>3, <3>1 DEF OneToOne
  <2>3. \A r \in S : f[r] \in Int
    <3> TAKE r \in S
    <3>1. r.factor \in ScoredFactors /\ r.coverage \in Nat
      BY <1>2 DEF ScoredRow
    <3>2. PICK u \in Nat, v \in Nat : u = Abs(Sensitivity[a][r.factor]) /\ v = r.coverage
      BY <3>1, SensitivityType
    <3>3. u * v \in Int
      BY Z3
    <3> QED
      BY <3>2, <3>3
  <2>4. \A r \in S : g[m[r]] = f[r]
    <3> TAKE r \in S
    <3>1. g[m[r]] = Abs(Sensitivity[a][m[r].factor]) * m[r].coverage
      BY <1>2
    <3> QED
      BY <1>2, <3>1
  <2>5. IsFiniteSet(S)
    BY RowsForSound
  <2> HIDE DEF f, g, S, T
  <2>6. TotalOf(g, T) = TotalOf(f, S)
    BY <2>2, <2>3, <2>4, <2>5, SumOfImage
  <2> QED
    BY <2>1, <2>6
<1>5. \A f, flag : Flagged(other, a, f, flag) <=> Flagged(rows, a, f, flag)
  <2> TAKE f, flag
  <2>1. Flagged(rows, a, f, flag) => Flagged(other, a, f, flag)
    BY <1>2 DEF Flagged
  <2>2. Flagged(other, a, f, flag) => Flagged(rows, a, f, flag)
    <3> HAVE Flagged(other, a, f, flag)
    <3>1. PICK q \in T : q.factor = f /\ flag \in q.flags
      BY DEF Flagged
    <3>2. PICK r \in S : q = m[r]
      BY <1>3
    <3>3. r.factor = f /\ flag \in r.flags
      BY <1>2, <3>1, <3>2
    <3> QED
      BY <3>3 DEF Flagged
  <2> QED
    BY <2>1, <2>2
<1>6. CriticalMissing(other, a) <=> CriticalMissing(rows, a)
  <2>1. \A f : (\E r \in S : r.factor = f /\ r.coverage > 0) <=> (\E q \in T : q.factor = f /\ q.coverage > 0)
    <3> TAKE f
    <3>1. ASSUME NEW r \in S, r.factor = f, r.coverage > 0
          PROVE  \E q \in T : q.factor = f /\ q.coverage > 0
      BY <1>2, <3>1
    <3>2. ASSUME NEW q \in T, q.factor = f, q.coverage > 0
          PROVE  \E r \in S : r.factor = f /\ r.coverage > 0
      <4>1. PICK r \in S : q = m[r]
        BY <1>3
      <4>2. r.factor = f /\ r.coverage > 0
        BY <1>2, <3>2, <4>1
      <4> QED
        BY <4>2
    <3> QED
      BY <3>1, <3>2
  <2> QED
    BY <2>1 DEF CriticalMissing
<1>7. ConfidencePenalty(other, a) = ConfidencePenalty(rows, a)
  <2>1. /\ ~LiquidityUnconfirmed(rows, a) /\ ~GrowthScare(rows, a)
        /\ ~LiquidityUnconfirmed(other, a) /\ ~GrowthScare(other, a)
    BY <1>1, UnruledIsQuiet
  <2> DEFINE table == IF a = GoldAsset THEN GoldFlagPenalty ELSE FlagPenalty
             raised(some) == {flag \in DOMAIN table : \E f \in ScoredFactors : Flagged(some, a, f, flag)}
             penalty(set) == SumFunction([flag \in set |-> table[flag]])
  <2>2. raised(other) = raised(rows)
    BY <1>5
  <2>3. \A some : ConfidencePenalty(some, a) =
          penalty(raised(some)) + (IF LiquidityUnconfirmed(some, a) THEN 80 ELSE 0)
            + (IF GrowthScare(some, a) THEN 40 ELSE 0)
    BY DEF ConfidencePenalty
  <2> HIDE DEF raised, penalty, table
  <2> QED
    BY <2>1, <2>2, <2>3
<1>8. /\ Agreement(ds) = Agreement(cs) /\ Stability(ds) = Stability(cs)
      /\ SourceQuality(ds, a) = SourceQuality(cs, a) /\ StalePenalty(ds) = StalePenalty(cs)
  BY PartsTurned
<1> HIDE DEF other
<1>9. Confidence(other, ds, a) = Confidence(rows, cs, a)
  BY <1>4, <1>6, <1>7, <1>8 DEF Confidence
<1> QED
  BY <1>9 DEF other

(* Opposite rows score opposite, with the same confidence.                     *)
LEMMA OppositeScores ==
    ASSUME NEW rows, RowsSound(rows), NEW a \in ScoredAssets,
           Unruled(rows, a), Unruled(Mirrored(rows), a)
    PROVE  AssetScore(Mirrored(rows), a) = [AssetScore(rows, a) EXCEPT !.score = 1000 - @]
<1> DEFINE other == Mirrored(rows)
           results == HorizonResults(rows, a)
           others == HorizonResults(other, a)
<1>1. RowsSound(other)
  BY MirroredRows
<1>2. ASSUME NEW h \in Horizons
      PROVE  /\ results[h].direction \in Int /\ others[h].direction = -results[h].direction
             /\ CappedSound(results[h].rows) /\ CappedSound(others[h].rows)
             /\ CappedTurns(results[h].rows, others[h].rows)
  <2>1. RawSound(RawRows(rows, a, h)) /\ RawSound(RawRows(other, a, h))
    BY <1>1, RawRowsSound
  <2>2. MirrorSets(RawRows(rows, a, h), RawRows(other, a, h))
    BY MirroredRaw
  <2>3. /\ results[h].direction = RawDirection(RawRows(rows, a, h)) /\ results[h].direction \in Int
        /\ results[h].rows = CappedRows(RawRows(rows, a, h))
    BY HorizonResultsAre
  <2>4. /\ others[h].direction = RawDirection(RawRows(other, a, h))
        /\ others[h].rows = CappedRows(RawRows(other, a, h))
    BY <1>1, HorizonResultsAre
  <2>5. RawDirection(RawRows(other, a, h)) = -RawDirection(RawRows(rows, a, h))
    BY <2>1, <2>2, DirectionTurned
  <2>6. /\ CappedSound(CappedRows(RawRows(rows, a, h))) /\ CappedSound(CappedRows(RawRows(other, a, h)))
        /\ CappedTurns(CappedRows(RawRows(rows, a, h)), CappedRows(RawRows(other, a, h)))
    BY <2>1, <2>2, CappedRowsSound, CappedRowsTurned
  <2> QED
    BY <2>3, <2>4, <2>5, <2>6
<1> HIDE DEF other, results, others
<1>3. Score(others) = 1000 - Score(results)
  BY <1>2, ScoreMirrored
<1>4. ResultsSound(results) /\ ResultsSound(others)
  BY <1>2 DEF ResultsSound
<1>5. /\ ValuesTurn(Contributions(results), Contributions(others))
      /\ ContributionsSound(Contributions(results)) /\ ContributionsSound(Contributions(others))
  BY <1>2, <1>4, ContributionsTurned, ContributionsAreSound
<1>6. Confidence(other, Contributions(others), a) = Confidence(rows, Contributions(results), a)
  BY <1>5, ConfidenceTurned DEF other
<1>7. AssetScore(rows, a) = [score |-> Score(results), confidence |-> Confidence(rows, Contributions(results), a)]
  BY DEF AssetScore, results
<1>8. AssetScore(other, a) = [score |-> Score(others), confidence |-> Confidence(other, Contributions(others), a)]
  BY DEF AssetScore, others
<1>9. AssetScore(other, a) = [AssetScore(rows, a) EXCEPT !.score = 1000 - @]
  BY <1>3, <1>6, <1>7, <1>8
<1> QED
  BY <1>9 DEF other

-----------------------------------------------------------------------------
(* Every score is the score of rows it is given.                              *)
ScoreComputed ==
  subject = "score" =>
    /\ input.asset \in DOMAIN RowSets /\ input.rows \in RowSets[input.asset]
    /\ answer = AssetScore(input.rows, input.asset)

LEMMA ScoreInvariant == ComputationsSpec => []ScoreComputed
<1>1. ComputationsInit => ScoreComputed
  BY DEF ComputationsInit, ScoreComputed
<1>2. ScoreComputed /\ [ComputationsNext]_computationVars => ScoreComputed'
  <2> SUFFICES ASSUME ScoreComputed, [ComputationsNext]_computationVars PROVE ScoreComputed'
    OBVIOUS
  <2>1. CASE ScoreAsset
    <3>1. PICK a \in DOMAIN RowSets : \E rows \in RowSets[a] :
             /\ input' = [asset |-> a, rows |-> rows]
             /\ answer' = AssetScore(rows, a)
      BY <2>1 DEF ScoreAsset
    <3> QED
      BY <3>1 DEF ScoreComputed
  <2>2. CASE CalculateFactor \/ ComputeFeature \/ ClusterFeed \/ MergeEvents
    <3>1. subject' # "score"
      BY <2>2 DEF CalculateFactor, ComputeFeature, ClusterFeed, MergeEvents
    <3> QED
      BY <3>1 DEF ScoreComputed
  <2>3. CASE UNCHANGED computationVars
    BY <2>3 DEF ScoreComputed, computationVars
  <2> QED
    BY <2>1, <2>2, <2>3 DEF ComputationsNext
<1> QED
  BY <1>1, <1>2, PTL DEF ComputationsSpec

(* Damping and caps leave a score where it belongs, as ScoreSound says of it, whatever the   *)
(* rows, the sensitivities and weights, and the caps as long as together they fit into the   *)
(* whole (engine/scoring.py, engine/rules.py, engine/confidence.py).                         *)
THEOREM ScoresAreSound == ComputationsSpec => []ScoreSound
<1>1. ScoreComputed => ScoreSound
  <2> SUFFICES ASSUME ScoreComputed, subject = "score"
               PROVE  ScoreSound
    BY DEF ScoreSound
  <2> DEFINE a == input.asset
             rows == input.rows
             own == {r \in rows : r.asset \in {a, Everywhere}}
             ruled(some) == [f \in ScoredFactors |-> Multiplier20(some, a, f)]
             unruled == [f \in ScoredFactors |-> 20]
  <2>1. RowsSound(rows) /\ a \in ScoredAssets /\ answer = AssetScore(rows, a)
    BY ComputationsAssumption DEF ScoreComputed, RowsSound
  <2>2. \A h \in Horizons : Abs(RawDirection(RawRows(rows, a, h))) <= 1000
    <3> TAKE h \in Horizons
    <3>1. RawSound(RawRows(rows, a, h))
      BY <2>1, RawRowsSound
    <3>2. PICK v \in Int : v = RawDirection(RawRows(rows, a, h)) /\ -1000 <= v /\ v <= 1000
      BY <3>1, DirectionBounded
    <3> QED
      BY <3>2 DEF Abs
  <2>3. answer = AssetScore(own, a)
    BY <2>1, OwnRowsDecide
  <2>4. ASSUME ruled(rows) = unruled, ruled(Mirrored(rows)) = unruled
        PROVE  AssetScore(Mirrored(rows), a) = [answer EXCEPT !.score = 1000 - @]
    <3>1. ASSUME NEW f \in ScoredFactors
          PROVE  Multiplier20(rows, a, f) = 20 /\ Multiplier20(Mirrored(rows), a, f) = 20
      <4>1. ruled(rows)[f] = unruled[f] /\ ruled(Mirrored(rows))[f] = unruled[f]
        BY <2>4, Zenon
      <4> QED
        BY <4>1
    <3>2. Unruled(rows, a) /\ Unruled(Mirrored(rows), a)
      BY <3>1 DEF Unruled
    <3> QED
      BY <2>1, <3>2, OppositeScores
  <2>5. ASSUME NEW r \in rows, r.state < 5, Sensitivity[a][r.factor] >= 0,
               GroupOf[r.factor] \notin DOMAIN GroupCap, ruled(Raised(rows, r)) = ruled(rows)
        PROVE  Score(HorizonResults(Raised(rows, r), a)) >= answer.score
    <3>1. ASSUME NEW f \in ScoredFactors
          PROVE  Multiplier20(rows, a, f) = Multiplier20(Raised(rows, r), a, f)
      <4>1. ruled(Raised(rows, r))[f] = ruled(rows)[f]
        BY <2>5, Zenon
      <4> QED
        BY <4>1
    <3>2. SameRules(rows, Raised(rows, r), a)
      BY <3>1 DEF SameRules
    <3>3. Score(HorizonResults(rows, a)) <= Score(HorizonResults(Raised(rows, r), a))
      BY <2>1, <2>5, <3>2, ScoreNeverFalls
    <3>4. answer.score = Score(HorizonResults(rows, a))
      BY <2>1 DEF AssetScore
    <3> QED
      BY <3>3, <3>4
  <2>6. ASSUME CriticalMissing(rows, a)
        PROVE  answer.confidence <= CriticalCap
    <3> DEFINE cs == Contributions(HorizonResults(rows, a))
    <3>1. ResultsSound(HorizonResults(rows, a))
      <4>1. ASSUME NEW h \in Horizons PROVE CappedSound(HorizonResults(rows, a)[h].rows)
        <5>1. RawSound(RawRows(rows, a, h))
          BY <2>1, RawRowsSound
        <5>2. CappedSound(CappedRows(RawRows(rows, a, h)))
          BY <5>1, CappedRowsSound
        <5> QED
          BY <2>1, <5>2, HorizonResultsAre
      <4> QED
        BY <4>1 DEF ResultsSound
    <3>2. ContributionsSound(cs)
      BY <3>1, ContributionsAreSound
    <3>3. answer.confidence = Confidence(rows, cs, a)
      BY <2>1 DEF AssetScore
    <3> HIDE DEF cs
    <3>4. Confidence(rows, cs, a) <= CriticalCap
      BY <2>1, <2>6, <3>2, ConfidenceCapped
    <3> QED
      BY <3>3, <3>4
  <2> QED
    BY <2>2, <2>3, <2>4, <2>5, <2>6 DEF ScoreSound
<1> QED
  BY <1>1, ScoreInvariant, PTL
=============================================================================
