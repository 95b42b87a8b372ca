------------------------------ MODULE Computations ------------------------------
(*****************************************************************************)
(* The pure computations between the stored data and a score, one at a time:   *)
(* a computation is picked with an input the program can give it, and answers. *)
(* What a computation promises is stated about its input and its answer, and   *)
(* about the answers it gives for neighbouring inputs.                         *)
(*****************************************************************************)
EXTENDS Integers, Sequences, FiniteSets,
        FactorCalculators, IndicatorFeatures, Scoring, NewsEvents

CONSTANTS
  CalculatorInputs,  \* per calculator, the inputs it is tried with
  Ages,              \* the ages an observation may have
  Histories,         \* the values of an indicator, in the order of their dates
  RowSets,           \* per asset, the factor rows it is scored with
  Feeds, Cutoffs,    \* what the news source shows, and when it is asked
  EventSets          \* the events of one run

VARIABLES
  subject,           \* which computation was made
  input, answer

computationVars == <<subject, input, answer>>

Unasked == [asked |-> FALSE]

ComputationsInit == subject = "none" /\ input = Unasked /\ answer = Unasked

CalculateFactor ==
  /\ subject = "none" /\ subject' = "factor"
  /\ \E f \in DOMAIN CalculatorInputs : \E channels \in CalculatorInputs[f] :
       /\ input' = [factor |-> f, channels |-> channels]
       /\ answer' = Calculate(f, channels)

ComputeFeature ==
  /\ subject = "none" /\ subject' = "feature"
  /\ \E feature \in {"level_robust", "change", "return", "yoy_pct", "pmi_state"},
        lag \in {1, 2}, values \in Histories :
       /\ input' = [feature |-> feature, lag |-> lag, values |-> values]
       /\ answer' = FeatureScore(feature, lag, values)

ScoreAsset ==
  /\ subject = "none" /\ subject' = "score"
  /\ \E a \in DOMAIN RowSets : \E rows \in RowSets[a] :
       /\ input' = [asset |-> a, rows |-> rows]
       /\ answer' = AssetScore(rows, a)

ClusterFeed ==
  /\ subject = "none" /\ subject' = "clusters"
  /\ \E feed \in Feeds, asOf \in Cutoffs :
       /\ input' = FetchNews(feed, asOf)
       /\ answer' = ClustersFor(FetchNews(feed, asOf))

MergeEvents ==
  /\ subject = "none" /\ subject' = "events"
  /\ \E events \in EventSets : input' = events /\ answer' = Deduplicated(events)

ComputationsNext ==
  \/ CalculateFactor \/ ComputeFeature \/ ScoreAsset \/ ClusterFeed \/ MergeEvents

ComputationsSpec == ComputationsInit /\ [][ComputationsNext]_computationVars

-----------------------------------------------------------------------------
(* What a factor may say.                                                    *)

\* How much each indicator of a factor counts.
IndicatorWeight ==
  [credit_money |-> [CN_M1_YOY |-> 45, CN_TSFIN_GROWTH |-> 55],
   growth_momentum |-> GrowthWeights,
   central_bank_gold_demand |-> [GLOBAL_CENTRAL_BANK_GOLD |-> 85, CN_OFFICIAL_GOLD_RESERVE |-> 15],
   rmb_external_balance |-> [USDCNY |-> 55, US_BROAD_DOLLAR |-> 45],
   price_profit_cycle |-> [CN_PPI_YOY |-> 28, CN_INDUSTRIAL_PROFIT_YOY |-> 72]]

\* What one of them may say at most when it is not whole, in hundredths of a point.
PartialBound ==
  [credit_money |-> 3500, growth_momentum |-> 4500, central_bank_gold_demand |-> 2500,
   rmb_external_balance |-> 3000, price_profit_cycle |-> 7200]

\* The features a calculator asks an indicator for.
AskedOf ==
  [funding_liquidity |-> [CN_DR007 |-> {"level_robust", "change_5", "change_20"}],
   credit_money |-> [CN_M1_YOY |-> {"level_robust", "change_3"}, CN_TSFIN_GROWTH |-> {"yoy_pct_12"}],
   growth_momentum |-> [CN_PMI_MANUFACTURING |-> {"pmi_state"},
                        CN_INDUSTRIAL_PRODUCTION_YOY |-> {"level_robust", "change_3"},
                        CN_EXPORTS_YOY |-> {"level_robust", "change_3"}],
   central_bank_gold_demand |-> [GLOBAL_CENTRAL_BANK_GOLD |-> {"level_robust"},
                                 CN_OFFICIAL_GOLD_RESERVE |-> {"change_3"}],
   rmb_external_balance |-> [USDCNY |-> {"change_20"}, US_BROAD_DOLLAR |-> {"change_20"}],
   price_profit_cycle |-> [CN_PPI_YOY |-> {"level_robust", "change_3"},
                           CN_INDUSTRIAL_PROFIT_YOY |-> {"level_robust", "change_3"}],
   cftc_positioning |-> [CFTC_GOLD_NET_LONG |-> {"change_4", "level_robust"}],
   equity_erp |-> [CN_INDEX_PE |-> {"erp"}, CN_CGB_10Y |-> {}],
   gold_inflation |-> [US_CPI_YOY |-> {"change_3"}, US_REAL_YIELD_10Y |-> {"change_20"},
                       US_BROAD_DOLLAR |-> {"change_20"}],
   gold_china_premium |-> [SGE_AU9999 |-> {"return_20"}, GOLD_USD |-> {}, USDCNY |-> {}],
   global_conditions |-> [US_REAL_YIELD_10Y |-> {"change_20"}, US_BROAD_DOLLAR |-> {"change_20"},
                          US_VIX |-> {"change_20"}],
   event_only |-> [i \in {} |-> {}]]

\* A channel has the scores of some of the features it is asked for; a score is clipped.
Offers(ch, features) ==
  /\ {"age", "scores"} \subseteq DOMAIN ch
  /\ ch.age \in Nat \cup {NoHistory} /\ DOMAIN ch.scores \subseteq features
  /\ \A f \in DOMAIN ch.scores : ch.scores[f] \in -100 .. 100

\* One row of a factor for an asset, or for all of them.
ScoredRow(r) ==
  /\ r = [factor |-> r.factor, asset |-> r.asset, state |-> r.state, reliability |-> r.reliability,
          coverage |-> r.coverage, status |-> r.status, flags |-> r.flags]
  /\ r.factor \in ScoredFactors /\ r.state \in -5 .. 5
  /\ r.reliability \in 0 .. 2 /\ r.coverage \in 0 .. 2

Headline(h) == {h.title, h.at, h.relevance} \subseteq Int /\ h.tier \in DOMAIN TierRank

Interpretation(e) ==
  /\ e = [title |-> e.title, at |-> e.at, type |-> e.type, factors |-> e.factors,
          verification |-> e.verification, tier |-> e.tier, confidence |-> e.confidence,
          strength |-> e.strength, evidence |-> e.evidence]
  /\ {e.title, e.at, e.confidence, e.strength} \subseteq Int
  /\ e.verification \in DOMAIN VerifyRank /\ e.tier \in DOMAIN TierRank

\* An event rests on the documents of its cluster, and clusters share none.
Unshared(events) ==
  \A d, e \in events : e.evidence # {} /\ (d # e => d.evidence \cap e.evidence = {})

ASSUME ComputationsAssumption ==
  /\ Ages \subseteq Nat /\ DOMAIN CalculatorInputs \subseteq DOMAIN AskedOf
  /\ \A f \in DOMAIN CalculatorInputs : \A in \in CalculatorInputs[f] :
       /\ DOMAIN in = DOMAIN AskedOf[f]
       /\ \A i \in DOMAIN in : Offers(in[i], AskedOf[f][i])
       /\ f = "equity_erp" => \A i \in DOMAIN in : "dates" \in DOMAIN in[i]
  /\ Histories \subseteq Seq(Int)
  /\ \A a \in DOMAIN RowSets : a \in ScoredAssets /\ \A rows \in RowSets[a] :
       /\ IsFiniteSet(rows) /\ \A r \in rows : ScoredRow(r)
       /\ \A q, r \in rows : q.factor = r.factor /\ q.asset = r.asset => q = r
  /\ \A feed \in Feeds : IsFiniteSet(feed) /\ \A h \in feed : Headline(h)
  /\ \A events \in EventSets :
       IsFiniteSet(events) /\ Unshared(events) /\ \A e \in events : Interpretation(e)

Speaks(ch) == Usable(ch) /\ DOMAIN ch.scores # {}

\* A factor that is VALID rests on fresh observations only, by four fifths of the weight of
\* its indicators; one with less of them never says more than its bound, however extreme the
\* indicators that are left: a gap must not read as a strong signal.
WholeOrMuted ==
  subject = "factor" /\ input.factor \in DOMAIN IndicatorWeight =>
    LET weight == IndicatorWeight[input.factor]
        speaking == {i \in DOMAIN weight : Speaks(input.channels[i])}
        fresh == {i \in speaking : Freshness(input.channels[i]) = "fresh"}
    IN /\ answer.status = "VALID" =>
            /\ fresh = speaking
            /\ MapThenSumSet(LAMBDA i : weight[i], fresh) >= 80
       /\ answer.status = "PARTIAL" =>
            Magnitude(answer.value) <= PartialBound[input.factor]
       /\ answer.status = "UNAVAILABLE" => answer.value = NoScore /\ answer.reliability = 0

\* The calculators whose reliability is governed by their most outdated indicator: when that
\* one expires the others decide, and their reliability can rise.
GovernedByOldest == {"credit_money", "growth_momentum", "central_bank_gold_demand",
                     "rmb_external_balance", "price_profit_cycle"}

\* Were an observation older than it is, the factor would not be trusted more for it, would
\* not become VALID by it, and would not pass for a later observation; and one that goes
\* stale among fresh ones always costs trust, however fresh the others are.
AgeingNeverHelps ==
  subject = "factor" =>
    \A i \in DOMAIN input.channels : \A age \in {g \in Ages : g > input.channels[i].age} :
      LET older == Calculate(input.factor, [input.channels EXCEPT ![i].age = age])
          expires == age > HardAge
      IN Usable(input.channels[i]) /\ ~(expires /\ input.factor \in GovernedByOldest) =>
           /\ older.reliability <= answer.reliability
           /\ older.status = "VALID" => answer.status = "VALID"
           /\ expires \/ older.age >= answer.age
           /\ (/\ answer.reliability > 0 /\ Speaks(input.channels[i]) /\ age > FreshAge
               /\ \A j \in DOMAIN input.channels :
                    Usable(input.channels[j]) => Freshness(input.channels[j]) = "fresh")
              => older.reliability < answer.reliability

-----------------------------------------------------------------------------
(* Features, scores, news.                                                   *)

\* The score of a change, of a return and of a yearly change never points against the change
\* itself, however unusual the changes before it were, and there is one exactly where the
\* history is long enough and the base usable.  (Over a negative base, which the docstring of
\* yoy_pct_robust leaves out, the yearly change comes out with its sign turned.)
DirectionKept ==
  subject = "feature" =>
    LET values == input.values
        n == Len(values)
        base == values[n - input.lag]
        moved == values[n] - base
    IN CASE input.feature = "level_robust" -> (answer = NoFeature) <=> n < 3
         [] input.feature = "pmi_state" -> answer = NoFeature \/ Size(answer) <= 10000
         [] OTHER ->
              /\ (answer # NoFeature) <=>
                   /\ n > input.lag
                   /\ input.feature = "return" => base > 0 /\ values[n] > 0
                   /\ input.feature = "yoy_pct" => base # 0
              /\ answer # NoFeature => Size(answer) <= 100
              /\ answer # NoFeature /\ base > 0 => answer * moved >= 0
              /\ answer # NoFeature /\ input.feature = "change" => answer * moved >= 0

Mirrored(rows) == {[r EXCEPT !.state = -r.state] : r \in rows}
Raised(rows, r) == (rows \ {r}) \cup {[r EXCEPT !.state = @ + 1]}

\* Damping and caps leave a score where it belongs: no direction needs the clip; the rows of
\* another asset have no say; where no conflict rule acts on either side, opposite rows give
\* the opposite score and the same confidence; a better state of a factor that counts for the
\* asset and is outside the capped groups never lowers the score, though it loosens or tightens
\* the caps of the others; and a missing critical factor caps the confidence.
ScoreSound ==
  subject = "score" =>
    LET a == input.asset
        rows == input.rows
        own == {r \in rows : r.asset \in {a, Everywhere}}
        ruled(some) == [f \in ScoredFactors |-> Multiplier20(some, a, f)]
        unruled == [f \in ScoredFactors |-> 20]
    IN /\ \A h \in Horizons : Abs(RawDirection(RawRows(rows, a, h))) <= 1000
       /\ answer = AssetScore(own, a)
       /\ ruled(rows) = unruled /\ ruled(Mirrored(rows)) = unruled =>
            AssetScore(Mirrored(rows), a) = [answer EXCEPT !.score = 1000 - @]
       /\ \A r \in rows :
            /\ r.state < 5 /\ Sensitivity[a][r.factor] >= 0 /\ GroupOf[r.factor] \notin DOMAIN GroupCap
            /\ ruled(Raised(rows, r)) = ruled(rows)
            => Score(HorizonResults(Raised(rows, r), a)) >= answer.score
       /\ CriticalMissing(rows, a) => answer.confidence <= CriticalCap

\* A headline reaches at most one event graph and, while the budget lasts, exactly one; over
\* the budget no single headline is kept before a better sourced or later one of its kind.
\* Interpretations that were merged keep the evidence of each exactly once, the earliest
\* publication and the impact of one of the best of them: nothing adds up.
EventsMergeOnce ==
  /\ subject = "clusters" =>
       LET kept == UNION {answer[i] : i \in DOMAIN answer}
       IN /\ \A i, j \in DOMAIN answer : i # j => answer[i] \cap answer[j] = {}
          /\ Len(answer) <= ClusterBudget
          /\ Len(answer) < ClusterBudget => kept = input
          /\ \A d \in input \ kept, i \in DOMAIN answer : \A k \in answer[i] :
               answer[i] = {k} => ~Before(<<TierRank[k.tier], k.at>>, <<TierRank[d.tier], d.at>>)
  /\ subject = "events" =>
       LET parts(i) == {e \in input : e.evidence \subseteq answer[i].evidence}
       IN /\ \A e \in input : Cardinality({i \in DOMAIN answer : e \in parts(i)}) = 1
          /\ \A i \in DOMAIN answer :
               /\ answer[i].at = Min({e.at : e \in parts(i)})
               /\ \A d, e \in parts(i) : d.type = e.type /\ d.factors = e.factors
               /\ \E e \in parts(i) :
                    /\ answer[i].strength = e.strength /\ Quality(answer[i]) = Quality(e)
                    /\ \A d \in parts(i) : ~Before(Quality(e), Quality(d))
=============================================================================
