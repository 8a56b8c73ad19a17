------------------------- MODULE DecisionRulesProofs -------------------------
(***************************************************************************)
(* Proofs about DecisionRules for every set of facts, portfolios, books    *)
(* and policies, and for all weights, the negative ones a policy may       *)
(* override with included.  The argument for scorecards: every scorer      *)
(* stays within 10 and 95, a gate takes its share of that, the total is a  *)
(* weighted mean of what is left, and so it is bounded by the largest      *)
(* score a regime lets through.  For sizes: preview and modification floor *)
(* the same quotient, of two prices.  It grows with the equity and shrinks *)
(* with the price, as the limits do, and the stop is between five sixths of*)
(* the price and the price (StopIsNear).                                   *)
(***************************************************************************)
EXTENDS DecisionRules, SumsAndMaxima, SequenceTheorems, TLAPS

-----------------------------------------------------------------------------
(* The component scorers *)

(* Whatever the readings, the scores of facts are within 10 and 95.        *)
LEMMA FactScorers ==
    ASSUME NEW f \in FactsBundle
    PROVE  /\ TechnicalTrend(f) \in 10..95 /\ Momentum(f) \in 10..95
           /\ Volatility(f) \in 10..95 /\ Participation(f) \in 10..95
           /\ RelativeStrength(f) \in 10..95 /\ Fundamentals(f) \in 10..95
           /\ EventRisk(f) \in 10..95 /\ InsiderActivity(f) \in 10..95
           /\ AttentionCrowding(f) \in 10..95
<1>1. TechnicalTrend(f) \in 10..95
  BY ScorecardsAssumption DEF TechnicalTrend, FactsBundle, Reading, Least, Greatest
<1>2. Momentum(f) \in 10..95
  BY ScorecardsAssumption DEF Momentum, FactsBundle, Reading, Least, Greatest
<1>3. Volatility(f) \in 10..95 /\ Participation(f) \in 10..95
  BY DEF Volatility, Participation
<1>4. RelativeStrength(f) \in 10..95 /\ Fundamentals(f) \in 10..95
  BY DEF RelativeStrength, Fundamentals
<1>5. EventRisk(f) \in 10..95 /\ AttentionCrowding(f) \in 10..95
  BY DEF EventRisk, AttentionCrowding
<1>6. InsiderActivity(f) \in 10..95
  BY DEF InsiderActivity, FactsBundle, Least
<1> QED BY <1>1, <1>2, <1>3, <1>4, <1>5, <1>6

(* So are those of the portfolio and of the coverage.                      *)
LEMMA OtherScorers ==
    ASSUME NEW f, NEW p
    PROVE  /\ PortfolioFit(p) \in 10..95 /\ PositionRisk(p) \in 10..95
           /\ CashImpact(p) \in 10..95 /\ DataQuality(f) \in 10..95
<1>1. PortfolioFit(p) \in 10..95 /\ PositionRisk(p) \in 10..95
  BY DEF PortfolioFit, PositionRisk
<1>2. CashImpact(p) \in 10..95 /\ DataQuality(f) \in 10..95
  BY DEF CashImpact, DataQuality
<1> QED BY <1>1, <1>2

(* Every score, in tenths.                                                 *)
LEMMA ScoresInRange ==
    ASSUME NEW f \in FactsBundle, NEW p, NEW c \in Components
    PROVE  Scores(f, p)[c] \in 100..950
BY FactScorers, OtherScorers DEF Scores, Components

-----------------------------------------------------------------------------
(* Gates and multiplier *)

(* A gate leaves a score at 95 at most, and CAUTION's at 85.5.             *)
LEMMA CutBounds ==
    ASSUME NEW t \in Nat
    PROVE  /\ t <= 950 => Cut(t, 7) \in Nat /\ Cut(t, 7) <= 950 
           /\ t <= 950 => Cut(t, 8) \in Nat /\ Cut(t, 8) <= 950
           /\ t <= 950 => Cut(t, 9) \in Nat /\ Cut(t, 9) <= 855
BY DEF Cut, RoundDiv, Greatest

(* So do the gates together, whichever apply.                              *)
LEMMA GatedScore ==
    ASSUME NEW s \in Nat, s <= 950, NEW fails, NEW r \in Regimes
    PROVE  /\ Gated(s, r, fails) \in Nat /\ Gated(s, r, fails) <= 950
           /\ r = "CAUTION" => Gated(s, r, fails) <= 855
<1>1. PICK off \in Nat : off <= 950 /\ off = IF r = "RISK_OFF" THEN Cut(s, 8) ELSE s
  <2>1. CASE r = "RISK_OFF"
    BY <2>1, CutBounds
  <2>2. CASE r # "RISK_OFF"
    BY <2>2
  <2> QED BY <2>1, <2>2
<1>2. PICK poor \in Nat : poor <= 950 /\ poor = IF fails THEN Cut(off, 7) ELSE off
  BY CutBounds, <1>1
<1>3. Gated(s, r, fails) = IF r = "CAUTION" THEN Cut(poor, 9) ELSE poor
  BY <1>1, <1>2 DEF Gated
<1>4. Cut(poor, 9) \in Nat /\ Cut(poor, 9) <= 855
  BY CutBounds, <1>2
<1> QED BY <1>2, <1>3, <1>4

(* A gated score times the multiplier of its regime.                       *)
LEMMA EffectiveScore ==
    ASSUME NEW s \in Nat, s <= 950, NEW fails, NEW r \in Regimes
    PROVE  /\ Gated(s, r, fails) * Multiplier(r) \in Nat
           /\ r = "RISK_ON" => Gated(s, r, fails) * Multiplier(r) <= 9500
           /\ r = "CAUTION" => Gated(s, r, fails) * Multiplier(r) <= 5130
           /\ r = "RISK_OFF" => Gated(s, r, fails) * Multiplier(r) <= 1900
<1>1. CASE r = "RISK_ON" BY <1>1, GatedScore DEF Multiplier
<1>2. CASE r = "CAUTION" BY <1>2, GatedScore DEF Multiplier
<1>3. CASE r = "RISK_OFF" BY <1>3, GatedScore DEF Multiplier
<1> QED BY <1>1, <1>2, <1>3 DEF Regimes

-----------------------------------------------------------------------------
(* The total is a weighted mean *)

(* A rounded mean does not exceed what its terms stay under.               *)
LEMMA RoundDivBound ==
    ASSUME NEW n \in Nat, NEW d \in Nat \ {0}, NEW k \in Nat, n <= k * d
    PROVE  RoundDiv(n, d) \in 0..k
<1> DEFINE a == 2 * n + d
           b == 2 * d
           q == a \div b
<1>1. a <= 2 * (k * d) + d
  OBVIOUS
<1>2. q \in Int /\ q >= 0 /\ b * q <= a
  BY SMT
<1>3. CASE q >= k + 1
  <2>1. b * q >= b * (k + 1)
    BY <1>3, <1>2, SMT
  <2> QED BY <2>1, <1>2, <1>1, SMT
<1> QED BY <1>2, <1>3 DEF RoundDiv

(* Sums compare as their terms do.                                         *)
LEMMA SumMonotone ==
    ASSUME NEW v \in [Components -> Nat], NEW u \in [Components -> Nat],
           \A c \in Components : v[c] <= u[c]
    PROVE  Sum(v) \in Nat /\ Sum(v) <= Sum(u)
BY DEF Sum, Components

(* A weighted sum of scores under k is under k times the weights.          *)
LEMMA WeightedSum ==
    ASSUME NEW e \in [Components -> Nat], NEW w \in [Components -> Nat], NEW k \in Nat,
           \A c \in Components : e[c] <= k
    PROVE  /\ Sum(w) \in Nat
           /\ Sum([c \in Components |-> e[c] * w[c]]) \in Nat
           /\ Sum([c \in Components |-> e[c] * w[c]]) <= k * Sum(w)
<1> DEFINE v == [c \in Components |-> e[c] * w[c]]
<1>1. ASSUME NEW c \in Components
      PROVE  w[c] \in Nat /\ v[c] \in Nat /\ v[c] <= k * w[c]
  <2>1. e[c] \in Nat /\ w[c] \in Nat /\ e[c] <= k
    OBVIOUS
  <2>2. e[c] * w[c] \in Nat /\ e[c] * w[c] <= k * w[c]
    BY <2>1, SMT
  <2> QED BY <2>1, <2>2
<1> DEFINE u == [c \in Components |-> k * w[c]]
<1>2. ASSUME NEW c \in Components
      PROVE  u[c] = k * w[c] /\ u[c] \in Nat
  BY <1>1
<1> HIDE DEF v, u
<1>3. Sum(w) \in Nat /\ Sum(v) \in Nat
  BY <1>1 DEF Sum, Components
<1>4. Sum(u) = k * Sum(w)
  BY <1>1, <1>2 DEF Sum, Components
<1>5. Sum(v) <= Sum(u)
  <2>1. v \in [Components -> Nat] /\ u \in [Components -> Nat]
    <3>1. \A c \in Components : e[c] * w[c] \in Nat /\ k * w[c] \in Nat
      BY <1>1, <1>2 DEF v, u
    <3> QED BY <3>1 DEF v, u
  <2>2. \A c \in Components : v[c] <= u[c]
    BY <1>1, <1>2
  <2> QED BY <2>1, <2>2, SumMonotone
<1> QED BY <1>3, <1>4, <1>5 DEF v

(* The sum that TotalScore divides, and the terms it weighs.               *)
Effective(f, p) ==
    [c \in Components |->
        Gated(Scores(f, p)[c], p.regime, DataFails(f)) * Multiplier(p.regime)]

WeighedSum(f, p) == Sum([c \in Components |-> Effective(f, p)[c] * Weight[c]])

(* Weights that are not positive count as zero.                            *)
LEMMA WeightIsNat == Weight \in [Components -> Nat]
BY ScorecardsAssumption DEF Weight, Greatest

(* The total is the rounded weighted mean.                                 *)
LEMMA TotalOfSum ==
    ASSUME NEW f, NEW p
    PROVE  TotalScore(f, p)
              = IF Sum(Weight) = 0 THEN 0 ELSE RoundDiv(WeighedSum(f, p), Sum(Weight))
BY DEF TotalScore, WeighedSum, Effective

(* What each regime lets through, in the unit of a total.                  *)
Ceiling(regime) ==
    IF regime = "RISK_ON" THEN 9500 ELSE IF regime = "CAUTION" THEN 5130 ELSE 1900

(* Every term of the total is under the ceiling of its regime.             *)
LEMMA EffectiveInRange ==
    ASSUME NEW f \in FactsBundle, NEW p \in PortfolioContext, NEW c \in Components
    PROVE  Effective(f, p)[c] \in Nat /\ Effective(f, p)[c] <= Ceiling(p.regime)
<1> DEFINE s == Scores(f, p)[c]
           d == DataFails(f)
           r == p.regime
<1>1. s \in Nat /\ s <= 950
  BY ScoresInRange
<1>2. r \in Regimes
  BY DEF PortfolioContext
<1>3. Effective(f, p)[c] = Gated(s, r, d) * Multiplier(r)
  BY DEF Effective
<1> HIDE DEF s, d
<1>4. /\ Gated(s, r, d) * Multiplier(r) \in Nat
      /\ Gated(s, r, d) * Multiplier(r) <= Ceiling(r)
  <2> HIDE DEF r
  <2> QED BY <1>1, <1>2, EffectiveScore DEF Regimes, Ceiling
<1> QED BY <1>3, <1>4

(* So is the total.                                                        *)
LEMMA TotalInRange ==
    ASSUME NEW f \in FactsBundle, NEW p \in PortfolioContext
    PROVE  TotalScore(f, p) \in Nat /\ TotalScore(f, p) <= Ceiling(p.regime)
<1> DEFINE e == Effective(f, p)
           k == Ceiling(p.regime)
<1>1. k \in Nat
  BY DEF Ceiling
<1>2. e \in [Components -> Nat] /\ \A c \in Components : e[c] <= k
  <2>1. \A c \in Components : e[c] \in Nat /\ e[c] <= k
    BY EffectiveInRange
  <2> QED BY <2>1 DEF Effective
<1> HIDE DEF e, k
<1>3. /\ Sum(Weight) \in Nat
      /\ Sum([c \in Components |-> e[c] * Weight[c]]) \in Nat
      /\ Sum([c \in Components |-> e[c] * Weight[c]]) <= k * Sum(Weight)
  BY <1>1, <1>2, WeightIsNat, WeightedSum
<1>4. WeighedSum(f, p) \in Nat /\ WeighedSum(f, p) <= k * Sum(Weight)
  BY <1>3 DEF WeighedSum, e
<1>5. CASE Sum(Weight) # 0
  <2>1. RoundDiv(WeighedSum(f, p), Sum(Weight)) \in 0..k
    BY <1>1, <1>3, <1>4, <1>5, RoundDivBound
  <2> QED BY <2>1, <1>1, <1>5, TotalOfSum DEF k
<1>6. CASE Sum(Weight) = 0
  BY <1>1, <1>6, TotalOfSum DEF k
<1> QED BY <1>5, <1>6

-----------------------------------------------------------------------------
(* A worse regime *)

(* Rounding keeps the order.                                               *)
LEMMA RoundDivMonotone ==
    ASSUME NEW n \in Nat, NEW m \in Nat, NEW d \in Nat \ {0}, n <= m
    PROVE  RoundDiv(n, d) <= RoundDiv(m, d)
<1> DEFINE b == 2 * d
           q == (2 * n + d) \div b
           t == (2 * m + d) \div b
<1>1. q \in Int /\ b * q <= 2 * n + d
  BY SMT
<1>2. t \in Int /\ 2 * m + d < b * (t + 1)
  BY SMT
<1>3. CASE q >= t + 1
  <2>1. b * q >= b * (t + 1)
    BY <1>3, <1>1, <1>2, SMT
  <2> QED BY <2>1, <1>1, <1>2, SMT
<1> QED BY <1>1, <1>2, <1>3 DEF RoundDiv

(* CAUTION lowers every score, after the gates and the multiplier.         *)
LEMMA CautionCutsScores ==
    ASSUME NEW s \in Nat, 100 <= s, s <= 950, NEW fails
    PROVE  Gated(s, "CAUTION", fails) * Multiplier("CAUTION")
              <= Gated(s, "RISK_ON", fails) * Multiplier("RISK_ON")
<1>1. PICK poor \in Nat : 50 <= poor /\ poor <= 950 /\ poor = IF fails THEN Cut(s, 7) ELSE s
  <2>1. Cut(s, 7) \in Nat /\ 50 <= Cut(s, 7) /\ Cut(s, 7) <= 950
    BY DEF Cut, RoundDiv, Greatest
  <2>2. CASE fails BY <2>1, <2>2
  <2>3. CASE ~fails BY <2>3
  <2> QED BY <2>2, <2>3
<1>2. Gated(s, "RISK_ON", fails) = poor /\ Gated(s, "CAUTION", fails) = Cut(poor, 9)
  BY <1>1 DEF Gated
<1>3. 6 * Cut(poor, 9) <= 10 * poor /\ Cut(poor, 9) \in Nat
  BY <1>1 DEF Cut, RoundDiv, Greatest
<1> QED BY <1>2, <1>3 DEF Multiplier

(* The scorers do not look at the regime.                                  *)
LEMMA SameScores ==
    ASSUME NEW f, NEW p \in PortfolioContext, NEW r \in Regimes
    PROVE  /\ [p EXCEPT !.regime = r] \in PortfolioContext
           /\ [p EXCEPT !.regime = r].regime = r
           /\ [p EXCEPT !.regime = r].held = p.held
           /\ Scores(f, [p EXCEPT !.regime = r]) = Scores(f, p)
<1> DEFINE q == [p EXCEPT !.regime = r]
<1>1. /\ q \in PortfolioContext /\ q.regime = r /\ q.held = p.held /\ q.equity = p.equity
      /\ q.cash = p.cash /\ q.count = p.count /\ q.value = p.value /\ q.cost = p.cost
      /\ q.price = p.price /\ q.maxPositions = p.maxPositions /\ q.maxPercent = p.maxPercent
  BY DEF PortfolioContext
<1> HIDE DEF q
<1>2. PortfolioFit(q) = PortfolioFit(p)
  BY <1>1 DEF PortfolioFit
<1>3. PositionRisk(q) = PositionRisk(p)
  BY <1>1 DEF PositionRisk
<1>4. CashImpact(q) = CashImpact(p)
  BY <1>1 DEF CashImpact
<1>5. Scores(f, q) = Scores(f, p)
  BY <1>2, <1>3, <1>4 DEF Scores
<1> QED BY <1>1, <1>5 DEF q

(* CAUTION lowers the total.                                               *)
LEMMA CautionLowersTotal ==
    ASSUME NEW f \in FactsBundle, NEW p \in PortfolioContext, p.regime = "RISK_ON"
    PROVE  TotalScore(f, [p EXCEPT !.regime = "CAUTION"]) <= TotalScore(f, p)
<1> DEFINE q == [p EXCEPT !.regime = "CAUTION"]
           v == [c \in Components |-> Effective(f, q)[c] * Weight[c]]
           u == [c \in Components |-> Effective(f, p)[c] * Weight[c]]
<1>1. /\ q \in PortfolioContext /\ q.regime = "CAUTION"
      /\ Scores(f, q) = Scores(f, p)
  <2>1. "CAUTION" \in Regimes
    BY DEF Regimes
  <2> QED BY <2>1, SameScores
<1> HIDE DEF q
<1>2. ASSUME NEW c \in Components
      PROVE  Effective(f, q)[c] <= Effective(f, p)[c]
  <2> DEFINE s == Scores(f, p)[c]
             d == DataFails(f)
  <2>1. s \in Nat /\ 100 <= s /\ s <= 950
    BY ScoresInRange
  <2>2. /\ Effective(f, q)[c] = Gated(s, "CAUTION", d) * Multiplier("CAUTION")
        /\ Effective(f, p)[c] = Gated(s, "RISK_ON", d) * Multiplier("RISK_ON")
    BY <1>1 DEF Effective
  <2> HIDE DEF s, d
  <2> QED BY <2>1, <2>2, CautionCutsScores
<1>3. ASSUME NEW c \in Components
      PROVE  v[c] \in Nat /\ u[c] \in Nat /\ v[c] <= u[c]
  <2> DEFINE x == Effective(f, q)[c]
             y == Effective(f, p)[c]
             w == Weight[c]
  <2>1. x \in Nat /\ y \in Nat /\ x <= y
    BY <1>1, <1>2, EffectiveInRange
  <2>2. w \in Nat
    BY WeightIsNat
  <2>3. v[c] = x * w /\ u[c] = y * w
    OBVIOUS
  <2> HIDE DEF x, y, w, v, u
  <2>4. x * w \in Nat /\ y * w \in Nat /\ x * w <= y * w
    BY <2>1, <2>2, SMT
  <2> QED BY <2>3, <2>4
<1>4. v \in [Components -> Nat] /\ u \in [Components -> Nat]
  BY <1>3
<1>5. /\ Sum(v) \in Nat /\ Sum(v) <= Sum(u) /\ Sum(u) \in Nat /\ Sum(Weight) \in Nat
  <2> HIDE DEF v, u
  <2> QED BY <1>3, <1>4, WeightIsNat, SumMonotone
<1>6. WeighedSum(f, q) = Sum(v) /\ WeighedSum(f, p) = Sum(u)
  BY DEF WeighedSum
<1>7. TotalScore(f, q) <= TotalScore(f, p)
  <2> HIDE DEF v, u
  <2>1. CASE Sum(Weight) = 0
    BY <2>1, TotalOfSum
  <2>2. CASE Sum(Weight) # 0
    <3>1. RoundDiv(Sum(v), Sum(Weight)) <= RoundDiv(Sum(u), Sum(Weight))
      BY <1>5, <2>2, RoundDivMonotone
    <3> QED BY <3>1, <1>6, <2>2, TotalOfSum
  <2> QED BY <2>1, <2>2
<1> QED BY <1>7 DEF q

-----------------------------------------------------------------------------
(* What every state holds: the evaluation of some inputs *)

(* The previews, each with a stop that it may show.                        *)
Previews ==
    UNION {{PreviewOf(e, price, m, r, stop) :
               e \in Equities, r \in Risks, stop \in StopsShown(price, m)} :
              price \in Prices, m \in Trade!Methods}

IInv ==
    \/ evaluation = [of |-> "nothing"]
    \/ \E f \in FactsBundle, p \in PortfolioContext : evaluation = ScorecardOf(f, p)
    \/ \E m \in Books, p \in Policies, halted \in BOOLEAN : evaluation = ReviewOf(m, p, halted)
    \/ evaluation \in Previews
    \/ \E before \in Previews, e \in Equities :
          \E q \in Quantities \cup {before.shown.quantity}, stop \in Stops \cup {before.stop} :
             evaluation = ModifyOf(before, e, q, stop)

(* A preview is one of something.                                          *)
LEMMA PreviewIs ==
    ASSUME NEW x
    PROVE  x \in Previews
              <=> \E e \in Equities, price \in Prices, m \in Trade!Methods, r \in Risks :
                     \E stop \in StopsShown(price, m) : x = PreviewOf(e, price, m, r, stop)
<1> DEFINE Of(price, m) == {PreviewOf(e, price, m, r, stop) :
                               e \in Equities, r \in Risks, stop \in StopsShown(price, m)}
<1>1. ASSUME NEW price, NEW m
      PROVE  x \in Of(price, m)
                <=> \E e \in Equities, r \in Risks, stop \in StopsShown(price, m) :
                       x = PreviewOf(e, price, m, r, stop)
  OBVIOUS
<1> HIDE DEF Of
<1>2. x \in UNION {Of(price, m) : price \in Prices, m \in Trade!Methods}
        <=> \E price \in Prices, m \in Trade!Methods : x \in Of(price, m)
  OBVIOUS
<1>3. Previews = UNION {Of(price, m) : price \in Prices, m \in Trade!Methods}
  BY DEF Previews, Of
<1> QED BY <1>1, <1>2, <1>3

(* What it is of.                                                          *)
LEMMA PreviewFields ==
    ASSUME NEW x \in Previews
    PROVE  /\ x.of = "preview" /\ x.equity \in Equities /\ x.price \in Prices
           /\ x.method \in Trade!Methods /\ x.risk \in Risks
           /\ x.stop \in StopsShown(x.price, x.method)
           /\ x.shown = Trade!Preview(x.equity, x.price, x.method, x.risk)
<1>1. PICK e \in Equities, price \in Prices, m \in Trade!Methods, r \in Risks :
        \E stop \in StopsShown(price, m) : x = PreviewOf(e, price, m, r, stop)
  BY PreviewIs
<1>2. PICK stop \in StopsShown(price, m) : x = PreviewOf(e, price, m, r, stop)
  BY <1>1
<1> QED BY <1>2 DEF PreviewOf

(* IInv holds of every evaluation.                                         *)
LEMMA InductiveInvariant == Spec => []IInv
<1>1. Init => IInv
  BY DEF Init, IInv
<1>2. IInv /\ [Next]_evaluation => IInv'
  <2> SUFFICES ASSUME IInv, [Next]_evaluation PROVE IInv'
    OBVIOUS
  <2>1. CASE ScoreSymbol
    BY <2>1, DecisionRulesAssumption DEF ScoreSymbol, IInv
  <2>2. CASE TurnRegime
    <3>1. PICK f \in FactsBundle, p \in PortfolioContext : evaluation = ScorecardOf(f, p)
      BY <2>2, PreviewFields DEF TurnRegime, IInv, ReviewOf, ModifyOf
    <3>2. PICK r \in Regimes :
            evaluation' = ScorecardOf(evaluation.facts, [evaluation.portfolio EXCEPT !.regime = r])
      BY <2>2 DEF TurnRegime
    <3>3. evaluation.facts = f /\ evaluation.portfolio = p
      BY <3>1 DEF ScorecardOf
    <3>4. [p EXCEPT !.regime = r] \in PortfolioContext
      BY SameScores
    <3> QED BY <3>2, <3>3, <3>4 DEF IInv
  <2>3. CASE ReviewBook
    BY <2>3 DEF ReviewBook, IInv
  <2>4. CASE TightenPolicy
    <3>1. PICK m \in Books, p \in Policies, halted \in BOOLEAN :
            evaluation = ReviewOf(m, p, halted)
      BY <2>4, PreviewFields DEF TightenPolicy, IInv, ScorecardOf, ModifyOf
    <3>2. evaluation.measures = m /\ evaluation.halted = halted
      BY <3>1 DEF ReviewOf
    <3> QED BY <2>4, <3>2 DEF TightenPolicy, IInv
  <2>5. CASE PreviewTrade
    <3>1. evaluation' \in Previews
      BY <2>5, PreviewIs DEF PreviewTrade
    <3> QED BY <3>1 DEF IInv
  <2>6. CASE ModifyTrade
    <3>1. evaluation \in Previews
      BY <2>6 DEF ModifyTrade, IInv, ScorecardOf, ReviewOf, ModifyOf
    <3> QED BY <2>6, <3>1 DEF ModifyTrade, IInv
  <2>7. CASE ReopenTicket
    <3>1. PICK before \in Previews, e \in Equities :
            \E q \in Quantities \cup {before.shown.quantity}, stop \in Stops \cup {before.stop} :
               evaluation = ModifyOf(before, e, q, stop)
      BY <2>7, PreviewFields DEF ReopenTicket, IInv, ScorecardOf, ReviewOf
    <3>2. evaluation.previewed = before /\ evaluation.equity = e
      BY <3>1 DEF ModifyOf
    <3>3. PICK stop \in StopsShown(before.price, before.method) :
            evaluation' = PreviewOf(e, before.price, before.method, before.risk, stop)
      BY <2>7, <3>2 DEF ReopenTicket
    <3>4. evaluation' \in Previews
      BY <3>3, PreviewFields, PreviewIs
    <3> QED BY <3>4 DEF IInv
  <2>8. CASE UNCHANGED evaluation
    BY <2>8 DEF IInv
  <2> QED BY <2>1, <2>2, <2>3, <2>4, <2>5, <2>6, <2>7, <2>8 DEF Next
<1> QED BY <1>1, <1>2, PTL DEF Spec

(* Outside RISK_ON no facts, portfolio or weights give an advice to enter, *)
(* hold or watch: REGIME_MULTIPLIERS with the gates of _apply_gates.       *)
THEOREM EntriesAreGated == Spec => []EntriesNeedRiskOn
<1>1. IInv => EntriesNeedRiskOn
  <2> SUFFICES ASSUME NEW f \in FactsBundle, NEW p \in PortfolioContext,
                      evaluation = ScorecardOf(f, p), p.regime # "RISK_ON"
               PROVE  evaluation.card.recommendation \in {"do_nothing", "reduce"}
    BY PreviewFields DEF IInv, EntriesNeedRiskOn, ScorecardOf, ReviewOf, ModifyOf
  <2>1. TotalScore(f, p) \in Nat /\ TotalScore(f, p) <= 5130
    BY TotalInRange DEF Ceiling
  <2>2. evaluation.card.recommendation = Recommendation(TotalScore(f, p), p.held, DataFails(f))
    BY DEF ScorecardOf, Scorecard
  <2> QED BY <2>1, <2>2 DEF Recommendation
<1> QED BY <1>1, InductiveInvariant, PTL

(* The readouts present can be counted.                                    *)
LEMMA PresentIsNat == ASSUME NEW f PROVE Present(f) \in Nat
<1> DEFINE S == {i \in 1..6 : Expected(f)[i] # None}
<1>1. S \in SUBSET Nat /\ \A i \in S : i <= 6
  OBVIOUS
<1>2. 6 \in Nat
  OBVIOUS
<1>3. IsFiniteSet(S)
  <2> HIDE DEF S
  <2> QED BY <1>1, <1>2, FS_BoundedSetOfNaturals
<1> QED BY <1>3, FS_CardinalityType DEF Present

(* Fewer than half of the expected readouts never give an advice to trade. *)
THEOREM AdviceIsInformed == Spec => []AdviceNeedsData
<1>1. IInv => AdviceNeedsData
  <2> SUFFICES ASSUME NEW f \in FactsBundle, NEW p \in PortfolioContext,
                      evaluation = ScorecardOf(f, p), 2 * Present(f) < 6
               PROVE  evaluation.card.recommendation = "do_nothing"
    BY PreviewFields DEF IInv, AdviceNeedsData, ScorecardOf, ReviewOf, ModifyOf
  <2>1. Present(f) \in Nat
    BY PresentIsNat
  <2>2. DataFails(f)
    BY <2>1 DEF DataFails
  <2> QED BY <2>2 DEF ScorecardOf, Scorecard, Recommendation
<1> QED BY <1>1, InductiveInvariant, PTL

(* The recommendations for one symbol in two regimes.                      *)
LEMMA WorseRegimeAdvice ==
    ASSUME NEW f \in FactsBundle, NEW p \in PortfolioContext, NEW r \in Regimes,
           Gravity(r) >= Gravity(p.regime)
    PROVE  Eagerness(Scorecard(f, [p EXCEPT !.regime = r]).recommendation)
              <= Eagerness(Scorecard(f, p).recommendation)
<1> DEFINE q == [p EXCEPT !.regime = r]
           d == DataFails(f)
           t == TotalScore(f, p)
           w == TotalScore(f, q)
<1>1. q \in PortfolioContext /\ q.regime = r /\ q.held = p.held
  BY SameScores
<1>2. /\ Scorecard(f, p).recommendation = Recommendation(t, p.held, d)
      /\ Scorecard(f, q).recommendation = Recommendation(w, p.held, d)
  <2> HIDE DEF q
  <2> QED BY <1>1 DEF Scorecard
<1>3. t \in Nat /\ w \in Nat /\ t <= Ceiling(p.regime) /\ w <= Ceiling(r)
  <2> HIDE DEF q
  <2> QED BY <1>1, TotalInRange
<1>4. p.regime \in Regimes /\ p.held \in BOOLEAN
  BY DEF PortfolioContext
<1>5. CASE r = p.regime
  <2>1. q = p
    BY <1>5 DEF PortfolioContext
  <2>2. Eagerness(Recommendation(t, p.held, d)) \in Nat
    BY DEF Eagerness
  <2> QED BY <2>1, <2>2, <1>2
<1>6. CASE r = "RISK_OFF"
  <2>1. w <= 1900
    BY <1>3, <1>6 DEF Ceiling
  <2> HIDE DEF w, t, d, q
  <2>2. Eagerness(Recommendation(w, p.held, d)) <= Eagerness(Recommendation(t, p.held, d))
    BY <2>1, <1>3, <1>4 DEF Recommendation, Eagerness
  <2> QED BY <2>2, <1>2 DEF q
<1>7. CASE r = "CAUTION" /\ p.regime = "RISK_ON"
  <2>1. w <= 5130
    BY <1>3, <1>7 DEF Ceiling
  <2>2. w <= t
    BY <1>7, CautionLowersTotal
  <2> HIDE DEF w, t, d, q
  <2>3. Eagerness(Recommendation(w, p.held, d)) <= Eagerness(Recommendation(t, p.held, d))
    BY <2>1, <2>2, <1>3, <1>4 DEF Recommendation, Eagerness
  <2> QED BY <2>3, <1>2 DEF q
<1> QED BY <1>4, <1>5, <1>6, <1>7 DEF Regimes, Gravity

(* A worse regime never gives more eager advice, for any facts, portfolio  *)
(* and weights.                                                            *)
THEOREM RegimesOnlyWarn == Spec => WorseRegimeNeverUpgrades
<1>1. IInv /\ [Next]_evaluation => [NoUpgrade]_evaluation
  <2> SUFFICES ASSUME IInv, Next, evaluation.of = "scorecard", evaluation'.of = "scorecard",
                      Gravity(evaluation'.portfolio.regime)
                         >= Gravity(evaluation.portfolio.regime)
               PROVE  Eagerness(evaluation'.card.recommendation)
                         <= Eagerness(evaluation.card.recommendation)
    BY DEF NoUpgrade
  <2>1. PICK f \in FactsBundle, p \in PortfolioContext : evaluation = ScorecardOf(f, p)
    BY PreviewFields DEF IInv, ReviewOf, ModifyOf
  <2>2. PICK r \in Regimes :
          evaluation' = ScorecardOf(evaluation.facts, [evaluation.portfolio EXCEPT !.regime = r])
    BY DEF Next, ScoreSymbol, TurnRegime, ReviewBook, TightenPolicy, PreviewTrade, ModifyTrade,
           ReopenTicket, ReviewOf, PreviewOf, ModifyOf
  <2> DEFINE q == [p EXCEPT !.regime = r]
  <2>3. evaluation' = ScorecardOf(f, q)
    BY <2>1, <2>2 DEF ScorecardOf
  <2>4. q.regime = r
    BY SameScores
  <2>5. evaluation.portfolio = p /\ evaluation.card = Scorecard(f, p)
    BY <2>1 DEF ScorecardOf
  <2>6. evaluation'.portfolio = q /\ evaluation'.card = Scorecard(f, q)
    BY <2>3 DEF ScorecardOf
  <2>7. Gravity(r) >= Gravity(p.regime)
    BY <2>4, <2>5, <2>6
  <2> QED BY <2>5, <2>6, <2>7, WorseRegimeAdvice
<1> QED BY <1>1, InductiveInvariant, PTL DEF Spec, WorseRegimeNeverUpgrades

-----------------------------------------------------------------------------
(* Reviews *)

(* The limits a review of m under p looks at.                              *)
LimitsOf(m, p) == IF Positions = {} THEN <<>> ELSE CheckLimits(m, p)

(* A review looks at five limits at most.                                  *)
LEMMA AtMostFiveLimits ==
    ASSUME NEW m, NEW p
    PROVE  DOMAIN LimitsOf(m, p) \subseteq 1..5
BY DEF LimitsOf, CheckLimits

(* A set of indices of limits has a least one.                             *)
LEMMA FirstOfFive ==
    ASSUME NEW S \in SUBSET (1..5), S # {}
    PROVE  \E i \in S : \A j \in S : i <= j
<1>1. CASE 1 \in S BY <1>1
<1>2. CASE 1 \notin S /\ 2 \in S BY <1>2
<1>3. CASE 1 \notin S /\ 2 \notin S /\ 3 \in S BY <1>3
<1>4. CASE 1 \notin S /\ 2 \notin S /\ 3 \notin S /\ 4 \in S BY <1>4
<1>5. CASE 1 \notin S /\ 2 \notin S /\ 3 \notin S /\ 4 \notin S
  <2>1. PICK x \in S : TRUE
    OBVIOUS
  <2>2. \A y \in S : y = 5
    BY <1>5
  <2> QED BY <2>1, <2>2
<1> QED BY <1>1, <1>2, <1>3, <1>4, <1>5

(* All is allowed exactly when no event is critical or a warning.          *)
LEMMA DecideAllows ==
    ASSUME NEW limits, DOMAIN limits \subseteq 1..5, NEW p
    PROVE  OfSeverity(limits, p, "crit") \cup OfSeverity(limits, p, "warn") = {}
              <=> Actions(Decide(limits, p, FALSE)) = {"allow"}
<1> DEFINE crit == OfSeverity(limits, p, "crit")
           warn == OfSeverity(limits, p, "warn")
           stops == {<<"halt", limits[i].name>> : i \in {c \in crit : \A d \in crit : c <= d}}
           reduces == {<<"reduce", limits[i].name>> :
                          i \in {w \in warn : \A c \in crit : w < c}}
<1>1. Decide(limits, p, FALSE)
         = IF stops \cup reduces = {} THEN {<<"allow", "">>} ELSE stops \cup reduces
  BY DEF Decide
<1>2. crit \in SUBSET (1..5)
  BY DEF OfSeverity
<1>3. stops \cup reduces = {} <=> crit \cup warn = {}
  <2>1. CASE crit = {}
    <3>1. {w \in warn : \A c \in crit : w < c} = warn
      BY <2>1
    <3> HIDE DEF crit, warn
    <3> QED BY <2>1, <3>1
  <2>2. CASE crit # {}
    <3> HIDE DEF crit, warn
    <3>1. PICK i \in crit : \A d \in crit : i <= d
      BY <1>2, <2>2, FirstOfFive
    <3>2. <<"halt", limits[i].name>> \in stops
      BY <3>1
    <3> QED BY <3>2, <2>2
  <2> QED BY <2>1, <2>2
<1>4. CASE stops \cup reduces = {}
  <2> HIDE DEF stops, reduces, crit, warn
  <2>1. Decide(limits, p, FALSE) = {<<"allow", "">>}
    BY <1>1, <1>4
  <2>2. Actions({<<"allow", "">>}) = {"allow"}
    <3>1. <<"allow", "">>[1] = "allow"
      OBVIOUS
    <3>2. Actions({<<"allow", "">>}) = {<<"allow", "">>[1]}
      BY Zenon DEF Actions
    <3> QED BY <3>1, <3>2
  <2> QED BY <2>1, <2>2, <1>3, <1>4 DEF crit, warn
<1>5. CASE stops \cup reduces # {}
  <2>1. \A d \in stops \cup reduces : d[1] \in {"halt", "reduce"}
    OBVIOUS
  <2> HIDE DEF stops, reduces, crit, warn
  <2>2. Actions(Decide(limits, p, FALSE)) # {"allow"}
    BY <1>1, <1>5, <2>1 DEF Actions
  <2> QED BY <1>1, <1>3, <1>5, <2>2 DEF crit, warn
<1> QED BY <1>4, <1>5

(* Whatever the book and its policy, a book that is not halted is shown as *)
(* ready exactly when all of its decisions allow.                          *)
THEOREM PosturesAgree == Spec => []PostureAgreesWithDecisions
<1>1. IInv => PostureAgreesWithDecisions
  <2> SUFFICES ASSUME NEW m \in Books, NEW p \in Policies,
                      evaluation = ReviewOf(m, p, FALSE)
               PROVE  evaluation.result.posture = "ready"
                         <=> Actions(evaluation.result.decisions) = {"allow"}
    <3>1. SUFFICES ASSUME IInv, evaluation.of = "review", ~evaluation.halted
                   PROVE  evaluation.result.posture = "ready"
                             <=> Actions(evaluation.result.decisions) = {"allow"}
      BY DEF PostureAgreesWithDecisions
    <3>2. PICK m \in Books, p \in Policies, halted \in BOOLEAN :
            evaluation = ReviewOf(m, p, halted)
      BY <3>1, PreviewFields DEF IInv, ScorecardOf, ModifyOf
    <3>3. evaluation.halted = halted
      BY <3>2 DEF ReviewOf
    <3>4. halted = FALSE
      BY <3>1, <3>3
    <3> QED BY <3>2, <3>4
  <2> DEFINE limits == LimitsOf(m, p)
  <2>1. /\ evaluation.result.decisions = Decide(limits, p, FALSE)
        /\ evaluation.result.posture = Posture(limits, p, FALSE)
    BY DEF ReviewOf, Review, LimitsOf
  <2>2. OfSeverity(limits, p, "crit") \cup OfSeverity(limits, p, "warn") = {}
           <=> Actions(Decide(limits, p, FALSE)) = {"allow"}
    BY AtMostFiveLimits, DecideAllows
  <2> QED BY <2>1, <2>2 DEF Posture
<1> QED BY <1>1, InductiveInvariant, PTL

-----------------------------------------------------------------------------
(* Measures and limits *)

(* The measures that RiskEngine.run takes of a book with positions.        *)
LEMMA MeasuresOfBook ==
    ASSUME NEW m \in Measures, Positions # {}
    PROVE  /\ GrossExposure(m) \in Nat
           /\ \A k : SectorWeight(m, k) \in Int
           /\ TopSector(m) \in Int /\ TopWeight(m) \in Int
           /\ \A s \in Positions : TopSector(m) >= SectorWeight(m, SectorOf[s])
           /\ \A s \in Positions : TopWeight(m) >= m.weight[s]
<1> USE RiskLimitsAssumption
<1>1. m.weight \in [Positions -> Int]
  BY DEF Measures
<1>2. GrossExposure(m) \in Nat
  <2> DEFINE f == Long(m)
  <2>1. DOMAIN f = Positions /\ \A s \in Positions : f[s] \in Nat
    BY <1>1 DEF Long
  <2> HIDE DEF f
  <2>2. SumFunctionOnSet(f, Positions) \in Nat
    BY <2>1, SumIsNat
  <2> QED BY <2>1, <2>2 DEF GrossExposure, SumFunction, f
<1>3. ASSUME NEW k PROVE SectorWeight(m, k) \in Int
  <2> DEFINE S == {s \in Positions : SectorOf[s] = k}
  <2>1. IsFiniteSet(S) /\ \A s \in S : m.weight[s] \in Int
    BY <1>1, FS_Subset
  <2> HIDE DEF S
  <2>2. SumFunctionOnSet(m.weight, S) \in Int
    BY <2>1, SumIsInt
  <2> QED BY <2>2 DEF SectorWeight, S
<1>4. TopSector(m) \in Int /\ \A s \in Positions : TopSector(m) >= SectorWeight(m, SectorOf[s])
  <2> DEFINE f == [s \in Positions |-> SectorWeight(m, SectorOf[s])]
             T == {f[s] : s \in Positions}
  <2>1. f \in [Positions -> Int]
    BY <1>3
  <2>2. T = {SectorWeight(m, SectorOf[s]) : s \in Positions}
    OBVIOUS
  <2>3. Max(T) \in Int /\ \A s \in Positions : Max(T) >= f[s]
    <3> HIDE DEF f
    <3> QED BY <2>1, LargestValue
  <2> HIDE DEF T
  <2> QED BY <2>2, <2>3 DEF TopSector
<1>5. TopWeight(m) \in Int /\ \A s \in Positions : TopWeight(m) >= m.weight[s]
  BY <1>1, LargestValue DEF TopWeight
<1> QED BY <1>2, <1>3, <1>4, <1>5

(* The limits that are looked at, in their order.                          *)
LEMMA LimitsOfBook ==
    ASSUME NEW m \in Measures, NEW p \in RiskPolicy, Positions # {}
    PROVE  LET limits == LimitsOf(m, p)
           IN  /\ 1..4 \subseteq DOMAIN limits
               /\ DOMAIN limits \subseteq 1..5
               /\ 5 \in DOMAIN limits <=> TopWeight(m) > 0
               /\ limits[1].breach <=> TopSector(m) > p.sectorCap
               /\ limits[1].utilization = Utilization(TopSector(m), p.sectorCap)
               /\ limits[2].breach <=> GrossExposure(m) > p.grossCap
               /\ limits[2].utilization = Utilization(GrossExposure(m), p.grossCap)
               /\ limits[3].breach <=> m.var > p.varBudget
               /\ limits[3].utilization = Utilization(m.var, p.varBudget)
               /\ limits[4].breach <=>
                     m.drawdown < p.drawdownLimit \/ m.maxDrawdown < p.drawdownLimit
               /\ limits[4].utilization = DrawdownLimit(m, p).utilization
               /\ TopWeight(m) > 0 =>
                     /\ limits[5].breach <=> TopWeight(m) > p.singleCap
                     /\ limits[5].utilization = Utilization(TopWeight(m), p.singleCap)
<1> DEFINE a == Limit("sector", Utilization(TopSector(m), p.sectorCap),
                      TopSector(m) > p.sectorCap)
           b == Limit("gross", Utilization(GrossExposure(m), p.grossCap),
                      GrossExposure(m) > p.grossCap)
           c == Limit("var", Utilization(m.var, p.varBudget), m.var > p.varBudget)
           d == DrawdownLimit(m, p)
           e == Limit("single", Utilization(TopWeight(m), p.singleCap),
                      TopWeight(m) > p.singleCap)
<1>1. LimitsOf(m, p) = <<a, b, c, d>> \o IF TopWeight(m) > 0 THEN <<e>> ELSE <<>>
  BY DEF LimitsOf, CheckLimits
<1>4. /\ a.breach <=> TopSector(m) > p.sectorCap
      /\ a.utilization = Utilization(TopSector(m), p.sectorCap)
      /\ b.breach <=> GrossExposure(m) > p.grossCap
      /\ b.utilization = Utilization(GrossExposure(m), p.grossCap)
      /\ c.breach <=> m.var > p.varBudget
      /\ c.utilization = Utilization(m.var, p.varBudget)
      /\ d.breach <=> m.drawdown < p.drawdownLimit \/ m.maxDrawdown < p.drawdownLimit
      /\ d.utilization = DrawdownLimit(m, p).utilization
      /\ e.breach <=> TopWeight(m) > p.singleCap
      /\ e.utilization = Utilization(TopWeight(m), p.singleCap)
  BY DEF Limit, DrawdownLimit
<1> HIDE DEF a, b, c, d, e
<1>2. CASE TopWeight(m) > 0
  <2>1. LimitsOf(m, p) = <<a, b, c, d>> \o <<e>>
    BY <1>1, <1>2
  <2> DEFINE S == {a, b, c, d, e}
             first == <<a, b, c, d>>
             last == <<e>>
  <2>2. first \in Seq(S) /\ last \in Seq(S) /\ Len(first) = 4 /\ Len(last) = 1
    OBVIOUS
  <2>3. first[1] = a /\ first[2] = b /\ first[3] = c /\ first[4] = d /\ last[1] = e
    OBVIOUS
  <2> HIDE DEF first, last, S
  <2>4. /\ first \o last \in Seq(S)
        /\ Len(first \o last) = 5
        /\ \A i \in 1..5 : (first \o last)[i] = IF i <= 4 THEN first[i] ELSE last[i - 4]
    <3>1. /\ first \o last \in Seq(S)
          /\ Len(first \o last) = Len(first) + Len(last)
          /\ \A i \in 1..Len(first) + Len(last) :
                (first \o last)[i] = IF i <= Len(first) THEN first[i] ELSE last[i - Len(first)]
      BY <2>2, ConcatProperties
    <3> QED BY <2>2, <3>1
  <2>5. DOMAIN (first \o last) = 1..5
    BY <2>4, LenProperties
  <2>6. /\ (first \o last)[1] = a /\ (first \o last)[2] = b /\ (first \o last)[3] = c
        /\ (first \o last)[4] = d /\ (first \o last)[5] = e
    BY <2>3, <2>4
  <2> QED BY <1>2, <1>4, <2>1, <2>5, <2>6 DEF first, last
<1>3. CASE ~(TopWeight(m) > 0)
  <2>1. LimitsOf(m, p) = <<a, b, c, d>> \o <<>>
    BY <1>1, <1>3
  <2>2. LimitsOf(m, p) = <<a, b, c, d>>
    BY <2>1
  <2> QED BY <1>3, <1>4, <2>2
<1> QED BY <1>2, <1>3

(* A book over any limit has a critical event.                             *)
LEMMA BreachIsCritical ==
    ASSUME NEW m \in Measures, NEW p \in RiskPolicy, Breached(m, p)
    PROVE  OfSeverity(LimitsOf(m, p), p, "crit") # {}
<1> USE RiskLimitsAssumption
<1> DEFINE limits == LimitsOf(m, p)
<1>0. ASSUME NEW k, {s \in Positions : SectorOf[s] = k} = {}
      PROVE  ~(SectorWeight(m, k) > p.sectorCap)
  BY <1>0, SumOfNone DEF SectorWeight, RiskPolicy
<1>1. Positions # {}
  <2> SUFFICES ASSUME Positions = {} PROVE FALSE
    OBVIOUS
  <2>1. GrossExposure(m) = 0
    BY SumOfNone DEF GrossExposure, SumFunction, Long
  <2>2. \A k : ~(SectorWeight(m, k) > p.sectorCap)
    BY <1>0
  <2> QED BY <2>1, <2>2 DEF Breached, Measures, RiskPolicy
<1>2. /\ p.singleCap \in Nat /\ p.sectorCap \in Nat
      /\ \A s \in Positions : m.weight[s] \in Int
  BY DEF RiskPolicy, Measures
<1>3. ASSUME NEW i \in DOMAIN limits, limits[i].breach PROVE i \in OfSeverity(limits, p, "crit")
  BY <1>3 DEF OfSeverity, Severity
<1> HIDE DEF limits
<1>4. /\ 1 \in DOMAIN limits /\ (TopSector(m) > p.sectorCap => limits[1].breach)
      /\ 2 \in DOMAIN limits /\ (GrossExposure(m) > p.grossCap => limits[2].breach)
      /\ 3 \in DOMAIN limits /\ (m.var > p.varBudget => limits[3].breach)
      /\ 4 \in DOMAIN limits
      /\ m.drawdown < p.drawdownLimit \/ m.maxDrawdown < p.drawdownLimit => limits[4].breach
      /\ TopWeight(m) > 0 =>
            5 \in DOMAIN limits /\ (TopWeight(m) > p.singleCap => limits[5].breach)
  <2>1. 1 \in 1..4 /\ 2 \in 1..4 /\ 3 \in 1..4 /\ 4 \in 1..4
    OBVIOUS
  <2> QED BY <1>1, <2>1, LimitsOfBook DEF limits
<1>5. ASSUME NEW s \in Positions, m.weight[s] > p.singleCap
      PROVE  TopWeight(m) > 0 /\ TopWeight(m) > p.singleCap
  BY <1>1, <1>2, <1>5, MeasuresOfBook
<1>6. ASSUME NEW k \in Sectors, SectorWeight(m, k) > p.sectorCap
      PROVE  TopSector(m) > p.sectorCap
  <2>1. PICK s \in Positions : SectorOf[s] = k
    BY <1>0, <1>6
  <2>2. TopSector(m) \in Int /\ SectorWeight(m, k) \in Int /\ TopSector(m) >= SectorWeight(m, k)
    BY <1>1, <2>1, MeasuresOfBook
  <2> QED BY <1>2, <1>6, <2>2
<1>7. CASE \E s \in Positions : m.weight[s] > p.singleCap
  <2>1. 5 \in DOMAIN limits /\ limits[5].breach
    BY <1>4, <1>5, <1>7
  <2> QED BY <1>3, <2>1 DEF limits
<1>8. CASE \E k \in Sectors : SectorWeight(m, k) > p.sectorCap
  <2>1. 1 \in DOMAIN limits /\ limits[1].breach
    BY <1>4, <1>6, <1>8
  <2> QED BY <1>3, <2>1 DEF limits
<1>9. CASE GrossExposure(m) > p.grossCap
  <2>1. 2 \in DOMAIN limits /\ limits[2].breach
    BY <1>4, <1>9
  <2> QED BY <1>3, <2>1 DEF limits
<1>10. CASE m.var > p.varBudget
  <2>1. 3 \in DOMAIN limits /\ limits[3].breach
    BY <1>4, <1>10
  <2> QED BY <1>3, <2>1 DEF limits
<1>11. CASE m.drawdown < p.drawdownLimit \/ m.maxDrawdown < p.drawdownLimit
  <2>1. 4 \in DOMAIN limits /\ limits[4].breach
    BY <1>4, <1>11
  <2> QED BY <1>3, <2>1 DEF limits
<1> QED BY <1>7, <1>8, <1>9, <1>10, <1>11 DEF Breached

(* The decisions that events make: one stop for the first critical event,  *)
(* and a reduction for every warning before it.                            *)
LEMMA DecisionsOfEvents ==
    ASSUME NEW limits, DOMAIN limits \subseteq 1..5, NEW p, NEW halted \in BOOLEAN
    PROVE  LET crit == OfSeverity(limits, p, "crit")
               warn == OfSeverity(limits, p, "warn")
               stop == IF halted THEN "block" ELSE "halt"
               decisions == Decide(limits, p, halted)
           IN  /\ crit # {} =>
                     /\ \E name : {d \in decisions : d[1] = stop} = {<<stop, name>>}
                     /\ stop \in Actions(decisions)
                     /\ Actions(decisions) \subseteq {stop, "reduce"}
               /\ crit = {} /\ warn # {} => Actions(decisions) = {"reduce"}
               /\ crit = {} /\ warn = {} => Actions(decisions) = {"allow"}
<1> DEFINE crit == OfSeverity(limits, p, "crit")
           warn == OfSeverity(limits, p, "warn")
           stop == IF halted THEN "block" ELSE "halt"
           First == {c \in crit : \A d \in crit : c <= d}
           Before == {w \in warn : \A c \in crit : w < c}
           stops == {<<stop, limits[i].name>> : i \in First}
           reduces == {<<"reduce", limits[i].name>> : i \in Before}
           decisions == Decide(limits, p, halted)
<1>1. decisions = IF stops \cup reduces = {} THEN {<<"allow", "">>} ELSE stops \cup reduces
  BY DEF Decide
<1>2. crit \in SUBSET (1..5) /\ stop \in {"block", "halt"}
  BY DEF OfSeverity
<1>3. /\ \A d \in stops : d[1] = stop
      /\ \A d \in reduces : d[1] = "reduce"
  OBVIOUS
<1>4. <<"allow", "">>[1] = "allow"
  OBVIOUS
<1>5. ASSUME crit # {} PROVE \E i \in 1..5 : First = {i}
  <2>1. PICK i \in crit : \A d \in crit : i <= d
    <3> HIDE DEF crit
    <3> QED BY <1>2, <1>5, FirstOfFive
  <2>2. \A j \in First : j = i
    <3> HIDE DEF crit
    <3> QED BY <1>2, <2>1
  <2>3. i \in First
    BY <2>1
  <2> QED BY <1>2, <2>1, <2>2, <2>3
<1>6. ASSUME crit # {}
      PROVE  /\ \E name : {d \in decisions : d[1] = stop} = {<<stop, name>>}
             /\ stop \in Actions(decisions)
             /\ Actions(decisions) \subseteq {stop, "reduce"}
  <2>1. PICK i \in 1..5 : First = {i}
    BY <1>5, <1>6
  <2>2. stops = {<<stop, limits[i].name>>}
    <3> HIDE DEF First
    <3> QED BY <2>1
  <2> HIDE DEF First, Before, stops, reduces, stop, crit
  <2>3. decisions = stops \cup reduces
    BY <1>1, <2>2
  <2>4. {d \in stops \cup reduces : d[1] = stop} = stops
    BY <1>2, <1>3
  <2> HIDE DEF decisions
  <2>5. {d \in decisions : d[1] = stop} = {<<stop, limits[i].name>>}
    BY <2>2, <2>3, <2>4
  <2>6. <<stop, limits[i].name>> \in decisions /\ <<stop, limits[i].name>>[1] = stop
    BY <2>2, <2>3
  <2>7. stop \in Actions(decisions)
    BY <2>6 DEF Actions
  <2>8. Actions(decisions) \subseteq {stop, "reduce"}
    BY <1>3, <2>3 DEF Actions
  <2> QED BY <2>5, <2>7, <2>8
<1>7. ASSUME crit = {} PROVE stops = {} /\ Before = warn
  BY <1>7
<1>8. ASSUME crit = {}, warn # {} PROVE Actions(decisions) = {"reduce"}
  <2>1. stops = {} /\ reduces # {}
    <3> HIDE DEF crit, warn
    <3> QED BY <1>7, <1>8
  <2> HIDE DEF stops, reduces
  <2>2. decisions = reduces
    BY <1>1, <2>1
  <2> QED BY <1>3, <2>1, <2>2 DEF Actions
<1>9. ASSUME crit = {}, warn = {} PROVE Actions(decisions) = {"allow"}
  <2>1. stops = {} /\ reduces = {}
    <3> HIDE DEF crit, warn
    <3> QED BY <1>7, <1>9
  <2> HIDE DEF stops, reduces
  <2>2. decisions = {<<"allow", "">>}
    BY <1>1, <2>1
  <2> HIDE DEF decisions
  <2>3. Actions(decisions) = {<<"allow", "">>[1]}
    BY <2>2, Zenon DEF Actions
  <2> QED BY <1>4, <2>3
<1> QED BY <1>6, <1>8, <1>9

(* No book over a limit of its policy escapes a stop, and one stop is all  *)
(* it gets, whatever else is wrong with it.                                *)
THEOREM BreachesStop == Spec => []BreachStopsTheBook
<1>1. IInv => BreachStopsTheBook
  <2> SUFFICES ASSUME IInv, evaluation.of = "review",
                      Breached(evaluation.measures, evaluation.policy)
               PROVE  LET decisions == evaluation.result.decisions
                          stop == IF evaluation.halted THEN "block" ELSE "halt"
                      IN  /\ Cardinality({d \in decisions : d[1] = stop}) = 1
                          /\ Actions(decisions) \subseteq {stop, "reduce"}
                          /\ evaluation.result.posture # "ready"
    BY DEF BreachStopsTheBook
  <2>1. PICK m \in Books, p \in Policies, halted \in BOOLEAN :
          evaluation = ReviewOf(m, p, halted)
    BY PreviewFields DEF IInv, ScorecardOf, ModifyOf
  <2>2. /\ evaluation.measures = m /\ evaluation.policy = p /\ evaluation.halted = halted
        /\ evaluation.result.decisions = Decide(LimitsOf(m, p), p, halted)
        /\ evaluation.result.posture = Posture(LimitsOf(m, p), p, halted)
    BY <2>1 DEF ReviewOf, Review, LimitsOf
  <2>3. OfSeverity(LimitsOf(m, p), p, "crit") # {}
    BY <2>2, BreachIsCritical, DecisionRulesAssumption
  <2> DEFINE stop == IF halted THEN "block" ELSE "halt"
             decisions == Decide(LimitsOf(m, p), p, halted)
  <2>4. /\ \E name : {d \in decisions : d[1] = stop} = {<<stop, name>>}
        /\ Actions(decisions) \subseteq {stop, "reduce"}
    BY <2>3, AtMostFiveLimits, DecisionsOfEvents
  <2>5. Cardinality({d \in decisions : d[1] = stop}) = 1
    <3> HIDE DEF decisions, stop
    <3> QED BY <2>4, FS_Singleton
  <2>6. evaluation.result.posture # "ready"
    BY <2>2, <2>3 DEF Posture
  <2> QED BY <2>2, <2>4, <2>5, <2>6
<1> QED BY <1>1, InductiveInvariant, PTL

-----------------------------------------------------------------------------
(* A tighter policy *)

(* The quotient is the largest number whose product still fits.            *)
LEMMA QuotientIsLargest ==
    ASSUME NEW a \in Int, NEW b \in Nat \ {0}, NEW k \in Int, b * k <= a
    PROVE  k <= a \div b
<1> DEFINE q == a \div b
<1>1. q \in Int /\ a < b * (q + 1)
  BY SMT
<1>2. CASE k >= q + 1
  <2>1. b * k >= b * (q + 1)
    BY <1>1, <1>2, SMT
  <2>2. b * k \in Int /\ b * (q + 1) \in Int
    BY <1>1
  <2> QED BY <1>1, <2>1, <2>2, SMT
<1> QED BY <1>1, <1>2

(* What is used of a cap is more when the cap is lower.                    *)
LEMMA UtilizationGrows ==
    ASSUME NEW used \in Nat, NEW c \in Nat \ {0}, NEW d \in Nat \ {0}, c <= d
    PROVE  /\ Utilization(used, d) \in Nat /\ Utilization(used, c) \in Nat
           /\ Utilization(used, d) <= Utilization(used, c)
<1> DEFINE n == 2 * (used * 10000)
           k == (n + d) \div (2 * d)
<1>1. n \in Nat
  OBVIOUS
<1>2. Utilization(used, d) = k /\ Utilization(used, c) = (n + c) \div (2 * c)
  BY DEF Utilization, RoundTo
<1> HIDE DEF n
<1>3. /\ 2 * d \in Nat \ {0} /\ 2 * c \in Nat \ {0}
      /\ n + d \in Nat /\ n + c \in Nat
  BY <1>1
<1>4. k \in Int /\ (2 * d) * k <= n + d
  <2> DEFINE a == n + d
             b == 2 * d
  <2>1. a \in Nat /\ b \in Nat \ {0}
    BY <1>3
  <2> HIDE DEF a, b
  <2>2. a \div b \in Int /\ b * (a \div b) <= a
    BY <2>1, SMT
  <2> QED BY <2>2 DEF a, b
<1>5. 0 <= k
  <2>1. (2 * d) * 0 <= n + d
    BY <1>3
  <2> QED BY <1>3, <2>1, QuotientIsLargest
<1>6. 0 <= (n + c) \div (2 * c) /\ (n + c) \div (2 * c) \in Int
  <2>1. (2 * c) * 0 <= n + c
    BY <1>3
  <2> QED BY <1>3, <2>1, QuotientIsLargest
<1> HIDE DEF k
<1>7. CASE k = 0
  BY <1>2, <1>4, <1>6, <1>7
<1>8. CASE k >= 1
  <2> DEFINE j == 2 * k - 1
  <2>1. j \in Nat
    BY <1>4, <1>8
  <2>2. d * j <= n
    <3>1. (2 * d) * k = d * j + d
      BY <1>4, SMT
    <3>2. d * j \in Int
      BY <2>1
    <3> QED BY <1>1, <1>4, <3>1, <3>2
  <2> HIDE DEF j
  <2>3. c * j <= d * j
    BY <2>1, SMT
  <2>4. (2 * c) * k = c * j + c
    BY <1>4, SMT DEF j
  <2>5. (2 * c) * k <= n + c
    <3>1. c * j \in Int /\ d * j \in Int
      BY <2>1
    <3> QED BY <1>1, <2>2, <2>3, <2>4, <3>1
  <2>6. k <= (n + c) \div (2 * c)
    BY <1>3, <1>4, <2>5, QuotientIsLargest
  <2> QED BY <1>2, <1>4, <1>5, <1>6, <2>6
<1> QED BY <1>4, <1>5, <1>7, <1>8

(* A book that is short of a sector uses nothing of the cap.               *)
LEMMA ShortUsesNothing ==
    ASSUME NEW used \in Int, used < 0, NEW d \in Nat \ {0}
    PROVE  Utilization(used, d) \in Int /\ Utilization(used, d) <= 0
<1> DEFINE a == 2 * (used * 10000) + d
           b == 2 * d
<1>1. a \in Int /\ b \in Nat \ {0} /\ a < b
  OBVIOUS
<1>2. Utilization(used, d) = a \div b
  BY DEF Utilization, RoundTo
<1> HIDE DEF a, b
<1>3. a \div b \in Int /\ b * (a \div b) <= a
  BY <1>1, SMT
<1>4. CASE a \div b >= 1
  <2>1. b * (a \div b) >= b * 1
    BY <1>1, <1>3, <1>4, SMT
  <2>2. b * (a \div b) \in Int
    BY <1>1, <1>3
  <2> QED BY <1>1, <1>3, <2>1, <2>2
<1> QED BY <1>2, <1>3, <1>4

(* A warning stays one when the cap and the threshold are lowered, unless  *)
(* the threshold is zero.                                                  *)
LEMMA WarningStays ==
    ASSUME NEW used \in Int, NEW c \in Nat \ {0}, NEW d \in Nat \ {0}, c <= d,
           NEW low \in Nat, NEW high \in Nat, low <= high, Utilization(used, d) >= high
    PROVE  Utilization(used, c) >= low \/ low = 0
<1>1. CASE used >= 0
  BY <1>1, UtilizationGrows
<1>2. CASE used < 0
  BY <1>2, ShortUsesNothing
<1> QED BY <1>1, <1>2

Eventful(m, p) ==
    OfSeverity(LimitsOf(m, p), p, "crit") \cup OfSeverity(LimitsOf(m, p), p, "warn") # {}

LEMMA UsedLimitIsEvent ==
    ASSUME NEW m, NEW p, NEW i \in DOMAIN LimitsOf(m, p),
           LimitsOf(m, p)[i].utilization >= p.warnThreshold
    PROVE  Eventful(m, p)
BY DEF Eventful, OfSeverity, Severity

(* With a threshold of zero the gross exposure always warns.               *)
LEMMA ZeroThresholdWarns ==
    ASSUME NEW m \in Measures, NEW p \in RiskPolicy, Positions # {}, p.warnThreshold = 0
    PROVE  Eventful(m, p)
<1>1. GrossExposure(m) \in Nat /\ p.grossCap \in Nat \ {0}
  BY MeasuresOfBook DEF RiskPolicy
<1>2. Utilization(GrossExposure(m), p.grossCap) >= 0
  BY <1>1, UtilizationGrows
<1>3. 2 \in DOMAIN LimitsOf(m, p)
         /\ LimitsOf(m, p)[2].utilization = Utilization(GrossExposure(m), p.grossCap)
  <2>1. 2 \in 1..4
    OBVIOUS
  <2> QED BY <2>1, LimitsOfBook
<1> QED BY <1>2, <1>3, UsedLimitIsEvent

(* A limit that is breached is breached under a tighter policy, at its     *)
(* place in the list.                                                      *)
LEMMA CriticalStays ==
    ASSUME NEW m \in Measures, NEW p \in RiskPolicy, NEW q \in RiskPolicy, Positions # {},
           Tighter(p, q), OfSeverity(LimitsOf(m, q), q, "crit") # {}
    PROVE  OfSeverity(LimitsOf(m, p), p, "crit") # {}
<1> DEFINE now == LimitsOf(m, p)
           before == LimitsOf(m, q)
<1>1. PICK i \in DOMAIN before : before[i].breach
  BY DEF OfSeverity, Severity
<1>2. /\ p.sectorCap \in Nat /\ q.sectorCap \in Nat /\ p.grossCap \in Nat /\ q.grossCap \in Nat
      /\ p.varBudget \in Nat /\ q.varBudget \in Nat /\ p.singleCap \in Nat /\ q.singleCap \in Nat
      /\ p.drawdownLimit \in Int /\ q.drawdownLimit \in Int
      /\ m.var \in Nat /\ m.drawdown \in Int /\ m.maxDrawdown \in Int
      /\ TopSector(m) \in Int /\ TopWeight(m) \in Int /\ GrossExposure(m) \in Nat
  BY MeasuresOfBook DEF RiskPolicy, Measures
<1>3. i \in DOMAIN now /\ now[i].breach
  <2>1. i \in 1..5 /\ (i = 5 => TopWeight(m) > 0)
    BY LimitsOfBook
  <2>2. i \in 1..4 => i \in DOMAIN now
    BY LimitsOfBook
  <2>3. CASE i = 1
    BY <1>1, <1>2, <2>2, <2>3, LimitsOfBook DEF Tighter
  <2>4. CASE i = 2
    BY <1>1, <1>2, <2>2, <2>4, LimitsOfBook DEF Tighter
  <2>5. CASE i = 3
    BY <1>1, <1>2, <2>2, <2>5, LimitsOfBook DEF Tighter
  <2>6. CASE i = 4
    BY <1>1, <1>2, <2>2, <2>6, LimitsOfBook DEF Tighter
  <2>7. CASE i = 5
    BY <1>1, <1>2, <2>1, <2>7, LimitsOfBook DEF Tighter
  <2> QED BY <2>1, <2>3, <2>4, <2>5, <2>6, <2>7
<1> QED BY <1>3 DEF OfSeverity, Severity

(* A book that is warned has an event under a tighter policy.              *)
LEMMA WarnedStaysEventful ==
    ASSUME NEW m \in Measures, NEW p \in RiskPolicy, NEW q \in RiskPolicy, Positions # {},
           Tighter(p, q), OfSeverity(LimitsOf(m, q), q, "warn") # {}
    PROVE  Eventful(m, p)
<1> DEFINE now == LimitsOf(m, p)
           before == LimitsOf(m, q)
<1> SUFFICES ASSUME p.warnThreshold # 0 PROVE Eventful(m, p)
  BY ZeroThresholdWarns
<1>1. PICK i \in DOMAIN before : ~before[i].breach /\ before[i].utilization >= q.warnThreshold
  BY DEF OfSeverity, Severity
<1>2. /\ p.warnThreshold \in Nat /\ q.warnThreshold \in Nat
      /\ p.warnThreshold <= q.warnThreshold
  BY DEF RiskPolicy, Tighter
<1>3. ASSUME NEW used \in Int, NEW c \in Nat \ {0}, NEW d \in Nat \ {0}, c <= d,
             Utilization(used, d) >= q.warnThreshold
      PROVE  Utilization(used, c) >= p.warnThreshold
  BY <1>2, <1>3, WarningStays
<1>4. i \in 1..5 /\ (i = 5 => TopWeight(m) > 0 /\ 5 \in DOMAIN now)
  BY LimitsOfBook
<1>5. i \in 1..4 => i \in DOMAIN now
  BY LimitsOfBook
<1>6. CASE i = 1
  <2>1. /\ TopSector(m) \in Int /\ p.sectorCap \in Nat \ {0} /\ q.sectorCap \in Nat \ {0}
        /\ p.sectorCap <= q.sectorCap
    BY MeasuresOfBook DEF RiskPolicy, Tighter
  <2>2. now[1].utilization >= p.warnThreshold
    BY <1>1, <1>3, <1>6, <2>1, LimitsOfBook
  <2> QED BY <1>5, <1>6, <2>2, UsedLimitIsEvent
<1>7. CASE i = 2
  <2>1. /\ GrossExposure(m) \in Int /\ p.grossCap \in Nat \ {0} /\ q.grossCap \in Nat \ {0}
        /\ p.grossCap <= q.grossCap
    BY MeasuresOfBook DEF RiskPolicy, Tighter
  <2>2. now[2].utilization >= p.warnThreshold
    BY <1>1, <1>3, <1>7, <2>1, LimitsOfBook
  <2> QED BY <1>5, <1>7, <2>2, UsedLimitIsEvent
<1>8. CASE i = 3
  <2>1. /\ m.var \in Int /\ p.varBudget \in Nat \ {0} /\ q.varBudget \in Nat \ {0}
        /\ p.varBudget <= q.varBudget
    BY DEF Measures, RiskPolicy, Tighter
  <2>2. now[3].utilization >= p.warnThreshold
    BY <1>1, <1>3, <1>8, <2>1, LimitsOfBook
  <2> QED BY <1>5, <1>8, <2>2, UsedLimitIsEvent
<1>9. CASE i = 4
  <2> DEFINE used == IF m.maxDrawdown < 0 THEN -m.maxDrawdown ELSE -m.drawdown
  <2>1. /\ m.drawdown \in Int /\ m.drawdown <= 0 /\ m.maxDrawdown \in Int /\ m.maxDrawdown <= 0
        /\ p.drawdownLimit \in Int /\ p.drawdownLimit <= 0
        /\ q.drawdownLimit \in Int /\ q.drawdownLimit <= 0
        /\ p.drawdownLimit >= q.drawdownLimit
    BY DEF Measures, RiskPolicy, Tighter
  <2>2. /\ before[4].utilization =
              IF q.drawdownLimit = 0 THEN 0 ELSE Utilization(used, -q.drawdownLimit)
        /\ now[4].utilization =
              IF p.drawdownLimit = 0 THEN 0 ELSE Utilization(used, -p.drawdownLimit)
    BY LimitsOfBook DEF DrawdownLimit, Limit
  <2>3. q.warnThreshold > 0
    BY <1>2
  <2>4. q.drawdownLimit # 0 /\ Utilization(used, -q.drawdownLimit) >= q.warnThreshold
    BY <1>1, <1>2, <1>9, <2>2, <2>3
  <2>5. CASE p.drawdownLimit # 0
    <3>1. used \in Int /\ -p.drawdownLimit \in Nat \ {0} /\ -q.drawdownLimit \in Nat \ {0}
          /\ -p.drawdownLimit <= -q.drawdownLimit
      BY <2>1, <2>4, <2>5
    <3>2. now[4].utilization >= p.warnThreshold
      <4> HIDE DEF used
      <4> QED BY <1>3, <2>2, <2>4, <2>5, <3>1
    <3> QED BY <1>5, <1>9, <3>2, UsedLimitIsEvent
  <2>6. CASE p.drawdownLimit = 0
    <3>1. used > 0
      <4>1. used \in Nat /\ -q.drawdownLimit \in Nat \ {0}
        BY <2>1, <2>4
      <4>2. CASE used = 0
        <5>1. Utilization(0, -q.drawdownLimit) = 0
          <6> DEFINE d == -q.drawdownLimit
          <6>1. d \in Nat \ {0}
            BY <4>1
          <6> HIDE DEF d
          <6>2. (2 * (0 * 10000) + d) \div (2 * d) = 0
            BY <6>1, SMT
          <6> QED BY <6>2 DEF d, Utilization, RoundTo
        <5> QED BY <2>3, <2>4, <4>2, <5>1, <1>2
      <4> QED BY <4>1, <4>2
    <3>2. m.drawdown < 0 \/ m.maxDrawdown < 0
      BY <2>1, <3>1
    <3>3. now[4].breach
      BY <2>1, <2>6, <3>2, LimitsOfBook
    <3> QED BY <1>5, <1>9, <3>3 DEF Eventful, OfSeverity, Severity
  <2> QED BY <2>5, <2>6
<1>10. CASE i = 5
  <2>1. /\ TopWeight(m) \in Int /\ p.singleCap \in Nat \ {0} /\ q.singleCap \in Nat \ {0}
        /\ p.singleCap <= q.singleCap
    BY MeasuresOfBook DEF RiskPolicy, Tighter
  <2>2. now[5].utilization >= p.warnThreshold
    BY <1>1, <1>3, <1>4, <1>10, <2>1, LimitsOfBook
  <2> QED BY <1>4, <1>10, <2>2, UsedLimitIsEvent
<1> QED BY <1>4, <1>6, <1>7, <1>8, <1>9, <1>10

(* How strict the decisions of a review are.                               *)
LEMMA StrictnessOfReview ==
    ASSUME NEW m, NEW p, NEW halted \in BOOLEAN
    PROVE  LET limits == LimitsOf(m, p)
           IN  Strictness(Decide(limits, p, halted)) =
                 IF OfSeverity(limits, p, "crit") # {} THEN 2
                 ELSE IF OfSeverity(limits, p, "warn") # {} THEN 1 ELSE 0
<1> DEFINE limits == LimitsOf(m, p)
           crit == OfSeverity(limits, p, "crit")
           warn == OfSeverity(limits, p, "warn")
           stop == IF halted THEN "block" ELSE "halt"
           actions == Actions(Decide(limits, p, halted))
<1>1. /\ crit # {} => stop \in actions
      /\ crit = {} /\ warn # {} => actions = {"reduce"}
      /\ crit = {} /\ warn = {} => actions = {"allow"}
  BY AtMostFiveLimits, DecisionsOfEvents
<1>2. Strictness(Decide(limits, p, halted)) =
        IF actions \cap {"halt", "block"} # {} THEN 2
        ELSE IF "reduce" \in actions THEN 1 ELSE 0
  BY DEF Strictness
<1>3. stop \in {"halt", "block"}
  OBVIOUS
<1> HIDE DEF crit, warn, stop, actions
<1>4. CASE crit # {}
  BY <1>1, <1>2, <1>3, <1>4 DEF crit
<1>5. CASE crit = {} /\ warn # {}
  BY <1>1, <1>2, <1>5 DEF crit, warn
<1>6. CASE crit = {} /\ warn = {}
  BY <1>1, <1>2, <1>6 DEF crit, warn
<1> QED BY <1>4, <1>5, <1>6

(* Tightening a policy, in whichever of its limits and by however much,    *)
(* never relaxes what is decided about a book.                             *)
THEOREM TighteningNeverRelaxes == Spec => TighterPolicyNeverRelaxes
<1>1. IInv /\ IInv' =>
        (/\ evaluation.of = "review" /\ evaluation'.of = "review"
         /\ evaluation'.measures = evaluation.measures
         /\ Tighter(evaluation'.policy, evaluation.policy)
         => Strictness(evaluation'.result.decisions) >= Strictness(evaluation.result.decisions))
  <2> SUFFICES ASSUME IInv, IInv', evaluation.of = "review", evaluation'.of = "review",
                      evaluation'.measures = evaluation.measures,
                      Tighter(evaluation'.policy, evaluation.policy)
               PROVE  Strictness(evaluation'.result.decisions)
                         >= Strictness(evaluation.result.decisions)
    OBVIOUS
  <2>1. PICK m \in Books, q \in Policies, h \in BOOLEAN : evaluation = ReviewOf(m, q, h)
    BY PreviewFields DEF IInv, ScorecardOf, ModifyOf
  <2>2. PICK n \in Books, p \in Policies, k \in BOOLEAN : evaluation' = ReviewOf(n, p, k)
    BY PreviewFields DEF IInv, ScorecardOf, ModifyOf
  <2>3. n = m /\ Tighter(p, q)
    BY <2>1, <2>2 DEF ReviewOf
  <2>4. /\ evaluation.result.decisions = Decide(LimitsOf(m, q), q, h)
        /\ evaluation'.result.decisions = Decide(LimitsOf(m, p), p, k)
    BY <2>1, <2>2, <2>3 DEF ReviewOf, Review, LimitsOf
  <2>5. m \in Measures /\ p \in RiskPolicy /\ q \in RiskPolicy
    BY DecisionRulesAssumption
  <2>6. CASE Positions = {}
    <3>1. LimitsOf(m, p) = <<>> /\ LimitsOf(m, q) = <<>>
      BY <2>6 DEF LimitsOf
    <3>2. \A r, s : OfSeverity(<<>>, r, s) = {}
      BY DEF OfSeverity
    <3> QED BY <2>4, <3>1, <3>2, StrictnessOfReview
  <2>7. CASE Positions # {}
    <3>1. OfSeverity(LimitsOf(m, q), q, "crit") # {} => OfSeverity(LimitsOf(m, p), p, "crit") # {}
      BY <2>3, <2>5, <2>7, CriticalStays
    <3>2. OfSeverity(LimitsOf(m, q), q, "warn") # {} => Eventful(m, p)
      BY <2>3, <2>5, <2>7, WarnedStaysEventful
    <3> QED BY <2>4, <3>1, <3>2, StrictnessOfReview DEF Eventful
  <2> QED BY <2>6, <2>7
<1> QED BY <1>1, InductiveInvariant, PTL DEF Spec, TighterPolicyNeverRelaxes

-----------------------------------------------------------------------------
(* Sizes of trades *)

Fractions == {660, 800, 825}

(* A stop is at a distance.                                                *)
LEMMA StopDistance == ASSUME NEW m PROVE Trade!StopFraction(m) \in Fractions
BY DEF Trade!StopFraction, Fractions

(* The price reckoned with is a positive one, and the one given if it is.  *)
LEMMA LastPriceIs ==
    ASSUME NEW price \in Nat \cup {None}
    PROVE  /\ Trade!LastPrice(price) \in Nat \ {0}
           /\ price \in Nat \ {0} => Trade!LastPrice(price) = price
BY ScorecardsAssumption DEF Trade!LastPrice, Trade!DefaultPrice

(* The stop shown for a price is not above it, nor below five sixths of it.*)
LEMMA StopIsNear ==
    ASSUME NEW p \in Nat \ {0}, NEW f \in Fractions, NEW stop \in Trade!StopPrices(p, f)
    PROVE  stop \in Nat \ {0} /\ stop <= p /\ 5 * p <= 6 * stop
<1> DEFINE exact == p * (10000 - f)
           floor == exact \div 10000
<1>1. /\ stop \in {floor, floor + 1}
      /\ 10000 * stop <= exact + 5000 /\ 10000 * stop >= exact - 5000
  BY DEF Trade!StopPrices
<1>2. exact \in {9340 * p, 9200 * p, 9175 * p}
  <2>1. CASE f = 660 BY <2>1
  <2>2. CASE f = 800 BY <2>2
  <2>3. CASE f = 825 BY <2>3
  <2> QED BY <2>1, <2>2, <2>3 DEF Fractions
<1> HIDE DEF exact
<1>3. exact \in Nat /\ exact <= 9340 * p /\ exact >= 9175 * p
  BY <1>2
<1>4. floor \in Int
  BY <1>3, SMT
<1> HIDE DEF floor
<1>5. stop \in Int
  BY <1>1, <1>4
<1>6. 10000 * stop <= 9340 * p + 5000 /\ 10000 * stop >= 9175 * p - 5000
  BY <1>1, <1>3, <1>5
<1>7. stop <= p /\ stop >= 1
  BY <1>5, <1>6
<1>8. 5 * p <= 6 * stop
  <2>1. CASE p >= 6 BY <2>1, <1>5, <1>6
  <2>2. CASE p < 6
    <3>1. p \in {1, 2, 3, 4, 5}
      BY <2>2
    <3>2. stop >= p
      BY <3>1, <1>5, <1>6
    <3> QED BY <3>2, <1>5
  <2> QED BY <2>1, <2>2
<1> QED BY <1>5, <1>7, <1>8

(* A product of positive numbers is one.                                   *)
LEMMA PositiveProduct ==
    ASSUME NEW a \in Nat \ {0}, NEW b \in Nat \ {0}
    PROVE  a * b \in Nat \ {0}
BY SMT

(* Products grow with their factors.                                       *)
LEMMA ProductsGrow ==
    ASSUME NEW a \in Nat, NEW b \in Nat, NEW c \in Nat, NEW d \in Nat, a <= c, b <= d
    PROVE  a * b \in Nat /\ c * d \in Nat /\ a * b <= c * d
<1>1. a * b <= c * b
  BY SMT
<1>2. c * b <= c * d
  BY SMT
<1>3. a * b \in Nat /\ c * b \in Nat /\ c * d \in Nat
  BY SMT
<1> QED BY <1>1, <1>2, <1>3

(* A quotient is a number, and its product fits.                           *)
LEMMA QuotientFits ==
    ASSUME NEW a \in Nat, NEW b \in Nat \ {0}
    PROVE  a \div b \in Nat /\ b * (a \div b) <= a
<1>1. a \div b \in Int /\ b * (a \div b) <= a
  BY SMT
<1>2. b * 0 <= a
  BY SMT
<1>3. 0 <= a \div b
  BY <1>2, QuotientIsLargest
<1> QED BY <1>1, <1>3

(* What the risk budget buys is one quotient, the preview's and the cap's. *)
LEMMA SuggestedIsQuotient ==
    ASSUME NEW e \in Nat, NEW r \in Nat, NEW p \in Nat \ {0}, NEW f \in Fractions
    PROVE  /\ Trade!SuggestedQuantity(e, p, f, r) \in Nat
           /\ Trade!SuggestedQuantity(e, p, f, r) = (e * r) \div (p * f)
           /\ Trade!SuggestedQuantity(e, p, f, r) * p * f <= e * r
<1> DEFINE a == e * r
           b == p * f
           n == Trade!SuggestedQuantity(e, p, f, r)
<1>1. a \in Nat /\ (e = 0 => a = 0)
  BY SMT
<1>2. b \in Nat \ {0}
  <2>1. f \in Nat \ {0}
    BY DEF Fractions
  <2> HIDE DEF b
  <2> QED BY <2>1, PositiveProduct DEF b
<1>3. n = IF e <= 0 \/ b <= 0 THEN 0 ELSE a \div b
  BY DEF Trade!SuggestedQuantity
<1> HIDE DEF a, b, n
<1>4. a \div b \in Nat /\ b * (a \div b) <= a
  BY <1>1, <1>2, QuotientFits
<1>5. a = 0 => a \div b = 0
  BY <1>2, SMT
<1>6. n = a \div b
  <2>1. CASE e = 0 BY <2>1, <1>1, <1>3, <1>5
  <2>2. CASE e # 0 BY <2>2, <1>2, <1>3
  <2> QED BY <2>1, <2>2
<1>7. n \in Nat /\ b * n <= a
  BY <1>4, <1>6
<1>8. n * p * f = b * n
  BY <1>7, SMT DEF b, Fractions
<1> QED BY <1>6, <1>7, <1>8 DEF a, b, n

(* A richer book is suggested no fewer shares, nor is a lower price.       *)
LEMMA SuggestionsGrow ==
    ASSUME NEW e \in Nat, NEW d \in Nat, e <= d, NEW r \in Nat,
           NEW p \in Nat \ {0}, NEW s \in Nat \ {0}, s <= p, NEW f \in Fractions
    PROVE  Trade!SuggestedQuantity(e, p, f, r) <= Trade!SuggestedQuantity(d, s, f, r)
<1> DEFINE a == e * r
           c == d * r
           b == p * f
           h == s * f
           k == a \div b
<1>5. /\ Trade!SuggestedQuantity(e, p, f, r) = k
      /\ Trade!SuggestedQuantity(d, s, f, r) = c \div h
  BY SuggestedIsQuotient, ZenonT(40)
<1>1. a \in Nat /\ c \in Nat /\ a <= c
  BY ProductsGrow
<1>2. f \in Nat \ {0}
  BY DEF Fractions
<1>3. b \in Nat \ {0} /\ h \in Nat \ {0}
  BY <1>2, PositiveProduct
<1>4. h <= b
  BY <1>2, ProductsGrow
<1> HIDE DEF a, b, c, h
<1>6. k \in Nat /\ b * k <= a
  BY <1>1, <1>3, QuotientFits
<1> HIDE DEF k
<1>7. h * k \in Nat /\ b * k \in Nat /\ h * k <= b * k
  BY <1>3, <1>4, <1>6, ProductsGrow
<1>8. h * k <= c
  BY <1>1, <1>6, <1>7
<1>9. k <= c \div h
  BY <1>1, <1>3, <1>6, <1>8, QuotientIsLargest
<1> QED BY <1>5, <1>9

(* candidate.modify lowers a quantity to what is suggested, but not below 1.*)
LEMMA ModifiedTrade ==
    ASSUME NEW e \in Nat, NEW q \in Nat, NEW r \in Nat, NEW p \in Nat \ {0},
           NEW f \in Fractions
    PROVE  /\ Trade!ModifiedQuantity(e, q, p, f, r) \in Nat
           /\ Trade!ModifiedQuantity(e, q, p, f, r) <= q
           /\ \/ Trade!ModifiedQuantity(e, q, p, f, r) <= 1
              \/ Trade!ModifiedQuantity(e, q, p, f, r) <= Trade!SuggestedQuantity(e, p, f, r)
           /\ q <= Trade!SuggestedQuantity(e, p, f, r) \/ q <= 1
                => Trade!ModifiedQuantity(e, q, p, f, r) = q
           /\ q # 0 => Trade!ModifiedQuantity(e, q, p, f, r) # 0
<1> DEFINE s == Trade!SuggestedQuantity(e, p, f, r)
           k == IF s >= 1 THEN s ELSE 1
           n == Trade!ModifiedQuantity(e, q, p, f, r)
<1>1. s \in Nat /\ s = (e * r) \div (p * f)
  BY SuggestedIsQuotient, Zenon
<1>2. n = Trade!Min({q, Trade!Max({1, s})})
  BY <1>1 DEF Trade!ModifiedQuantity
<1> HIDE DEF s, n
<1>3. Trade!Max({1, s}) = k
  BY <1>1, SMT DEF Trade!Max
<1>4. k \in Nat /\ k >= 1 /\ k >= s /\ (k = 1 \/ k = s)
  BY <1>1
<1> HIDE DEF k
<1>5. Trade!Min({q, k}) = IF q <= k THEN q ELSE k
  BY <1>4, SMT DEF Trade!Min
<1>6. n = IF q <= k THEN q ELSE k
  BY <1>2, <1>3, <1>5
<1>7. /\ n \in Nat /\ n <= q /\ (n <= 1 \/ n <= s)
      /\ (q <= s \/ q <= 1 => n = q) /\ (q # 0 => n # 0)
  BY <1>1, <1>4, <1>6
<1> QED BY <1>7 DEF s, n

(* That is what a preview shows.                                           *)
LEMMA ShownIsSuggested ==
    ASSUME NEW e, NEW price, NEW m, NEW r
    PROVE  Trade!Preview(e, price, m, r).quantity
              = Trade!SuggestedQuantity(e, Trade!LastPrice(price), Trade!StopFraction(m), r)
BY DEF Trade!Preview

(* The limits in arithmetic.                                               *)
LEMMA WithinLimits ==
    ASSUME NEW e \in Nat, NEW n \in Nat, NEW p \in Nat, NEW f \in Nat
    PROVE  Trade!OverLimits(e, n, p, f) = {}
              <=> n # 0 /\ n * p * 100 <= e * 18 /\ n * p * f <= e * 100
<1> DEFINE L == {"buying_power_exceeded", "per_trade_risk_exceeded",
                 "concentration_exceeded", "zero_qty"}
           value == n * p
           risked == n * p * f
           power == value * 100 > e * 18
           risk == risked > e * 1 * 100
           share == value * 100 > e * 20
           zero == n = 0
<1>1. value \in Nat /\ risked \in Nat
  <2>1. n * p \in Nat
    BY SMT
  <2>2. \A x \in Nat : x * f \in Nat
    BY SMT
  <2> QED BY <2>1, <2>2
<1>2. Trade!OverLimits(e, n, p, f)
         = {limit \in L : \/ limit = "buying_power_exceeded" /\ power
                          \/ limit = "per_trade_risk_exceeded" /\ risk
                          \/ limit = "concentration_exceeded" /\ share
                          \/ limit = "zero_qty" /\ zero}
  BY DEF Trade!OverLimits, Trade!BuyingPower, Trade!PerTradeRisk, Trade!Concentration
<1>3. Trade!OverLimits(e, n, p, f) = {} <=> ~power /\ ~risk /\ ~share /\ ~zero
  <2> HIDE DEF power, risk, share, zero
  <2> QED BY <1>2
<1> HIDE DEF value, risked
<1>4. ~power /\ ~risk /\ ~share <=> value * 100 <= e * 18 /\ risked <= e * 100
  BY <1>1
<1> QED BY <1>3, <1>4 DEF value, risked

(* Fewer shares at a lower price, in a richer book, are within the limits. *)
LEMMA LimitsGrow ==
    ASSUME NEW e \in Nat, NEW d \in Nat, e <= d, NEW p \in Nat \ {0}, NEW s \in Nat \ {0}, s <= p,
           NEW q \in Nat, NEW n \in Nat \ {0}, n <= q, NEW f \in Fractions,
           Trade!OverLimits(e, q, p, f) = {}
    PROVE  Trade!OverLimits(d, n, s, f) = {}
<1> USE DEF Fractions
<1> DEFINE v == n * s
           u == q * p
           w == v * f
           z == u * f
<1>1. u * 100 <= e * 18 /\ z <= e * 100
  BY WithinLimits
<1>2. v \in Nat /\ u \in Nat /\ v <= u
  BY ProductsGrow
<1> HIDE DEF v, u
<1>3. w \in Nat /\ z \in Nat /\ w <= z
  BY <1>2, ProductsGrow
<1> HIDE DEF w, z
<1>4. v * 100 <= d * 18 /\ w <= d * 100
  BY <1>1, <1>2, <1>3
<1> QED BY <1>4, WithinLimits DEF v, w

(* What is within the limits at a price is but for a fifth at a higher one.*)
LEMMA FifthOver ==
    ASSUME NEW e \in Nat, NEW n \in Nat, NEW r \in Nat, NEW p \in Nat \ {0},
           NEW s \in Nat \ {0}, 5 * p <= 6 * s, NEW f \in Fractions
    PROVE  /\ Trade!OverLimits(e, n, s, f) = {} => Trade!OverLimits(6 * e, 5 * n, p, f) = {}
           /\ n * s * f <= e * r => 5 * n * p * f <= 6 * e * r
<1> USE DEF Fractions
<1> DEFINE v == n * s
           u == (5 * n) * p
           w == v * f
           z == u * f
           a == e * r
<1>1. v \in Nat /\ u \in Nat /\ u <= 6 * v
  <2>1. n * (5 * p) <= n * (6 * s)
    BY ProductsGrow
  <2>2. u = n * (5 * p) /\ n * (6 * s) = 6 * v
    BY SMT
  <2>3. v \in Nat /\ u \in Nat
    BY ProductsGrow
  <2> QED BY <2>1, <2>2, <2>3
<1> HIDE DEF v, u
<1>2. w \in Nat /\ z \in Nat /\ z <= 6 * w
  <2>1. u * f <= (6 * v) * f
    BY <1>1, ProductsGrow
  <2>2. (6 * v) * f = 6 * w
    BY <1>1, SMT
  <2>3. w \in Nat /\ z \in Nat
    BY <1>1, ProductsGrow
  <2> QED BY <2>1, <2>2, <2>3
<1>3. Trade!OverLimits(e, n, s, f) = {} => Trade!OverLimits(6 * e, 5 * n, p, f) = {}
  <2> SUFFICES ASSUME Trade!OverLimits(e, n, s, f) = {}
               PROVE  Trade!OverLimits(6 * e, 5 * n, p, f) = {}
    OBVIOUS
  <2>1. n # 0 /\ v * 100 <= e * 18 /\ w <= e * 100
    BY WithinLimits DEF v, w
  <2> HIDE DEF w, z
  <2>2. 5 * n # 0 /\ u * 100 <= (6 * e) * 18 /\ z <= (6 * e) * 100
    BY <1>1, <1>2, <2>1
  <2> QED BY <2>2, WithinLimits DEF u, z
<1>4. n * s * f <= e * r => 5 * n * p * f <= 6 * e * r
  <2>1. a \in Nat /\ 6 * e * r = 6 * a
    BY SMT
  <2> HIDE DEF w, z, a
  <2>2. w <= a => z <= 6 * a
    BY <1>2, <2>1
  <2> QED BY <2>1, <2>2 DEF v, u, w, z, a
<1> QED BY <1>3, <1>4

(* What is known of a modification of a preview.                           *)
LEMMA SizesAreNumbers ==
    ASSUME NEW before \in Previews, NEW d \in Equities,
           NEW q \in Quantities \cup {before.shown.quantity},
           NEW stop \in Stops \cup {before.stop}
    PROVE  LET p == Trade!LastPrice(before.price)
               f == Trade!StopFraction(before.method)
           IN  /\ before.equity \in Nat /\ d \in Nat /\ before.risk \in Nat
               /\ p \in Nat \ {0} /\ f \in Fractions
               /\ before.stop \in Trade!StopPrices(p, f) /\ before.stop \in Nat \ {0}
               /\ Trade!LastPrice(before.stop) = before.stop
               /\ Trade!LastPrice(stop) \in Nat \ {0}
               /\ before.shown.quantity
                     = Trade!SuggestedQuantity(before.equity, p, f, before.risk)
               /\ before.shown.quantity \in Nat /\ q \in Nat
<1> DEFINE p == Trade!LastPrice(before.price)
           f == Trade!StopFraction(before.method)
<1>1. before.equity \in Nat /\ d \in Nat /\ before.risk \in Nat
  BY PreviewFields, DecisionRulesAssumption
<1>2. before.price \in Nat \cup {None}
  BY PreviewFields, DecisionRulesAssumption
<1>3. p \in Nat \ {0}
  BY <1>2, LastPriceIs
<1>4. f \in Fractions
  BY StopDistance
<1>5. before.stop \in Trade!StopPrices(p, f)
  BY PreviewFields DEF StopsShown
<1>6. before.shown.quantity = Trade!SuggestedQuantity(before.equity, p, f, before.risk)
  BY PreviewFields, ShownIsSuggested
<1> HIDE DEF p, f
<1>7. before.stop \in Nat \ {0}
  BY <1>3, <1>4, <1>5, StopIsNear
<1>8. Trade!LastPrice(before.stop) = before.stop
  BY <1>7, LastPriceIs
<1>9. Trade!LastPrice(stop) \in Nat \ {0}
  <2>1. stop \in Nat \cup {None}
    BY <1>7, DecisionRulesAssumption
  <2> QED BY <2>1, LastPriceIs
<1>10. before.shown.quantity \in Nat
  <2>1. Trade!SuggestedQuantity(before.equity, p, f, before.risk) \in Nat
    BY <1>1, <1>3, <1>4, SuggestedIsQuotient, Zenon
  <2> QED BY <2>1, <1>6
<1>11. q \in Nat
  BY <1>10, DecisionRulesAssumption
<1> QED BY <1>1, <1>3, <1>4, <1>5, <1>6, <1>7, <1>8, <1>9, <1>10, <1>11 DEF p, f

(* A preview suggests a number of shares.                                  *)
LEMMA PreviewQuantity == ASSUME NEW x \in Previews PROVE x.shown.quantity \in Nat
<1>1. x.equity \in Nat /\ x.risk \in Nat /\ x.price \in Nat \cup {None}
  BY PreviewFields, DecisionRulesAssumption
<1>2. x.shown.quantity
        = Trade!SuggestedQuantity(x.equity, Trade!LastPrice(x.price),
                                  Trade!StopFraction(x.method), x.risk)
  BY PreviewFields, ShownIsSuggested
<1>3. /\ Trade!LastPrice(x.price) \in Nat \ {0}
      /\ Trade!StopFraction(x.method) \in Fractions
  BY <1>1, LastPriceIs, StopDistance
<1>4. Trade!SuggestedQuantity(x.equity, Trade!LastPrice(x.price),
                              Trade!StopFraction(x.method), x.risk) \in Nat
  BY ONLY <1>1, <1>3, SuggestedIsQuotient, ZenonT(40)
<1> QED BY <1>2, <1>4

(* For every equity, price, risk, quantity and stop: at the stop shown what*)
(* is within the limits of the preview is not refused, and booked to the   *)
(* share if it is no more than suggested, by a book that is no poorer, and *)
(* what is accepted is within these limits but for a fifth; at any stop the*)
(* cap is what a preview at that price would suggest.                      *)
THEOREM PreviewsAreKept == Spec => []PreviewForetellsModify
<1>1. IInv => PreviewForetellsModify
  <2> SUFFICES ASSUME NEW before \in Previews, NEW d \in Equities,
                      NEW q \in Quantities \cup {before.shown.quantity},
                      NEW stop \in Stops \cup {before.stop},
                      evaluation = ModifyOf(before, d, q, stop)
               PROVE  PreviewForetellsModify
    <3> SUFFICES ASSUME IInv, evaluation.of = "modify" PROVE PreviewForetellsModify
      BY DEF PreviewForetellsModify
    <3>1. PICK before \in Previews, d \in Equities :
            \E q \in Quantities \cup {before.shown.quantity}, stop \in Stops \cup {before.stop} :
               evaluation = ModifyOf(before, d, q, stop)
      BY PreviewFields DEF IInv, ScorecardOf, ReviewOf
    <3> QED BY <3>1
  <2> DEFINE e == before.equity
             r == before.risk
             p == Trade!LastPrice(before.price)
             f == Trade!StopFraction(before.method)
             last == Trade!LastPrice(stop)
             cap == Trade!SuggestedQuantity(d, last, f, r)
             n == Trade!ModifiedQuantity(d, q, last, f, r)
             answer == Trade!Modification(d, q, stop, before.method, r)
  <2>1. /\ evaluation.previewed = before /\ evaluation.equity = d /\ evaluation.quantity = q
        /\ evaluation.stop = stop /\ evaluation.answer = answer
    BY DEF ModifyOf
  <2>2. /\ e \in Nat /\ d \in Nat /\ r \in Nat /\ p \in Nat \ {0} /\ f \in Fractions
        /\ before.stop \in Trade!StopPrices(p, f) /\ last \in Nat \ {0}
        /\ before.shown.quantity = Trade!SuggestedQuantity(e, p, f, r)
        /\ before.shown.quantity \in Nat /\ q \in Nat
        /\ stop = before.stop => last = stop
    BY SizesAreNumbers
  <2>3. answer = [quantity |-> n, accepted |-> Trade!OverLimits(d, n, last, f) = {}]
    BY DEF Trade!Modification
  <2>4. WithinShownLimits(before, q) <=> Trade!OverLimits(e, q, p, f) = {}
    BY DEF WithinShownLimits
  <2>5. NearlyWithinLimits(before, d, n)
          <=> /\ Trade!OverLimits(6 * d, 5 * n, p, f) = {}
              /\ n > 1 => 5 * n * p * f <= 6 * d * r
    BY DEF NearlyWithinLimits
  <2>6. Trade!Preview(d, stop, before.method, r).quantity = cap
    BY ShownIsSuggested
  <2> HIDE DEF e, r, p, f, last, cap, n, answer
  <2>7. /\ n \in Nat /\ n <= q /\ (n <= 1 \/ n <= cap)
        /\ (q <= cap \/ q <= 1 => n = q) /\ (q # 0 => n # 0)
    <3>1. d \in Nat /\ q \in Nat /\ r \in Nat /\ last \in Nat \ {0} /\ f \in Fractions
      BY <2>2
    <3> QED BY <3>1, ModifiedTrade, ZenonT(40) DEF n, cap
  <2>8. cap \in Nat /\ cap * last * f <= d * r
    BY <2>2, SuggestedIsQuotient, Zenon DEF cap
  <2>9. stop = before.stop => last <= p /\ 5 * p <= 6 * last
    BY <2>2, StopIsNear
  <2>10. stop = before.stop /\ WithinShownLimits(before, q) /\ d >= e =>
           answer.accepted /\ (q <= before.shown.quantity => answer.quantity = q)
    <3> SUFFICES ASSUME stop = before.stop, WithinShownLimits(before, q), d >= e
                 PROVE  answer.accepted /\ (q <= before.shown.quantity => answer.quantity = q)
      OBVIOUS
    <3>1. e <= d /\ last <= p
      BY <2>2, <2>9
    <3>2. n # 0
      BY <2>2, <2>4, <2>7, WithinLimits DEF Fractions
    <3>3. Trade!OverLimits(d, n, last, f) = {}
      <4>1. n \in Nat \ {0} /\ n <= q /\ Trade!OverLimits(e, q, p, f) = {}
        BY <2>4, <2>7, <3>2
      <4>2. /\ e \in Nat /\ d \in Nat /\ p \in Nat \ {0} /\ last \in Nat \ {0}
            /\ q \in Nat /\ f \in Fractions
        BY <2>2
      <4> QED BY ONLY <3>1, <4>1, <4>2, LimitsGrow, SMTT(30)
    <3>4. before.shown.quantity <= cap
      <4>1. Trade!SuggestedQuantity(e, p, f, r) <= Trade!SuggestedQuantity(d, last, f, r)
        BY <2>2, <3>1, SuggestionsGrow, Zenon
      <4> QED BY <2>2, <4>1 DEF cap
    <3>5. q <= before.shown.quantity => n = q
      BY <2>2, <2>7, <2>8, <3>4
    <3> QED BY <2>3, <3>3, <3>5
  <2>11. stop = before.stop /\ answer.accepted => NearlyWithinLimits(before, d, n)
    <3> SUFFICES ASSUME stop = before.stop, Trade!OverLimits(d, n, last, f) = {}
                 PROVE  NearlyWithinLimits(before, d, n)
      BY <2>3
    <3>1. /\ Trade!OverLimits(6 * d, 5 * n, p, f) = {}
          /\ n * last * f <= d * r => 5 * n * p * f <= 6 * d * r
      <4>1. /\ d \in Nat /\ n \in Nat /\ r \in Nat /\ p \in Nat \ {0} /\ last \in Nat \ {0}
            /\ 5 * p <= 6 * last /\ f \in Fractions
        BY <2>2, <2>7, <2>9
      <4> QED BY <4>1, FifthOver, ZenonT(40)
    <3>2. n > 1 => n * last * f <= d * r
      <4> SUFFICES ASSUME n > 1 PROVE n * last * f <= d * r
        OBVIOUS
      <4>1. n <= cap
        BY <2>7, <2>8
      <4> DEFINE v == n * last
                 u == cap * last
      <4>2. v \in Nat /\ u \in Nat /\ v <= u
        BY <2>2, <2>7, <2>8, <4>1, ProductsGrow
      <4> HIDE DEF v, u
      <4> DEFINE w == v * f
                 z == u * f
                 a == d * r
      <4>3. w \in Nat /\ z \in Nat /\ w <= z
        BY <2>2, <4>2, ProductsGrow DEF Fractions
      <4>4. z <= a
        BY <2>8 DEF u
      <4>5. a \in Nat
        BY <2>2, ProductsGrow
      <4> HIDE DEF w, z, a
      <4>6. w <= a
        BY <4>3, <4>4, <4>5
      <4> QED BY <4>6 DEF w, v, a
    <3> QED BY <2>5, <3>1, <3>2
  <2>12. answer.accepted /\ answer.quantity > 1 => answer.quantity <= cap
    BY <2>3, <2>7, <2>8
  <2>13. before.method = "atr_2_0" /\ r = 50 =>
           Trade!TodaysSize(e, before.price) = before.shown.quantity
    BY <2>2 DEF f, p, Trade!TodaysSize, Trade!RowSize
  <2>14. answer.quantity = n
    BY <2>3
  <2> QED BY <2>1, <2>6, <2>10, <2>11, <2>12, <2>13, <2>14 DEF PreviewForetellsModify, e, r
<1> QED BY <1>1, InductiveInvariant, PTL

-----------------------------------------------------------------------------
(* TypeOK: the advice and the total of a scorecard are within their types, *)
(* whatever the weights, and every review decides something.               *)
THEOREM RulesAreTyped == Spec => []TypeOK
<1>1. IInv => TypeOK
  <2> SUFFICES ASSUME IInv PROVE TypeOK
    OBVIOUS
  <2>1. CASE evaluation = [of |-> "nothing"]
    BY <2>1 DEF TypeOK
  <2>2. ASSUME NEW f \in FactsBundle, NEW p \in PortfolioContext,
               evaluation = ScorecardOf(f, p)
        PROVE  TypeOK
    <3>1. TotalScore(f, p) \in 0..10000
      <4> DEFINE t == TotalScore(f, p)
                 k == Ceiling(p.regime)
      <4>1. t \in Nat /\ t <= k
        BY TotalInRange
      <4>2. k \in Nat /\ k <= 9500
        BY DEF Ceiling
      <4> HIDE DEF t, k
      <4>3. t <= 10000
        BY <4>1, <4>2
      <4>4. t \in 0..10000
        BY <4>1, <4>3
      <4> QED BY <4>4 DEF t
    <3>2. Recommendation(TotalScore(f, p), p.held, DataFails(f)) \in Recommendations
      BY DEF Recommendation, Recommendations
    <3>3. Scorecard(f, p) \in Card
      BY <3>1, <3>2 DEF Scorecard, Card
    <3>4. evaluation.of = "scorecard" /\ evaluation.card = Scorecard(f, p)
      BY <2>2 DEF ScorecardOf
    <3> QED BY <3>3, <3>4 DEF TypeOK
  <2>3. ASSUME NEW m \in Books, NEW p \in Policies, NEW halted \in BOOLEAN,
               evaluation = ReviewOf(m, p, halted)
        PROVE  TypeOK
    <3>1. Decide(LimitsOf(m, p), p, halted) # {}
      BY Zenon DEF Decide
    <3>2. Posture(LimitsOf(m, p), p, halted) \in {"ready", "elevated", "halt"}
      BY DEF Posture
    <3>3. /\ evaluation.of = "review"
          /\ evaluation.result.decisions = Decide(LimitsOf(m, p), p, halted)
          /\ evaluation.result.posture = Posture(LimitsOf(m, p), p, halted)
      BY <2>3 DEF ReviewOf, Review, LimitsOf
    <3> QED BY <3>1, <3>2, <3>3 DEF TypeOK
  <2>4. CASE evaluation \in Previews
    <3>1. evaluation.of = "preview" /\ evaluation.equity \in Nat /\ evaluation.risk \in Nat
      BY <2>4, PreviewFields, DecisionRulesAssumption
    <3>2. evaluation.shown.quantity \in Nat
      BY <2>4, <3>1, PreviewQuantity
    <3> QED BY <3>1, <3>2 DEF TypeOK
  <2>5. ASSUME NEW before \in Previews, NEW d \in Equities,
               NEW q \in Quantities \cup {before.shown.quantity},
               NEW stop \in Stops \cup {before.stop},
               evaluation = ModifyOf(before, d, q, stop)
        PROVE  TypeOK
    <3>1. /\ evaluation.of = "modify"
          /\ evaluation.answer = Trade!Modification(d, q, stop, before.method, before.risk)
      BY <2>5 DEF ModifyOf
    <3> DEFINE f == Trade!StopFraction(before.method)
               last == Trade!LastPrice(stop)
               n == Trade!ModifiedQuantity(d, q, last, f, before.risk)
    <3>2. evaluation.answer.quantity = n
      BY <3>1 DEF Trade!Modification
    <3>3. /\ d \in Nat /\ q \in Nat /\ before.risk \in Nat /\ last \in Nat \ {0}
          /\ f \in Fractions
      BY SizesAreNumbers
    <3> HIDE DEF f, last
    <3>4. n \in Nat
      BY <3>3, ModifiedTrade, Zenon
    <3> HIDE DEF n
    <3> QED BY <3>1, <3>2, <3>4 DEF TypeOK
  <2> QED BY <2>1, <2>2, <2>3, <2>4, <2>5 DEF IInv
<1> QED BY <1>1, InductiveInvariant, PTL
=============================================================================
