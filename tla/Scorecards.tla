----------------------------- MODULE Scorecards ------------------------------
(***************************************************************************)
(* The scorecard engine, application/scorecards.py: thirteen component     *)
(* scores from the facts about a symbol and the portfolio, the gates on    *)
(* them, their weighted total and the recommendation.  Reasons, metrics    *)
(* and hashes are left out, and so is the state of every component but     *)
(* data_quality: no later step reads it.                                   *)
(*                                                                         *)
(* A component score is an integer, which is what the scorers return for   *)
(* integer inputs; after the gates it is in tenths, and a total is in      *)
(* hundredths, as the code rounds them.  A reading is an integer or None   *)
(* where Alpha-Lake has none.                                              *)
(***************************************************************************)
EXTENDS Integers, FiniteSets

CONSTANTS
    None,
    Weights     \* the weight of each component after a policy's overrides

Components ==
    {"technical_trend", "momentum", "volatility", "participation",
     "relative_strength", "fundamentals", "event_risk", "insider_activity",
     "attention_crowding", "portfolio_fit", "position_risk", "cash_impact",
     "data_quality"}

ASSUME ScorecardsAssumption ==
    /\ None \notin Int
    /\ Weights \in [Components -> Int]

(* _COMPONENT_WEIGHTS, in hundredths.                                      *)
ComponentWeights ==
    [technical_trend |-> 15, momentum |-> 12, volatility |-> 8,
     participation |-> 6, relative_strength |-> 10, fundamentals |-> 12,
     event_risk |-> 8, insider_activity |-> 6, attention_crowding |-> 5,
     portfolio_fit |-> 6, position_risk |-> 6, cash_impact |-> 4,
     data_quality |-> 2]

Regimes == {"RISK_ON", "CAUTION", "RISK_OFF"}

Reading == Int \cup {None}

FactsBundle ==
    [trend : Reading,       \* trend.regime
     bias : Reading,        \* directional_bias
     macd : Reading,        \* macd_cross
     quality : Reading,
     rsi : Reading,         \* rsi_14
     last : Reading,
     atr : Reading,         \* atr_percent, in tenths of a per cent
     bollinger : Reading,   \* bollinger_width, in hundredths
     volatility : Reading,  \* volatility.regime, in tenths
     volume : Reading,      \* rvol, in tenths
     benchmark : Reading,   \* relative_strength.vs_benchmark, per cent
     change : Reading,      \* change_pct of the symbol, per cent
     spyChange : Reading,   \* change_pct of SPY, per cent
     pe : Reading,
     debt : Reading,        \* debt_to_equity_ttm, in tenths
     margin : Reading,      \* gross_margin_ttm, per cent
     yield : Reading,       \* earnings_yield_ttm, per cent
     earnings : Reading,    \* days to the nearest earnings event in the window
     buys : Nat, sells : Nat,  \* insider transactions
     attention : Reading]   \* z-score of the latest mentions, in tenths

PortfolioContext ==
    [regime : Regimes, equity : Int, cash : Int, count : Nat,
     held : BOOLEAN,        \* the symbol is in positions
     value : Int,           \* its market_value
     cost : Int, price : Int,
     maxPositions : Nat, maxPercent : Nat]

Least(x, y) == IF x < y THEN x ELSE y
Greatest(x, y) == IF x < y THEN y ELSE x

(* round(): to the nearest, halves up.  Two halves that binary floating    *)
(* point rounds down, 34.65 and 47.25, only arise from poor data under     *)
(* CAUTION, where the recommendation does not depend on the total.         *)
RoundDiv(n, d) == (2 * n + d) \div (2 * d)

-----------------------------------------------------------------------------
(* The component scorers *)

TechnicalTrend(f) ==
    LET regime ==
            IF f.trend = None THEN 50
            ELSE IF f.trend >= 40 THEN 70
            ELSE IF f.trend >= 20 THEN 55
            ELSE IF f.trend > 0 THEN 40
            ELSE 50
    IN  IF f.bias = None THEN regime
        ELSE IF f.bias > 0 THEN Least(regime + 10, 95)
        ELSE IF f.bias < 0 THEN Greatest(regime - 15, 10)
        ELSE regime

Momentum(f) ==
    LET cross ==
            IF f.macd = None THEN 50
            ELSE IF f.macd > 0 THEN 70
            ELSE IF f.macd < 0 THEN 30
            ELSE 45
        consensus ==
            IF f.quality = None THEN cross
            ELSE IF f.quality > 0 THEN Least(cross + 15, 95)
            ELSE IF f.quality < 0 THEN Greatest(cross - 10, 10)
            ELSE cross
    IN  IF f.rsi = None THEN consensus
        ELSE IF f.rsi >= 70 THEN Least(consensus, 30)
        ELSE IF f.rsi >= 60 THEN (consensus * 8 + 70 * 2) \div 10
        ELSE IF f.rsi <= 30 THEN Least(consensus, 20)
        ELSE consensus

(* The Bollinger width counts where there is no ATR, and the regime where  *)
(* there is neither.                                                       *)
Volatility(f) ==
    IF f.atr # None /\ f.atr > 0
      THEN IF f.atr > 40 THEN 10
           ELSE IF f.atr > 25 THEN 30
           ELSE IF f.atr > 15 THEN 60
           ELSE 85
    ELSE IF f.bollinger # None
      THEN IF f.bollinger > 50 THEN 15
           ELSE IF f.bollinger > 20 THEN 40
           ELSE IF f.bollinger > 5 THEN 70
           ELSE 85
    ELSE IF f.volatility # None
      THEN IF f.volatility > 15 THEN 20
           ELSE IF f.volatility > 10 THEN 45
           ELSE IF f.volatility > 5 THEN 65
           ELSE 80
    ELSE 50

Participation(f) ==
    IF f.volume = None THEN 50
    ELSE IF f.volume > 20 THEN 20
    ELSE IF f.volume > 15 THEN 60
    ELSE IF f.volume > 5 THEN 80
    ELSE 30

(* Without the benchmark readout, today's change against SPY's; a SPY      *)
(* change of zero counts as missing.                                       *)
RelativeStrength(f) ==
    IF f.benchmark # None
      THEN IF f.benchmark > 5 THEN 90
           ELSE IF f.benchmark > 1 THEN 70
           ELSE IF f.benchmark > -1 THEN 50
           ELSE IF f.benchmark > -5 THEN 30
           ELSE 10
    ELSE IF f.change # None /\ f.spyChange # None /\ f.spyChange # 0
      THEN IF f.change - f.spyChange > 1 THEN 70
           ELSE IF f.change - f.spyChange > -1 THEN 50
           ELSE 30
    ELSE 50

Fundamentals(f) ==
    LET failed == \/ f.pe # None /\ f.pe > 100
                  \/ f.debt # None /\ f.debt > 50
                  \/ f.margin # None /\ f.margin < -50
                  \/ f.yield # None /\ f.yield < -20
    IN  IF f.pe = None /\ f.debt = None /\ f.margin = None /\ f.yield = None THEN 35
        ELSE IF failed THEN 20
        ELSE 70

(* 14 days of blackout before an earnings event, two days after it.        *)
EventRisk(f) ==
    IF f.earnings = None THEN 90
    ELSE IF f.earnings \in 0..14 THEN 10
    ELSE IF f.earnings \in -2..-1 THEN 40
    ELSE 90

(* The net ratio times a fifth of the transactions is a fifth of the net.  *)
InsiderActivity(f) ==
    IF f.buys + f.sells = 0 THEN 50
    ELSE IF f.buys <= f.sells THEN 20
    ELSE Least(85, 50 + 10 * (f.buys - f.sells))

AttentionCrowding(f) ==
    IF f.attention = None THEN 80
    ELSE IF f.attention > 30 THEN 10
    ELSE IF f.attention > 20 THEN 35
    ELSE 70

PortfolioFit(p) ==
    IF ~p.held \/ p.equity <= 0
      THEN IF p.count >= p.maxPositions THEN 20 ELSE 80
    ELSE IF p.value * 100 > p.maxPercent * p.equity THEN 15
    ELSE IF p.value * 200 > p.maxPercent * p.equity THEN 50
    ELSE 80

(* A price of zero is taken for a missing one.                             *)
PositionRisk(p) ==
    LET price == IF p.price = 0 THEN p.cost ELSE p.price
        gain == 100 * (price - p.cost)
    IN  IF ~p.held \/ p.cost <= 0 THEN 50
        ELSE IF gain <= -15 * p.cost THEN 10
        ELSE IF gain <= -5 * p.cost THEN 35
        ELSE IF gain >= 15 * p.cost THEN 80
        ELSE 60

(* The share of the cash that a tenth of the equity would take.            *)
CashImpact(p) ==
    LET size == Least(10 * p.cash, p.equity)
    IN  IF p.held THEN 80
        ELSE IF p.cash <= 0 THEN 10
        ELSE IF 10 * size >= 50 * p.cash THEN 70
        ELSE IF 10 * size >= 20 * p.cash THEN 50
        ELSE 30

(* The readouts whose presence data_quality counts.                        *)
Expected(f) == <<f.last, f.rsi, f.macd, f.volume, f.atr, f.bollinger>>

Present(f) == Cardinality({i \in 1..6 : Expected(f)[i] # None})

DataQuality(f) ==
    IF 100 * Present(f) >= 80 * 6 THEN 90
    ELSE IF 100 * Present(f) >= 50 * 6 THEN 50
    ELSE 10

DataFails(f) == 100 * Present(f) < 50 * 6

(* The scorers of generate_scorecards, in tenths.                          *)
Scores(f, p) ==
    [technical_trend |-> 10 * TechnicalTrend(f), momentum |-> 10 * Momentum(f),
     volatility |-> 10 * Volatility(f), participation |-> 10 * Participation(f),
     relative_strength |-> 10 * RelativeStrength(f),
     fundamentals |-> 10 * Fundamentals(f), event_risk |-> 10 * EventRisk(f),
     insider_activity |-> 10 * InsiderActivity(f),
     attention_crowding |-> 10 * AttentionCrowding(f),
     portfolio_fit |-> 10 * PortfolioFit(p), position_risk |-> 10 * PositionRisk(p),
     cash_impact |-> 10 * CashImpact(p), data_quality |-> 10 * DataQuality(f)]

-----------------------------------------------------------------------------
(* Gates, total and recommendation *)

(* One gate: a score is cut to so many tenths, and not below 5.            *)
Cut(score, tenths) == Greatest(RoundDiv(score * tenths, 10), 50)

(* RISK_OFF cuts before poor data does, CAUTION after it.                  *)
Gated(score, regime, fails) ==
    LET off == IF regime = "RISK_OFF" THEN Cut(score, 8) ELSE score
        poor == IF fails THEN Cut(off, 7) ELSE off
    IN  IF regime = "CAUTION" THEN Cut(poor, 9) ELSE poor

(* Mutant: the multiplier of CAUTION is missing from the table, and its    *)
(* default is one.                                                         *)
MultiplierWithoutCaution(regime) == IF regime = "RISK_OFF" THEN 2 ELSE 10

(* Mutant: the multipliers of CAUTION and RISK_OFF are swapped.            *)
MultiplierSwapped(regime) ==
    IF regime = "RISK_ON" THEN 10 ELSE IF regime = "CAUTION" THEN 2 ELSE 6

(* REGIME_MULTIPLIERS, in tenths.                                          *)
Multiplier(regime) ==
    IF regime = "RISK_ON" THEN 10 ELSE IF regime = "CAUTION" THEN 6 ELSE 2

Sum(v) ==
    v.technical_trend + v.momentum + v.volatility + v.participation
        + v.relative_strength + v.fundamentals + v.event_risk
        + v.insider_activity + v.attention_crowding + v.portfolio_fit
        + v.position_risk + v.cash_impact + v.data_quality

(* A weight that is not positive leaves its component out.                 *)
Weight == [c \in Components |-> Greatest(Weights[c], 0)]

(* Mutant: the sum is not divided by the weights.                          *)
TotalScoreUndivided(f, p) ==
    LET scores == Scores(f, p)
        effective == [c \in Components |->
                        Gated(scores[c], p.regime, DataFails(f)) * Multiplier(p.regime)]
    IN  Sum([c \in Components |-> effective[c] * Weight[c]])

TotalScore(f, p) ==
    LET scores == Scores(f, p)
        effective == [c \in Components |->
                        Gated(scores[c], p.regime, DataFails(f)) * Multiplier(p.regime)]
    IN  IF Sum(Weight) = 0 THEN 0
        ELSE RoundDiv(Sum([c \in Components |-> effective[c] * Weight[c]]), Sum(Weight))

(* Mutant: the thresholds are looked at before the data.                   *)
RecommendationScoreFirst(total, held, fails) ==
    IF total >= 7500 THEN IF held THEN "add" ELSE "consider_entry"
    ELSE IF total >= 5500 THEN IF held THEN "hold" ELSE "watch"
    ELSE IF total < 2500 /\ held THEN "reduce"
    ELSE "do_nothing"

Recommendation(total, held, fails) ==
    IF fails THEN "do_nothing"
    ELSE IF total >= 7500 THEN IF held THEN "add" ELSE "consider_entry"
    ELSE IF total >= 5500 THEN IF held THEN "hold" ELSE "watch"
    ELSE IF total < 2500 /\ held THEN "reduce"
    ELSE "do_nothing"

Scorecard(f, p) ==
    [total |-> TotalScore(f, p),
     recommendation |-> Recommendation(TotalScore(f, p), p.held, DataFails(f))]
=============================================================================
