--------------------------- MODULE MCDecisionRules ---------------------------
(***************************************************************************)
(* Inputs for DecisionRules: a strong, a weak, a sparse and an unranged    *)
(* symbol, each with any one reading at either side of a threshold or      *)
(* missing, in portfolios on both sides of each threshold; and books of    *)
(* three positions in two sectors with every measure within, near and over *)
(* its limit.                                                              *)
(***************************************************************************)
EXTENDS DecisionRules, TLC

CONSTANTS p1, p2, p3, k1, k2

MCSectorOf == (p1 :> k1) @@ (p2 :> k1) @@ (p3 :> k2)

(* Every component at its best.                                            *)
Strong == [trend |-> 40, bias |-> 1, macd |-> 1, quality |-> 1, rsi |-> 59, last |-> 1,
           atr |-> 15, bollinger |-> 5, volatility |-> 5, volume |-> 15, benchmark |-> 6,
           change |-> 2, spyChange |-> 1, pe |-> 40, debt |-> 50, margin |-> 0, yield |-> 0,
           earnings |-> None, buys |-> 4, sells |-> 0, attention |-> None]

Weak == [Strong EXCEPT !.trend = 1, !.bias = -1, !.macd = -1, !.quality = -1, !.rsi = 70,
                       !.atr = 41, !.volume = 21, !.benchmark = -5, !.pe = 101,
                       !.earnings = 14, !.buys = 0, !.sells = 1, !.attention = 31]

Sparse == [Strong EXCEPT !.rsi = None, !.macd = None, !.volume = None, !.atr = None,
                         !.trend = None, !.quality = None, !.benchmark = None,
                         !.pe = None, !.debt = None, !.margin = None, !.yield = None]

(* Neither ATR nor Bollinger width, and data enough to be scored.          *)
Unranged == [Strong EXCEPT !.atr = None, !.bollinger = None]

Readings ==
    [trend |-> {None, 0, 1, 19, 20, 39}, bias |-> {None, 0}, macd |-> {None, 0},
     quality |-> {None, 0}, rsi |-> {None, 30, 31, 60, 69}, last |-> {None},
     atr |-> {None, 0, 16, 25, 26, 40}, bollinger |-> {None, 6, 20, 21, 50, 51},
     volatility |-> {None, 6, 10, 11, 15, 16}, volume |-> {None, 5, 6, 16, 20},
     benchmark |-> {None, 5, 2, 1, 0, -1, -4}, change |-> {None, -1, 1, 3},
     spyChange |-> {None, 0, 4}, pe |-> {None, -1, 100}, debt |-> {None, 51},
     margin |-> {None, -51}, yield |-> {None, -21}, earnings |-> {0, 15, -2, -3},
     buys |-> {1, 2}, sells |-> {0, 3, 5}, attention |-> {0, 20, 21, 30}]

MCBundles ==
    UNION {{[b EXCEPT ![r] = v] : v \in Readings[r] \cup {b[r]}} :
              b \in {Strong, Weak, Sparse, Unranged}, r \in DOMAIN Readings}

Holding == [regime |-> "RISK_ON", equity |-> 100, cash |-> 50, count |-> 1, held |-> TRUE,
            value |-> 12, cost |-> 100, price |-> 115, maxPositions |-> 10, maxPercent |-> 25]

MCPortfolios ==
    {Holding, [Holding EXCEPT !.value = 13], [Holding EXCEPT !.value = 26],
     [Holding EXCEPT !.price = 0], [Holding EXCEPT !.price = 95], [Holding EXCEPT !.price = 85],
     [Holding EXCEPT !.cost = 0], [Holding EXCEPT !.equity = 0]}
    \cup {[Holding EXCEPT !.held = FALSE, !.count = n, !.cash = c] :
             n \in {0, 10}, c \in {0, 20, 21, 50, 51}}

Default == [grossCap |-> 9000, varBudget |-> 400, drawdownLimit |-> -1000,
            sectorCap |-> 7000, singleCap |-> 2500, warnThreshold |-> 8500]

MCPolicies ==
    {Default, [Default EXCEPT !.singleCap = 2000, !.warnThreshold = 0],
     [Default EXCEPT !.sectorCap = 5000, !.varBudget = 300, !.drawdownLimit = -500],
     [Default EXCEPT !.grossCap = 20000, !.drawdownLimit = 0],
     [Default EXCEPT !.grossCap = 20000, !.sectorCap = 10000, !.singleCap = 10000]}

MCBooks ==
    {[weight |-> w, var |-> v, drawdown |-> d[1], maxDrawdown |-> d[2]] :
        w \in [Positions -> {-1000, 0, 2000, 2125, 2500, 2501, 4600}],
        v \in {0, 340, 401}, d \in {<<0, 0>>, <<0, -900>>, <<-400, -1001>>}}

(* In cents, around what one, two and five shares cost, risk and are       *)
(* limited to; and ten thousand, where the preview suggests 7 shares and   *)
(* 8 are accepted at its stop.                                             *)
MCEquities == {0, 49900, 50000, 55500, 55600, 82500, 131900, 132000, 264000, 1000000}

(* No position, a price where rounding weighs most, one whose stop falls   *)
(* on half a cent, and one that is no round number.                        *)
MCPrices == {None, 7, 200, 12345}

(* None, below the default price and above every price.                    *)
MCStops == {None, 9340, 20000}
=============================================================================
