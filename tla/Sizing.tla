-------------------------------- MODULE Sizing --------------------------------
(***************************************************************************)
(* How many shares a trade may have: the preview the console shows and the *)
(* checks of candidate.modify, which compute the same thing twice in two   *)
(* files.  Money is in cents, a fraction is in ten-thousandths, and what   *)
(* the code compares in floating point is compared exactly.                *)
(***************************************************************************)
EXTENDS Integers, FiniteSetsExt

CONSTANT None

\* RiskPolicy.default(), in percent of the equity
BuyingPower == 18
PerTradeRisk == 1
Concentration == 20

DefaultPrice == 10000

(* The price reckoned with when this one is given, if any is.              *)
LastPrice(price) == IF price \in {None, 0} THEN DefaultPrice ELSE price

Methods == {"atr_2_0", "atr_2_5", "fixed_8"}

(* The stop distance as a fraction of the price; the ATR is 3.3% of it.    *)
StopFraction(method) ==
    CASE method = "fixed_8" -> 800
      [] method = "atr_2_5" -> 825
      [] OTHER -> 660

(* The stop shown for a price, rounded to a cent.  Half a cent may go      *)
(* either way: the code rounds what floating point makes of it.            *)
StopPrices(price, fraction) ==
    LET exact == price * (10000 - fraction)
        floor == exact \div 10000
    IN  {stop \in {floor, floor + 1} :
            /\ 10000 * stop <= exact + 5000
            /\ 10000 * stop >= exact - 5000}

(* Cash and market value, or nothing when they add up to a debt.           *)
EquityOf(cash, value) == Max({cash + value, 0})

(* compute_sizing: what the risk budget buys at a stop that far away.      *)
SuggestedQuantity(equity, price, fraction, risk) ==
    IF equity <= 0 \/ price * fraction <= 0 THEN 0
    ELSE (equity * risk) \div (price * fraction)

(* The limits that a trade of so many shares at this price is over.        *)
OverLimits(equity, quantity, price, fraction) ==
    {limit \in {"buying_power_exceeded", "per_trade_risk_exceeded",
                "concentration_exceeded", "zero_qty"} :
        \/ /\ limit = "buying_power_exceeded"
           /\ quantity * price * 100 > equity * BuyingPower
        \/ /\ limit = "per_trade_risk_exceeded"
           /\ quantity * price * fraction > equity * PerTradeRisk * 100
        \/ /\ limit = "concentration_exceeded"
           /\ quantity * price * 100 > equity * Concentration
        \/ limit = "zero_qty" /\ quantity = 0}

(* sizing_preview, for a symbol at this price (None: no position).         *)
Preview(equity, price, method, risk) ==
    LET last == LastPrice(price)
        quantity == SuggestedQuantity(equity, last, StopFraction(method), risk)
        over == OverLimits(equity, quantity, last, StopFraction(method))
    IN  [quantity |-> quantity, guards |-> IF over = {} THEN {"ok"} ELSE over]

(* _compute_sizing, a row of today's advice: two ATRs, half a percent.     *)
RowSize(equity, price) == SuggestedQuantity(equity, price, StopFraction("atr_2_0"), 50)

(* get_today_advice, for a symbol at this price (None: no position).       *)
TodaysSize(equity, price) == RowSize(equity, LastPrice(price))

(* Mutant: the quantity is not lowered to what the risk budget buys.       *)
ModifiedQuantityUncapped(equity, quantity, last, fraction, risk) == quantity

(* At least one share, whatever the risk budget.                           *)
ModifiedQuantity(equity, quantity, last, fraction, risk) ==
    Min({quantity, Max({1, (equity * risk) \div (last * fraction)})})

(* candidate.modify: the price it reckons with is the stop price it is     *)
(* given, and the default without one; the fill is booked at another.      *)
Modification(equity, quantity, stop, method, risk) ==
    LET last == LastPrice(stop)
        final == ModifiedQuantity(equity, quantity, last, StopFraction(method), risk)
        over == OverLimits(equity, final, last, StopFraction(method))
    IN  [quantity |-> final, accepted |-> over = {}]
=============================================================================
