---------------------------- MODULE DecisionRules ----------------------------
(***************************************************************************)
(* The pure rules behind the console's advice: the scorecard of a symbol   *)
(* (generate_scorecards, called by a decision run), the review of a book   *)
(* against its risk policy (RiskEngine.run, called by the risk query) and  *)
(* the size of a trade (the preview, and candidate.modify after it).  A    *)
(* state is one evaluation with its inputs; a step evaluates the same      *)
(* inputs under another regime or a tighter policy, or modifies the trade  *)
(* previewed, so that the properties can compare two evaluations.          *)
(***************************************************************************)
EXTENDS Scorecards, RiskLimits

CONSTANTS
    Bundles,        \* facts of a symbol
    Portfolios,     \* portfolios it is scored in
    Books,          \* measures of a book
    Policies,       \* risk policies
    Equities,       \* equity of the book when a trade is sized
    Quantities,     \* shares an operator may ask for
    Risks,          \* fractions of the equity put at risk
    Prices,         \* of the symbol when it is previewed; None: the book has no position
    Stops           \* stop prices a command may have; None: it has none

ASSUME DecisionRulesAssumption ==
    /\ Bundles \subseteq FactsBundle
    /\ Portfolios \subseteq PortfolioContext
    /\ Books \subseteq Measures
    /\ Policies \subseteq RiskPolicy
    /\ Equities \cup Quantities \cup Risks \subseteq Nat
    /\ None \in Prices \cap Stops
    /\ (Prices \cup Stops) \ {None} \subseteq Nat

VARIABLE evaluation

Trade == INSTANCE Sizing

ScorecardOf(f, p) ==
    [of |-> "scorecard", facts |-> f, portfolio |-> p, card |-> Scorecard(f, p)]

ReviewOf(m, p, halted) ==
    [of |-> "review", measures |-> m, policy |-> p, halted |-> halted,
     result |-> Review(m, p, halted)]

PreviewOf(e, price, m, r, stop) ==
    [of |-> "preview", equity |-> e, price |-> price, method |-> m, risk |-> r,
     stop |-> stop, shown |-> Trade!Preview(e, price, m, r)]

ModifyOf(before, e, q, stop) ==
    [of |-> "modify", previewed |-> before, equity |-> e, quantity |-> q, stop |-> stop,
     answer |-> Trade!Modification(e, q, stop, before.method, before.risk)]

(* The stops the preview may show for a symbol at this price.              *)
StopsShown(price, m) == Trade!StopPrices(Trade!LastPrice(price), Trade!StopFraction(m))

Init == evaluation = [of |-> "nothing"]

ScoreSymbol ==
    /\ evaluation.of = "nothing"
    /\ \E f \in Bundles, p \in Portfolios : evaluation' = ScorecardOf(f, p)

TurnRegime ==
    /\ evaluation.of = "scorecard"
    /\ \E r \in Regimes :
          evaluation' = ScorecardOf(evaluation.facts, [evaluation.portfolio EXCEPT !.regime = r])

ReviewBook ==
    /\ evaluation.of = "nothing"
    /\ \E m \in Books, p \in Policies, halted \in BOOLEAN :
          evaluation' = ReviewOf(m, p, halted)

(* No cap of p is above the one of q, and it warns no later.               *)
Tighter(p, q) ==
    /\ p.grossCap <= q.grossCap /\ p.varBudget <= q.varBudget
    /\ p.drawdownLimit >= q.drawdownLimit
    /\ p.sectorCap <= q.sectorCap /\ p.singleCap <= q.singleCap
    /\ p.warnThreshold <= q.warnThreshold

TightenPolicy ==
    /\ evaluation.of = "review"
    /\ \E p \in Policies :
          /\ Tighter(p, evaluation.policy)
          /\ evaluation' = ReviewOf(evaluation.measures, p, evaluation.halted)

(* The console shows a size and a stop for a symbol.                       *)
PreviewTrade ==
    /\ evaluation.of = "nothing"
    /\ \E e \in Equities, price \in Prices, m \in Trade!Methods, r \in Risks :
          \E stop \in StopsShown(price, m) : evaluation' = PreviewOf(e, price, m, r, stop)

(* The operator sends candidate.modify, for the quantity that was shown or *)
(* for another one, and the equity may have changed since.  The console    *)
(* sends the stop it was shown; another client may send any, or none.      *)
ModifyTrade ==
    /\ evaluation.of = "preview"
    /\ \E e \in Equities, q \in Quantities \cup {evaluation.shown.quantity},
          stop \in Stops \cup {evaluation.stop} :
             evaluation' = ModifyOf(evaluation, e, q, stop)

(* The ticket is opened again, on the equity there is now.                 *)
ReopenTicket ==
    /\ evaluation.of = "modify"
    /\ LET before == evaluation.previewed
       IN  \E stop \in StopsShown(before.price, before.method) :
              evaluation' = PreviewOf(evaluation.equity, before.price, before.method,
                                      before.risk, stop)

Next ==
    \/ ScoreSymbol \/ TurnRegime \/ ReviewBook \/ TightenPolicy
    \/ PreviewTrade \/ ModifyTrade \/ ReopenTicket

Spec == Init /\ [][Next]_evaluation

-----------------------------------------------------------------------------
(* Properties of scorecards *)

Recommendations == {"add", "consider_entry", "hold", "watch", "do_nothing", "reduce"}

Card == [total : 0..10000, recommendation : Recommendations]

TypeOK ==
    \/ evaluation.of = "nothing"
    \/ /\ evaluation.of = "scorecard"
       /\ evaluation.card \in Card
    \/ /\ evaluation.of = "review"
       /\ evaluation.result.posture \in {"ready", "elevated", "halt"}
       /\ evaluation.result.decisions # {}
    \/ evaluation.of = "preview" /\ evaluation.shown.quantity \in Nat
    \/ evaluation.of = "modify" /\ evaluation.answer.quantity \in Int

(* Outside RISK_ON the engine advises no entry, and not even to hold or to *)
(* watch: the regime counts twice, in the gates and in the total, and no   *)
(* facts are good enough to make up for it.                                *)
EntriesNeedRiskOn ==
    evaluation.of = "scorecard" /\ evaluation.portfolio.regime # "RISK_ON" =>
        evaluation.card.recommendation \in {"do_nothing", "reduce"}

(* A symbol with fewer than half of the expected readouts gets no advice   *)
(* to trade, whatever the readouts it has, its position and the regime.    *)
AdviceNeedsData ==
    evaluation.of = "scorecard" /\ 2 * Present(evaluation.facts) < 6 =>
        evaluation.card.recommendation = "do_nothing"

Eagerness(recommendation) ==
    IF recommendation \in {"add", "consider_entry"} THEN 3
    ELSE IF recommendation \in {"hold", "watch"} THEN 2
    ELSE IF recommendation = "do_nothing" THEN 1
    ELSE 0

Gravity(regime) ==
    IF regime = "RISK_ON" THEN 0 ELSE IF regime = "CAUTION" THEN 1 ELSE 2

NoUpgrade ==
    /\ evaluation.of = "scorecard" /\ evaluation'.of = "scorecard"
    /\ evaluation'.facts = evaluation.facts
    /\ Gravity(evaluation'.portfolio.regime) >= Gravity(evaluation.portfolio.regime)
    => Eagerness(evaluation'.card.recommendation) <= Eagerness(evaluation.card.recommendation)

(* For the same facts and portfolio a worse regime never gives more eager  *)
(* advice, through two gates, their roundings and the multiplier.          *)
WorseRegimeNeverUpgrades == [][NoUpgrade]_evaluation

-----------------------------------------------------------------------------
(* Properties of reviews *)

Breached(m, p) ==
    \/ \E s \in Positions : m.weight[s] > p.singleCap
    \/ \E k \in Sectors : SectorWeight(m, k) > p.sectorCap
    \/ GrossExposure(m) > p.grossCap
    \/ m.var > p.varBudget
    \/ m.drawdown < p.drawdownLimit \/ m.maxDrawdown < p.drawdownLimit

Actions(decisions) == {d[1] : d \in decisions}

(* A book over any limit of its policy is halted, or blocked if it is      *)
(* halted already, by exactly one decision; it is never allowed and never  *)
(* shown as ready.                                                         *)
BreachStopsTheBook ==
    evaluation.of = "review" /\ Breached(evaluation.measures, evaluation.policy) =>
        LET decisions == evaluation.result.decisions
            stop == IF evaluation.halted THEN "block" ELSE "halt"
        IN  /\ Cardinality({d \in decisions : d[1] = stop}) = 1
            /\ Actions(decisions) \subseteq {stop, "reduce"}
            /\ evaluation.result.posture # "ready"

(* The posture shown and the decisions taken come from the same events:    *)
(* a book that is not halted is ready exactly when everything is allowed.  *)
PostureAgreesWithDecisions ==
    evaluation.of = "review" /\ ~evaluation.halted =>
        (evaluation.result.posture = "ready"
            <=> Actions(evaluation.result.decisions) = {"allow"})

Strictness(decisions) ==
    IF Actions(decisions) \cap {"halt", "block"} # {} THEN 2
    ELSE IF "reduce" \in Actions(decisions) THEN 1
    ELSE 0

(* A tighter policy never relaxes what is decided for the same book.       *)
TighterPolicyNeverRelaxes ==
    [][ /\ evaluation.of = "review" /\ evaluation'.of = "review"
        /\ evaluation'.measures = evaluation.measures
        /\ Tighter(evaluation'.policy, evaluation.policy)
        => Strictness(evaluation'.result.decisions)
              >= Strictness(evaluation.result.decisions) ]_evaluation

-----------------------------------------------------------------------------
(* Properties of sizes *)

(* The preview has no objection to so many shares at the price it shows.   *)
WithinShownLimits(before, quantity) ==
    Trade!OverLimits(before.equity, quantity, Trade!LastPrice(before.price),
                     Trade!StopFraction(before.method)) = {}

(* The limits and the risk budget, kept at the price that was shown but    *)
(* for a fifth: what they allow 6 times the equity, with 5 times the       *)
(* shares.                                                                 *)
NearlyWithinLimits(before, equity, quantity) ==
    LET price == Trade!LastPrice(before.price)
        fraction == Trade!StopFraction(before.method)
    IN  /\ Trade!OverLimits(6 * equity, 5 * quantity, price, fraction) = {}
        /\ quantity > 1 => 5 * quantity * price * fraction <= 6 * equity * before.risk

(* candidate.modify takes the stop price it is given for the price, and    *)
(* reckons the limits and the cap from it.  The console sends the stop its *)
(* preview showed, which is not above the price.  Then no quantity within  *)
(* the limits of the preview is refused by a book that has not become      *)
(* poorer, and what is no more than suggested is booked to the share.  More*)
(* than that may be accepted, but is over the limits and the risk budget of*)
(* the price shown by no more than a fifth.  Whatever stop a client sends, *)
(* more than a single share is accepted only up to what a preview would    *)
(* suggest of a symbol at that price.  The page of today's advice, which   *)
(* sizes on its own, shows what the preview does when asked for nothing    *)
(* special.                                                                *)
PreviewForetellsModify ==
    evaluation.of = "modify" =>
        LET before == evaluation.previewed
            asked == evaluation.quantity
            answer == evaluation.answer
        IN  /\ evaluation.stop = before.stop =>
                 /\ WithinShownLimits(before, asked) /\ evaluation.equity >= before.equity =>
                       /\ answer.accepted
                       /\ asked <= before.shown.quantity => answer.quantity = asked
                 /\ answer.accepted =>
                       NearlyWithinLimits(before, evaluation.equity, answer.quantity)
            /\ answer.accepted /\ answer.quantity > 1 =>
                 LET limit == Trade!Preview(evaluation.equity, evaluation.stop,
                                            before.method, before.risk)
                 IN  answer.quantity <= limit.quantity
            /\ before.method = "atr_2_0" /\ before.risk = 50 =>
                 Trade!TodaysSize(before.equity, before.price) = before.shown.quantity
=============================================================================
