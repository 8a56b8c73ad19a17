----------------------------- MODULE RiskLimits ------------------------------
(***************************************************************************)
(* The policy part of the risk engine: the limits of                       *)
(* application/risk/limits.py (check_limits, generate_events), the         *)
(* decisions of application/risk/__init__.py (decide) and the posture of   *)
(* application/risk/posture.py, as RiskEngine.run chains them.  How VaR    *)
(* and drawdowns are computed is left out; weights, caps and measures are  *)
(* integers in ten-thousandths, to which utilizations are rounded.         *)
(***************************************************************************)
EXTENDS Integers, Sequences, FiniteSetsExt, Functions

CONSTANTS
    Positions,
    Sectors,
    SectorOf        \* the sector of each position

ASSUME RiskLimitsAssumption ==
    /\ IsFiniteSet(Positions)
    /\ SectorOf \in [Positions -> Sectors]

(* What the engine measures in a book.  A drawdown is what is lost since   *)
(* the peak, and an empty book is answered with zeros.                     *)
Measures ==
    {m \in [weight : [Positions -> Int],   \* market value by equity
            var : Nat,                     \* var_99_pct
            drawdown : {x \in Int : x <= 0},
            maxDrawdown : {x \in Int : x <= 0}] :
       Positions = {} => m.var = 0 /\ m.drawdown = 0 /\ m.maxDrawdown = 0}

(* The caps are not zero: check_limits divides by them.  The drawdown limit*)
(* is a field of RiskPolicy with le=0.                                     *)
RiskPolicy ==
    [grossCap : Nat \ {0}, varBudget : Nat \ {0}, drawdownLimit : {x \in Int : x <= 0},
     sectorCap : Nat \ {0}, singleCap : Nat \ {0}, warnThreshold : Nat]

RoundTo(n, d) == (2 * n + d) \div (2 * d)

Utilization(used, cap) == RoundTo(used * 10000, cap)

-----------------------------------------------------------------------------
(* The measures of RiskEngine.run *)

Long(m) == [s \in Positions |-> IF m.weight[s] > 0 THEN m.weight[s] ELSE 0]

GrossExposure(m) == SumFunction(Long(m))

SectorWeight(m, k) == SumFunctionOnSet(m.weight, {s \in Positions : SectorOf[s] = k})

(* sector_weights: only the first entry, the largest, is looked at.        *)
TopSector(m) == Max({SectorWeight(m, SectorOf[s]) : s \in Positions})

TopWeight(m) == Max({m.weight[s] : s \in Positions})

-----------------------------------------------------------------------------
(* check_limits *)

Limit(name, utilization, breach) ==
    [name |-> name, utilization |-> utilization, breach |-> breach]

DrawdownLimit(m, p) ==
    LET used == IF m.maxDrawdown < 0 THEN -m.maxDrawdown ELSE -m.drawdown
    IN  Limit("drawdown",
              IF p.drawdownLimit = 0 THEN 0 ELSE Utilization(used, -p.drawdownLimit),
              m.drawdown < p.drawdownLimit \/ m.maxDrawdown < p.drawdownLimit)

(* In the order of the list: the sector is inserted at its head, and a     *)
(* book without a long position has no single-name limit.                  *)
CheckLimits(m, p) ==
    <<Limit("sector", Utilization(TopSector(m), p.sectorCap), TopSector(m) > p.sectorCap),
      Limit("gross", Utilization(GrossExposure(m), p.grossCap), GrossExposure(m) > p.grossCap),
      Limit("var", Utilization(m.var, p.varBudget), m.var > p.varBudget),
      DrawdownLimit(m, p)>>
        \o IF TopWeight(m) > 0
             THEN <<Limit("single", Utilization(TopWeight(m), p.singleCap),
                          TopWeight(m) > p.singleCap)>>
             ELSE <<>>

-----------------------------------------------------------------------------
(* generate_events, decide and derive_posture.  An event is a limit with a *)
(* severity; the "info" event of a quiet book decides nothing.             *)

Severity(limit, p) ==
    IF limit.breach THEN "crit"
    ELSE IF limit.utilization >= p.warnThreshold THEN "warn"
    ELSE "none"

OfSeverity(limits, p, severity) ==
    {i \in DOMAIN limits : Severity(limits[i], p) = severity}

(* Mutant: every critical event makes a decision.                          *)
DecideEveryBreach(limits, p, halted) ==
    LET crit == OfSeverity(limits, p, "crit")
        warn == OfSeverity(limits, p, "warn")
        stops == {<<IF halted THEN "block" ELSE "halt", limits[i].name>> : i \in crit}
        reduces == {<<"reduce", limits[i].name>> :
                       i \in {w \in warn : \A c \in crit : w < c}}
    IN  IF stops \cup reduces = {} THEN {<<"allow", "">>} ELSE stops \cup reduces

(* Mutant: the first event that decides silences all others.               *)
DecideFirstEvent(limits, p, halted) ==
    LET crit == OfSeverity(limits, p, "crit")
        warn == OfSeverity(limits, p, "warn")
        First(S) == {i \in S : \A d \in crit \cup warn : i <= d}
        stops == {<<IF halted THEN "block" ELSE "halt", limits[i].name>> : i \in First(crit)}
        reduces == {<<"reduce", limits[i].name>> : i \in First(warn)}
    IN  IF stops \cup reduces = {} THEN {<<"allow", "">>} ELSE stops \cup reduces

(* The first critical event halts the book, or blocks if it is halted, and *)
(* silences the events after it; the warnings before it reduce.            *)
Decide(limits, p, halted) ==
    LET crit == OfSeverity(limits, p, "crit")
        warn == OfSeverity(limits, p, "warn")
        stops == {<<IF halted THEN "block" ELSE "halt", limits[i].name>> :
                     i \in {c \in crit : \A d \in crit : c <= d}}
        reduces == {<<"reduce", limits[i].name>> :
                       i \in {w \in warn : \A c \in crit : w < c}}
    IN  IF stops \cup reduces = {} THEN {<<"allow", "">>} ELSE stops \cup reduces

(* Mutant: warnings do not count.                                          *)
PostureCriticalOnly(limits, p, halted) ==
    IF halted THEN "halt"
    ELSE IF OfSeverity(limits, p, "crit") # {} THEN "elevated"
    ELSE "ready"

Posture(limits, p, halted) ==
    IF halted THEN "halt"
    ELSE IF OfSeverity(limits, p, "crit") \cup OfSeverity(limits, p, "warn") # {}
      THEN "elevated"
    ELSE "ready"

(* RiskEngine.run: without positions it answers without looking at limits. *)
Review(m, p, halted) ==
    LET limits == IF Positions = {} THEN <<>> ELSE CheckLimits(m, p)
    IN  [decisions |-> Decide(limits, p, halted), posture |-> Posture(limits, p, halted)]
=============================================================================
