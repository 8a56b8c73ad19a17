------------------------- MODULE BookProjectionProofs -------------------------
(***************************************************************************)
(* Proofs about BookProjection for every set of symbols and workers, every *)
(* set of trades and every bound.                                          *)
(*                                                                         *)
(* Any number of workers: the portfolio row a transaction has inserted     *)
(* stays what the commit will make of the ledger and of the positions,     *)
(* because no other transaction can commit before it (Exclusion).          *)
(*                                                                         *)
(* One worker: the rows it deletes are all there are, so that the rows it  *)
(* commits are the aggregate of the fills (Working), and its nine          *)
(* statements are one step of AtomicBook.                                  *)
(*                                                                         *)
(* An equity is an integer because the sum of finitely many integers is    *)
(* (SumsAndMaxima).                                                        *)
(***************************************************************************)
EXTENDS BookProjection, SumsAndMaxima, TLAPS

Shape ==
    /\ net \in [Symbols -> Int]
    /\ ledger \in Int
    /\ pos \in [Symbols -> Int]
    /\ portfolio \in PortfolioRow
    /\ tx \in [Workers -> Transaction(PortfolioRow)]

(* At most one transaction has deleted the portfolio row, and at most one  *)
(* has inserted it; if there was a row the latter has deleted it.          *)
Exclusion ==
    /\ \A v, w \in Workers : tx[v].gonePortfolio /\ tx[w].gonePortfolio => v = w
    /\ \A v, w \in Workers :
          tx[v].pc = "portfolioInserted" /\ tx[w].pc = "portfolioInserted" => v = w
    /\ \A w \in Workers :
          /\ tx[w].seenPortfolio \/ tx[w].gonePortfolio => portfolio.exists
          /\ tx[w].pc \in {"idle", "booked", "deletingPositions", "positionsDeleted",
                           "deletingPortfolio"} => ~tx[w].gonePortfolio
          /\ tx[w].pc = "portfolioInserted" => ~PortfolioConflict(w)

(* The inserted row is still what w would insert now.                      *)
InsertedIsCurrent ==
    \A w \in Workers : tx[w].pc = "portfolioInserted" => tx[w].portfolio = Portfolio(w)

IInv == Shape /\ Exclusion /\ InsertedIsCurrent /\ CashMatchesLedger /\ EquityMatchesPositions

SingleWorker == \A v, w \in Workers : v = w

Held == {s \in Symbols : pos[s] # 0}

(* Where a transaction that nothing interferes with is in its rebuild.     *)
Working(w) ==
    /\ tx[w].pc \in {"idle", "booked", "deletingPositions"} => tx[w].gone = {}
    /\ tx[w].pc = "deletingPositions" => tx[w].seen = Held
    /\ tx[w].pc \in {"positionsDeleted", "deletingPortfolio", "portfolioDeleted",
                     "aggregated", "positionsInserted", "portfolioInserted"}
          => tx[w].gone = Held
    /\ tx[w].pc \in {"aggregated", "positionsInserted", "portfolioInserted"}
          => tx[w].rows = Fills(w)

(* Where a lone transaction is, and what its fill does.                    *)
SerialInv ==
    /\ pos = net
    /\ \A w \in Workers :
         /\ Working(w)
         /\ tx[w].kind = "flatten" =>
               tx[w].symbol \in Symbols /\ tx[w].quantity = -net[tx[w].symbol]
         /\ tx[w].symbol = None => tx[w].quantity = 0

-----------------------------------------------------------------------------
(* Any number of workers *)

LEMMA TotalIsInt == ASSUME NEW f \in [Symbols -> Int] PROVE Total(f) \in Int
BY SumIsInt, BookProjectionAssumption DEF Total, SumFunction

LEMMA Types ==
    ASSUME Shape, NEW w \in Workers
    PROVE  /\ Fills(w) \in [Symbols -> Int]
           /\ Visible(w) \in [Symbols -> Int]
           /\ CashAfter(w) \in Int
           /\ Portfolio(w) \in PortfolioRow
           /\ Idle \in Transaction(PortfolioRow)
<1> USE BookProjectionAssumption
<1>1. Fills(w) \in [Symbols -> Int]
  BY DEF Shape, Transaction, Fills
<1>2. Visible(w) \in [Symbols -> Int]
  BY DEF Shape, Transaction, Visible
<1>3. CashAfter(w) \in Int
  BY DEF Shape, Transaction, CashAfter
<1>4. Portfolio(w) \in PortfolioRow
  <2>1. Total(Visible(w)) \in Int
    BY <1>2, TotalIsInt
  <2>2. QED
    BY <1>3, <2>1 DEF Portfolio, PortfolioRow
<1>5. Idle \in Transaction(PortfolioRow)
  BY DEF Idle, Transaction, PortfolioRow, NoPortfolio
<1>6. QED
  BY <1>1, <1>2, <1>3, <1>4, <1>5

(* A step that leaves the committed state and v's transaction alone leaves *)
(* what v would insert alone.                                              *)
LEMMA SamePortfolio ==
    ASSUME NEW v \in Workers, UNCHANGED committed, tx'[v] = tx[v]
    PROVE  Portfolio(v)' = Portfolio(v)
<1>1. Visible(v)' = Visible(v)
  BY DEF committed, Visible
<1>2. CashAfter(v)' = CashAfter(v)
  BY DEF committed, CashAfter
<1>3. QED
  BY <1>1, <1>2 DEF Portfolio

(* What a step of w's transaction must respect to preserve IInv.           *)
Admissible(w, t) ==
    /\ t \in Transaction(PortfolioRow)
    /\ t.gonePortfolio => \A v \in Workers \ {w} : ~tx[v].gonePortfolio
    /\ t.seenPortfolio \/ t.gonePortfolio => portfolio.exists
    /\ t.pc \in {"idle", "booked", "deletingPositions", "positionsDeleted",
                 "deletingPortfolio"} => ~t.gonePortfolio
    /\ t.pc = "portfolioInserted" =>
          /\ \A v \in Workers \ {w} : tx[v].pc # "portfolioInserted"
          /\ portfolio.exists => t.gonePortfolio
          /\ t = [tx[w] EXCEPT !.pc = "portfolioInserted", !.portfolio = Portfolio(w)]

LEMMA LocalStep ==
    ASSUME IInv, NEW w \in Workers, NEW t, Admissible(w, t), Move(w, t), UNCHANGED committed
    PROVE  IInv'
<1> USE DEF IInv
<1>1. tx' \in [Workers -> Transaction(PortfolioRow)] /\ tx'[w] = t
      /\ \A v \in Workers \ {w} : tx'[v] = tx[v]
  BY DEF Shape, Move, Admissible, PortfolioRow
<1>2. Shape'
  BY <1>1 DEF Shape, committed, PortfolioRow, Total
<1>3. Exclusion'
  BY <1>1 DEF Exclusion, Admissible, PortfolioConflict, committed
<1>4. ASSUME NEW v \in Workers, tx'[v].pc = "portfolioInserted"
      PROVE  tx'[v].portfolio = Portfolio(v)'
  <2>1. CASE v # w
    BY <1>1, <1>4, <2>1, SamePortfolio DEF InsertedIsCurrent
  <2>2. CASE v = w
    <3>1. t = [tx[w] EXCEPT !.pc = "portfolioInserted", !.portfolio = Portfolio(w)]
      BY <1>1, <1>4, <2>2 DEF Admissible
    <3>2. t.rows = tx[w].rows /\ t.gone = tx[w].gone /\ t.quantity = tx[w].quantity
          /\ t.portfolio = Portfolio(w)
      BY <3>1 DEF Shape, Transaction
    <3>3. Visible(w)' = Visible(w) /\ CashAfter(w)' = CashAfter(w)
      BY <1>1, <3>2 DEF Visible, CashAfter, committed
    <3>4. QED
      BY <1>1, <2>2, <3>2, <3>3 DEF Portfolio
  <2>3. QED
    BY <2>1, <2>2
<1>5. CashMatchesLedger' /\ EquityMatchesPositions'
  BY DEF CashMatchesLedger, EquityMatchesPositions, committed
<1>6. QED
  BY <1>2, <1>3, <1>4, <1>5 DEF InsertedIsCurrent

(* What w's commit leaves of another transaction v: the rows w deleted are *)
(* no longer there for v to find.                                          *)
Left(w, v) == [tx[v] EXCEPT !.seen = @ \ tx[w].gone,
                            !.seenPortfolio = @ /\ ~tx[w].gonePortfolio]

LEMMA LeftFields ==
    ASSUME Shape, NEW w \in Workers, NEW v \in Workers
    PROVE  /\ Left(w, v) \in Transaction(PortfolioRow)
           /\ Left(w, v).pc = tx[v].pc
           /\ Left(w, v).gonePortfolio = tx[v].gonePortfolio
           /\ Left(w, v).seenPortfolio => tx[v].seenPortfolio /\ ~tx[w].gonePortfolio
<1>1. tx[v] \in Transaction(PortfolioRow) /\ tx[w] \in Transaction(PortfolioRow)
  BY DEF Shape, PortfolioRow
<1>2. tx[v].seen \ tx[w].gone \in SUBSET Symbols
  BY <1>1 DEF Transaction
<1>3. (tx[v].seenPortfolio /\ ~tx[w].gonePortfolio) \in BOOLEAN
  OBVIOUS
<1>4. Left(w, v) = [tx[v] EXCEPT !.seen = tx[v].seen \ tx[w].gone,
                      !.seenPortfolio = (tx[v].seenPortfolio /\ ~tx[w].gonePortfolio)]
  BY <1>1 DEF Left, Transaction
<1>5. Left(w, v) \in Transaction(PortfolioRow)
  BY <1>1, <1>2, <1>3, <1>4 DEF Transaction
<1>6. Left(w, v).pc = tx[v].pc /\ Left(w, v).gonePortfolio = tx[v].gonePortfolio
  BY <1>1, <1>4 DEF Transaction
<1>7. Left(w, v).seenPortfolio => tx[v].seenPortfolio /\ ~tx[w].gonePortfolio
  BY <1>1, <1>4 DEF Transaction
<1>8. QED
  BY <1>5, <1>6, <1>7

LEMMA CommitStep ==
    ASSUME IInv, NEW w \in Workers, Commit(w)
    PROVE  IInv'
<1> USE DEF IInv
<1>1. tx[w].portfolio = Portfolio(w) /\ tx'[w] = Idle
      /\ \A v \in Workers \ {w} : tx'[v] = Left(w, v)
  BY DEF Commit, InsertedIsCurrent, Left
<1>2. tx' \in [Workers -> Transaction(PortfolioRow)]
  <2>1. ASSUME NEW v \in Workers PROVE tx'[v] \in Transaction(PortfolioRow)
    BY <1>1, Types, LeftFields
  <2>2. DOMAIN tx' = Workers /\ tx' = [v \in Workers |-> tx'[v]]
    BY DEF Commit
  <2>3. QED
    BY <2>1, <2>2
<1>3. portfolio' = Portfolio(w) /\ ledger' = CashAfter(w) /\ pos' = Visible(w)
      /\ net' = Fills(w) /\ tx[w].pc = "portfolioInserted"
  BY <1>1 DEF Commit
<1>4. Shape'
  <2>1. net' \in [Symbols -> Int] /\ ledger' \in Int /\ pos' \in [Symbols -> Int]
        /\ portfolio' \in PortfolioRow
    BY <1>3, Types
  <2>2. QED
    BY <1>2, <2>1 DEF Shape, PortfolioRow
<1>5. portfolio'.exists
  BY <1>3 DEF Portfolio
<1>6. \A v \in Workers \ {w} : ~tx[v].gonePortfolio /\ tx[v].pc # "portfolioInserted"
  BY <1>3 DEF Exclusion, PortfolioConflict
<1>7. tx'[w].pc = "idle" /\ tx'[w].gonePortfolio = FALSE
  BY <1>1 DEF Idle
<1>8. \A v \in Workers : ~tx'[v].gonePortfolio /\ tx'[v].pc # "portfolioInserted"
  <2>1. ASSUME NEW v \in Workers \ {w}
        PROVE  ~tx'[v].gonePortfolio /\ tx'[v].pc # "portfolioInserted"
    BY <1>1, <1>6, LeftFields
  <2>2. QED
    BY <1>7, <2>1
<1>9. Exclusion'
  BY <1>5, <1>8 DEF Exclusion
<1>10. InsertedIsCurrent'
  BY <1>8 DEF InsertedIsCurrent
<1>11. CashMatchesLedger' /\ EquityMatchesPositions'
  BY <1>3 DEF CashMatchesLedger, EquityMatchesPositions, Portfolio
<1>12. QED
  BY <1>4, <1>9, <1>10, <1>11

LEMMA StepInv == ASSUME IInv, [Next]_vars PROVE IInv'
<1> USE BookProjectionAssumption
<1>1. ASSUME NEW w \in Workers, Begin(w) PROVE IInv'
  <2> DEFINE Opened(k, s, q) == [Idle EXCEPT !.pc = "booked", !.kind = k,
                                            !.symbol = s, !.quantity = q]
  <2>1. ASSUME NEW k \in {"trade", "flatten", "run"}, NEW s \in Symbols \cup {None}, NEW q \in Int
        PROVE  Admissible(w, Opened(k, s, q))
    BY Types DEF IInv, Admissible, Idle, Transaction
  <2>2. ASSUME NEW s \in Symbols, BookFlatten(w, s) PROVE IInv'
    <3>1. -pos[s] \in Int
      BY DEF IInv, Shape
    <3>2. Move(w, Opened("flatten", s, -pos[s])) /\ UNCHANGED committed
      BY <2>2 DEF BookFlatten
    <3>3. QED
      BY <2>1, <3>1, <3>2, LocalStep
  <2>3. ASSUME NEW s \in Symbols, NEW q \in Trades, BookTrade(w, s, q) PROVE IInv'
    BY <2>1, <2>3, LocalStep DEF BookTrade
  <2>4. CASE BeginRun(w)
    <3> DEFINE t == [Idle EXCEPT !.pc = "booked", !.kind = "run"]
    <3>1. Admissible(w, t)
      BY Types DEF IInv, Admissible, Idle, Transaction
    <3>2. QED
      BY <2>4, <3>1, LocalStep DEF BeginRun
  <2>5. QED
    BY <1>1, <2>2, <2>3, <2>4 DEF Begin
<1>2. ASSUME NEW w \in Workers, Rollback(w) PROVE IInv'
  <2>1. Admissible(w, Idle)
    BY Types DEF IInv, Admissible, Idle
  <2>2. QED
    BY <1>2, <2>1, LocalStep DEF Rollback
<1>3. ASSUME NEW w \in Workers, NEW t \in Transaction(PortfolioRow),
             Move(w, t), UNCHANGED committed,
             t.gonePortfolio = tx[w].gonePortfolio,
             t.seenPortfolio => portfolio.exists,
             t.pc # "portfolioInserted",
             t.pc \in {"idle", "booked", "deletingPositions", "positionsDeleted",
                       "deletingPortfolio"} => ~tx[w].gonePortfolio
      PROVE  IInv'
  <2>1. Admissible(w, t)
    BY <1>3 DEF IInv, Exclusion, Admissible
  <2>2. QED
    BY <1>3, <2>1, LocalStep
<1>4. ASSUME NEW w \in Workers PROVE tx[w] \in Transaction(PortfolioRow) /\ portfolio.exists \in BOOLEAN
  BY DEF IInv, Shape, PortfolioRow
<1>5. ASSUME NEW w \in Workers, DeletePositionsStart(w) PROVE IInv'
  <2> DEFINE t == [tx[w] EXCEPT !.pc = "deletingPositions", !.seen = {s \in Symbols : pos[s] # 0}]
  <2>1. t \in Transaction(PortfolioRow) /\ t.gonePortfolio = tx[w].gonePortfolio
        /\ t.seenPortfolio = tx[w].seenPortfolio /\ t.pc = "deletingPositions"
    BY <1>4 DEF Transaction
  <2>2. Move(w, t) /\ UNCHANGED committed /\ tx[w].pc = "booked"
    BY <1>5 DEF DeletePositionsStart
  <2>3. ~tx[w].gonePortfolio /\ (tx[w].seenPortfolio => portfolio.exists)
    BY <2>2 DEF IInv, Exclusion
  <2>4. QED
    BY <1>3, <2>1, <2>2, <2>3
<1>6. ASSUME NEW w \in Workers, DeletePositions(w) PROVE IInv'
  <2> DEFINE t == [tx[w] EXCEPT !.pc = "positionsDeleted", !.gone = @ \cup tx[w].seen]
  <2>1. t \in Transaction(PortfolioRow) /\ t.gonePortfolio = tx[w].gonePortfolio
        /\ t.seenPortfolio = tx[w].seenPortfolio /\ t.pc = "positionsDeleted"
    BY <1>4 DEF Transaction
  <2>2. Move(w, t) /\ UNCHANGED committed /\ tx[w].pc = "deletingPositions"
    BY <1>6 DEF DeletePositions
  <2>3. ~tx[w].gonePortfolio /\ (tx[w].seenPortfolio => portfolio.exists)
    BY <2>2 DEF IInv, Exclusion
  <2>4. QED
    BY <1>3, <2>1, <2>2, <2>3
<1>7. ASSUME NEW w \in Workers, DeletePortfolioStart(w) PROVE IInv'
  <2> DEFINE t == [tx[w] EXCEPT !.pc = "deletingPortfolio", !.seenPortfolio = portfolio.exists]
  <2>1. t \in Transaction(PortfolioRow) /\ t.gonePortfolio = tx[w].gonePortfolio
        /\ t.seenPortfolio = portfolio.exists /\ t.pc = "deletingPortfolio"
    BY <1>4 DEF Transaction
  <2>2. Move(w, t) /\ UNCHANGED committed /\ tx[w].pc = "positionsDeleted"
    BY <1>7 DEF DeletePortfolioStart
  <2>3. ~tx[w].gonePortfolio
    BY <2>2 DEF IInv, Exclusion
  <2>4. QED
    BY <1>3, <2>1, <2>2, <2>3
<1>8. ASSUME NEW w \in Workers, DeletePortfolio(w) PROVE IInv'
  <2> DEFINE t == [tx[w] EXCEPT !.pc = "portfolioDeleted",
                                !.gonePortfolio = tx[w].seenPortfolio]
  <2>1. t \in Transaction(PortfolioRow) /\ t.gonePortfolio = tx[w].seenPortfolio
        /\ t.seenPortfolio = tx[w].seenPortfolio /\ t.pc = "portfolioDeleted"
    BY <1>4 DEF Transaction
  <2>2. Move(w, t) /\ UNCHANGED committed /\ tx[w].pc = "deletingPortfolio" /\ ~Blocked(w)
    BY <1>8 DEF DeletePortfolio
  <2>3. tx[w].seenPortfolio => \A v \in Workers \ {w} : ~tx[v].gonePortfolio
    BY <2>2 DEF Blocked, Waits
  <2>4. Admissible(w, t)
    BY <2>1, <2>3 DEF IInv, Exclusion, Admissible
  <2>5. QED
    BY <2>2, <2>4, LocalStep
<1>9. ASSUME NEW w \in Workers, AggregateFills(w) PROVE IInv'
  <2> DEFINE t == [tx[w] EXCEPT !.pc = "aggregated", !.rows = Fills(w)]
  <2>1. t \in Transaction(PortfolioRow) /\ t.gonePortfolio = tx[w].gonePortfolio
        /\ t.seenPortfolio = tx[w].seenPortfolio /\ t.pc = "aggregated"
    BY <1>4, Types DEF IInv, Transaction
  <2>2. Move(w, t) /\ UNCHANGED committed
    BY <1>9 DEF AggregateFills
  <2>3. tx[w].seenPortfolio => portfolio.exists
    BY DEF IInv, Exclusion
  <2>4. QED
    BY <1>3, <2>1, <2>2, <2>3
<1>10. ASSUME NEW w \in Workers, InsertPositions(w) PROVE IInv'
  <2> DEFINE t == [tx[w] EXCEPT !.pc = "positionsInserted"]
  <2>1. t \in Transaction(PortfolioRow) /\ t.gonePortfolio = tx[w].gonePortfolio
        /\ t.seenPortfolio = tx[w].seenPortfolio /\ t.pc = "positionsInserted"
    BY <1>4 DEF Transaction
  <2>2. Move(w, t) /\ UNCHANGED committed
    BY <1>10 DEF InsertPositions
  <2>3. tx[w].seenPortfolio => portfolio.exists
    BY DEF IInv, Exclusion
  <2>4. QED
    BY <1>3, <2>1, <2>2, <2>3
<1>11. ASSUME NEW w \in Workers, InsertPortfolio(w) PROVE IInv'
  <2> DEFINE t == [tx[w] EXCEPT !.pc = "portfolioInserted", !.portfolio = Portfolio(w)]
  <2>1. t \in Transaction(PortfolioRow) /\ t.gonePortfolio = tx[w].gonePortfolio
        /\ t.seenPortfolio = tx[w].seenPortfolio /\ t.pc = "portfolioInserted"
    BY <1>4, Types DEF IInv, Transaction
  <2>2. Move(w, t) /\ UNCHANGED committed /\ tx[w].pc = "positionsInserted" /\ ~Blocked(w)
        /\ ~PortfolioConflict(w)
    BY <1>11 DEF InsertPortfolio
  <2>3. \A v \in Workers \ {w} : tx[v].pc # "portfolioInserted"
    BY <2>2 DEF Blocked, Waits
  <2>4. Admissible(w, t)
    BY <2>1, <2>2, <2>3 DEF IInv, Exclusion, Admissible, PortfolioConflict
  <2>5. QED
    BY <2>2, <2>4, LocalStep
<1>12. ASSUME NEW w \in Workers, Rebuild(w) PROVE IInv'
  BY <1>2, <1>5, <1>6, <1>7, <1>8, <1>9, <1>10, <1>11, <1>12, CommitStep
     DEF Rebuild, InsertConflict, AbortDeadlock
<1>13. ASSUME NEW w \in Workers, NEW s \in Symbols, SetStop(w, s) PROVE IInv'
  <2>1. UNCHANGED <<net, ledger, pos, portfolio, tx>>
    BY <1>13 DEF SetStop
  <2>2. \A v \in Workers : Portfolio(v)' = Portfolio(v)
    BY <2>1 DEF Portfolio, Visible, CashAfter
  <2>3. QED
    BY <2>1, <2>2 DEF IInv, Shape, PortfolioRow, Exclusion, PortfolioConflict, InsertedIsCurrent,
                      CashMatchesLedger, EquityMatchesPositions, Total
<1>14. CASE UNCHANGED vars
  <2>1. UNCHANGED <<net, ledger, pos, portfolio, tx>>
    BY <1>14 DEF vars
  <2>2. \A v \in Workers : Portfolio(v)' = Portfolio(v)
    BY <2>1 DEF Portfolio, Visible, CashAfter
  <2>3. QED
    BY <2>1, <2>2 DEF IInv, Shape, PortfolioRow, Exclusion, PortfolioConflict, InsertedIsCurrent,
                      CashMatchesLedger, EquityMatchesPositions, Total
<1>15. QED
  BY <1>1, <1>2, <1>12, <1>13, <1>14 DEF Next, Fail

LEMMA InitInv == Init => IInv
<1> SUFFICES ASSUME Init PROVE IInv
  OBVIOUS
<1>1. Shape
  BY DEF Init, Shape, PortfolioRow, Idle, NoPortfolio, Transaction
<1>2. QED
  BY <1>1 DEF Init, IInv, Exclusion, InsertedIsCurrent, CashMatchesLedger,
              EquityMatchesPositions, Idle, NoPortfolio, PortfolioConflict

(* The rest of the type, which no other variable depends on.               *)
Rest == stop \subseteq Symbols /\ booked \in Nat

LEMMA RestStep == ASSUME Rest, [Next]_vars PROVE Rest'
<1>1. ASSUME NEW w \in Workers, Begin(w) PROVE Rest'
  <2>1. stop' = stop /\ (booked' = booked \/ booked' = booked + 1)
    BY <1>1 DEF Begin, BookFlatten, BookTrade, BeginRun, committed
  <2>2. QED
    BY <2>1 DEF Rest
<1>2. ASSUME NEW w \in Workers, Commit(w) PROVE Rest'
  BY <1>2 DEF Commit, Rest
<1>3. ASSUME NEW w \in Workers, Rebuild(w) PROVE Rest'
  <2>1. Commit(w) \/ UNCHANGED <<committed, booked>>
    BY <1>3 DEF Rebuild, DeletePositionsStart, DeletePositions, DeletePortfolioStart,
                DeletePortfolio, AggregateFills, InsertPositions, InsertPortfolio,
                InsertConflict, AbortDeadlock, Rollback
  <2>2. QED
    BY <1>2, <2>1 DEF committed, Rest
<1>4. ASSUME NEW w \in Workers, NEW s \in Symbols, SetStop(w, s) PROVE Rest'
  BY <1>4 DEF SetStop, Rest
<1>5. QED
  BY <1>1, <1>3, <1>4 DEF Next, Fail, Rollback, committed, vars, Rest

(* Every amount the book shows stays an integer and every row a transaction*)
(* holds is one of the book's symbols, whatever interleaves.               *)
THEOREM BooksAreTyped == Spec => []TypeOK
<1>1. Init => Rest
  BY DEF Init, Rest
<1>2. IInv /\ Rest => TypeOK
  BY DEF IInv, Shape, Rest, TypeOK
<1>3. QED
  BY InitInv, StepInv, RestStep, <1>1, <1>2, PTL DEF Spec

(* The cash of a book is its ledger, whatever rebuilds run at once.        *)
THEOREM CashIsTheLedger == Spec => []CashMatchesLedger
<1>1. IInv => CashMatchesLedger
  BY DEF IInv
<1>2. QED
  BY InitInv, StepInv, <1>1, PTL DEF Spec

(* The equity of a book is its cash and its positions, whatever rebuilds   *)
(* run at once and however stale the positions are.                        *)
THEOREM EquityIsCashAndPositions == Spec => []EquityMatchesPositions
<1>1. IInv => EquityMatchesPositions
  BY DEF IInv
<1>2. QED
  BY InitInv, StepInv, <1>1, PTL DEF Spec

-----------------------------------------------------------------------------
(* One worker *)

(* A statement keeps the fill of its transaction.                          *)
Keeps(w, t) ==
    t.kind = tx[w].kind /\ t.symbol = tx[w].symbol /\ t.quantity = tx[w].quantity

(* What a transaction is after a statement that nothing interfered with.   *)
Stated(w, t) ==
    /\ t \in Transaction(PortfolioRow)
    /\ Keeps(w, t)
    /\ t.pc \notin {"idle", "booked"}
    /\ t.pc = "deletingPositions" => t.seen = Held /\ t.gone = {}
    /\ t.pc # "deletingPositions" => t.gone = Held
    /\ t.pc \in {"aggregated", "positionsInserted", "portfolioInserted"} => t.rows = Fills(w)

LEMMA NextStatement ==
    ASSUME Shape, NEW w \in Workers, Working(w), Rebuild(w)
    PROVE  \/ Commit(w) \/ Rollback(w)
           \/ \E t : Stated(w, t) /\ Move(w, t) /\ UNCHANGED committed
<1> USE BookProjectionAssumption
<1>0. tx[w] \in Transaction(PortfolioRow) /\ portfolio.exists \in BOOLEAN
  BY DEF Shape, PortfolioRow
<1>1. CASE DeletePositionsStart(w)
  <2> DEFINE t == [tx[w] EXCEPT !.pc = "deletingPositions", !.seen = Held]
  <2>1. t \in Transaction(PortfolioRow) /\ Keeps(w, t) /\ t.pc = "deletingPositions"
        /\ t.seen = Held /\ t.gone = tx[w].gone
    BY <1>0, Types DEF Transaction, Keeps, Held
  <2>2. Move(w, t) /\ UNCHANGED committed /\ tx[w].pc = "booked"
    BY <1>1 DEF DeletePositionsStart, Held
  <2> HIDE DEF t
  <2>3. Stated(w, t)
    BY <2>1, <2>2 DEF Stated, Working
  <2>4. QED
    BY <2>2, <2>3
<1>2. CASE DeletePositions(w)
  <2> DEFINE t == [tx[w] EXCEPT !.pc = "positionsDeleted", !.gone = @ \cup tx[w].seen]
  <2>1. t \in Transaction(PortfolioRow) /\ Keeps(w, t) /\ t.pc = "positionsDeleted"
        /\ t.gone = tx[w].gone \cup tx[w].seen
    BY <1>0, Types DEF Transaction, Keeps, Held
  <2>2. Move(w, t) /\ UNCHANGED committed /\ tx[w].pc = "deletingPositions"
    BY <1>2 DEF DeletePositions, Held
  <2> HIDE DEF t
  <2>3. Stated(w, t)
    BY <2>1, <2>2 DEF Stated, Working
  <2>4. QED
    BY <2>2, <2>3
<1>3. CASE DeletePortfolioStart(w)
  <2> DEFINE t == [tx[w] EXCEPT !.pc = "deletingPortfolio", !.seenPortfolio = portfolio.exists]
  <2>1. t \in Transaction(PortfolioRow) /\ Keeps(w, t) /\ t.pc = "deletingPortfolio"
        /\ t.gone = tx[w].gone
    BY <1>0, Types DEF Transaction, Keeps, Held
  <2>2. Move(w, t) /\ UNCHANGED committed /\ tx[w].pc = "positionsDeleted"
    BY <1>3 DEF DeletePortfolioStart, Held
  <2> HIDE DEF t
  <2>3. Stated(w, t)
    BY <2>1, <2>2 DEF Stated, Working
  <2>4. QED
    BY <2>2, <2>3
<1>4. CASE DeletePortfolio(w)
  <2> DEFINE t == [tx[w] EXCEPT !.pc = "portfolioDeleted", !.gonePortfolio = tx[w].seenPortfolio]
  <2>1. t \in Transaction(PortfolioRow) /\ Keeps(w, t) /\ t.pc = "portfolioDeleted"
        /\ t.gone = tx[w].gone
    BY <1>0, Types DEF Transaction, Keeps, Held
  <2>2. Move(w, t) /\ UNCHANGED committed /\ tx[w].pc = "deletingPortfolio"
    BY <1>4 DEF DeletePortfolio, Held
  <2> HIDE DEF t
  <2>3. Stated(w, t)
    BY <2>1, <2>2 DEF Stated, Working
  <2>4. QED
    BY <2>2, <2>3
<1>5. CASE AggregateFills(w)
  <2> DEFINE t == [tx[w] EXCEPT !.pc = "aggregated", !.rows = Fills(w)]
  <2>1. t \in Transaction(PortfolioRow) /\ Keeps(w, t) /\ t.pc = "aggregated"
        /\ t.gone = tx[w].gone /\ t.rows = Fills(w)
    BY <1>0, Types DEF Transaction, Keeps, Held
  <2>2. Move(w, t) /\ UNCHANGED committed /\ tx[w].pc = "portfolioDeleted"
    BY <1>5 DEF AggregateFills, Held
  <2> HIDE DEF t
  <2>3. Stated(w, t)
    BY <2>1, <2>2 DEF Stated, Working
  <2>4. QED
    BY <2>2, <2>3
<1>6. CASE InsertPositions(w)
  <2> DEFINE t == [tx[w] EXCEPT !.pc = "positionsInserted"]
  <2>1. t \in Transaction(PortfolioRow) /\ Keeps(w, t) /\ t.pc = "positionsInserted"
        /\ t.gone = tx[w].gone /\ t.rows = tx[w].rows
    BY <1>0, Types DEF Transaction, Keeps, Held
  <2>2. Move(w, t) /\ UNCHANGED committed /\ tx[w].pc = "aggregated"
    BY <1>6 DEF InsertPositions, Held
  <2> HIDE DEF t
  <2>3. Stated(w, t)
    BY <2>1, <2>2 DEF Stated, Working
  <2>4. QED
    BY <2>2, <2>3
<1>7. CASE InsertPortfolio(w)
  <2> DEFINE t == [tx[w] EXCEPT !.pc = "portfolioInserted", !.portfolio = Portfolio(w)]
  <2>1. t \in Transaction(PortfolioRow) /\ Keeps(w, t) /\ t.pc = "portfolioInserted"
        /\ t.gone = tx[w].gone /\ t.rows = tx[w].rows
    BY <1>0, Types DEF Transaction, Keeps, Held
  <2>2. Move(w, t) /\ UNCHANGED committed /\ tx[w].pc = "positionsInserted"
    BY <1>7 DEF InsertPortfolio, Held
  <2> HIDE DEF t
  <2>3. Stated(w, t)
    BY <2>1, <2>2 DEF Stated, Working
  <2>4. QED
    BY <2>2, <2>3
<1>8. QED
  BY <1>1, <1>2, <1>3, <1>4, <1>5, <1>6, <1>7 DEF Rebuild, InsertConflict, AbortDeadlock

(* What a transaction is when its fill is booked.                          *)
Opened(t) ==
    /\ t \in Transaction(PortfolioRow)
    /\ t.pc = "booked" /\ t.gone = {}
    /\ t.kind = "flatten" => t.symbol \in Symbols /\ t.quantity = -pos[t.symbol]
    /\ t.symbol = None => t.quantity = 0

LEMMA NextOpening ==
    ASSUME Shape, NEW w \in Workers, Begin(w)
    PROVE  \E t : Opened(t) /\ Move(w, t) /\ UNCHANGED committed
<1> USE BookProjectionAssumption
<1>0. Idle \in Transaction(PortfolioRow)
  BY Types
<1>1. ASSUME NEW s \in Symbols, BookFlatten(w, s)
      PROVE  \E t : Opened(t) /\ Move(w, t) /\ UNCHANGED committed
  <2> DEFINE t == [Idle EXCEPT !.pc = "booked", !.kind = "flatten",
                               !.symbol = s, !.quantity = -pos[s]]
  <2>1. -pos[s] \in Int /\ s # None
    BY DEF Shape
  <2>2. Opened(t)
    BY <1>0, <2>1 DEF Idle, Transaction, Opened
  <2>3. Move(w, t) /\ UNCHANGED committed
    BY <1>1 DEF BookFlatten
  <2>4. QED
    BY <2>2, <2>3
<1>2. ASSUME NEW s \in Symbols, NEW q \in Trades, BookTrade(w, s, q)
      PROVE  \E t : Opened(t) /\ Move(w, t) /\ UNCHANGED committed
  <2> DEFINE t == [Idle EXCEPT !.pc = "booked", !.kind = "trade",
                               !.symbol = s, !.quantity = q]
  <2>1. s # None /\ q \in Int
    OBVIOUS
  <2>2. Opened(t)
    BY <1>0, <2>1 DEF Idle, Transaction, Opened
  <2>3. Move(w, t) /\ UNCHANGED committed
    BY <1>2 DEF BookTrade
  <2>4. QED
    BY <2>2, <2>3
<1>3. CASE BeginRun(w)
  <2> DEFINE t == [Idle EXCEPT !.pc = "booked", !.kind = "run"]
  <2>1. Opened(t)
    BY <1>0 DEF Idle, Transaction, Opened
  <2>2. Move(w, t) /\ UNCHANGED committed
    BY <1>3 DEF BeginRun
  <2>3. QED
    BY <2>1, <2>2
<1>4. QED
  BY <1>1, <1>2, <1>3 DEF Begin

LEMMA IdleFields ==
    /\ Idle.pc = "idle" /\ Idle.gone = {} /\ Idle.kind = "none"
    /\ Idle.symbol = None /\ Idle.quantity = 0
BY DEF Idle

(* The steps a transaction can see.                                        *)
LEMMA StepCases ==
    ASSUME Shape, [Next]_vars, \A w \in Workers : Working(w)
    PROVE  \/ UNCHANGED <<net, ledger, pos, portfolio, tx>>
           \/ \E w \in Workers :
                 \/ Commit(w) \/ Rollback(w)
                 \/ \E t : (Opened(t) \/ Stated(w, t)) /\ Move(w, t) /\ UNCHANGED committed
BY NextStatement, NextOpening DEF Next, Fail, SetStop, vars

LEMMA OtherTransactions ==
    ASSUME Shape, NEW v \in Workers, NEW w \in Workers, v # w, NEW t, Move(v, t),
           UNCHANGED committed, Working(w)
    PROVE  Working(w)'
<1>1. tx'[w] = tx[w] /\ Held' = Held
  BY DEF Shape, Move, Held, committed
<1>2. Fills(w)' = Fills(w)
  BY <1>1 DEF Fills, committed
<1>3. QED
  BY <1>1, <1>2 DEF Working

LEMMA OwnStatement ==
    ASSUME Shape, NEW w \in Workers, NEW t, t = Idle \/ Opened(t) \/ Stated(w, t),
           Move(w, t), UNCHANGED committed
    PROVE  Working(w)'
<1>1. tx'[w] = t /\ Held' = Held
  BY DEF Shape, Move, Held, committed
<1>2. Stated(w, t) => Fills(w)' = Fills(w)
  BY <1>1 DEF Fills, committed, Stated, Keeps
<1>3. QED
  BY <1>1, <1>2, IdleFields DEF Working, Stated, Opened

(* The rows of the fills replace all the rows there were.                  *)
LEMMA CommitShowsFills ==
    ASSUME Shape, NEW w \in Workers, Working(w), Commit(w)
    PROVE  pos' = net' /\ tx'[w] = Idle
<1>1. tx'[w] = Idle /\ net' = Fills(w) /\ pos' = Visible(w)
      /\ tx[w].pc = "portfolioInserted"
  BY DEF Commit
<1>2. tx[w].gone = Held /\ tx[w].rows = Fills(w)
  BY <1>1 DEF Working
<1>3. Fills(w) \in [Symbols -> Int]
  BY Types
<1>4. ASSUME NEW s \in Symbols PROVE Visible(w)[s] = Fills(w)[s]
  BY <1>2, <1>3 DEF Visible, Held
<1>5. Visible(w) = Fills(w)
  BY <1>3, <1>4 DEF Visible
<1>6. QED
  BY <1>1, <1>5

(* What is shown does not matter to a transaction that works alone.        *)
Alone(w) == \A v \in Workers \ {w} : tx[v].pc = "idle"

LEMMA WorkingStep ==
    ASSUME Shape, NEW w \in Workers, Working(w), Alone(w), [Next]_vars
    PROVE  Working(w)'
<1>1. ASSUME NEW v \in Workers, Begin(v) PROVE Working(w)'
  BY <1>1, NextOpening, OwnStatement, OtherTransactions
<1>2. ASSUME NEW v \in Workers, Rollback(v) PROVE Working(w)'
  BY <1>2, OwnStatement, OtherTransactions DEF Rollback
<1>3. ASSUME NEW v \in Workers, Rebuild(v) PROVE Working(w)'
  <2>1. CASE v = w
    <3>1. Commit(w) => Working(w)'
      BY CommitShowsFills, IdleFields DEF Working
    <3>2. QED
      BY <1>2, <1>3, <2>1, <3>1, NextStatement, OwnStatement
  <2>2. CASE v # w
    <3>1. tx[v].pc = "idle"
      BY <2>2 DEF Alone
    <3>2. Rollback(v)
      BY <1>3, <3>1 DEF Rebuild, DeletePositionsStart, DeletePositions, DeletePortfolioStart,
                        DeletePortfolio, AggregateFills, InsertPositions, InsertPortfolio,
                        InsertConflict, AbortDeadlock, Commit
    <3>3. QED
      BY <1>2, <3>2
  <2>3. QED
    BY <2>1, <2>2
<1>4. CASE UNCHANGED <<net, pos, tx>>
  <2>1. Fills(w)' = Fills(w) /\ Held' = Held
    BY <1>4 DEF Fills, Held
  <2>2. QED
    BY <1>4, <2>1 DEF Working
<1>5. QED
  BY <1>1, <1>2, <1>3, <1>4 DEF Next, Fail, SetStop, vars

LEMMA SerialStep == ASSUME SingleWorker, Shape, SerialInv, [Next]_vars PROVE SerialInv'
<1> USE BookProjectionAssumption
<1>1. ASSUME NEW w \in Workers PROVE Working(w)'
  <2>1. Working(w) /\ Alone(w)
    BY DEF SerialInv, SingleWorker, Alone
  <2>2. QED
    BY <2>1, WorkingStep
<1>2. ASSUME NEW w \in Workers, NEW t, Move(w, t), UNCHANGED committed,
             t.kind = "flatten" => t.symbol \in Symbols /\ t.quantity = -net[t.symbol],
             t.symbol = None => t.quantity = 0
      PROVE  SerialInv'
  <2>1. \A v \in Workers : v = w
    BY DEF SingleWorker
  <2>2. tx'[w] = t /\ net' = net /\ pos' = pos
    BY <1>2 DEF Shape, Move, committed
  <2>3. QED
    BY <1>1, <1>2, <2>1, <2>2 DEF SerialInv
<1>3. ASSUME NEW w \in Workers, Rollback(w) PROVE SerialInv'
  BY <1>2, <1>3, IdleFields DEF Rollback
<1>4. ASSUME NEW w \in Workers, Commit(w) PROVE SerialInv'
  <2>1. \A v \in Workers : v = w
    BY DEF SingleWorker
  <2>2. pos' = net' /\ tx'[w] = Idle
    BY <1>4, CommitShowsFills DEF SerialInv
  <2>3. QED
    BY <1>1, <2>1, <2>2, IdleFields DEF SerialInv
<1>5. ASSUME NEW w \in Workers, NEW t, Opened(t), Move(w, t), UNCHANGED committed
      PROVE  SerialInv'
  BY <1>2, <1>5 DEF Opened, SerialInv
<1>6. ASSUME NEW w \in Workers, NEW t, Stated(w, t), Move(w, t), UNCHANGED committed
      PROVE  SerialInv'
  <2>1. Keeps(w, t)
    BY <1>6 DEF Stated
  <2>2. QED
    BY <1>2, <1>6, <2>1 DEF Keeps, SerialInv
<1>7. CASE UNCHANGED <<net, pos, tx>>
  BY <1>1, <1>7 DEF SerialInv
<1>8. \A w \in Workers : Working(w)
  BY DEF SerialInv
<1>9. QED
  BY <1>3, <1>4, <1>5, <1>6, <1>7, <1>8, StepCases

LEMMA SerialInit == Init => SerialInv
BY DEF Init, SerialInv, Working, Idle

LEMMA ShapeAlways == Spec => []Shape
<1>1. IInv => Shape
  BY DEF IInv
<1>2. QED
  BY InitInv, StepInv, <1>1, PTL DEF Spec

(* With a single worker the positions shown are the sums of the fills.     *)
THEOREM PositionsAreTheFills ==
    ASSUME SingleWorker
    PROVE  Spec => []PositionsMatchFills
<1>1. SerialInv => PositionsMatchFills
  BY DEF SerialInv, PositionsMatchFills
<1>2. Shape /\ SerialInv /\ [Next]_vars => SerialInv'
  BY SerialStep
<1>3. QED
  BY ShapeAlways, SerialInit, <1>1, <1>2, PTL DEF Spec

LEMMA FlattenStep ==
    ASSUME Shape, SerialInv, NEW w \in Workers, tx[w].kind = "flatten", Commit(w)
    PROVE  Magnitude(net'[tx[w].symbol]) <= Magnitude(net[tx[w].symbol])
<1>1. tx[w].symbol \in Symbols /\ tx[w].quantity = -net[tx[w].symbol]
  BY DEF SerialInv
<1>2. net[tx[w].symbol] \in Int
  BY <1>1 DEF Shape
<1>3. net'[tx[w].symbol] = 0
  <2>1. net' = Fills(w) /\ tx[w].symbol # None
    BY <1>1, BookProjectionAssumption DEF Commit
  <2>2. net'[tx[w].symbol] = net[tx[w].symbol] + tx[w].quantity
    BY <1>1, <2>1 DEF Fills, Shape
  <2>3. QED
    BY <1>1, <1>2, <2>2
<1>4. QED
  BY <1>2, <1>3 DEF Magnitude

(* With a single worker a flatten closes the position it was given.        *)
THEOREM FlattenCloses ==
    ASSUME SingleWorker
    PROVE  Spec => FlattenOnlyReduces
<1>1. Shape /\ SerialInv /\ [Next]_vars => SerialInv'
  BY SerialStep
<1>2. Shape /\ SerialInv =>
        [\A w \in Workers : tx[w].kind = "flatten" /\ Commit(w)
            => Magnitude(net'[tx[w].symbol]) <= Magnitude(net[tx[w].symbol])]_vars
  BY FlattenStep
<1>3. QED
  BY ShapeAlways, SerialInit, <1>1, <1>2, PTL DEF Spec, FlattenOnlyReduces
-----------------------------------------------------------------------------
(* One worker's transactions are atomic *)

(* What a commit makes visible is one fill and what is shown of it.        *)
LEMMA CommitIsAtomic ==
    ASSUME SingleWorker, Shape, InsertedIsCurrent, SerialInv, NEW w \in Workers, Commit(w)
    PROVE  Atomic!Next
<1> DEFINE s == tx[w].symbol
           q == tx[w].quantity
<1>1. s \in Symbols \cup {None} /\ q \in Int /\ net \in [Symbols -> Int] /\ ledger \in Int
  BY DEF Shape, Transaction
<1>2. net' = Fills(w) /\ ledger' = ledger - q
  BY DEF Commit, CashAfter
<1>3. Atomic!ShowFills
  <2>1. pos' = net'
    BY CommitShowsFills DEF SerialInv
  <2>2. portfolio' = Portfolio(w)
    BY DEF Commit, InsertedIsCurrent
  <2>3. portfolio'.cash = ledger'
    <3>1. portfolio'.cash = CashAfter(w)
      BY <2>2 DEF Portfolio
    <3>2. QED
      BY <3>1 DEF Commit
  <2>4. QED
    BY <2>1, <2>3 DEF Atomic!ShowFills
<1>4. CASE q = 0
  <2>1. Fills(w) = net
    BY <1>1, <1>4 DEF Fills
  <2>2. QED
    BY <1>1, <1>2, <1>3, <1>4, <2>1 DEF Atomic!Next, Atomic!Rebuild
<1>5. CASE q # 0
  <2>1. s \in Symbols /\ s # None
    BY <1>1, <1>5, BookProjectionAssumption DEF SerialInv
  <2>2. net' = [net EXCEPT ![s] = @ + q]
    BY <1>2, <2>1 DEF Fills
  <2>3. /\ net' \in [Symbols -> Int] /\ ledger' \in Int
        /\ \A r \in Symbols \ {s} : net'[r] = net[r]
        /\ net'[s] = net[s] + q
    BY <1>1, <1>2, <2>1, <2>2
  <2>4. net[s] \in Int
    BY <1>1, <2>1
  <2>5. \/ net'[s] > net[s] /\ ledger' < ledger
        \/ net'[s] < net[s] /\ ledger' > ledger
    BY <1>1, <1>2, <1>5, <2>3, <2>4
  <2>6. Atomic!Trade(s)
    BY <1>3, <2>3, <2>5 DEF Atomic!Trade
  <2>7. QED
    BY <2>1, <2>6 DEF Atomic!Next
<1>6. QED
  BY <1>4, <1>5

LEMMA AtomicStep ==
    ASSUME SingleWorker, Shape, InsertedIsCurrent, SerialInv, [Next]_vars
    PROVE  [Atomic!Next]_(Atomic!vars)
<1>1. ASSUME NEW w \in Workers, Begin(w) PROVE UNCHANGED committed
  BY <1>1 DEF Begin, BookFlatten, BookTrade, BeginRun
<1>2. ASSUME NEW w \in Workers, Rebuild(w) PROVE Commit(w) \/ UNCHANGED committed
  BY <1>2 DEF Rebuild, DeletePositionsStart, DeletePositions, DeletePortfolioStart,
              DeletePortfolio, AggregateFills, InsertPositions, InsertPortfolio,
              InsertConflict, AbortDeadlock, Rollback
<1>3. (\E w \in Workers : Commit(w)) \/ UNCHANGED <<net, ledger, pos, portfolio>>
  BY <1>1, <1>2 DEF Next, Fail, Rollback, SetStop, committed, vars
<1>4. QED
  BY <1>3, CommitIsAtomic DEF Atomic!vars

(* Whoever reads the book of a single worker sees whole trades and whole   *)
(* rebuilds, however many statements they take and wherever they fail.     *)
THEOREM AtomicBookIsImplemented ==
    ASSUME SingleWorker
    PROVE  Spec => TradesAreAtomic
<1>1. Init => Atomic!Init
  BY DEF Init, Atomic!Init, NoPortfolio
<1>3. IInv => Shape /\ InsertedIsCurrent
  BY DEF IInv
<1>4. Shape /\ SerialInv /\ [Next]_vars => SerialInv'
  BY SerialStep
<1>6. Shape /\ InsertedIsCurrent /\ SerialInv /\ [Next]_vars
        => [Atomic!Next]_(Atomic!vars)
  BY AtomicStep
<1>7. QED
  BY InitInv, StepInv, SerialInit, <1>1, <1>3, <1>4, <1>6, PTL
     DEF Spec, TradesAreAtomic, Atomic!Spec

-----------------------------------------------------------------------------
(* Alone again *)

(* A transaction has deleted nothing before its first DELETE.              *)
Unstarted == \A w \in Workers : tx[w].pc \in {"idle", "booked"} => tx[w].gone = {}

LEMMA UnstartedStep == ASSUME Shape, Unstarted, [Next]_vars PROVE Unstarted'
<1>1. ASSUME NEW w \in Workers, NEW t, Move(w, t), t.pc \in {"idle", "booked"} => t.gone = {}
      PROVE  Unstarted'
  BY <1>1 DEF Shape, Move, Unstarted
<1>2. ASSUME NEW w \in Workers, Begin(w) PROVE Unstarted'
  BY <1>1, <1>2, NextOpening DEF Opened
<1>3. ASSUME NEW w \in Workers, Rollback(w) PROVE Unstarted'
  BY <1>1, <1>3, IdleFields DEF Rollback
<1>4. ASSUME NEW w \in Workers, Commit(w) PROVE Unstarted'
  <2>1. ASSUME NEW v \in Workers \ {w}
        PROVE  tx'[v].pc = tx[v].pc /\ tx'[v].gone = tx[v].gone
    <3>1. tx'[v] = Left(w, v)
      BY <1>4 DEF Commit, Left
    <3>2. tx[v] \in Transaction(PortfolioRow)
      BY DEF Shape
    <3>3. QED
      BY <3>1, <3>2 DEF Left, Transaction
  <2>2. tx'[w].gone = {}
    BY <1>4, IdleFields DEF Commit
  <2>3. QED
    BY <2>1, <2>2 DEF Unstarted
<1>5. ASSUME NEW w \in Workers, Rebuild(w)
      PROVE  Commit(w) \/ Rollback(w) \/ \E t : Move(w, t) /\ t.pc \notin {"idle", "booked"}
  <2>1. tx[w] \in Transaction(PortfolioRow)
    BY DEF Shape
  <2>2. ASSUME NEW p, p \notin {"idle", "booked"}, \E t : Move(w, t) /\ t.pc = p
        PROVE  \E t : Move(w, t) /\ t.pc \notin {"idle", "booked"}
    BY <2>2
  <2>3. ASSUME DeletePositionsStart(w)
        PROVE  \E t : Move(w, t) /\ t.pc = "deletingPositions"
    <3> DEFINE t == [tx[w] EXCEPT !.pc = "deletingPositions", !.seen = {s \in Symbols : pos[s] # 0}]
    <3>1. t.pc = "deletingPositions"
      BY <2>1 DEF Transaction
    <3>2. Move(w, t)
      BY <2>3 DEF DeletePositionsStart
    <3>3. QED
      BY <3>1, <3>2
  <2>4. ASSUME DeletePositions(w)
        PROVE  \E t : Move(w, t) /\ t.pc = "positionsDeleted"
    <3> DEFINE t == [tx[w] EXCEPT !.pc = "positionsDeleted", !.gone = @ \cup tx[w].seen]
    <3>1. t.pc = "positionsDeleted"
      BY <2>1 DEF Transaction
    <3>2. Move(w, t)
      BY <2>4 DEF DeletePositions
    <3>3. QED
      BY <3>1, <3>2
  <2>5. ASSUME DeletePortfolioStart(w)
        PROVE  \E t : Move(w, t) /\ t.pc = "deletingPortfolio"
    <3> DEFINE t == [tx[w] EXCEPT !.pc = "deletingPortfolio", !.seenPortfolio = portfolio.exists]
    <3>1. t.pc = "deletingPortfolio"
      BY <2>1 DEF Transaction
    <3>2. Move(w, t)
      BY <2>5 DEF DeletePortfolioStart
    <3>3. QED
      BY <3>1, <3>2
  <2>6. ASSUME DeletePortfolio(w)
        PROVE  \E t : Move(w, t) /\ t.pc = "portfolioDeleted"
    <3> DEFINE t == [tx[w] EXCEPT !.pc = "portfolioDeleted", !.gonePortfolio = tx[w].seenPortfolio]
    <3>1. t.pc = "portfolioDeleted"
      BY <2>1 DEF Transaction
    <3>2. Move(w, t)
      BY <2>6 DEF DeletePortfolio
    <3>3. QED
      BY <3>1, <3>2
  <2>7. ASSUME AggregateFills(w)
        PROVE  \E t : Move(w, t) /\ t.pc = "aggregated"
    <3> DEFINE t == [tx[w] EXCEPT !.pc = "aggregated", !.rows = Fills(w)]
    <3>1. t.pc = "aggregated"
      BY <2>1 DEF Transaction
    <3>2. Move(w, t)
      BY <2>7 DEF AggregateFills
    <3>3. QED
      BY <3>1, <3>2
  <2>8. ASSUME InsertPositions(w)
        PROVE  \E t : Move(w, t) /\ t.pc = "positionsInserted"
    <3> DEFINE t == [tx[w] EXCEPT !.pc = "positionsInserted"]
    <3>1. t.pc = "positionsInserted"
      BY <2>1 DEF Transaction
    <3>2. Move(w, t)
      BY <2>8 DEF InsertPositions
    <3>3. QED
      BY <3>1, <3>2
  <2>9. ASSUME InsertPortfolio(w)
        PROVE  \E t : Move(w, t) /\ t.pc = "portfolioInserted"
    <3> DEFINE t == [tx[w] EXCEPT !.pc = "portfolioInserted", !.portfolio = Portfolio(w)]
    <3>1. t.pc = "portfolioInserted"
      BY <2>1 DEF Transaction
    <3>2. Move(w, t)
      BY <2>9 DEF InsertPortfolio
    <3>3. QED
      BY <3>1, <3>2
  <2>10. QED
    BY <1>5, <2>2, <2>3, <2>4, <2>5, <2>6, <2>7, <2>8, <2>9
       DEF Rebuild, InsertConflict, AbortDeadlock
<1>6. CASE UNCHANGED tx
  BY <1>6 DEF Unstarted
<1>7. QED
  BY <1>1, <1>2, <1>3, <1>4, <1>5, <1>6 DEF Next, Fail, SetStop, vars

(* Whatever several workers have made of the positions, a worker that from *)
(* some moment on is alone, and is not in the middle of a rebuild then,    *)
(* shows the fills with each transaction it commits.                       *)
THEOREM RebuildsAloneHeal ==
    ASSUME NEW w \in Workers
    PROVE  Spec => [](tx[w].pc \in {"idle", "booked"} /\ []Alone(w)
                        => [][Commit(w) => pos' = net' /\ portfolio'.cash = ledger']_vars)
<1>1. IInv /\ Unstarted /\ tx[w].pc \in {"idle", "booked"} => Working(w)
  BY DEF Unstarted, Working
<1>2. IInv /\ Working(w) /\ Alone(w) /\ [Next]_vars => Working(w)'
  BY WorkingStep DEF IInv
<1>3. IInv /\ IInv' /\ Working(w) /\ [Next]_vars
        => [Commit(w) => pos' = net' /\ portfolio'.cash = ledger']_vars
  <2> SUFFICES ASSUME IInv, IInv', Working(w), Commit(w)
               PROVE  pos' = net' /\ portfolio'.cash = ledger'
    OBVIOUS
  <2>1. pos' = net'
    BY CommitShowsFills DEF IInv
  <2>2. portfolio'.exists /\ CashMatchesLedger'
    <3>1. portfolio' = Portfolio(w)
      BY DEF IInv, InsertedIsCurrent, Commit
    <3>2. QED
      BY <3>1 DEF IInv, Portfolio
  <2>3. QED
    BY <2>1, <2>2 DEF CashMatchesLedger
<1>4. Init => Unstarted
  BY DEF Init, Unstarted, Idle
<1>5. IInv /\ Unstarted /\ [Next]_vars => Unstarted'
  BY UnstartedStep DEF IInv
<1>6. QED
  BY InitInv, StepInv, <1>1, <1>2, <1>3, <1>4, <1>5, PTL DEF Spec
=============================================================================
