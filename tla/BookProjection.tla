---------------------------- MODULE BookProjection ----------------------------
(***************************************************************************)
(* The read model of one book, projection.position_current and             *)
(* projection.portfolio_current, and the transactions that book fills and  *)
(* rebuild it (adapters/postgres/operational_store.py, book_fill and       *)
(* rebuild_projections; application/commands, _book_immediate_fill and the *)
(* handlers that call it; application/daily_cycle.py).                     *)
(*                                                                         *)
(* Each worker runs one READ COMMITTED transaction at a time, and a        *)
(* transaction is a sequence of statements.  A statement sees what was     *)
(* committed when it started, and its own transaction's writes.  A DELETE  *)
(* that meets a row another transaction has deleted waits for it, and      *)
(* skips the row if that transaction commits; a row that was inserted      *)
(* after the statement started is not seen.  An INSERT on an existing      *)
(* primary key aborts the transaction, after waiting for the uncommitted   *)
(* writer of that key.                                                     *)
(*                                                                         *)
(* Prices are 1: a position's market value is its quantity.                *)
(***************************************************************************)
EXTENDS Integers, FiniteSets, Functions

CONSTANTS
    Symbols,
    Workers,    \* processes with a transaction on the book
    Trades,     \* signed quantities that orders are submitted for
    MaxFills,   \* bound on the fills booked
    None

ASSUME BookProjectionAssumption ==
    /\ IsFiniteSet(Symbols)
    /\ Trades \subseteq Int \ {0}
    /\ MaxFills \in Nat
    /\ None \notin Symbols \cup Int

VARIABLES
    net,        \* sum of the committed fills of each symbol
    ledger,     \* sum of the committed cash ledger entries
    pos,        \* position_current: quantity of each row, 0 where there is none
    stop,       \* symbols whose position row has a stop_price
    portfolio,  \* the row of portfolio_current, if it exists
    tx,         \* the transaction of each worker
    booked      \* fills booked so far, committed or not

vars == <<net, ledger, pos, stop, portfolio, tx, booked>>

committed == <<net, ledger, pos, stop, portfolio>>

PortfolioRow == [exists : BOOLEAN, cash : Int, equity : Int]

NoPortfolio == [exists |-> FALSE, cash |-> 0, equity |-> 0]

(* Transactions whose portfolio row is in P.                               *)
Transaction(P) ==
    [pc : {"idle", "booked", "deletingPositions", "positionsDeleted",
           "deletingPortfolio", "portfolioDeleted", "aggregated",
           "positionsInserted", "portfolioInserted"},
     kind : {"none", "trade", "flatten", "run"},
     symbol : Symbols \cup {None},  \* of its fill
     quantity : Int,                \* signed quantity of its fill, 0 for none
     seen : SUBSET Symbols,         \* position rows its DELETE saw that still exist
     gone : SUBSET Symbols,         \* position rows it deleted
     seenPortfolio : BOOLEAN,       \* the same for the portfolio row
     gonePortfolio : BOOLEAN,
     rows : [Symbols -> Int],       \* aggregated, then inserted, positions
     portfolio : P]                 \* inserted portfolio row

Idle == [pc |-> "idle", kind |-> "none", symbol |-> None, quantity |-> 0,
         seen |-> {}, gone |-> {}, seenPortfolio |-> FALSE, gonePortfolio |-> FALSE,
         rows |-> [s \in Symbols |-> 0], portfolio |-> NoPortfolio]

TypeOK ==
    /\ net \in [Symbols -> Int]
    /\ ledger \in Int
    /\ pos \in [Symbols -> Int]
    /\ stop \subseteq Symbols
    /\ portfolio \in PortfolioRow
    /\ tx \in [Workers -> Transaction(PortfolioRow)]
    /\ booked \in Nat

Init ==
    /\ net = [s \in Symbols |-> 0]
    /\ ledger = 0
    /\ pos = [s \in Symbols |-> 0]
    /\ stop = {}
    /\ portfolio = NoPortfolio
    /\ tx = [w \in Workers |-> Idle]
    /\ booked = 0

-----------------------------------------------------------------------------
(* What a transaction sees *)

(* The sum of a transaction's own fill and the committed ones.             *)
Fills(w) ==
    IF tx[w].symbol = None THEN net
    ELSE [net EXCEPT ![tx[w].symbol] = @ + tx[w].quantity]

(* position_current as transaction w sees it after its inserts, and as it  *)
(* is when w commits.                                                      *)
Visible(w) ==
    [s \in Symbols |-> IF tx[w].rows[s] # 0 THEN tx[w].rows[s]
                       ELSE IF s \in tx[w].gone THEN 0 ELSE pos[s]]

(* A buy pays, a sell earns.                                               *)
CashAfter(w) == ledger - tx[w].quantity

Total(f) == SumFunction(f)

-----------------------------------------------------------------------------
(* Locks and primary keys *)

(* Rows w would insert whose key is taken by a committed row it did not    *)
(* delete.                                                                 *)
PositionConflicts(w) ==
    {s \in Symbols : tx[w].rows[s] # 0 /\ pos[s] # 0 /\ s \notin tx[w].gone}

PortfolioConflict(w) == portfolio.exists /\ ~tx[w].gonePortfolio

(* Position rows v has inserted and not committed.                         *)
Inserted(v) ==
    IF tx[v].pc \in {"positionsInserted", "portfolioInserted"}
      THEN {s \in Symbols : tx[v].rows[s] # 0} ELSE {}

(* The statement w is at must wait for v to end: v deleted a row that w    *)
(* wants to delete or to insert again, or inserted a key w wants to insert.*)
Waits(w, v) ==
    \/ tx[w].pc = "deletingPositions" /\ tx[w].seen \cap tx[v].gone # {}
    \/ tx[w].pc = "deletingPortfolio" /\ tx[w].seenPortfolio /\ tx[v].gonePortfolio
    \/ /\ tx[w].pc = "aggregated"
       /\ \/ PositionConflicts(w) \cap tx[v].gone # {}
          \/ \E s \in Inserted(v) : tx[w].rows[s] # 0
    \/ /\ tx[w].pc = "positionsInserted"
       /\ \/ PortfolioConflict(w) /\ tx[v].gonePortfolio
          \/ tx[v].pc = "portfolioInserted"

Blocked(w) == \E v \in Workers \ {w} : Waits(w, v)

(* w is in a circle of transactions that wait for each other.              *)
Deadlocked(w) ==
    \E S \in SUBSET Workers :
        /\ w \in S
        /\ \A u \in S : \E v \in S \ {u} : Waits(u, v)

Move(w, t) == tx' = [tx EXCEPT ![w] = t]

-----------------------------------------------------------------------------
(* Transactions that rebuild the book *)

(* Mutant: the fill is committed before the rebuild of its book begins.    *)
BookTradeAutocommits(w, s, q) ==
    /\ tx[w].pc = "idle"
    /\ booked < MaxFills
    /\ booked' = booked + 1
    /\ net' = [net EXCEPT ![s] = @ + q]
    /\ ledger' = ledger - q
    /\ Move(w, [Idle EXCEPT !.pc = "booked", !.kind = "trade"])
    /\ UNCHANGED <<pos, stop, portfolio>>

(* order.submit, candidate.approve: create_order and book_fill.            *)
BookTrade(w, s, q) ==
    /\ tx[w].pc = "idle"
    /\ booked < MaxFills
    /\ booked' = booked + 1
    /\ Move(w, [Idle EXCEPT !.pc = "booked", !.kind = "trade",
                            !.symbol = s, !.quantity = q])
    /\ UNCHANGED committed

Magnitude(x) == IF x < 0 THEN -x ELSE x

(* Mutant: a flatten always sells.                                         *)
BookFlattenSells(w, s) ==
    /\ tx[w].pc = "idle"
    /\ booked < MaxFills
    /\ pos[s] # 0
    /\ booked' = booked + 1
    /\ Move(w, [Idle EXCEPT !.pc = "booked", !.kind = "flatten",
                            !.symbol = s, !.quantity = -Magnitude(pos[s])])
    /\ UNCHANGED committed

(* position.flatten: a fill of the opposite of the quantity list_positions *)
(* shows.  Without a position the handler returns FAILED.                  *)
BookFlatten(w, s) ==
    /\ tx[w].pc = "idle"
    /\ booked < MaxFills
    /\ pos[s] # 0
    /\ booked' = booked + 1
    /\ Move(w, [Idle EXCEPT !.pc = "booked", !.kind = "flatten",
                            !.symbol = s, !.quantity = -pos[s]])
    /\ UNCHANGED committed

(* decision.run ends with a rebuild; it books no fill.                     *)
BeginRun(w) ==
    /\ tx[w].pc = "idle"
    /\ Move(w, [Idle EXCEPT !.pc = "booked", !.kind = "run"])
    /\ UNCHANGED <<committed, booked>>

(* DELETE FROM position_current: the statement's snapshot, then its locks. *)
DeletePositionsStart(w) ==
    /\ tx[w].pc = "booked"
    /\ Move(w, [tx[w] EXCEPT !.pc = "deletingPositions",
                             !.seen = {s \in Symbols : pos[s] # 0}])
    /\ UNCHANGED <<committed, booked>>

DeletePositions(w) ==
    /\ tx[w].pc = "deletingPositions"
    /\ ~Blocked(w)
    /\ Move(w, [tx[w] EXCEPT !.pc = "positionsDeleted", !.gone = @ \cup tx[w].seen])
    /\ UNCHANGED <<committed, booked>>

(* DELETE FROM portfolio_current.                                          *)
DeletePortfolioStart(w) ==
    /\ tx[w].pc = "positionsDeleted"
    /\ Move(w, [tx[w] EXCEPT !.pc = "deletingPortfolio",
                             !.seenPortfolio = portfolio.exists])
    /\ UNCHANGED <<committed, booked>>

DeletePortfolio(w) ==
    /\ tx[w].pc = "deletingPortfolio"
    /\ ~Blocked(w)
    /\ Move(w, [tx[w] EXCEPT !.pc = "portfolioDeleted",
                             !.gonePortfolio = tx[w].seenPortfolio])
    /\ UNCHANGED <<committed, booked>>

(* Mutant: the aggregate leaves out the transaction's own fill.            *)
AggregateCommittedFills(w) ==
    /\ tx[w].pc = "portfolioDeleted"
    /\ Move(w, [tx[w] EXCEPT !.pc = "aggregated", !.rows = net])
    /\ UNCHANGED <<committed, booked>>

(* INSERT INTO position_current SELECT ... HAVING net != 0: the fills the  *)
(* statement sees.                                                         *)
AggregateFills(w) ==
    /\ tx[w].pc = "portfolioDeleted"
    /\ Move(w, [tx[w] EXCEPT !.pc = "aggregated", !.rows = Fills(w)])
    /\ UNCHANGED <<committed, booked>>

InsertPositions(w) ==
    /\ tx[w].pc = "aggregated"
    /\ ~Blocked(w)
    /\ PositionConflicts(w) = {}
    /\ Move(w, [tx[w] EXCEPT !.pc = "positionsInserted"])
    /\ UNCHANGED <<committed, booked>>

Portfolio(w) ==
    [exists |-> TRUE, cash |-> CashAfter(w), equity |-> CashAfter(w) + Total(Visible(w))]

(* Mutant: INSERT ... ON CONFLICT DO NOTHING.                              *)
InsertPortfolioDoNothing(w) ==
    /\ tx[w].pc = "positionsInserted"
    /\ ~Blocked(w)
    /\ Move(w, [tx[w] EXCEPT !.pc = "portfolioInserted",
                   !.portfolio = IF PortfolioConflict(w) THEN portfolio ELSE Portfolio(w)])
    /\ UNCHANGED <<committed, booked>>

(* Mutant: SUM(amount) without COALESCE is NULL while the ledger is empty. *)
InsertPortfolioNull(w) ==
    /\ tx[w].pc = "positionsInserted"
    /\ ~Blocked(w)
    /\ ~PortfolioConflict(w)
    /\ Move(w, [tx[w] EXCEPT !.pc = "portfolioInserted",
                   !.portfolio = IF CashAfter(w) = 0 THEN [exists |-> TRUE, cash |-> None, equity |-> None]
                                 ELSE Portfolio(w)])
    /\ UNCHANGED <<committed, booked>>

(* Mutant: equity is computed from the fills, not from the rows.           *)
InsertPortfolioFromFills(w) ==
    /\ tx[w].pc = "positionsInserted"
    /\ ~Blocked(w)
    /\ ~PortfolioConflict(w)
    /\ Move(w, [tx[w] EXCEPT !.pc = "portfolioInserted",
                   !.portfolio = [exists |-> TRUE, cash |-> CashAfter(w),
                                  equity |-> CashAfter(w) + Total(Fills(w))]])
    /\ UNCHANGED <<committed, booked>>

InsertPortfolio(w) ==
    /\ tx[w].pc = "positionsInserted"
    /\ ~Blocked(w)
    /\ ~PortfolioConflict(w)
    /\ Move(w, [tx[w] EXCEPT !.pc = "portfolioInserted", !.portfolio = Portfolio(w)])
    /\ UNCHANGED <<committed, booked>>

(* Commit: the rows w deleted no longer exist for the statements that wait *)
(* for them, and the rows w inserted were not in their snapshots.          *)
Commit(w) ==
    /\ tx[w].pc = "portfolioInserted"
    /\ net' = Fills(w)
    /\ ledger' = CashAfter(w)
    /\ pos' = Visible(w)
    /\ stop' = stop \ tx[w].gone
    /\ portfolio' = tx[w].portfolio
    /\ tx' = [v \in Workers |->
                IF v = w THEN Idle
                ELSE [tx[v] EXCEPT !.seen = @ \ tx[w].gone,
                                   !.seenPortfolio = @ /\ ~tx[w].gonePortfolio]]
    /\ UNCHANGED booked

Rollback(w) == Move(w, Idle) /\ UNCHANGED <<committed, booked>>

(* Mutant: a duplicate key is retried instead of raised.                   *)
InsertConflictRetries(w) ==
    /\ \/ tx[w].pc = "aggregated" /\ PositionConflicts(w) # {}
       \/ tx[w].pc = "positionsInserted" /\ PortfolioConflict(w)
    /\ ~Blocked(w)
    /\ UNCHANGED vars

(* A duplicate key is raised: the handler fails with HANDLER_ERROR.        *)
InsertConflict(w) ==
    /\ \/ tx[w].pc = "aggregated" /\ PositionConflicts(w) # {}
       \/ tx[w].pc = "positionsInserted" /\ PortfolioConflict(w)
    /\ ~Blocked(w)
    /\ Rollback(w)

(* PostgreSQL aborts one of the transactions in a deadlock: its handler    *)
(* fails with HANDLER_ERROR.                                               *)
AbortDeadlock(w) ==
    /\ Deadlocked(w)
    /\ Rollback(w)

(* The worker dies, or any other error rolls the transaction back.         *)
Fail(w) ==
    /\ tx[w].pc # "idle"
    /\ Rollback(w)

-----------------------------------------------------------------------------
(* position.set_stop updates the projection in place, in a transaction of  *)
(* its own.  If the row is locked the UPDATE waits; when the row is gone   *)
(* afterwards it changes nothing, and the command still succeeds.          *)
SetStop(w, s) ==
    /\ tx[w].pc = "idle"
    /\ pos[s] # 0
    /\ \A v \in Workers : s \notin tx[v].gone
    /\ stop' = stop \cup {s}
    /\ UNCHANGED <<net, ledger, pos, portfolio, tx, booked>>

-----------------------------------------------------------------------------

Rebuild(w) ==
    \/ DeletePositionsStart(w) \/ DeletePositions(w)
    \/ DeletePortfolioStart(w) \/ DeletePortfolio(w)
    \/ AggregateFills(w) \/ InsertPositions(w)
    \/ InsertPortfolio(w) \/ InsertConflict(w) \/ AbortDeadlock(w)
    \/ Commit(w)

Begin(w) ==
    \/ \E s \in Symbols : BookFlatten(w, s) \/ \E q \in Trades : BookTrade(w, s, q)
    \/ BeginRun(w)

Next ==
    \E w \in Workers :
        \/ Begin(w) \/ Rebuild(w) \/ Fail(w)
        \/ \E s \in Symbols : SetStop(w, s)

Spec == Init /\ [][Next]_vars

(* A handler runs until it returns.  Strong fairness, because PostgreSQL   *)
(* queues the waiters of a lock: a transaction that begins later does not  *)
(* overtake one that waits.  Nothing makes a worker begin.                 *)
FairSpec == Spec /\ \A w \in Workers : SF_vars(Rebuild(w))

-----------------------------------------------------------------------------
(* Properties *)

(* However the transactions of several workers interleave, the cash shown  *)
(* is the sum of the ledger: the delete and the insert of the portfolio    *)
(* row make every rebuild of a book exclude the others from the moment it  *)
(* reads the ledger until it commits.                                      *)
CashMatchesLedger ==
    IF portfolio.exists THEN portfolio.cash = ledger ELSE ledger = 0

(* The equity shown is the cash shown plus the positions shown, although   *)
(* the two tables are written by different statements.                     *)
EquityMatchesPositions ==
    portfolio.exists => portfolio.equity = portfolio.cash + Total(pos)

(* The positions shown are the fills (docs/adr/0038:36).                   *)
PositionsMatchFills == pos = net

(* Closing a position does not open another one: a committed flatten never *)
(* leaves more exposure than it found (docs/adr/0048:66, "prevent lost     *)
(* updates").                                                              *)
FlattenOnlyReduces ==
    [][\A w \in Workers :
          tx[w].kind = "flatten" /\ Commit(w)
              => Magnitude(net'[tx[w].symbol]) <= Magnitude(net[tx[w].symbol])]_vars

(* A stop the operator set stays while the position stays.                 *)
StopsSurvive ==
    [][\A s \in stop : pos'[s] # 0 => s \in stop']_vars

(* With a single worker the nine statements of a transaction are one step  *)
(* to whoever reads the book: a fill of one symbol, the cash it moves and  *)
(* what is shown of both change together                                   *)
(* (docs/architecture/REFERENCE_ARCHITECTURE.md:266, "eliminates           *)
(* update-in-place anomalies").                                            *)
Atomic == INSTANCE AtomicBook WITH cash <- portfolio.cash

TradesAreAtomic == Atomic!Spec

(* No two rebuilds wait for each other: every transaction ends.            *)
EveryTransactionEnds == \A w \in Workers : (tx[w].pc # "idle") ~> (tx[w].pc = "idle")
=============================================================================
