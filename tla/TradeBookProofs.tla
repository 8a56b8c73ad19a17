---------------------------- MODULE TradeBookProofs ----------------------------
(***************************************************************************)
(* Proofs about TradeBook, for every set of orders, symbols and runs, every*)
(* way in which fill keys collide and every seed.  The steps of the desk   *)
(* are steps of DecisionRun or leave the runs alone, so that the invariant *)
(* of DecisionRunProofs holds; that nothing but what was discovered is     *)
(* traded needs to follow a symbol through what a run is working on.       *)
(***************************************************************************)
EXTENDS TradeBook, DecisionRunProofs, SumsAndMaxima

Tradable == Discovery \cup opening.known

(* What a worker's run may still store a reference for.                    *)
Discovered(w) ==
    /\ universe[w] \subseteq Tradable
    /\ tx[w].row.facts \subseteq Tradable
    /\ tx[w].added \subseteq Tradable
    /\ tx[w].pc = "referencing" => tx[w].symbol \in Tradable

DiscoveryInv ==
    /\ reference \subseteq Tradable
    /\ \A w \in Workers : Discovered(w)
    /\ \A o \in Orders :
          order[o].status # "absent" => order[o].symbol \in Tradable \ opening.foreign
    /\ \A s \in Symbols : shown.shares[s] # 0 => s \in Tradable
    /\ \A s \in Symbols : held[s] # 0 => s \in Tradable \ opening.foreign

DeskInv ==
    /\ IInv
    /\ DeskTypeOK
    /\ ReportedOrdersAreBooked
    /\ DiscoveryInv

USE DecisionRunAssumption, TradeBookAssumption

-----------------------------------------------------------------------------

LEMMA ReportLeavesRuns == \A o \in Orders : \A answer : Report(o, answer) => UNCHANGED vars
  BY DEF Report

LEMMA TradeLeavesRuns == \A o \in Orders : \A s, q : Trade(o, s, q) => UNCHANGED vars
  BY ReportLeavesRuns DEF Trade, Fail

(* A step of the desk is a step of a run or leaves the runs alone.         *)
LEMMA DeskStepIsRunStep == DeskNext => [Next]_vars
  <1> SUFFICES ASSUME DeskNext PROVE [Next]_vars
    OBVIOUS
  <1>1. ASSUME NEW w \in Workers, RunStep(w) PROVE [Next]_vars
    BY <1>1 DEF RunStep, ReserveRun, FetchUniverse, OtherStatement, Rebuild, CommitRun,
                AbortRun, Next, Proceed
  <1>2. ASSUME NEW o \in Orders, OrderCommand(o) PROVE UNCHANGED vars
    <2>1. CASE SubmitOrder(o) \/ ApproveCandidate(o)
      BY <2>1, TradeLeavesRuns DEF SubmitOrder, ApproveCandidate
    <2>2. CASE FlattenPosition(o)
      BY <2>2, TradeLeavesRuns, ReportLeavesRuns DEF FlattenPosition, Refuse
    <2>3. CASE ModifyCandidate(o)
      BY <2>3, TradeLeavesRuns, ReportLeavesRuns DEF ModifyCandidate, Refuse, Fail
    <2>4. CASE TradeFails(o)
      BY <2>4, ReportLeavesRuns DEF TradeFails, Fail
    <2> QED
      BY <1>2, <2>1, <2>2, <2>3, <2>4 DEF OrderCommand
  <1>3. ASSUME NEW o \in Recalled, CancelOrder(o) PROVE UNCHANGED vars
    BY <1>3 DEF CancelOrder
  <1>4. ASSUME SetHalt \/ ClearHalt PROVE Next
    BY <1>4 DEF SetHalt, ClearHalt, Next
  <1> QED
    BY <1>1, <1>2, <1>3, <1>4 DEF DeskNext

LEMMA DeskInitInv == DeskInit => DeskInv
  <1> SUFFICES ASSUME DeskInit PROVE DeskInv
    OBVIOUS
  <1>1. /\ opening \in [known : SUBSET Symbols, foreign : SUBSET Symbols]
        /\ reference = opening.known
    BY DEF DeskInit, EmptyBook, SeededBook, SeededReferences, ImportedBook, ImportedReferences
  <1>2. TypeOK
    BY <1>1, IdleProgress DEF DeskInit, TypeOK, Progress, NoRow, Row, RunStatus
  <1>3. ProgressInv /\ OneTransactionPerRun
    BY IdleProgress DEF DeskInit, ProgressInv, OneTransactionPerRun, Idle
  <1>4. /\ MarksAreReported /\ ReportsMatchRows /\ MarksAreFullyScored
        /\ HaltedRunsLeaveNothing /\ ScorecardsHaveReferences
    BY DEF DeskInit, MarksAreReported, ReportsMatchRows, MarksAreFullyScored,
           HaltedRunsLeaveNothing, ScorecardsHaveReferences, NoRow
  <1>5. /\ held \in [Symbols -> Int] /\ price \in [Symbols -> Nat \ {0}]
        /\ ledger \in Int /\ shown \in Projection
        /\ haltRow \in {"none", "cleared"}
    <2>1. CASE EmptyBook
      BY <2>1 DEF EmptyBook, NoTrades, DefaultPrice, Projection
    <2>2. CASE SeededBook
      BY <2>2 DEF SeededBook, SeededTrades, SeededProjection, Projection
    <2>3. CASE ImportedBook
      BY <2>3 DEF ImportedBook, ImportedTrades, NoTrades, ImportedPositions, DefaultPrice,
                  Projection
    <2> QED
      BY <2>1, <2>2, <2>3 DEF DeskInit
  <1>6. DeskTypeOK
    BY <1>1, <1>2, <1>5 DEF DeskInit, DeskTypeOK, NoOrder, OrderRow
  <1>7. ReportedOrdersAreBooked
    BY DEF DeskInit, ReportedOrdersAreBooked, Booked, NoOrder
  <1>8. DiscoveryInv
    <2>1. \A w \in Workers : Discovered(w)
      BY DEF DeskInit, Discovered, Idle, NoRow
    <2>2. /\ \A s \in Symbols : shown.shares[s] # 0 => s \in Tradable
          /\ \A s \in Symbols : held[s] # 0 => s \in Tradable \ opening.foreign
      <3>1. CASE EmptyBook
        BY <3>1 DEF EmptyBook, NoTrades
      <3>2. CASE SeededBook
        BY <3>2 DEF SeededBook, SeededTrades, SeededProjection, SeededReferences, Tradable
      <3>3. CASE ImportedBook
        BY <3>3 DEF ImportedBook, ImportedTrades, NoTrades, ImportedPositions, ImportedReferences,
                    Tradable
      <3> QED
        BY <3>1, <3>2, <3>3 DEF DeskInit
    <2>3. \A o \in Orders : order[o].status = "absent"
      BY DEF DeskInit, NoOrder
    <2>4. reference \subseteq Tradable
      BY <1>1 DEF Tradable
    <2> QED
      BY <2>1, <2>2, <2>3, <2>4 DEF DiscoveryInv
  <1> QED
    BY <1>2, <1>3, <1>4, <1>6, <1>7, <1>8 DEF DeskInv, IInv

-----------------------------------------------------------------------------
(* The trades *)

LEMMA CurrentPriceIsPrice ==
    ASSUME DeskTypeOK, NEW s \in Symbols
    PROVE  CurrentPrice(s) \in Nat \ {0}
  BY DEF DeskTypeOK, CurrentPrice, DefaultPrice, Projection

LEMMA ProductIsInt == \A q \in Int, p \in Int : q * p \in Int
  OBVIOUS

LEMMA FillIsTyped ==
    ASSUME DeskTypeOK, NEW o \in Orders, NEW s \in Symbols, NEW q \in Int, BookFill(o, s, q)
    PROVE  /\ fill' \in [Keys -> Orders \cup {None}]
           /\ held' \in [Symbols -> Int]
           /\ price' \in [Symbols -> Nat \ {0}]
           /\ ledger' \in Int
  <1>1. CASE fill[FillKey[o]] # None
    BY <1>1 DEF BookFill, DeskTypeOK
  <1>2. CASE fill[FillKey[o]] = None
    <2> DEFINE p == CurrentPrice(s)
    <2>1. p \in Nat \ {0} /\ q * p \in Int
      BY CurrentPriceIsPrice, ProductIsInt
    <2>2. /\ fill' = [fill EXCEPT ![FillKey[o]] = o]
          /\ held' = [held EXCEPT ![s] = @ + q]
          /\ price' = [price EXCEPT ![s] = p]
          /\ ledger' = ledger - q * p
      BY <1>2 DEF BookFill
    <2> HIDE DEF p
    <2>3. ledger' \in Int
      <3> DEFINE paid == q * p
      <3>1. paid \in Int /\ ledger \in Int /\ ledger' = ledger - paid
        BY <2>1, <2>2 DEF DeskTypeOK
      <3> HIDE DEF paid
      <3> QED
        BY <3>1
    <2> QED
      BY <2>1, <2>2, <2>3 DEF DeskTypeOK
  <1> QED
    BY <1>1, <1>2

(* A command that reports something and touches no table.                  *)
LEMMA ReportInv ==
    ASSUME DeskInv, IInv', NEW o \in Orders, outcome[o] = "none",
           Fail(o) \/ Refuse(o)
    PROVE  DeskInv'
  <1>1. PICK answer \in {"error", "refused"} : outcome' = [outcome EXCEPT ![o] = answer]
    BY DEF Fail, Refuse, Report
  <1>2. /\ UNCHANGED <<vars, haltRow, universe, opening>>
        /\ UNCHANGED <<order, fill, held, price, ledger, shown>>
    BY DEF Fail, Refuse, Report, tables
  <1>3. outcome \in [Orders -> {"none", "booked", "refused", "error"}]
    BY DEF DeskInv, DeskTypeOK
  <1>4. DeskTypeOK'
    BY <1>1, <1>2, <1>3 DEF DeskInv, DeskTypeOK, vars, IInv
  <1>5. ReportedOrdersAreBooked'
    <2>1. \A p \in Orders : Booked(p)' <=> Booked(p)
      BY <1>1, <1>3 DEF Booked
    <2>2. \A k \in Keys : fill[k] \in Orders \cup {None}
      BY DEF DeskInv, DeskTypeOK
    <2> QED
      BY <1>2, <2>1, <2>2 DEF DeskInv, ReportedOrdersAreBooked
  <1>6. DiscoveryInv'
    BY <1>2 DEF DeskInv, DiscoveryInv, Discovered, Tradable, vars
  <1> QED
    BY <1>4, <1>5, <1>6 DEF DeskInv

LEMMA TradeInv ==
    ASSUME DeskInv, IInv', NEW o \in Orders, outcome[o] = "none",
           NEW s \in Symbols, NEW q \in Int, Trade(o, s, q)
    PROVE  DeskInv'
  <1>1. CASE ~Orderable(s, q)
    BY <1>1, ReportInv DEF Trade
  <1>2. CASE Orderable(s, q)
    <2>1. /\ order' = [order EXCEPT ![o] = [status |-> "pending", symbol |-> s, quantity |-> q]]
          /\ BookFill(o, s, q)
          /\ shown' = FromFills(held', price', ledger')
          /\ outcome' = [outcome EXCEPT ![o] = "booked"]
          /\ UNCHANGED <<vars, haltRow, universe, opening>>
      BY <1>2 DEF Trade, CreateOrder, Report
    <2>2. /\ fill' \in [Keys -> Orders \cup {None}]
          /\ held' \in [Symbols -> Int]
          /\ price' \in [Symbols -> Nat \ {0}]
          /\ ledger' \in Int
      BY <2>1, FillIsTyped DEF DeskInv
    <2>3. shown' \in Projection /\ shown'.shares = held'
      BY <2>1, <2>2 DEF FromFills, Projection
    <2>4. /\ order \in [Orders -> OrderRow]
          /\ outcome \in [Orders -> {"none", "booked", "refused", "error"}]
          /\ fill \in [Keys -> Orders \cup {None}]
          /\ held \in [Symbols -> Int]
      BY DEF DeskInv, DeskTypeOK
    <2>5. DeskTypeOK'
      <3>1. order' \in [Orders -> OrderRow]
        BY <2>1, <2>4 DEF OrderRow
      <3> QED
        BY <2>1, <2>2, <2>3, <2>4, <3>1 DEF DeskInv, DeskTypeOK, vars, IInv
    <2>6. ReportedOrdersAreBooked'
      <3>1. \A p \in Orders : outcome'[p] = "booked" <=> p = o \/ Booked(p)
        BY <2>1, <2>4 DEF Booked
      <3>2. \A p \in Orders : /\ p = o => order'[p].status = "pending"
                              /\ p # o => order'[p] = order[p]
        BY <2>1, <2>4
      <3>3. \A k \in Keys : fill[k] # None => Booked(fill[k])
        BY <2>4 DEF DeskInv, ReportedOrdersAreBooked
      <3>4. \A k \in Keys : /\ fill[k] # None => fill'[k] = fill[k]
                            /\ fill'[k] \in {fill[k], o}
        BY <2>1, <2>4 DEF BookFill
      <3>5. fill'[FillKey[o]] # None
        BY <2>1, <2>4 DEF BookFill
      <3>6. \A k \in Keys : fill'[k] # None => outcome'[fill'[k]] = "booked"
        BY <2>2, <2>4, <3>1, <3>3, <3>4
      <3>7. \A p \in Orders : FillKey[p] \in Keys
        OBVIOUS
      <3>8. ASSUME NEW p \in Orders
            PROVE  /\ outcome'[p] = "booked" <=> order'[p].status # "absent"
                   /\ outcome'[p] = "booked" => /\ fill'[FillKey[p]] # None
                                                /\ outcome'[fill'[FillKey[p]]] = "booked"
                   /\ outcome'[p] # "booked" => \A k \in Keys : fill'[k] # p
        <4>1. outcome'[p] = "booked" <=> order'[p].status # "absent"
          BY <3>1, <3>2 DEF DeskInv, ReportedOrdersAreBooked
        <4>2. outcome'[p] = "booked" => fill'[FillKey[p]] # None
          BY <3>1, <3>4, <3>5, <3>7 DEF DeskInv, ReportedOrdersAreBooked
        <4>3. outcome'[p] # "booked" => \A k \in Keys : fill'[k] # p
          BY <3>6
        <4> QED
          BY <3>6, <3>7, <4>1, <4>2, <4>3
      <3> QED
        BY <3>8 DEF ReportedOrdersAreBooked, Booked
    <2>7. DiscoveryInv'
      <3>1. s \in Tradable \ opening.foreign
        BY <1>2 DEF Orderable, DeskInv, DiscoveryInv
      <3>2. \A p \in Symbols : held'[p] # 0 => p \in Tradable \ opening.foreign
        BY <2>1, <2>4, <3>1 DEF BookFill, DeskInv, DiscoveryInv
      <3>3. \A p \in Orders :
               order'[p].status # "absent" => order'[p].symbol \in Tradable \ opening.foreign
        BY <2>1, <2>4, <3>1 DEF DeskInv, DiscoveryInv
      <3> QED
        BY <2>1, <2>3, <3>2, <3>3 DEF DeskInv, DiscoveryInv, Discovered, Tradable, vars
    <2> QED
      BY <2>5, <2>6, <2>7 DEF DeskInv
  <1> QED
    BY <1>1, <1>2

LEMMA OrderCommandInv ==
    ASSUME DeskInv, IInv', NEW o \in Orders, OrderCommand(o)
    PROVE  DeskInv'
  <1>0. outcome[o] = "none"
    BY DEF OrderCommand
  <1>1. CASE SubmitOrder(o) \/ ApproveCandidate(o)
    <2>1. PICK s \in Symbols, q \in Int : Trade(o, s, q)
      BY <1>1 DEF SubmitOrder, ApproveCandidate
    <2> QED
      BY <1>0, <2>1, TradeInv
  <1>2. CASE FlattenPosition(o)
    <2>1. PICK s \in Symbols :
             IF s \in HeldSymbols THEN Trade(o, s, -shown.shares[s]) ELSE Refuse(o)
      BY <1>2 DEF FlattenPosition
    <2>2. -shown.shares[s] \in Int
      BY DEF DeskInv, DeskTypeOK, Projection
    <2> QED
      BY <1>0, <2>1, <2>2, TradeInv, ReportInv
  <1>3. CASE ModifyCandidate(o)
    <2>1. CASE haltRow # "none"
      BY <1>0, <1>3, <2>1, ReportInv DEF ModifyCandidate
    <2>2. CASE haltRow = "none"
      <3>1. \/ Refuse(o)
            \/ \E s \in Symbols, q \in Int : Trade(o, s, q)
        BY <1>3, <2>2 DEF ModifyCandidate
      <3> QED
        BY <1>0, <3>1, TradeInv, ReportInv
    <2> QED
      BY <2>1, <2>2
  <1>4. CASE TradeFails(o)
    BY <1>0, <1>4, ReportInv DEF TradeFails
  <1> QED
    BY <1>1, <1>2, <1>3, <1>4 DEF OrderCommand

-----------------------------------------------------------------------------
(* The runs *)

(* A step of a worker's run that works on what was discovered, and shows   *)
(* either what was shown or the fills.                                     *)
LEMMA RunFrame ==
    ASSUME DeskInv, IInv', NEW w \in Workers, NEW t, NEW u \in SUBSET Symbols,
           tx' = [tx EXCEPT ![w] = t], universe' = [universe EXCEPT ![w] = u],
           UNCHANGED <<order, fill, held, price, ledger, haltRow, outcome, opening, halted>>,
           shown' = shown \/ shown' = FromFills(held, price, ledger),
           reference' \subseteq Tradable,
           u \subseteq Tradable, t.row.facts \subseteq Tradable, t.added \subseteq Tradable,
           t.pc = "referencing" => t.symbol \in Tradable
    PROVE  DeskInv'
  <1>1. tx \in [Workers -> Transaction] /\ universe \in [Workers -> SUBSET Symbols]
    BY DEF DeskInv, DeskTypeOK, IInv, TypeOK
  <1>2. shown' \in Projection
    BY DEF DeskInv, DeskTypeOK, FromFills, Projection
  <1>3. DeskTypeOK'
    <2>1. TypeOK' /\ universe' \in [Workers -> SUBSET Symbols]
      BY <1>1 DEF IInv
    <2> QED
      BY <1>2, <2>1 DEF DeskInv, DeskTypeOK
  <1>4. ReportedOrdersAreBooked'
    BY DEF DeskInv, ReportedOrdersAreBooked, Booked
  <1>5. DiscoveryInv'
    <2>1. ASSUME NEW v \in Workers PROVE Discovered(v)'
      <3>1. CASE v = w
        BY <1>1, <3>1 DEF Discovered, Tradable
      <3>2. CASE v # w
        BY <1>1, <3>2 DEF DeskInv, DiscoveryInv, Discovered, Tradable
      <3> QED
        BY <3>1, <3>2
    <2>2. \A s \in Symbols : shown'.shares[s] # 0 => s \in Tradable
      BY DEF DeskInv, DiscoveryInv, FromFills
    <2> QED
      BY <2>1, <2>2 DEF DeskInv, DiscoveryInv, Tradable
  <1> QED
    BY <1>3, <1>4, <1>5 DEF DeskInv

(* A statement that leaves the desk alone.                                 *)
LEMMA StatementFrame ==
    ASSUME DeskInv, IInv', NEW w \in Workers, NEW t, Advance(w, t), UNCHANGED desk,
           t.row.facts \subseteq Tradable, t.added \subseteq Tradable,
           t.pc = "referencing" => t.symbol \in Tradable
    PROVE  DeskInv'
  <1>1. /\ universe \in [Workers -> SUBSET Symbols] /\ universe[w] \subseteq Tradable
        /\ reference \subseteq Tradable
    BY DEF DeskInv, DeskTypeOK, DiscoveryInv, Discovered
  <1>2. /\ tx' = [tx EXCEPT ![w] = t]
        /\ UNCHANGED <<order, fill, held, price, ledger, shown, haltRow, outcome, universe,
                       opening, halted, reference>>
    BY DEF Advance, committed, desk, tables
  <1>3. universe' = [universe EXCEPT ![w] = universe[w]]
    BY <1>1, <1>2
  <1> QED
    BY <1>1, <1>2, <1>3, RunFrame

LEMMA StatementOfRunInv ==
    ASSUME DeskInv, IInv', NEW w \in Workers, OtherStatement(w) \/ Rebuild(w)
    PROVE  DeskInv'
  <1>1. /\ tx[w] \in Transaction /\ UNCHANGED desk
        /\ tx[w].row.facts \subseteq Tradable /\ tx[w].added \subseteq Tradable
        /\ tx[w].pc = "referencing" => tx[w].symbol \in Tradable
    BY DEF DeskInv, IInv, TypeOK, DiscoveryInv, Discovered, OtherStatement, Rebuild
  <1> USE <1>1, StatementFrame
  <1>2. CASE Start(w)
    <2> DEFINE t == [tx[w] EXCEPT !.pc = "started", !.row.status = "running"]
    <2>1. /\ t.row.facts = tx[w].row.facts /\ t.added = tx[w].added /\ t.pc = "started"
          /\ Advance(w, t)
      BY <1>2 DEF Start, Transaction, Row
    <2> QED
      BY <2>1
  <1>3. CASE SkipHalted(w)
    <2> DEFINE t == [tx[w] EXCEPT !.pc = "returning", !.answer = "book_halted",
                                  !.row = CompleteRun(tx[w].row, "halted")]
    <2>1. /\ t.row.facts = tx[w].row.facts /\ t.added = tx[w].added /\ t.pc = "returning"
          /\ Advance(w, t)
      BY <1>3 DEF SkipHalted, Transaction, Row, CompleteRun
    <2> QED
      BY <2>1
  <1>4. CASE EndScoring(w)
    <2> DEFINE t == [tx[w] EXCEPT !.pc = "marking"]
    <2>1. /\ t.row.facts = tx[w].row.facts /\ t.added = tx[w].added /\ t.pc = "marking"
          /\ Advance(w, t)
      BY <1>4 DEF EndScoring, Transaction
    <2> QED
      BY <2>1
  <1>5. CASE SaveMark(w)
    <2> DEFINE t == [tx[w] EXCEPT !.pc = "rebuilding", !.marked = TRUE]
    <2>1. /\ t.row.facts = tx[w].row.facts /\ t.added = tx[w].added /\ t.pc = "rebuilding"
          /\ Advance(w, t)
      BY <1>5 DEF SaveMark, Transaction
    <2> QED
      BY <2>1
  <1>6. CASE InsertReference(w)
    <2> DEFINE s == tx[w].symbol
               t == [tx[w] EXCEPT !.pc = "scoring", !.symbol = None,
                                  !.added = IF s \in reference THEN @ ELSE @ \cup {s},
                                  !.row.scored = @ \cup {s}]
    <2>1. /\ t.row.facts = tx[w].row.facts /\ t.added \subseteq tx[w].added \cup {s}
          /\ t.pc = "scoring" /\ s \in Tradable /\ Advance(w, t)
      BY <1>6 DEF InsertReference, Transaction, Row
    <2> QED
      BY <2>1
  <1>7. CASE Raise(w)
    <2> DEFINE t == [tx[w] EXCEPT !.pc = "returning", !.answer = "succeeded",
                                  !.row = CompleteRun(tx[w].row, "failed")]
    <2>1. /\ t.row.facts = tx[w].row.facts /\ t.added = tx[w].added /\ t.pc = "returning"
          /\ Advance(w, t)
      BY <1>7 DEF Raise, Transaction, Row, CompleteRun
    <2> QED
      BY <2>1
  <1>8. ASSUME NEW s \in Symbols, SaveScorecard(w, s) PROVE DeskInv'
    <2> DEFINE t == [tx[w] EXCEPT !.row.scored = @ \cup {s}]
    <2>1. /\ t.row.facts = tx[w].row.facts /\ t.added = tx[w].added /\ t.pc = "scoring"
          /\ Advance(w, t)
      BY <1>8 DEF SaveScorecard, Transaction, Row
    <2> QED
      BY <2>1
  <1>9. ASSUME NEW s \in Symbols, MissReference(w, s) PROVE DeskInv'
    <2> DEFINE t == [tx[w] EXCEPT !.pc = "referencing", !.symbol = s]
    <2>1. /\ t.row.facts = tx[w].row.facts /\ t.added = tx[w].added
          /\ t.symbol = s /\ s \in tx[w].row.facts /\ Advance(w, t)
      BY <1>9 DEF MissReference, Transaction
    <2> QED
      BY <2>1
  <1>10. CASE RebuildAndComplete(w)
    <2> DEFINE t == [tx[w] EXCEPT !.pc = "returning", !.answer = "succeeded",
                                  !.row = CompleteRun(tx[w].row, "completed")]
    <2>1. /\ t.row.facts = tx[w].row.facts /\ t.added = tx[w].added /\ t.pc = "returning"
          /\ Advance(w, t)
      BY <1>10 DEF RebuildAndComplete, Transaction, Row, CompleteRun
    <2> QED
      BY <2>1
  <1> QED
    BY <1>2, <1>3, <1>4, <1>5, <1>6, <1>7, <1>8, <1>9, <1>10 DEF OtherStatement, Rebuild

LEMMA UniverseIsTradable ==
    ASSUME DeskInv
    PROVE  Universe \subseteq Symbols /\ Universe \subseteq Tradable
  BY DEF DeskInv, DiscoveryInv, Universe, HeldSymbols, Tradable

LEMMA RunStepInv ==
    ASSUME DeskInv, IInv', NEW w \in Workers, RunStep(w)
    PROVE  DeskInv'
  <1>1. /\ tx \in [Workers -> Transaction] /\ universe \in [Workers -> SUBSET Symbols]
        /\ Discovered(w) /\ reference \subseteq Tradable
    BY DEF DeskInv, DeskTypeOK, IInv, TypeOK, DiscoveryInv
  <1>2. ASSUME NEW r \in Runs, ReserveRun(w, r) PROVE DeskInv'
    <2>1. PICK d \in Days :
             Advance(w, [Idle EXCEPT !.pc = "reserved", !.run = r, !.day = d,
                                     !.row.status = "reserved"])
      BY <1>2 DEF ReserveRun, Reserve
    <2> DEFINE t == [Idle EXCEPT !.pc = "reserved", !.run = r, !.day = d,
                                 !.row.status = "reserved"]
    <2>2. t.row.facts = {} /\ t.added = {} /\ t.pc = "reserved"
      BY DEF Idle, NoRow
    <2>3. /\ tx' = [tx EXCEPT ![w] = t] /\ universe' = [universe EXCEPT ![w] = Universe]
          /\ UNCHANGED <<order, fill, held, price, ledger, shown, haltRow, outcome, opening,
                         halted, reference>>
      BY <1>2, <2>1 DEF ReserveRun, Advance, committed, tables
    <2> QED
      BY <1>1, <2>2, <2>3, UniverseIsTradable, RunFrame
  <1>3. CASE FetchUniverse(w)
    <2>1. PICK facts \in SUBSET Symbols :
             Advance(w, [tx[w] EXCEPT !.pc = "scoring", !.row.facts = facts])
      BY <1>3 DEF FetchUniverse, FetchFacts
    <2> DEFINE t == [tx[w] EXCEPT !.pc = "scoring", !.row.facts = facts]
    <2>2. t.row.facts = facts /\ t.added = tx[w].added /\ t.pc = "scoring"
      BY <1>1 DEF Transaction, Row
    <2>3. tx'[w] = t
      BY <1>1, <2>1 DEF Advance
    <2>4. facts \subseteq universe[w] /\ UNCHANGED desk
      BY <1>3, <2>2, <2>3 DEF FetchUniverse
    <2> QED
      BY <1>1, <2>1, <2>2, <2>4, StatementFrame DEF Discovered
  <1>4. CASE OtherStatement(w) \/ Rebuild(w)
    BY <1>4, StatementOfRunInv
  <1>5. CASE CommitRun(w) \/ AbortRun(w)
    <2>1. /\ tx' = [tx EXCEPT ![w] = Idle] /\ universe' = [universe EXCEPT ![w] = {}]
          /\ UNCHANGED <<order, fill, held, price, ledger, haltRow, outcome, opening, halted>>
          /\ shown' = shown \/ shown' = FromFills(held, price, ledger)
          /\ reference' \subseteq reference \cup tx[w].added
      BY <1>5 DEF CommitRun, Commit, AbortRun, SqlError, Abort, tables
    <2>2. reference' \subseteq Tradable
      BY <1>1, <2>1 DEF Discovered
    <2>3. Idle.row.facts = {} /\ Idle.added = {} /\ Idle.pc = "idle"
      BY DEF Idle, NoRow
    <2> QED
      BY <2>1, <2>2, <2>3, RunFrame
  <1> QED
    BY <1>2, <1>3, <1>4, <1>5 DEF RunStep

LEMMA DeskStepInv == DeskInv /\ [DeskNext]_deskVars => DeskInv'
  <1> SUFFICES ASSUME DeskInv, [DeskNext]_deskVars PROVE DeskInv'
    OBVIOUS
  <1>1. IInv'
    <2>1. [Next]_vars
      BY DeskStepIsRunStep DEF deskVars
    <2> QED
      BY <2>1, StepInv DEF DeskInv
  <1>2. ASSUME NEW w \in Workers, RunStep(w) PROVE DeskInv'
    BY <1>1, <1>2, RunStepInv
  <1>3. ASSUME NEW o \in Orders, OrderCommand(o) PROVE DeskInv'
    BY <1>1, <1>3, OrderCommandInv
  <1>4. ASSUME NEW o \in Recalled, CancelOrder(o) PROVE DeskInv'
    <2>1. /\ order' = [order EXCEPT ![o].status = IF @ = "pending" THEN "cancelled" ELSE @]
          /\ UNCHANGED <<vars, fill, held, price, ledger, shown, haltRow, outcome, universe,
                         opening>>
      BY <1>4 DEF CancelOrder
    <2>2. order \in [Orders -> OrderRow] /\ o \in Orders
      BY DEF DeskInv, DeskTypeOK
    <2>3. /\ order' \in [Orders -> OrderRow]
          /\ \A p \in Orders : /\ order'[p].status = "absent" <=> order[p].status = "absent"
                               /\ order'[p].symbol = order[p].symbol
      BY <2>1, <2>2 DEF OrderRow
    <2>4. DeskTypeOK'
      BY <1>1, <2>1, <2>3 DEF DeskInv, DeskTypeOK, IInv, vars
    <2>5. ReportedOrdersAreBooked'
      BY <2>1, <2>3 DEF DeskInv, ReportedOrdersAreBooked, Booked
    <2>6. DiscoveryInv'
      BY <2>1, <2>3 DEF DeskInv, DiscoveryInv, Discovered, Tradable, vars
    <2> QED
      BY <1>1, <2>4, <2>5, <2>6 DEF DeskInv
  <1>5. CASE SetHalt \/ ClearHalt \/ UNCHANGED deskVars
    <2>1. /\ UNCHANGED <<order, fill, held, price, ledger, shown, outcome, universe, opening,
                         reference, tx>>
          /\ haltRow' \in {"none", "set", "cleared"}
      BY <1>5 DEF SetHalt, ClearHalt, ToggleHalt, committed, tables, desk, deskVars, vars,
                  DeskInv, DeskTypeOK
    <2>2. (halted <=> haltRow = "set")'
      <3>1. halted <=> haltRow = "set"
        BY DEF DeskInv, DeskTypeOK
      <3>2. CASE SetHalt
        BY <3>2, Zenon DEF SetHalt, ToggleHalt
      <3>3. CASE ClearHalt
        <4>1. haltRow' # "set"
          BY <3>3 DEF ClearHalt
        <4>2. ~halted'
          BY <3>3, Zenon DEF ClearHalt, ToggleHalt
        <4> QED
          BY <4>1, <4>2
      <3>4. CASE UNCHANGED deskVars
        BY <3>1, <3>4 DEF deskVars, desk, vars
      <3> QED
        BY <1>5, <3>2, <3>3, <3>4
    <2>3. DeskTypeOK'
      BY <1>1, <2>1, <2>2 DEF DeskInv, DeskTypeOK, IInv
    <2>4. ReportedOrdersAreBooked' /\ DiscoveryInv'
      BY <2>1 DEF DeskInv, ReportedOrdersAreBooked, Booked, DiscoveryInv, Discovered, Tradable
    <2> QED
      BY <1>1, <2>3, <2>4 DEF DeskInv
  <1> QED
    BY <1>2, <1>3, <1>4, <1>5 DEF DeskNext

LEMMA DeskInvariance == DeskSpec => []DeskInv
    BY DeskInitInv, DeskStepInv, PTL DEF DeskSpec

(* An order command trades, or touches no table.                           *)
LEMMA OrderCommandTrades ==
    ASSUME DeskTypeOK, NEW o \in Orders, OrderCommand(o)
    PROVE  Fail(o) \/ Refuse(o) \/ \E s \in Symbols, q \in Int : Trade(o, s, q)
  <1>1. \A s \in Symbols : -shown.shares[s] \in Int
    BY DEF DeskTypeOK, Projection
  <1>2. CASE SubmitOrder(o) \/ ApproveCandidate(o)
    BY <1>2 DEF SubmitOrder, ApproveCandidate
  <1>3. CASE FlattenPosition(o)
    BY <1>1, <1>3 DEF FlattenPosition
  <1>4. CASE ModifyCandidate(o)
    BY <1>4 DEF ModifyCandidate
  <1>5. CASE TradeFails(o)
    BY <1>5 DEF TradeFails
  <1> QED
    BY <1>2, <1>3, <1>4, <1>5 DEF OrderCommand

-----------------------------------------------------------------------------
(* The in-memory store *)

(* In a book that began empty every fill is booked at the default price.   *)
FakeInv ==
    BegunEmpty => ProjectionShowsFills /\ \A s \in Symbols : price[s] = DefaultPrice

Cache ==
    [s \in HeldSymbols |-> [quantity |-> shown.shares[s], price |-> shown.price[s]]]

Taken == {k \in Keys : fill[k] # None}

LEMMA CacheIsRebuilt == ProjectionShowsFills => Cache = Fake!Positions(held, price)
  BY DEF ProjectionShowsFills, Cache, HeldSymbols, Fake!Positions

LEMMA ShowingFills ==
    ASSUME DeskTypeOK', shown' = FromFills(held', price', ledger')
    PROVE  ProjectionShowsFills' /\ Cache' = Fake!Positions(held', price')
  <1>1. ProjectionShowsFills'
    BY DEF ProjectionShowsFills, FromFills
  <1>2. Cache' = Fake!Positions(held', price')
    BY <1>1 DEF ProjectionShowsFills, Cache, HeldSymbols, Fake!Positions
  <1> QED
    BY <1>1, <1>2

LEMMA FakeFrame ==
    ASSUME DeskInv, FakeInv, UNCHANGED tables, opening' = opening
    PROVE  FakeInv' /\ UNCHANGED <<Taken, held, price, shown.cash, Cache>>
  <1>1. UNCHANGED <<fill, held, price, ledger, shown>>
    BY DEF tables
  <1>2. FakeInv'
    BY <1>1 DEF FakeInv, BegunEmpty, ProjectionShowsFills, HeldSymbols
  <1>3. UNCHANGED <<Taken, held, price, shown.cash, Cache>>
    BY <1>1 DEF Taken, Cache, HeldSymbols
  <1> QED
    BY <1>2, <1>3

LEMMA TradeIsFake ==
    ASSUME DeskInv, DeskInv', FakeInv, NEW o \in Orders, NEW s \in Symbols, NEW q \in Int,
           Trade(o, s, q)
    PROVE  FakeInv' /\ (BegunEmpty => [Fake!Next]_(Fake!vars))
  <1>1. CASE ~Orderable(s, q)
    <2>1. UNCHANGED tables /\ opening' = opening /\ haltRow' = haltRow
      BY <1>1 DEF Trade, Fail, Report
    <2> QED
      BY <2>1, FakeFrame DEF Fake!vars, Taken, Cache
  <1>2. CASE Orderable(s, q)
    <2> DEFINE k == FillKey[o]
    <2>1. /\ BookFill(o, s, q)
          /\ shown' = FromFills(held', price', ledger')
          /\ opening' = opening /\ haltRow' = haltRow
      BY <1>2 DEF Trade, Report
    <2>2. ProjectionShowsFills' /\ Cache' = Fake!Positions(held', price')
      BY <2>1, ShowingFills DEF DeskInv
    <2>3. CASE ~BegunEmpty
      BY <2>1, <2>3 DEF FakeInv, BegunEmpty
    <2>4. CASE BegunEmpty
      <3>1. /\ ProjectionShowsFills /\ \A p \in Symbols : price[p] = DefaultPrice
            /\ CurrentPrice(s) = DefaultPrice
        BY <2>4 DEF FakeInv, ProjectionShowsFills, CurrentPrice, HeldSymbols
      <3>2. /\ held \in [Symbols -> Int] /\ price \in [Symbols -> Nat \ {0}]
            /\ fill \in [Keys -> Orders \cup {None}] /\ ledger \in Int
            /\ k \in Keys /\ o # None
        BY DEF DeskInv, DeskTypeOK
      <3>3. shown.cash = ledger /\ shown'.cash = ledger'
        BY <2>1, <3>1 DEF ProjectionShowsFills, FromFills
      <3>4. CASE fill[k] # None
        <4>1. UNCHANGED <<fill, held, price, ledger>> /\ k \in Taken
          BY <2>1, <3>2, <3>4 DEF BookFill, Taken
        <4>2. FakeInv'
          BY <2>2, <3>1, <4>1 DEF FakeInv
        <4>3. UNCHANGED <<Taken, held, price, shown.cash, Cache, haltRow>>
          BY <2>1, <2>2, <3>1, <3>3, <4>1, CacheIsRebuilt DEF Taken, Fake!Positions
        <4> QED
          BY <4>2, <4>3 DEF Fake!vars, Taken, Cache
      <3>5. CASE fill[k] = None
        <4>1. /\ fill' = [fill EXCEPT ![k] = o]
              /\ held' = [held EXCEPT ![s] = @ + q]
              /\ price' = [price EXCEPT ![s] = DefaultPrice]
              /\ ledger' = ledger - q * DefaultPrice
          BY <2>1, <3>1, <3>5 DEF BookFill
        <4>2. FakeInv'
          BY <2>1, <2>2, <3>1, <3>2, <4>1 DEF FakeInv
        <4>3. k \notin Taken /\ Taken' = Taken \cup {k}
          BY <3>2, <3>5, <4>1 DEF Taken
        <4>4. held'[s] - held[s] = q
          BY <3>2, <4>1
        <4>5. Fake!BookFill(k, s, q)
          BY <3>3, <4>1, <4>3 DEF Fake!BookFill, Fake!FillPrice, DefaultPrice, Taken
        <4>6. Fake!Trade(k, s, held'[s] - held[s])
          <5>1. Fake!Trade(k, s, q)
            BY <2>1, <2>2, <4>5 DEF Fake!Trade, Cache
          <5> QED
            BY <4>4, <5>1 DEF Fake!Trade, Fake!BookFill
        <4>7. Fake!Next
          BY <3>2, <4>6 DEF Fake!Next
        <4> QED
          BY <4>2, <4>7
      <3> QED
        BY <3>4, <3>5
    <2> QED
      BY <2>3, <2>4
  <1> QED
    BY <1>1, <1>2

LEMMA FakeStep ==
    ASSUME DeskInv, DeskInv', FakeInv, [DeskNext]_deskVars
    PROVE  FakeInv' /\ (BegunEmpty => [Fake!Next]_(Fake!vars))
  <1>1. ASSUME UNCHANGED tables, UNCHANGED <<opening, haltRow>>
        PROVE  FakeInv' /\ [Fake!Next]_(Fake!vars)
    BY <1>1, FakeFrame DEF Fake!vars, Taken, Cache
  <1>2. ASSUME NEW w \in Workers, RunStep(w)
        PROVE  FakeInv' /\ (BegunEmpty => [Fake!Next]_(Fake!vars))
    <2>1. CASE ~CommitRun(w)
      <3>1. UNCHANGED <<tables, opening, haltRow>>
        BY <1>2, <2>1 DEF RunStep, ReserveRun, FetchUniverse, OtherStatement, Rebuild,
                          AbortRun, desk
      <3> QED
        BY <3>1, <1>1
    <2>2. CASE CommitRun(w)
      <3>1. /\ UNCHANGED <<order, fill, held, price, ledger, haltRow, opening>>
            /\ shown' = shown \/ shown' = FromFills(held', price', ledger')
        BY <2>2 DEF CommitRun
      <3>2. CASE shown' = shown
        BY <3>1, <3>2, <1>1 DEF tables
      <3>3. CASE shown' = FromFills(held', price', ledger')
        <4>1. ProjectionShowsFills' /\ Cache' = Fake!Positions(held', price')
          BY <3>3, ShowingFills DEF DeskInv
        <4>2. FakeInv'
          BY <3>1, <4>1 DEF FakeInv, BegunEmpty
        <4>3. ASSUME BegunEmpty PROVE UNCHANGED <<Taken, held, price, shown.cash, Cache, haltRow>>
          <5>1. ProjectionShowsFills
            BY <4>3 DEF FakeInv
          <5>2. shown'.cash = shown.cash
            BY <3>1, <4>1, <5>1 DEF ProjectionShowsFills
          <5> QED
            BY <3>1, <4>1, <5>1, <5>2, CacheIsRebuilt DEF Taken, Fake!Positions
        <4> QED
          BY <4>2, <4>3 DEF Fake!vars, Taken, Cache
      <3> QED
        BY <3>1, <3>2, <3>3
    <2> QED
      BY <2>1, <2>2
  <1>3. ASSUME NEW o \in Orders, OrderCommand(o)
        PROVE  FakeInv' /\ (BegunEmpty => [Fake!Next]_(Fake!vars))
    <2>1. ASSUME NEW s \in Symbols, NEW q \in Int, Trade(o, s, q)
          PROVE  FakeInv' /\ (BegunEmpty => [Fake!Next]_(Fake!vars))
      BY <2>1, TradeIsFake
    <2>2. CASE Fail(o) \/ Refuse(o)
      <3>1. UNCHANGED tables /\ UNCHANGED <<opening, haltRow>>
        BY <2>2 DEF Fail, Refuse, Report
      <3> QED
        BY <3>1, <1>1
    <2>3. \/ Fail(o) \/ Refuse(o)
          \/ \E s \in Symbols, q \in Int : Trade(o, s, q)
      BY <1>3, OrderCommandTrades DEF DeskInv
    <2> QED
      BY <2>1, <2>2, <2>3
  <1>4. ASSUME NEW o \in Recalled, CancelOrder(o) PROVE FakeInv' /\ [Fake!Next]_(Fake!vars)
    <2>1. UNCHANGED <<fill, held, price, ledger, shown, opening, haltRow>>
      BY <1>4 DEF CancelOrder
    <2>2. FakeInv'
      BY <2>1 DEF FakeInv, BegunEmpty, ProjectionShowsFills, HeldSymbols
    <2> QED
      BY <2>1, <2>2 DEF Fake!vars, HeldSymbols
  <1>5. CASE SetHalt \/ ClearHalt
    <2>1. UNCHANGED tables /\ opening' = opening
      BY <1>5 DEF SetHalt, ClearHalt
    <2>2. FakeInv' /\ UNCHANGED <<Taken, held, price, shown.cash, Cache>>
      BY <2>1, FakeFrame
    <2>3. CASE SetHalt
      BY <2>2, <2>3 DEF SetHalt, Fake!Next, Fake!SetHalt, Taken, Cache
    <2>4. CASE ClearHalt
      <3>1. haltRow = "set" /\ haltRow' = "cleared"
        BY <2>4 DEF ClearHalt, DeskInv, DeskTypeOK
      <3> QED
        BY <2>2, <3>1 DEF Fake!Next, Fake!ClearHalt, Taken, Cache
    <2> QED
      BY <1>5, <2>3, <2>4
  <1>6. CASE UNCHANGED deskVars
    <2>1. UNCHANGED tables /\ UNCHANGED <<opening, haltRow>>
      BY <1>6 DEF deskVars, desk
    <2> QED
      BY <2>1, <1>1
  <1> QED
    BY <1>2, <1>3, <1>4, <1>5, <1>6 DEF DeskNext

LEMMA FakeInitially == DeskInit => FakeInv /\ (BegunEmpty => Fake!Init)
  <1> SUFFICES ASSUME DeskInit, BegunEmpty
               PROVE  /\ ProjectionShowsFills /\ Fake!Init
                      /\ \A s \in Symbols : price[s] = DefaultPrice
    BY DEF FakeInv
  <1>1. /\ NoTrades /\ haltRow = "none"
        /\ shown.shares = held /\ shown.cash = 0
    <2>1. CASE EmptyBook
      BY <2>1 DEF EmptyBook, NoTrades
    <2>2. CASE SeededBook
      BY <2>2 DEF SeededBook, SeededReferences, BegunEmpty
    <2>3. CASE ImportedBook
      <3>1. \A s \in Symbols : ImportShares[s] = 0
        BY <2>3 DEF ImportedBook, ImportedReferences, BegunEmpty
      <3>2. ImportShares = [s \in Symbols |-> 0]
        BY <3>1
      <3> QED
        BY <2>3, <3>2 DEF ImportedBook, ImportedTrades, NoTrades, ImportedPositions
    <2> QED
      BY <2>1, <2>2, <2>3 DEF DeskInit
  <1>2. HeldSymbols = {}
    BY <1>1 DEF NoTrades, HeldSymbols
  <1>3. ProjectionShowsFills /\ \A s \in Symbols : price[s] = DefaultPrice
    BY <1>1, <1>2 DEF NoTrades, ProjectionShowsFills
  <1>4. Taken = {}
    BY DEF DeskInit, Taken
  <1>5. Cache = Fake!Positions(held, price)
    BY <1>3, CacheIsRebuilt
  <1>6. Fake!Init
    BY <1>1, <1>4, <1>5 DEF Fake!Init, Fake!FillPrice, NoTrades, DefaultPrice, Taken, Cache
  <1> QED
    BY <1>3, <1>6

(* What a replay against the in-memory store shows, the database does, in  *)
(* every book that began empty.                                            *)
THEOREM FakeForetellsTheDatabase == DeskSpec => DatabaseActsLikeFake
  <1>1. DeskInit => DeskInv /\ FakeInv /\ (BegunEmpty => Fake!Init)
    BY DeskInitInv, FakeInitially
  <1>2. DeskInv /\ FakeInv /\ [DeskNext]_deskVars
          => (DeskInv /\ FakeInv)' /\ [BegunEmpty => [Fake!Next]_(Fake!vars)]_deskVars
    BY DeskStepInv, FakeStep
  <1> QED
    BY <1>1, <1>2, PTL DEF DeskSpec, DatabaseActsLikeFake

-----------------------------------------------------------------------------
(* The equity *)

LEMMA Distributes == \A a, b, p \in Int : (a + b) * p = a * p + b * p
  OBVIOUS

(* A fill at the price of the position moves value between the ledger and  *)
(* the position of its symbol: every other term of the sum stays.          *)
LEMMA FillKeepsTheEquity ==
    ASSUME DeskTypeOK, ProjectionShowsFills,
           NEW o \in Orders, NEW s \in Symbols, NEW q \in Int, BookFill(o, s, q)
    PROVE  Equity' = Equity
  <1>1. CASE fill[FillKey[o]] # None
    BY <1>1 DEF BookFill, Equity, Value
  <1>2. CASE fill[FillKey[o]] = None
    <2> DEFINE p == CurrentPrice(s)
               f == [y \in Symbols |-> held[y] * price[y]]
               g == [y \in Symbols |-> held'[y] * price'[y]]
    <2>1. p \in Nat \ {0}
      BY CurrentPriceIsPrice
    <2>2. /\ held' = [held EXCEPT ![s] = @ + q]
          /\ price' = [price EXCEPT ![s] = p]
          /\ ledger' = ledger - q * p
      BY <1>2 DEF BookFill
    <2>3. held[s] # 0 => p = price[s]
      BY DEF CurrentPrice, ProjectionShowsFills, HeldSymbols
    <2> HIDE DEF p
    <2>4. /\ held \in [Symbols -> Int] /\ price \in [Symbols -> Nat \ {0}] /\ ledger \in Int
          /\ held' \in [Symbols -> Int] /\ price' \in [Symbols -> Nat \ {0}]
      BY <2>1, <2>2 DEF DeskTypeOK
    <2>5. f \in [Symbols -> Int] /\ g \in [Symbols -> Int]
      BY <2>4, ProductIsInt
    <2>6. \A y \in Symbols \ {s} : g[y] = f[y]
      BY <2>2, <2>4
    <2>7. f[s] = held[s] * p
      <3>1. CASE held[s] = 0
        BY <2>1, <2>4, <3>1
      <3>2. CASE held[s] # 0
        BY <2>3, <3>2
      <3> QED
        BY <3>1, <3>2
    <2>8. g[s] = held[s] * p + q * p
      <3>1. g[s] = (held[s] + q) * p
        BY <2>2, <2>4
      <3>2. held[s] \in Int /\ p \in Int
        BY <2>1, <2>4
      <3> QED
        BY <3>1, <3>2, Distributes
    <2>9. Value(held, price) = SumFunctionOnSet(f, Symbols)
      BY DEF Value, SumFunction
    <2>10. Value(held, price)' = SumFunctionOnSet(g, Symbols)
      BY DEF Value, SumFunction
    <2>11. SumFunctionOnSet(f, Symbols) \in Int
      BY <2>5, SumIsInt
    <2>12. q * p \in Int /\ held[s] * p \in Int
      BY <2>1, <2>4, ProductIsInt
    <2>13. SumFunctionOnSet(g, Symbols) = SumFunctionOnSet(f, Symbols) + g[s] - f[s]
      BY <2>5, <2>6, SumChanges
    <2>14. ASSUME NEW total \in Int, NEW bought \in Int, NEW had \in Int, NEW cash \in Int
           PROVE  (cash - bought) + (total + (had + bought) - had) = cash + total
      OBVIOUS
    <2> HIDE DEF f, g
    <2>15. Equity' = (ledger - q * p)
                       + (SumFunctionOnSet(f, Symbols) + (held[s] * p + q * p) - held[s] * p)
      BY <2>2, <2>7, <2>8, <2>10, <2>13 DEF Equity
    <2>16. Equity = ledger + SumFunctionOnSet(f, Symbols)
      BY <2>9 DEF Equity
    <2> QED
      BY <2>4, <2>11, <2>12, <2>14, <2>15, <2>16
  <1> QED
    BY <1>1, <1>2

LEMMA StepKeepsTheEquity ==
    ASSUME DeskInv, ProjectionShowsFills, [DeskNext]_deskVars
    PROVE  Equity' = Equity
  <1>1. ASSUME UNCHANGED <<held, price, ledger>> PROVE Equity' = Equity
    BY <1>1 DEF Equity, Value
  <1>2. ASSUME NEW w \in Workers, RunStep(w) PROVE UNCHANGED <<held, price, ledger>>
    BY <1>2 DEF RunStep, ReserveRun, FetchUniverse, OtherStatement, Rebuild, CommitRun,
                AbortRun, desk, tables
  <1>3. ASSUME NEW o \in Orders, OrderCommand(o) PROVE Equity' = Equity
    <2>1. \/ UNCHANGED tables
          \/ \E s \in Symbols, q \in Int : Trade(o, s, q)
      BY <1>3, OrderCommandTrades DEF DeskInv, Fail, Refuse
    <2>2. ASSUME NEW s \in Symbols, NEW q \in Int, Trade(o, s, q) PROVE Equity' = Equity
      <3>1. BookFill(o, s, q) \/ UNCHANGED tables
        BY <2>2 DEF Trade, Fail
      <3> QED
        BY <1>1, <3>1, FillKeepsTheEquity DEF DeskInv, tables
    <2> QED
      BY <1>1, <2>1, <2>2 DEF tables
  <1>4. ASSUME NEW o \in Recalled, CancelOrder(o) PROVE UNCHANGED <<held, price, ledger>>
    BY <1>4 DEF CancelOrder
  <1>5. CASE SetHalt \/ ClearHalt \/ UNCHANGED deskVars
    BY <1>1, <1>5 DEF SetHalt, ClearHalt, deskVars, desk, tables
  <1> QED
    BY <1>1, <1>2, <1>3, <1>4, <1>5 DEF DeskNext

(* A desk that shows its fills neither wins nor loses by trading, whatever *)
(* the prices, the sizes and the keys of its orders are.                   *)
THEOREM TradingIsFree == DeskSpec => TradesKeepTheEquity
  <1>1. DeskInv /\ [DeskNext]_deskVars => [ProjectionShowsFills => Equity' = Equity]_deskVars
    BY StepKeepsTheEquity
  <1> QED
    BY <1>1, DeskInvariance, PTL DEF DeskSpec, TradesKeepTheEquity

(* A projection that shows the fills goes on showing them.                 *)
LEMMA FillsStayShown ==
    ASSUME DeskInv, DeskInv', ProjectionShowsFills, [DeskNext]_deskVars
    PROVE  ProjectionShowsFills'
  <1>1. ASSUME UNCHANGED <<held, price, ledger, shown>> PROVE ProjectionShowsFills'
    BY <1>1 DEF ProjectionShowsFills, HeldSymbols
  <1>2. ASSUME shown' = FromFills(held', price', ledger') PROVE ProjectionShowsFills'
    BY <1>2, ShowingFills DEF DeskInv
  <1>3. ASSUME NEW w \in Workers, RunStep(w) PROVE ProjectionShowsFills'
    <2>1. CASE CommitRun(w)
      <3>1. /\ UNCHANGED <<held, price, ledger>>
            /\ shown' = shown \/ shown' = FromFills(held', price', ledger')
        BY <2>1 DEF CommitRun
      <3> QED
        BY <1>1, <1>2, <3>1
    <2>2. CASE ~CommitRun(w)
      BY <1>1, <1>3, <2>2 DEF RunStep, ReserveRun, FetchUniverse, OtherStatement, Rebuild,
                              AbortRun, desk, tables
    <2> QED
      BY <2>1, <2>2
  <1>4. ASSUME NEW o \in Orders, OrderCommand(o) PROVE ProjectionShowsFills'
    <2>1. \/ UNCHANGED tables
          \/ \E s \in Symbols, q \in Int : Trade(o, s, q)
      BY <1>4, OrderCommandTrades DEF DeskInv, Fail, Refuse
    <2>2. ASSUME NEW s \in Symbols, NEW q \in Int, Trade(o, s, q)
          PROVE  shown' = FromFills(held', price', ledger') \/ UNCHANGED tables
      BY <2>2 DEF Trade, Fail
    <2> QED
      BY <1>1, <1>2, <2>1, <2>2 DEF tables
  <1>5. ASSUME NEW o \in Recalled, CancelOrder(o) PROVE UNCHANGED <<held, price, ledger, shown>>
    BY <1>5 DEF CancelOrder
  <1>6. CASE SetHalt \/ ClearHalt \/ UNCHANGED deskVars
    BY <1>1, <1>6 DEF SetHalt, ClearHalt, deskVars, desk, tables
  <1> QED
    BY <1>1, <1>3, <1>4, <1>5, <1>6 DEF DeskNext

(* From the moment its projection shows the fills a book has one equity,   *)
(* for ever.                                                               *)
THEOREM EquityIsSettled ==
    ASSUME NEW CONSTANT equity
    PROVE  DeskSpec => [](ProjectionShowsFills /\ Equity = equity
                            => [](ProjectionShowsFills /\ Equity = equity))
  <1>1. DeskInv /\ DeskInv' /\ [DeskNext]_deskVars /\ ProjectionShowsFills /\ Equity = equity
          => (ProjectionShowsFills /\ Equity = equity)'
    BY FillsStayShown, StepKeepsTheEquity
  <1> QED
    BY <1>1, DeskInvariance, PTL DEF DeskSpec

LEMMA BookNeverBeginsAgain ==
    ASSUME DeskInv, [DeskNext]_deskVars PROVE opening' = opening
  <1>1. ASSUME NEW w \in Workers, RunStep(w) PROVE opening' = opening
    BY <1>1 DEF RunStep, ReserveRun, FetchUniverse, OtherStatement, Rebuild, CommitRun,
                AbortRun, desk
  <1>2. ASSUME NEW o \in Orders, OrderCommand(o) PROVE opening' = opening
    <2>1. Fail(o) \/ Refuse(o) \/ \E s \in Symbols, q \in Int : Trade(o, s, q)
      BY <1>2, OrderCommandTrades DEF DeskInv
    <2> QED
      BY <2>1 DEF Fail, Refuse, Trade, Report
  <1> QED
    BY <1>1, <1>2 DEF DeskNext, CancelOrder, SetHalt, ClearHalt, deskVars, desk

LEMMA NothingIsWorthNothing ==
    ASSUME DeskTypeOK, \A s \in Symbols : held[s] = 0
    PROVE  Value(held, price) = 0
  <1> DEFINE f == [s \in Symbols |-> held[s] * price[s]]
  <1>1. ASSUME NEW s \in Symbols PROVE f[s] = 0
    <2>1. held[s] = 0 /\ price[s] \in Int
      BY DEF DeskTypeOK
    <2> QED
      BY <2>1
  <1>2. \A s \in Symbols : f[s] \in {0}
    BY <1>1
  <1>3. Value(held, price) = SumFunctionOnSet(f, Symbols)
    BY DEF Value, SumFunction
  <1> HIDE DEF f
  <1>4. SumFunctionOnSet(f, Symbols) \in {0}
    <2>1. 0 \in {0} /\ \A a, b \in {0} : a + b \in {0}
      OBVIOUS
    <2> QED
      BY ONLY <1>2, <2>1, SumStaysIn, TradeBookAssumption
  <1> QED
    BY <1>3, <1>4

(* Nothing brings capital into a book that began empty: its equity is 0 for*)
(* ever, whatever is bought and sold, and however much.                    *)
THEOREM EmptyBooksStayWorthNothing ==
    DeskSpec => [](BegunEmpty => ProjectionShowsFills /\ Equity = 0)
  <1> DEFINE Worth == BegunEmpty => Equity = 0
  <1>1. DeskInit => Worth
    <2> SUFFICES ASSUME DeskInit, BegunEmpty PROVE Equity = 0
      OBVIOUS
    <2>1. DeskTypeOK /\ ProjectionShowsFills
      BY DeskInitInv, FakeInitially DEF DeskInv, FakeInv
    <2>2. ledger = 0 /\ \A s \in Symbols : held[s] = 0
      BY FakeInitially DEF Fake!Init, DeskInit, EmptyBook, NoTrades, SeededBook,
         SeededReferences, ImportedBook, ImportedTrades, BegunEmpty
    <2> QED
      BY <2>1, <2>2, NothingIsWorthNothing DEF Equity
  <1>2. DeskInit => DeskInv /\ FakeInv
    BY DeskInitInv, FakeInitially
  <1>3. DeskInv /\ DeskInv' /\ FakeInv /\ [DeskNext]_deskVars => FakeInv'
    BY FakeStep
  <1>4. DeskInv /\ FakeInv /\ Worth /\ [DeskNext]_deskVars => Worth'
    <2> SUFFICES ASSUME DeskInv, FakeInv, Worth, [DeskNext]_deskVars, BegunEmpty'
                 PROVE  Equity' = 0
      OBVIOUS
    <2>1. opening' = opening
      BY BookNeverBeginsAgain
    <2>2. BegunEmpty
      BY <2>1 DEF BegunEmpty
    <2> QED
      BY <2>2, StepKeepsTheEquity DEF FakeInv
  <1>5. FakeInv /\ Worth => (BegunEmpty => ProjectionShowsFills /\ Equity = 0)
    BY DEF FakeInv
  <1> QED
    BY <1>1, <1>2, <1>3, <1>4, <1>5, DeskInvariance, PTL DEF DeskSpec

-----------------------------------------------------------------------------
(* The trades are those of an atomic book *)

Book == INSTANCE AtomicBook WITH net <- held, pos <- shown.shares, cash <- shown.cash

LEMMA PaidForWhatIsBought ==
    ASSUME NEW q \in Int, NEW p \in Nat \ {0}
    PROVE  /\ q > 0 => q * p > 0
           /\ q < 0 => q * p < 0
  OBVIOUS

LEMMA ShowsFromFills ==
    shown' = FromFills(held', price', ledger') => Book!ShowFills
  BY DEF FromFills, Book!ShowFills

(* A purchase costs and a sale earns, at any price; a fill under a key that*)
(* is taken only rebuilds.                                                 *)
LEMMA FillIsAtomic ==
    ASSUME DeskTypeOK, NEW o \in Orders, NEW s \in Symbols, NEW q \in Int, q # 0,
           BookFill(o, s, q), shown' = FromFills(held', price', ledger')
    PROVE  Book!Next
  <1>1. CASE fill[FillKey[o]] # None
    BY <1>1, ShowsFromFills DEF BookFill, Book!Next, Book!Rebuild
  <1>2. CASE fill[FillKey[o]] = None
    <2> DEFINE paid == q * CurrentPrice(s)
    <2>1. /\ held' = [held EXCEPT ![s] = @ + q]
          /\ ledger' = ledger - paid
      BY <1>2 DEF BookFill
    <2>2. /\ held \in [Symbols -> Int] /\ ledger \in Int
          /\ held' \in [Symbols -> Int] /\ ledger' \in Int
      BY FillIsTyped DEF DeskTypeOK
    <2>3. paid \in Int
      BY CurrentPriceIsPrice, ProductIsInt
    <2>4. (q > 0 => paid > 0) /\ (q < 0 => paid < 0)
      BY CurrentPriceIsPrice, PaidForWhatIsBought
    <2> HIDE DEF paid
    <2>5. held'[s] = held[s] + q /\ held[s] \in Int
      BY <2>1, <2>2
    <2>6. \/ held'[s] > held[s] /\ ledger' < ledger
          \/ held'[s] < held[s] /\ ledger' > ledger
      BY <2>1, <2>2, <2>3, <2>4, <2>5
    <2>7. \A r \in Symbols \ {s} : held'[r] = held[r]
      BY <2>1, <2>2
    <2>8. Book!Trade(s)
      BY <2>2, <2>6, <2>7, ShowsFromFills DEF Book!Trade
    <2> QED
      BY <2>8 DEF Book!Next
  <1> QED
    BY <1>1, <1>2

LEMMA DeskStepIsAtomic ==
    ASSUME DeskInv, [DeskNext]_deskVars
    PROVE  [Book!Next]_(Book!vars)
  <1>1. ASSUME UNCHANGED <<held, ledger, shown>> PROVE UNCHANGED Book!vars
    BY <1>1 DEF Book!vars
  <1>2. ASSUME NEW w \in Workers, RunStep(w) PROVE [Book!Next]_(Book!vars)
    <2>1. CASE CommitRun(w)
      <3>1. /\ UNCHANGED <<held, price, ledger>>
            /\ shown' = shown \/ shown' = FromFills(held', price', ledger')
        BY <2>1 DEF CommitRun
      <3> QED
        BY <1>1, <3>1, ShowsFromFills DEF Book!Next, Book!Rebuild
    <2>2. CASE ~CommitRun(w)
      BY <1>1, <1>2, <2>2 DEF RunStep, ReserveRun, FetchUniverse, OtherStatement, Rebuild,
                              AbortRun, desk, tables
    <2> QED
      BY <2>1, <2>2
  <1>3. ASSUME NEW o \in Orders, OrderCommand(o) PROVE [Book!Next]_(Book!vars)
    <2>1. \/ UNCHANGED tables
          \/ \E s \in Symbols, q \in Int : Trade(o, s, q)
      BY <1>3, OrderCommandTrades DEF DeskInv, Fail, Refuse
    <2>2. ASSUME NEW s \in Symbols, NEW q \in Int, Trade(o, s, q)
          PROVE  [Book!Next]_(Book!vars)
      <3>1. CASE Orderable(s, q)
        <4>1. /\ q # 0 /\ BookFill(o, s, q)
              /\ shown' = FromFills(held', price', ledger')
          BY <2>2, <3>1 DEF Trade, Orderable
        <4> QED
          BY <4>1, FillIsAtomic DEF DeskInv
      <3>2. CASE ~Orderable(s, q)
        BY <1>1, <2>2, <3>2 DEF Trade, Fail, tables
      <3> QED
        BY <3>1, <3>2
    <2> QED
      BY <1>1, <2>1, <2>2 DEF tables
  <1>4. ASSUME NEW o \in Recalled, CancelOrder(o) PROVE UNCHANGED <<held, ledger, shown>>
    BY <1>4 DEF CancelOrder
  <1>5. CASE SetHalt \/ ClearHalt \/ UNCHANGED deskVars
    BY <1>1, <1>5 DEF SetHalt, ClearHalt, deskVars, desk, tables
  <1> QED
    BY <1>1, <1>2, <1>3, <1>4, <1>5 DEF DeskNext

(* To whoever reads the book, the desk is a book of whole trades: the      *)
(* specification that the statements of one worker implement               *)
(* (BookProjectionProofs) is the one that the trades of the desk, each a   *)
(* single step, implement, at any prices, from any seed.                   *)
THEOREM DeskTradesAtomically == DeskSpec => Book!Spec
  <1>1. DeskInit => Book!Init
    BY DeskInitInv DEF DeskInv, DeskTypeOK, Projection, Book!Init
  <1>2. DeskInv /\ [DeskNext]_deskVars => [Book!Next]_(Book!vars)
    BY DeskStepIsAtomic
  <1> QED
    BY <1>1, <1>2, DeskInvariance, PTL DEF DeskSpec, Book!Spec

-----------------------------------------------------------------------------

(* DeskTypeOK holds for every seed, every orders and every fill keys.      *)
THEOREM DeskIsTyped == DeskSpec => []DeskTypeOK
  <1>1. DeskInv => DeskTypeOK
    BY DEF DeskInv
  <1> QED
    BY <1>1, DeskInvariance, PTL

(* What an order command reports is what it stored, however the fill keys  *)
(* of the orders collide and whatever is cancelled.                        *)
THEOREM OrderReportsAreTrue == DeskSpec => []ReportedOrdersAreBooked
  <1>1. DeskInv => ReportedOrdersAreBooked
    BY DEF DeskInv
  <1> QED
    BY <1>1, DeskInvariance, PTL

(* Nothing is traded that was neither discovered nor there at first.       *)
THEOREM DiscoveryBoundsTrading == DeskSpec => []OnlyDiscoveredSymbolsTrade
  <1>1. DeskInv => OnlyDiscoveredSymbolsTrade
    <2>1. ASSUME DeskInv, NEW s \in opening.foreign PROVE held[s] = 0
      BY <2>1 DEF DeskInv, DeskTypeOK, DiscoveryInv
    <2> QED
      BY <2>1 DEF DeskInv, DiscoveryInv, OnlyDiscoveredSymbolsTrade, HeldSymbols, Tradable
  <1> QED
    BY <1>1, DeskInvariance, PTL

(* The runs of the desk keep what runs alone keep, whatever is traded,     *)
(* halted and resumed between their statements: they report what they      *)
(* committed, a day they marked is scored in full, and a run that met the  *)
(* halt left nothing.                                                      *)
THEOREM RunsOfTheDesk ==
    DeskSpec => [](ReportsMatchRows /\ MarksAreFullyScored
                   /\ HaltedRunsLeaveNothing /\ ScorecardsHaveReferences)
  <1>1. DeskInv => ReportsMatchRows /\ MarksAreFullyScored
                   /\ HaltedRunsLeaveNothing /\ ScorecardsHaveReferences
    BY DEF DeskInv, IInv
  <1> QED
    BY <1>1, DeskInvariance, PTL
=============================================================================
