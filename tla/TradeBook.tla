------------------------------- MODULE TradeBook -------------------------------
(***************************************************************************)
(* The desk: the decision runs of a book and the trades its operator makes *)
(* from what they advise.  A run reads the book when it starts, scores     *)
(* what is held or, in an empty book, the default list, and rebuilds the   *)
(* projection when it ends; an order command books an order and its fill   *)
(* at once, at the price the projection shows, and rebuilds it too.        *)
(*                                                                         *)
(* A run is a transaction of many steps (DecisionRun); a trade is a single *)
(* step here, and its statements are the module BookProjection.  It waits  *)
(* for a run that has rebuilt the projection and not committed yet.        *)
(***************************************************************************)
EXTENDS DecisionRun, Integers, FiniteSets, Functions

CONSTANTS
    Orders,         \* the order commands; a uuid4 each
    Keys,           \* fill keys
    FillKey,        \* cmd- and the first eight digits of the order id
    Recalled,       \* the orders that may be cancelled
    Sizes,          \* shares asked for; a sale is negative
    Discovery,      \* the symbols scored in an empty book
    SeedShares,     \* what the seed of the mock book buys of each symbol,
    SeedPaid,       \* at which price,
    SeedShown,      \* and the current price it writes
    SeedLedger,     \* what its capital and its buys leave in the ledger
    SeedCash,       \* the cash it shows
    ImportShares,   \* positions of a legacy book,
    ImportShown     \* and their price

ASSUME TradeBookAssumption ==
    /\ Symbols # {} /\ IsFiniteSet(Symbols)
    /\ None \notin Orders
    /\ FillKey \in [Orders -> Keys]
    /\ Recalled \subseteq Orders
    /\ Sizes \subseteq Int
    /\ Discovery \subseteq Symbols
    /\ SeedShares \in [Symbols -> Nat]
    /\ SeedPaid \in [Symbols -> Nat \ {0}]
    /\ SeedShown \in [Symbols -> Nat \ {0}]
    /\ SeedLedger \in Int /\ SeedCash \in Int
    /\ ImportShares \in [Symbols -> Nat]
    /\ ImportShown \in [Symbols -> Nat \ {0}]

VARIABLES
    order,          \* trade.paper_order
    fill,           \* trade.paper_fill: whose fill has this key
    held,           \* the fills summed, per symbol
    price,          \* of the latest fill, per symbol
    ledger,         \* trade.cash_ledger_entry summed
    shown,          \* projection.position_current and portfolio_current
    haltRow,        \* ops.current_halt of the book
    outcome,        \* what each order command reports
    universe,       \* the symbols each worker's run set out to score
    opening         \* the symbols that had a reference at first, and which
                    \* of these have one with an id of its own

tables == <<order, fill, held, price, ledger, shown>>

desk == <<tables, haltRow, outcome, universe, opening>>

deskVars == <<vars, desk>>

NoOrder == [status |-> "absent", symbol |-> None, quantity |-> 0]

OrderRow ==
    [status : {"absent", "pending", "cancelled"}, symbol : Symbols \cup {None}, quantity : Int]

Projection == [shares : [Symbols -> Int], price : [Symbols -> Nat \ {0}], cash : Int]

DefaultPrice == 100

DeskTypeOK ==
    /\ TypeOK
    /\ order \in [Orders -> OrderRow]
    /\ fill \in [Keys -> Orders \cup {None}]
    /\ held \in [Symbols -> Int]
    /\ price \in [Symbols -> Nat \ {0}]
    /\ ledger \in Int
    /\ shown \in Projection
    /\ haltRow \in {"none", "set", "cleared"}
    /\ halted <=> haltRow = "set"
    /\ outcome \in [Orders -> {"none", "booked", "refused", "error"}]
    /\ universe \in [Workers -> SUBSET Symbols]
    /\ opening \in [known : SUBSET Symbols, foreign : SUBSET Symbols]

-----------------------------------------------------------------------------
(* How a book begins *)

NoTrades ==
    /\ held = [s \in Symbols |-> 0]
    /\ price = [s \in Symbols |-> DefaultPrice]
    /\ ledger = 0

EmptyBook ==
    /\ NoTrades
    /\ opening = [known |-> {}, foreign |-> {}]
    /\ shown = [shares |-> held, price |-> price, cash |-> 0]
    /\ haltRow = "none"

(* dev_seed.py, when the decision cycle after it fails: the projection is  *)
(* written beside the fills and the ledger and agrees with neither.  Its   *)
(* own fills have keys of another form.                                    *)
SeededTrades ==
    /\ held = SeedShares
    /\ price = SeedPaid
    /\ ledger = SeedLedger

SeededProjection ==
    /\ shown = [shares |-> SeedShares, price |-> SeedShown, cash |-> SeedCash]
    /\ haltRow = "cleared"

SeededReferences == opening = [known |-> Symbols, foreign |-> {}]

SeededBook == SeededTrades /\ SeededProjection /\ SeededReferences

(* import_legacy_duckdb.py writes positions and no ledger.                 *)
ImportedPositions == shown = [shares |-> ImportShares, price |-> ImportShown, cash |-> 0]

(* It gives a symbol that is held, or was only decided about, a reference  *)
(* with a random id.                                                       *)
ImportedReferences ==
    \E decided \in SUBSET Symbols :
        LET imported == decided \cup {s \in Symbols : ImportShares[s] # 0}
        IN  opening = [known |-> imported, foreign |-> imported]

(* An order or a fill of the legacy book has an enumeration that the CHECK *)
(* constraints refuse: a book that was imported has none.                  *)
ImportedTrades == NoTrades

(* The import is one transaction; a run would be refused too.              *)
ImportedBook ==
    /\ ImportedTrades /\ ImportedPositions /\ ImportedReferences
    /\ haltRow = "none"

DeskInit ==
    /\ EmptyBook \/ SeededBook \/ ImportedBook
    /\ row = [r \in Runs |-> NoRow]
    /\ mark = [d \in Days |-> None]
    /\ result = [r \in Runs |-> "none"]
    /\ halted = FALSE
    /\ tx = [w \in Workers |-> Idle]
    /\ order = [o \in Orders |-> NoOrder]
    /\ fill = [k \in Keys |-> None]
    /\ outcome = [o \in Orders |-> "none"]
    /\ universe = [w \in Workers |-> {}]
    /\ reference = opening.known

-----------------------------------------------------------------------------
(* The runs *)

HeldSymbols == {s \in Symbols : shown.shares[s] # 0}

(* Mutant: an empty book is scored on everything.                          *)
UniverseOfAll == IF HeldSymbols = {} THEN Symbols ELSE HeldSymbols

(* What a run that starts now scores: run_decision_handler passes no       *)
(* discovery list, and the default one is for a book that holds nothing.   *)
Universe == IF HeldSymbols = {} THEN Discovery ELSE HeldSymbols

ReserveRun(w, r) ==
    /\ Reserve(w, r)
    /\ universe' = [universe EXCEPT ![w] = Universe]
    /\ UNCHANGED <<tables, haltRow, outcome, opening>>

FetchUniverse(w) ==
    /\ FetchFacts(w)
    /\ tx'[w].row.facts \subseteq universe[w]
    /\ UNCHANGED desk

OtherStatement(w) ==
    /\ \/ Start(w) \/ SkipHalted(w) \/ EndScoring(w) \/ SaveMark(w)
       \/ InsertReference(w) \/ Raise(w)
       \/ \E s \in Symbols : SaveScorecard(w, s) \/ MissReference(w, s)
    /\ UNCHANGED desk

(* A transaction that has deleted and inserted the rows of the projection. *)
Rebuilt(w) == tx[w].pc = "returning" /\ tx[w].marked

Rebuild(w) ==
    /\ \A v \in Others(w) : ~Rebuilt(v)
    /\ RebuildAndComplete(w)
    /\ UNCHANGED desk

(* The projection that rebuild_projections makes of the fills.             *)
FromFills(shares, prices, cash) == [shares |-> shares, price |-> prices, cash |-> cash]

(* What the run rebuilt is seen: since then nothing was booked.            *)
CommitRun(w) ==
    /\ Commit(w)
    /\ shown' = IF tx[w].marked THEN FromFills(held, price, ledger) ELSE shown
    /\ universe' = [universe EXCEPT ![w] = {}]
    /\ UNCHANGED <<order, fill, held, price, ledger, haltRow, outcome, opening>>

AbortRun(w) ==
    /\ SqlError(w)
    /\ universe' = [universe EXCEPT ![w] = {}]
    /\ UNCHANGED <<tables, haltRow, outcome, opening>>

-----------------------------------------------------------------------------
(* The trades *)

Report(o, answer) ==
    /\ outcome' = [outcome EXCEPT ![o] = answer]
    /\ UNCHANGED <<vars, haltRow, universe, opening>>

Fail(o) == Report(o, "error") /\ UNCHANGED tables

Refuse(o) == Report(o, "refused") /\ UNCHANGED tables

(* The current price of the position, and 100 without one.                 *)
CurrentPrice(s) == IF shown.shares[s] # 0 THEN shown.price[s] ELSE DefaultPrice

(* Mutant: the ledger is charged the default price.                        *)
BookFillAtDefault(o, s, q) ==
    IF fill[FillKey[o]] # None
    THEN UNCHANGED <<fill, held, price, ledger>>
    ELSE /\ fill' = [fill EXCEPT ![FillKey[o]] = o]
         /\ held' = [held EXCEPT ![s] = @ + q]
         /\ price' = [price EXCEPT ![s] = CurrentPrice(s)]
         /\ ledger' = ledger - q * DefaultPrice

(* book_fill: a fill key that exists already books nothing.                *)
BookFill(o, s, q) ==
    IF fill[FillKey[o]] # None
    THEN UNCHANGED <<fill, held, price, ledger>>
    ELSE /\ fill' = [fill EXCEPT ![FillKey[o]] = o]
         /\ held' = [held EXCEPT ![s] = @ + q]
         /\ price' = [price EXCEPT ![s] = CurrentPrice(s)]
         /\ ledger' = ledger - q * CurrentPrice(s)

CreateOrder(o, s, q) ==
    order' = [order EXCEPT ![o] = [status |-> "pending", symbol |-> s, quantity |-> q]]

(* The order refers to the security reference by the id that is derived    *)
(* from the symbol; the reference must be committed and have that id.  No  *)
(* quantity of an order is zero.                                           *)
Orderable(s, q) == s \in reference \ opening.foreign /\ q # 0

(* Mutant: the order is committed before its fill is booked.               *)
TradeInTwo(o, s, q) ==
    IF Orderable(s, q)
    THEN /\ CreateOrder(o, s, q)
         /\ \/ /\ BookFill(o, s, q)
               /\ shown' = FromFills(held', price', ledger')
               /\ Report(o, "booked")
            \/ /\ UNCHANGED <<fill, held, price, ledger, shown>>
               /\ Report(o, "error")
    ELSE Fail(o)

(* Mutant: the projection is rebuilt before the fill is booked.            *)
TradeRebuildsFirst(o, s, q) ==
    IF Orderable(s, q)
    THEN /\ CreateOrder(o, s, q)
         /\ shown' = FromFills(held, price, ledger)
         /\ BookFill(o, s, q)
         /\ Report(o, "booked")
    ELSE Fail(o)

(* create_order and _book_immediate_fill.                                  *)
Trade(o, s, q) ==
    IF Orderable(s, q)
    THEN /\ CreateOrder(o, s, q)
         /\ BookFill(o, s, q)
         /\ shown' = FromFills(held', price', ledger')
         /\ Report(o, "booked")
    ELSE Fail(o)

SubmitOrder(o) == \E s \in Symbols, q \in Sizes : Trade(o, s, q)

ApproveCandidate(o) == \E s \in Symbols, q \in Sizes \cap Nat : Trade(o, s, q)

FlattenPosition(o) ==
    \E s \in Symbols : IF s \in HeldSymbols THEN Trade(o, s, -shown.shares[s]) ELSE Refuse(o)

Sized == INSTANCE Sizing

(* What positions are worth.                                               *)
Value(shares, prices) == SumFunction([s \in Symbols |-> shares[s] * prices[s]])

(* The stops that the ticket of a symbol may show; Sizing counts in cents. *)
StopsShown(s) ==
    Sized!StopPrices(Sized!LastPrice(IF s \in HeldSymbols THEN 100 * shown.price[s] ELSE None),
                     Sized!StopFraction("atr_2_0"))

(* candidate.modify.  Any halt row stops it, one that was resumed too, and *)
(* the risk event it then writes refers to a run that does not exist.  The *)
(* conjunct on the quantity is always true: it says that it is a number.   *)
ModifyCandidate(o) ==
    IF haltRow # "none"
    THEN Fail(o)
    ELSE \E s \in Symbols, q \in Sizes \cap Nat : \E stop \in {None} \cup StopsShown(s) :
            LET equity == Sized!EquityOf(shown.cash, Value(shown.shares, shown.price))
                answer == Sized!Modification(100 * equity, q, stop, "atr_2_0", 50)
            IN  IF ~answer.accepted THEN Refuse(o)
                ELSE answer.quantity \in Nat /\ Trade(o, s, answer.quantity)

(* Any other error of an order command.                                    *)
TradeFails(o) == Fail(o)

OrderCommand(o) ==
    /\ outcome[o] = "none"
    /\ \A w \in Workers : ~Rebuilt(w)
    /\ \/ SubmitOrder(o) \/ ApproveCandidate(o) \/ FlattenPosition(o)
       \/ ModifyCandidate(o) \/ TradeFails(o)

(* order.cancel reports success for any order; the fill stays.             *)
CancelOrder(o) ==
    /\ order' = [order EXCEPT ![o].status = IF @ = "pending" THEN "cancelled" ELSE @]
    /\ UNCHANGED <<vars, fill, held, price, ledger, shown, haltRow, outcome, universe, opening>>

SetHalt ==
    /\ ~halted
    /\ ToggleHalt
    /\ haltRow' = "set"
    /\ UNCHANGED <<tables, outcome, universe, opening>>

(* Mutant: the row keeps its halt.                                         *)
ClearHaltInMemory ==
    /\ halted
    /\ ToggleHalt
    /\ UNCHANGED <<tables, haltRow, outcome, universe, opening>>

(* The row stays, with halted false.                                       *)
ClearHalt ==
    /\ halted
    /\ ToggleHalt
    /\ haltRow' = "cleared"
    /\ UNCHANGED <<tables, outcome, universe, opening>>

-----------------------------------------------------------------------------

RunStep(w) ==
    \/ \E r \in Runs : ReserveRun(w, r)
    \/ FetchUniverse(w) \/ OtherStatement(w) \/ Rebuild(w) \/ CommitRun(w) \/ AbortRun(w)

DeskNext ==
    \/ \E w \in Workers : RunStep(w)
    \/ \E o \in Orders : OrderCommand(o)
    \/ \E o \in Recalled : CancelOrder(o)
    \/ SetHalt \/ ClearHalt

DeskSpec == DeskInit /\ [][DeskNext]_deskVars

-----------------------------------------------------------------------------
(* Properties *)

Booked(o) == outcome[o] = "booked"

(* What an order command reports is what is in the database: an order it   *)
(* booked is stored, and its fill is the one under its key unless another  *)
(* booked order took the key before; an order that was refused or failed   *)
(* has left neither an order nor a fill.                                   *)
ReportedOrdersAreBooked ==
    \A o \in Orders :
        /\ Booked(o) <=> order[o].status # "absent"
        /\ Booked(o) => fill[FillKey[o]] # None /\ Booked(fill[FillKey[o]])
        /\ ~Booked(o) => \A k \in Keys : fill[k] # o

(* Only what the runs discover can be traded.  A symbol gets its reference *)
(* from a run, and a run scores the default list or what is held: nothing  *)
(* else is ever referred to, ordered or held, in any order of runs, trades *)
(* and halts, but what the book began with.  What an import brought is not *)
(* traded either: its positions are neither added to nor closed.           *)
OnlyDiscoveredSymbolsTrade ==
    LET known == Discovery \cup opening.known
    IN  /\ reference \subseteq known
        /\ HeldSymbols \subseteq known
        /\ \A o \in Orders :
              order[o].status # "absent" => order[o].symbol \in known \ opening.foreign
        /\ \A s \in opening.foreign : held[s] = 0

Equity == ledger + Value(held, price)

ProjectionShowsFills ==
    /\ shown.shares = held /\ shown.cash = ledger
    /\ \A s \in HeldSymbols : shown.price[s] = price[s]

(* No trade wins or loses anything: once the projection shows the fills,   *)
(* the equity of the book stays what it is, whatever is bought, sold,      *)
(* flattened or booked under a key that is taken, because a fill is booked *)
(* at the price of the fill before it.                                     *)
TradesKeepTheEquity == [][ProjectionShowsFills => Equity' = Equity]_deskVars

(* The in-memory store, as load_portfolio and current_halt would answer    *)
(* from it if it held what the tables hold.                                *)
Fake ==
    INSTANCE FakeStore WITH
        taken <- {k \in Keys : fill[k] # None},
        net <- held,
        last <- price,
        total <- shown.cash,
        cache <- [s \in HeldSymbols |->
                    [quantity |-> shown.shares[s], price |-> shown.price[s]]],
        halt <- haltRow

BegunEmpty == opening.known = {}

(* Whatever the database does in a book that began empty, the in-memory    *)
(* store could do: the fake fills everything at 100 and sums its cash when *)
(* it is asked, the database fills at the price of a position and stores   *)
(* its cash, and yet each step of the desk is a step of the fake or none.  *)
(* Not the converse: the fake also takes orders that the database refuses. *)
(* In a seeded book they part at the first fill.                           *)
DatabaseActsLikeFake ==
    /\ BegunEmpty => Fake!Init
    /\ [][BegunEmpty => [Fake!Next]_(Fake!vars)]_deskVars
=============================================================================
