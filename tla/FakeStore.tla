------------------------------- MODULE FakeStore -------------------------------
(***************************************************************************)
(* The fills, the cash, the positions and the halt of the in-memory store, *)
(* adapters/fake/operational_store.py, that the golden replay and the unit *)
(* tests run the handlers against.  Unlike the database it knows no        *)
(* reference to a security, no price of a position to fill at and no       *)
(* status of an order, and it has one list of fills for all books.         *)
(***************************************************************************)
EXTENDS Integers

CONSTANTS
    Keys,       \* fill keys
    Symbols

VARIABLES
    taken,      \* keys of _fill_records
    net,        \* their quantities summed, per symbol
    last,       \* their last price, per symbol
    total,      \* the cash of load_portfolio: _cash_ledger summed
    cache,      \* _positions_cache
    halt        \* _halts: the entry of the book

vars == <<taken, net, last, total, cache, halt>>

(* _book_immediate_fill asks the session for the price of the position, and*)
(* _FakeSession answers no row.                                            *)
FillPrice == 100

(* What rebuild_projections makes of the fills.                            *)
Positions(quantity, price) ==
    [s \in {t \in Symbols : quantity[t] # 0} |-> [quantity |-> quantity[s], price |-> price[s]]]

Init ==
    /\ taken = {}
    /\ net = [s \in Symbols |-> 0]
    /\ last = [s \in Symbols |-> FillPrice]
    /\ total = 0
    /\ cache = Positions(net, last)
    /\ halt = "none"

(* book_fill: a key that is there already books nothing.                   *)
BookFill(k, s, q) ==
    IF k \in taken
    THEN UNCHANGED <<taken, net, last, total>>
    ELSE /\ taken' = taken \cup {k}
         /\ net' = [net EXCEPT ![s] = @ + q]
         /\ last' = [last EXCEPT ![s] = FillPrice]
         /\ total' = total - q * FillPrice

(* create_order only makes an id up; the fill is booked and the positions  *)
(* are rebuilt.                                                            *)
Trade(k, s, q) ==
    /\ BookFill(k, s, q)
    /\ cache' = Positions(net', last')
    /\ UNCHANGED halt

(* A run rebuilds the positions and books nothing.                         *)
Rebuild ==
    /\ cache' = Positions(net, last)
    /\ UNCHANGED <<taken, net, last, total, halt>>

SetHalt ==
    /\ halt' = "set"
    /\ UNCHANGED <<taken, net, last, total, cache>>

(* A book that was never halted has no entry to clear.                     *)
ClearHalt ==
    /\ halt' = IF halt = "none" THEN "none" ELSE "cleared"
    /\ UNCHANGED <<taken, net, last, total, cache>>

(* The quantity of an order is any number; it is what its fill adds.       *)
Next ==
    \/ \E k \in Keys, s \in Symbols : Trade(k, s, net'[s] - net[s])
    \/ Rebuild \/ SetHalt \/ ClearHalt
=============================================================================
