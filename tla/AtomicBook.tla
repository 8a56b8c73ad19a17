------------------------------ MODULE AtomicBook ------------------------------
(***************************************************************************)
(* What the read model of a book promises whoever trades on it             *)
(* (docs/architecture/REFERENCE_ARCHITECTURE.md:266 and docs/adr/0038:36,  *)
(* of book_fill and rebuild_projections): a fill, the cash it moves, the   *)
(* positions and the cash shown change together, in one step, and nothing  *)
(* else changes what is shown but a rebuild from the fills.  There are no  *)
(* transactions, statements or prices here: BookProjection has the         *)
(* statements, TradeBook the prices, and both implement this.              *)
(***************************************************************************)
EXTENDS Integers

CONSTANT Symbols

VARIABLES
    net,        \* the fills of each symbol, summed
    ledger,     \* the cash they left
    pos,        \* the positions shown
    cash        \* the cash shown

vars == <<net, ledger, pos, cash>>

(* A book may begin with a projection that shows something else.           *)
Init ==
    /\ net \in [Symbols -> Int] /\ pos \in [Symbols -> Int]
    /\ ledger \in Int /\ cash \in Int

ShowFills == pos' = net' /\ cash' = ledger'

(* A fill of one symbol: a purchase costs, a sale earns.                   *)
Trade(s) ==
    /\ net' \in [Symbols -> Int] /\ ledger' \in Int
    /\ \A r \in Symbols \ {s} : net'[r] = net[r]
    /\ \/ net'[s] > net[s] /\ ledger' < ledger
       \/ net'[s] < net[s] /\ ledger' > ledger
    /\ ShowFills

Rebuild == UNCHANGED <<net, ledger>> /\ ShowFills

Next == Rebuild \/ \E s \in Symbols : Trade(s)

Spec == Init /\ [][Next]_vars
=============================================================================
