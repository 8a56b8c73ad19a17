----------------------------- MODULE HaltControl ------------------------------
(***************************************************************************)
(* The operational halt of one book: ops.current_halt and                  *)
(* audit.halt_transition, the handlers that write them (halt.create,       *)
(* halt.resume) and the ones that halting is meant to stop (decision.run,  *)
(* candidate.modify, and the handlers that trade without looking).         *)
(*                                                                         *)
(*   table     adapters/postgres/operational_store.py                      *)
(*             set_halt, clear_halt, current_halt                          *)
(*   handlers  application/commands, application/daily_cycle.py            *)
(*                                                                         *)
(* Handlers run in READ COMMITTED transactions, one per worker, and each   *)
(* statement is an action.  An UPDATE waits for a row lock, and does not   *)
(* see a row that another transaction has inserted and not committed; the  *)
(* UPSERT waits for that too.                                              *)
(***************************************************************************)
EXTENDS Naturals, FiniteSets

CONSTANTS
    Halts,      \* ids for rows of halt_transition; bounds the halts set
    Workers,
    None

ASSUME HaltControlAssumption == None \notin Halts

VARIABLES
    haltRow,    \* the book's row of current_halt: none, halted, cleared
    transition, \* halt_transition: absent, open (resumed_at NULL), closed
    tx,         \* the transaction of each worker
    outcome,    \* how the last command of each worker ended
    blindClear  \* history: a resume cleared a row it had not seen

vars == <<haltRow, transition, tx, outcome, blindClear>>

committed == <<haltRow, transition, blindClear>>

Transaction ==
    [pc : {"idle", "inserted", "upserted", "read", "updated", "closing",
           "modifying", "running", "trading"},
     halt : Halts \cup {None},  \* the transition set_halt inserts
     sawRow : BOOLEAN,          \* clear_halt's SELECT returned the row
     matched : BOOLEAN,         \* clear_halt's UPDATE changed the row
     closes : SUBSET Halts]     \* the transitions clear_halt closes

Idle == [pc |-> "idle", halt |-> None, sawRow |-> FALSE, matched |-> FALSE,
         closes |-> {}]

Outcome == {"none", "succeeded", "refused", "book_halted"}

TypeOK ==
    /\ haltRow \in {"none", "halted", "cleared"}
    /\ transition \in [Halts -> {"absent", "open", "closed"}]
    /\ tx \in [Workers -> Transaction]
    /\ outcome \in [Workers -> Outcome]
    /\ blindClear \in BOOLEAN

Init ==
    /\ haltRow = "none"
    /\ transition = [h \in Halts |-> "absent"]
    /\ tx = [w \in Workers |-> Idle]
    /\ outcome = [w \in Workers |-> "none"]
    /\ blindClear = FALSE

Open == {h \in Halts : transition[h] = "open"}

(* An uncommitted write of the halt row.                                   *)
HoldsHaltRow(v) == tx[v].pc = "upserted" \/ tx[v].matched

HaltRowFree(w) == \A v \in Workers \ {w} : ~HoldsHaltRow(v)

Move(w, t) == tx' = [tx EXCEPT ![w] = t]

Finish(w, result) ==
    /\ Move(w, Idle)
    /\ outcome' = [outcome EXCEPT ![w] = result]

-----------------------------------------------------------------------------
(* halt.create: set_halt *)

(* Mutant: a book that is halted already gets no new transition.           *)
InsertTransitionOnce(w, h) ==
    /\ tx[w].pc = "idle"
    /\ transition[h] = "absent"
    /\ \A v \in Workers : tx[v].halt # h
    /\ Move(w, [Idle EXCEPT !.pc = "inserted",
                            !.halt = IF haltRow = "halted" THEN None ELSE h])
    /\ UNCHANGED <<committed, outcome>>

InsertTransition(w, h) ==
    /\ tx[w].pc = "idle"
    /\ transition[h] = "absent"
    /\ \A v \in Workers : tx[v].halt # h
    /\ Move(w, [Idle EXCEPT !.pc = "inserted", !.halt = h])
    /\ UNCHANGED <<committed, outcome>>

UpsertHalt(w) ==
    /\ tx[w].pc = "inserted"
    /\ HaltRowFree(w)
    /\ Move(w, [tx[w] EXCEPT !.pc = "upserted"])
    /\ UNCHANGED <<committed, outcome>>

(* Mutant: the upsert writes the reason into the halted column.            *)
CommitHaltColumnsSwapped(w) ==
    /\ tx[w].pc = "upserted"
    /\ haltRow' = "manual"
    /\ transition' = [h \in Halts |-> IF h = tx[w].halt THEN "open" ELSE transition[h]]
    /\ Finish(w, "succeeded")
    /\ UNCHANGED blindClear

CommitHalt(w) ==
    /\ tx[w].pc = "upserted"
    /\ haltRow' = "halted"
    /\ transition' = [h \in Halts |-> IF h = tx[w].halt THEN "open" ELSE transition[h]]
    /\ Finish(w, "succeeded")
    /\ UNCHANGED blindClear

-----------------------------------------------------------------------------
(* halt.resume: clear_halt *)

ReadHalt(w) ==
    /\ tx[w].pc = "idle"
    /\ Move(w, [Idle EXCEPT !.pc = "read", !.sawRow = (haltRow # "none")])
    /\ UNCHANGED <<committed, outcome>>

ClearHaltRow(w) ==
    /\ tx[w].pc = "read"
    /\ haltRow # "none" => HaltRowFree(w)
    /\ Move(w, [tx[w] EXCEPT !.pc = "updated", !.matched = (haltRow # "none")])
    /\ UNCHANGED <<committed, outcome>>

(* Mutant: the row is read again after the UPDATE, and transitions are     *)
(* closed only if it still says halted.                                    *)
CloseTransitionsIfHalted(w) ==
    /\ tx[w].pc = "updated"
    /\ Move(w, [tx[w] EXCEPT !.pc = "closing",
                             !.closes = IF tx[w].sawRow /\ ~tx[w].matched THEN Open ELSE {}])
    /\ UNCHANGED <<committed, outcome>>

CloseTransitions(w) ==
    /\ tx[w].pc = "updated"
    /\ Move(w, [tx[w] EXCEPT !.pc = "closing",
                             !.closes = IF tx[w].sawRow THEN Open ELSE {}])
    /\ UNCHANGED <<committed, outcome>>

CommitClear(w) ==
    /\ tx[w].pc = "closing"
    /\ haltRow' = IF tx[w].matched THEN "cleared" ELSE haltRow
    /\ transition' = [h \in Halts |->
                        IF h \in tx[w].closes THEN "closed" ELSE transition[h]]
    /\ blindClear' = (blindClear \/ (tx[w].matched /\ ~tx[w].sawRow))
    /\ Finish(w, "succeeded")

-----------------------------------------------------------------------------
(* The commands a halt is meant to stop *)

(* candidate.modify refuses when current_halt returns a row, halted or     *)
(* not.  It first writes a risk event for a decision run that does not     *)
(* exist, so that the refusal is a rolled back HANDLER_ERROR.              *)
RefuseModify(w) ==
    /\ tx[w].pc = "idle"
    /\ haltRow # "none"
    /\ Finish(w, "refused")
    /\ UNCHANGED committed

BeginModify(w) ==
    /\ tx[w].pc = "idle"
    /\ haltRow = "none"
    /\ Move(w, [Idle EXCEPT !.pc = "modifying"])
    /\ UNCHANGED <<committed, outcome>>

(* order.submit, candidate.approve and position.flatten.                   *)
BeginTrade(w) ==
    /\ tx[w].pc = "idle"
    /\ Move(w, [Idle EXCEPT !.pc = "trading"])
    /\ UNCHANGED <<committed, outcome>>

CommitFill(w) ==
    /\ tx[w].pc \in {"modifying", "trading"}
    /\ Finish(w, "succeeded")
    /\ UNCHANGED committed

(* decision.run looks at the halt once, before it scores anything.         *)
SkipRun(w) ==
    /\ tx[w].pc = "idle"
    /\ haltRow = "halted"
    /\ Finish(w, "book_halted")
    /\ UNCHANGED committed

BeginRun(w) ==
    /\ tx[w].pc = "idle"
    /\ haltRow # "halted"
    /\ Move(w, [Idle EXCEPT !.pc = "running"])
    /\ UNCHANGED <<committed, outcome>>

CommitRun(w) ==
    /\ tx[w].pc = "running"
    /\ Finish(w, "succeeded")
    /\ UNCHANGED committed

(* A handler raises or its worker dies: its transaction rolls back.        *)
Fail(w) ==
    /\ tx[w].pc # "idle"
    /\ Move(w, Idle)
    /\ UNCHANGED <<committed, outcome>>

-----------------------------------------------------------------------------

SetHalt(w) == (\E h \in Halts : InsertTransition(w, h)) \/ UpsertHalt(w) \/ CommitHalt(w)

ClearHalt(w) == ReadHalt(w) \/ ClearHaltRow(w) \/ CloseTransitions(w) \/ CommitClear(w)

Gated(w) == RefuseModify(w) \/ BeginModify(w) \/ SkipRun(w) \/ BeginRun(w) \/ CommitRun(w)

Next ==
    \E w \in Workers :
        SetHalt(w) \/ ClearHalt(w) \/ Gated(w) \/ BeginTrade(w) \/ CommitFill(w) \/ Fail(w)

Spec == Init /\ [][Next]_vars

-----------------------------------------------------------------------------
(* Properties *)

(* While a book is halted the audit trail shows a halt that is not resumed,*)
(* however halts and resumes of several workers interleave.                *)
HaltedHasOpenTransition == haltRow = "halted" => Open # {}

(* A resume closes every halt it ends.  The one exception is a resume that *)
(* read the table before the first halt of the book was committed.         *)
ClearedIsClosed == haltRow = "cleared" /\ ~blindClear => Open = {}

(* transport/static/render/risk.js:279, on creating a halt: "Blocks all    *)
(* decision runs and paper execution across this book until the halt is    *)
(* cleared."                                                               *)
HaltBlocksExecution == [][\A w \in Workers : CommitFill(w) => haltRow # "halted"]_vars
=============================================================================
