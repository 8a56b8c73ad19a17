----------------------------- MODULE DecisionRun ------------------------------
(***************************************************************************)
(* The decision.run command: application/daily_cycle.py inside the one     *)
(* transaction of run_decision_handler.  A run reserves its row, stops if  *)
(* the book is halted, fetches facts, stores one scorecard per symbol,     *)
(* marks the portfolio, rebuilds the projections and completes its row.    *)
(*                                                                         *)
(* Two kinds of error end it early.  An exception of the Python code is    *)
(* caught by DailyCycleService.run, which completes the row as failed and  *)
(* returns: what was written is committed.  An SQL error aborts the        *)
(* transaction, complete_run fails in the except clause too, and dispatch  *)
(* reports HANDLER_ERROR after a rollback.                                 *)
(*                                                                         *)
(* Each worker runs one transaction; statements that may wait for another  *)
(* transaction are actions.  The rebuild is one action that may fail: its  *)
(* statements are the module BookProjection.  That a command's handler     *)
(* runs at most once, and worker crashes, are the module CommandQueue.     *)
(***************************************************************************)
EXTENDS Naturals, FiniteSets

CONSTANTS
    Runs,       \* the decision.run commands; run_key is cmd-<command id>
    Symbols,    \* what a run may have to score
    Days,       \* the days _resolve_trading_day may walk back to
    Workers,
    None

ASSUME DecisionRunAssumption == None \notin Runs \cup Symbols \cup Days

VARIABLES
    row,        \* run.decision_run with the scorecards that refer to it
    mark,       \* trade.portfolio_mark: the run that wrote the day's mark
    reference,  \* core.security_reference
    result,     \* what each command shows
    halted,     \* current_halt of the book
    tx          \* the transaction of each worker

vars == <<row, mark, reference, result, halted, tx>>

committed == <<row, mark, reference, result>>

RunStatus == {"reserved", "running", "completed", "failed", "halted"}

Row == [status : RunStatus \cup {"absent"},
        facts : SUBSET Symbols,     \* symbols whose facts were fetched
        scored : SUBSET Symbols]    \* symbols with a scorecard

Transaction ==
    [pc : {"idle", "reserved", "started", "scoring", "referencing", "marking",
           "rebuilding", "returning"},
     run : Runs \cup {None},
     day : Days \cup {None},
     row : Row,
     symbol : Symbols \cup {None},  \* the reference being inserted
     added : SUBSET Symbols,        \* references inserted
     marked : BOOLEAN,              \* the day's mark was written
     answer : {"none", "succeeded", "book_halted"}]

NoRow == [status |-> "absent", facts |-> {}, scored |-> {}]

Idle == [pc |-> "idle", run |-> None, day |-> None, row |-> NoRow,
         symbol |-> None, added |-> {}, marked |-> FALSE, answer |-> "none"]

TypeOK ==
    /\ row \in [Runs -> Row]
    /\ mark \in [Days -> Runs \cup {None}]
    /\ reference \in SUBSET Symbols
    /\ result \in [Runs -> {"none", "succeeded", "book_halted", "error"}]
    /\ halted \in BOOLEAN
    /\ tx \in [Workers -> Transaction]

Init ==
    /\ row = [r \in Runs |-> NoRow]
    /\ mark = [d \in Days |-> None]
    /\ reference = {}
    /\ result = [r \in Runs |-> "none"]
    /\ halted = FALSE
    /\ tx = [w \in Workers |-> Idle]

-----------------------------------------------------------------------------
(* Waiting for another transaction: the unique index on symbol, and the    *)
(* row lock and unique index of the day's mark.                            *)

Others(w) == Workers \ {w}

Waits(w, v) ==
    \/ tx[w].pc = "referencing" /\ tx[w].symbol \in tx[v].added
    \/ tx[w].pc = "marking" /\ tx[v].marked /\ tx[v].day = tx[w].day

Blocked(w) == \E v \in Others(w) : Waits(w, v)

-----------------------------------------------------------------------------
(* The statements of DailyCycleService.run *)

Advance(w, t) ==
    /\ tx' = [tx EXCEPT ![w] = t]
    /\ UNCHANGED <<committed, halted>>

(* complete_run changes the rows whose status is one of these, written as  *)
(* in the code; the column holds the lower case values of RunStatus.       *)
Completable == {"RUNNING", "HALTED"}

(* Mutant: the name of the status is stored, not its value.                *)
CompleteRunStoresName(r, status) ==
    [r EXCEPT !.status = IF status = "completed" THEN "COMPLETED" ELSE r.status]

CompleteRun(r, status) ==
    [r EXCEPT !.status = IF r.status \in Completable THEN status ELSE r.status]

(* Mutant: the reservation is committed before the run has started.        *)
ReserveAutocommit(w, r) ==
    /\ tx[w].pc = "idle"
    /\ result[r] = "none"
    /\ \A v \in Workers : tx[v].run # r
    /\ row' = [row EXCEPT ![r].status = "reserved"]
    /\ \E d \in Days :
          tx' = [tx EXCEPT ![w] = [Idle EXCEPT !.pc = "reserved", !.run = r, !.day = d,
                                               !.row.status = "reserved"]]
    /\ UNCHANGED <<mark, reference, result, halted>>

(* reserve_run, on the trading day that had enough readouts.               *)
Reserve(w, r) ==
    /\ tx[w].pc = "idle"
    /\ result[r] = "none"
    /\ \A v \in Workers : tx[v].run # r
    /\ \E d \in Days :
          Advance(w, [Idle EXCEPT !.pc = "reserved", !.run = r, !.day = d,
                                  !.row.status = "reserved"])

Start(w) ==
    /\ tx[w].pc = "reserved"
    /\ Advance(w, [tx[w] EXCEPT !.pc = "started", !.row.status = "running"])

SkipHalted(w) ==
    /\ tx[w].pc = "started"
    /\ halted
    /\ Advance(w, [tx[w] EXCEPT !.pc = "returning", !.answer = "book_halted",
                                !.row = CompleteRun(tx[w].row, "halted")])

(* A symbol whose facts cannot be read is left out of the run.             *)
FetchFacts(w) ==
    /\ tx[w].pc = "started"
    /\ ~halted
    /\ \E facts \in SUBSET Symbols :
          Advance(w, [tx[w] EXCEPT !.pc = "scoring", !.row.facts = facts])

(* A scorecard of a symbol whose security reference is committed.          *)
SaveScorecard(w, s) ==
    /\ tx[w].pc = "scoring"
    /\ s \in (tx[w].row.facts \ tx[w].row.scored) \cap reference
    /\ Advance(w, [tx[w] EXCEPT !.row.scored = @ \cup {s}])

MissReference(w, s) ==
    /\ tx[w].pc = "scoring"
    /\ s \in tx[w].row.facts \ (tx[w].row.scored \cup reference)
    /\ Advance(w, [tx[w] EXCEPT !.pc = "referencing", !.symbol = s])

(* Mutant: a reference that another transaction is inserting is taken for  *)
(* granted.                                                                *)
InsertReferenceUnlocked(w) ==
    /\ tx[w].pc = "referencing"
    /\ LET s == tx[w].symbol
           found == s \in reference \/ Blocked(w)
       IN  Advance(w, [tx[w] EXCEPT !.pc = "scoring", !.symbol = None,
                                    !.added = IF found THEN @ ELSE @ \cup {s},
                                    !.row.scored = @ \cup {s}])

(* INSERT ... ON CONFLICT DO NOTHING waits for the transaction that holds  *)
(* the symbol; then the scorecard is saved.                                *)
InsertReference(w) ==
    /\ tx[w].pc = "referencing"
    /\ ~Blocked(w)
    /\ LET s == tx[w].symbol
       IN  Advance(w, [tx[w] EXCEPT !.pc = "scoring", !.symbol = None,
                                    !.added = IF s \in reference THEN @ ELSE @ \cup {s},
                                    !.row.scored = @ \cup {s}])

EndScoring(w) ==
    /\ tx[w].pc = "scoring"
    /\ tx[w].row.scored = tx[w].row.facts
    /\ Advance(w, [tx[w] EXCEPT !.pc = "marking"])

SaveMark(w) ==
    /\ tx[w].pc = "marking"
    /\ ~Blocked(w)
    /\ Advance(w, [tx[w] EXCEPT !.pc = "rebuilding", !.marked = TRUE])

RebuildAndComplete(w) ==
    /\ tx[w].pc = "rebuilding"
    /\ Advance(w, [tx[w] EXCEPT !.pc = "returning", !.answer = "succeeded",
                                !.row = CompleteRun(tx[w].row, "completed")])

(* Mutant: the run is marked although its scoring broke off.               *)
RaiseMarksAnyway(w) ==
    /\ tx[w].pc = "scoring"
    /\ Advance(w, [tx[w] EXCEPT !.pc = "marking"])

(* Python code raises: the except clause of run completes the row.  Only   *)
(* fetching and scoring can; a mark is followed by SQL alone.              *)
Raise(w) ==
    /\ tx[w].pc = "scoring"
    /\ Advance(w, [tx[w] EXCEPT !.pc = "returning", !.answer = "succeeded",
                                !.row = CompleteRun(tx[w].row, "failed")])

-----------------------------------------------------------------------------
(* The ends of the transaction *)

(* Mutant: the handler asks for the halt when the run is over.             *)
CommitReportsHaltNow(w) ==
    LET t == tx[w]
    IN  /\ t.pc = "returning"
        /\ row' = [row EXCEPT ![t.run] = t.row]
        /\ reference' = reference \cup t.added
        /\ mark' = IF t.marked THEN [mark EXCEPT ![t.day] = t.run] ELSE mark
        /\ result' = [result EXCEPT ![t.run] = IF halted THEN "book_halted" ELSE t.answer]
        /\ tx' = [tx EXCEPT ![w] = Idle]
        /\ UNCHANGED halted

Commit(w) ==
    LET t == tx[w]
    IN  /\ t.pc = "returning"
        /\ row' = [row EXCEPT ![t.run] = t.row]
        /\ reference' = reference \cup t.added
        /\ mark' = IF t.marked THEN [mark EXCEPT ![t.day] = t.run] ELSE mark
        /\ result' = [result EXCEPT ![t.run] = t.answer]
        /\ tx' = [tx EXCEPT ![w] = Idle]
        /\ UNCHANGED halted

Abort(w) ==
    /\ result' = [result EXCEPT ![tx[w].run] = "error"]
    /\ tx' = [tx EXCEPT ![w] = Idle]
    /\ UNCHANGED <<row, mark, reference, halted>>

(* An SQL error: a lost connection, a duplicate key in the rebuild.        *)
SqlError(w) == tx[w].pc # "idle" /\ Abort(w)

(* Two transactions that wait for each other: PostgreSQL aborts one.       *)
AbortDeadlock(w) ==
    /\ \E v \in Others(w) : Waits(w, v) /\ Waits(v, w)
    /\ Abort(w)

(* halt.create and halt.resume commit in other workers.                    *)
ToggleHalt == halted' = ~halted /\ UNCHANGED <<committed, tx>>

-----------------------------------------------------------------------------

Proceed(w) ==
    \/ Start(w) \/ SkipHalted(w) \/ FetchFacts(w)
    \/ \E s \in Symbols : SaveScorecard(w, s) \/ MissReference(w, s)
    \/ InsertReference(w) \/ EndScoring(w) \/ SaveMark(w) \/ RebuildAndComplete(w)
    \/ Commit(w) \/ AbortDeadlock(w)

Next ==
    \/ \E w \in Workers :
          \/ \E r \in Runs : Reserve(w, r)
          \/ Proceed(w) \/ Raise(w) \/ SqlError(w)
    \/ ToggleHalt

Spec == Init /\ [][Next]_vars

-----------------------------------------------------------------------------
(* Properties *)

(* A command reports success exactly when its run is in the database, and  *)
(* a command that reports HANDLER_ERROR has left no run, scorecard or mark.*)
ReportsMatchRows ==
    \A r \in Runs :
        /\ (result[r] \in {"succeeded", "book_halted"}) <=> (row[r].status # "absent")
        /\ result[r] = "error" => \A d \in Days : mark[d] # r

(* The mark of a day was written by a run that stored a scorecard for every*)
(* symbol it had facts for: a run that broke off in scoring never marks.   *)
MarksAreFullyScored ==
    \A d \in Days : mark[d] # None => row[mark[d]].scored = row[mark[d]].facts

(* A run that reports book_halted has stored no scorecard and no mark.     *)
HaltedRunsLeaveNothing ==
    \A r \in Runs :
        result[r] = "book_halted" =>
            row[r].scored = {} /\ \A d \in Days : mark[d] # r

(* Every stored scorecard has its security reference, although the run that*)
(* was inserting it at the same time may have rolled back.                 *)
ScorecardsHaveReferences == \A r \in Runs : row[r].scored \subseteq reference

(* A run that has begun reports a result, although runs on the same day    *)
(* wait for each other's references and marks.                             *)
EveryRunReports ==
    \A r \in Runs : (\E w \in Workers : tx[w].run = r) ~> (result[r] # "none")

(* tests/unit/test_operational_store.py:139-144: after complete_run(...,   *)
(* "completed") the run that is read back has the status COMPLETED.        *)
ReportedRunsAreCompleted ==
    \A r \in Runs :
        result[r] \in {"succeeded", "book_halted"} =>
            row[r].status \in {"completed", "failed", "halted"}
=============================================================================
