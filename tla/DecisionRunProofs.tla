--------------------------- MODULE DecisionRunProofs --------------------------
(***************************************************************************)
(* Proofs about DecisionRun for every set of runs, symbols, days and       *)
(* workers.  The invariants speak of committed rows, and a commit writes   *)
(* what a transaction has collected: they become inductive with Progress,  *)
(* which says what a transaction has collected by each of its statements.  *)
(***************************************************************************)
EXTENDS DecisionRun, TLAPS

(* What a transaction knows, from the statement it has reached.            *)
Progress(t) ==
    /\ t \in Transaction
    /\ t.pc = "idle" => t = Idle
    /\ t.pc # "idle" => /\ t.run \in Runs
                        /\ t.day \in Days
                        /\ result[t.run] = "none"
                        /\ t.row.status # "absent"
    /\ t.pc = "referencing" => t.symbol \in Symbols
    /\ t.pc \in {"marking", "rebuilding"} => t.row.scored = t.row.facts
    /\ (t.pc = "returning") <=> (t.answer # "none")
    /\ t.marked => t.pc \in {"rebuilding", "returning"} /\ t.row.scored = t.row.facts
    /\ t.pc \in {"reserved", "started"} => t.row.scored = {}
    /\ t.answer = "book_halted" => t.row.scored = {} /\ ~t.marked
    /\ t.row.scored \subseteq reference \cup t.added

ProgressInv == \A w \in Workers : Progress(tx[w])

(* A run is in one transaction.                                            *)
OneTransactionPerRun ==
    \A v, w \in Workers : v # w /\ tx[w].run # None => tx[v].run # tx[w].run

(* A mark is of a run that has reported success.                           *)
MarksAreReported == \A d \in Days : mark[d] # None => result[mark[d]] = "succeeded"

IInv ==
    /\ TypeOK
    /\ ProgressInv
    /\ OneTransactionPerRun
    /\ MarksAreReported
    /\ ReportsMatchRows
    /\ MarksAreFullyScored
    /\ HaltedRunsLeaveNothing
    /\ ScorecardsHaveReferences

USE DecisionRunAssumption

-----------------------------------------------------------------------------

LEMMA IdleProgress == Progress(Idle)
    BY DEF Progress, Idle, NoRow, Transaction, Row, RunStatus

LEMMA InitInv == Init => IInv
  <1> SUFFICES ASSUME Init PROVE IInv
    OBVIOUS
  <1>1. TypeOK
    BY IdleProgress DEF Init, TypeOK, Progress, NoRow, Row, RunStatus
  <1>2. ProgressInv /\ OneTransactionPerRun
    BY IdleProgress DEF Init, ProgressInv, OneTransactionPerRun, Idle
  <1>3. /\ MarksAreReported /\ ReportsMatchRows /\ MarksAreFullyScored
        /\ HaltedRunsLeaveNothing /\ ScorecardsHaveReferences
    BY DEF Init, MarksAreReported, ReportsMatchRows, MarksAreFullyScored,
           HaltedRunsLeaveNothing, ScorecardsHaveReferences, NoRow
  <1> QED
    BY <1>1, <1>2, <1>3 DEF IInv

(* A statement that changes only its own transaction keeps the invariant   *)
(* if it keeps Progress and stays with its run.                            *)
LEMMA AdvanceInv ==
    ASSUME IInv, NEW w \in Workers, NEW t, Progress(t), Advance(w, t),
           \A v \in Others(w) : t.run # None => tx[v].run # t.run
    PROVE  IInv'
  <1> USE DEF Advance, committed
  <1>1. TypeOK'
    BY DEF IInv, TypeOK, Progress
  <1>2. ProgressInv'
    <2> SUFFICES ASSUME NEW v \in Workers PROVE Progress(tx[v])'
      BY DEF ProgressInv
    <2>1. tx'[v] = IF v = w THEN t ELSE tx[v]
      BY DEF IInv, TypeOK
    <2>2. Progress(tx[v])
      BY DEF IInv, ProgressInv
    <2> QED
      BY <2>1, <2>2 DEF Progress
  <1>3. OneTransactionPerRun'
    BY DEF IInv, TypeOK, OneTransactionPerRun, Others
  <1>4. /\ MarksAreReported' /\ ReportsMatchRows' /\ MarksAreFullyScored'
        /\ HaltedRunsLeaveNothing' /\ ScorecardsHaveReferences'
    BY DEF IInv, MarksAreReported, ReportsMatchRows, MarksAreFullyScored,
           HaltedRunsLeaveNothing, ScorecardsHaveReferences
  <1> QED
    BY <1>1, <1>2, <1>3, <1>4 DEF IInv

(* The same for a statement of a transaction that has its run.             *)
LEMMA StatementInv ==
    ASSUME IInv, NEW w \in Workers, tx[w].pc # "idle",
           NEW t, Progress(t), t.run = tx[w].run, Advance(w, t)
    PROVE  IInv'
  <1>1. \A v \in Others(w) : t.run # None => tx[v].run # t.run
    BY DEF IInv, OneTransactionPerRun, Others
  <1> QED
    BY <1>1, AdvanceInv

(* The end of a transaction that leaves the tables as they are.            *)
LEMMA AbortInv ==
    ASSUME IInv, NEW w \in Workers, tx[w].pc # "idle", Abort(w)
    PROVE  IInv'
  <1> DEFINE r == tx[w].run
  <1> USE DEF Abort
  <1>1. /\ Progress(tx[w])
        /\ r \in Runs /\ result[r] = "none" /\ row[r].status = "absent"
    BY DEF IInv, ProgressInv, Progress, ReportsMatchRows
  <1>2. /\ result \in [Runs -> {"none", "succeeded", "book_halted", "error"}]
        /\ result' = [result EXCEPT ![r] = "error"]
    BY DEF IInv, TypeOK
  <1>3. TypeOK'
    BY <1>2, IdleProgress DEF IInv, TypeOK, Progress
  <1>4. ProgressInv'
    <2> SUFFICES ASSUME NEW v \in Workers PROVE Progress(tx[v])'
      BY DEF ProgressInv
    <2>1. CASE v = w
      BY <2>1, IdleProgress DEF IInv, TypeOK, Progress, Idle
    <2>2. CASE v # w
      <3>1. tx'[v] = tx[v] /\ Progress(tx[v]) /\ tx[v].run # r
        BY <1>1, <2>2 DEF IInv, TypeOK, ProgressInv, OneTransactionPerRun
      <3>2. tx[v].pc # "idle" => result'[tx[v].run] = "none"
        BY <1>2, <3>1 DEF Progress
      <3> QED
        BY <3>1, <3>2 DEF Progress
    <2> QED
      BY <2>1, <2>2
  <1>5. OneTransactionPerRun'
    BY DEF IInv, TypeOK, OneTransactionPerRun, Idle
  <1>6. MarksAreReported' /\ ReportsMatchRows'
    BY <1>1, <1>2 DEF IInv, TypeOK, MarksAreReported, ReportsMatchRows
  <1>7. MarksAreFullyScored' /\ HaltedRunsLeaveNothing' /\ ScorecardsHaveReferences'
    BY <1>1, <1>2 DEF IInv, MarksAreFullyScored, HaltedRunsLeaveNothing,
                      ScorecardsHaveReferences
  <1> QED
    BY <1>3, <1>4, <1>5, <1>6, <1>7 DEF IInv

LEMMA CommitInv ==
    ASSUME IInv, NEW w \in Workers, Commit(w)
    PROVE  IInv'
  <1> DEFINE t == tx[w]
             r == t.run
  <1>1. /\ Progress(t) /\ t.pc = "returning"
        /\ r \in Runs /\ t.day \in Days /\ t.row \in Row /\ t.added \in SUBSET Symbols
        /\ result[r] = "none" /\ row[r].status = "absent"
        /\ t.answer \in {"succeeded", "book_halted"} /\ t.row.status # "absent"
        /\ r # None
    BY DEF Commit, IInv, ProgressInv, Progress, ReportsMatchRows, Transaction
  <1>2. /\ row' = [row EXCEPT ![r] = t.row]
        /\ result' = [result EXCEPT ![r] = t.answer]
        /\ reference' = reference \cup t.added
        /\ mark' = IF t.marked THEN [mark EXCEPT ![t.day] = r] ELSE mark
        /\ tx' = [tx EXCEPT ![w] = Idle]
        /\ halted' = halted
    BY DEF Commit
  <1>3. TypeOK'
    BY <1>1, <1>2, IdleProgress DEF IInv, TypeOK, Progress
  <1>4. /\ \A q \in Runs : /\ row'[q] = IF q = r THEN t.row ELSE row[q]
                           /\ result'[q] = IF q = r THEN t.answer ELSE result[q]
        /\ \A d \in Days : mark'[d] = IF t.marked /\ d = t.day THEN r ELSE mark[d]
        /\ \A v \in Workers : tx'[v] = IF v = w THEN Idle ELSE tx[v]
        /\ \A d \in Days : mark[d] \in Runs \cup {None} /\ mark[d] # r
    BY <1>1, <1>2 DEF IInv, TypeOK, MarksAreReported
  <1>5. ProgressInv'
    <2> SUFFICES ASSUME NEW v \in Workers PROVE Progress(tx[v])'
      BY DEF ProgressInv
    <2>1. CASE v = w
      <3>1. tx'[v] = Idle
        BY <2>1, <1>4
      <3>2. Idle \in Transaction
        BY IdleProgress DEF Progress
      <3>3. /\ Idle.pc = "idle" /\ Idle.answer = "none" /\ Idle.marked = FALSE
            /\ Idle.row.scored = {}
        BY DEF Idle, NoRow
      <3> QED
        BY <3>1, <3>2, <3>3 DEF Progress
    <2>2. CASE v # w
      <3>1. tx'[v] = tx[v] /\ Progress(tx[v]) /\ tx[v].run # r
        BY <1>1, <1>4, <2>2 DEF IInv, ProgressInv, OneTransactionPerRun
      <3>2. tx[v].pc # "idle" => result'[tx[v].run] = "none"
        BY <1>4, <3>1 DEF Progress
      <3>3. reference \subseteq reference'
        BY <1>2
      <3> QED
        BY <3>1, <3>2, <3>3 DEF Progress
    <2> QED
      BY <2>1, <2>2
  <1>6. OneTransactionPerRun'
    BY <1>4 DEF IInv, OneTransactionPerRun, Idle
  <1>7. t.marked => t.row.scored = t.row.facts /\ t.answer = "succeeded"
    BY <1>1 DEF Progress
  <1>8. MarksAreReported' /\ MarksAreFullyScored'
    BY <1>1, <1>4, <1>7 DEF IInv, MarksAreReported, MarksAreFullyScored
  <1>9. ReportsMatchRows'
    BY <1>1, <1>4 DEF IInv, ReportsMatchRows
  <1>10. HaltedRunsLeaveNothing'
    BY <1>1, <1>4, <1>7 DEF IInv, HaltedRunsLeaveNothing, Progress
  <1>11. ScorecardsHaveReferences'
    BY <1>1, <1>2, <1>4 DEF IInv, ScorecardsHaveReferences, Progress
  <1> QED
    BY <1>3, <1>5, <1>6, <1>8, <1>9, <1>10, <1>11 DEF IInv

LEMMA StepInv == IInv /\ [Next]_vars => IInv'
  <1> SUFFICES ASSUME IInv, [Next]_vars PROVE IInv'
    OBVIOUS
  <1> USE DEF Transaction, Row, RunStatus
  <1>1. ASSUME NEW w \in Workers, NEW r \in Runs, Reserve(w, r) PROVE IInv'
    <2>1. PICK d \in Days :
             Advance(w, [Idle EXCEPT !.pc = "reserved", !.run = r, !.day = d,
                                     !.row.status = "reserved"])
      BY <1>1 DEF Reserve
    <2> DEFINE t == [Idle EXCEPT !.pc = "reserved", !.run = r, !.day = d,
                                 !.row.status = "reserved"]
    <2>2. Progress(t)
      BY <1>1 DEF Progress, Idle, NoRow, Reserve
    <2>3. \A v \in Others(w) : t.run # None => tx[v].run # t.run
      BY <1>1 DEF Reserve, Others, Idle, NoRow
    <2> QED
      BY <2>1, <2>2, <2>3, AdvanceInv
  <1>2. ASSUME NEW w \in Workers, Proceed(w) PROVE IInv'
    <2>0. Progress(tx[w])
      BY DEF IInv, ProgressInv
    <2>1. CASE Start(w)
      <3> DEFINE t == [tx[w] EXCEPT !.pc = "started", !.row.status = "running"]
      <3>1. Progress(t) /\ t.run = tx[w].run
        BY <2>0, <2>1 DEF Progress, Start
      <3> QED
        BY <2>1, <3>1, StatementInv DEF Start
    <2>2. CASE SkipHalted(w)
      <3> DEFINE t == [tx[w] EXCEPT !.pc = "returning", !.answer = "book_halted",
                                    !.row = CompleteRun(tx[w].row, "halted")]
      <3>1. Progress(t) /\ t.run = tx[w].run
        BY <2>0, <2>2 DEF Progress, SkipHalted, CompleteRun, Completable
      <3> QED
        BY <2>2, <3>1, StatementInv DEF SkipHalted
    <2>3. CASE FetchFacts(w)
      <3>1. PICK facts \in SUBSET Symbols :
               Advance(w, [tx[w] EXCEPT !.pc = "scoring", !.row.facts = facts])
        BY <2>3 DEF FetchFacts
      <3> DEFINE t == [tx[w] EXCEPT !.pc = "scoring", !.row.facts = facts]
      <3>2. Progress(t) /\ t.run = tx[w].run
        BY <2>0, <2>3 DEF Progress, FetchFacts
      <3> QED
        BY <2>3, <3>1, <3>2, StatementInv DEF FetchFacts
    <2>4. ASSUME NEW s \in Symbols, SaveScorecard(w, s) PROVE IInv'
      <3> DEFINE t == [tx[w] EXCEPT !.row.scored = @ \cup {s}]
      <3>1. Progress(t) /\ t.run = tx[w].run
        BY <2>0, <2>4 DEF Progress, SaveScorecard
      <3> QED
        BY <2>4, <3>1, StatementInv DEF SaveScorecard
    <2>5. ASSUME NEW s \in Symbols, MissReference(w, s) PROVE IInv'
      <3> DEFINE t == [tx[w] EXCEPT !.pc = "referencing", !.symbol = s]
      <3>1. Progress(t) /\ t.run = tx[w].run
        BY <2>0, <2>5 DEF Progress, MissReference
      <3> QED
        BY <2>5, <3>1, StatementInv DEF MissReference
    <2>6. CASE InsertReference(w)
      <3> DEFINE s == tx[w].symbol
                 t == [tx[w] EXCEPT !.pc = "scoring", !.symbol = None,
                                    !.added = IF s \in reference THEN @ ELSE @ \cup {s},
                                    !.row.scored = @ \cup {s}]
      <3>1. Progress(t) /\ t.run = tx[w].run
        BY <2>0, <2>6 DEF Progress, InsertReference
      <3> QED
        BY <2>6, <3>1, StatementInv DEF InsertReference
    <2>7. CASE EndScoring(w)
      <3> DEFINE t == [tx[w] EXCEPT !.pc = "marking"]
      <3>1. Progress(t) /\ t.run = tx[w].run
        BY <2>0, <2>7 DEF Progress, EndScoring
      <3> QED
        BY <2>7, <3>1, StatementInv DEF EndScoring
    <2>8. CASE SaveMark(w)
      <3> DEFINE t == [tx[w] EXCEPT !.pc = "rebuilding", !.marked = TRUE]
      <3>1. Progress(t) /\ t.run = tx[w].run
        BY <2>0, <2>8 DEF Progress, SaveMark
      <3> QED
        BY <2>8, <3>1, StatementInv DEF SaveMark
    <2>9. CASE RebuildAndComplete(w)
      <3> DEFINE t == [tx[w] EXCEPT !.pc = "returning", !.answer = "succeeded",
                                    !.row = CompleteRun(tx[w].row, "completed")]
      <3>1. Progress(t) /\ t.run = tx[w].run
        BY <2>0, <2>9 DEF Progress, RebuildAndComplete, CompleteRun, Completable
      <3> QED
        BY <2>9, <3>1, StatementInv DEF RebuildAndComplete
    <2>10. CASE Commit(w)
      BY <2>10, CommitInv
    <2>11. CASE AbortDeadlock(w)
      <3>1. tx[w].pc # "idle"
        BY <2>11 DEF AbortDeadlock, Waits
      <3> QED
        BY <2>11, <3>1, AbortInv DEF AbortDeadlock
    <2> QED
      BY <1>2, <2>1, <2>2, <2>3, <2>4, <2>5, <2>6, <2>7, <2>8, <2>9, <2>10, <2>11
         DEF Proceed
  <1>3. ASSUME NEW w \in Workers, Raise(w) PROVE IInv'
    <2> DEFINE t == [tx[w] EXCEPT !.pc = "returning", !.answer = "succeeded",
                                  !.row = CompleteRun(tx[w].row, "failed")]
    <2>1. Progress(tx[w])
      BY DEF IInv, ProgressInv
    <2>2. Progress(t) /\ t.run = tx[w].run
      BY <1>3, <2>1 DEF Progress, Raise, CompleteRun, Completable
    <2> QED
      BY <1>3, <2>2, StatementInv DEF Raise
  <1>4. ASSUME NEW w \in Workers, SqlError(w) PROVE IInv'
    BY <1>4, AbortInv DEF SqlError
  <1>5. CASE ToggleHalt \/ UNCHANGED vars
    <2>1. UNCHANGED <<row, mark, reference, result, tx>> /\ halted' \in BOOLEAN
      BY <1>5 DEF ToggleHalt, vars, committed, IInv, TypeOK
    <2>2. TypeOK' /\ OneTransactionPerRun' /\ MarksAreReported' /\ ReportsMatchRows'
      BY <2>1 DEF IInv, TypeOK, OneTransactionPerRun, MarksAreReported, ReportsMatchRows
    <2>3. ProgressInv'
      BY <2>1 DEF IInv, ProgressInv, Progress
    <2>4. MarksAreFullyScored' /\ HaltedRunsLeaveNothing' /\ ScorecardsHaveReferences'
      BY <2>1 DEF IInv, MarksAreFullyScored, HaltedRunsLeaveNothing,
                  ScorecardsHaveReferences
    <2> QED
      BY <2>2, <2>3, <2>4 DEF IInv
  <1> QED
    BY <1>1, <1>2, <1>3, <1>4, <1>5 DEF Next

LEMMA Invariance == Spec => []IInv
    BY InitInv, StepInv, PTL DEF Spec

-----------------------------------------------------------------------------

(* TypeOK holds for every number of runs, symbols, days and workers.       *)
THEOREM RunsAreTyped == Spec => []TypeOK
  <1>1. IInv => TypeOK
    BY DEF IInv
  <1> QED
    BY <1>1, Invariance, PTL

(* What a decision.run command reports is what is in the database.         *)
THEOREM ReportsAreTrue == Spec => []ReportsMatchRows
  <1>1. IInv => ReportsMatchRows
    BY DEF IInv
  <1> QED
    BY <1>1, Invariance, PTL

(* A run that broke off never marks the portfolio.                         *)
THEOREM MarksFollowScoring == Spec => []MarksAreFullyScored
  <1>1. IInv => MarksAreFullyScored
    BY DEF IInv
  <1> QED
    BY <1>1, Invariance, PTL

(* A run that was skipped because of a halt has written only its own row.  *)
THEOREM HaltedRunsAreEmpty == Spec => []HaltedRunsLeaveNothing
  <1>1. IInv => HaltedRunsLeaveNothing
    BY DEF IInv
  <1> QED
    BY <1>1, Invariance, PTL

(* No scorecard refers to a security that was rolled back.                 *)
THEOREM ReferencesOutliveRollbacks == Spec => []ScorecardsHaveReferences
  <1>1. IInv => ScorecardsHaveReferences
    BY DEF IInv
  <1> QED
    BY <1>1, Invariance, PTL

-----------------------------------------------------------------------------

(* What was reported of a run, and the row that a reader found then, never *)
(* change again: no other transaction has the run, and none reserves it    *)
(* again.                                                                  *)
ReportsAreFinal ==
    [][\A r \in Runs :
          result[r] # "none" => result'[r] = result[r] /\ row'[r] = row[r]]_vars

LEMMA ReportStays ==
    ASSUME IInv, [Next]_vars, NEW r \in Runs, result[r] # "none"
    PROVE  result'[r] = result[r] /\ row'[r] = row[r]
  <1>1. ASSUME NEW w \in Workers, tx[w].pc # "idle" PROVE tx[w].run \in Runs /\ tx[w].run # r
    BY <1>1 DEF IInv, ProgressInv, Progress
  <1>2. row \in [Runs -> Row] /\ DOMAIN result = Runs
    BY DEF IInv, TypeOK
  <1>3. ASSUME NEW w \in Workers, Commit(w) PROVE result'[r] = result[r] /\ row'[r] = row[r]
    BY <1>1, <1>2, <1>3 DEF Commit
  <1>4. ASSUME NEW w \in Workers, tx[w].pc # "idle", Abort(w)
        PROVE  result'[r] = result[r] /\ row'[r] = row[r]
    BY <1>1, <1>2, <1>4 DEF Abort
  <1>5. ASSUME NEW w \in Workers, AbortDeadlock(w) PROVE tx[w].pc # "idle" /\ Abort(w)
    BY <1>5 DEF AbortDeadlock, Waits, IInv, ProgressInv, Progress, Idle
  <1>6. ASSUME NEW w \in Workers, Proceed(w)
        PROVE  Commit(w) \/ AbortDeadlock(w) \/ UNCHANGED committed
    BY <1>6 DEF Proceed, Start, SkipHalted, FetchFacts, SaveScorecard, MissReference,
                InsertReference, EndScoring, SaveMark, RebuildAndComplete, Advance
  <1>7. \/ UNCHANGED committed
        \/ \E w \in Workers : Commit(w) \/ (tx[w].pc # "idle" /\ Abort(w))
    BY <1>5, <1>6 DEF Next, Reserve, Raise, Advance, SqlError, ToggleHalt, committed, vars
  <1> QED
    BY <1>3, <1>4, <1>7 DEF committed

(* Nothing takes back what a decision run reported.                        *)
THEOREM ReportsStand == Spec => ReportsAreFinal
  <1>1. IInv /\ [Next]_vars =>
          [\A r \in Runs :
              result[r] # "none" => result'[r] = result[r] /\ row'[r] = row[r]]_vars
    BY ReportStays
  <1> QED
    BY <1>1, Invariance, PTL DEF Spec, ReportsAreFinal
=============================================================================
