--------------------------- MODULE HaltControlProofs --------------------------
(***************************************************************************)
(* Proofs about HaltControl for every number of halts and workers.  The    *)
(* current halt and the audit trail agree because the row lock of the halt *)
(* serializes the transactions between their UPSERT or UPDATE and their    *)
(* commit: what a resume is about to close (Local) stays exactly what is   *)
(* open for as long as it holds the lock (OneHolder).                      *)
(***************************************************************************)
EXTENDS HaltControl, TLAPS

Local(t) ==
    /\ t \in Transaction
    /\ t.pc \in {"inserted", "upserted"} => t.halt \in Halts
    /\ t.sawRow => haltRow # "none"
    /\ t.pc \in {"updated", "closing"} /\ t.sawRow => t.matched
    /\ t.matched => t.pc \in {"updated", "closing"} /\ haltRow # "none"
    /\ t.pc = "closing" => t.closes = IF t.sawRow THEN Open ELSE {}

LocalInv == \A w \in Workers : Local(tx[w])

OneHolder == \A v, w \in Workers : HoldsHaltRow(v) /\ HoldsHaltRow(w) => v = w

IInv ==
    /\ TypeOK
    /\ LocalInv
    /\ OneHolder
    /\ HaltedHasOpenTransition
    /\ ClearedIsClosed

USE HaltControlAssumption

-----------------------------------------------------------------------------

LEMMA IdleLocal ==
    /\ Idle \in Transaction /\ Idle.pc = "idle"
    /\ ~Idle.sawRow /\ ~Idle.matched /\ Idle.closes = {}
    BY DEF Idle, Transaction

LEMMA InitInv == Init => IInv
  <1> SUFFICES ASSUME Init PROVE IInv
    OBVIOUS
  <1>1. TypeOK
    BY IdleLocal DEF Init, TypeOK, Outcome
  <1>2. LocalInv /\ OneHolder
    BY IdleLocal DEF Init, LocalInv, Local, OneHolder, HoldsHaltRow
  <1>3. HaltedHasOpenTransition /\ ClearedIsClosed
    BY DEF Init, HaltedHasOpenTransition, ClearedIsClosed
  <1> QED
    BY <1>1, <1>2, <1>3 DEF IInv

(* A statement leaves the committed rows alone.  It keeps the invariant if *)
(* it keeps Local, and takes the row lock only when nobody has it.         *)
LEMMA StatementInv ==
    ASSUME IInv, NEW w \in Workers, NEW t, Local(t), Move(w, t),
           UNCHANGED committed, outcome' \in [Workers -> Outcome],
           \/ ~(t.pc = "upserted" \/ t.matched)
           \/ HaltRowFree(w)
           \/ HoldsHaltRow(w)
    PROVE  IInv'
  <1> USE DEF Move, committed
  <1>1. \A v \in Workers : tx'[v] = IF v = w THEN t ELSE tx[v]
    BY DEF IInv, TypeOK
  <1>2. TypeOK'
    BY DEF IInv, TypeOK, Local
  <1>3. LocalInv'
    <2> SUFFICES ASSUME NEW v \in Workers PROVE Local(tx[v])'
      BY DEF LocalInv
    <2>1. Local(tx'[v])
      BY <1>1 DEF IInv, LocalInv
    <2> QED
      BY <2>1 DEF Local, Open
  <1>4. OneHolder'
    BY <1>1 DEF IInv, OneHolder, HoldsHaltRow, HaltRowFree
  <1>5. HaltedHasOpenTransition' /\ ClearedIsClosed'
    BY DEF IInv, HaltedHasOpenTransition, ClearedIsClosed, Open
  <1> QED
    BY <1>2, <1>3, <1>4, <1>5 DEF IInv

(* A transaction that ends without a write to the halt.                    *)
LEMMA IdleInv ==
    ASSUME IInv, NEW w \in Workers, Move(w, Idle), UNCHANGED committed,
           outcome' \in [Workers -> Outcome]
    PROVE  IInv'
  <1>1. Local(Idle)
    BY IdleLocal DEF Local
  <1> QED
    BY <1>1, IdleLocal, StatementInv

(* While nobody else has the row lock, nobody else is about to close a     *)
(* transition.                                                             *)
LEMMA OthersCloseNothing ==
    ASSUME IInv, NEW w \in Workers, HoldsHaltRow(w),
           NEW v \in Workers \ {w}, tx[v].pc = "closing"
    PROVE  ~tx[v].sawRow /\ tx[v].closes = {}
  <1>1. Local(tx[v]) /\ ~HoldsHaltRow(v)
    BY DEF IInv, LocalInv, OneHolder
  <1> QED
    BY <1>1 DEF Local, HoldsHaltRow

LEMMA CommitHaltInv ==
    ASSUME IInv, NEW w \in Workers, CommitHalt(w)
    PROVE  IInv'
  <1>1. HoldsHaltRow(w) /\ Local(tx[w]) /\ tx[w].halt \in Halts
    BY DEF CommitHalt, HoldsHaltRow, IInv, LocalInv, Local
  <1>2. /\ haltRow' = "halted" /\ blindClear' = blindClear
        /\ transition' = [h \in Halts |-> IF h = tx[w].halt THEN "open" ELSE transition[h]]
        /\ tx' = [tx EXCEPT ![w] = Idle]
        /\ outcome' = [outcome EXCEPT ![w] = "succeeded"]
    BY DEF CommitHalt, Finish, Move
  <1>3. \A v \in Workers : tx'[v] = IF v = w THEN Idle ELSE tx[v]
    BY <1>2 DEF IInv, TypeOK
  <1>4. TypeOK'
    BY <1>2, IdleLocal DEF IInv, TypeOK, Outcome
  <1>5. LocalInv'
    <2> SUFFICES ASSUME NEW v \in Workers PROVE Local(tx[v])'
      BY DEF LocalInv
    <2>1. CASE v = w
      BY <2>1, <1>3, IdleLocal DEF Local
    <2>2. CASE v # w
      <3>1. tx'[v] = tx[v] /\ Local(tx[v])
        BY <2>2, <1>3 DEF IInv, LocalInv
      <3>2. tx[v].pc = "closing" => ~tx[v].sawRow /\ tx[v].closes = {}
        BY <1>1, <2>2, OthersCloseNothing
      <3> QED
        BY <3>1, <3>2, <1>2 DEF Local
    <2> QED
      BY <2>1, <2>2
  <1>6. OneHolder'
    BY <1>3, IdleLocal DEF IInv, OneHolder, HoldsHaltRow
  <1>7. tx[w].halt \in Open'
    BY <1>1, <1>2 DEF Open
  <1>8. HaltedHasOpenTransition' /\ ClearedIsClosed'
    BY <1>2, <1>7 DEF HaltedHasOpenTransition, ClearedIsClosed
  <1> QED
    BY <1>4, <1>5, <1>6, <1>8 DEF IInv

LEMMA CommitClearInv ==
    ASSUME IInv, NEW w \in Workers, CommitClear(w)
    PROVE  IInv'
  <1> DEFINE t == tx[w]
  <1>1. /\ Local(t) /\ t.pc = "closing" /\ t \in Transaction
        /\ t.closes = (IF t.sawRow THEN Open ELSE {})
        /\ t.sawRow => t.matched
        /\ t.matched => HoldsHaltRow(w)
    BY DEF CommitClear, IInv, LocalInv, Local, HoldsHaltRow
  <1>2. /\ haltRow' = IF t.matched THEN "cleared" ELSE haltRow
        /\ transition' = [h \in Halts |-> IF h \in t.closes THEN "closed" ELSE transition[h]]
        /\ blindClear' = (blindClear \/ (t.matched /\ ~t.sawRow))
        /\ tx' = [tx EXCEPT ![w] = Idle]
        /\ outcome' = [outcome EXCEPT ![w] = "succeeded"]
    BY DEF CommitClear, Finish, Move
  <1>3. \A v \in Workers : tx'[v] = IF v = w THEN Idle ELSE tx[v]
    BY <1>2 DEF IInv, TypeOK
  <1>4. TypeOK'
    BY <1>1, <1>2, IdleLocal DEF IInv, TypeOK, Outcome
  <1>5. Open' = IF t.sawRow THEN {} ELSE Open
    BY <1>1, <1>2 DEF Open
  <1>6. LocalInv'
    <2> SUFFICES ASSUME NEW v \in Workers PROVE Local(tx[v])'
      BY DEF LocalInv
    <2>1. CASE v = w
      BY <2>1, <1>3, IdleLocal DEF Local
    <2>2. CASE v # w
      <3>1. tx'[v] = tx[v] /\ Local(tx[v])
        BY <2>2, <1>3 DEF IInv, LocalInv
      <3>2. t.sawRow /\ tx[v].pc = "closing" => ~tx[v].sawRow /\ tx[v].closes = {}
        BY <1>1, <2>2, OthersCloseNothing
      <3>3. haltRow # "none" => haltRow' # "none"
        BY <1>2
      <3> QED
        BY <3>1, <3>2, <3>3, <1>5 DEF Local
    <2> QED
      BY <2>1, <2>2
  <1>7. OneHolder'
    BY <1>3, IdleLocal DEF IInv, OneHolder, HoldsHaltRow
  <1>8. HaltedHasOpenTransition' /\ ClearedIsClosed'
    BY <1>1, <1>2, <1>5 DEF IInv, HaltedHasOpenTransition, ClearedIsClosed
  <1> QED
    BY <1>4, <1>6, <1>7, <1>8 DEF IInv

LEMMA StepInv == IInv /\ [Next]_vars => IInv'
  <1> SUFFICES ASSUME IInv, [Next]_vars PROVE IInv'
    OBVIOUS
  <1>0. \A w \in Workers : Local(tx[w]) /\ tx[w] \in Transaction
    BY DEF IInv, LocalInv, Local
  <1>a. outcome \in [Workers -> Outcome]
    BY DEF IInv, TypeOK
  <1>1. ASSUME NEW w \in Workers, SetHalt(w) PROVE IInv'
    <2>1. ASSUME NEW h \in Halts, InsertTransition(w, h) PROVE IInv'
      <3> DEFINE t == [Idle EXCEPT !.pc = "inserted", !.halt = h]
      <3>1. Local(t) /\ t.pc = "inserted" /\ ~t.matched
        BY DEF Local, Idle, Transaction
      <3> QED
        BY <1>a, <2>1, <3>1, StatementInv DEF InsertTransition
    <2>2. CASE UpsertHalt(w)
      <3> DEFINE t == [tx[w] EXCEPT !.pc = "upserted"]
      <3>1. Local(t)
        BY <1>0, <2>2 DEF Local, UpsertHalt, Transaction
      <3> QED
        BY <1>a, <2>2, <3>1, StatementInv DEF UpsertHalt
    <2>3. CASE CommitHalt(w)
      BY <2>3, CommitHaltInv
    <2> QED
      BY <1>1, <2>1, <2>2, <2>3 DEF SetHalt
  <1>2. ASSUME NEW w \in Workers, ClearHalt(w) PROVE IInv'
    <2>1. CASE ReadHalt(w)
      <3> DEFINE t == [Idle EXCEPT !.pc = "read", !.sawRow = (haltRow # "none")]
      <3>1. Local(t) /\ t.pc = "read" /\ ~t.matched
        BY DEF Local, Idle, Transaction
      <3> QED
        BY <1>a, <2>1, <3>1, StatementInv DEF ReadHalt
    <2>2. CASE ClearHaltRow(w)
      <3> DEFINE t == [tx[w] EXCEPT !.pc = "updated", !.matched = (haltRow # "none")]
      <3>1. Local(t) /\ (t.pc = "upserted" \/ t.matched => HaltRowFree(w))
        BY <1>0, <2>2 DEF Local, ClearHaltRow, Transaction
      <3> QED
        BY <1>a, <2>2, <3>1, StatementInv DEF ClearHaltRow
    <2>3. CASE CloseTransitions(w)
      <3> DEFINE t == [tx[w] EXCEPT !.pc = "closing",
                                    !.closes = IF tx[w].sawRow THEN Open ELSE {}]
      <3>1. Local(t) /\ (t.pc = "upserted" \/ t.matched => HoldsHaltRow(w))
        BY <1>0, <2>3 DEF Local, CloseTransitions, Transaction, Open, HoldsHaltRow
      <3> QED
        BY <1>a, <2>3, <3>1, StatementInv DEF CloseTransitions
    <2>4. CASE CommitClear(w)
      BY <2>4, CommitClearInv
    <2> QED
      BY <1>2, <2>1, <2>2, <2>3, <2>4 DEF ClearHalt
  <1>3. ASSUME NEW w \in Workers, NEW pc \in {"modifying", "trading", "running"},
               Move(w, [Idle EXCEPT !.pc = pc]), UNCHANGED <<committed, outcome>>
        PROVE IInv'
    <2> DEFINE t == [Idle EXCEPT !.pc = pc]
    <2>1. Local(t) /\ ~(t.pc = "upserted" \/ t.matched)
      BY DEF Local, Idle, Transaction
    <2> QED
      BY <1>3, <1>a, <2>1, StatementInv
  <1>4. ASSUME NEW w \in Workers, NEW o \in Outcome, Finish(w, o), UNCHANGED committed
        PROVE IInv'
    <2>1. Move(w, Idle) /\ outcome' \in [Workers -> Outcome]
      BY <1>4, <1>a DEF Finish
    <2> QED
      BY <1>4, <2>1, IdleInv
  <1>5. ASSUME NEW w \in Workers, Gated(w) \/ BeginTrade(w) \/ CommitFill(w) \/ Fail(w)
        PROVE IInv'
    <2>1. CASE RefuseModify(w) \/ SkipRun(w) \/ CommitRun(w) \/ CommitFill(w)
      BY <2>1, <1>4 DEF RefuseModify, SkipRun, CommitRun, CommitFill, Outcome
    <2>2. CASE BeginModify(w) \/ BeginRun(w) \/ BeginTrade(w)
      BY <2>2, <1>3 DEF BeginModify, BeginRun, BeginTrade
    <2>3. CASE Fail(w)
      BY <2>3, <1>a, IdleInv DEF Fail
    <2> QED
      BY <1>5, <2>1, <2>2, <2>3 DEF Gated
  <1>6. CASE UNCHANGED vars
    BY <1>6 DEF vars, IInv, TypeOK, LocalInv, Local, Open, OneHolder, HoldsHaltRow,
                HaltedHasOpenTransition, ClearedIsClosed
  <1> QED
    BY <1>1, <1>2, <1>5, <1>6 DEF Next

LEMMA Invariance == Spec => []IInv
    BY InitInv, StepInv, PTL DEF Spec

-----------------------------------------------------------------------------

(* TypeOK holds for every number of halts and workers.                     *)
THEOREM HaltsAreTyped == Spec => []TypeOK
  <1>1. IInv => TypeOK
    BY DEF IInv
  <1> QED
    BY <1>1, Invariance, PTL

(* A halted book always has a halt in the audit trail that is not resumed. *)
THEOREM HaltsAreAudited == Spec => []HaltedHasOpenTransition
  <1>1. IInv => HaltedHasOpenTransition
    BY DEF IInv
  <1> QED
    BY <1>1, Invariance, PTL

(* A resume that saw the halt closes all of the audit trail.               *)
THEOREM ResumesAreAudited == Spec => []ClearedIsClosed
  <1>1. IInv => ClearedIsClosed
    BY DEF IInv
  <1> QED
    BY <1>1, Invariance, PTL
=============================================================================
