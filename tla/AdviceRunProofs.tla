--------------------------- MODULE AdviceRunProofs ----------------------------
(***************************************************************************)
(* Proofs about AdviceRun, for every set of runs, symbols and workers and  *)
(* every number of stages.  Its steps are steps of DecisionRun, so that    *)
(* the theorems about DecisionRun hold of it; and what a worker has drafted*)
(* is at any time all that is to be stored for the symbols behind it.      *)
(***************************************************************************)
EXTENDS AdviceRun, DecisionRunProofs

(* An explanation as it is made: one that failed with a label that can be  *)
(* stored is the fallback.                                                 *)
Sound(a) ==
    /\ a \in Artifact
    /\ ~a.stale
    /\ a.status = "failed" /\ a.label => a.advises = "scorecard"

AllSound(artifacts) ==
    /\ artifacts \in Seq(Artifact)
    /\ \A i \in 1..Len(artifacts) : Sound(artifacts[i])

Good(artifacts) ==
    AllSound(artifacts) /\ \A i \in 1..Len(artifacts) : Storable(artifacts[i])

(* The explanations of a symbol behind the worker: all of them, or it has  *)
(* been logged.                                                            *)
Settled(artifacts, listed) ==
    /\ Good(artifacts)
    /\ Len(artifacts) <= StageCount + 1
    /\ Len(artifacts) < StageCount + 1 <=> listed

BatchOf(d) == IF d.saved[d.symbol] = <<>> THEN StageCount ELSE 1

(* A draft of the transaction t, whose run has logged the symbols of l.    *)
DraftOk(t, d, l) ==
    /\ d \in Draft
    /\ t.pc = "idle" => d = NoDraft
    /\ t.pc = "referencing" => t.symbol \notin t.row.scored
    /\ t.pc # "idle" => l \subseteq t.row.scored
    /\ d.symbol # None =>
          /\ t.pc = "scoring" /\ t.run \in Explained
          /\ d.symbol \in t.row.scored /\ d.symbol \notin l
          /\ d.saved[d.symbol] = <<>> \/ Good(d.saved[d.symbol])
          /\ d.saved[d.symbol] # <<>> => Len(d.saved[d.symbol]) = StageCount
          /\ Len(d.made) <= BatchOf(d)
    /\ d.symbol = None => d.made = <<>>
    /\ AllSound(d.made)
    /\ \A s \in Symbols : s # d.symbol =>
          IF t.run \in Explained /\ s \in t.row.scored
          THEN Settled(d.saved[s], s \in l)
          ELSE d.saved[s] = <<>>

DraftsOk == \A w \in Workers : DraftOk(tx[w], draft[w], logged[tx[w].run])

StoredAdvice ==
    /\ advice \in [Runs -> [Symbols -> Seq(Artifact)]]
    /\ \A r \in Runs : \A s \in Symbols :
          IF r \in Explained /\ s \in row[r].scored
          THEN Settled(advice[r][s], s \in logged[r])
          ELSE advice[r][s] = <<>>

(* A run that has not reported has stored nothing, and one that has not    *)
(* begun has logged nothing either.                                        *)
LogsOk ==
    /\ logged \in [Runs -> SUBSET Symbols]
    /\ \A r \in Runs : result[r] = "none" =>
          /\ row[r].scored = {}
          /\ (\A w \in Workers : tx[w].run # r) => logged[r] = {}

AdviceInv ==
    /\ IInv
    /\ draft \in [Workers -> Draft]
    /\ DraftsOk
    /\ StoredAdvice
    /\ LogsOk

USE DecisionRunAssumption, AdviceRunAssumption

-----------------------------------------------------------------------------

(* Every step of a run that has its scorecards explained is one of the run.*)
LEMMA AdviceStepIsRunStep == AdviceNext => [Next]_vars
  <1> SUFFICES ASSUME AdviceNext PROVE [Next]_vars
    OBVIOUS
  <1>1. ASSUME NEW w \in Workers, NEW r \in Runs, Reserve(w, r) PROVE Next
    BY <1>1 DEF Next
  <1>2. ASSUME NEW w \in Workers, AdviceProceed(w) PROVE [Next]_vars
    <2>1. CASE OtherStatement(w)
      BY <2>1 DEF OtherStatement, Next, Proceed
    <2>2. CASE BetweenSymbols(w)
      BY <2>2 DEF BetweenSymbols, Next, Proceed
    <2>3. CASE InsertAndExplain(w)
      BY <2>3 DEF InsertAndExplain, Next, Proceed
    <2>4. CASE \E s \in Symbols : ScoreAndExplain(w, s)
      BY <2>4 DEF ScoreAndExplain, Next, Proceed
    <2>5. CASE Explain(w) \/ AskAgain(w) \/ FallBack(w) \/ SaveBatch(w) \/ RefuseText(w)
      BY <2>5 DEF Explain, AskAgain, FallBack, SaveBatch, RefuseText, BreakOff, Draws
    <2>6. CASE RejectBatch(w)
      BY <2>6 DEF RejectBatch, AbandonAdvice, Next
    <2>7. CASE CommitAdvice(w)
      BY <2>7 DEF CommitAdvice, Next, Proceed
    <2>8. CASE DeadlockAdvice(w)
      BY <2>8 DEF DeadlockAdvice, Next, Proceed
    <2> QED
      BY <1>2, <2>1, <2>2, <2>3, <2>4, <2>5, <2>6, <2>7, <2>8 DEF AdviceProceed
  <1>3. ASSUME NEW w \in Workers,
               RaiseBetweenSymbols(w) \/ RaiseExplaining(w) \/ AbandonAdvice(w)
        PROVE  [Next]_vars
    BY <1>3 DEF RaiseBetweenSymbols, RaiseExplaining, BreakOff, AbandonAdvice, Next
  <1>4. ASSUME ToggleHalt PROVE Next
    BY <1>4 DEF Next
  <1> QED
    BY <1>1, <1>2, <1>3, <1>4 DEF AdviceNext

(* A run that has its scorecards explained is a decision run: explaining   *)
(* changes nothing of what it reports, marks or stores but the advice.     *)
THEOREM AdviceImplementsRun == AdviceSpec => Spec
  <1>1. AdviceInit => Init
    BY DEF AdviceInit
  <1>2. [AdviceNext]_adviceVars => [Next]_vars
    BY AdviceStepIsRunStep DEF adviceVars
  <1> QED
    BY <1>1, <1>2, PTL DEF AdviceSpec, Spec

-----------------------------------------------------------------------------
(* Sequences of artifacts *)

LEMMA EmptyIsSound == <<>> \in Seq(Artifact) /\ AllSound(<<>>) /\ Len(<<>>) = 0
  BY DEF AllSound

LEMMA NoDraftIsDraft == NoDraft \in Draft /\ NoDraft.made = <<>> /\ NoDraft.symbol = None
  BY DEF NoDraft, Draft

LEMMA MarkStaleOfNone == MarkStale(<<>>) = <<>>
  <1>1. DOMAIN <<>> = {}
    OBVIOUS
  <1>2. MarkStale(<<>>) = [i \in {} |-> <<>>[i]]
    BY <1>1 DEF MarkStale
  <1> QED
    BY <1>2

LEMMA AppendSound ==
    ASSUME NEW q, AllSound(q), NEW a, Sound(a)
    PROVE  AllSound(Append(q, a)) /\ Len(Append(q, a)) = Len(q) + 1
  <1>1. q \in Seq(Artifact) /\ a \in Artifact
    BY DEF AllSound, Sound
  <1>2. Append(q, a) \in Seq(Artifact) /\ Len(Append(q, a)) = Len(q) + 1
    BY <1>1
  <1>3. ASSUME NEW i \in 1..Len(Append(q, a)) PROVE Sound(Append(q, a)[i])
    <2>1. CASE i = Len(q) + 1
      BY <1>1, <2>1
    <2>2. CASE i # Len(q) + 1
      <3>1. i \in 1..Len(q)
        BY <1>1, <1>2, <2>2
      <3> QED
        BY <1>1, <3>1 DEF AllSound
    <2> QED
      BY <2>1, <2>2
  <1> QED
    BY <1>2, <1>3 DEF AllSound

LEMMA ConcatGood ==
    ASSUME NEW p, Good(p), NEW q, Good(q)
    PROVE  Good(p \o q) /\ Len(p \o q) = Len(p) + Len(q)
  <1>1. p \in Seq(Artifact) /\ q \in Seq(Artifact)
    BY DEF Good, AllSound
  <1>2. p \o q \in Seq(Artifact) /\ Len(p \o q) = Len(p) + Len(q)
    BY <1>1
  <1>3. ASSUME NEW i \in 1..Len(p \o q)
        PROVE  Sound((p \o q)[i]) /\ Storable((p \o q)[i])
    <2>1. CASE i <= Len(p)
      <3>1. i \in 1..Len(p) /\ (p \o q)[i] = p[i]
        BY <1>1, <1>2, <2>1
      <3> QED
        BY <3>1 DEF Good, AllSound
    <2>2. CASE i > Len(p)
      <3>1. i - Len(p) \in 1..Len(q) /\ (p \o q)[i] = q[i - Len(p)]
        BY <1>1, <1>2, <2>2
      <3> QED
        BY <3>1 DEF Good, AllSound
    <2> QED
      BY <1>1, <1>2, <2>1, <2>2
  <1> QED
    BY <1>2, <1>3 DEF Good, AllSound

LEMMA AllAreSettled ==
    ASSUME NEW q, Good(q), Len(q) = StageCount + 1,
           NEW s, NEW l, s \notin l
    PROVE  Settled(q, s \in l)
  <1>1. Len(q) <= StageCount + 1 /\ ~(Len(q) < StageCount + 1)
    OBVIOUS
  <1> QED
    BY <1>1, Zenon DEF Settled

LEMMA SomeAreSettled ==
    ASSUME NEW q, Good(q), NEW m \in Nat, Len(q) = m, m <= StageCount,
           NEW s, NEW l, s \in l
    PROVE  Settled(q, s \in l)
  <1>1. Len(q) <= StageCount + 1 /\ Len(q) < StageCount + 1
    OBVIOUS
  <1> QED
    BY <1>1, Zenon DEF Settled

LEMMA RepliesAreSound ==
    /\ \A a \in Replies : Sound(a)
    /\ Sound(Fallback)
  <1>1. ASSUME NEW a \in Replies PROVE Sound(a)
    <2> CASE a = Unsendable
      BY DEF Unsendable, Sound, Artifact, ValidationStatus
    <2> SUFFICES ASSUME a # Unsendable PROVE Sound(a)
      OBVIOUS
    <2>1. PICK label \in BOOLEAN, complete \in BOOLEAN :
             a = [status |-> Validated(label, complete), label |-> label, text |-> TRUE,
                  advises |-> "llm", stale |-> FALSE]
      BY DEF Replies
    <2>2. Validated(label, complete) \in ValidationStatus
      BY DEF Validated, ValidationStatus
    <2>3. a \in Artifact /\ ~a.stale
      BY <2>1, <2>2 DEF Artifact
    <2>4. a.status = "failed" => ~a.label
      BY <2>1 DEF Validated
    <2> QED
      BY <2>3, <2>4 DEF Sound
  <1>2. Sound(Fallback)
    BY DEF Fallback, Sound, Artifact, ValidationStatus
  <1> QED
    BY <1>1, <1>2

-----------------------------------------------------------------------------
(* What keeps a draft in order *)

LEMMA NoDraftOk ==
    ASSUME NEW t, t.row.scored = {}, t.pc # "referencing",
           NEW l, t.pc # "idle" => l = {}
    PROVE  DraftOk(t, NoDraft, l)
  BY EmptyIsSound, NoDraftIsDraft DEF DraftOk, NoDraft

LEMMA IdleDraftOk == ASSUME NEW l PROVE DraftOk(Idle, NoDraft, l)
  BY NoDraftOk DEF Idle, NoRow

(* What another worker logs of its run is nothing to v.                    *)
LEMMA OtherDraftOk ==
    ASSUME AdviceInv, NEW v \in Workers, tx'[v] = tx[v], draft'[v] = draft[v],
           tx[v].pc # "idle" => logged'[tx[v].run] = logged[tx[v].run]
    PROVE  DraftOk(tx'[v], draft'[v], logged'[tx'[v].run])
  <1>1. DraftOk(tx[v], draft[v], logged[tx[v].run]) /\ Progress(tx[v])
    BY DEF AdviceInv, DraftsOk, IInv, ProgressInv
  <1>2. CASE tx[v].pc = "idle"
    <2>1. tx[v] = Idle /\ draft[v] = NoDraft
      BY <1>1, <1>2 DEF DraftOk, Progress
    <2> QED
      BY <2>1, IdleDraftOk
  <1>3. CASE tx[v].pc # "idle"
    BY <1>1, <1>3
  <1> QED
    BY <1>2, <1>3

(* What is known of the worker w while it is in a transaction.             *)
LEMMA ActiveWorker ==
    ASSUME AdviceInv, NEW w \in Workers, tx[w].pc # "idle"
    PROVE  /\ tx \in [Workers -> Transaction] /\ draft \in [Workers -> Draft]
           /\ logged \in [Runs -> SUBSET Symbols]
           /\ tx[w] \in Transaction /\ draft[w] \in Draft
           /\ DraftOk(tx[w], draft[w], logged[tx[w].run])
           /\ tx[w].run \in Runs /\ tx[w].run # None
           /\ result[tx[w].run] = "none" /\ row[tx[w].run].scored = {}
           /\ logged[tx[w].run] \subseteq tx[w].row.scored
           /\ \A v \in Workers \ {w} : tx[v].run # tx[w].run
  <1>1. /\ tx \in [Workers -> Transaction] /\ draft \in [Workers -> Draft]
        /\ logged \in [Runs -> SUBSET Symbols]
        /\ DraftOk(tx[w], draft[w], logged[tx[w].run])
    BY DEF AdviceInv, IInv, TypeOK, LogsOk, DraftsOk
  <1>2. tx[w].run \in Runs /\ result[tx[w].run] = "none"
    BY DEF AdviceInv, IInv, ProgressInv, Progress
  <1>3. tx[w].run # None /\ row[tx[w].run].scored = {}
    BY <1>2 DEF AdviceInv, LogsOk
  <1>4. \A v \in Workers \ {w} : tx[v].run # tx[w].run
    BY <1>3 DEF AdviceInv, IInv, OneTransactionPerRun
  <1>5. logged[tx[w].run] \subseteq tx[w].row.scored
    BY <1>1 DEF DraftOk
  <1> QED
    BY <1>1, <1>2, <1>3, <1>4, <1>5

(* A statement of a run changes its transaction, its draft and its log, and*)
(* no table.                                                               *)
LEMMA DraftFrame ==
    ASSUME AdviceInv, IInv', NEW w \in Workers, tx[w].pc # "idle",
           NEW t, t.run = tx[w].run, tx' = [tx EXCEPT ![w] = t],
           NEW d, draft' = [draft EXCEPT ![w] = d],
           NEW l \in SUBSET Symbols, logged' = [logged EXCEPT ![tx[w].run] = l],
           DraftOk(t, d, l), UNCHANGED <<row, result, advice>>
    PROVE  AdviceInv'
  <1> DEFINE r == tx[w].run
  <1>1. /\ tx \in [Workers -> Transaction] /\ draft \in [Workers -> Draft]
        /\ logged \in [Runs -> SUBSET Symbols]
        /\ r \in Runs /\ result[r] = "none" /\ row[r].scored = {}
        /\ \A v \in Workers \ {w} : tx[v].run # r
    BY ActiveWorker
  <1>2. draft' \in [Workers -> Draft]
    BY <1>1 DEF DraftOk
  <1>3. logged'[r] = l /\ \A q \in Runs \ {r} : logged'[q] = logged[q]
    BY <1>1
  <1>4. DraftsOk'
    <2> SUFFICES ASSUME NEW v \in Workers
                 PROVE  DraftOk(tx'[v], draft'[v], logged'[tx'[v].run])
      BY DEF DraftsOk
    <2>1. CASE v = w
      BY <1>1, <1>3, <2>1
    <2>2. CASE v # w
      <3>1. tx'[v] = tx[v] /\ draft'[v] = draft[v]
        BY <1>1, <2>2
      <3>2. tx[v].pc # "idle" => tx[v].run \in Runs \ {r}
        BY <1>1, <2>2 DEF AdviceInv, IInv, ProgressInv, Progress
      <3> QED
        BY <1>3, <3>1, <3>2, OtherDraftOk
    <2> QED
      BY <2>1, <2>2
  <1>5. StoredAdvice'
    <2> SUFFICES ASSUME NEW q \in Runs, NEW s \in Symbols
                 PROVE  IF q \in Explained /\ s \in row[q].scored
                        THEN Settled(advice[q][s], s \in logged'[q])
                        ELSE advice[q][s] = <<>>
      BY DEF AdviceInv, StoredAdvice
    <2>1. CASE q = r
      BY <1>1, <2>1 DEF AdviceInv, StoredAdvice
    <2>2. CASE q # r
      BY <1>3, <2>2 DEF AdviceInv, StoredAdvice
    <2> QED
      BY <2>1, <2>2
  <1>6. LogsOk'
    <2>1. logged' \in [Runs -> SUBSET Symbols]
      BY <1>1
    <2>2. ASSUME NEW q \in Runs, result[q] = "none", \A v \in Workers : tx'[v].run # q
          PROVE  logged'[q] = {}
      <3>1. tx'[w].run = r
        BY <1>1
      <3>2. q # r
        BY <2>2, <3>1
      <3>3. \A v \in Workers : tx[v].run # q
        BY <1>1, <2>2, <3>2
      <3> QED
        BY <1>3, <2>2, <3>2, <3>3 DEF AdviceInv, LogsOk
    <2> QED
      BY <2>1, <2>2 DEF AdviceInv, LogsOk
  <1> QED
    BY <1>2, <1>4, <1>5, <1>6 DEF AdviceInv

(* The same if nothing is logged.                                          *)
LEMMA QuietFrame ==
    ASSUME AdviceInv, IInv', NEW w \in Workers, tx[w].pc # "idle",
           NEW t, t.run = tx[w].run, tx' = [tx EXCEPT ![w] = t],
           NEW d, draft' = [draft EXCEPT ![w] = d],
           DraftOk(t, d, logged[tx[w].run]), UNCHANGED <<row, result, advice, logged>>
    PROVE  AdviceInv'
  <1>1. logged \in [Runs -> SUBSET Symbols] /\ tx[w].run \in Runs
    BY ActiveWorker
  <1>2. logged' = [logged EXCEPT ![tx[w].run] = logged[tx[w].run]]
    BY <1>1
  <1>3. logged[tx[w].run] \in SUBSET Symbols
    BY <1>1
  <1> QED
    BY <1>2, <1>3, DraftFrame

(* A draft of no symbol stays in order with any statement that stores no   *)
(* scorecard.                                                              *)
LEMMA DraftRests ==
    ASSUME NEW t, NEW d, NEW l, DraftOk(t, d, l), d.symbol = None, t.pc # "idle",
           NEW u, u.run = t.run, u.row.scored = t.row.scored, u.pc # "idle",
           u.pc = "referencing" => u.symbol \notin u.row.scored
    PROVE  DraftOk(u, d, l)
  BY DEF DraftOk

(* A worker that has no symbol to explain keeps its draft.                 *)
LEMMA RestingInv ==
    ASSUME AdviceInv, IInv', NEW w \in Workers, NEW t, Advance(w, t), Unexplained,
           tx[w].pc # "idle",
           draft[w].symbol = None, t.run = tx[w].run, t.row.scored = tx[w].row.scored,
           t.pc # "idle", t.pc = "referencing" => t.symbol \notin t.row.scored
    PROVE  AdviceInv'
  <1>1. DraftOk(tx[w], draft[w], logged[tx[w].run]) /\ draft \in [Workers -> Draft]
    BY ActiveWorker
  <1>2. DraftOk(t, draft[w], logged[tx[w].run])
    BY <1>1, DraftRests
  <1>3. draft' = [draft EXCEPT ![w] = draft[w]]
    BY <1>1 DEF Unexplained
  <1>4. tx' = [tx EXCEPT ![w] = t] /\ UNCHANGED <<row, result, advice, logged>>
    BY DEF Advance, committed, Unexplained
  <1> QED
    BY <1>2, <1>3, <1>4, QuietFrame

(* A worker that explains leaves its transaction as it is.                 *)
LEMMA ExplainingInv ==
    ASSUME AdviceInv, IInv', NEW w \in Workers, tx[w].pc # "idle", NEW d, Draws(w, d),
           DraftOk(tx[w], d, logged[tx[w].run])
    PROVE  AdviceInv'
  <1>1. tx \in [Workers -> Transaction]
    BY DEF AdviceInv, IInv, TypeOK
  <1>2. /\ tx' = [tx EXCEPT ![w] = tx[w]] /\ UNCHANGED <<row, result, advice, logged>>
        /\ draft' = [draft EXCEPT ![w] = d]
    BY <1>1 DEF vars, Draws, Write
  <1> QED
    BY <1>2, QuietFrame

(* A transaction that is rolled back leaves its log behind, and no row.    *)
LEMMA AbortedInv ==
    ASSUME AdviceInv, IInv', NEW w \in Workers, tx[w].pc # "idle", Abort(w),
           Write(w, NoDraft), UNCHANGED advice,
           NEW l \in SUBSET Symbols, logged' = [logged EXCEPT ![tx[w].run] = l]
    PROVE  AdviceInv'
  <1> DEFINE r == tx[w].run
  <1>1. /\ tx \in [Workers -> Transaction] /\ draft \in [Workers -> Draft]
        /\ logged \in [Runs -> SUBSET Symbols]
        /\ r \in Runs /\ row[r].scored = {}
        /\ \A v \in Workers \ {w} : tx[v].run # r
    BY ActiveWorker
  <1>2. /\ tx' = [tx EXCEPT ![w] = Idle] /\ draft' = [draft EXCEPT ![w] = NoDraft]
        /\ result' = [result EXCEPT ![r] = "error"] /\ UNCHANGED <<row, advice>>
        /\ result \in [Runs -> {"none", "succeeded", "book_halted", "error"}]
    BY DEF Abort, Write, AdviceInv, IInv, TypeOK
  <1>3. draft' \in [Workers -> Draft]
    BY <1>1, <1>2, NoDraftIsDraft
  <1>4. \A q \in Runs \ {r} : logged'[q] = logged[q]
    BY <1>1
  <1>5. DraftsOk'
    <2> SUFFICES ASSUME NEW v \in Workers
                 PROVE  DraftOk(tx'[v], draft'[v], logged'[tx'[v].run])
      BY DEF DraftsOk
    <2>1. CASE v = w
      <3>1. tx'[v] = Idle /\ draft'[v] = NoDraft
        BY <1>1, <1>2, <2>1
      <3> QED
        BY <3>1, IdleDraftOk
    <2>2. CASE v # w
      <3>1. tx'[v] = tx[v] /\ draft'[v] = draft[v]
        BY <1>1, <1>2, <2>2
      <3>2. tx[v].pc # "idle" => tx[v].run \in Runs \ {r}
        BY <1>1, <2>2 DEF AdviceInv, IInv, ProgressInv, Progress
      <3> QED
        BY <1>4, <3>1, <3>2, OtherDraftOk
    <2> QED
      BY <2>1, <2>2
  <1>6. StoredAdvice'
    <2> SUFFICES ASSUME NEW q \in Runs, NEW s \in Symbols
                 PROVE  IF q \in Explained /\ s \in row[q].scored
                        THEN Settled(advice[q][s], s \in logged'[q])
                        ELSE advice[q][s] = <<>>
      BY <1>2 DEF AdviceInv, StoredAdvice
    <2>1. CASE q = r
      BY <1>1, <2>1 DEF AdviceInv, StoredAdvice
    <2>2. CASE q # r
      BY <1>4, <2>2 DEF AdviceInv, StoredAdvice
    <2> QED
      BY <2>1, <2>2
  <1>7. LogsOk'
    <2>1. logged' \in [Runs -> SUBSET Symbols]
      BY <1>1
    <2>2. ASSUME NEW q \in Runs, result'[q] = "none"
          PROVE  /\ row'[q].scored = {}
                 /\ (\A v \in Workers : tx'[v].run # q) => logged'[q] = {}
      <3>1. q # r /\ result[q] = "none"
        BY <1>1, <1>2, <2>2
      <3>2. (\A v \in Workers : tx'[v].run # q) => \A v \in Workers : tx[v].run # q
        BY <1>1, <1>2, <3>1
      <3> QED
        BY <1>2, <1>4, <3>1, <3>2 DEF AdviceInv, LogsOk
    <2> QED
      BY <2>1, <2>2 DEF LogsOk
  <1> QED
    BY <1>3, <1>5, <1>6, <1>7 DEF AdviceInv

LEMMA AbortInvs ==
    ASSUME AdviceInv, IInv', NEW w \in Workers, AbandonAdvice(w) \/ DeadlockAdvice(w)
    PROVE  AdviceInv'
  <1>1. tx[w].pc # "idle"
    BY DEF AbandonAdvice, SqlError, DeadlockAdvice, AbortDeadlock, Waits, Others
  <1>2. /\ logged \in [Runs -> SUBSET Symbols] /\ draft[w] \in Draft
        /\ tx[w].run \in Runs
    BY <1>1, ActiveWorker
  <1>3. CASE AbandonAdvice(w)
    <2> DEFINE l == logged[tx[w].run] \cup ({draft[w].symbol} \ {None})
    <2>1. l \in SUBSET Symbols
      BY <1>2 DEF Draft
    <2>2. /\ Abort(w) /\ Write(w, NoDraft) /\ UNCHANGED advice
          /\ logged' = [logged EXCEPT ![tx[w].run] = l]
      BY <1>3 DEF AbandonAdvice, SqlError, Log
    <2> HIDE DEF l
    <2> QED
      BY <1>1, <2>1, <2>2, AbortedInv
  <1>4. CASE DeadlockAdvice(w)
    <2>1. /\ Abort(w) /\ Write(w, NoDraft) /\ UNCHANGED advice
          /\ logged' = [logged EXCEPT ![tx[w].run] = logged[tx[w].run]]
      BY <1>2, <1>4 DEF DeadlockAdvice, AbortDeadlock
    <2>2. logged[tx[w].run] \in SUBSET Symbols
      BY <1>2
    <2> QED
      BY <1>1, <2>1, <2>2, AbortedInv
  <1> QED
    BY <1>3, <1>4

-----------------------------------------------------------------------------
(* The steps that explain *)

(* The scorecard of s is stored: its explanations begin.                   *)
LEMMA StartInv ==
    ASSUME AdviceInv, IInv', NEW w \in Workers, NEW s \in Symbols, NEW t, Advance(w, t),
           StartExplaining(w, s), tx[w].pc # "idle", draft[w].symbol = None,
           s \notin tx[w].row.scored, tx[w].run = t.run, t.pc = "scoring",
           t.row.scored = tx[w].row.scored \cup {s}
    PROVE  AdviceInv'
  <1> DEFINE l == logged[tx[w].run]
  <1>1. /\ DraftOk(tx[w], draft[w], l)
        /\ draft \in [Workers -> Draft] /\ draft[w] \in Draft
        /\ l \subseteq tx[w].row.scored
    BY ActiveWorker
  <1>2. /\ draft[w].saved[s] = <<>> /\ draft[w].made = <<>>
        /\ draft[w].saved \in [Symbols -> Seq(Artifact)]
    BY <1>1 DEF DraftOk, Draft
  <1>3. tx' = [tx EXCEPT ![w] = t] /\ UNCHANGED <<row, result, advice, logged>>
    BY DEF Advance, committed, StartExplaining
  <1>4. /\ s # None /\ s \notin l /\ l \subseteq t.row.scored
        /\ \A q \in Symbols : q # s => (q \in t.row.scored <=> q \in tx[w].row.scored)
    BY <1>1
  <1> HIDE DEF l
  <1>5. CASE t.run \in Explained
    <2> DEFINE d == [draft[w] EXCEPT !.symbol = s, !.saved[s] = MarkStale(@)]
    <2>1. draft' = [draft EXCEPT ![w] = d]
      BY <1>5 DEF StartExplaining, Write
    <2>2. /\ d.symbol = s /\ d.made = <<>>
          /\ d.saved = [draft[w].saved EXCEPT ![s] = MarkStale(draft[w].saved[s])]
      BY <1>1, <1>2 DEF Draft
    <2>3. d.saved = draft[w].saved
      <3>1. d.saved = [draft[w].saved EXCEPT ![s] = draft[w].saved[s]]
        BY <1>2, <2>2, MarkStaleOfNone
      <3> QED
        BY <1>2, <3>1
    <2>4. d \in Draft
      BY <1>1, <1>2, <2>2, <2>3 DEF Draft
    <2> HIDE DEF d
    <2>5. BatchOf(d) = StageCount
      BY <1>2, <2>2, <2>3 DEF BatchOf
    <2>6. d.saved[d.symbol] = <<>> /\ Len(d.made) <= BatchOf(d) /\ AllSound(d.made)
      BY <1>2, <2>2, <2>3, <2>5, EmptyIsSound
    <2>7. \A q \in Symbols : q # s =>
             IF t.run \in Explained /\ q \in t.row.scored
             THEN Settled(d.saved[q], q \in l)
             ELSE d.saved[q] = <<>>
      BY <1>1, <1>4, <2>3 DEF DraftOk
    <2>8. DraftOk(t, d, l)
      BY <1>4, <1>5, <2>2, <2>4, <2>6, <2>7 DEF DraftOk
    <2> QED
      BY <1>3, <2>1, <2>8, QuietFrame DEF l
  <1>6. CASE t.run \notin Explained
    <2>1. draft' = [draft EXCEPT ![w] = draft[w]]
      BY <1>1, <1>6 DEF StartExplaining
    <2>2. DraftOk(t, draft[w], l)
      BY <1>1, <1>4, <1>6 DEF DraftOk
    <2> QED
      BY <1>3, <2>1, <2>2, QuietFrame DEF l
  <1> QED
    BY <1>5, <1>6

(* A worker that has a symbol to explain is scoring.                       *)
LEMMA ExplainingWorker ==
    ASSUME AdviceInv, NEW w \in Workers, draft[w].symbol # None
    PROVE  /\ DraftOk(tx[w], draft[w], logged[tx[w].run]) /\ draft[w] \in Draft
           /\ tx[w].pc = "scoring"
  BY DEF AdviceInv, DraftsOk, DraftOk

LEMMA FirstAttemptIsDraft ==
    ASSUME NEW c \in Draft PROVE [c EXCEPT !.attempt = 1] \in Draft
  <1>1. 1 \in {1, 2}
    OBVIOUS
  <1> QED
    BY <1>1 DEF Draft

(* One more explanation has been generated.                                *)
LEMMA MadeInv ==
    ASSUME AdviceInv, IInv', NEW w \in Workers, Asking(w), NEW a, Sound(a),
           Draws(w, [draft[w] EXCEPT !.attempt = 1, !.made = Append(@, a)])
    PROVE  AdviceInv'
  <1> DEFINE c == draft[w]
             d == [c EXCEPT !.attempt = 1, !.made = Append(@, a)]
             l == logged[tx[w].run]
  <1>1. DraftOk(tx[w], c, l) /\ c \in Draft /\ tx[w].pc = "scoring"
    BY ExplainingWorker DEF Asking
  <1>2. AllSound(c.made) /\ c.made \in Seq(Artifact)
    BY <1>1 DEF DraftOk, AllSound
  <1>3. AllSound(Append(c.made, a)) /\ Len(Append(c.made, a)) = Len(c.made) + 1
    BY <1>2, AppendSound
  <1>4. d.symbol = c.symbol /\ d.saved = c.saved /\ d.made = Append(c.made, a)
    BY <1>1 DEF Draft
  <1>5. d \in Draft
    <2>1. Append(c.made, a) \in Seq(Artifact)
      BY <1>3 DEF AllSound
    <2>2. ASSUME NEW q \in Seq(Artifact) PROVE [c EXCEPT !.attempt = 1, !.made = q] \in Draft
      <3>1. [c EXCEPT !.attempt = 1] \in Draft
        BY <1>1, FirstAttemptIsDraft
      <3> QED
        BY <3>1 DEF Draft
    <2> QED
      BY <2>1, <2>2
  <1>6. Draws(w, d)
    OBVIOUS
  <1>7. c.symbol # None /\ Len(c.made) < BatchOf(c) /\ BatchOf(d) = BatchOf(c)
    BY <1>4 DEF Asking, Batch, Saved, BatchOf
  <1>8. Len(d.made) <= BatchOf(d)
    BY <1>2, <1>3, <1>4, <1>7 DEF BatchOf
  <1> HIDE DEF d
  <1>9. DraftOk(tx[w], d, l)
    BY <1>1, <1>3, <1>4, <1>5, <1>7, <1>8 DEF DraftOk
  <1> QED
    BY <1>1, <1>6, <1>9, ExplainingInv

LEMMA AskAgainInv ==
    ASSUME AdviceInv, IInv', NEW w \in Workers, AskAgain(w)
    PROVE  AdviceInv'
  <1> DEFINE c == draft[w]
             d == [c EXCEPT !.attempt = 2]
             l == logged[tx[w].run]
  <1>1. DraftOk(tx[w], c, l) /\ c \in Draft /\ tx[w].pc = "scoring"
    BY ExplainingWorker DEF AskAgain, Asking
  <1>2. /\ d.symbol = c.symbol /\ d.saved = c.saved /\ d.made = c.made /\ d \in Draft
        /\ c.symbol # None
    BY <1>1 DEF Draft, AskAgain, Asking
  <1>3. Draws(w, d)
    BY DEF AskAgain
  <1> HIDE DEF d
  <1>4. BatchOf(d) = BatchOf(c)
    BY <1>2 DEF BatchOf
  <1>5. DraftOk(tx[w], d, l)
    BY <1>1, <1>2, <1>4 DEF DraftOk
  <1> QED
    BY <1>1, <1>3, <1>5, ExplainingInv

(* The stages have been stored, or the whole of the scorecard.             *)
LEMMA SaveBatchInv ==
    ASSUME AdviceInv, IInv', NEW w \in Workers, SaveBatch(w)
    PROVE  AdviceInv'
  <1> DEFINE c == draft[w]
             s == c.symbol
             next == IF c.saved[s] = <<>> THEN s ELSE None
             d == [c EXCEPT !.made = <<>>, !.saved[s] = @ \o c.made, !.symbol = next]
             l == logged[tx[w].run]
  <1>1. DraftOk(tx[w], c, l) /\ c \in Draft /\ s # None /\ s \in Symbols
    BY ExplainingWorker DEF SaveBatch, Made, Draft
  <1>2. /\ Len(c.made) = BatchOf(c) /\ Good(c.made)
        /\ c.saved \in [Symbols -> Seq(Artifact)] /\ c.made \in Seq(Artifact)
    <2>1. AllSound(c.made) /\ c.made \in Seq(Artifact)
      BY <1>1 DEF DraftOk, AllSound
    <2>2. DOMAIN c.made = 1..Len(c.made)
      BY <2>1
    <2>3. Good(c.made)
      BY <2>1, <2>2 DEF SaveBatch, AllStorable, Good
    <2> QED
      BY <1>1, <2>1, <2>3 DEF SaveBatch, Made, Batch, Saved, BatchOf, Draft
  <1>3. Draws(w, d)
    BY DEF SaveBatch, Saved
  <1>4. /\ d.symbol = next /\ d.made = <<>>
        /\ d.saved = [c.saved EXCEPT ![s] = c.saved[s] \o c.made]
    BY <1>1, <1>2 DEF Draft
  <1>5. next \in Symbols \cup {None}
    BY <1>1
  <1>6. d.saved[s] \in Seq(Artifact) /\ d.saved \in [Symbols -> Seq(Artifact)]
    BY <1>1, <1>2, <1>4
  <1>7. d \in Draft
    BY <1>1, <1>4, <1>5, <1>6, EmptyIsSound DEF Draft
  <1>8. /\ tx[w].run \in Explained /\ s \in tx[w].row.scored /\ tx[w].pc = "scoring"
        /\ l \subseteq tx[w].row.scored /\ s \notin l
    BY <1>1 DEF DraftOk
  <1>9. \A q \in Symbols : q # s => d.saved[q] = c.saved[q]
    BY <1>1, <1>2, <1>4
  <1>10. CASE c.saved[s] = <<>>
    <2>1. Len(c.made) = StageCount
      BY <1>2, <1>10 DEF BatchOf
    <2>2. d.saved[s] = c.made /\ d.symbol = s
      BY <1>1, <1>2, <1>4, <1>10
    <2>3. d.saved[s] # <<>> /\ BatchOf(d) = 1
      BY <2>1, <2>2, AdviceRunAssumption DEF BatchOf
    <2> HIDE DEF d, next
    <2>4. \A q \in Symbols : q # s =>
             IF tx[w].run \in Explained /\ q \in tx[w].row.scored
             THEN Settled(d.saved[q], q \in l)
             ELSE d.saved[q] = <<>>
      BY <1>1, <1>9 DEF DraftOk
    <2>5. /\ Good(d.saved[d.symbol]) /\ Len(d.saved[d.symbol]) = StageCount
          /\ Len(d.made) <= BatchOf(d) /\ AllSound(d.made)
      <3>1. Good(d.saved[d.symbol]) /\ Len(d.saved[d.symbol]) = StageCount
        BY <1>2, <2>1, <2>2
      <3>2. Len(d.made) <= BatchOf(d) /\ AllSound(d.made)
        BY <1>4, <2>3, EmptyIsSound
      <3> QED
        BY <3>1, <3>2
    <2>6. DraftOk(tx[w], d, l)
      BY <1>1, <1>7, <1>8, <2>2, <2>4, <2>5 DEF DraftOk
    <2> QED
      BY <1>3, <1>8, <2>6, ExplainingInv
  <1>11. CASE c.saved[s] # <<>>
    <2>1. Len(c.made) = 1 /\ Good(c.saved[s]) /\ Len(c.saved[s]) = StageCount
      BY <1>1, <1>2, <1>11 DEF BatchOf, DraftOk
    <2>2. Good(c.saved[s] \o c.made) /\ Len(c.saved[s] \o c.made) = StageCount + 1
      BY <1>2, <2>1, ConcatGood
    <2>3. d.saved[s] = c.saved[s] \o c.made /\ d.symbol = None
      BY <1>1, <1>2, <1>4, <1>11
    <2> HIDE DEF d, next
    <2>4. Settled(d.saved[s], s \in l)
      BY <1>8, <2>2, <2>3, AllAreSettled, Zenon
    <2>5. \A q \in Symbols :
             IF tx[w].run \in Explained /\ q \in tx[w].row.scored
             THEN Settled(d.saved[q], q \in l)
             ELSE d.saved[q] = <<>>
      BY <1>1, <1>8, <1>9, <2>4, SMTT(30) DEF DraftOk
    <2>6. DraftOk(tx[w], d, l)
      BY <1>1, <1>4, <1>7, <1>8, <2>3, <2>5, EmptyIsSound, ZenonT(60) DEF DraftOk
    <2> QED
      BY <1>3, <1>8, <2>6, ExplainingInv
  <1> QED
    BY <1>10, <1>11

(* The first n of what has been made can be stored, and the whole of it is *)
(* not: the symbol is logged, and settled with what it has.                *)
LEMMA BreakOffInv ==
    ASSUME AdviceInv, IInv', NEW w \in Workers, draft[w].symbol # None,
           NEW n \in Nat, n < BatchOf(draft[w]), n <= Len(draft[w].made),
           \A i \in 1..n : Storable(draft[w].made[i]), BreakOff(w, n)
    PROVE  AdviceInv'
  <1> DEFINE c == draft[w]
             s == c.symbol
             stored == SubSeq(c.made, 1, n)
             d == [c EXCEPT !.symbol = None, !.attempt = 1, !.made = <<>>,
                            !.saved[s] = @ \o stored]
             k == logged[tx[w].run]
             l == k \cup {s}
  <1>1. /\ DraftOk(tx[w], c, k) /\ c \in Draft /\ s \in Symbols /\ s # None
        /\ tx[w].pc = "scoring"
    BY ExplainingWorker DEF Draft
  <1>2. /\ logged \in [Runs -> SUBSET Symbols] /\ draft \in [Workers -> Draft]
        /\ tx \in [Workers -> Transaction] /\ tx[w].run \in Runs
    BY <1>1, ActiveWorker
  <1>3. /\ tx[w].run \in Explained /\ s \in tx[w].row.scored
        /\ k \subseteq tx[w].row.scored
    BY <1>1 DEF DraftOk
  <1>4. AllSound(c.made) /\ c.made \in Seq(Artifact)
    BY <1>1 DEF DraftOk, AllSound
  <1>5. stored \in Seq(Artifact) /\ Len(stored) = n /\ \A i \in 1..n : stored[i] = c.made[i]
    BY <1>4
  <1>6. Good(stored)
    BY <1>4, <1>5 DEF AllSound, Good
  <1>7. c.saved \in [Symbols -> Seq(Artifact)] /\ c.saved[s] \in Seq(Artifact)
    BY <1>1 DEF Draft
  <1>8. Settled(c.saved[s] \o stored, s \in l)
    <2>1. CASE c.saved[s] = <<>>
      <3>1. c.saved[s] \o stored = stored /\ n <= StageCount /\ s \in l
        BY <1>5, <2>1 DEF BatchOf
      <3> HIDE DEF l
      <3> QED
        BY <1>5, <1>6, <3>1, SomeAreSettled, Zenon
    <2>2. CASE c.saved[s] # <<>>
      <3>1. n = 0 /\ Good(c.saved[s]) /\ Len(c.saved[s]) = StageCount
        BY <1>1, <2>2 DEF BatchOf, DraftOk
      <3>2. Good(c.saved[s] \o stored) /\ Len(c.saved[s] \o stored) = StageCount
        BY <1>5, <1>6, <3>1, ConcatGood, AdviceRunAssumption
      <3>3. StageCount \in Nat /\ StageCount <= StageCount /\ s \in l
        BY AdviceRunAssumption
      <3> HIDE DEF l
      <3> QED
        BY <3>2, <3>3, SomeAreSettled, Zenon
    <2> QED
      BY <2>1, <2>2
  <1> HIDE DEF stored
  <1>9. /\ d.symbol = None /\ d.made = <<>> /\ d.attempt = 1
        /\ d.saved = [c.saved EXCEPT ![s] = c.saved[s] \o stored]
    BY <1>1 DEF Draft
  <1>10. d \in Draft
    <2>1. c.saved[s] \o stored \in Seq(Artifact)
      BY <1>5, <1>7
    <2>2. ASSUME NEW q \in Seq(Artifact)
          PROVE  [c.saved EXCEPT ![s] = q] \in [Symbols -> Seq(Artifact)]
      BY <1>7
    <2>3. d.saved \in [Symbols -> Seq(Artifact)]
      BY <1>9, <2>1, <2>2
    <2> QED
      BY <1>1, <1>9, <2>3, EmptyIsSound DEF Draft
  <1>11. /\ d.saved[s] = c.saved[s] \o stored
         /\ \A q \in Symbols : q # s => d.saved[q] = c.saved[q]
    BY <1>1, <1>7, <1>9
  <1>12. /\ draft' = [draft EXCEPT ![w] = d]
         /\ logged' = [logged EXCEPT ![tx[w].run] = l]
         /\ tx' = [tx EXCEPT ![w] = tx[w]]
         /\ UNCHANGED <<row, result, advice>>
    BY <1>1, <1>2 DEF BreakOff, Log, Write, vars, stored
  <1>13. l \in SUBSET Symbols
    BY <1>1, <1>2
  <1> HIDE DEF d
  <1>14. \A q \in Symbols :
            IF tx[w].run \in Explained /\ q \in tx[w].row.scored
            THEN Settled(d.saved[q], q \in l)
            ELSE d.saved[q] = <<>>
    <2> SUFFICES ASSUME NEW q \in Symbols
                 PROVE  IF tx[w].run \in Explained /\ q \in tx[w].row.scored
                        THEN Settled(d.saved[q], q \in l)
                        ELSE d.saved[q] = <<>>
      OBVIOUS
    <2>1. CASE q = s
      BY <1>3, <1>8, <1>11, <2>1 DEF Settled
    <2>2. CASE q # s
      <3>1. d.saved[q] = c.saved[q] /\ (q \in l <=> q \in k)
        BY <1>11, <2>2
      <3> QED
        BY <1>1, <2>2, <3>1 DEF DraftOk, Settled
    <2> QED
      BY <2>1, <2>2
  <1>15. l \subseteq tx[w].row.scored
    BY <1>3
  <1> HIDE DEF k, l
  <1>16. DraftOk(tx[w], d, l)
    BY <1>1, <1>9, <1>10, <1>14, <1>15, EmptyIsSound DEF DraftOk
  <1> QED
    BY <1>1, <1>12, <1>13, <1>16, DraftFrame

LEMMA BrokenOffInv ==
    ASSUME AdviceInv, IInv', NEW w \in Workers, RaiseExplaining(w) \/ RefuseText(w)
    PROVE  AdviceInv'
  <1>1. draft[w].symbol # None
    BY DEF RaiseExplaining, Asking, RefuseText, Made
  <1>2. AllSound(draft[w].made) /\ draft[w].made \in Seq(Artifact)
    BY <1>1, ExplainingWorker DEF DraftOk, AllSound
  <1>3. Batch(w) = BatchOf(draft[w]) /\ BatchOf(draft[w]) \in Nat \ {0}
    BY AdviceRunAssumption DEF Batch, Saved, BatchOf
  <1>4. CASE RaiseExplaining(w)
    <2>1. BreakOff(w, 0) /\ 0 \in Nat /\ 0 < BatchOf(draft[w]) /\ 0 <= Len(draft[w].made)
      BY <1>2, <1>3, <1>4 DEF RaiseExplaining
    <2>2. \A i \in 1..0 : Storable(draft[w].made[i])
      OBVIOUS
    <2> QED
      BY <1>1, <2>1, <2>2, BreakOffInv
  <1>5. CASE RefuseText(w)
    <2>1. PICK n \in DOMAIN draft[w].made :
             FirstRefused(draft[w].made, n) /\ BreakOff(w, n - 1)
      BY <1>5 DEF RefuseText
    <2>2. Len(draft[w].made) = BatchOf(draft[w])
      BY <1>3, <1>5 DEF RefuseText, Made
    <2>3. /\ n - 1 \in Nat /\ n - 1 < BatchOf(draft[w]) /\ n - 1 <= Len(draft[w].made)
      BY <1>2, <2>1, <2>2
    <2>4. \A i \in 1..(n - 1) : Storable(draft[w].made[i])
      BY <2>1 DEF FirstRefused
    <2> QED
      BY <1>1, <2>1, <2>3, <2>4, BreakOffInv
  <1> QED
    BY <1>4, <1>5

-----------------------------------------------------------------------------

LEMMA CommitAdviceInv ==
    ASSUME AdviceInv, IInv', NEW w \in Workers, CommitAdvice(w)
    PROVE  AdviceInv'
  <1> DEFINE t == tx[w]
             d == draft[w]
             r == t.run
  <1>1. t.pc = "returning"
    BY DEF CommitAdvice, Commit
  <1>2. /\ DraftOk(t, d, logged[r]) /\ d \in Draft /\ r \in Runs
        /\ draft \in [Workers -> Draft] /\ tx \in [Workers -> Transaction]
        /\ logged \in [Runs -> SUBSET Symbols]
        /\ \A v \in Workers \ {w} : tx[v].run # r
    BY <1>1, ActiveWorker
  <1>3. /\ row \in [Runs -> Row] /\ advice \in [Runs -> [Symbols -> Seq(Artifact)]]
        /\ result \in [Runs -> {"none", "succeeded", "book_halted", "error"}]
        /\ t.answer # "none"
    BY <1>1 DEF AdviceInv, IInv, TypeOK, StoredAdvice, ProgressInv, Progress
  <1>4. /\ row' = [row EXCEPT ![r] = t.row] /\ tx' = [tx EXCEPT ![w] = Idle]
        /\ result' = [result EXCEPT ![r] = t.answer]
        /\ advice' = [advice EXCEPT ![r] = d.saved]
        /\ draft' = [draft EXCEPT ![w] = NoDraft]
        /\ UNCHANGED logged
    BY DEF CommitAdvice, Commit, Write
  <1>5. draft' \in [Workers -> Draft]
    BY <1>2, <1>4, NoDraftIsDraft
  <1>6. DraftsOk'
    <2> SUFFICES ASSUME NEW v \in Workers
                 PROVE  DraftOk(tx'[v], draft'[v], logged'[tx'[v].run])
      BY DEF DraftsOk
    <2>1. CASE v = w
      <3>1. tx'[v] = Idle /\ draft'[v] = NoDraft
        BY <1>2, <1>4, <2>1
      <3> QED
        BY <3>1, IdleDraftOk
    <2>2. CASE v # w
      <3>1. tx'[v] = tx[v] /\ draft'[v] = draft[v]
        BY <1>2, <1>4, <2>2
      <3> QED
        BY <1>4, <3>1, OtherDraftOk
    <2> QED
      BY <2>1, <2>2
  <1>7. StoredAdvice'
    <2>1. d.saved \in [Symbols -> Seq(Artifact)]
      BY <1>2 DEF Draft
    <2>2. \A s \in Symbols : s # d.symbol
      BY <1>1, <1>2 DEF DraftOk
    <2>3. ASSUME NEW q \in Runs, NEW s \in Symbols
          PROVE  IF q \in Explained /\ s \in row'[q].scored
                 THEN Settled(advice'[q][s], s \in logged[q])
                 ELSE advice'[q][s] = <<>>
      <3>1. CASE q = r
        <4>1. row'[q] = t.row /\ advice'[q] = d.saved
          BY <1>2, <1>3, <1>4, <3>1
        <4> QED
          BY <1>2, <2>2, <3>1, <4>1 DEF DraftOk
      <3>2. CASE q # r
        <4>1. row'[q] = row[q] /\ advice'[q] = advice[q]
          BY <1>3, <1>4, <3>2
        <4> QED
          BY <4>1 DEF AdviceInv, StoredAdvice
      <3> QED
        BY <3>1, <3>2
    <2>4. advice' \in [Runs -> [Symbols -> Seq(Artifact)]]
      BY <1>2, <1>3, <1>4, <2>1
    <2> QED
      BY <1>4, <2>3, <2>4 DEF StoredAdvice
  <1>8. LogsOk'
    <2>1. ASSUME NEW q \in Runs, result'[q] = "none"
          PROVE  /\ row'[q].scored = {}
                 /\ (\A v \in Workers : tx'[v].run # q) => logged[q] = {}
      <3>1. q # r /\ result[q] = "none"
        BY <1>2, <1>3, <1>4, <2>1
      <3>2. row'[q] = row[q]
        BY <1>2, <1>3, <1>4, <3>1
      <3>3. (\A v \in Workers : tx'[v].run # q) => \A v \in Workers : tx[v].run # q
        BY <1>2, <1>4, <3>1
      <3> QED
        BY <3>1, <3>2, <3>3 DEF AdviceInv, LogsOk
    <2> QED
      BY <1>2, <1>4, <2>1 DEF LogsOk
  <1> QED
    BY <1>5, <1>6, <1>7, <1>8 DEF AdviceInv

(* The statements outside the loop over the symbols.                       *)
LEMMA OtherStatementInv ==
    ASSUME AdviceInv, IInv', NEW w \in Workers, OtherStatement(w)
    PROVE  AdviceInv'
  <1>1. /\ DraftOk(tx[w], draft[w], logged[tx[w].run])
        /\ tx[w].pc \notin {"idle", "scoring"}
    BY DEF AdviceInv, DraftsOk, OtherStatement, Start, SkipHalted, FetchFacts, SaveMark,
           RebuildAndComplete
  <1>2. /\ draft[w].symbol = None /\ tx[w] \in Transaction /\ Unexplained
        /\ tx[w].pc # "idle"
    BY <1>1 DEF DraftOk, AdviceInv, IInv, TypeOK, OtherStatement
  <1> USE <1>2, RestingInv
  <1>3. CASE Start(w)
    <2> DEFINE t == [tx[w] EXCEPT !.pc = "started", !.row.status = "running"]
    <2>1. /\ t.run = tx[w].run /\ t.row.scored = tx[w].row.scored /\ t.pc = "started"
          /\ Advance(w, t)
      BY <1>3 DEF Start, Transaction, Row
    <2> QED
      BY <2>1
  <1>4. CASE SkipHalted(w)
    <2> DEFINE t == [tx[w] EXCEPT !.pc = "returning", !.answer = "book_halted",
                                  !.row = CompleteRun(tx[w].row, "halted")]
    <2>1. /\ t.run = tx[w].run /\ t.row.scored = tx[w].row.scored /\ t.pc = "returning"
          /\ Advance(w, t)
      BY <1>4 DEF SkipHalted, Transaction, Row, CompleteRun
    <2> QED
      BY <2>1
  <1>5. CASE FetchFacts(w)
    <2>1. PICK facts \in SUBSET Symbols :
             Advance(w, [tx[w] EXCEPT !.pc = "scoring", !.row.facts = facts])
      BY <1>5 DEF FetchFacts
    <2> DEFINE t == [tx[w] EXCEPT !.pc = "scoring", !.row.facts = facts]
    <2>2. t.run = tx[w].run /\ t.row.scored = tx[w].row.scored /\ t.pc = "scoring"
      BY DEF Transaction, Row
    <2> QED
      BY <2>1, <2>2
  <1>6. CASE SaveMark(w)
    <2> DEFINE t == [tx[w] EXCEPT !.pc = "rebuilding", !.marked = TRUE]
    <2>1. /\ t.run = tx[w].run /\ t.row.scored = tx[w].row.scored /\ t.pc = "rebuilding"
          /\ Advance(w, t)
      BY <1>6 DEF SaveMark, Transaction
    <2> QED
      BY <2>1
  <1>7. CASE RebuildAndComplete(w)
    <2> DEFINE t == [tx[w] EXCEPT !.pc = "returning", !.answer = "succeeded",
                                  !.row = CompleteRun(tx[w].row, "completed")]
    <2>1. /\ t.run = tx[w].run /\ t.row.scored = tx[w].row.scored /\ t.pc = "returning"
          /\ Advance(w, t)
      BY <1>7 DEF RebuildAndComplete, Transaction, Row, CompleteRun
    <2> QED
      BY <2>1
  <1> QED
    BY <1>3, <1>4, <1>5, <1>6, <1>7 DEF OtherStatement

(* The statements between two symbols.                                     *)
LEMMA BetweenInv ==
    ASSUME AdviceInv, IInv', NEW w \in Workers,
           BetweenSymbols(w) \/ RaiseBetweenSymbols(w)
    PROVE  AdviceInv'
  <1>1. /\ draft[w].symbol = None /\ tx[w] \in Transaction /\ Unexplained
        /\ tx[w].pc # "idle"
    BY DEF AdviceInv, IInv, TypeOK, BetweenSymbols, RaiseBetweenSymbols, MissReference,
           EndScoring, Raise
  <1> USE <1>1, RestingInv
  <1>2. ASSUME NEW s \in Symbols, MissReference(w, s) PROVE AdviceInv'
    <2> DEFINE t == [tx[w] EXCEPT !.pc = "referencing", !.symbol = s]
    <2>1. /\ t.run = tx[w].run /\ t.row.scored = tx[w].row.scored
          /\ t.pc = "referencing" /\ t.symbol \notin t.row.scored
          /\ Advance(w, t)
      BY <1>2 DEF MissReference, Transaction
    <2> QED
      BY <2>1
  <1>3. CASE EndScoring(w)
    <2> DEFINE t == [tx[w] EXCEPT !.pc = "marking"]
    <2>1. /\ t.run = tx[w].run /\ t.row.scored = tx[w].row.scored /\ t.pc = "marking"
          /\ Advance(w, t)
      BY <1>3 DEF EndScoring, Transaction
    <2> QED
      BY <2>1
  <1>4. CASE Raise(w)
    <2> DEFINE t == [tx[w] EXCEPT !.pc = "returning", !.answer = "succeeded",
                                  !.row = CompleteRun(tx[w].row, "failed")]
    <2>1. /\ t.run = tx[w].run /\ t.row.scored = tx[w].row.scored /\ t.pc = "returning"
          /\ Advance(w, t)
      BY <1>4 DEF Raise, Transaction, Row, CompleteRun
    <2> QED
      BY <2>1
  <1> QED
    BY <1>2, <1>3, <1>4 DEF BetweenSymbols, RaiseBetweenSymbols

(* A worker that starts a run has no draft.                                *)
LEMMA ReserveInv ==
    ASSUME AdviceInv, IInv', NEW w \in Workers, NEW r \in Runs, Reserve(w, r), Unexplained
    PROVE  AdviceInv'
  <1>1. PICK d \in Days :
           Advance(w, [Idle EXCEPT !.pc = "reserved", !.run = r, !.day = d,
                                   !.row.status = "reserved"])
    BY DEF Reserve
  <1> DEFINE t == [Idle EXCEPT !.pc = "reserved", !.run = r, !.day = d,
                               !.row.status = "reserved"]
  <1>2. t.row.scored = {} /\ t.pc = "reserved" /\ t.run = r
    BY DEF Idle, NoRow
  <1>3. /\ DraftOk(tx[w], draft[w], logged[tx[w].run]) /\ tx[w].pc = "idle"
        /\ draft \in [Workers -> Draft] /\ tx \in [Workers -> Transaction]
        /\ result[r] = "none" /\ \A v \in Workers : tx[v].run # r
    BY DEF AdviceInv, DraftsOk, Reserve, IInv, TypeOK
  <1>4. logged[r] = {}
    BY <1>3 DEF AdviceInv, LogsOk
  <1>5. DraftOk(t, NoDraft, logged[r])
    BY <1>2, <1>4, NoDraftOk
  <1> HIDE DEF t
  <1>6. /\ tx' = [tx EXCEPT ![w] = t] /\ draft[w] = NoDraft
        /\ UNCHANGED <<row, result, advice, draft, logged>>
    BY <1>1, <1>3 DEF DraftOk, Unexplained, Advance, committed, t
  <1>7. DraftsOk'
    <2> SUFFICES ASSUME NEW v \in Workers
                 PROVE  DraftOk(tx'[v], draft'[v], logged'[tx'[v].run])
      BY DEF DraftsOk
    <2>1. CASE v = w
      <3>1. tx'[v] = t /\ draft'[v] = NoDraft /\ logged'[tx'[v].run] = logged[r]
        BY <1>2, <1>3, <1>6, <2>1
      <3> QED
        BY <1>5, <3>1
    <2>2. CASE v # w
      <3>1. tx'[v] = tx[v] /\ draft'[v] = draft[v]
        BY <1>3, <1>6, <2>2
      <3> QED
        BY <1>6, <3>1, OtherDraftOk
    <2> QED
      BY <2>1, <2>2
  <1>8. StoredAdvice'
    BY <1>6 DEF AdviceInv, StoredAdvice
  <1>9. LogsOk'
    <2>1. ASSUME NEW q \in Runs, result[q] = "none", \A v \in Workers : tx'[v].run # q
          PROVE  logged[q] = {}
      <3>1. \A v \in Workers : tx[v].run # q
        <4>1. tx'[w].run = r
          BY <1>2, <1>3, <1>6
        <4>2. tx[w].run = None
          BY <1>3 DEF AdviceInv, IInv, ProgressInv, Progress, Idle
        <4> QED
          BY <1>3, <1>6, <2>1, <4>1, <4>2, DecisionRunAssumption
      <3> QED
        BY <2>1, <3>1 DEF AdviceInv, LogsOk
    <2> QED
      BY <1>6, <2>1 DEF AdviceInv, LogsOk
  <1> QED
    BY <1>6, <1>7, <1>8, <1>9 DEF AdviceInv

(* A scorecard is stored, with or without a new security reference.        *)
LEMMA ScoreInv ==
    ASSUME AdviceInv, IInv', NEW w \in Workers,
           InsertAndExplain(w) \/ \E s \in Symbols : ScoreAndExplain(w, s)
    PROVE  AdviceInv'
  <1>1. /\ DraftOk(tx[w], draft[w], logged[tx[w].run])
        /\ tx[w] \in Transaction /\ Progress(tx[w])
    BY DEF AdviceInv, DraftsOk, IInv, TypeOK, ProgressInv
  <1>2. CASE InsertAndExplain(w)
    <2> DEFINE s == tx[w].symbol
               t == [tx[w] EXCEPT !.pc = "scoring", !.symbol = None,
                                  !.added = IF s \in reference THEN @ ELSE @ \cup {s},
                                  !.row.scored = @ \cup {s}]
    <2>1. /\ s \in Symbols /\ s \notin tx[w].row.scored /\ draft[w].symbol = None
          /\ Advance(w, t) /\ StartExplaining(w, s) /\ tx[w].pc # "idle"
      BY <1>1, <1>2 DEF InsertAndExplain, InsertReference, Progress, DraftOk
    <2>2. t.run = tx[w].run /\ t.pc = "scoring" /\ t.row.scored = tx[w].row.scored \cup {s}
      BY <1>1 DEF Transaction, Row
    <2> QED
      BY <2>1, <2>2, StartInv
  <1>3. ASSUME NEW s \in Symbols, ScoreAndExplain(w, s) PROVE AdviceInv'
    <2> DEFINE t == [tx[w] EXCEPT !.row.scored = @ \cup {s}]
    <2>1. /\ s \notin tx[w].row.scored /\ draft[w].symbol = None /\ tx[w].pc = "scoring"
          /\ Advance(w, t) /\ StartExplaining(w, s)
      BY <1>3 DEF ScoreAndExplain, SaveScorecard
    <2>2. t.run = tx[w].run /\ t.pc = "scoring" /\ t.row.scored = tx[w].row.scored \cup {s}
      BY <1>1, <2>1 DEF Transaction, Row
    <2> QED
      BY <2>1, <2>2, StartInv
  <1> QED
    BY <1>2, <1>3

(* The steps that leave transactions, drafts and tables as they are.       *)
LEMMA IdleStepInv ==
    ASSUME AdviceInv, IInv', UNCHANGED <<row, tx, result, advice, draft, logged>>
    PROVE  AdviceInv'
  BY DEF AdviceInv, DraftsOk, StoredAdvice, LogsOk

LEMMA AdviceStepInv == AdviceInv /\ [AdviceNext]_adviceVars => AdviceInv'
  <1> SUFFICES ASSUME AdviceInv, [AdviceNext]_adviceVars PROVE AdviceInv'
    OBVIOUS
  <1>1. IInv'
    <2>1. [Next]_vars
      BY AdviceStepIsRunStep DEF adviceVars
    <2> QED
      BY <2>1, StepInv DEF AdviceInv
  <1>2. ASSUME NEW w \in Workers, AdviceProceed(w) PROVE AdviceInv'
    <2>1. CASE OtherStatement(w)
      BY <1>1, <2>1, OtherStatementInv
    <2>2. CASE BetweenSymbols(w)
      BY <1>1, <2>2, BetweenInv
    <2>3. CASE InsertAndExplain(w) \/ \E s \in Symbols : ScoreAndExplain(w, s)
      BY <1>1, <2>3, ScoreInv
    <2>4. CASE Explain(w)
      <3>1. PICK a \in Replies :
               Draws(w, [draft[w] EXCEPT !.attempt = 1, !.made = Append(@, a)])
        BY <2>4 DEF Explain
      <3> QED
        BY <1>1, <2>4, <3>1, RepliesAreSound, MadeInv DEF Explain
    <2>5. CASE AskAgain(w)
      BY <1>1, <2>5, AskAgainInv
    <2>6. CASE FallBack(w)
      BY <1>1, <2>6, RepliesAreSound, MadeInv DEF FallBack
    <2>7. CASE SaveBatch(w)
      BY <1>1, <2>7, SaveBatchInv
    <2>8. CASE RefuseText(w)
      BY <1>1, <2>8, BrokenOffInv
    <2>9. CASE RejectBatch(w) \/ DeadlockAdvice(w)
      BY <1>1, <2>9, AbortInvs DEF RejectBatch
    <2>10. CASE CommitAdvice(w)
      BY <1>1, <2>10, CommitAdviceInv
    <2> QED
      BY <1>2, <2>1, <2>2, <2>3, <2>4, <2>5, <2>6, <2>7, <2>8, <2>9, <2>10
         DEF AdviceProceed
  <1>3. ASSUME NEW w \in Workers, NEW r \in Runs, Reserve(w, r), Unexplained
        PROVE  AdviceInv'
    BY <1>1, <1>3, ReserveInv
  <1>4. ASSUME NEW w \in Workers, RaiseBetweenSymbols(w) PROVE AdviceInv'
    BY <1>1, <1>4, BetweenInv
  <1>5. ASSUME NEW w \in Workers, RaiseExplaining(w) \/ AbandonAdvice(w)
        PROVE  AdviceInv'
    BY <1>1, <1>5, BrokenOffInv, AbortInvs
  <1>6. CASE (ToggleHalt /\ Unexplained) \/ UNCHANGED adviceVars
    <2>1. UNCHANGED <<row, tx, result, advice, draft, logged>>
      BY <1>6 DEF ToggleHalt, Unexplained, adviceVars, vars, committed
    <2> QED
      BY <1>1, <2>1, IdleStepInv
  <1> QED
    BY <1>2, <1>3, <1>4, <1>5, <1>6 DEF AdviceNext

LEMMA AdviceInitInv == AdviceInit => AdviceInv
  <1> SUFFICES ASSUME AdviceInit PROVE AdviceInv
    OBVIOUS
  <1>1. IInv
    BY InitInv DEF AdviceInit
  <1>2. draft \in [Workers -> Draft] /\ DraftsOk
    BY IdleDraftOk, NoDraftIsDraft DEF AdviceInit, Init, DraftsOk
  <1>3. StoredAdvice
    BY EmptyIsSound DEF AdviceInit, Init, StoredAdvice, NoDraft, NoRow
  <1>4. LogsOk
    BY DEF AdviceInit, Init, LogsOk, NoRow
  <1> QED
    BY <1>1, <1>2, <1>3, <1>4 DEF AdviceInv

LEMMA AdviceInvariance == AdviceSpec => []AdviceInv
    BY AdviceInitInv, AdviceStepInv, PTL DEF AdviceSpec

-----------------------------------------------------------------------------

(* AdviceTypeOK holds for every number of runs, symbols, workers and stages.*)
THEOREM AdviceIsTyped == AdviceSpec => []AdviceTypeOK
  <1>1. AdviceInv => AdviceTypeOK
    BY DEF AdviceInv, IInv, StoredAdvice, LogsOk, AdviceTypeOK
  <1> QED
    BY <1>1, AdviceInvariance, PTL

(* Reading only the newest of them shows no other status.                  *)
LEMMA NewestAreFresh ==
    ASSUME NEW q \in Seq(Artifact), q # <<>>, \A i \in DOMAIN q : ~q[i].stale
    PROVE  ExplanationStatus(Newest(q, 100)) = "current"
  <1>1. CASE Len(q) <= 100
    BY <1>1 DEF Newest, ExplanationStatus
  <1>2. CASE ~(Len(q) <= 100)
    <2> DEFINE first == Len(q) - 100 + 1
               shown == SubSeq(q, first, Len(q))
    <2>1. Len(q) \in Nat /\ first \in 1..Len(q)
      BY <1>2
    <2>2. Len(shown) = 100 /\ \A i \in 1..100 : shown[i] = q[first + i - 1]
      BY <2>1
    <2>3. DOMAIN shown = 1..100 /\ shown # <<>>
      BY <2>1, <2>2
    <2>4. ASSUME NEW i \in DOMAIN shown PROVE ~shown[i].stale
      <3>1. shown[i] = q[first + i - 1] /\ i \in 1..100
        BY <2>2, <2>3
      <3>2. first + i - 1 \in DOMAIN q
        BY <1>2, <2>1, <3>1
      <3> QED
        BY <3>1, <3>2
    <2> QED
      BY <1>2, <2>3, <2>4 DEF Newest, ExplanationStatus
  <1> QED
    BY <1>1, <1>2

(* A stored scorecard of a run with an LLM lacks explanations exactly if   *)
(* its symbol has been logged, whatever the LLM answers and whichever of   *)
(* the modelled failures ends its explanations; what it has is acceptable, *)
(* and no other scorecard has any.                                         *)
THEOREM AdviceIsLogged == AdviceSpec => []MissingExplanationsAreLogged
  <1>1. AdviceInv => MissingExplanationsAreLogged
    <2> SUFFICES ASSUME AdviceInv, NEW r \in Runs, NEW s \in Symbols
                 PROVE  LET artifacts == advice[r][s]
                            shown == ExplanationStatus(Explanations(r, s))
                        IN  IF r \in Explained /\ s \in row[r].scored
                            THEN /\ Len(artifacts) <= StageCount + 1
                                 /\ Len(artifacts) < StageCount + 1 <=> s \in logged[r]
                                 /\ \A i \in DOMAIN artifacts :
                                       /\ Storable(artifacts[i])
                                       /\ artifacts[i].status = "failed"
                                             => artifacts[i].advises = "scorecard"
                                 /\ shown = IF artifacts = <<>> THEN "unavailable"
                                            ELSE "current"
                            ELSE shown = "unavailable"
      BY DEF MissingExplanationsAreLogged
    <2> DEFINE q == advice[r][s]
               shown == ExplanationStatus(Explanations(r, s))
    <2>1. q = <<>> => shown = "unavailable"
      BY DEF Explanations, Newest, ExplanationStatus
    <2>2. CASE r \in Explained /\ s \in row[r].scored
      <3>1. Settled(q, s \in logged[r]) /\ q \in Seq(Artifact)
        BY <2>2 DEF AdviceInv, StoredAdvice
      <3>2. \A i \in DOMAIN q : Sound(q[i]) /\ Storable(q[i])
        BY <3>1 DEF Settled, Good, AllSound
      <3>3. \A i \in DOMAIN q : q[i].status = "failed" => q[i].advises = "scorecard"
        BY <3>2 DEF Sound, Storable
      <3>4. q # <<>> => shown = "current"
        BY <3>1, <3>2, NewestAreFresh DEF Sound, Explanations
      <3>5. Len(q) <= StageCount + 1 /\ (Len(q) < StageCount + 1 <=> s \in logged[r])
        BY <3>1 DEF Settled
      <3> HIDE DEF shown
      <3> QED
        BY <2>1, <2>2, <3>2, <3>3, <3>4, <3>5 DEF shown
    <2>3. CASE ~(r \in Explained /\ s \in row[r].scored)
      <3>1. q = <<>>
        BY <2>3 DEF AdviceInv, StoredAdvice
      <3> QED
        BY <2>1, <2>3, <3>1
    <2> QED
      BY <2>2, <2>3
  <1> QED
    BY <1>1, AdviceInvariance, PTL

(* The promises of a decision run hold of one that is explained while its  *)
(* scorecards are stored, whatever the LLM answers: they follow from the   *)
(* refinement.                                                             *)
THEOREM AdvisedRunsKeepTheirPromises ==
    AdviceSpec => /\ [](ReportsMatchRows /\ MarksAreFullyScored)
                  /\ [](HaltedRunsLeaveNothing /\ ScorecardsHaveReferences)
                  /\ ReportsAreFinal
  BY AdviceImplementsRun, ReportsAreTrue, MarksFollowScoring, HaltedRunsAreEmpty,
     ReferencesOutliveRollbacks, ReportsStand, PTL
=============================================================================
