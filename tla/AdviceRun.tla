------------------------------- MODULE AdviceRun -------------------------------
(***************************************************************************)
(* A decision run whose DailyCycleService has an LLM: between storing the  *)
(* scorecard of a symbol and looking at the next one it has the scorecard  *)
(* explained, first every stage of it (M1 to M8) and then the scorecard as *)
(* a whole.  application/explanation.py asks, application/daily_cycle.py   *)
(* stores, all in the transaction of the run.                              *)
(*                                                                         *)
(* The LLM is asked twice and the deterministic recommendation is used     *)
(* after that, so that a call always ends.  The handler around all of it   *)
(* logs whatever is raised and goes on to the next symbol.  What PostgreSQL*)
(* refuses has aborted the transaction by then, and with it the run.  What *)
(* the driver refuses to send, or the code raises itself, has not: the     *)
(* scorecard is committed with the explanations that came before.          *)
(***************************************************************************)
EXTENDS DecisionRun, Sequences

CONSTANTS
    Explained,      \* the runs whose service has an LLM
    StageCount      \* stages of a scorecard

ASSUME AdviceRunAssumption ==
    /\ Explained \subseteq Runs
    /\ StageCount \in Nat \ {0}

VARIABLES
    advice,         \* run.advice_artifact: per run and symbol, in the order saved
    draft,          \* what each worker's run is having explained
    logged          \* per run, the symbols logged with explanation_generation_failed

adviceVars == <<vars, advice, draft, logged>>

ValidationStatus == {"verified", "degraded", "failed"}

Artifact ==
    [status : ValidationStatus,
     label : BOOLEAN,       \* the confidence label is low, medium or high
     text : BOOLEAN,        \* the driver can send its texts: no NUL in them
     advises : {"llm", "scorecard"},    \* whose recommendation it is
     stale : BOOLEAN]

Draft ==
    [symbol : Symbols \cup {None},      \* whose scorecard is being explained
     attempt : {1, 2},
     made : Seq(Artifact),              \* generated and not stored yet
     saved : [Symbols -> Seq(Artifact)]]

NoDraft == [symbol |-> None, attempt |-> 1, made |-> <<>>, saved |-> [s \in Symbols |-> <<>>]]

AdviceTypeOK ==
    /\ TypeOK
    /\ advice \in [Runs -> [Symbols -> Seq(Artifact)]]
    /\ draft \in [Workers -> Draft]
    /\ logged \in [Runs -> SUBSET Symbols]

AdviceInit ==
    /\ Init
    /\ advice = [r \in Runs |-> NoDraft.saved]
    /\ draft = [w \in Workers |-> NoDraft]
    /\ logged = [r \in Runs |-> {}]

-----------------------------------------------------------------------------
(* What is stored *)

(* Checked in this order: by the driver, before it sends anything, and by  *)
(* the CHECK constraints of the table, which know no degraded status.      *)
Sendable(a) == a.text

Storable(a) == Sendable(a) /\ a.status \in {"verified", "failed"} /\ a.label

Validated(label, complete) ==
    IF ~label THEN "failed" ELSE IF complete THEN "verified" ELSE "degraded"

(* A reply that parses: any action, any label, with or without its texts.  *)
(* One that has a text which cannot be sent stands for all of these: they  *)
(* are refused whatever else they hold.                                    *)
Unsendable == [status |-> "verified", label |-> TRUE, text |-> FALSE,
               advises |-> "llm", stale |-> FALSE]

Replies ==
    {[status |-> Validated(label, complete), label |-> label, text |-> TRUE,
      advises |-> "llm", stale |-> FALSE] : label, complete \in BOOLEAN} \cup {Unsendable}

Fallback == [status |-> "failed", label |-> TRUE, text |-> TRUE,
             advises |-> "scorecard", stale |-> FALSE]

MarkStale(artifacts) == [i \in DOMAIN artifacts |-> [artifacts[i] EXCEPT !.stale = TRUE]]

(* load_advice_artifacts: the newest ones, no more than asked for.         *)
Newest(artifacts, limit) ==
    IF Len(artifacts) <= limit THEN artifacts
    ELSE SubSeq(artifacts, Len(artifacts) - limit + 1, Len(artifacts))

(* get_explanations.                                                       *)
Explanations(r, s) == Newest(advice[r][s], 100)

(* What the console says of a scorecard with these explanations.           *)
ExplanationStatus(artifacts) ==
    IF artifacts = <<>> THEN "unavailable"
    ELSE IF \E i \in DOMAIN artifacts : artifacts[i].stale THEN "stale"
    ELSE "current"

-----------------------------------------------------------------------------
(* The steps of DecisionRun, and where explanations come in *)

Write(w, d) == draft' = [draft EXCEPT ![w] = d]

Unexplained == UNCHANGED <<advice, draft, logged>>

(* The scorecard of s has been stored.  What is marked stale first are the *)
(* explanations of this very scorecard: it has none yet.                   *)
StartExplaining(w, s) ==
    /\ IF tx[w].run \in Explained
       THEN Write(w, [draft[w] EXCEPT !.symbol = s, !.saved[s] = MarkStale(@)])
       ELSE UNCHANGED draft
    /\ UNCHANGED <<advice, logged>>

ScoreAndExplain(w, s) ==
    /\ draft[w].symbol = None
    /\ SaveScorecard(w, s)
    /\ StartExplaining(w, s)

InsertAndExplain(w) ==
    /\ InsertReference(w)
    /\ StartExplaining(w, tx[w].symbol)

BetweenSymbols(w) ==
    /\ draft[w].symbol = None
    /\ (\E s \in Symbols : MissReference(w, s)) \/ EndScoring(w)
    /\ Unexplained

RaiseBetweenSymbols(w) == draft[w].symbol = None /\ Raise(w) /\ Unexplained

OtherStatement(w) ==
    /\ Start(w) \/ SkipHalted(w) \/ FetchFacts(w) \/ SaveMark(w) \/ RebuildAndComplete(w)
    /\ Unexplained

-----------------------------------------------------------------------------
(* Asking and storing *)

(* A step of a worker that explains: only its draft changes.               *)
Draws(w, d) == Write(w, d) /\ UNCHANGED <<vars, advice, logged>>

Saved(w) == draft[w].saved[draft[w].symbol]

(* The stages are stored together, and then the scorecard as a whole.      *)
Batch(w) == IF Saved(w) = <<>> THEN StageCount ELSE 1

Asking(w) == draft[w].symbol # None /\ Len(draft[w].made) < Batch(w)

Explain(w) ==
    /\ Asking(w)
    /\ \E a \in Replies :
          Draws(w, [draft[w] EXCEPT !.attempt = 1, !.made = Append(@, a)])

(* The call fails, three times in the adapter, or its answer does not      *)
(* parse: it is asked once more with a corrective prompt.                  *)
AskAgain(w) ==
    /\ Asking(w)
    /\ draft[w].attempt = 1
    /\ Draws(w, [draft[w] EXCEPT !.attempt = 2])

(* Mutant: no fallback; it is asked all over again.                        *)
FallBackAsksOver(w) ==
    /\ Asking(w)
    /\ draft[w].attempt = 2
    /\ Draws(w, [draft[w] EXCEPT !.attempt = 1])

(* The second answer was of no use either.                                 *)
FallBack(w) ==
    /\ Asking(w)
    /\ draft[w].attempt = 2
    /\ Draws(w, [draft[w] EXCEPT !.attempt = 1, !.made = Append(@, Fallback)])

Made(w) == draft[w].symbol # None /\ Len(draft[w].made) = Batch(w)

AllStorable(artifacts) == \A i \in DOMAIN artifacts : Storable(artifacts[i])

(* The first of the artifacts that is refused, by the driver or the table. *)
FirstRefused(artifacts, n) ==
    /\ n \in DOMAIN artifacts
    /\ ~Storable(artifacts[n])
    /\ \A i \in 1..(n - 1) : Storable(artifacts[i])

(* Mutant: what is refused is left out.                                    *)
SaveBatchPartly(w) ==
    /\ Made(w)
    /\ LET s == draft[w].symbol
       IN  Draws(w, [draft[w] EXCEPT !.made = <<>>,
                                     !.saved[s] = @ \o SelectSeq(draft[w].made, Storable),
                                     !.symbol = IF Saved(w) = <<>> THEN s ELSE None])

SaveBatch(w) ==
    /\ Made(w)
    /\ AllStorable(draft[w].made)
    /\ LET s == draft[w].symbol
       IN  Draws(w, [draft[w] EXCEPT !.made = <<>>, !.saved[s] = @ \o draft[w].made,
                                     !.symbol = IF Saved(w) = <<>> THEN s ELSE None])

-----------------------------------------------------------------------------
(* explanation_generation_failed *)

Log(w) == logged' = [logged EXCEPT ![tx[w].run] = @ \cup ({draft[w].symbol} \ {None})]

(* An exception that did not come from PostgreSQL: the transaction is      *)
(* alive, the first n of the batch have been stored, and the loop goes on  *)
(* to the next symbol.                                                     *)
BreakOff(w, n) ==
    /\ LET s == draft[w].symbol
       IN  Write(w, [draft[w] EXCEPT !.symbol = None, !.attempt = 1, !.made = <<>>,
                                     !.saved[s] = @ \o SubSeq(draft[w].made, 1, n)])
    /\ Log(w)
    /\ UNCHANGED <<vars, advice>>

(* Around the calls to the LLM: a prompt cannot be made of the scorecard.  *)
RaiseExplaining(w) == Asking(w) /\ BreakOff(w, 0)

(* The driver does not send a text: psycopg raises DataError.              *)
RefuseText(w) ==
    /\ Made(w)
    /\ \E n \in DOMAIN draft[w].made :
          /\ FirstRefused(draft[w].made, n)
          /\ ~Sendable(draft[w].made[n])
          /\ BreakOff(w, n - 1)

-----------------------------------------------------------------------------
(* The ends of the transaction *)

CommitAdvice(w) ==
    /\ Commit(w)
    /\ advice' = [advice EXCEPT ![tx[w].run] = draft[w].saved]
    /\ Write(w, NoDraft)
    /\ UNCHANGED logged

(* The other end.  What was raised while explaining is logged as that; the *)
(* next statement of the run fails.                                        *)
AbandonAdvice(w) ==
    /\ SqlError(w)
    /\ Log(w)
    /\ Write(w, NoDraft)
    /\ UNCHANGED advice

(* PostgreSQL refuses an insert.                                           *)
RejectBatch(w) ==
    /\ Made(w)
    /\ \E n \in DOMAIN draft[w].made :
          FirstRefused(draft[w].made, n) /\ Sendable(draft[w].made[n])
    /\ AbandonAdvice(w)

DeadlockAdvice(w) ==
    /\ AbortDeadlock(w)
    /\ Write(w, NoDraft)
    /\ UNCHANGED <<advice, logged>>

AdviceProceed(w) ==
    \/ OtherStatement(w) \/ BetweenSymbols(w) \/ InsertAndExplain(w)
    \/ \E s \in Symbols : ScoreAndExplain(w, s)
    \/ Explain(w) \/ AskAgain(w) \/ FallBack(w)
    \/ SaveBatch(w) \/ RefuseText(w) \/ RejectBatch(w)
    \/ CommitAdvice(w) \/ DeadlockAdvice(w)

AdviceNext ==
    \/ \E w \in Workers :
          \/ \E r \in Runs : Reserve(w, r) /\ Unexplained
          \/ AdviceProceed(w)
          \/ RaiseBetweenSymbols(w) \/ RaiseExplaining(w) \/ AbandonAdvice(w)
    \/ ToggleHalt /\ Unexplained

AdviceSpec == AdviceInit /\ [][AdviceNext]_adviceVars

(* A handler goes on until it returns, a statement that waits is run when  *)
(* the transaction it waits for has ended, and a call to the LLM has a     *)
(* timeout.                                                                *)
AdviceFairSpec == AdviceSpec /\ \A w \in Workers : WF_adviceVars(AdviceProceed(w))

-----------------------------------------------------------------------------
(* A run whose explanations fail, whether asking for them, sending them or *)
(* storing them, may commit a scorecard that lacks some, but never without *)
(* a word: the symbols it has logged are exactly those that lack some.     *)
(* What is there is what the table accepts, and an explanation that failed *)
(* recommends what the scorecard does, not what the LLM answered.  The     *)
(* console shows what there is as current, and says of a scorecard that    *)
(* has none, or of any other run, that they are unavailable.               *)
MissingExplanationsAreLogged ==
    \A r \in Runs : \A s \in Symbols :
        LET artifacts == advice[r][s]
            shown == ExplanationStatus(Explanations(r, s))
        IN  IF r \in Explained /\ s \in row[r].scored
            THEN /\ Len(artifacts) <= StageCount + 1
                 /\ Len(artifacts) < StageCount + 1 <=> s \in logged[r]
                 /\ \A i \in DOMAIN artifacts :
                       /\ Storable(artifacts[i])
                       /\ artifacts[i].status = "failed" => artifacts[i].advises = "scorecard"
                 /\ shown = IF artifacts = <<>> THEN "unavailable" ELSE "current"
            ELSE shown = "unavailable"
=============================================================================
