-------------------------- MODULE CommandQueueProofs --------------------------
(***************************************************************************)
(* Proofs about CommandQueue for every set of keys, ids, API requests and  *)
(* workers and for every bound.  None of the safety properties is          *)
(* inductive by itself: at most one effect per key holds because a         *)
(* dispatched command is held by one worker, its row is the only row of    *)
(* its key, and a status that would let it be claimed again is never       *)
(* written.  IInv states these facts together.                             *)
(***************************************************************************)
EXTENDS CommandQueue, TLAPS

(* A row has a key.                                                        *)
RowInv == \A i \in Rows : rowKey[i] \in Keys

(* What a request remembers between the statements of its transaction.     *)
ClientInv ==
    /\ \A c \in Clients : client[c].pc = "checked" => client[c].key \in Keys
    /\ \A c \in Clients : client[c].pc = "cancelling" => client[c].id \in Rows
    /\ \A c \in Clients : client[c].pc = "inserted" =>
          /\ client[c].key \in Keys
          /\ client[c].id \in Ids \ Rows
          /\ \A i \in Rows : rowKey[i] # client[c].key

(* Uncommitted inserts are for different keys and different ids.           *)
InsertInv ==
    \A c, d \in Clients :
        client[c].pc = "inserted" /\ client[d].pc = "inserted" /\ c # d
            => client[c].key # client[d].key /\ client[c].id # client[d].id

(* What the status of a row says about the worker that holds it.           *)
WorkerInv ==
    \A w \in Workers :
        /\ worker[w].pc = "idle" => worker[w] = IdleWorker
        /\ worker[w].pc # "idle" => worker[w].id \in Rows
        /\ worker[w].pc = "claiming" => status[worker[w].id] = "queued"
        /\ worker[w].pc \in {"dispatching", "handled"}
              => status[worker[w].id] \in {"running", "cancelled"}
        /\ worker[w].pc = "handled" => worker[w].outcome \in {"succeeded", "failed"}

(* How often the handler of a command took effect, from where it is.       *)
EffectInv ==
    /\ \A k \in Keys : applied[k] <= 1
    /\ \A k \in Keys : applied[k] > 0 => \E i \in Rows : rowKey[i] = k
    /\ \A i \in Rows : status[i] = "queued" => applied[rowKey[i]] = 0
    /\ \A w \in Workers : worker[w].pc = "dispatching" => applied[KeyOf(w)] = 0
    /\ \A w \in Workers :
          worker[w].pc = "handled" /\ worker[w].outcome = "succeeded"
              => applied[KeyOf(w)] = 1
    /\ \A w \in Workers :
          worker[w].pc = "handled" /\ worker[w].outcome = "failed"
              => KeyOf(w) \in AmbiguousKeys \/ applied[KeyOf(w)] = 0

IInv ==
    /\ TypeOK
    /\ RowInv
    /\ OneRowPerKey
    /\ ClientInv
    /\ InsertInv
    /\ WorkerInv
    /\ SingleOwner
    /\ EffectInv
    /\ SucceededMeansApplied
    /\ FailedMeansNotApplied
    /\ EarlyCancelIsFinal
    /\ AnswersNameTheRow

LEMMA StepInv == ASSUME IInv, [Next]_vars PROVE IInv'
<1> USE CommandQueueAssumption DEF IInv, Status, Terminal, tableVars, historyVars
<1>1. ASSUME NEW c \in Clients, NEW k \in Keys, SubmitFound(c, k) PROVE IInv'
  <2>1. TypeOK'
    BY <1>1 DEF TypeOK, Rows, SubmitFound, RowsOf
  <2>2. AnswersNameTheRow'
    BY <1>1 DEF AnswersNameTheRow, Rows, RowsOf, SubmitFound
  <2>3. QED
    BY <1>1, <2>1, <2>2
       DEF SubmitFound, KeyOf, Rows, RowInv, OneRowPerKey, ClientInv, InsertInv,
           WorkerInv, SingleOwner, EffectInv, SucceededMeansApplied,
           FailedMeansNotApplied, EarlyCancelIsFinal
<1>2. ASSUME NEW c \in Clients, NEW k \in Keys, SubmitLookup(c, k) PROVE IInv'
  <2>1. TypeOK'
    BY <1>2
       DEF TypeOK, ClientState, WorkerState, SubmitLookup, RowsOf, IdleClient
  <2>2. ClientInv'
    BY <1>2 DEF ClientInv, Rows, SubmitLookup
  <2>3. InsertInv'
    BY <1>2 DEF InsertInv, SubmitLookup
  <2>4. QED
    BY <1>2, <2>1, <2>2, <2>3
       DEF SubmitLookup, KeyOf, Rows, RowInv, OneRowPerKey, WorkerInv,
           SingleOwner, EffectInv, SucceededMeansApplied, FailedMeansNotApplied,
           EarlyCancelIsFinal, AnswersNameTheRow
<1>3. ASSUME NEW c \in Clients, NEW i \in Ids, SubmitInsert(c, i) PROVE IInv'
  <2>1. TypeOK'
    BY <1>3 DEF TypeOK, ClientState, SubmitInsert
  <2>2. ClientInv'
    BY <1>3 DEF ClientInv, Rows, RowsOf, Fresh, SubmitInsert
  <2>3. InsertInv'
    BY <1>3 DEF InsertInv, Fresh, KeyHeldByOther, SubmitInsert
  <2>4. QED
    BY <1>3, <2>1, <2>2, <2>3
       DEF SubmitInsert, KeyOf, Rows, RowInv, OneRowPerKey, WorkerInv,
           SingleOwner, EffectInv, SucceededMeansApplied, FailedMeansNotApplied,
           EarlyCancelIsFinal, AnswersNameTheRow
<1>4. ASSUME NEW c \in Clients, SubmitConflict(c) PROVE IInv'
  <2>1. TypeOK'
    BY <1>4
       DEF TypeOK, ClientState, ClientInv, Rows, SubmitConflict, RowsOf,
           IdleClient
  <2>2. ClientInv'
    BY <1>4 DEF ClientInv, Rows, IdleClient, SubmitConflict
  <2>3. InsertInv'
    BY <1>4 DEF InsertInv, IdleClient, SubmitConflict
  <2>4. AnswersNameTheRow'
    BY <1>4 DEF AnswersNameTheRow, Rows, RowsOf, SubmitConflict
  <2>5. QED
    BY <1>4, <2>1, <2>2, <2>3, <2>4
       DEF SubmitConflict, KeyOf, Rows, RowInv, OneRowPerKey, WorkerInv,
           SingleOwner, EffectInv, SucceededMeansApplied, FailedMeansNotApplied,
           EarlyCancelIsFinal
<1>5. ASSUME NEW c \in Clients, SubmitCommit(c) PROVE IInv'
  <2>1. TypeOK'
    BY <1>5 DEF TypeOK, ClientState, ClientInv, SubmitCommit, IdleClient
  <2>2. /\ client[c].id \in Ids \ Rows
        /\ client[c].key \in Keys
        /\ Rows' = Rows \cup {client[c].id}
        /\ rowKey' = [rowKey EXCEPT ![client[c].id] = client[c].key]
        /\ status' = [status EXCEPT ![client[c].id] = "queued"]
    BY <1>5 DEF TypeOK, ClientInv, Rows, SubmitCommit
  <2>3. RowInv'
    BY <1>5, <2>2 DEF TypeOK, RowInv
  <2>4. OneRowPerKey'
    BY <1>5 DEF TypeOK, OneRowPerKey, ClientInv, Rows, SubmitCommit
  <2>5. ClientInv'
    BY <1>5 DEF TypeOK, ClientInv, InsertInv, Rows, IdleClient, SubmitCommit
  <2>6. InsertInv'
    BY <1>5 DEF InsertInv, IdleClient, SubmitCommit
  <2>7. WorkerInv'
    BY <1>5, <2>2 DEF WorkerInv, SubmitCommit
  <2>8. EffectInv'
    BY <1>5
       DEF TypeOK, EffectInv, ClientInv, WorkerInv, Rows, SubmitCommit, KeyOf
  <2>9. SucceededMeansApplied'
    BY <1>5 DEF TypeOK, SucceededMeansApplied, Rows, SubmitCommit
  <2>10. FailedMeansNotApplied'
    BY <1>5 DEF TypeOK, FailedMeansNotApplied, Rows, SubmitCommit
  <2>11. EarlyCancelIsFinal'
    BY <1>5 DEF EarlyCancelIsFinal, ClientInv, Rows, SubmitCommit
  <2>12. AnswersNameTheRow'
    BY <1>5 DEF TypeOK, AnswersNameTheRow, ClientInv, Rows, SubmitCommit
  <2>13. QED
    BY <1>5, <2>1, <2>2, <2>3, <2>4, <2>5, <2>6, <2>7, <2>8, <2>9, <2>10, <2>11,
       <2>12 DEF SubmitCommit, SingleOwner
<1>6. ASSUME NEW c \in Clients, ClientFails(c) PROVE IInv'
  <2>1. TypeOK'
    BY <1>6 DEF TypeOK, ClientState, ClientFails, IdleClient
  <2>2. ClientInv'
    BY <1>6 DEF ClientInv, Rows, IdleClient, ClientFails
  <2>3. InsertInv'
    BY <1>6 DEF InsertInv, IdleClient, ClientFails
  <2>4. QED
    BY <1>6, <2>1, <2>2, <2>3
       DEF ClientFails, KeyOf, Rows, RowInv, OneRowPerKey, WorkerInv,
           SingleOwner, EffectInv, SucceededMeansApplied, FailedMeansNotApplied,
           EarlyCancelIsFinal, AnswersNameTheRow
<1>7. ASSUME NEW c \in Clients, NEW i \in Ids, CancelCheck(c, i) PROVE IInv'
  <2>1. TypeOK'
    BY <1>7 DEF TypeOK, ClientState, WorkerState, CancelCheck, IdleClient
  <2>2. ClientInv'
    BY <1>7 DEF ClientInv, Rows, CancelCheck
  <2>3. InsertInv'
    BY <1>7 DEF InsertInv, CancelCheck
  <2>4. QED
    BY <1>7, <2>1, <2>2, <2>3
       DEF CancelCheck, KeyOf, Rows, RowInv, OneRowPerKey, WorkerInv,
           SingleOwner, EffectInv, SucceededMeansApplied, FailedMeansNotApplied,
           EarlyCancelIsFinal, AnswersNameTheRow
<1>8. ASSUME NEW c \in Clients, CancelWrite(c) PROVE IInv'
  <2>1. TypeOK'
    BY <1>8 DEF TypeOK, ClientState, ClientInv, Rows, CancelWrite, IdleClient
  <2>2. Rows' = Rows
    BY <1>8 DEF ClientInv, Rows, CancelWrite
  <2>3. RowInv'
    BY <1>8, <2>2 DEF RowInv, CancelWrite
  <2>4. OneRowPerKey'
    BY <1>8, <2>2 DEF OneRowPerKey, CancelWrite
  <2>5. ClientInv'
    BY <1>8, <2>2 DEF ClientInv, CancelWrite, IdleClient
  <2>6. InsertInv'
    BY <1>8 DEF InsertInv, IdleClient, CancelWrite
  <2>7. WorkerInv'
    BY <1>8 DEF WorkerInv, Rows, Locked, CancelWrite
  <2>8. EffectInv'
    BY <1>8 DEF EffectInv, Rows, CancelWrite, KeyOf
  <2>9. SucceededMeansApplied'
    BY <1>8 DEF SucceededMeansApplied, Rows, CancelWrite
  <2>10. FailedMeansNotApplied'
    BY <1>8 DEF FailedMeansNotApplied, Rows, CancelWrite
  <2>11. EarlyCancelIsFinal'
    BY <1>8
       DEF TypeOK, WorkerState, EarlyCancelIsFinal, WorkerInv, EffectInv,
           ClientInv, Rows, Locked, CancelWrite, IdleWorker
  <2>12. AnswersNameTheRow'
    BY <1>8 DEF AnswersNameTheRow, Rows, CancelWrite
  <2>13. QED
    BY <1>8, <2>1, <2>2, <2>3, <2>4, <2>5, <2>6, <2>7, <2>8, <2>9, <2>10, <2>11,
       <2>12 DEF CancelWrite, SingleOwner
<1>9. ASSUME NEW w \in Workers, NEW i \in Ids, Claim(w, i) PROVE IInv'
  <2>1. TypeOK'
    BY <1>9
       DEF TypeOK, ClientState, WorkerState, Claim, IdleWorker, Claimable,
           Locked
  <2>2. WorkerInv'
    BY <1>9 DEF WorkerInv, Rows, Claimable, Claim
  <2>3. SingleOwner'
    BY <1>9
       DEF TypeOK, WorkerState, SingleOwner, WorkerInv, Claimable, Locked,
           Claim
  <2>4. EffectInv'
    BY <1>9 DEF EffectInv, Rows, Claim, KeyOf
  <2>5. EarlyCancelIsFinal'
    BY <1>9 DEF EarlyCancelIsFinal, Claimable, Claim
  <2>6. QED
    BY <1>9, <2>1, <2>2, <2>3, <2>4, <2>5
       DEF Claim, Rows, RowInv, OneRowPerKey, ClientInv, InsertInv,
           SucceededMeansApplied, FailedMeansNotApplied, AnswersNameTheRow
<1>10. ASSUME NEW w \in Workers, ClaimCommit(w) PROVE IInv'
  <2>1. TypeOK'
    BY <1>10 DEF TypeOK, ClientState, WorkerState, ClaimCommit
  <2>2. Rows' = Rows
    BY <1>10 DEF WorkerInv, Rows, ClaimCommit
  <2>3. RowInv'
    BY <1>10, <2>2 DEF RowInv, ClaimCommit
  <2>4. OneRowPerKey'
    BY <1>10, <2>2 DEF OneRowPerKey, ClaimCommit
  <2>5. ClientInv'
    BY <1>10, <2>2 DEF ClientInv, ClaimCommit
  <2>6. WorkerInv'
    BY <1>10 DEF TypeOK, WorkerInv, SingleOwner, Rows, ClaimCommit
  <2>7. SingleOwner'
    BY <1>10 DEF SingleOwner, ClaimCommit
  <2>8. EffectInv'
    BY <1>10 DEF EffectInv, WorkerInv, Rows, ClaimCommit, KeyOf
  <2>9. SucceededMeansApplied'
    BY <1>10 DEF SucceededMeansApplied, Rows, ClaimCommit
  <2>10. FailedMeansNotApplied'
    BY <1>10 DEF FailedMeansNotApplied, Rows, ClaimCommit
  <2>11. EarlyCancelIsFinal'
    BY <1>10 DEF EarlyCancelIsFinal, ClaimCommit
  <2>12. AnswersNameTheRow'
    BY <1>10 DEF AnswersNameTheRow, Rows, ClaimCommit
  <2>13. QED
    BY <1>10, <2>1, <2>2, <2>3, <2>4, <2>5, <2>6, <2>7, <2>8, <2>9, <2>10,
       <2>11, <2>12 DEF ClaimCommit, InsertInv
<1>11. ASSUME NEW w \in Workers, DispatchUnknown(w) PROVE IInv'
  <2>1. TypeOK'
    BY <1>11 DEF TypeOK, WorkerState, DispatchUnknown, Handled
  <2>2. WorkerInv'
    BY <1>11 DEF WorkerInv, Rows, Handled, DispatchUnknown
  <2>3. SingleOwner'
    BY <1>11 DEF SingleOwner, Handled, DispatchUnknown
  <2>4. EffectInv'
    BY <1>11 DEF EffectInv, Rows, Handled, KeyOf, DispatchUnknown
  <2>5. EarlyCancelIsFinal'
    BY <1>11 DEF EarlyCancelIsFinal, Handled, DispatchUnknown
  <2>6. QED
    BY <1>11, <2>1, <2>2, <2>3, <2>4, <2>5
       DEF DispatchUnknown, Rows, RowInv, OneRowPerKey, ClientInv, InsertInv,
           SucceededMeansApplied, FailedMeansNotApplied, AnswersNameTheRow
<1>12. ASSUME NEW w \in Workers, HandlerSucceeds(w) PROVE IInv'
  <2>1. TypeOK'
    BY <1>12 DEF TypeOK, WorkerState, HandlerSucceeds, Handled
  <2>2. WorkerInv'
    BY <1>12 DEF WorkerInv, Rows, Handled, HandlerSucceeds
  <2>3. SingleOwner'
    BY <1>12 DEF SingleOwner, Handled, HandlerSucceeds
  <2>4. EffectInv'
    BY <1>12
       DEF TypeOK, EffectInv, OneRowPerKey, ClientInv, WorkerInv, SingleOwner,
           Rows, Handled, KeyOf, HandlerSucceeds
  <2>5. SucceededMeansApplied'
    BY <1>12 DEF SucceededMeansApplied, EffectInv, Rows, HandlerSucceeds
  <2>6. FailedMeansNotApplied'
    BY <1>12
       DEF FailedMeansNotApplied, OneRowPerKey, WorkerInv, Rows, KeyOf,
           HandlerSucceeds
  <2>7. EarlyCancelIsFinal'
    BY <1>12
       DEF TypeOK, EarlyCancelIsFinal, OneRowPerKey, WorkerInv, Rows, Handled,
           KeyOf, HandlerSucceeds
  <2>8. QED
    BY <1>12, <2>1, <2>2, <2>3, <2>4, <2>5, <2>6, <2>7
       DEF HandlerSucceeds, Rows, RowInv, OneRowPerKey, ClientInv, InsertInv,
           AnswersNameTheRow
<1>13. ASSUME NEW w \in Workers, HandlerFails(w) PROVE IInv'
  <2>1. TypeOK'
    BY <1>13 DEF TypeOK, WorkerState, HandlerFails, Handled
  <2>2. WorkerInv'
    BY <1>13 DEF WorkerInv, Rows, Handled, HandlerFails
  <2>3. SingleOwner'
    BY <1>13 DEF SingleOwner, Handled, HandlerFails
  <2>4. EffectInv'
    BY <1>13 DEF EffectInv, Rows, Handled, KeyOf, HandlerFails
  <2>5. EarlyCancelIsFinal'
    BY <1>13 DEF EarlyCancelIsFinal, Handled, HandlerFails
  <2>6. QED
    BY <1>13, <2>1, <2>2, <2>3, <2>4, <2>5
       DEF HandlerFails, Rows, RowInv, OneRowPerKey, ClientInv, InsertInv,
           SucceededMeansApplied, FailedMeansNotApplied, AnswersNameTheRow
<1>14. ASSUME NEW w \in Workers, HandlerOutcomeLost(w) PROVE IInv'
  <2>1. TypeOK'
    BY <1>14 DEF TypeOK, WorkerState, HandlerOutcomeLost, Handled
  <2>2. WorkerInv'
    BY <1>14 DEF WorkerInv, Rows, Handled, HandlerOutcomeLost
  <2>3. SingleOwner'
    BY <1>14 DEF SingleOwner, Handled, HandlerOutcomeLost
  <2>4. EffectInv'
    BY <1>14
       DEF TypeOK, EffectInv, OneRowPerKey, WorkerInv, SingleOwner, Rows,
           Handled, KeyOf, HandlerOutcomeLost
  <2>5. SucceededMeansApplied'
    BY <1>14 DEF SucceededMeansApplied, EffectInv, Rows, HandlerOutcomeLost
  <2>6. FailedMeansNotApplied'
    BY <1>14 DEF FailedMeansNotApplied, Rows, HandlerOutcomeLost
  <2>7. EarlyCancelIsFinal'
    BY <1>14
       DEF TypeOK, EarlyCancelIsFinal, OneRowPerKey, WorkerInv, Rows, Handled,
           KeyOf, HandlerOutcomeLost
  <2>8. QED
    BY <1>14, <2>1, <2>2, <2>3, <2>4, <2>5, <2>6, <2>7
       DEF HandlerOutcomeLost, Rows, RowInv, OneRowPerKey, ClientInv, InsertInv,
           AnswersNameTheRow
<1>15. ASSUME NEW w \in Workers, Complete(w) PROVE IInv'
  <2>1. TypeOK'
    BY <1>15
       DEF TypeOK, ClientState, WorkerState, WorkerInv, Complete, IdleWorker
  <2>2. Rows' = Rows
    BY <1>15 DEF WorkerInv, Rows, Complete
  <2>3. RowInv'
    BY <1>15, <2>2 DEF RowInv, Complete
  <2>4. OneRowPerKey'
    BY <1>15, <2>2 DEF OneRowPerKey, Complete
  <2>5. ClientInv'
    BY <1>15, <2>2 DEF ClientInv, Complete
  <2>6. WorkerInv'
    BY <1>15 DEF TypeOK, WorkerInv, SingleOwner, Rows, IdleWorker, Complete
  <2>7. SingleOwner'
    BY <1>15 DEF SingleOwner, IdleWorker, Complete
  <2>8. EffectInv'
    BY <1>15
       DEF TypeOK, WorkerState, EffectInv, Rows, IdleWorker, Complete, KeyOf
  <2>9. SucceededMeansApplied'
    BY <1>15 DEF SucceededMeansApplied, EffectInv, Rows, Complete, KeyOf
  <2>10. FailedMeansNotApplied'
    BY <1>15, <2>2 DEF FailedMeansNotApplied, EffectInv, KeyOf, Complete
  <2>11. EarlyCancelIsFinal'
    BY <1>15 DEF TypeOK, EarlyCancelIsFinal, IdleWorker, Complete
  <2>12. AnswersNameTheRow'
    BY <1>15 DEF TypeOK, WorkerState, AnswersNameTheRow, Rows, Complete
  <2>13. QED
    BY <1>15, <2>1, <2>2, <2>3, <2>4, <2>5, <2>6, <2>7, <2>8, <2>9, <2>10,
       <2>11, <2>12 DEF Complete, InsertInv
<1>16. ASSUME NEW w \in Workers, WorkerStops(w) PROVE IInv'
  <2>1. TypeOK'
    BY <1>16 DEF TypeOK, WorkerState, WorkerStops, IdleWorker
  <2>2. WorkerInv'
    BY <1>16 DEF WorkerInv, Rows, IdleWorker, WorkerStops
  <2>3. SingleOwner'
    BY <1>16 DEF SingleOwner, IdleWorker, WorkerStops
  <2>4. EffectInv'
    BY <1>16 DEF EffectInv, Rows, IdleWorker, WorkerStops, KeyOf
  <2>5. EarlyCancelIsFinal'
    BY <1>16 DEF TypeOK, EarlyCancelIsFinal, IdleWorker, WorkerStops
  <2>6. QED
    BY <1>16, <2>1, <2>2, <2>3, <2>4, <2>5
       DEF WorkerStops, Rows, RowInv, OneRowPerKey, ClientInv, InsertInv,
           SucceededMeansApplied, FailedMeansNotApplied, AnswersNameTheRow
<1>17. CASE UNCHANGED vars
  BY <1>17
     DEF vars, TypeOK, RowInv, OneRowPerKey, ClientInv, InsertInv, WorkerInv,
         SingleOwner, EffectInv, SucceededMeansApplied, FailedMeansNotApplied,
         EarlyCancelIsFinal, AnswersNameTheRow, Rows, KeyOf
<1>18. QED
  BY <1>1, <1>2, <1>3, <1>4, <1>5, <1>6, <1>7, <1>8, <1>9, <1>10, <1>11, <1>12,
     <1>13, <1>14, <1>15, <1>16, <1>17 DEF Next, ClientStep, WorkerStep

LEMMA InitInv == Init => IInv
<1> SUFFICES ASSUME Init PROVE IInv
  OBVIOUS
<1>1. TypeOK
  BY CommandQueueAssumption
     DEF Init, TypeOK, Status, ClientState, WorkerState, IdleClient, IdleWorker
<1>2. Rows = {}
  BY DEF Init, Rows
<1>3. QED
  BY <1>1, <1>2
     DEF Init, IInv, RowInv, OneRowPerKey, ClientInv, InsertInv, WorkerInv,
         SingleOwner, EffectInv, SucceededMeansApplied, FailedMeansNotApplied,
         EarlyCancelIsFinal, AnswersNameTheRow, KeyOf, IdleClient, IdleWorker

(* Every reachable state is well-typed; in particular a row never has a     *)
(* status outside CommandStatus.                                            *)
THEOREM RequestsAndWorkersAreTyped == Spec => []TypeOK
<1>1. IInv => TypeOK
  BY DEF IInv
<1>2. QED
  BY InitInv, StepInv, <1>1, PTL DEF Spec

(* One idempotency triple never has two rows, whatever requests race.       *)
THEOREM IdempotentSubmission == Spec => []OneRowPerKey
<1>1. IInv => OneRowPerKey
  BY DEF IInv
<1>2. QED
  BY InitInv, StepInv, <1>1, PTL DEF Spec

(* An id that was returned to a caller is the id of a committed row with    *)
(* the caller's key.                                                        *)
THEOREM AnswersAreDurable == Spec => []AnswersNameTheRow
<1>1. IInv => AnswersNameTheRow
  BY DEF IInv
<1>2. QED
  BY InitInv, StepInv, <1>1, PTL DEF Spec

(* No handler takes effect twice for a key, although workers crash at any   *)
(* step and cancels and completions overwrite each other.                   *)
THEOREM EffectsAreNotRepeated == Spec => []AtMostOnceEffect
<1>1. IInv => AtMostOnceEffect
  BY DEF IInv, EffectInv, AtMostOnceEffect
<1>2. QED
  BY InitInv, StepInv, <1>1, PTL DEF Spec

(* No two workers hold the same command.                                    *)
THEOREM CommandsHaveOneOwner == Spec => []SingleOwner
<1>1. IInv => SingleOwner
  BY DEF IInv
<1>2. QED
  BY InitInv, StepInv, <1>1, PTL DEF Spec

(* A command that shows succeeded has taken effect.                         *)
THEOREM SuccessIsTrue == Spec => []SucceededMeansApplied
<1>1. IInv => SucceededMeansApplied
  BY DEF IInv
<1>2. QED
  BY InitInv, StepInv, <1>1, PTL DEF Spec

(* A command that shows failed has had no effect, unless its effect can     *)
(* outlive its exception.                                                   *)
THEOREM FailureIsClean == Spec => []FailedMeansNotApplied
<1>1. IInv => FailedMeansNotApplied
  BY DEF IInv
<1>2. QED
  BY InitInv, StepInv, <1>1, PTL DEF Spec

(* A cancel written before the claim is final.                              *)
THEOREM EarlyCancelsHold == Spec => []EarlyCancelIsFinal
<1>1. IInv => EarlyCancelIsFinal
  BY DEF IInv
<1>2. QED
  BY InitInv, StepInv, <1>1, PTL DEF Spec

-----------------------------------------------------------------------------
(* Refinement *)

Accepted == {rowKey[i] : i \in Rows}

Succeeded == {rowKey[i] : i \in {j \in Rows : status[j] = "succeeded"}}

(* A step that leaves the table and the effects alone is no step of the    *)
(* contract.                                                               *)
LEMMA ContractStutters ==
    ASSUME UNCHANGED <<status, rowKey, applied>>
    PROVE  UNCHANGED Contract!vars
BY DEF Contract!vars, Rows

(* A status other than success, written to a row that is there.            *)
LEMMA ContractRetracts ==
    ASSUME IInv, NEW i \in Rows, NEW s \in Status \ {"succeeded"},
           status' = [status EXCEPT ![i] = s], UNCHANGED <<rowKey, applied>>
    PROVE  Contract!Next
<1>0. PICK k \in Keys : k = rowKey[i]
  BY DEF IInv, RowInv
<1>1. Rows' = Rows /\ \A j \in Rows : status'[j] = IF j = i THEN s ELSE status[j]
  BY DEF IInv, TypeOK, Rows, Status, Terminal
<1>2. Accepted' = Accepted
  BY <1>1 DEF Accepted
<1>3. Succeeded' = Succeeded \ {rowKey[i]}
  <2>1. \A j \in Rows : j # i => rowKey[j] # rowKey[i]
    BY DEF IInv, OneRowPerKey
  <2>2. QED
    BY <1>1, <2>1 DEF Succeeded
<1>4. Contract!Retract(k)
  BY <1>0, <1>2, <1>3 DEF Contract!Retract, Accepted, Succeeded
<1>5. QED
  BY <1>4 DEF Contract!Next

(* The handler of a dispatched command takes effect.                       *)
LEMMA ContractApplies ==
    ASSUME IInv, NEW w \in Workers, worker[w].pc = "dispatching",
           applied' = [applied EXCEPT ![KeyOf(w)] = @ + 1], UNCHANGED <<status, rowKey>>
    PROVE  Contract!Next
<1>1. PICK k \in Keys : k = KeyOf(w)
  BY DEF IInv, WorkerInv, RowInv, KeyOf
<1>2. applied[k] = 0 /\ worker[w].id \in Rows
  BY <1>1 DEF IInv, EffectInv, WorkerInv
<1>3. applied' = [applied EXCEPT ![k] = 1]
  BY <1>1, <1>2
<1>4. UNCHANGED <<Accepted, Succeeded>>
  BY DEF Accepted, Succeeded, Rows
<1>5. k \in Accepted
  BY <1>1, <1>2 DEF Accepted, KeyOf
<1>6. Contract!Apply(k)
  BY <1>2, <1>3, <1>4, <1>5 DEF Contract!Apply, Accepted, Succeeded
<1>7. QED
  BY <1>6 DEF Contract!Next

LEMMA ContractStep == ASSUME IInv, [Next]_vars PROVE [Contract!Next]_(Contract!vars)
<1>1. CASE UNCHANGED <<status, rowKey, applied>>
  BY <1>1, ContractStutters
<1>2. ASSUME NEW c \in Clients, SubmitCommit(c) PROVE Contract!Next
  <2>0. PICK i \in Ids, k \in Keys : i = client[c].id /\ k = client[c].key
    BY <1>2 DEF IInv, ClientInv, SubmitCommit
  <2>1. i \notin Rows /\ k \notin Accepted
    BY <1>2, <2>0 DEF IInv, ClientInv, SubmitCommit, Accepted
  <2>2. status' = [status EXCEPT ![i] = "queued"] /\ rowKey' = [rowKey EXCEPT ![i] = k]
        /\ applied' = applied
    BY <1>2, <2>0 DEF SubmitCommit
  <2>3. Rows' = Rows \cup {i} /\ rowKey'[i] = k /\ status'[i] = "queued"
        /\ \A j \in Rows : rowKey'[j] = rowKey[j] /\ status'[j] = status[j]
    BY <2>1, <2>2 DEF IInv, TypeOK, Rows
  <2>4. Accepted' = Accepted \cup {k}
    BY <2>3 DEF Accepted
  <2>5. Succeeded' = Succeeded
    BY <2>1, <2>3 DEF Succeeded
  <2>6. Contract!Accept(k)
    BY <2>1, <2>2, <2>4, <2>5 DEF Contract!Accept, Accepted, Succeeded
  <2>7. QED
    BY <2>6 DEF Contract!Next
<1>3. ASSUME NEW c \in Clients, CancelWrite(c) PROVE Contract!Next
  <2>1. PICK i \in Rows : i = client[c].id
    BY <1>3 DEF IInv, ClientInv, CancelWrite
  <2>2. status' = [status EXCEPT ![i] = "cancelled"] /\ UNCHANGED <<rowKey, applied>>
    BY <1>3, <2>1 DEF CancelWrite
  <2>3. "cancelled" \in Status \ {"succeeded"}
    BY DEF Status, Terminal
  <2>4. QED
    BY <2>2, <2>3, ContractRetracts
<1>4. ASSUME NEW w \in Workers, ClaimCommit(w) PROVE Contract!Next
  <2>1. PICK i \in Rows : i = worker[w].id
    BY <1>4 DEF IInv, WorkerInv, ClaimCommit
  <2>2. status' = [status EXCEPT ![i] = "running"] /\ UNCHANGED <<rowKey, applied>>
    BY <1>4, <2>1 DEF ClaimCommit
  <2>3. "running" \in Status \ {"succeeded"}
    BY DEF Status, Terminal
  <2>4. QED
    BY <2>2, <2>3, ContractRetracts
<1>5. ASSUME NEW w \in Workers, HandlerSucceeds(w) \/ HandlerOutcomeLost(w)
      PROVE  Contract!Next
  BY <1>5, ContractApplies DEF HandlerSucceeds, HandlerOutcomeLost, tableVars
<1>6. ASSUME NEW w \in Workers, Complete(w) PROVE Contract!Next
  <2>1. PICK i \in Rows, k \in Keys : i = worker[w].id /\ k = rowKey[i]
    BY <1>6 DEF IInv, WorkerInv, RowInv, Complete
  <2>2. worker[w].outcome \in {"succeeded", "failed"}
    BY <1>6 DEF IInv, WorkerInv, Complete
  <2>3. status' = [status EXCEPT ![i] = worker[w].outcome] /\ UNCHANGED <<rowKey, applied>>
    BY <1>6, <2>1 DEF Complete
  <2>4. CASE worker[w].outcome = "failed"
    <3>1. "failed" \in Status \ {"succeeded"}
      BY DEF Status, Terminal
    <3>2. QED
      BY <2>3, <2>4, <3>1, ContractRetracts
  <2>5. CASE worker[w].outcome = "succeeded"
    <3>1. applied[k] = 1
      BY <1>6, <2>1, <2>5 DEF IInv, EffectInv, Complete, KeyOf
    <3>2. Rows' = Rows
          /\ \A j \in Rows : status'[j] = IF j = i THEN "succeeded" ELSE status[j]
      BY <2>3, <2>5 DEF IInv, TypeOK, Rows
    <3>3. Accepted' = Accepted /\ Succeeded' = Succeeded \cup {k}
      BY <2>1, <2>3, <3>2 DEF Accepted, Succeeded
    <3>4. Contract!Report(k)
      BY <2>3, <3>1, <3>3 DEF Contract!Report, Accepted, Succeeded
    <3>5. QED
      BY <3>4 DEF Contract!Next
  <2>6. QED
    BY <2>2, <2>4, <2>5
<1>7. ASSUME NEW c \in Clients, ClientStep(c) PROVE [Contract!Next]_(Contract!vars)
  BY <1>1, <1>2, <1>3, <1>7
     DEF ClientStep, SubmitFound, SubmitLookup, SubmitInsert, CancelCheck,
         SubmitConflict, ClientFails, tableVars
<1>8. ASSUME NEW w \in Workers, WorkerStep(w) \/ WorkerStops(w)
      PROVE  [Contract!Next]_(Contract!vars)
  BY <1>1, <1>4, <1>5, <1>6, <1>8
     DEF WorkerStep, Claim, DispatchUnknown, HandlerFails, WorkerStops, tableVars
<1>9. QED
  BY <1>1, <1>7, <1>8 DEF Next, vars

(* The queue implements the contract of the durable command model: each of *)
(* its steps accepts, applies, reports or takes back one command, or shows *)
(* the contract nothing.                                                   *)
THEOREM QueueImplementsContract == Spec => ContractSpec
<1>1. Init => Contract!Init
  BY DEF Init, Contract!Init, Rows
<1>2. QED
  BY InitInv, StepInv, <1>1, ContractStep, PTL DEF Spec, ContractSpec, Contract!Spec
=============================================================================
