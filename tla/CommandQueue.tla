----------------------------- MODULE CommandQueue -----------------------------
(***************************************************************************)
(* The durable command queue: the table ops.command, the API processes     *)
(* that submit and cancel commands, and the workers that claim, dispatch   *)
(* and complete them.                                                      *)
(*                                                                         *)
(*   submit    transport/commands.py  post_command                         *)
(*             application/commands   submit_command                       *)
(*   cancel    transport/commands.py  cancel_command                       *)
(*   worker    application/cli.py     worker / _claim                      *)
(*   dispatch  application/commands   dispatch                             *)
(*   table     adapters/postgres/operational_store.py                      *)
(*                                                                         *)
(* Every unit of work is a PostgreSQL READ COMMITTED transaction.  A       *)
(* transaction that others can see half-done (the insert of a submission,  *)
(* which holds the unique index entry, and the claim, which holds a row    *)
(* lock) has one action per step; a transaction of a single statement is   *)
(* one action.  A handler runs in a transaction of its own, between the    *)
(* claim and the completion.                                               *)
(***************************************************************************)
EXTENDS Naturals, FiniteSets

CONSTANTS
    Keys,           \* idempotency triples (actor_id, type, idempotency_key)
    HandledKeys,    \* those whose type is in HANDLERS
    AmbiguousKeys,  \* those whose effect may survive an exception: the lake
                    \* handlers (an HTTP call) and a commit whose reply is lost
    Ids,            \* command ids that uuid4() can return
    Clients,        \* API requests in progress
    Workers,        \* worker processes
    MaxClock,       \* bound on distinct values of requested_at
    MaxStops,       \* bound on worker crashes and database errors
    None

ASSUME CommandQueueAssumption ==
    /\ HandledKeys \subseteq Keys
    /\ AmbiguousKeys \subseteq HandledKeys
    /\ None \notin Keys \cup Ids
    /\ MaxClock \in Nat
    /\ MaxStops \in Nat

VARIABLES
    status,     \* ops.command.status of the committed rows, "absent" if no row
    rowKey,     \* the idempotency triple of each committed row
    stamp,      \* ops.command.requested_at
    clock,      \* the clock of the API processes
    client,     \* where each API request is in its unit of work
    worker,     \* where each worker is, with the command it holds
    applied,    \* committed handler transactions (or lake calls) of each key
    stops,      \* worker crashes and errors so far
    answered,   \* history: <<key, id>> pairs returned to callers
    cancelledEarly  \* history: ids whose cancel was written while queued

vars == <<status, rowKey, stamp, clock, client, worker, applied, stops,
          answered, cancelledEarly>>

tableVars == <<status, rowKey, stamp>>
historyVars == <<answered, cancelledEarly>>

Terminal == {"succeeded", "failed", "cancelled"}
Status == {"queued", "running"} \cup Terminal

ClientState == [pc : {"idle", "checked", "inserted", "cancelling"},
                key : Keys \cup {None}, id : Ids \cup {None}, at : Nat]

WorkerState == [pc : {"idle", "claiming", "dispatching", "handled"},
                id : Ids \cup {None}, outcome : {"none", "succeeded", "failed"}]

IdleClient == [pc |-> "idle", key |-> None, id |-> None, at |-> 0]
IdleWorker == [pc |-> "idle", id |-> None, outcome |-> "none"]

TypeOK ==
    /\ status \in [Ids -> Status \cup {"absent"}]
    /\ rowKey \in [Ids -> Keys \cup {None}]
    /\ stamp \in [Ids -> Nat]
    /\ clock \in Nat
    /\ client \in [Clients -> ClientState]
    /\ worker \in [Workers -> WorkerState]
    /\ applied \in [Keys -> Nat]
    /\ stops \in Nat
    /\ answered \subseteq Keys \X Ids
    /\ cancelledEarly \subseteq Ids

Init ==
    /\ status = [i \in Ids |-> "absent"]
    /\ rowKey = [i \in Ids |-> None]
    /\ stamp = [i \in Ids |-> 0]
    /\ clock = 0
    /\ client = [c \in Clients |-> IdleClient]
    /\ worker = [w \in Workers |-> IdleWorker]
    /\ applied = [k \in Keys |-> 0]
    /\ stops = 0
    /\ answered = {}
    /\ cancelledEarly = {}

-----------------------------------------------------------------------------
(* The table *)

Rows == {i \in Ids : status[i] # "absent"}

RowsOf(k) == {i \in Rows : rowKey[i] = k}

(* A command id no row and no uncommitted insert uses.                     *)
Fresh(i) ==
    /\ i \notin Rows
    /\ \A d \in Clients : client[d].pc = "inserted" => client[d].id # i

(* The unique index on (actor_id, type, idempotency_key): an insert waits  *)
(* for an uncommitted one with the same key.                               *)
KeyHeldByOther(c, k) ==
    \E d \in Clients \ {c} : client[d].pc = "inserted" /\ client[d].key = k

(* The row lock of a claim that has not committed.                         *)
Locked(i) == \E w \in Workers : worker[w].pc = "claiming" /\ worker[w].id = i

(* Mutant: a recovery that also claims rows left running.                  *)
ClaimableRetriesRunning ==
    {i \in Rows : status[i] \in {"queued", "running"} /\ ~Locked(i)}

(* Mutant: FOR UPDATE without the row lock.                                *)
ClaimableIgnoresLocks == {i \in Rows : status[i] = "queued"}

Claimable == {i \in Rows : status[i] = "queued" /\ ~Locked(i)}

-----------------------------------------------------------------------------
(* Submission: POST /v1/commands *)

(* The look-up by idempotency key finds a row: its id is the answer,       *)
(* whatever the new request's payload is.                                  *)
SubmitFound(c, k) ==
    /\ client[c].pc = "idle"
    /\ \E i \in RowsOf(k) : answered' = answered \cup {<<k, i>>}
    /\ UNCHANGED <<tableVars, clock, client, worker, applied, stops, cancelledEarly>>

SubmitLookup(c, k) ==
    /\ client[c].pc = "idle"
    /\ RowsOf(k) = {}
    /\ client' = [client EXCEPT ![c] = [IdleClient EXCEPT !.pc = "checked", !.key = k]]
    /\ UNCHANGED <<tableVars, clock, worker, applied, stops, historyVars>>

(* Mutant: no unique index.                                                *)
SubmitInsertUnchecked(c, i) ==
    /\ client[c].pc = "checked"
    /\ Fresh(i)
    /\ client' = [client EXCEPT ![c] =
                    [pc |-> "inserted", key |-> client[c].key, id |-> i, at |-> clock]]
    /\ clock' \in {clock, clock + 1} \cap 0..MaxClock
    /\ UNCHANGED <<tableVars, worker, applied, stops, historyVars>>

(* Mutant: the caller is answered before the transaction commits.          *)
SubmitInsertAnswersEarly(c, i) ==
    /\ client[c].pc = "checked"
    /\ Fresh(i)
    /\ ~KeyHeldByOther(c, client[c].key)
    /\ RowsOf(client[c].key) = {}
    /\ client' = [client EXCEPT ![c] =
                    [pc |-> "inserted", key |-> client[c].key, id |-> i, at |-> clock]]
    /\ clock' \in {clock, clock + 1} \cap 0..MaxClock
    /\ answered' = answered \cup {<<client[c].key, i>>}
    /\ UNCHANGED <<tableVars, worker, applied, stops, cancelledEarly>>

(* INSERT, audit event and UPDATE to "queued", all uncommitted.  Two       *)
(* requests may read the same requested_at.                                *)
SubmitInsert(c, i) ==
    /\ client[c].pc = "checked"
    /\ Fresh(i)
    /\ ~KeyHeldByOther(c, client[c].key)
    /\ RowsOf(client[c].key) = {}
    /\ client' = [client EXCEPT ![c] =
                    [pc |-> "inserted", key |-> client[c].key, id |-> i, at |-> clock]]
    /\ clock' \in {clock, clock + 1} \cap 0..MaxClock
    /\ UNCHANGED <<tableVars, worker, applied, stops, historyVars>>

(* The insert violates the unique index: roll back, read again, answer     *)
(* with the command that won.                                              *)
SubmitConflict(c) ==
    /\ client[c].pc = "checked"
    /\ \E i \in RowsOf(client[c].key) :
          answered' = answered \cup {<<client[c].key, i>>}
    /\ client' = [client EXCEPT ![c] = IdleClient]
    /\ UNCHANGED <<tableVars, clock, worker, applied, stops, cancelledEarly>>

(* Mutant: queue_command is forgotten.                                     *)
SubmitCommitUnqueued(c) ==
    /\ client[c].pc = "inserted"
    /\ status' = [status EXCEPT ![client[c].id] = "requested"]
    /\ rowKey' = [rowKey EXCEPT ![client[c].id] = client[c].key]
    /\ stamp' = [stamp EXCEPT ![client[c].id] = client[c].at]
    /\ answered' = answered \cup {<<client[c].key, client[c].id>>}
    /\ client' = [client EXCEPT ![c] = IdleClient]
    /\ UNCHANGED <<clock, worker, applied, stops, cancelledEarly>>

SubmitCommit(c) ==
    /\ client[c].pc = "inserted"
    /\ status' = [status EXCEPT ![client[c].id] = "queued"]
    /\ rowKey' = [rowKey EXCEPT ![client[c].id] = client[c].key]
    /\ stamp' = [stamp EXCEPT ![client[c].id] = client[c].at]
    /\ answered' = answered \cup {<<client[c].key, client[c].id>>}
    /\ client' = [client EXCEPT ![c] = IdleClient]
    /\ UNCHANGED <<clock, worker, applied, stops, cancelledEarly>>

(* The request dies, or an integrity error that is not a duplicate (an     *)
(* unknown book_id) is raised to the caller: the transaction rolls back.   *)
ClientFails(c) ==
    /\ client[c].pc # "idle"
    /\ client' = [client EXCEPT ![c] = IdleClient]
    /\ UNCHANGED <<tableVars, clock, worker, applied, stops, historyVars>>

-----------------------------------------------------------------------------
(* Cancellation: POST /v1/commands/{id}/cancel *)

(* The status check reads the committed row.  An unknown id (404) and a    *)
(* command in any other status (409) change nothing.                       *)
CancelCheck(c, i) ==
    /\ client[c].pc = "idle"
    /\ status[i] \in {"queued", "running"}
    /\ client' = [client EXCEPT ![c] = [IdleClient EXCEPT !.pc = "cancelling", !.id = i]]
    /\ UNCHANGED <<tableVars, clock, worker, applied, stops, historyVars>>

(* Mutant: the cancel does not wait for the claim's row lock.              *)
CancelWriteUnlocked(c) ==
    LET i == client[c].id IN
    /\ client[c].pc = "cancelling"
    /\ status' = [status EXCEPT ![i] = "cancelled"]
    /\ cancelledEarly' = IF status[i] = "queued"
                           THEN cancelledEarly \cup {i} ELSE cancelledEarly
    /\ client' = [client EXCEPT ![c] = IdleClient]
    /\ UNCHANGED <<rowKey, stamp, clock, worker, applied, stops, answered>>

(* complete_command has no condition on the status it overwrites; it waits *)
(* only for the row lock.                                                  *)
CancelWrite(c) ==
    LET i == client[c].id IN
    /\ client[c].pc = "cancelling"
    /\ ~Locked(i)
    /\ status' = [status EXCEPT ![i] = "cancelled"]
    /\ cancelledEarly' = IF status[i] = "queued"
                           THEN cancelledEarly \cup {i} ELSE cancelledEarly
    /\ client' = [client EXCEPT ![c] = IdleClient]
    /\ UNCHANGED <<rowKey, stamp, clock, worker, applied, stops, answered>>

-----------------------------------------------------------------------------
(* The worker loop *)

(* SELECT ... WHERE status = 'queued' ORDER BY requested_at LIMIT 1        *)
(* FOR UPDATE SKIP LOCKED.                                                 *)
Claim(w, i) ==
    /\ worker[w].pc = "idle"
    /\ i \in Claimable
    /\ \A j \in Claimable : stamp[i] <= stamp[j]
    /\ worker' = [worker EXCEPT ![w] = [IdleWorker EXCEPT !.pc = "claiming", !.id = i]]
    /\ UNCHANGED <<tableVars, clock, client, applied, stops, historyVars>>

ClaimCommit(w) ==
    /\ worker[w].pc = "claiming"
    /\ status' = [status EXCEPT ![worker[w].id] = "running"]
    /\ worker' = [worker EXCEPT ![w].pc = "dispatching"]
    /\ UNCHANGED <<rowKey, stamp, clock, client, applied, stops, historyVars>>

(* The handler is over: the worker goes on to complete the command.        *)
Handled(w, outcome) ==
    worker' = [worker EXCEPT ![w] = [pc |-> "handled", id |-> @.id, outcome |-> outcome]]

KeyOf(w) == rowKey[worker[w].id]

(* HANDLERS has no entry for the type.                                     *)
DispatchUnknown(w) ==
    /\ worker[w].pc = "dispatching"
    /\ KeyOf(w) \notin HandledKeys
    /\ Handled(w, "failed")
    /\ UNCHANGED <<tableVars, clock, client, applied, stops, historyVars>>

(* The handler's transaction commits and it returns SUCCEEDED.             *)
HandlerSucceeds(w) ==
    /\ worker[w].pc = "dispatching"
    /\ KeyOf(w) \in HandledKeys
    /\ applied' = [applied EXCEPT ![KeyOf(w)] = @ + 1]
    /\ Handled(w, "succeeded")
    /\ UNCHANGED <<tableVars, clock, client, stops, historyVars>>

(* Mutant: dispatch swallows the exception.                                *)
HandlerFailsSilently(w) ==
    /\ worker[w].pc = "dispatching"
    /\ KeyOf(w) \in HandledKeys
    /\ Handled(w, "succeeded")
    /\ UNCHANGED <<tableVars, clock, client, applied, stops, historyVars>>

(* Mutant: the unit of work commits although the handler raised.           *)
HandlerFailsWithoutRollback(w) ==
    /\ worker[w].pc = "dispatching"
    /\ KeyOf(w) \in HandledKeys
    /\ applied' = [applied EXCEPT ![KeyOf(w)] = @ + 1]
    /\ Handled(w, "failed")
    /\ UNCHANGED <<tableVars, clock, client, stops, historyVars>>

(* Mutant: the exception escapes dispatch, so that no row is completed.    *)
HandlerFailsUncaught(w) ==
    /\ worker[w].pc = "dispatching"
    /\ KeyOf(w) \in HandledKeys
    /\ worker' = [worker EXCEPT ![w] = IdleWorker]
    /\ UNCHANGED <<tableVars, clock, client, applied, stops, historyVars>>

(* The handler returns FAILED having written nothing, or raises and its    *)
(* transaction is rolled back (HANDLER_ERROR).                             *)
HandlerFails(w) ==
    /\ worker[w].pc = "dispatching"
    /\ KeyOf(w) \in HandledKeys
    /\ Handled(w, "failed")
    /\ UNCHANGED <<tableVars, clock, client, applied, stops, historyVars>>

(* The call raises although it took effect: a lake request that times out  *)
(* after it was served, a COMMIT whose acknowledgement is lost.            *)
HandlerOutcomeLost(w) ==
    /\ worker[w].pc = "dispatching"
    /\ KeyOf(w) \in AmbiguousKeys
    /\ applied' = [applied EXCEPT ![KeyOf(w)] = @ + 1]
    /\ Handled(w, "failed")
    /\ UNCHANGED <<tableVars, clock, client, stops, historyVars>>

(* Mutant: every handled command is reported as succeeded.                 *)
CompleteAlwaysSucceeded(w) ==
    /\ worker[w].pc = "handled"
    /\ status' = [status EXCEPT ![worker[w].id] = "succeeded"]
    /\ worker' = [worker EXCEPT ![w] = IdleWorker]
    /\ UNCHANGED <<rowKey, stamp, clock, client, applied, stops, historyVars>>

(* complete_command: the row takes the outcome, whatever its status is.    *)
Complete(w) ==
    /\ worker[w].pc = "handled"
    /\ status' = [status EXCEPT ![worker[w].id] = worker[w].outcome]
    /\ worker' = [worker EXCEPT ![w] = IdleWorker]
    /\ UNCHANGED <<rowKey, stamp, clock, client, applied, stops, historyVars>>

(* The worker is killed and restarted, or a database error outside the     *)
(* handler reaches the loop ("worker_error"): its transaction is rolled    *)
(* back and it polls again.  Nothing returns to a command it left running. *)
WorkerStops(w) ==
    /\ stops < MaxStops
    /\ worker[w].pc # "idle"
    /\ worker' = [worker EXCEPT ![w] = IdleWorker]
    /\ stops' = stops + 1
    /\ UNCHANGED <<tableVars, clock, client, applied, historyVars>>

-----------------------------------------------------------------------------

ClientStep(c) ==
    \/ \E k \in Keys : SubmitFound(c, k) \/ SubmitLookup(c, k)
    \/ \E i \in Ids : SubmitInsert(c, i) \/ CancelCheck(c, i)
    \/ SubmitConflict(c) \/ SubmitCommit(c) \/ ClientFails(c) \/ CancelWrite(c)

WorkerStep(w) ==
    \/ \E i \in Ids : Claim(w, i)
    \/ ClaimCommit(w)
    \/ DispatchUnknown(w) \/ HandlerSucceeds(w) \/ HandlerFails(w)
    \/ HandlerOutcomeLost(w)
    \/ Complete(w)

Next ==
    \/ \E c \in Clients : ClientStep(c)
    \/ \E w \in Workers : WorkerStep(w) \/ WorkerStops(w)

Spec == Init /\ [][Next]_vars

(* The worker polls forever, sleeping at most poll_interval: it never      *)
(* stays for ever where it can take a step.  Nothing makes clients act.    *)
FairSpec == Spec /\ \A w \in Workers : WF_vars(WorkerStep(w))

-----------------------------------------------------------------------------
(* Safety *)

(* A retry, a double click or two racing submissions with the same key     *)
(* leave one command: submit_command reads before it inserts, and the      *)
(* unique index decides between two inserts that both read nothing.        *)
OneRowPerKey == \A i, j \in Rows : rowKey[i] = rowKey[j] => i = j

(* The id a caller is given is the id of a committed command with that     *)
(* key: no caller polls a command that was rolled back.                    *)
AnswersNameTheRow ==
    \A a \in answered : a[2] \in Rows /\ rowKey[a[2]] = a[1]

(* However submissions, claims, cancels, crashes and restarts interleave,  *)
(* a handler takes effect at most once for each key (docs/adr/0043:17,     *)
(* "safe to retry without duplicate effects").                             *)
AtMostOnceEffect == \A k \in Keys : applied[k] <= 1

(* Two workers never hold the same command, also when the first one's      *)
(* claim is still uncommitted (FOR UPDATE SKIP LOCKED).                    *)
SingleOwner ==
    \A w, v \in Workers :
        w # v /\ worker[w].pc # "idle" /\ worker[v].pc # "idle"
            => worker[w].id # worker[v].id

(* A command shown as succeeded has taken effect, whatever late cancels    *)
(* and completions were written over each other.                           *)
SucceededMeansApplied ==
    \A i \in Rows : status[i] = "succeeded" => applied[rowKey[i]] = 1

(* A command shown as failed left nothing behind, so that the operator may *)
(* submit it again under a new key; not so for the handlers whose effect   *)
(* can outlive their exception.                                            *)
FailedMeansNotApplied ==
    \A i \in Rows :
        status[i] = "failed" /\ rowKey[i] \notin AmbiguousKeys
            => applied[rowKey[i]] = 0

(* A cancel written while the command was still queued is final: no worker *)
(* takes the command up and its handler never runs.                        *)
EarlyCancelIsFinal ==
    \A i \in cancelledEarly :
        /\ status[i] = "cancelled"
        /\ applied[rowKey[i]] = 0
        /\ \A w \in Workers : worker[w].id # i

-----------------------------------------------------------------------------
(* Liveness *)

(* Every queued command reaches a terminal status.                         *)
EveryCommandFinishes ==
    \A i \in Ids : (status[i] = "queued") ~> (status[i] \in Terminal)

-----------------------------------------------------------------------------
(* Refinement: accepted is the set of keys that have a row, and a key      *)
(* shows success when its row does.                                        *)
Contract == INSTANCE CommandContract WITH
                accepted <- {rowKey[i] : i \in Rows},
                succeeded <- {rowKey[i] : i \in {j \in Rows : status[j] = "succeeded"}}

(* Every step of the queue is one step of the contract or leaves it alone. *)
ContractSpec == Contract!Spec
=============================================================================
