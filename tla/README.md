# Alpha-Quant: TLA+ models, model checking and proofs

Alpha-Quant is a single-operator paper-trading system. A console posts
*commands* to an HTTP API; the API stores them in PostgreSQL; a worker process
claims them one by one and runs a *handler* in a database transaction. Handlers
run the daily decision cycle (facts, scorecards, portfolio mark), book fills and
rebuild the portfolio's read model, halt and resume a book, and call the
external Alpha-Lake service.

This directory models what is concurrent, transactional or order-dependent in that
system: the command queue, the book's projections, the halt, the decision run with
the explanations an LLM writes for it, and the desk at which the runs and the
operator's trades meet; the in-memory store the tests use in place of the
database; and the rules, scorecards, risk limits and the sizes of trades, whose
advice it stores and shows. TLC checks the models on small instances; TLAPS proves
every safety and action property that the passing runs check, and the refinements,
for every instance. Liveness is only model-checked (section 5). Paths below are
relative to the repository; `commands` is
`src/alpha_quant/application/commands/__init__.py`, `store` is
`src/alpha_quant/adapters/postgres/operational_store.py`, `daily_cycle` is
`src/alpha_quant/application/daily_cycle.py`.

Contents

1. Inventory of the system
2. How the code is modelled
3. The modules
4. The runs
5. The proofs
6. Where the code and its documents disagree
7. Known behaviour that no property is claimed about
8. What is not modelled
9. Plan

## 1. Inventory of the system

| component | state it keeps | operations | interacts with | what is hard | what makes it correct |
|---|---|---|---|---|---|
| Command submission and cancellation (`transport/commands.py`, `commands` `submit_command`) | rows of `ops.command`, unique on (actor, type, idempotency key) | submit, look up, cancel | worker, through the table | two requests with one key; a retry of a request whose answer was lost; a cancel that races a claim | one command per key; an answer names a committed command; an early cancel is final |
| Worker (`application/cli.py` `worker`, `_claim`; `commands` `dispatch`) | status of a command | claim (`FOR UPDATE SKIP LOCKED`), dispatch, complete | the handlers, the table | several workers; death between claim and completion; a handler that raises half-way; an effect that outlives its exception | one owner; at most one effect per key; the status shown is what happened; every command ends |
| Unit of work (`adapters/postgres/unit_of_work.py`) | one connection | begin, commit, roll back on an exception | everything that writes | an exception after some of the writes | a failed command leaves nothing behind |
| Book projections (`store` `book_fill`, `rebuild_projections`) | fills, cash ledger, `position_current`, `portfolio_current` | book a fill, rebuild, set a stop | trade handlers, decision run | two rebuilds under READ COMMITTED; lock waits that skip rows; deadlock; stale quantities; columns that a rebuild drops | the read model is the ledger and the fills; closing closes; every transaction ends |
| Order lifecycle (`commands` submit/cancel/approve/modify/flatten; the sizes in `transport/console_routes.py` and `application/query_services.py`) | orders, fills | order.submit, order.cancel, candidate.approve, candidate.modify, position.flatten, sizing preview | projections, halt, decision run (it makes the references an order needs) | an order that is filled and still pending; truncated fill keys; a size computed in three places; checks on one price and a fill on another | what is reported is stored; only what a run discovered is traded; trading alone neither wins nor loses; what the preview promises is kept |
| Halt control (`store` `set_halt`, `clear_halt`, `current_halt`) | `ops.current_halt`, `audit.halt_transition` | halt.create, halt.resume; looked at by decision.run and candidate.modify | decision run, trades | halt and resume at once; the halt changes after it was looked at; the row stays after a resume | halt and audit trail agree; a halt stops what it is said to stop |
| Decision run (`daily_cycle` inside `run_decision_handler`) | `run.decision_run`, scorecards, `trade.portfolio_mark`, `core.security_reference` | reserve, start, skip, fetch, score, mark, rebuild, complete | Alpha-Lake, halt, projections | two kinds of error (caught, and aborted transaction); two runs on one day; references inserted by two transactions | what is reported is what was committed; a mark follows complete scoring; every run reports |
| Scorecard engine (`application/scorecards.py`) | none | facts and portfolio to components, total, recommendation | decision run | thresholds, missing facts, regime caps | total in range; gates win over the score |
| Risk engine (`application/risk/`) | none (pure); `risk_policy` is a row | VaR and factor statistics, limits, events, decisions, posture | queries, daily cycle | boundaries, zero caps | each breach has its decision; posture is not ready in breach |
| Explanations (`application/explanation.py`, `prompts.py`) | `run.advice_artifact` | LLM call with a retry and a fallback, validation, storing, staleness | decision run, when it is given an LLM | time-outs, malformed answers, an answer the driver or the table refuses, inside a transaction that goes on or does not | what a stored scorecard lacks was logged; a fallback says what the scorecard says |
| In-memory store (`adapters/fake/`) | lists and dictionaries | the port the database implements | the unit tests, the golden replay | it has no foreign keys, statuses or prices | a replay against it shows what the database does |
| Seeds and import (`dev_seed.py`, `import_legacy_duckdb.py`) | the book they leave | run once, on an empty database | decision run, trades | a projection that does not agree with the fills; ids of another kind | the desk keeps its promises in a book begun this way too |
| Alpha-Lake adapter, rest of the HTTP transport, console, queries, configuration, alerts, migrations | none of their own, or files | reads, rendering, start-up | all | see section 8 | |

The interactions that matter are through the database. The API, one or more
workers and the command-line tools are separate processes; `compose.yaml` starts
one worker with `restart: unless-stopped`, and `FOR UPDATE SKIP LOCKED` is there
so that several can run. All of them use psycopg connections at PostgreSQL's
default isolation level, READ COMMITTED, so that a transaction sees other
transactions' commits between its own statements. This is where tests do not
reach: the unit tests run one connection at a time.

Each hazard found in the code, with its line and the properties that would catch
it going wrong, is listed in `PROJECT.json` under `hazards`.

## 2. How the code is modelled

*Transactions.* A unit of work is a PostgreSQL READ COMMITTED transaction. Where
other transactions can notice that it is half done, by waiting for its row lock
or its unique index entry, or by committing between two of its statements, each
statement is an action; otherwise the transaction is one action. A statement
sees the rows committed when it starts and its own transaction's writes. A
`DELETE` or `UPDATE` that meets a row another transaction has changed waits; a
`DELETE` that waited for a deleted row skips it, and does not see a row inserted
in the meantime. An `INSERT` on a key that an uncommitted transaction holds
waits, and then fails with a duplicate key or, with `ON CONFLICT`, does what it
says. In a circle of waiting transactions one is aborted. The uncommitted writes
of a transaction are fields of its record in `tx` (or `client`, `worker`), and
`Commit` moves them into the tables.

*Errors.* An exception in a handler, a dead worker and a lost connection are
actions that roll the transaction back. Where the code catches the exception
and commits (`DailyCycleService.run`), the model has both cases.

*Data.* Keys, symbols, days, ids and halts are model values. In BookProjection
prices are 1, so that a position's value is its quantity; TradeBook has prices in
whole dollars and Sizing in cents, the unit a stop is rounded to. Amounts keep
their sign and are summed as the code sums them. Of an explanation what is kept is
its validation status, whether its confidence label is a legal one, whether the
driver can send its texts, whose recommendation it gives and whether it is stale.
Average costs, payloads and wording are left out.

*History variables.* `answered`, `cancelledEarly` (CommandQueue) and `blindClear`
(HaltControl) record what happened for the properties; no guard reads them. In
TradeBook `opening.known` does the same; `opening.foreign` stands for the ids in
`core.security_reference` that the import made up, and `Orderable` reads it.

## 3. The modules

| module | models | state and actions |
|---|---|---|
| `CommandContract` | what ADR 0043 and 0048 promise the operator, without tables or processes | `accepted`, `applied`, `succeeded` per idempotency key; Accept, Apply, Report, Retract |
| `CommandQueue` | `ops.command`, the API's submit and cancel, the worker's claim, dispatch and completion | `status`, `rowKey`, `stamp` are columns of the table; `client` and `worker` are the program counters of requests and workers; `applied` counts the committed handler transactions of a key; one action per statement of a submission and a claim, a handler is a success, a failure or a lost outcome, `WorkerStops` is a death at any step |
| `BookProjection` | `book_fill`, `rebuild_projections` and the handlers that use them, `position.set_stop` | `net` and `ledger` are the committed fills and cash entries, `pos`, `stop` and `portfolio` the read model; `tx` has, per worker, the rows its DELETEs saw, deleted and inserted; one action per statement |
| `AtomicBook` | what REFERENCE_ARCHITECTURE.md and ADR 0038 promise whoever trades on a book, without transactions, statements or prices | `net`, `ledger` (the fills, the cash they left), `pos`, `cash` (what is shown); Trade and Rebuild |
| `HaltControl` | `set_halt`, `clear_halt` and each handler that looks at the halt, or does not | `haltRow` is `current_halt`, `transition` the audit trail; one action per statement |
| `DecisionRun` | every path of `DailyCycleService.run` inside `run_decision_handler` | `row`, `mark`, `reference` are the tables, `result` what the command shows, `tx` the transactions |
| `AdviceRun` | the same run when its service has an LLM: DecisionRun with `application/explanation.py` between its statements | `advice` is `run.advice_artifact`, `draft` what each worker is having explained, `logged` the symbols with an `explanation_generation_failed`; ScoreAndExplain and InsertAndExplain begin, Explain, AskAgain and FallBack ask, SaveBatch stores, RaiseExplaining and RefuseText break off one symbol, RejectBatch, AbandonAdvice and DeadlockAdvice the transaction, CommitAdvice ends it |
| `TradeBook` | the desk: decision runs and every order command on one book, which began empty, seeded or imported | DecisionRun's variables, and `order`, `fill`, `held`, `price`, `ledger` (the tables), `shown` (the read model), `haltRow`, `outcome` (what a command reports), `universe` (what a run set out to score); one action per order command, with `BookFill`, `CreateOrder` and the rebuild inside |
| `FakeStore` | `adapters/fake/operational_store.py`: fills, cash, positions, halts | `taken`, `net`, `last`, `total`, `cache`, `halt`; Trade, Rebuild, SetHalt, ClearHalt |
| `Scorecards` | `application/scorecards.py`: the thirteen scorers, the gates, the weighted total with a policy's weights, the recommendation | operators over facts and portfolios, no state |
| `RiskLimits` | `check_limits`, `generate_events`, `decide`, `derive_posture` as `RiskEngine.run` chains them | operators over the measures of a book and its policy, no state |
| `Sizing` | `compute_sizing`, `evaluate_guardrails`, today's sizes, and the arithmetic of candidate.modify, which is another copy of it | operators over equity, price, stop method and risk, no state |
| `DecisionRules` | calls of the three | `evaluation` is one call with its inputs and result; ScoreSymbol, ReviewBook and PreviewTrade make one, TurnRegime and TightenPolicy call the same engine again under another regime or a tighter policy, ModifyTrade sends candidate.modify after a preview, for any quantity, at the stop shown, at another or without one, and after the equity has changed; ReopenTicket previews again |
| `MC...` | instances for TLC | model values, inputs, symmetry |
| `...Proofs` | theorems | see section 5 |
| `SumsAndMaxima` | lemmas about sums over finite sets and largest elements, for the other proofs | no state |

`PROJECT.json` maps every definition to its lines.

**How they compose.** CommandQueue guarantees that a handler takes effect at
most once per key and abstracts the effect to a counter; BookProjection,
HaltControl and DecisionRun open one handler each and take from CommandQueue
that it is one transaction that commits or rolls back (`UnitOfWork`), run by one
worker. DecisionRun treats the rebuild at the end of a run as one statement that
may fail; its statements are `BeginRun` and `Rebuild` in BookProjection. Halts
change under DecisionRun at any moment (`ToggleHalt`), which is all that
HaltControl lets it see. CommandQueue implements CommandContract under the
mapping at the end of the module: the accepted keys are those that have a row,
and a key shows success when its row does. DecisionRules describes what
`SaveScorecard` of DecisionRun leaves open, which scorecard is stored; DecisionRun
does not depend on it.

AdviceRun EXTENDS DecisionRun and adds conjuncts to its actions; leaving out
`advice`, `draft` and `logged`, each of its steps is a step of DecisionRun or a stutter, so
that what is proved of DecisionRun holds of it. TradeBook EXTENDS DecisionRun
too and composes it with the trades: a run reads its universe from what the
trades have booked, a trade needs the references a run has committed, and both
rebuild the projection. A trade is one step there, its statements are those of
BookProjection. What justifies the single step is AtomicBook: with one worker
BookProjection implements it (`TradesAreAtomic`: to whoever reads the book, the nine
statements of a transaction are one Trade or one Rebuild, at the commit), and the
desk implements it too (`DeskTradesAtomically`), at any prices and from any seed.
`ModifyCandidate` decides with Sizing. In a book that began
empty the desk implements FakeStore, under the mapping at the end of TradeBook:
what `load_portfolio` and `current_halt` answer from the tables is what the
in-memory store would answer.

**Choices worth knowing.**

- *CommandQueue.* The claim orders by `requested_at`, which two requests may
  share, so `clock` need not advance between inserts. `CancelWrite` has no
  condition on the status it overwrites, as `complete_command` has none; neither
  has `Complete`. A worker that stops returns to polling and nothing returns to
  the command it left. `AmbiguousKeys` are the handlers whose effect can outlive
  an exception: the Alpha-Lake handlers, and any commit whose reply is lost.
- *BookProjection.* The wait of a DELETE is two actions, the snapshot
  (`...Start`) and the deletion, because the rows it will skip are decided
  between them. `Commit` removes the rows it deleted from the `seen` of the
  waiting statements. `SetStop` is a single UPDATE; if the row is locked it
  waits, and an update that finds the row gone changes nothing.
- *HaltControl.* `clear_halt` reads the row, updates it and closes the open
  transitions, in three statements and a commit. The row of a resumed book
  stays, with `halted = FALSE`.
- *DecisionRun.* `Completable` is written as in the code, in upper case, and the
  column holds lower-case values, so `CompleteRun` changes nothing: that is the
  finding of `decision_complete`. `Raise` is possible only in fetching and
  scoring, where Python code can fail and the transaction is still usable;
  `SqlError` is possible everywhere.
- *AdviceRun.* `Explained` says which runs have an LLM, since
  `DailyCycleService` takes it as an optional argument; no production path passes
  one, `tests/test_e2e_mock.py:87` does. `StageCount` is 8 in the code (M1 to M8).
  The adapter's three attempts are one failed call here; a call that fails twice
  is answered with the deterministic recommendation. What is raised while a
  scorecard is explained is caught and logged around all of it
  (`daily_cycle:279`), and has two outcomes. What PostgreSQL refuses has aborted
  the transaction: an artifact without a headline is `degraded`, a status the CHECK
  on the table does not know (`0007_enum_check_constraints.py:114`), and the run
  ends with HANDLER_ERROR (`RejectBatch`). What psycopg does not send, a text with a
  NUL, or what the code raises itself, leaves the transaction alive: the
  artifacts stored so far stay, the others are missing, and the run goes on to the
  next symbol (`RefuseText`, `RaiseExplaining`). One artifact that cannot be sent
  stands for all of these, since the driver looks first. `StartExplaining` calls
  `MarkStale` where the code does, on a scorecard that has no explanation yet.
- *TradeBook.* An order refers to a security by the id derived from its symbol;
  only a decision run (or the seed) inserts references, and the import inserts
  them under random ids (`opening.foreign`). `ModifyCandidate` fails for any
  halt row, a resumed one too, because the risk event it writes refers to a run
  that does not exist. It comes with the stop its ticket may show (`StopsShown`) or
  without one. A trade waits for a run that has rebuilt the projection
  and has not committed, which holds the rows the trade would delete; what
  `CommitRun` shows is therefore what `Rebuild` computed. The three initial books
  are an empty one, what `dev_seed.py` leaves when the decision cycle at its end
  does not rebuild (a projection that agrees with neither fills nor ledger), and
  what an import leaves: positions without fills. Its orders and fills are
  absent because the enumerations it writes are refused by the CHECKs.
- *FakeStore.* `create_order` of the in-memory store checks nothing and its
  `_FakeSession` finds no price, so that it fills everything at 100. The quantity
  of an order is any number, written as what the fill adds.
- *Sizing.* Fractions are ten-thousandths, money is in cents, and comparisons are
  exact, where the code compares floats. The preview lists the limits a quantity is
  over, and `Modification` refuses when the same limits are exceeded; but it takes
  the stop it is given for the price, and allows one share whatever the risk
  budget. The stop is the one number that leaves the preview and comes back, so its
  rounding is modelled, half a cent in either direction (`StopPrices`). The
  ticket itself (`advice.js:478`) compares with the stop distance rounded to a cent:
  for a price of about a dollar or less it may let a little more through than the
  limits of the preview, which is what the properties speak of.
- *DecisionRules.* The console sends the stop of its preview (`advice.js:486`); the API
  takes any command, so that any other stop, or none, is an input too.
- *Scorecards.* Scores are integers, tenths after the gates, hundredths in the
  total, where the code rounds them. A missing reading is `None`. A readout is
  found by `_readout_value`; that the two ids `rvol` and `volume_ratio_21` read
  one readout is kept (`Expected` and `Participation` use `volume`). Where the code
  compares a quotient of two inputs with a threshold, the model multiplies out.
- *RiskLimits.* Weights, caps and utilizations are in ten-thousandths. An event is
  its limit and severity; `Decide` describes with sets what the loop with
  `has_crit` computes: the first critical event, and the warnings before it.

## 4. The runs

Run a model with `tlc -config <cfg> <module>`.

| run | cfg | shows |
|---|---|---|
| `commands_safety` | `MCCommandQueue.cfg` | submissions, claims, cancels, completions and one worker crash in every order keep the idempotency, ownership and outcome guarantees, and implement CommandContract |
| `commands_live` | `MCCommandLive.cfg` | as long as no worker dies, every queued command reaches a terminal status |
| `commands_restart` | `MCCommandRestart.cfg` | violation: one crash after the claim leaves a command `running` for ever |
| `book_shared` | `MCBookShared.cfg` | two workers: cash shown is the ledger, equity shown is cash plus positions, every transaction ends |
| `book_serial` | `MCBookSerial.cfg` | one worker: positions shown are the fills, a flatten never increases exposure, the transactions implement AtomicBook |
| `book_stops` | `MCBookStops.cfg` | violation: the next rebuild deletes a stop |
| `halt_shared` | `MCHaltShared.cfg` | three workers: the current halt and the audit trail agree |
| `halt_execution` | `MCHaltExecution.cfg` | violation: fills are booked in a halted book |
| `decision_run` | `MCAdviceRun.cfg` | two runs at once, one with an LLM: what is reported is what was committed, a mark follows complete scoring, a skipped run leaves nothing, scorecards have references, a scorecard that lacks an explanation is one whose failure was logged, every run reports |
| `decision_complete` | `MCDecisionComplete.cfg` | violation: a reported run stays `running` |
| `decision_rules` | `MCDecisionRules.cfg` | no entry outside RISK_ON, no advice on poor data, a worse regime never gives more eager advice; a breach stops the book, posture and decisions agree, a tighter policy never relaxes; what a preview foretells of candidate.modify |
| `desk` | `MCTradeBook.cfg` | two runs and three orders in an empty, a seeded or an imported book: what an order command reports is stored, only discovered symbols are traded, trades keep the equity, a book that began empty behaves like the in-memory store |

**What the properties say.** Those that relate most are worth spelling out.
`AtMostOnceEffect` and `SucceededMeansApplied` together with `FailedMeansNotApplied`
say that the status shown can be believed although cancels and completions
overwrite each other without looking. `CashMatchesLedger` and
`EquityMatchesPositions` hold with any number of workers because the delete and
the insert of the single portfolio row make rebuilds exclude each other from
the moment they read the ledger; `PositionsMatchFills` has no such row to hold
on to and is true for one worker only, which is why it has its own run.

`OnlyDiscoveredSymbolsTrade` follows a circle: an order needs a reference, a
reference is made by a run, a run scores what is held or the discovery list, and
what is held was ordered. Nothing in the code states the conclusion, that no
sequence of runs and trades leads outside the discovery list and the symbols the
book began with, nor that an imported symbol can never be traded.
`TradesKeepTheEquity` says why fills at the previous fill's price are harmless: once
the projection shows the fills, no sequence of buys, sales, flattens and fills
under a taken key changes cash plus positions.

`PreviewForetellsModify` says what can be relied on of two copies of the same
arithmetic that work on different prices: the preview sizes at the price of the
symbol, candidate.modify at the stop the console sends it, which is lower. That is
lenient: with 10,000 dollars of equity and half a percent at risk the preview at
100 suggests 7 shares, and at the stop of 93.40 the command accepts 8. What holds
is that nothing within the limits of the preview is refused by a book that has not
become poorer, that what is no more than suggested is booked to the share, and
that what is accepted exceeds the limits and the risk budget of the price shown by
at most a fifth; and whatever stop a client sends, the cap is what a preview would
suggest of a symbol at that price, or one share.

`MissingExplanationsAreLogged` says what is left of an explanation that fails. A
swallowed exception either takes the run with it or leaves a scorecard with fewer
explanations than it should have, and then a log entry is the only trace: the
console shows what there is as current. The property holds both
ways: what was logged is missing too.

**Bounds, and why they are enough.**

- *Commands:* three keys, one of each kind (an ordinary handler, a lake handler,
  a type no handler knows); three ids; two requests, so that two inserts of one
  key race and a cancel races a claim; two workers, so that a claim skips a
  locked row; `MaxClock = 1`, so that two requests may or may not share a time;
  `MaxStops = 1`: what a crash leaves behind (a `running` row nobody holds) is
  the same whether it happened once or twice. The liveness run has one request
  in progress, two keys, no crash and no symmetry.
- *Book:* two symbols, so that rebuilds can delete in both orders and deadlock;
  two workers; trades of +1 and -1, so that positions are opened, reduced, closed
  and turned short; three fills with two workers, one to have a row to delete and
  one for each of two racing rebuilds; four fills with one worker.
- *Halt:* three halts, so that a book is halted, halted again, resumed and halted
  once more; three workers, so that a halt and a resume overlap with a third.
- *Decision run:* two runs on two workers, two symbols (references in opposite
  orders, deadlock), two days (shared and separate marks); one run has an LLM and
  one has none; one stage, since the second batch, the scorecard as a whole, is
  another one already: a scorecard has no explanation, that of the stage, or both.
  That a batch of stages breaks off in its middle needs two of them; the proofs are
  for every number.
- *Desk:* one worker, since trades are single steps here (what two workers do to
  the projection is BookProjection's question); two runs, so that the second
  reads what was traded after the first; two symbols, one outside the discovery
  list; three orders, of which two collide in their fill keys and the third may be
  cancelled; shares of +1 and -1, and whatever flatten and modify make of them.
  The seed holds the symbol outside the list, bought at 90 and shown at 110, so
  that the projection agrees with nothing; the import holds one share of it.
  The two runs are interchangeable, and so are the two colliding orders.
- *Rules:* a symbol at its best, at its worst, with few readouts and without a
  range, each with any one reading replaced by the values on both sides of each of
  its thresholds or removed, in portfolios on both sides of theirs: every branch
  of every scorer is taken. Three positions in two sectors, so that a sector can
  be over its cap when no position is; weights, VaR and drawdowns within, near and
  over each limit, with policies that are tighter in one limit each. Equities
  around what one, two and five shares cost, risk and are limited to, and one of
  10,000 dollars, where preview and command differ; a price of 7 cents, where
  rounding weighs most, one whose stop falls on half a cent, one of 123.45, and
  stops below the default price and above every price. The proofs need no bound.

`CHECK_DEADLOCK` is left on everywhere.

**Fairness.** CommandQueue: weak fairness of each worker's loop, because the
worker is a `while` loop that sleeps at most the poll interval; nothing makes
requests act, and crashes are never fair. The handler itself ends because its
outcomes are actions of the worker. BookProjection: strong fairness of `Rebuild`,
because PostgreSQL queues the waiters of a lock, so that a transaction that
begins later cannot overtake one that waits for ever; nothing makes a worker
begin. AdviceRun: weak fairness of `AdviceProceed`; a statement that waits there
waits for a transaction that itself goes on, a call to the LLM has a timeout, and
once a run has reported it does not begin again. HaltControl, DecisionRules and
TradeBook state no liveness.

**Mutants.** Every property of a passing run has a definition marked "Mutant" in
the model: the code with one plausible mistake, such as a claim without the row
lock, an upsert that ignores a conflict, a run that is marked although its
scoring broke off. TLC finds the property violated when the mutant replaces the
original.

## 5. The proofs

All proofs are checked with `tlapm <module>.tla`. They hold for every value of the
constants under the modules' assumptions: `CommandQueueAssumption` (handled keys
are keys, ambiguous ones are handled, `None` is neither a key nor an id, the
bounds are naturals), `BookProjectionAssumption` (trades are non-zero integers, a
book has finitely many symbols), `HaltControlAssumption` and
`DecisionRunAssumption` (`None` is not a value), `AdviceRunAssumption` (there is
at least one stage), `TradeBookAssumption` (prices are positive, there are
finitely many symbols and at least one, an order has a fill key and is not
`None`). None bounds the number of workers, requests, keys, symbols or days.
`ScorecardsAssumption` (weights are integers, of any sign), `RiskLimitsAssumption`
and `DecisionRulesAssumption` say that the inputs have the types of the code:
there are finitely many positions, and no measured drawdown and no drawdown limit
is positive (`_compute_drawdowns` subtracts a running maximum; `domain/risk.py`
has `le=0`).

Sums over symbols and largest weights are where induction would be needed: a sum
is a recursive function of a finite set. `SumsAndMaxima` gets the induction from the
library's theorem that the strict subset relation on the finite subsets of a set
is well-founded: a statement that fails for some set fails for a smallest one
(`MinimalSubset`), and there it follows from the smaller ones. From that come the
existence of the function that adds up a set, that a sum of integers is an
integer, that changing one term changes the sum by as much (`SumChanges`), and that
a finite set of integers has a largest element.

- **`CommandQueueProofs`.** `IInv` adds to the properties what a request
  remembers (`ClientInv`), that uncommitted inserts have different keys and ids
  (`InsertInv`), what a worker's place says about its row (`WorkerInv`) and how
  often the handler took effect from where its worker is (`EffectInv`). No
  property is inductive alone: at most one effect holds because a dispatched
  command has one holder, its row is the only row of its key, and a status that
  would let it be claimed again is never written. From it follow `TypeOK`, the
  seven safety properties and, with the same invariant, `QueueImplementsContract`:
  initial states map to initial states, and each action is a step of the
  contract or a stutter (`ContractStep`).
- **`BookProjectionProofs`.** `Exclusion` says that when a worker has read the
  ledger no other holds the portfolio row, and `InsertedIsCurrent` that an
  inserted portfolio row is still true when its transaction commits. That gives
  `CashIsTheLedger` and `EquityIsCashAndPositions` for any number of workers. With
  a single worker the rows deleted are all there are, and the rows aggregated are
  the fills (`Working`, at each statement). That gives `PositionsAreTheFills`, the
  action property `FlattenCloses` and the refinement `AtomicBookIsImplemented`: a
  commit is a trade or a rebuild of AtomicBook, and no other step shows anything.
  `SingleWorker` is an assumption of these three theorems alone; with two workers all
  three properties fail (section 7). `Working` does not depend on what was shown
  before, so that it also gives `RebuildsAloneHeal`: whatever several workers made of
  the positions, a worker that is alone from some moment on, and not half-way
  through a rebuild then, shows the fills with every commit. `BooksAreTyped` needs
  the lemmas about sums, because the equity is one.
- **`HaltControlProofs`.** `Local` says what a transaction's program counter means
  for its fields, `OneHolder` that one transaction at most holds the halt row.
  A halt and a resume that both update the row are therefore ordered, and the
  audit rows the later one writes or closes are consistent with the row it
  leaves: `HaltsAreAudited`, `ResumesAreAudited`.
- **`DecisionRunProofs`.** `Progress` says how far a run is at each statement
  (no scorecard before the facts, no mark before the last scorecard, a
  reference for each scorecard, committed or its own), `OneTransactionPerRun`
  that no two workers hold one run, `MarksAreReported` that a mark's run reported
  success. From these follow `ReportsAreTrue`, `MarksFollowScoring`,
  `HaltedRunsAreEmpty` and `ReferencesOutliveRollbacks`; and `ReportsStand`, that
  what was reported of a run, and its row, never change again.
- **`DecisionRulesProofs`.** `IInv` says that a state is an evaluation of some
  inputs, so that each theorem is about the operators. Every scorer is within 10
  and 95 (`FactScorers`, `OtherScorers`); a total is a weighted mean, so it stays
  under what the regime lets through its gates and multiplier (`TotalInRange`:
  95.00, 51.30 and 19.00), which is below the threshold of 55 outside RISK_ON
  (`EntriesAreGated`). `RegimesOnlyWarn` follows for RISK_OFF from 19 < 25, and
  for CAUTION from a comparison of the totals term by term (`CautionLowersTotal`).
  All of it holds for any weights, since a weight that is not positive counts as
  zero. `PosturesAgree` needs that a set of critical events has a first one.
  `PreviewsAreKept` compares the two copies of the sizing arithmetic; it rests on
  lemmas about integer division and products (`SuggestionsGrow`, `LimitsGrow`),
  because TLC's equities show it for a few amounts and it is claimed of all, and
  on `StopIsNear`: a stop shown is between five sixths of the price and the price,
  the sixth being what rounding makes of the cheapest. `BreachesStop` finds for
  each limit that is exceeded the critical event it raises (`BreachIsCritical`),
  which for the single-name limit means that the largest weight exists and is the
  one compared, and from it the one decision that stops the book.
  `TighteningNeverRelaxes` follows each limit through its utilization, whose
  quotient grows when the cap shrinks (`UtilizationGrows`), to its event: a
  critical one stays critical, a warning stays at least a warning.
- **`AdviceRunProofs`.** `AdviceImplementsRun` is the refinement: `AdviceSpec => Spec`,
  with nothing to map. The invariant `AdviceInv` is DecisionRun's, and what a
  draft holds at each point (`DraftsOk`: of a scorecard that is not the one being
  explained an explanation is missing if and only if it was logged, and those there
  are storable; those made so far are sound), what is committed (`StoredAdvice`)
  and that nothing is logged of a run before it is begun (`LogsOk`). From it follow
  `AdviceIsTyped` and `AdviceIsLogged`, for every number of stages, and from the
  refinement `AdvisedRunsKeepTheirPromises`, which are DecisionRun's.
- **`TradeBookProofs`.** `DeskInv` takes DecisionRun's invariant, since a step of the
  desk is a step of a run or leaves the runs alone (`DeskStepIsRunStep`), and adds
  `DiscoveryInv`: what a run has fetched, is about to refer to or has inserted is
  tradable, and so is what is shown or held. That is what makes
  `DiscoveryBoundsTrading` inductive. `OrderReportsAreTrue` is inductive as it stands.
  `FakeForetellsTheDatabase` is the refinement of FakeStore; it needs `FakeInv`: in a book
  that began empty the projection shows the fills at every moment, and every fill
  was booked at 100. `TradingIsFree` needs that a fill changes one term of the sum
  over the symbols, by what it takes from the ledger (`FillKeepsTheEquity`); with
  `FillsStayShown` it gives `EquityIsSettled`, that a book has one equity from the
  moment its projection shows the fills, and `EmptyBooksStayWorthNothing`.
  `DeskTradesAtomically` is the second refinement of AtomicBook; that a purchase costs
  and a sale earns holds because the shown price is positive, whatever it is.
  `RunsOfTheDesk` states for the desk what `DeskInv` takes from DecisionRun.

**Only model-checked.** The liveness properties (`EveryCommandFinishes`,
`EveryTransactionEnds`, `EveryRunReports`): their proofs need ENABLED, which the
provers do not handle. The violations are counterexamples, not theorems.

## 6. Where the code and its documents disagree

| run | the code | the document |
|---|---|---|
| `commands_restart` | the worker commits `running` before it dispatches, and only `queued` rows are claimed, so a command whose worker restarts in between is never finished (`application/cli.py:263`) | ADR 0043:21: "survived process restarts and container rotations" |
| `book_stops` | `update_position_stop` writes the projection in place; `rebuild_projections` deletes the row and inserts it without `stop_price` (`store:1464`) | `REFERENCE_ARCHITECTURE.md:266`: the rebuild "eliminates update-in-place anomalies" |
| `halt_execution` | order.submit, candidate.approve and position.flatten never read the halt (`commands:192`) | `risk.js:279`: "Blocks all decision runs and paper execution" |
| `decision_complete` | `complete_run` updates rows whose status is `RUNNING` or `HALTED`, and the column holds lower case (`store:125`) | `tests/unit/test_operational_store.py:139-144` completes a run and asserts that it reads back COMPLETED |

## 7. Known behaviour that no property is claimed about

The models show these; no document of the repository settles what should happen,
or the property would restate a guard.

- A cancel that was checked while a command was queued or running may be written
  after it ended, and overwrites `succeeded` or `failed`; a completion may
  overwrite `cancelled` in the same way. `Retract` in CommandContract allows it.
- Two workers can each flatten one position, leaving its opposite, and with two
  workers the positions shown can miss a fill until the next rebuild.
- A decision run that looked at the halt before it was set commits in a halted
  book. ADR 0040:37 describes an advisory lock for decision runs that no code
  takes.
- A run for which every symbol's facts fail succeeds without a scorecard, where
  the README's principle (README.md:99) is to fail closed.
- When Alpha-Lake lacks the day's readouts, the run walks back and overwrites the
  mark of an earlier day.
- candidate.modify in a halted book writes a risk event for a run that does not
  exist, so that its refusal is a rolled-back HANDLER_ERROR. It refuses whenever
  `current_halt` has a row (`commands:484`), and a resume keeps the row, so that a
  book which was once halted never gets a modified candidate again; `risk.js:279`
  says that a resume "re-enables decision runs and paper execution".
- `mark_explanations_stale` gets the id of the scorecard just stored, to which no
  explanation refers yet (`daily_cycle:256`); the explanations of older runs stay
  current. ADR 0068 has the existing ones of the same scope marked.
- An answer without a headline aborts the run it explains. ADR 0051 has LLM errors
  contained in the explanation layer, and the system degrade gracefully when the
  LLM returns garbage: it does for garbage that does not parse; a label that is not
  one of the three aborts the run too.
- An answer with a NUL in one of its texts leaves its scorecard with the
  explanations stored before it, and the run succeeds; get_explanations and the
  console show what there is as current, and nothing but the log says that some
  are missing.
- `fill_key` keeps the first 32 bits of the order id; after a collision the order is
  stored and reported as booked, and its fill is the other order's.
- An order stays `pending` after its fill, and a cancelled order keeps its fill and
  its effect on the book; order.cancel succeeds for any id.
- candidate.modify sizes at the stop price it is given, and the fill is booked at
  the projection's price. At the stop the console sends it accepts more than the
  preview suggests, up to a fifth over the limits (section 4). It books one share
  even when one share is over the risk budget. In a book that began empty the
  equity is 0 and stays 0, so that it refuses everything.
- The comment at `commands:86` has the rebuild compute the average cost properly;
  it divides what was bought less what was sold by the shares bought.
- `load_portfolio` reads cash and positions with two statements (`store:262`), between
  which a trade can commit.
- SPY's facts are fetched for the regime, and SPY is left out of scoring even when
  it is held.
- Today's advice and the list of scorecards select completed runs, and no run is
  ever completed (section 6), so that both are always empty.
- What the legacy import brings is shown and cannot be traded; its positions vanish
  with the first rebuild. An order, a fill or a run in the legacy data makes the
  import fail, because the names of its enumerations are not the values the CHECKs
  know; so do two marks of one day.
- position.set_risk_method passes the symbol where the table wants a security's id
  (`commands:611`) and always fails. backtest.create reserves a run that nothing
  starts (`commands:375`).
- Two processes that append to the alerts file lose one of the alerts.
- The in-memory store differs from the database where the mapping does not look:
  its `complete_run` changes the status, its unit of work rolls nothing back, its
  `cancel_order` changes nothing, its `load_advice_artifacts` ignores the scorecard
  asked for, its rebuild takes the fills of all books. In a seeded book, where the
  price of a position is not 100, the two part at the first fill.
- No caller of `process_risk_decisions` exists in the worker, so a critical
  breach does not halt a book by itself.
- The daily cycle reads the regime from SPY's facts (`daily_cycle.py:188`) and
  does not pass it to `PortfolioContext`, so that every stored scorecard is scored
  in RISK_ON. What DecisionRules shows of the other regimes holds of the engine,
  and will hold of the runs when the argument is passed.
- In CAUTION no total exceeds 51.30, so that a held symbol with the best facts is
  told `do_nothing`, never `hold`.
- `_score_cash_impact` compares a tenth of the equity with the cash: much cash is
  a "Tight cash position" (30), little cash is "Adequate cash available" (70).
- A negative price-earnings ratio counts as unknown, and passes if it is the only
  fundamental there is.
- `decide` scales a reduction by a utilization that events do not carry, so that it
  always halves; a book that is halted and within its limits gets `allow`.
  `daily_loss_limit` is never compared with anything.

## 8. What is not modelled

- *HTTP transport, console, query services:* the routes that change state through
  commands, submit and cancel, are in CommandQueue, the sizing preview in Sizing,
  today's sizes too, `get_explanations` in AdviceRun. The others read and render;
  `POST /mode` submits a command whose key is the operator and the mode, so that
  going back to a mode chosen before finds the old command and does nothing.
- *Alpha-Lake adapter and port:* a client of an external service. How its calls
  fail is part of the models of its callers (`HandlerOutcomeLost`, `FetchFacts`,
  `Raise`).
- *VaR, covariance, factor and attribution statistics:* floating-point arithmetic
  beyond TLC, without state.
- *Configuration, factory, migrations:* run once at start-up; the unique index the
  migrations create is in CommandQueue.
- *Fakes, seeds, the legacy import:* what they leave in a book or answer about it is
  in FakeStore and in TradeBook's initial states; demonstration scorecards, canned
  LLM answers, recorded HTTP fixtures and their generator are data.
- *Alerts:* a notification file nothing reads back.
- *Explanations of risk categories and of the final output, operator overrides,
  decision batches, `METHOD_REGISTRY`:* no caller in the worker.
- *candidate.reject* marks a row of `candidate_evaluation`, which the worker never
  fills, and writes an audit event.
- *Backtest, risk-profile, risk-method and lake handlers:* one INSERT, UPDATE or HTTP
  call each; their effect is the counter of CommandQueue.
- *Average costs, commissions, the amounts of a mark, the wording of explanations:*
  abstracted away, so nothing is shown about them.

## 9. Plan

Done, in the order of importance: CommandContract and CommandQueue with proofs
and refinement; BookProjection; HaltControl; DecisionRun; Scorecards, RiskLimits
and DecisionRules; AdviceRun with its refinement of DecisionRun; TradeBook and
Sizing; FakeStore and the refinement that shows the desk implements it;
SumsAndMaxima, with the theorems about sums and largest elements; AtomicBook, which
the statements of BookProjection and the trades of TradeBook both implement, in
place of a composition of the two.

Next, in this order:

1. **Fail closed**: a property of DecisionRun against README.md:99.
2. **A seeded book, statement by statement**: BookProjection begins with an empty
   book; TradeBook has the seeded and the imported one, whose first rebuild heals
   them, but in one step.

No safety property that a run checks is without its theorem. A composition of
HaltControl and DecisionRun was considered: DecisionRun lets the halt change at any
moment (`ToggleHalt`), so that a refinement would show nothing.
