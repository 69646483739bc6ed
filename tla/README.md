# SentinelFX in TLA+

SentinelFX evaluates trading signals against risk rules and keeps a paper-trading
ledger in SQLite.  It never places an order.  These modules state what the program
must guarantee about money, positions and stops, check it on small instances with TLC
and prove it with TLAPS.  Every definition is translated from `src/`; the table `map`
in `PROJECT.json` names the lines.

## The system and its parts

| Part | Source | State | Operations |
|---|---|---|---|
| Risk engine | `engine/domain.py` | none | `RiskManager.budget`, `PositionSizer.calculate`, `RiskManager.veto`, `ProviderScoringService.validate`, `DecisionEngine.evaluate` |
| Paper-trading ledger | `engine/service.py`, `engine/seed.py` | tables accounts, providers, signals, positions, paper_trades, signal_outcomes, provider_daily_performance | `evaluate`, `close_position`, `snapshot`, `review`, `refresh` |
| HTTP API | `server.py` | session token, open store | routes to the operations; the research edit of a provider |
| Store | `engine/storage.py` | the write lock, transaction depth, connection | `transaction`, `connect`, `audit`, `verify_audit` |
| Audit chain | `engine/storage.py` | table audit_logs, hash-linked | append, verify |
| Migrations | `engine/storage.py`, `migrations/`, `engine/seed.py` | the schema, schema_migrations, the seeded rows | the constructor of `Store`, the scripts, `seed` |
| Trading bridge | `engine/bridge.py` | raw_webhooks, normalized_signals, risk_checks, snapshots, journal | `ingest` |
| Webhook intake | `engine/webhook.py` | none | authenticate, validate, map symbols, idempotency key |
| MT5 adapter | `engine/mt5.py` | connection to the terminal | `initialize`, `shutdown`, `status`, reads, `order_check` |
| Configuration | `engine/config.py` | environment | validation, execution mode |
| Backtesting and analytics | `engine/research.py` | none kept; the books of one request | candle backtest, backtest of observations, `summarize` |
| Command line, dashboard | `manage.py`, `static/` | none | call the operations, render the snapshot |

How they meet.  An HTTP thread calls one operation of class `Application`.  The
operation opens a `BEGIN IMMEDIATE` transaction of the store, reads the tables,
calls the risk engine with a view of one account, and writes the verdict, the
position, the reports and an audit row in the same transaction.  `refresh`, called by
almost every operation, recomputes an account's losses, exposure and stops from the
outcomes.  The bridge turns a webhook into a signal, reads the MT5 terminal, previews a
size, lets the terminal check the volume and calls the same `evaluate`; but only the
in-process fixture in mode SIMULATION gets that far, since a real terminal cannot supply
the evidence that is asked for.  The backtest calls the risk engine with an account of
its own.  Every process (server or command) migrates and seeds the file it opens.

What is hard here:

- The transactions serialise the operations, but an operation reads the clock up to
  three times, so midnight and the end of the week may pass **inside** it.
- Four loss budgets (day and week, of the account and of a provider in it) are measured
  against a baseline, `min(equity, starting equity)`, that shrinks with each loss, and
  a position is approved in one period and settled in another.
- Rows are read, changed and written back around nested calls that write them too.
- A provider's state is shared by all accounts and rewritten by three operations.
- Signals, webhooks and their ids are redelivered, truncated and replaced.
- Each operation writes up to ten tables, which must agree whenever it ends.
- The terminal is a third party: its link drops, and orders are filled, between any two
  calls; it is called with the write lock held.
- Several processes may start on one file, the first script is not transactional, and a
  start may die anywhere.

What makes each part correct:

- Risk engine: the size is the largest volume on the broker's grid within the
  budget; what is approved fits the risk of one trade, every cap and the margin rules.
- Ledger: one open position per account; every signal opens at most one position; the
  tables agree; equity reconciles with the outcomes; the stops are in force on every
  day; the breaker holds; no loss budget is ever overdrawn.
- Store: operations are atomic, one after another, and a crash leaves none half done.
- Audit chain: linear, append-only, and tampering is detected.
- Migrations: scripts are applied in order and as a whole; a process serves only a
  complete and seeded database; a restart finishes what an earlier one left.
- Bridge: an alert is evaluated at most once, opens only the volume the terminal
  checked, and never brings real equity into the ledger; the first answer is final.
- MT5 adapter: nothing is trusted that was read over a link known to be down, and
  exposure that stays put is seen.
- Backtest: fills are pessimistic, entries stay below the caps, and the two samples are
  the past and the future of one date.
- Evidence: what is missing never passes, and what gets worse is never judged better.

## Modules

| Module | Models |
|---|---|
| `RiskEngine` | the arithmetic and the verdicts of `domain.py`, as operators without state |
| `Evidence` | the validators and the evidence score of `domain.py`, for a candidate that gets worse |
| `LossBudget` | abstract specification: what the loss budgets promise |
| `Ledger` | `service.py`'s state machine: evaluate, close, snapshot, review, research, days |
| `LedgerBudget` | the refinement mapping from `Ledger` to `LossBudget` |
| `Bridge` | `bridge.py`, `webhook.py` and the modes of `config.py`, composed with `Ledger` |
| `Terminal` | `mt5.py` and the reads of an alert, with the terminal and the broker behind it |
| `Store` | `storage.py` under the server's threads: lock, nesting, rollback, timeouts, crashes, audit chain |
| `AtomicStore` | abstract specification: what the store promises its callers |
| `Migrations` | the constructor of `Store`, the scripts of `migrations/`, `seed.py`, by several processes |
| `Analytics` | `summarize` and the backtest of observations, in `research.py` |
| `CandleBacktest` | the candle backtest of `research.py`, composed with `RiskEngine` and `Analytics` |
| `MCLossBudget`, `MCLedger`, `MCBridge`, `MCTerminal`, `MCMigrations`, `MCResearch`, `MCEvidence` | small instances for TLC |
| `RiskEngineProofs` | sizing, budget and approval, for all inputs; finite sums (`SumFunction` of the community modules), which the proofs below share |
| `LossBudgetProofs` | the abstract promise, for all instances |
| `LedgerProofs` | the ledger's types and safety properties, and that it implements the loss budget |
| `BridgeProofs` | the bridge's safety properties and its refinement of the loss budget, with the ledger running beside it |
| `BacktestProofs` | the books of a backtest, its samples and its drawdown |
| `StoreProofs` | type correctness of the store, its audit chain, its answers, the refinement of `AtomicStore` |
| `MigrationsProofs` | the migrations' safety properties |
| `EvidenceProofs` | what an alert may be judged by: the reads of `Terminal`, and the verdicts of `Evidence` |

### RiskEngine

Decimals are integers: money in its smallest unit, lots in the finest volume step, a
policy fraction `f` as `f * Scale`.  Every comparison of the code is multiplied out, so
nothing is rounded that the code does not round; the one division that matters, the
floor of `PositionSizer` onto the grid `minimum + n * increment`, is kept.
`Policy.validate` is the assumption `ValidPolicy`.  Fractions may be any tightened value.

An *offer* is what a signal, its broker and its quote amount to for sizing: assumed
loss, cost and margin per lot, the volume grid, and the net result per lot at the stop
and at the target.  A target may net a loss, because the costs are charged there too.
The realised loss is never above the assumed one, also for yen quotes: the sizer
converts them at the lower of entry and stop, the close at the exit price.

A request's *fault* abstracts the checks on broker, signal and market: `unsound` for
those that end the evaluation early, `weak` for an evidence score below the minimum,
`gated` for those of the persistent safety controls.  `Evidence` computes the first two.
A provider's research metrics are
abstracted to the reasons they raise (`good`, `thin`, `unreliable`, `flagged`).

### Evidence

Every field of a candidate has a *ladder*, its values from good to bad down to `UNKNOWN`
(missing, of another type, out of range), and the candidate has four time stamps.
`Worsen` takes one field down a rung, `Tick` lets time pass; the code does neither, its
inputs differ like this from one request to the next, and from an alert's preview to its
evaluation.  `SignalSound`, `BrokerSound`, `ProviderReliable` and `MarketSound` are the
four validators, `Score` the evidence score, and `Fault` the fault that `RiskEngine` is
given.  Which fields can be `wrong` without being unknown is what the code tells apart.
That ladders go down, and end in nothing better than they began, is part of
`EvidenceAssumption` (`Descends`): it says what *worse* means, and nothing of the code.

### Ledger

One action per transaction.

| Action | Code |
|---|---|
| `Approve`, `Refuse` | `Application.evaluate`, with every write it makes |
| `RefuseUnknownAccount` | its early exit for a profile outside `PROFILES` |
| `Close` | `close_position` at the stop or the target |
| `Snapshot` | `snapshot`, which refreshes all accounts |
| `ReviewProvider`, `ReviewAccount` | `review`; its refusals roll back and have no effect |
| `ResearchProvider` | `POST /api/research` of a provider in `server.py` |
| `Tick` | a day passes between transactions |

- `Readings` are the days that the successive clock readings of a transaction return:
  all the same, or midnight between two of them.  The clock does not run backwards.
- `positions` stands for the tables positions and paper_trades, which are written
  together; `outcomes` for signal_outcomes; `performance` holds the trades that a row
  of provider_daily_performance sums up, the empty set standing for no row and for a
  row of no trades.
- The columns that `refresh` recomputes before every use are not state: `View` is the
  row as `refresh` returns it.  `equity`, `status` and `daily_stop_date` are state.
- `Refreshed` only sets stops.  A suspension is lifted by `ReviewAccount`, a daily stop
  by its date being no longer today.
- The unique index `one_open_position` is *not* a guard.  `OneOpenPosition` shows that
  it never has to refuse an insert.
- Only providers of the seed are synthetic and hence tradable without the bridge.
- `Days` is the set of days on which anything happens; `Tick` jumps between them.

### LossBudget

The promise without rows, sums or statuses: a position reserves its whole assumed loss
if it fits what is left of the four budgets, and settles for at most that, on the
budgets of the day it is settled.  `LedgerBudget` maps the outcomes of a scope and
period to the loss booked, and the open position to the reservation.  The caps of the
abstract specification are those of the *starting* equity: the mapping shows that the
shrinking baseline of the code stays inside them.

### Bridge

`ingest` runs in one transaction, so a delivery is one action.  `Bridge` EXTENDS
`Ledger`: alerts and manual requests share accounts, providers and signal ids, and the
operators that evaluate take the rows they find as arguments.

| Action | Code |
|---|---|
| `IngestTurnedAway` | rejected by intake, or blocked before the ledger is touched |
| `IngestUnchecked` | previewed with a volume, and blocked because `order_check` fails |
| `IngestDecided` | evaluated: approved, refused, or refused because the volume was not the checked one |
| `LedgerNext` | everything of `Ledger`, with manual requests gated in mode DISCONNECTED |

- A *delivery* is an alert with an idempotency header or none.  A key is the stem of a
  string id, else the header, else a digest (`IdempotencyKey`).
- A duplicate, a wrong secret and a failure that is rolled back leave no trace that a
  later delivery meets: they are stuttering steps.
- `Imported` is the accounts row after the adapter's equity was written into it, and
  `WithProvider` the providers with the bridge's own: the code writes both before the
  preview, whatever comes of the alert.
- `BridgeReadings` are the days of the four clock readings at preview and evaluation.
- `deployment`, the settings and the kind of adapter, is chosen once.

### Terminal

| Action | Code |
|---|---|
| `Start`, `ShutPackage`, `ClearConnected`, `Exit` | `initialize`, the two statements of `shutdown` after an interrupt, the end of the process |
| `DropLink`, `RestoreLink`, `Trade` | the broker and its other clients (external) |
| `Begin` | an alert asks for `status` |
| `Check` | the recheck of status that opens every operation |
| `ReadSucceeds`, `ReadFails`, `ReadIsNoList` | the call into the package |
| `Conclude` | the five answers are judged in their order |

`account` is the truth at the broker and `view` what the terminal knows of it: they part
while the link is down.  `kept`, `reached` and `missed` are history variables for the
properties.  A package that is shut down cannot be read with success.  An order that is
filled between `positions_get` and `orders_get` shows in neither; `StillExposureBlocks`
therefore speaks of exposure that does not move during the delivery.

### Store

`Ledger` takes an operation for one step.  `Store` shows why it may: it takes the
operations' data away and keeps the threads.

| Action | Code |
|---|---|
| `Arrive`, `ArriveMalformed`, `Reply` | a request of `do_POST` begins, ends |
| `Begin`, `TimeOut` | the outermost `transaction()`: `BEGIN IMMEDIATE` gets the lock, or gives up after 15 seconds |
| `Nest`, `LeaveInner` | `transaction()` on a thread that is inside one |
| `Write`, `ReadTip`, `AppendEntry` | the rows of a section, and the two statements of `audit()` |
| `TerminalReturns` | the bridge's MT5 call returns, with the lock held all the while |
| `Commit`, `RollBackRefused`, `RollBackFailed` | how the outermost `transaction()` ends |
| `Crash`, `Restart` | the process dies; a new one appends POLICY_LOADED and serves |

- A *section* is what one inner transaction does: the rows it writes, as one element,
  and its audit entry.  Alerts go through intake, evidence, verdict and journal and may
  be blocked or turned away on the way (`Follows`); other requests have one section.
  The preview's refresh of the account row belongs to the evidence section.
- `InvalidData` and the errors treated like it roll back and open a second transaction
  for the entry REQUEST_REFUSED; any other exception is answered 503.
- The hash is the history it digests (`Digest`), which assumes no collisions.
- A row of the audit log keeps its previous hash and its own, so that `Verifies` can
  compare them as `verify_audit` does.
- GET requests are not actions: a snapshot takes the same lock and only refreshes rows.

`AtomicStore` says that a request's rows and entries appear in one step, complete and in
order, or not at all, and that nothing else is ever written.

### Migrations

Statement `i` of script `v` is `<<v, i>>`, and so is the table, index or row it leaves; a
statement fails if that exists.  The first script runs in autocommit, each later one in
a transaction (`draft`) under the write lock.  `applied` is what a process read before
it took the lock.  A process that serves takes the same lock for its requests, which change no
table, profile or fixture: `busy` is a server inside of such a transaction, and since it
may be an alert that waits for the terminal, nothing says that it ends.  A process is
taken to serve once its `Application` is built; all processes are of one release.
Initially there is no database, or the one an earlier release left,
with the profiles of then.

| Action | Code |
|---|---|
| `Start`, `Check`, `Read` | a process starts, looks for the table, reads the versions |
| `FirstStatement`, `FirstFails` | `executescript` of 001, statement by statement |
| `Begin`, `Statement`, `StatementFails`, `Commit` | a later script |
| `BeginSeed`, `Seed` | the transaction of `seed()` |
| `BeginLoad`, `Load` | that of the audit entry `POLICY_LOADED`, after which the process serves |
| `BeginRequest`, `EndRequest` | a request of a server, `bridge.ingest` among them, takes and releases the lock |
| `TimeOut`, `Crash` | a start is 15 seconds without the lock; a process ends, also after serving |

### CandleBacktest and Analytics

One step is one candle, or one observation, of a request to `/api/backtest`; `bars`
stays empty for a request with observations.  `Pass` is a round of the loop that ends
without a crossover or with the position kept, `Act` one that judges a crossover,
`Finish` the end of the data.  The fills are operators (`Fill`, `EntryFill`), and the
verdict is `EngineReasons` of `RiskEngine` on the account the code builds.  Prices are
counted in money per lot and quoted in dollars; the ranges of the candles divide by the
slow period, so that no mean is rounded.  `Observe`, `Refuse` and `Summarize` are the
loop, the errors and the result of `BacktestingService.run`; a report is the sequence of
results it is computed from, and `Summary` takes one result after the other (`Added`), as
the loop of `summarize` does.  `Nets` selects the results of a group of trades.

## Runs

| Run | Instance | Shows |
|---|---|---|
| `loss_budget` | one account, two providers, four days over a week's end | the abstract promise: no budget is overdrawn |
| `ledger_stops` | one account, three signals, days 0, 5, 6, 7 (Monday, Saturday, Sunday, Monday) | stops in force, equity and daily rows reconciled, sizes largest, implements `LossBudget` |
| `ledger_shared` | two accounts, two providers, one of them edited and reviewed, two signals, two days | one position, tables agree, ids used once, breaker, margin rules, caps |
| `bridge` | one profile, two alerts and one header beside manual requests, every deployment | once only, the checked volume, no real equity, first answer final, implements `LossBudget` |
| `terminal` | two orders or positions of other origin | exposure blocks, outages are noticed and end |
| `store` | two local requests and an alert, one crash | implements `AtomicStore`, the chain verifies, answers are true, local requests are answered |
| `migrations` | two processes, three scripts of 3, 2 and 2 statements | scripts whole or absent, only whole databases served, a start serves or gives up its wait for a server |
| `research` | nine candles in six shapes, or up to four observations | pessimistic fills, caps at entry, the samples, the drawdown |
| `evidence` | three policies, up to two lost rungs, five moments | missing evidence never passes, worse is never better |
| `ledger_long_ids` | an id of more than 200 characters | **violation**, see below |
| `ledger_week_end` | a close over Sunday midnight | **violation**, see below |
| `evidence_policy` | a policy that validates with laxer limits | **violation**, see below |

Bounds, and why they are enough.

*Ledger.*  The policies of `MCLedger` are tightened (as `Policy.validate` allows) so that
one full loss spends a day's budget and two a week's: three signals then reach the cap,
go over a week's end and trade again.  Days 5, 6 and 7 make both kinds of midnight occur
inside a transaction, the ordinary one and the one that ends a week.  `Wide` and `Narrow`
differ in how many increments the shrinking budget still buys; `Heavy` and `Overweight`
lie on both sides of the margin rule, and `Heavy` leaves margin and budget for a second
position, which must not be opened.  Sizes are checked for every grid of up to four
lots (the constant `SizedOffers`) on the budgets that the run's histories leave; the
theorem `LedgerSizesAreLargest` covers every grid and history.  Two accounts interleave a
shared loss count, and two providers exceed a limit of one.  Equity and outcomes are bounded by the
number of signals, since each opens one position.  Signals are interchangeable and
symmetric in these runs, and so are the two accounts of one profile in `ledger_shared`;
none of them checks liveness, so the symmetry is sound.
`AccountPolicy` opens the provider caps fully, which `Policy.validate` also allows.

*Bridge.*  `AlertsSpec` leaves out research edits, reviews and snapshots, which
`ledger_shared` has and which would multiply the states.  One alert has a string id that
is also too long for `evaluate`, one an id of another kind; each may come with the header
or without, in any mode that validates and with either adapter.  The fixture reports
150000 to a ledger of 100000.  One fresh UUID is enough, since the long id is evaluated
once.  The bridge's own provider may lose and then be refused.

*Others.*  In `terminal` one item may move while the other stays; nothing else there is
bounded.  In `migrations` two processes race for every statement and every transaction, as two
starts or as a start beside a server; the first script is long enough to die in its middle.
In `store` two local requests compete with an alert that holds the lock through its sections and terminal calls; one crash may fall into any
step.  In `research` four warm-up candles are followed by five on two days of one week,
enough to enter, gap through the stop, reach the caps and be refused; two losses take
the equity of a request with observations below zero.  In `evidence` two lost rungs
suffice for one missing field to hide behind another.

Deadlock checking is off in `store`, `research`, `evidence` and `evidence_policy`, whose
behaviours end when the last request is answered or the candidate cannot get worse; it
stays on elsewhere.

Every property of a passing run has a mutant in `PROJECT.json`: a plausible bug in the
code (profit offsetting losses, a stop latched a day late, a lost update, a header that
takes precedence, a script without its transaction, the target tested before the stop,
...) that makes TLC find the property violated on the same instance.  The variants are
the operators marked "A variant" in the modules.
No run lists the type invariants of `Bridge` and `Terminal` (`BridgeTypeOK`, `TypeOK`);
they are proved (`BridgeTypes`, `TerminalTypes`).

## Findings

- `ledger_long_ids`: `service.py:79` replaces an id of more than 200 characters by a
  fresh UUID *before* the duplicate lookup, so a repeated submission is accepted again.
  `specs/requirements.txt:111` says that a duplicate signal is no trade.
- `ledger_week_end`: `close_position` stamps the outcome (line 130) before `refresh`
  reads the clock again (line 18).  When Sunday's midnight passes in between, the loss
  is booked in the old week while the new one is summed; an account whose week reached
  the cap stays active.  `specs/requirements.txt:109` asks for suspension until review.
- `evidence_policy`: `Policy.validate` (`domain.py:100`) bounds only three fractions by
  the shipped values.  News, spread, age and score limits may be set laxer, while the
  comment in line 99 says that configuration never loosens the baseline.

## Fairness

None is assumed of the ledger: its properties are safety properties, and nothing there
has to happen by itself; positions are closed by requests.

`Store` assumes weak fairness of what a thread does by itself (`Proceed`) and of the
wait for the lock, which *either* gets it *or* times out (`AwaitLock`): the operating
system runs the threads, and `connect` sets a timeout of 15 seconds.  It assumes no
fairness of SQLite between waiting threads, so a request may time out each time, none
of clients, crashes or restarts, and none of the terminal, which the bridge calls
without a timeout: `LocalRequestsAnswered` holds although an alert may keep the lock for
ever.  Nothing of the kind holds for the alert itself.

`Migrations` assumes weak fairness of a process that is starting: it goes on with its
next statement *or*, where it waits for the lock, gives up (`Proceed(p) \/ TimeOut(p)`),
as `connect` makes it do after 15 seconds.  No process has to start or to die, and no
server has to end a transaction, so that a start may time out beside a busy server, each
time.  `RestartServes` speaks of a start that has no other *start* beside it, but any
servers, and that finds the first script complete: it ends, and if it fails then it has
been waiting for a server.  It says nothing of a first script that a crash has cut: that
one is not transactional, and the tables it leaves make every later start fail.

`Terminal` assumes none.  `OutagesEnd` says that if the terminal stays reachable then,
from some point on, no delivery is *newly* answered as disconnected; whether one is ever
answered is left open.

## Proofs

Everything below holds for every value of the constants that the assumptions
`ScaleAssumption`, `PolicyAssumption`, `LedgerAssumption`, `BudgetAssumption`,
`LossBudgetAssumption`, `BridgeAssumption`, `StoreAssumption`, `MigrationsAssumption`,
`AnalyticsAssumption`, `BacktestAssumption` and `EvidenceAssumption` allow; TLC evaluates
them in the runs of the modules that declare them.  Those of the backtest are what its
request is checked for: at least `slow + 2` candles (`research.py:63`), bounds of a candle
(line 68), a positive smallest volume and step (line 73); the largest volume may lie below
the smallest, and then every candidate is refused (`Objections`).

**Risk engine.**  `SizeIsLargest`: for every offer and budget the size is the largest
affordable volume.  The proof reduces both branches of the formula to the largest `n`
whose grid point fits (`IncrementsAreLargest`).  `ApprovalFitsEveryBudget`: when no
reason is raised, account and provider pass and the sized volume fits the risk of one
trade, what is left of each cap, and the margin rules.  `LossesNeverEnlarge`: whoever has
lost more and has no more equity gets a size no larger on the same offer; the budget
falls (`BudgetFalls`) and the size grows with the budget (`SizeIsMonotone`).

**Loss budget.**  `BudgetTypes`, `BudgetsHold`, `ReservationsHold`.  `WithinBudget` alone is not
inductive.  The strengthening adds that the open position's claim is covered in the
*current* period and that nothing is booked in the future (`FutureEmpty`): a position
carried over midnight meets an empty budget, which covers it because its reservation
was within one period's cap when it was made.  It is applied to the ledger below, by
instance.  An instanced temporal theorem cannot be cited, so what the ledger takes over
is the two steps of the induction (`PromisedInit`, `PromisedNext`).

**Ledger.**  All over `TypeInv`, which adds to `TypeOK` that the tables are finite (the
sums need it).  A step is an approval, a close, or a *quiet* step that writes neither
positions nor outcomes (`StepKinds`).

| Theorem | Inductive invariant, besides `TypeInv` |
|---|---|
| `LedgerTypes` | – |
| `LedgerOpensOne` | itself: approval requires the recounted positions to be none |
| `LedgerBreakerHolds` | itself |
| `LedgerTablesAgree` | itself: `OutcomesSettlePositions` is inductive |
| `ShortSignalsOpenOnce` | tables agree, and a short id is stored as it was submitted (`IdsKept`); **assumes `LongIds = {}`**, which the run `ledger_long_ids` shows to be needed |
| `LedgerReconciles` | tables agree (the outcome booked is a new one), and a sum grows by the element added |
| `LedgerRiskBounded` | starting equity is the profile's (`Started`), one open position (no other close lowers the equity underneath) |
| `LedgerOpensBelowCaps` | `Started`: the engine's baseline is the ledger's |
| `LedgerStopsInForce` | `Started`, one open position, risk bounded, `Solvent` and `OutcomesPast` |
| `LedgerPerformanceExact` | itself |
| `LedgerSizesAreLargest` | – ; the columns that `refresh` hands on are those `SizeIsLargest` assumes |
| `LedgerSuspendedUntilReview` | – ; by the kind of step, over everything that may write an account |
| `WeeklyCapSuspendsInTheWeek` | that of `LedgerStopsInForce` |
| `LedgerImplementsLossBudget` | `BudgetInv`: one open position, tables agree, `OutcomesPast`, volumes on the broker's grid |
| `LedgerLossesWithinCaps`, `LedgerOpenRiskWithinCaps` | `BudgetInv`, and the invariant of `LossBudget` under the refinement mapping |

`LedgerStopsInForce` is the deepest.  A new day or week must not create a stop that
nobody refreshed: its losses sum to nothing because outcomes lie in the past
(`OutcomesPast`), and nothing is below a cap only if the equity is positive
(`Solvent`), which holds because an open position risks at most a two-hundredth of the
baseline (`RiskIsSmall`, from `LedgerRiskBounded`).

`LedgerImplementsLossBudget` is the refinement.  An approval is `Reserve`: what `refresh`
sums up since Monday is all that the current week's budget counts (`BookedNow`, with
`OutcomesPast`), nothing else is reserved, and the baseline is at most the profile's
equity, so what the sizer may spend fits each of the four budgets
(`ApprovalFitsBudgets`).  A close is `Settle`: its outcome is new (tables agree) and adds
its loss to exactly the budgets that count it (`BookedAdds`), and the account is flat
again (one open position).  Everything else is `Tick`.

`LedgerLossesWithinCaps` and `LedgerOpenRiskWithinCaps` read the result back into the
ledger's own tables.  They are stated without the abstract variables: the outcomes of any
day or week sum to no more than the profile's daily and weekly fraction, in the account
and for each provider (`LossesWithinCaps`), and what the open position may still lose
fits beside those of today and of this week (`OpenRiskWithinCaps`).  No run lists them;
`ledger_stops` and `bridge` check the refinement they follow from.

`WeeklyCapSuspendsInTheWeek` is what remains of the property that `ledger_week_end`
refutes: a step that brings a week's losses to the cap suspends the account whenever it
ends in that week.  The midnight inside of a close is then the *only* way in which the
code departs from "suspend trading until review".  `LedgerSuspendedUntilReview` is the
other half of that sentence: only `ReviewAccount` ends a suspension, and until then no
position is opened in the account.

**Bridge.**  All about `BridgeSpec`: manual requests, closes, reviews, research edits and
snapshots run between any two deliveries, in any deployment.  A step of the ledger is
reduced to one of `Ledger` (`LedgerSteps`), so that its invariants carry over; a delivery
either opens a position of a checked volume or leaves positions and outcomes alone
(`AlertOpens`, `AlertKeeps`, from `AlertSteps`).

| Theorem | Inductive invariant, besides the types |
|---|---|
| `BridgeTypes` | the types of the bridge's tables and of the ledger's, with finite tables |
| `AlertsEvaluatedOnce` | `RowsById`: rows of normalized_signals have distinct ids, which are the ids of their alerts where these have one |
| `FirstAnswersAreFinal` | `RowsById`; an action property: the stem of a string id takes precedence over the header, so the key found is the same one |
| `BridgeOpensWhatWasChecked` | itself: a position keeps its signal, account and volume when it is closed |
| `BridgeKeepsRealEquityOut` | `RealLedger`: where no synthetic evidence may be accepted, the bridge's provider is never synthetic, so no manual request opens a position for it either; tables agree and equity reconciles |
| `BridgeImplementsLossBudget`, `BridgeLossesWithinCaps`, `BridgeOpenRiskWithinCaps` | `BudgetInv` of the ledger |
| `BridgeTradesOneByOne` | `BudgetInv`, of which `OneOpenPosition` and `OutcomesSettlePositions` are parts |
| `BridgeBreakerHolds` | itself: the row of the bridge's provider is created once and never replaced |
| `BridgePerformanceExact` | itself: a delivery writes neither outcomes nor performance rows |
| `BridgeSuspendedUntilReview` | – ; an imported equity leaves the status alone, and the evaluation behind a preview is refused |
| `BridgeStopsInForce` | every stop is in force (`AllEnforced`), an open position risks less than the current equity (`Covered`) and little beside the profile (`Modest`), `Solvent`, `BudgetInv`; **assumes `EquitiesSuffice`** |

What a delivery may do to the ledger's tables is stated once (`AlertEffect`, from
`AlertEffects`); what carries over is checked against it.

`BridgeImplementsLossBudget` is not a corollary of `LedgerImplementsLossBudget`.  A
delivery replaces the account's equity *and* its starting equity, so `Started` is false of
the bridge; `BudgetInv` does without it, because the baseline is at most the profile's equity whatever is imported.
And a delivery may be previewed before midnight and evaluated after it, with the losses of
a new day: its volume is the one of the preview, so it fits what was left on the old day.

`EquitiesSuffice` says that every reported equity exceeds a two-hundredth of the
profile's, which the run's 150000 does.  The code does not enforce it, and the theorem is
false without it: with an equity of 100 as well, TLC finds that it is imported under an
open position, the loss of that position makes the equity negative, and the stop of the
next day is missing until somebody refreshes.  So the hypothesis marks an edge of the
bridge, not a convenience of the proof.  Three properties of the ledger do *not* carry
over, with or without it, and nothing here claims them of the bridge: `OpenRiskBounded`
and `OpensBelowCaps` are measured against an equity that an import may replace by a
smaller one, and `EquityReconciles` counts from an equity that is gone.
`SignalOpensOnce` has its place taken by `AlertsEvaluatedOnce`.

**Backtest.**  One invariant, `BookInv`, carries four theorems: every trade of the book,
and the open position, is in order.  None of the properties is inductive, since they speak
of closed trades; what makes a trade good when it closes is known of the position while it
is open (`PositionInOrder`): no candle since its entry touched a level (`Untouched`), stop
and target are one and two distances away and the risk is that of the stop (`Priced`),
and that risk fits the caps with the losses before it (`FitsCaps`).

| Theorem | Argument |
|---|---|
| `BacktestTypes` | `BookInv`, `SamplesInv` and the two latches |
| `FillsArePessimistic` | `Untouched` up to the candle before, and the order of the cases of `Fill` and `EntryFill` |
| `EstimatesHoldWithoutGaps` | `Priced`: the loss at the stop and the costs are the estimate |
| `EntriesFitCaps` | `ApprovalFitsEveryBudget`, and that later trades do not change what was booked before (`FitsCaps` counts the first trades only) |
| `SamplesSplitTheCurve` | `SamplesInv`: exits and observations are in order of time, so that what is out of sample is a tail; by induction over the places that `Nets` selects |
| `DrawdownsAreLargest` | `Measures`: after `k` results the peak is the highest equity so far, and the drawdown is reached by a fall and is at least every fall; by induction over the results |

`Nets` and `Summary` are recursive functions.  That they satisfy their equations is itself
proved (`IterationExists`), as it is for the sums, and so is the induction over an interval
(`UpTo`), by a minimal counterexample.  A fall to a negative equity is left out of
`DrawdownIsLargest` because from a *lower* point it is a larger share than from the peak.

**Store.**  `StoreTypes`, `StoreChainVerifies`, from `StoreInv`.  `AuditVerifies` is not
inductive, since what is committed is some transaction's view.  The strengthening says
that *every* view verifies and that a thread about to insert an entry still holds the
last hash of its own view; `Levels` adds that a thread about to enter a transaction is
inside of at most one, which bounds the depth by two.  The lock is not used: it decides
whose view is committed, not whether a view is a chain.

`StoreAnswersTrue`, `StoreIsAtomic`, from `AtomicInv`.  Here the lock is needed: only its
holder has a view (`Exclusive`), and that view is what is committed *now*, followed by the
sections of the request that its thread has behind it (`Place` and `Kind` say which these
are, `Content` that the view is that and nothing else).  So a commit appends one whole
history to what is committed, which is a step of `AtomicStore`; a rollback, a timeout or a
crash appends nothing, which is a stutter.  A success is answered only behind the commit.
The entry that a restart adds belongs to no request, since `StoreAssumption` keeps its
name, `"seed"`, apart from theirs.

**Migrations.**  `MigrationTypes`, `MigrationsWhole`, `ServersFindAll`, from `MInv`, for
any number of processes, versions and statements.  What a process takes for applied is
recorded (`AppliedRecorded`), although others migrate meanwhile; inside a script exactly
its first statements are in the draft (`Inside`), who is in a transaction, of a script, of
`seed` or of a request, is who holds the lock (`LockHeld`), and of the first script what
its runner has executed is in the schema (`FirstPart`); accounts are never stored without
the fixtures (`SeededTogether`), and a process seeds only what is migrated (`Prepared`).

**Terminal.**  `TerminalTypes`, `TerminalOutagesNoticed`, `TerminalExposureBlocks`, from
`TerminalInv`, for any number of orders and positions.  Neither safety property is inductive.  An
operation that passed its status check has reached the terminal (`Noticed`); from then on
the library's view is right about every item that does not move (`Informed`); so one that
stays can be missed only while its table has still to be read (`Watched`).
`TerminalOutagesEnd` proves a temporal property, which needs no fairness: a process that
has a session knows itself connected (`Initialized`), so while the terminal is reachable
every status is good; a delivery already refused can only be answered, and no other one is
refused (`ReachableStep`).  Either the first happens and all later deliveries are
`Unrefused`, or it never does and nobody is answered at all.

**Evidence.**  `MissingIsUnsound` needs no induction: it says that the four validators
together look at every field and every stamp (`MissingFails`).  `MissingNeverTrades`
carries it through the engine: with anything missing, `EngineReasons` is empty for no
account, provider or offer.  `TighterAcceptsNoMore` is what remains of the property that
`evidence_policy` refutes: a policy that tightens every limit (`Tightens`: ages, minimum
score, the limit and weight of each field) accepts nothing that the defaults refuse.  So
what fails there is the range that `Policy.validate` allows, not the direction of any
comparison in the engine.  `WorseIsNeverBetter` is an action property,
from `RungsInv` (rungs lie on their ladders).  A step leaves no field better (`NoBetter`),
and a stamp that is not in the future only ages, so what is sound after it was sound before
(`SoundBefore`); then all numbers are known (`SoundIsKnown`), and the score falls summand
by summand (`ScoreFalls`, with `WholeSumMonotone`).

Only model-checked: `LocalRequestsAnswered` and `RestartServes`, liveness under fairness,
hence `ENABLED`, which is out of the prover's reach.  The three findings are false and stay
with TLC; of two of them the largest true part is proved (`WeeklyCapSuspendsInTheWeek`,
`TighterAcceptsNoMore`), of the third under its hypothesis (`ShortSignalsOpenOnce`).

Where induction is needed (sums, results,
trades), the proofs argue with minimal counterexamples over finite sets, since the induction
theorems of the library take an operator as a parameter.

## Not modelled, and why

- decisions, veto_reasons, provider_status: reports that no rule reads.  The contents of
  audit entries; their chain is in `Store`.
- In the backtests: a refusal for the spread, which is one value per request and then
  refuses every candidate, and an observation with a field that is no number or date.
  `Evidence` counts the ratio of reward to risk in whole percent of three, so that its
  lower bound of one is 33 there.
- Symbol mappings and field syntax of a webhook: the model accepts or rejects an alert.
  Two string ids with the same first 194 characters share a key in `Bridge`, but the run
  has one string id only.
- The reads of the MT5 adapter that nothing calls (history, rates, margin, profit);
  `order_send` always refuses.
- Routing, tokens, origin checks and static files of the HTTP layer; the command line.
- The research score of a broker, the win rate and its interval (floating point),
  averages, the profit factor, and the conversion of a result in yen.
- `withdrawal`: appends a record that no rule reads.
- Wording of reasons, formatting, parsing of decimals, evidence scores, the dashboard.
- A clock that is set back.

## Plan

In this order; done parts are marked.

1. (done) `RiskEngine`, `LossBudget`, `Ledger`, `LedgerBudget`; their proofs, with the
   refinement.
2. (done) `Store`, with the audit chain, and `AtomicStore`; types, chain, answers and the
   refinement proved.
3. (done) `Bridge`: intake, idempotency, preview, `order_check`, evaluation, redelivery.
4. (done) `Evidence`, `CandleBacktest`, `Analytics`; `Terminal` and `Migrations` with proofs.
5. (done) Theorems about `Bridge`, `CandleBacktest`, `Analytics` and `Evidence`: every
   safety property that a run checks.
6. (done) Theorems that say more than the runs do: the caps in the ledger's own tables,
   the true parts of the findings, suspension until review, no larger size after a loss,
   and the ledger's properties under the bridge.

What a breach of the week's end costs needs no theorem of its own: `LedgerLossesWithinCaps`
holds there, too, so the account that stays active loses at most the new week's cap.  That
a policy tighter in every limit *approves* no more is no theorem: with less budget the size
is smaller, and a smaller one may pass the cost and margin rules that a larger one fails.
`LossesNeverEnlarge` and `TighterAcceptsNoMore` are the parts of it that hold.
