# Verification of the SmartGold AI Bridge

This directory holds a TLA+ model of the bridge in `src/ai_bridge`, the TLC
configurations that check it and the TLAPS proofs about it. All paths below are
relative to `src/ai_bridge/app` unless they start with `src/`.

## 1. The system

TradingView fires an alert of the Pine indicator and posts it to the bridge. The
bridge (FastAPI under uvicorn, two worker processes in the shipped deployment)
authenticates and throttles it, fetches macro context, asks an LLM for a decision,
runs safety guards, tells a Telegram chat, hands the trade to a broker, and writes
one row to SQLite. Two background tasks run beside the requests: the breakeven
reconciler and the heartbeat monitor.

| Component | State it keeps | Operations | Talks to | What is hard |
|---|---|---|---|---|
| Webhook pipeline, `api/webhook.py` | `_cooldown` per process; locals of each handler | one handler with eight awaits in a row, one error path per stage | all of the below, in order | handlers of one worker interleave at every await; workers share only broker, database and chat; a worker may die at any await, also between the commit of a row and its answer |
| Decision engine, `engine/decision_engine.py` | attempt counter | retry loop, coercion of replies, smart fallback, confidence policy | LLM client | three error paths with the same counter; replies of any shape |
| LLM client, `llm/minimax_client.py` | one HTTP client per call | `chat`, `as_json`, mock mode | MiniMax API | failures of every kind |
| Guards, `guards/` | none (the chain is rebuilt per request) | five guards, `GuardChain.run` | called by the webhook | order, short circuit, fail-open |
| Executors, `executor/factory.py`, `mt5.py`, `base.py` | process-wide executor, MT5 connection | `build_executor`, `execute`, `reconcile_breakeven` | broker terminal, in threads | an order may live although its answer is an error |
| cTrader, `executor/ctrader.py`, `ctrader_client.py` | shared MCP session: HTTP client, session id, tool table | connect, call with one reconnect | cTrader MCP server | reconnecting takes no lock; connections come and go under one session; an executor that half works; calls to methods the client does not have |
| Lifecycle, breakeven loop, `main.py`, `risk/breakeven.py` | failure counter | startup, loop with backoff, shutdown | executor | reconciling against moving prices; backoff; the loop ends for good when the executor was noop at startup |
| Heartbeat monitor, `monitor/heartbeat.py` | `_last_signal_ts`, alerted flag, task | messages, mark, silence loop | Telegram | a timer racing signals; one monitor per worker |
| Notifier, `notifier/telegram.py` | none | entry message, execution alarm | Telegram | a failed send is a `False` |
| Signal log, `storage/signal_log.py` | the `signals` table, `_initialised` per instance | schema and migration, insert, outcome update, statistics, win rate, listings | SQLite, in threads | instances of several processes on one table; nothing spans two statements; a refused `ALTER` is passed over |
| Dashboard, `api/dashboard.py`, `ui/` | none | listings, statistics, manual outcome, gold price | signal log, macro context | two users, one row; a plan read before the outcome is written |
| Trade plan and risk, `risk/` | none | stop policies, sizing, plan, P&L | webhook, MT5 | bounds, rounding, zero |
| Backtest, `backtest/` | none | bar loop, summary, prompt evaluation | offline | bar order, same-bar stop and target |
| Macro context, `context/market_context.py` | none | three ladders of providers at once, gold price | several web APIs | every source may fail, and some failures raise |
| Pine indicator, `src/pinescript/` | position, bars since entry | entries, exits, alerts per bar | TradingView | entry and exit on one bar |

What makes each component correct, in one line: the *webhook* takes up every alert
at most once, trades only with authority and leaves a trail of every order; the
*engine* always ends in a decision that respects the policy; the *guard chain*
decides as if all guards had been asked; the *executors* place at most one order per
signal; the *breakeven reconciler* only ever tightens a stop; the *monitor*
alerts once per silence and only then; the *log* never loses or mixes rows
and leaves no column out but one whose `ALTER` was refused; the *plan* is the order, and
its lot within the budget unless the lot is fixed or the broker's minimum; the *simulator* never looks ahead; the *macro context*
says where its figures are from; the *indicator* closes every position it opened, once.

## 2. The models

### Decision, DecisionEngine

`Decision.tla` holds the pure part of `decision_engine.py` as operators:
`SmartFallback`, `ParseAndValidate` with the clamp of `Confidence` (a percentage;
NaN becomes 100 as in Python's `min(1.0, nan)`), `ApplyPolicy`, and
`EngineResults`, the set of all decisions `evaluate_signal` can return for a signal.

`DecisionEngine.tla` is one call of `evaluate_signal` as a machine: `Unconfigured`
(the early return), `Start`, `ReplyArrives`, `AttemptFails` (the three error paths of
the loop, which treat the counter alike, and the exhausted end), `WakeUp` and
`ReplyNotAnObject`. The last one is a path the docstring denies ("Never raises"):
JSON that is a list or a number passes `as_json` and raises in
`_parse_and_validate`, outside the `try`; a huge integer for the confidence does the
same in `float()`. The webhook turns it into a 500, so the pipeline stays sound.

### Guards, GuardChain

`Guards.tla` has one operator per guard, the default chain and `ChainVerdict`, what a
set of verdicts amounts to. `GuardChain.tla` is the loop of `GuardChain.run`, one
iteration per step, with the set of guards that raise chosen at the start.

### SignalLedger, Webhook

`SignalLedger.tla` is the abstract promise: each signal is refused or taken up once;
while it is open, and only then, at most one order and then at most one row; it ends at
some time, with or without them.

`Webhook.tla` is the pipeline. `pc[r]` names the await at which the handler of
request `r` stands; code between two awaits is one step, as on an event loop:

| Action | Code |
|---|---|
| `RefuseBody`, `RefuseSecret`, `RefuseCooldown`, `Admit` | the front up to the cooldown; its awaits (body, lock, error message) touch nothing shared |
| `MacroFetched`, `StageCrashes` | macro context and the two `except` paths to a 500 |
| `Blocked`, `Cleared` | a decision, the plan and the guards, then the block branch or the notification stage |
| `Announce` | entry message or skip message |
| `NothingToExecute`, `Executed`, `ExecutorRaises` | `execute`: a skip or the noop executor, an order or an error (with the order live or not), an exception outside any `try` |
| `Report` | execution alarm and executed message |
| `Record`, `RecordFails` | the insert in its thread: the row is committed and its id known, or nothing is written (`storage/signal_log.py:172`) |
| `Conclude` | the handler goes on with the id and answers (`api/webhook.py:265`) |
| `Tick`, `Crash`, `Restart` | time, death and restart of a worker process |

The decisions come from `EngineResults`, which `DecisionEngine` is proved to return,
and the guard verdict from `DefaultVerdict`, which `GuardChain` is proved to compute.
`cooldown` and `lastSignal` are per worker and reset by `Restart`; `broker`,
`journal` and `outbox` outlive every worker. `outbox` holds messages handed to the
sender: whether Telegram delivers one is its own business, and only the result of
the entry message is kept (`notified`). `admittedAt` and `era` are history.

### Breakeven

`Breakeven.tla` is the reconciler of open positions. Each member of `Loops` is a worker
process that runs `_breakeven_loop`; `pc` names the call of the terminal it is about to
make, because the scan runs in a thread while the market, the broker and the other
process go on:

| Action | Code |
|---|---|
| `Scan` | `positions_get`: one snapshot for the whole scan (`executor/mt5.py:291`) |
| `ReadTick`, `Decide` | the tick of one position; its bars, the ATR and `check_breakeven_long` or `_short` on snapshot, tick and bars |
| `NoData` | a tick or bars are missing: `continue` |
| `Shift`, `ShiftFails` | `order_send` of the new stop, done or not |
| `CycleEnds`, `CycleRaises`, `WakeUp` | the return of the scan (also when the terminal is not ready, which counts as success), an exception with its backoff, the pause |
| `Open`, `MarketMoves`, `NewBar` | positions opened by `execute`, the market point by point with stops that are hit, a changed ATR |

The buffer (`sl_breakeven_buffer_atr_mult` times ATR) is one number; prices are points
above a base. `best` and the fields `risk` and `shifted` of a position are history: the
code itself forgets the original risk and takes the distance to the current stop for it.
Several loops stand for several processes on one MT5 account. Each worker process runs a
loop of its own, but the shipped image runs on Linux, where the MT5 package does not exist,
and the cTrader executor modifies nothing; the case needs a Windows or Wine host.

### CTraderSession

`CTraderSession.tla` is the MCP session of one process. `execute` of the request
handlers and `reconcile_breakeven` of the loop share one executor, its client object and
the connect lock; each coroutine gives way only at an await, which is where `pc` has it.

| Action | Code |
|---|---|
| `FastPath`, `WaitForLock`, `AlreadyConnected`, `NewClient`, `Closed` | `_lazy_connect`: the two looks, the new client, the failure path (`executor/ctrader.py:57`) |
| `InitAnswered`, `Notified`, `ListAnswered`, `ConnectFails` | the three requests of `connect()` (`executor/ctrader_client.py:81`), for `_lazy_connect` (`lock = k`) or `_reconnect` |
| `Answered`, `SessionExpired`, `Reconnect`, `ExpiredAgain`, `CallFails` | `call_tool` with its one reconnect and retry, and what `reconcile_breakeven` does with the error |
| `Reconciled` | the pass over the positions |
| `Expire` | external: the server forgets a session |

A session is initialised once through each HTTP client (`httpx.AsyncClient`) and named by it.
The HTTP client is not the connection: it holds one at a time and opens another without a word
when that is lost, and the session id goes along. The code notices nothing of it but a request
that fails, and neither does the model. What `execute` does after `_lazy_connect` has no await: it calls `get_account_info` and
`place_market_order`, which the client does not have, and reports the AttributeErrors.
`call_tool`'s own `connect()` is never needed, because a ready client is initialised, and has no
action. A client that nobody refers to any more is collected and gives its name back.

### Heartbeat

`Heartbeat.tla` is the silence watch of one process with an explicit clock. Processes
share nothing here, so one is the whole model.

| Action | Code |
|---|---|
| `Boot`, `Serve`, `Stop`, `Stopped` | the lifespan (`main.py:92`): the monitor is made and greets, the loop is started, the farewell is sent, the loop is cancelled |
| `Check`, `Sent` | one round of `_heartbeat_loop`: the look at the clock, and the return of `notify_silence` with whatever result |
| `Signal` | `mark_signal_received`, which `Webhook` shows to be called for every alert (`SilenceClockFed`) |
| `Tick`, `Crash` | time and death of the process |

`Tick` lets no due step wait and no message take longer than `SendTime`. `age` stops at
`Horizon`, beyond every time it is compared with; `asked` is history.

### MarketContext, Analysis

`MarketContext.tla` is one call of `fetch_macro_context` or `get_gold_price`. Every
instrument has its ladder of providers (`Ladder`); those that need a key are passed over
without one (`access` has the keys in `.env`).

| Action | Code |
|---|---|
| `Disabled`, `Begin` | `ENABLE_MACRO_CONTEXT`, and the three coroutines given to `asyncio.gather` |
| `Answer` | a provider of some instrument replies: closes, nothing of use, or a shape the parser trips over; what its `except` clause does not name is raised (`Catches`) |
| `PassOver` | the `if settings.<key>` of the ladder: no key, the next provider's turn |
| `Collect`, `DividesByZero` | the context is put together, with `partial` and the sources |
| `Quote` | the first valid gold price, or a `RuntimeError` |

The replies of the three ladders interleave, and after an exception the other two go
on unread. `Analysis.tla` composes it with `DecisionEngine`: the webhook's two awaits
before it has a decision, one after the other, each with its way to a 500.

### Risk, Simulator

`Risk.tla` holds the arithmetic of a trade as operators over whole price quanta: the three
stop policies and their fallbacks, the lot, `BuildPlan`, and the bracket of the order as
each executor computes it a second time (`CTraderOrder`, `MT5Order`). A PSAR or ATR of 0 is
a missing one, as the code reads it; a negative budget stands for an equity hint that is not
given, with which the plan has no lot. `FixedLot` is `MT5_FIXED_LOT`.

`Simulator.tla` walks one signal through bars that are chosen as it goes. `Skip` stands for
the signals that make no trade; `StoppedOut`, `TookProfit` and `IndicatorExit` are the three
ways out of the loop in their order; `StaysOpen` is the rest of its body, the breakeven
check, and the timeout at the last bar. Signals do not affect each other, so one is all.
`FirstTouch` is the reference it is compared with: a definition over the whole path, which
knows nothing of `stop` and `shifted`.

### Journal

`Journal.tla` is the `signals` table with the calls on it, one statement per step. A call of
an instance that has not done so first runs the schema script (`Script`), then the `ALTER`s
(`Alter`), then marks itself (`Initialised`); only then comes its own work. Every worker has an
instance for the webhook and one for the dashboard. The database may refuse a statement.

| Action | Code |
|---|---|
| `Insert` | `_insert_blocking` with the plan and the order of `Risk` |
| `ReadRow`, `WriteOutcome` | `PATCH /api/signals/{id}/outcome`: `get_by_id`, the reckoning from the plan, one `UPDATE` |
| `Select`, `Answer` | the queries of `stats` and `winrate_by_signal`, one by one |
| `Age` | a row leaves the window of the queries |
| `ScriptRefused`, `StatementRefused` | the database is locked or full: the exception goes to the caller |
| `AlterRefused` | the same at an `ALTER`: passed over like one whose column is there (`storage/signal_log.py:106`) |
| `Breaks` | a statement names a column the table has not |
| `Crash` | a worker dies, its calls and what its instances know with it |

The fifteen columns that may be missing are four groups, each added by the versions named in the
schema's comments; `refused` is history. The paged listing changes nothing and is left out.

### Indicator

`Indicator.tla` is the Pine script from the trend state to the alerts, one confirmed bar per
step. A bar is what the script asks of it: where it closes against EMA 20 and EMA 50, where
the bar before closed against the EMA 50 of this one (`Follows` has what that leaves possible), the
trend, PSAR above or below, the volume class. The order inside a bar is the script's:
`Opened`, `Counted`, `ExitReason`, the alerts, the reset. `opener` is history.

Operators whose comment starts with *Fault* are not part of any
specification: each is a definition as a plausible bug would have it, and putting it
in place of the real one breaks the property it is listed with in PROJECT.json.

## 3. What the runs check

| Run | Question | Result |
|---|---|---|
| `engine` | `ContextHonest`, `OnlyMalformedRaises` for every set of keys and every pattern of failing providers; then `PolicyRespected`, `FallbackOnlyWhenExhausted` for every signal, reply and failed call; `RequestEnds` (liveness) of both | holds |
| `guards` | `VerdictCorrect`, `StrictestReduction`, `LossLimitBlocks` on every context around a threshold and every set of raising guards | holds |
| `webhook` | `CooldownHolds`, `DropJustified`, `OrdersAuthorised`, `NoSilentOrder`, `JournalTruthful`, `SilenceClockFed`, `ImplementsLedger` (refinement), `AdmittedEnds` (liveness) | holds |
| `breakeven` | `TriggerHonoured`, `NoLossAfterShift`, `NeverLoosened`, `Protected` (liveness) for one loop and a moving market | holds |
| `breakeven_two_workers` | comment `risk/breakeven.py:51`: never loosen an already-tightened stop, where two processes reconcile one MT5 account | **violated**: two loops with scans of different moments |
| `session` | `NoSharedClient`, `NoStaleSession`, `ExecutesEnd`, `ComesBack`, `OnlyHalfOpenStops` for a handler and the loop, with every request failing or not | holds |
| `half_open_session` | comment `executor/ctrader.py:306`: after a failed reconnect the next cycle starts fresh | **violated**: if only `tools/list` fails, the client counts as connected and has no tools, for ever |
| `heartbeat` | `OncePerSilence`, `NoticedInTime` over boots, signals, slow and failed sends | holds |
| `simulator` | `FirstTouch`, `RiskBounded` for every path of bars, side, stop policy, exit mode, with and without breakeven | holds |
| `journal` | `MissingOnlyIfRefused`, `OutcomeWhole`, `ReadingsBracketed` for two calls of any kind that interleave, on a database that is new or of version 1 or 2, with a refused statement or a crash | holds |
| `migration_v1` | `signal_log.py:8`: older databases are migrated in place | **violated** for the table of the first version: the index on `outcome` fails before any `ALTER` |
| `indicator` | `HeldNoLonger`, `ExitsAnswerEntries` for every sequence of bars and both inputs | holds |

**Bounds.** `engine`: three retries as in the code; raw confidences below, at and
above the threshold and the ends of the range, NaN and text; every subset of the four
keys. `guards`: for every threshold a value on each side. `webhook`: one worker, two
requests, an entry in a quiet and in a wild market and an exit (so keys differ), a body
that is refused and a wrong secret, a cooldown of 1 in 3 ticks, one crash and restart. Two
requests are what the safety properties quantify over, and they relate workers only through
`broker`, `journal` and `outbox`, to which every request adds its own entries alone; the
proofs, the refinement among them, hold for any number of both.
`MaxClock` and `MaxBoots` bound time and restarts. No symmetry is declared where
liveness is checked. `breakeven`: one
position (the check of one never reads another), prices 0 to 5, initial risks 1 and 2
and buffers 0 to 2, so that a stop is hit, shifted to the entry, shifted beyond it and
shifted again; a trigger of 1 R; five failures in a row, where the backoff meets its
cap. `session`: one handler, whose requests follow one another, and the loop. Only a
holder of the lock or the loop touches a client, so a second handler adds waiting at the
lock alone (the safety theorems cover any number). Three client names are enough: the
executor's, the one the loop still holds, the one being made; four HTTP clients, one more for the
request of a client that has been given a new one. `heartbeat`:
a sleep of 4, a send of up to 2 and the threshold of 6 they need; with 5 the run fails, so
the bound of `NoneOverlooked` is the exact one. The clock needs no bound but `Horizon`.
`simulator`: five prices with the entry in the middle, stops of one and two quanta, a
target of 1 R, a trigger of half an R (tenths are exact), walks of up to three bars that end
by their data or by `max_bars`: three bars are one to earn a shift, one to feel it, one to come too late.
`CHECK_DEADLOCK FALSE`: a walk is over when it is over. `journal`: one worker with the webhook's and the
dashboard's instance, two calls at a time, one fault (a refused script, `ALTER` or statement, or a
crash), a database that is not there or of version 1 or 2 (one of version 3 differs from a new one
by its old row alone), up to two rows, one of them perhaps old and without a plan; an exit price
that gains and a body with money alone. Calls are symmetric. Two calls
suffice for what two statements of one call can find changed, since each statement is atomic; a
second row is what a statement could confuse. The two instances migrate as those of two workers
would, for each has its own `_initialised`; the proofs cover any number of workers and faults.
`migration_v1` needs no fault. `indicator`: the shipped `exit_min_bars` 4 and
`exit_max_bars` 6; nothing else is bounded.

**Fairness.** `Analysis` and `Webhook` assume weak fairness of a coroutine's
own step: the HTTP clients have timeouts (`settings.minimax_timeout`, 5 to 15 s for the
providers, 10 s for Telegram), yfinance runs in a thread that returns, the LLM loop has a retry limit, SQLite a busy timeout, and asyncio is
fair to ready tasks. Nothing is assumed of the clock, of arrivals, of crashes or of
restarts. `Heartbeat`,
`Journal`, `Simulator` and `Indicator` need no fairness: `Heartbeat`'s promise is a bound on
time, theirs are safety. `Breakeven` assumes in addition strong fairness of `Scan`, `ReadTick`,
`Decide` and `Shift`: the loop repeats every cycle for ever (`while True`, every
exception caught), and a terminal that is asked again and again answers at last. A
terminal that never answers protects no position, so this cannot be weakened. Nothing
is assumed of the market. `CTraderSession` assumes that every request ends (the
client's timeout of 30 s), that the loop comes round again and that a coroutine waiting
for the lock gets it (`asyncio.Lock` is first come, first served, so a lock released
again and again reaches every waiter: strong fairness of `Acquire`). `ServerFairness` adds
that a request made again and again is answered in the end. Handlers need not come, and
sessions need not expire.

## 4. What is proved

Proofs hold for every value of the constants: any number of workers, requests and
boots, any cooldown, thresholds, guard settings and set of replies, any market.

* `AnalysisProofs`, from the lemmas on to the two stages together:
  * The clamp stays in range, the policy is sound and only ever turns a trade into a skip,
    every engine result is a well-typed decision and within policy.
  * Of the engine alone: types, `PolicyRespected`, `FallbackOnlyWhenExhausted`, and
    `EngineAbstraction`: only decisions of `EngineResults` are returned, which is what
    `Webhook` builds on. The invariant ties `slept` to the attempt: after attempt
    *a* the pauses amount to the triangular number of *a*.
  * Of the macro context, for every set of keys: `ContextIsHonest` and `FailuresDegrade`.
    Both speak of finished calls; the invariant says of the ones under way that `asked` is a
    prefix of the ladder in which a missing key is marked as such and only the last entry may be
    of use (`Climbed`), so that its length tells the source, and that gather waits for no
    task that has raised (`GatherSound`).
  * Composed: `EngineInside` and `ContextInside` (each stage behaves as its own specification),
    `ContextBeforeDecision` (the context is finished and changes no more once the engine is
    asked), and from them `RequestDecidesSoundly`, which is what a finished request may rely on.
* `GuardChainProofs`: types, `VerdictCorrect`, `StrictestReduction`, `LossLimitBlocks`, and
  `BlockReasonIsLast` (the webhook's `results[-1]`, `webhook.py:193`), for every chain.
  The invariant says that the results are the verdicts of a prefix of the chain, that
  no verdict but the last blocks, and that `combined` is below 100 exactly if a
  result reduces; for `StrictestReduction` also that `combined` is the smallest of their
  factors, and `LossLimitBlocks` follows from `VerdictCorrect`. `DefaultChainDecides`: over
  the chain of `build_default_chain` this is the `DefaultVerdict` that `Webhook` uses.
* `WebhookProofs`:
  * `CooldownCorrect`. `CooldownHolds` is not inductive: it says nothing of the dict.
    `StampsCover` does: a key's stamp is as late as every admission of the current boot
    under it, and eras never exceed the boot count, so a restart makes them history.
  * `OrdersAreAuthorised`, `NoOrderIsSilent`, `JournalIsTruthful` from one invariant,
    `FateInv`, a conjunction per request of `Authority` (what its stage entitles it
    to), `Trail` (the messages and rows an order must have by now) and `Rows`. A step
    of one request leaves the fate of the others alone (`FateFrame`).
  * `LedgerImplemented`: the refinement, step by step, from the same invariant: an
    order is placed only from `"execute"`, where `Authority` excludes an earlier one.
  * `SilenceClockIsFed`, from `SilenceInv`.
  * `DropsAreJustified`, an action property: a stamp found by a step that refuses was put
    there by an admission of the same boot (`EarnedInvariant`), and a restart clears both.
  * `OnlyVolatilityCounts`: with limits of the usual signs, the ATR guard alone decides whether an
    alert is blocked and none is ever reduced; the other four see constants or nothing.
* `BreakevenProofs`, for any number of loops and positions, any buffers and trigger:
  * `TypeCorrect`: the pause is always one of the finitely many powers of two up to the cap.
  * `ShiftsAreDeserved` and `ShiftsLockInNoLoss`, from `IInv`: an unshifted position has
    its stop at its risk (`AccountSound`), a snapshot tells the truth about all that
    never changes and no shift that has not happened (`SnapshotSound`), and a stop
    about to be sent is deserved already (`WorkSound`). The last part is what makes
    the step inductive: the decision is made steps before the modification.
  * `OneLoopNeverLoosens`: with one loop, what a scan has read of a stop still holds
    (`StopsUpToDate`). The theorem assumes one loop and the run with two shows why.
* `CTraderSessionProofs`, for any number of handlers: `ClientsAreNotShared` and
  `SessionsAreNotStale`. `_reconnect` takes no lock, so the lock alone proves
  neither. The invariant says what does: who connects under the lock works on a client
  made under it, whose tool table is empty (`LockSound`), and the loop starts a call only
  on a client with tools, whose session was made through its present HTTP client (`ToolsSound`). Hence
  no two coroutines stand on one client (`Apart`).
* `HeartbeatProofs`: `WarnedOnce` for all times, and `NoneOverlooked` if the threshold is at
  least a check's sleep plus the longest send. The invariant bounds the age a signal can
  have at the next check (`AgeSound`): a flag left from an earlier silence is at most one
  period old when it is looked at, and so taken back before a new silence is over the
  threshold.

* `RiskProofs`, for any multiples, fallbacks, prices and budgets:
  * `HybridStopIsClipped`, `StopDistancePositive`, `PlanWithinBudget`: the stop is within its
    multiples and never zero. Without a fixed lot the plan's lot stays within the budget unless it
    is the broker's minimum; a fixed lot is taken whatever the budget, within the broker's limits;
    without an equity hint there is none. `CTraderOrderIsThePlan` and `OrdersAreBracketed` compare the two
    places that compute an order, for every reward that is not negative; a negative one is
    the exception listed below.
  * `TradesAreBounded`, from `StopSound`: the stop is the initial one or the buffered one, and
    which of them `shifted` tells.
  * `FirstTouchWins`. `FirstTouch` speaks of finished trades only and is not inductive; `Walk`
    says of the ones under way that no bar so far touched anything and that the stop is
    shifted exactly if some close so far has earned it. `OneMoreBar` shows that a new bar
    changes nothing said of the old ones.
  * `TypeCorrect` of `Simulator`.
  * Of the journal, for any number of instances, calls and rows:
    * `MigrationSucceeds`, from `SchemaSound`: columns are only added, a call in the `ALTER`s has
      for each it has passed the column or the refusal its instance saw, and an instance is
      ready only on a table with `outcome`. Nothing is assumed of the database found, of faults or of
      crashes. The first exception it names is the refused `ALTER` listed below, the second that of
      `migration_v1`.
    * `OutcomesAreWhole`, from `PatchesSound`: the plan a PATCH has read is still that of
      its row when it writes, because rows stay and no plan is ever changed.
    * `AnswersAreBracketed`, from `BeginningsSound`: the bounds of a count taken before only move
      apart. Without `JournalIsKept` (no row is withdrawn, reopened or given another plan or
      order, an action property) a later step could raise the lower bound above the count.
    * `OutcomesAreReckoned` composes it with `StopDistancePositive`: no R multiple divides by zero.
* `IndicatorProofs`, for every `exit_min_bars` and `exit_max_bars`, from `Held` and `Told`: a
  position that is open is the last one opened, was counted on every bar since, and had no
  exit; one that is over had exactly one. `PositionsEndInTime` is `Held` with `time_max`;
  `ExitsAnswerPositions` needs `OpeningBarHolds` besides: what opens a position excludes
  every exit rule on that bar but the volume's, and that one waits for `exit_min_bars`.

The assumptions are those named in the modules: thresholds in range, the sets of
alerts, chain and replies well-typed, the outcomes of a PATCH those of `OutcomeUpdate`
(`JournalAssumption`, `dashboard.py:119`). Every safety property that a run finds to hold is
proved. Only model-checked is liveness (`RequestEnds`, `AdmittedEnds`, `Protected`,
`ExecutesEnd`, `ComesBack`, `OnlyHalfOpenStops`), which is beyond this prover.

## 5. Where code and documents disagree

Shown by a run: the three rows marked above. Found while modelling and not given a run
of their own:

* Every exit signal opens a new market order: `mt5.py:157` derives the side from the
  signal name and nothing closes a position, while the prompt calls exits closings
  (`engine/prompts.py:52`). `Side` models it.
* "For EXIT signals, we ALWAYS execute" (`decision_engine.py:51`) holds only up to
  `MIN_CONFIDENCE` 0.75; above, the policy turns the fallback's exit into a skip.
* The daily-trades, drawdown, spread and news guards never act: the webhook hands
  them constants or nothing (`webhook.py:186`, `GuardContext`). A `REDUCE` verdict
  is computed and not used.
* "Every signal logged for audit" (`src/README.md:113`): alerts blocked by a guard, and
  those that fail in macro or engine, get no row.
* The execution alarm says "order NOT placed" (`telegram.py:134`) also when the order
  lives at the broker with a retcode other than DONE; `Executed` has that outcome.
* `notify_signal_executed` is sent after a failed execution as well.
* The first retry of the breakeven loop waits 20 s: the counter is raised before the
  power is taken, while the comment (`main.py:77`) lists 10 s first. `Backoff` is what
  the code does.
* A terminal that is not ready is no failure to the loop: the reconciler returns 0 and
  the backoff the docstring speaks of (`main.py:37`) is reset (`CycleEnds`).
* The stamp of the cooldown is set before the alert's fate is known, so an alert that
  ends in a 500 blocks its repetition.
* The cTrader executor never places an order and never shifts a stop: `place_market_order`
  (`ctrader.py:212`), `get_account_info` (`:184`) and `modify_position` (`:390`) do not exist in
  the client, which has `create_market_order`, `get_balance` and `amend_position`. The
  broad `except` turns each into a logged error (`UseClient`, `Reconciled`).
* A client that is replaced, or whose reconnect fails, is not closed (`NewClient`), and
  `shutdown` of the executor is called by nobody.
* `reconcile_breakeven` reads `self._client` again after its await; if a handler has failed to
  connect meanwhile, that is None and the handling of the error raises (`Reset`).
* "Reset alert flag when a new signal arrives" (`heartbeat.py:324`): a check resets it, not
  the signal; below a threshold of half an hour a second silence is overlooked.
* "silence alert sent" is logged (`heartbeat.py:320`) and the flag is set also when the send
  failed; it is not tried again.
* Each worker watches its own signals only: with two of them, one warns of silence while
  the other serves ("No signal received in X hours").
* `MONITOR_SILENCE_HOURS=0` does not disable the alerts (`src/ai_bridge/.env.example:56`): the loop is started
  with 0 and `elapsed > 0` holds at its first check (`main.py:115`, `heartbeat.py:314`).
* "429 if within cooldown" (`src/README.md:76`) holds per worker: the dict is one process's
  (`webhook.py:33`), and the shipped image starts two.
* "If `confidence < MIN_CONFIDENCE`, action is downgraded to `skip`" (`src/README.md:325`) is not
  done without an LLM key: `decision_engine.py:194` returns the fallback, 0.55 for a plain
  `long`, as it is.
* "Never raises" (`market_context.py:241`): JSON of another shape, a headline without a
  source object or a previous DXY close of 0 raises out of the `gather` or after it, and the alert gets a
  500. `OnlyMalformedRaises` says that nothing else does.
* The Alpha Vantage fallback asks for two ETFs (`market_context.py:155`) and takes their prices for
  the index and for a yield in percent (`:276`).
* `bars_since_entry` is 0 on every exit, since the payload is built after the reset, and 1 on
  the bar of entry, which counts itself (`BarsAfter`); `ALERT_PAYLOAD.md` has it the other way round
  (`:53`, `:108`). For the same reason the forced exit comes five bars after the entry's.
* Entry alerts are sent whatever `pos_dir` is, so that a second entry, or one of the other side,
  is followed by no exit of its own; without `ai_send_weak` exits are sent for positions whose entry was
  not (`ExitsAnswerEntries` says what holds). With `exit_min_bars` 1 a position may open and close on one bar.
* `SL_DEFAULT_RR` is the "RR used when the LLM decision does not provide a suggested_rr"
  (`settings.py:120`); MT5 uses 2.0 (`mt5.py:175`, `MT5Order`).
* A negative `suggested_rr` passes the schema: the plan then has no take profit, while both
  executors send one on the losing side.
* "Better undersized than overrisk" (`position_sizer.py:94`): the clamp to the broker's minimum
  four lines below risks more than the budget, and a fixed lot is never compared with it
  (`PlanWithinBudget`); the reason
  `step_rounding` cannot occur.
* "SAME calculator as live MT5" (`simulator.py:141`): a `SignalRow` has no PSAR, so the PSAR and
  hybrid policies always take their path without one (`Distance`). A stop is filled at its price
  also when the bar opened beyond it.
* An `ALTER` that the database refuses for any reason, a lock or a full disk too, is taken for one
  whose column exists ("Column already exists — expected", `signal_log.py:109`); `_initialised` is
  set and every later statement that names the column fails, until a new instance migrates.
  `AlterRefused` is that step, and `MissingOnlyIfRefused` says that a column is missing for no other reason.
* "Session is tied to TCP connection … all requests use the same socket" (`ctrader_client.py:51`): a
  connection lost by a timeout, a read error, with the notification whose errors are swallowed
  (`:302`) or idle is replaced by the HTTP client, and the session id goes out on the new one.
* `stop_distance` is the "Original stop distance" (`breakeven.py:33`), but the reconciler passes the
  distance to the stop as it is now (`mt5.py:312`), which is the buffer once it was shifted: when the
  ATR has grown, a second shift may come at a gain below the trigger. It tightens all the same.
* The overall win rate and the one per signal come from two SELECTs and may disagree by an
  outcome that was entered in between (`ReadingsBracketed` bounds it).

## 6. Not modelled

* Texts, formatting, prompts, HTML, the page, paged listings, plots, CI and scripts, HTTP
  details, parsing of the environment: no state, or presentation.
* `backtest/signals.py` (EMA, PSAR and ATR of a recorded series), `prompt_eval.py` and the
  summary of a backtest: sequential arithmetic over floating-point series without control
  that a model could check. The same of `scripts/_offline_validate.py`.
* Opening the connection to the MT5 terminal, its request's other fields, and
  `executor/factory.py`, a switch on one setting.
* Floating point: prices are whole quanta, so rounding of a price to four digits and its
  effect on a reckoned R are not seen.
