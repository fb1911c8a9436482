------------------------------ MODULE Webhook ------------------------------
(***************************************************************************)
(* POST /webhook/tradingview (app/api/webhook.py) on the uvicorn workers.   *)
(* A handler runs on its worker's event loop and gives way at every await,  *)
(* so the handlers of one worker interleave stage by stage; the workers are *)
(* processes of their own that share only the broker account, the SQLite    *)
(* file and the Telegram chat.  A worker may die at any point, its requests *)
(* with it, and is restarted with empty memory.                             *)
(***************************************************************************)
EXTENDS Decision, Guards

CONSTANTS Workers,         \* uvicorn --workers
          Requests,        \* HTTP requests TradingView makes
          Symbols,
          Alerts,          \* the bodies a request may carry
          Cooldown,        \* signal_cooldown_seconds
          LlmConfigured,   \* settings.llm_is_configured
          BrokerEnabled,   \* build_executor() is no NoopExecutor
          NotifySkip,      \* monitor_notify_skip
          NotifyExecute,   \* monitor_notify_execute
          MaxClock,        \* bound of the model: time stops here
          MaxBoots         \* bound of the model: boots of one worker

\* What the code reads of a request: does the body parse and validate, does
\* it carry the shared secret, and the fields of the alert.
Bodies == {"ok", "bad_json", "invalid", "bad_secret"}
Alert  == [body : Bodies, symbol : Symbols, signal : Signals, atr : Nat, price : Nat]

ASSUME WebhookAssumption ==
  /\ Alerts \subseteq Alert
  /\ Cooldown \in Nat /\ MaxClock \in Nat /\ MaxBoots \in Nat \ {0}
  /\ LlmConfigured \in BOOLEAN /\ BrokerEnabled \in BOOLEAN
  /\ NotifySkip \in BOOLEAN /\ NotifyExecute \in BOOLEAN

VARIABLES
  clock,       \* time.time()
  boots,       \* boots[w]: how often worker w has been started
  up,          \* up[w]: worker w is running
  cooldown,    \* cooldown[w]: the _cooldown dict of w
  lastSignal,  \* lastSignal[w]: monitor._last_signal_ts of w
  alert,       \* alert[r]: the body of request r
  pc,          \* pc[r]: the await at which the handler of r stands
  home,        \* home[r]: the worker that handles r
  decision,    \* decision[r]: local variables of the handler
  notified,
  execution,
  signalId,    \* the id of the row it has written, 0 for None
  reply,       \* reply[r]: the HTTP answer
  broker,      \* orders the broker has accepted, in order
  journal,     \* rows of the signals table, in order of their id
  outbox,      \* <<r, kind>>: messages the handler of r has handed to Telegram
  admittedAt,  \* history: when r passed the cooldown
  era          \* history: boots[home[r]] at that moment

workerVars  == <<boots, up, cooldown, lastSignal>>
handlerVars == <<home, decision, notified, execution, signalId>>
worldVars   == <<broker, journal, outbox>>
historyVars == <<admittedAt, era>>
vars == <<clock, workerVars, alert, pc, handlerVars, reply, worldVars, historyVars>>

-----------------------------------------------------------------------------

Keys    == Symbols \X Signals
Key(r)  == <<alert[r].symbol, alert[r].signal>>
NoWorker   == "none"
NoDecision == [action |-> "skip", confidence |-> 0]
Stages   == {"macro", "engine", "notify", "execute", "report", "record", "answer"}
Reply    == [status : {0, 200, 400, 401, 422, 429, 500}, accepted : BOOLEAN, id : Nat]
Answer(status) == [status |-> status, accepted |-> FALSE, id |-> 0]
NoReply  == Answer(0)
Accepted(id) == [status |-> 200, accepted |-> TRUE, id |-> id]

\* The Pine signal name decides the side, an exit signal's like an entry's.
BuySignals == {"long", "strong_long", "exit_long", "bull_choch", "bull_bos", "bull_grab"}
Side(r)  == IF alert[r].signal \in BuySignals THEN "buy" ELSE "sell"
Order    == [req : Requests, side : {"buy", "sell"}]
Row      == [req : Requests, action : ValidActions, placed : BOOLEAN, notified : BOOLEAN]
Messages == {"error", "skipped", "entry", "exec_error", "executed"}
Outcomes == {"none", "placed", "error"}

Trades(r) == decision[r].action \in {"execute", "reduce"}

\* The context the webhook hands to the guards: the day's trades and P&L are
\* constants, spread and news window are not in the dict.
GuardContext(r) ==
  [daily_trades |-> 0, daily_pnl_r |-> 0, spread_points |-> NoData,
   news_window |-> FALSE, atr |-> alert[r].atr, price |-> alert[r].price]

GuardsBlock(r) == DefaultVerdict(GuardContext(r)) = "BLOCK"

Epoch == Cooldown + 1    \* any start later than the dict's default stamp 0

Init ==
  /\ clock = Epoch
  /\ boots = [w \in Workers |-> 1]
  /\ up = [w \in Workers |-> TRUE]
  /\ cooldown = [w \in Workers |-> [k \in Keys |-> 0]]
  /\ lastSignal = [w \in Workers |-> Epoch]
  /\ alert \in [Requests -> Alerts]
  /\ pc = [r \in Requests |-> "new"]
  /\ home = [r \in Requests |-> NoWorker]
  /\ decision = [r \in Requests |-> NoDecision]
  /\ notified = [r \in Requests |-> FALSE]
  /\ execution = [r \in Requests |-> "none"]
  /\ signalId = [r \in Requests |-> 0]
  /\ reply = [r \in Requests |-> NoReply]
  /\ broker = << >> /\ journal = << >> /\ outbox = {}
  /\ admittedAt = [r \in Requests |-> 0]
  /\ era = [r \in Requests |-> 0]

-----------------------------------------------------------------------------
(* The front of the handler: one step, it gives way at no await that         *)
(* another handler could use.                                                *)

MoveTo(r, stage) == pc' = [pc EXCEPT ![r] = stage]

Respond(r, answer) ==
  /\ MoveTo(r, "done")
  /\ reply' = [reply EXCEPT ![r] = answer]

Send(r, kinds) == outbox' = outbox \cup {<<r, kind>> : kind \in kinds}

\* mark_signal_received; notify_signal_skipped and _executed do it as well.
MarkIf(r, heard) ==
  lastSignal' = IF heard THEN [lastSignal EXCEPT ![home[r]] = clock] ELSE lastSignal
Mark(r) == MarkIf(r, TRUE)

Arrives(r, w) ==
  /\ pc[r] = "new" /\ up[w]
  /\ home' = [home EXCEPT ![r] = w]

\* Body that does not parse or validate: an error message to the chat.
RefuseBody(r, w) ==
  /\ Arrives(r, w)
  /\ alert[r].body \in {"bad_json", "invalid"}
  /\ Respond(r, Answer(IF alert[r].body = "bad_json" THEN 400 ELSE 422))
  /\ Send(r, {"error"})
  /\ UNCHANGED <<clock, workerVars, alert, decision, notified, execution, signalId,
                 broker, journal, historyVars>>

RefuseSecret(r, w) ==
  /\ Arrives(r, w)
  /\ alert[r].body = "bad_secret"
  /\ Respond(r, Answer(401))
  /\ UNCHANGED <<clock, workerVars, alert, decision, notified, execution, signalId,
                 worldVars, historyVars>>

\* Fault: the window is one tick short.
InCooldownShort(r, w) == Cooldown > 0 /\ clock - cooldown[w][Key(r)] < Cooldown - 1

\* Fault: the window is kept per symbol instead of per (symbol, signal).
InCooldownOfSymbol(r, w) ==
  /\ Cooldown > 0
  /\ \E k \in Keys : k[1] = alert[r].symbol /\ clock - cooldown[w][k] < Cooldown

InCooldown(r, w) == Cooldown > 0 /\ clock - cooldown[w][Key(r)] < Cooldown

RefuseCooldown(r, w) ==
  /\ Arrives(r, w)
  /\ alert[r].body = "ok"
  /\ InCooldown(r, w)
  /\ Respond(r, Answer(429))
  /\ UNCHANGED <<clock, workerVars, alert, decision, notified, execution, signalId,
                 worldVars, historyVars>>

\* The stamp is set before anything is known of the signal's fate.
Admit(r, w) ==
  /\ Arrives(r, w)
  /\ alert[r].body = "ok"
  /\ ~InCooldown(r, w)
  /\ cooldown' = IF Cooldown > 0 THEN [cooldown EXCEPT ![w][Key(r)] = clock]
                                 ELSE cooldown
  /\ MoveTo(r, "macro")
  /\ admittedAt' = [admittedAt EXCEPT ![r] = clock]
  /\ era' = [era EXCEPT ![r] = boots[w]]
  /\ UNCHANGED <<clock, boots, up, lastSignal, alert, decision, notified,
                 execution, signalId, reply, worldVars>>

-----------------------------------------------------------------------------
(* Macro context, decision and guards.                                       *)

MacroFetched(r) ==
  /\ pc[r] = "macro"
  /\ MoveTo(r, "engine")
  /\ UNCHANGED <<clock, workerVars, alert, handlerVars, reply, worldVars, historyVars>>

\* Fault: the error path forgets mark_signal_received.
StageCrashesUnmarked(r, stage) ==
  /\ pc[r] = stage
  /\ Send(r, {"error"})
  /\ Respond(r, Answer(500))
  /\ UNCHANGED <<clock, workerVars, alert, handlerVars, broker, journal, historyVars>>

\* fetch_macro_context or evaluate_signal raised: answer 500.
StageCrashes(r, stage) ==
  /\ pc[r] = stage
  /\ Mark(r)
  /\ Send(r, {"error"})
  /\ Respond(r, Answer(500))
  /\ UNCHANGED <<clock, boots, up, cooldown, alert, handlerVars, broker, journal,
                 historyVars>>

\* A decision; plan and guards follow without an await.
Decided(r, d) ==
  /\ pc[r] = "engine"
  /\ decision' = [decision EXCEPT ![r] = d]
  /\ Mark(r)
  /\ UNCHANGED <<clock, boots, up, cooldown, alert, home, notified, execution,
                 signalId, broker, journal, historyVars>>

\* A guard blocks: told to the chat, answered accepted=False, never recorded.
Blocked(r, d) ==
  /\ Decided(r, d)
  /\ GuardsBlock(r)
  /\ Send(r, IF NotifySkip THEN {"skipped"} ELSE {})
  /\ Respond(r, Answer(200))

\* Fault: the pipeline goes on although a guard blocks.
ClearedAnyway(r, d) ==
  /\ Decided(r, d)
  /\ MoveTo(r, "notify")
  /\ UNCHANGED <<reply, outbox>>

Cleared(r, d) ==
  /\ Decided(r, d)
  /\ ~GuardsBlock(r)
  /\ MoveTo(r, "notify")
  /\ UNCHANGED <<reply, outbox>>

-----------------------------------------------------------------------------
(* Notify, execute, report, record, answer.                                  *)

\* _notifier.send or notify_signal_skipped; a failed send is only a False.
Announce(r, delivered) ==
  /\ pc[r] = "notify"
  /\ notified' = [notified EXCEPT ![r] = Trades(r) /\ delivered]
  /\ Send(r, IF Trades(r) THEN {"entry"} ELSE IF NotifySkip THEN {"skipped"} ELSE {})
  /\ MarkIf(r, ~Trades(r) /\ NotifySkip)
  /\ MoveTo(r, "execute")
  /\ UNCHANGED <<clock, boots, up, cooldown, alert, home, decision, execution,
                 signalId, reply, broker, journal, historyVars>>

\* Fault: only the noop executor returns on a skip.
NothingForNoopOnly(r) ==
  /\ pc[r] = "execute"
  /\ ~BrokerEnabled
  /\ MoveTo(r, "report")
  /\ UNCHANGED <<clock, workerVars, alert, handlerVars, reply, worldVars, historyVars>>

\* The executor leaves a skip alone; the noop executor does so always.
NothingToExecute(r) ==
  /\ pc[r] = "execute"
  /\ ~(BrokerEnabled /\ Trades(r))
  /\ MoveTo(r, "report")
  /\ UNCHANGED <<clock, workerVars, alert, handlerVars, reply, worldVars, historyVars>>

\* Fault: an error is taken for "no order" and the order is sent again.
ExecutedWithRetry(r, outcome, accepted) ==
  /\ pc[r] = "execute"
  /\ BrokerEnabled /\ Trades(r)
  /\ outcome = "placed" => accepted
  /\ execution' = [execution EXCEPT ![r] = outcome]
  /\ broker' = IF accepted THEN Append(broker, [req |-> r, side |-> Side(r)])
                           ELSE broker
  /\ MoveTo(r, IF outcome = "error" THEN "execute" ELSE "report")
  /\ UNCHANGED <<clock, workerVars, alert, home, decision, notified, signalId,
                 reply, journal, outbox, historyVars>>

\* order_send: retcode DONE; no order; or an order that lives although the
\* answer is None or another retcode (placed, timeout), which reads as an error.
Executed(r, outcome, accepted) ==
  /\ pc[r] = "execute"
  /\ BrokerEnabled /\ Trades(r)
  /\ outcome = "placed" => accepted
  /\ execution' = [execution EXCEPT ![r] = outcome]
  /\ broker' = IF accepted THEN Append(broker, [req |-> r, side |-> Side(r)])
                           ELSE broker
  /\ MoveTo(r, "report")
  /\ UNCHANGED <<clock, workerVars, alert, home, decision, notified, signalId,
                 reply, journal, outbox, historyVars>>

\* A call of the broker SDK before order_send raised: the request ends in an
\* unhandled exception.
ExecutorRaises(r) ==
  /\ pc[r] = "execute"
  /\ BrokerEnabled /\ Trades(r)
  /\ Respond(r, Answer(500))
  /\ UNCHANGED <<clock, workerVars, alert, handlerVars, worldVars, historyVars>>

\* Fault: no alarm when the execution failed.
ReportWithoutAlarm(r) ==
  /\ pc[r] = "report"
  /\ Send(r, IF Trades(r) /\ NotifyExecute THEN {"executed"} ELSE {})
  /\ MarkIf(r, Trades(r) /\ NotifyExecute)
  /\ MoveTo(r, "record")
  /\ UNCHANGED <<clock, boots, up, cooldown, alert, handlerVars, reply, broker,
                 journal, historyVars>>

Report(r) ==
  /\ pc[r] = "report"
  /\ Send(r, (IF execution[r] = "error" THEN {"exec_error", "error"} ELSE {})
             \cup (IF Trades(r) /\ NotifyExecute THEN {"executed"} ELSE {}))
  /\ MarkIf(r, Trades(r) /\ NotifyExecute)
  /\ MoveTo(r, "record")
  /\ UNCHANGED <<clock, boots, up, cooldown, alert, handlerVars, reply, broker,
                 journal, historyVars>>

RowOf(r) == [req |-> r, action |-> decision[r].action,
             placed |-> execution[r] = "placed", notified |-> notified[r]]

\* _signal_log.record: the row is committed in a thread, under the write lock
\* of the database, and its id goes back to the awaiting handler.
Record(r) ==
  /\ pc[r] = "record"
  /\ journal' = Append(journal, RowOf(r))
  /\ signalId' = [signalId EXCEPT ![r] = Len(journal) + 1]
  /\ MoveTo(r, "answer")
  /\ UNCHANGED <<clock, workerVars, alert, home, decision, notified, execution, reply,
                 broker, outbox, historyVars>>

\* The insert failed: signal_id stays None.
RecordFails(r) ==
  /\ pc[r] = "record"
  /\ MoveTo(r, "answer")
  /\ UNCHANGED <<clock, workerVars, alert, handlerVars, reply, worldVars, historyVars>>

\* Fault: the answer asks the table for its latest id.
ConcludeWithLatest(r) ==
  /\ pc[r] = "answer"
  /\ Respond(r, Accepted(IF signalId[r] = 0 THEN 0 ELSE Len(journal)))
  /\ UNCHANGED <<clock, workerVars, alert, handlerVars, worldVars, historyVars>>

\* The handler goes on after the await and answers with the id.
Conclude(r) ==
  /\ pc[r] = "answer"
  /\ Respond(r, Accepted(signalId[r]))
  /\ UNCHANGED <<clock, workerVars, alert, handlerVars, worldVars, historyVars>>

-----------------------------------------------------------------------------
(* Time, crashes, restarts.                                                  *)

Tick ==
  /\ clock < MaxClock
  /\ clock' = clock + 1
  /\ UNCHANGED <<workerVars, alert, pc, handlerVars, reply, worldVars, historyVars>>

\* The process dies; its connections close without an answer.
Crash(w) ==
  /\ up[w] /\ boots[w] < MaxBoots
  /\ up' = [up EXCEPT ![w] = FALSE]
  /\ pc' = [r \in Requests |-> IF home[r] = w /\ pc[r] \in Stages THEN "lost" ELSE pc[r]]
  /\ UNCHANGED <<clock, boots, cooldown, lastSignal, alert, handlerVars, reply,
                 worldVars, historyVars>>

\* A new process: module-level state starts afresh.
Restart(w) ==
  /\ ~up[w]
  /\ up' = [up EXCEPT ![w] = TRUE]
  /\ boots' = [boots EXCEPT ![w] = @ + 1]
  /\ cooldown' = [cooldown EXCEPT ![w] = [k \in Keys |-> 0]]
  /\ lastSignal' = [lastSignal EXCEPT ![w] = clock]
  /\ UNCHANGED <<clock, alert, pc, handlerVars, reply, worldVars, historyVars>>

Finished(r) == pc[r] \in {"done", "lost"}

\* Every request has ended.
Quiet == (\A r \in Requests : Finished(r)) /\ UNCHANGED vars

Front(r) == \E w \in Workers :
  RefuseBody(r, w) \/ RefuseSecret(r, w) \/ RefuseCooldown(r, w) \/ Admit(r, w)

\* The handler of an admitted request.
Handler(r) ==
  \/ MacroFetched(r)
  \/ StageCrashes(r, "macro")
  \/ LlmConfigured /\ StageCrashes(r, "engine")
  \/ \E d \in EngineResults(alert[r].signal, LlmConfigured) : Blocked(r, d) \/ Cleared(r, d)
  \/ \E delivered \in BOOLEAN : Announce(r, delivered)
  \/ NothingToExecute(r)
  \/ \E outcome \in {"placed", "error"}, accepted \in BOOLEAN :
       Executed(r, outcome, accepted)
  \/ ExecutorRaises(r)
  \/ Report(r)
  \/ Record(r)
  \/ RecordFails(r)
  \/ Conclude(r)

Next ==
  \/ \E r \in Requests : Front(r) \/ Handler(r)
  \/ Tick
  \/ \E w \in Workers : Crash(w) \/ Restart(w)
  \/ Quiet

Spec == Init /\ [][Next]_vars

\* Every await of a handler is bounded by a timeout or a retry limit (HTTP
\* clients, LLM retries, SQLite), so a handler on a live worker goes on.
Fairness == \A r \in Requests : WF_vars(Handler(r))

FairSpec == Spec /\ Fairness

-----------------------------------------------------------------------------

\* The variables keep their types (webhook.py, heartbeat.py, signal_log.py).
TypeOK ==
  /\ clock \in Nat
  /\ boots \in [Workers -> 1..MaxBoots]
  /\ up \in [Workers -> BOOLEAN]
  /\ cooldown \in [Workers -> [Keys -> Nat]]
  /\ lastSignal \in [Workers -> Nat]
  /\ alert \in [Requests -> Alerts]
  /\ pc \in [Requests -> Stages \cup {"new", "done", "lost"}]
  /\ home \in [Requests -> Workers \cup {NoWorker}]
  /\ decision \in [Requests -> LLMDecision]
  /\ notified \in [Requests -> BOOLEAN]
  /\ execution \in [Requests -> Outcomes]
  /\ signalId \in [Requests -> Nat]
  /\ reply \in [Requests -> Reply]
  /\ broker \in Seq(Order) /\ journal \in Seq(Row)
  /\ outbox \subseteq Requests \X Messages
  /\ admittedAt \in [Requests -> Nat] /\ era \in [Requests -> 0..MaxBoots]

Admitted(r) == era[r] > 0

\* r and s went through the same cooldown dict under the same key.
SameCooldown(r, s) ==
  /\ r # s /\ Admitted(r) /\ Admitted(s)
  /\ alert[r].symbol = alert[s].symbol /\ alert[r].signal = alert[s].signal
  /\ home[r] = home[s] /\ era[r] = era[s]

Apart(r, s) == admittedAt[r] + Cooldown <= admittedAt[s]
                 \/ admittedAt[s] + Cooldown <= admittedAt[r]

\* Two alerts of one (symbol, signal) that one boot of a worker admits are at
\* least the cooldown apart, whatever became of the first (_check_cooldown).
CooldownHolds ==
  \A r, s \in Requests : SameCooldown(r, s) => Apart(r, s)

\* An alert is answered 429 only if one of the same (symbol, signal) was
\* admitted less than the cooldown before: refused ones do not extend the
\* window and other keys do not share it (_check_cooldown).
DropJustified ==
  [][\A r \in Requests :
       reply'[r] # reply[r] /\ reply'[r].status = 429 =>
         \E s \in Requests \ {r} :
           /\ Admitted(s)
           /\ alert[s].symbol = alert[r].symbol /\ alert[s].signal = alert[r].signal
           /\ home[s] = home'[r] /\ era[s] = boots[home'[r]]
           /\ clock - admittedAt[s] < Cooldown]_vars

\* Every order at the broker goes back to an authenticated alert that passed
\* its cooldown, that the guards did not block, and a decision to trade, with
\* enough confidence when a model was asked (the pipeline's stages together).
OrdersAuthorised ==
  \A i \in DOMAIN broker :
    LET r == broker[i].req IN
      /\ alert[r].body = "ok" /\ Admitted(r)
      /\ Trades(r) /\ ~GuardsBlock(r)
      /\ LlmConfigured => WithinPolicy(decision[r])

\* Nobody trades in silence: an order is preceded by the entry message, and
\* once its request is answered it stands in the journal as placed, or the
\* insert failed, or the execution alarm was raised (webhook.py:221-272).
NoSilentOrder ==
  \A i \in DOMAIN broker :
    LET r == broker[i].req IN
      /\ <<r, "entry">> \in outbox
      /\ pc[r] = "done" =>
           \/ <<r, "exec_error">> \in outbox
           \/ reply[r] = Accepted(0)
           \/ \E j \in DOMAIN journal : journal[j].req = r /\ journal[j].placed

\* A row says what happened to its request, one that says "placed" has its
\* order at the broker, and the request, unless its worker died first, is
\* answered with the id of that row; no answer names the row of another
\* request, although handlers insert between the commit of one and its answer
\* (signal_log.py record, webhook.py:265-282).
JournalTruthful ==
  /\ \A j \in DOMAIN journal :
       LET r == journal[j].req IN
         /\ journal[j] = RowOf(r)
         /\ journal[j].placed => \E i \in DOMAIN broker : broker[i].req = r
         /\ pc[r] = "done" => reply[r] = Accepted(j)
  /\ \A r \in Requests :
       reply[r].id # 0 =>
         reply[r].id \in DOMAIN journal /\ journal[reply[r].id].req = r

\* The silence monitor of a worker hears of every alert the worker has taken
\* up and answered, even if a stage crashed or a guard blocked it.
SilenceClockFed ==
  \A r \in Requests :
    /\ pc[r] = "done" /\ Admitted(r)
    /\ era[r] = boots[home[r]]
    => lastSignal[home[r]] >= admittedAt[r]

LedgerStage  == [r \in Requests |-> IF pc[r] = "new" THEN "waiting"
                                    ELSE IF pc[r] \in Stages THEN "open"
                                    ELSE "closed"]
LedgerOrders == [i \in DOMAIN broker |-> broker[i].req]
LedgerRows   == [j \in DOMAIN journal |-> journal[j].req]

Ledger == INSTANCE SignalLedger
            WITH stage <- LedgerStage, orders <- LedgerOrders, rows <- LedgerRows

\* The handlers implement the at-most-once ledger of SignalLedger.
ImplementsLedger == Ledger!Spec

\* A handler never hangs: an alert that was taken up is answered, or lost with
\* its worker.
AdmittedEnds == \A r \in Requests : pc[r] \in Stages ~> Finished(r)

=============================================================================
