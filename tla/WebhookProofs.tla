---------------------------- MODULE WebhookProofs ----------------------------
(***************************************************************************)
(* The webhook pipeline for any number of workers, requests and alerts, any *)
(* cooldown and any guard settings.                                         *)
(***************************************************************************)
EXTENDS Webhook, TLAPS

USE WebhookAssumption

\* Every engine result is a decision; with a model configured it is within
\* the MIN_CONFIDENCE policy.
LEMMA ResultsSound ==
  ASSUME NEW s \in Signals, NEW configured \in BOOLEAN,
         NEW d \in EngineResults(s, configured)
  PROVE  d \in LLMDecision /\ (configured => WithinPolicy(d))
<1> USE MinConfidenceAssumption, RawConfidencesAssumption
<1>1. SmartFallback(s) \in LLMDecision
  BY DEF SmartFallback, LLMDecision, ValidActions
<1>2. ASSUME NEW raw \in Replies PROVE ParseAndValidate(raw) \in LLMDecision
  <2>1. Confidence(raw.confidence) \in 0..100
    BY DEF Replies, Confidence, RawConfidence
  <2> QED
    BY <2>1 DEF ParseAndValidate, LLMDecision, ValidActions
<1>3. ASSUME NEW e \in LLMDecision
      PROVE  ApplyPolicy(e) \in LLMDecision /\ WithinPolicy(ApplyPolicy(e))
  BY DEF ApplyPolicy, LLMDecision, ValidActions, WithinPolicy
<1>4. CASE configured
  <2>1. PICK e \in {ParseAndValidate(r) : r \in Replies} \cup {SmartFallback(s)} :
          d = ApplyPolicy(e)
    BY <1>4 DEF EngineResults
  <2> QED
    BY <1>1, <1>2, <1>3, <2>1
<1>5. CASE ~configured
  BY <1>1, <1>5 DEF EngineResults
<1> QED
  BY <1>4, <1>5

\* An alert has a key of the cooldown dict.
LEMMA KeyType ==
  ASSUME TypeOK, NEW r \in Requests
  PROVE  Key(r) \in Keys /\ alert[r].signal \in Signals
BY DEF TypeOK, Key, Keys, Alert

\* The answers the handler gives.
LEMMA ReplyTypes ==
  /\ \A status \in {0, 200, 400, 401, 422, 429, 500} : Answer(status) \in Reply
  /\ \A id \in Nat : Accepted(id) \in Reply
BY DEF Answer, Accepted, Reply

\* A worker that is down may still be booted, and an era is a boot.
BootsBounded ==
  /\ \A w \in Workers : ~up[w] => boots[w] < MaxBoots
  /\ \A r \in Requests : pc[r] # "new" => home[r] \in Workers

TypeInv == TypeOK /\ BootsBounded

\* A handler that gives an answer and ends.
LEMMA RespondType ==
  ASSUME TypeOK, NEW r \in Requests, NEW answer \in Reply, Respond(r, answer)
  PROVE  /\ pc' \in [Requests -> Stages \cup {"new", "done", "lost"}]
         /\ reply' \in [Requests -> Reply]
         /\ pc' = [pc EXCEPT ![r] = "done"]
BY DEF TypeOK, Respond, MoveTo

\* The types hold at the start.
LEMMA TypeInit == Init => TypeInv
BY DEF Init, TypeInv, TypeOK, BootsBounded, NoDecision, LLMDecision, ValidActions,
       Outcomes, NoReply, Answer, Reply, Epoch

\* The front of the handler keeps the types.
LEMMA FrontType ==
  ASSUME TypeInv, NEW r \in Requests, Front(r)
  PROVE  TypeInv'
<1> USE DEF TypeInv, TypeOK, BootsBounded, Stages, workerVars, handlerVars, worldVars,
            historyVars, Arrives, Messages
<1> PICK w \in Workers :
      RefuseBody(r, w) \/ RefuseSecret(r, w) \/ RefuseCooldown(r, w) \/ Admit(r, w)
  BY DEF Front
<1>1. CASE RefuseBody(r, w)
  <2>1. Answer(IF alert[r].body = "bad_json" THEN 400 ELSE 422) \in Reply
    BY ReplyTypes
  <2> QED
    BY <1>1, <2>1 DEF RefuseBody, Respond, MoveTo, Send
<1>2. CASE RefuseSecret(r, w)
  BY <1>2, ReplyTypes DEF RefuseSecret, Respond, MoveTo
<1>3. CASE RefuseCooldown(r, w)
  BY <1>3, ReplyTypes DEF RefuseCooldown, Respond, MoveTo
<1>4. CASE Admit(r, w)
  <2>1. cooldown' \in [Workers -> [Keys -> Nat]]
    BY <1>4, KeyType DEF Admit
  <2>2. /\ pc' = [pc EXCEPT ![r] = "macro"] /\ home' \in [Requests -> Workers \cup {NoWorker}]
        /\ home'[r] \in Workers /\ \A q \in Requests \ {r} : home'[q] = home[q]
    BY <1>4 DEF Admit, MoveTo
  <2>3. admittedAt' \in [Requests -> Nat] /\ era' \in [Requests -> 0..MaxBoots]
    BY <1>4 DEF Admit
  <2>4. UNCHANGED <<clock, boots, up, lastSignal, alert, decision, notified, execution,
                    signalId, reply, worldVars>>
    BY <1>4 DEF Admit
  <2>5. TypeOK'
    BY <2>1, <2>2, <2>3, <2>4
  <2>6. BootsBounded'
    BY <2>2, <2>4
  <2> QED
    BY <2>5, <2>6
<1> QED
  BY <1>1, <1>2, <1>3, <1>4

\* The rest of the handler keeps the types.
LEMMA HandlerType ==
  ASSUME TypeInv, NEW r \in Requests, Handler(r)
  PROVE  TypeInv'
<1> USE DEF TypeInv, TypeOK, BootsBounded, Stages, workerVars, handlerVars, worldVars,
            historyVars, Messages
<1>1. CASE MacroFetched(r)
  BY <1>1 DEF MacroFetched, MoveTo
<1>2. ASSUME NEW stage \in Stages, StageCrashes(r, stage) PROVE TypeInv'
  <2>1. outbox' \subseteq Requests \X Messages
    BY <1>2 DEF StageCrashes, Send
  <2>2. /\ pc[r] = stage /\ pc' = [pc EXCEPT ![r] = "done"]
        /\ reply' = [reply EXCEPT ![r] = Answer(500)]
        /\ lastSignal' = [lastSignal EXCEPT ![home[r]] = clock]
        /\ UNCHANGED <<clock, boots, up, cooldown, alert, handlerVars, broker, journal,
                       historyVars>>
    BY <1>2 DEF StageCrashes, Respond, MoveTo, Mark, MarkIf
  <2>3. Answer(500) \in Reply
    BY ReplyTypes
  <2>4. TypeOK'
    BY <2>1, <2>2, <2>3
  <2>5. BootsBounded'
    BY <2>2
  <2> QED
    BY <2>4, <2>5
<1>3. ASSUME NEW d \in EngineResults(alert[r].signal, LlmConfigured),
             Blocked(r, d) \/ Cleared(r, d)
      PROVE TypeInv'
  <2>1. d \in LLMDecision
    BY KeyType, ResultsSound
  <2>2. CASE Blocked(r, d)
    <3>1. outbox' \subseteq Requests \X Messages
      BY <2>2 DEF Blocked, Send
    <3>2. /\ pc' = [pc EXCEPT ![r] = "done"] /\ reply' = [reply EXCEPT ![r] = Answer(200)]
          /\ decision' = [decision EXCEPT ![r] = d]
          /\ lastSignal' = [lastSignal EXCEPT ![home[r]] = clock]
          /\ UNCHANGED <<clock, boots, up, cooldown, alert, home, notified, execution,
                         signalId, broker, journal, historyVars>>
      BY <2>2 DEF Blocked, Decided, Respond, MoveTo, Mark, MarkIf
    <3>3. Answer(200) \in Reply
      BY ReplyTypes
    <3>4. TypeOK'
      BY <2>1, <3>1, <3>2, <3>3
    <3>5. BootsBounded'
      BY <2>2, <3>2 DEF Blocked, Decided
    <3> QED
      BY <3>4, <3>5
  <2>3. CASE Cleared(r, d)
    BY <2>1, <2>3 DEF Cleared, Decided, MoveTo, Mark, MarkIf
  <2> QED
    BY <1>3, <2>2, <2>3
<1>4. ASSUME NEW delivered \in BOOLEAN, Announce(r, delivered) PROVE TypeInv'
  <2>1. \E b \in BOOLEAN : b = (Trades(r) /\ delivered)
    BY Zenon
  <2>2. PICK b \in BOOLEAN : notified' = [notified EXCEPT ![r] = b]
    BY <1>4, <2>1, Zenon DEF Announce
  <2>3. notified' \in [Requests -> BOOLEAN]
    BY <2>2
  <2>4. /\ pc' = [pc EXCEPT ![r] = "execute"] /\ outbox' \subseteq Requests \X Messages
        /\ lastSignal' \in [Workers -> Nat]
        /\ UNCHANGED <<clock, boots, up, cooldown, alert, home, decision, execution,
                       signalId, reply, broker, journal, historyVars>>
    BY <1>4 DEF Announce, MoveTo, Send, MarkIf
  <2>5. TypeOK'
    BY <2>3, <2>4
  <2>6. BootsBounded'
    BY <1>4, <2>4 DEF Announce
  <2> QED
    BY <2>5, <2>6
<1>5. CASE NothingToExecute(r)
  BY <1>5 DEF NothingToExecute, MoveTo
<1>6. ASSUME NEW outcome \in {"placed", "error"}, NEW accepted \in BOOLEAN,
             Executed(r, outcome, accepted)
      PROVE TypeInv'
  <2>1. [req |-> r, side |-> Side(r)] \in Order
    BY DEF Order, Side
  <2> QED
    BY <1>6, <2>1 DEF Executed, MoveTo, Outcomes
<1>7. CASE ExecutorRaises(r)
  BY <1>7, ReplyTypes DEF ExecutorRaises, Respond, MoveTo
<1>8. CASE Report(r)
  BY <1>8 DEF Report, MoveTo, Send, MarkIf
<1>9. CASE Record(r)
  <2>1. RowOf(r) \in Row
    BY DEF RowOf, Row, LLMDecision
  <2> QED
    BY <1>9, <2>1 DEF Record, MoveTo
<1>10. CASE RecordFails(r)
  BY <1>10 DEF RecordFails, MoveTo
<1>11. CASE Conclude(r)
  BY <1>11, ReplyTypes DEF Conclude, Respond, MoveTo
<1> QED
  BY <1>1, <1>2, <1>3, <1>4, <1>5, <1>6, <1>7, <1>8, <1>9, <1>10, <1>11 DEF Handler

\* Time, crashes and restarts keep the types.
LEMMA WorldType ==
  ASSUME TypeInv, Tick \/ \E w \in Workers : Crash(w) \/ Restart(w)
  PROVE  TypeInv'
<1> USE DEF TypeInv, TypeOK, BootsBounded, Stages, workerVars, handlerVars, worldVars,
            historyVars
<1>1. CASE Tick
  BY <1>1 DEF Tick
<1>2. ASSUME NEW w \in Workers, Crash(w) PROVE TypeInv'
  BY <1>2 DEF Crash
<1>3. ASSUME NEW w \in Workers, Restart(w) PROVE TypeInv'
  BY <1>3 DEF Restart
<1> QED
  BY <1>1, <1>2, <1>3

\* THEOREM: the variables of the pipeline keep their types.
THEOREM TypeCorrect == Spec => []TypeOK
<1>1. TypeInv /\ [Next]_vars => TypeInv'
  <2> SUFFICES ASSUME TypeInv, [Next]_vars PROVE TypeInv'
    OBVIOUS
  <2>1. CASE UNCHANGED vars
    BY <2>1 DEF vars, workerVars, handlerVars, worldVars, historyVars, TypeInv, TypeOK,
                BootsBounded
  <2> QED
    BY <2>1, FrontType, HandlerType, WorldType DEF Next, Quiet
<1>2. TypeInv => TypeOK
  BY DEF TypeInv
<1> QED
  BY <1>1, <1>2, TypeInit, PTL DEF Spec

\* Types and bounds of the boots hold in every reachable state.
LEMMA TypeInvariant == Spec => []TypeInv
<1>1. TypeInv /\ [Next]_vars => TypeInv'
  BY FrontType, HandlerType, WorldType
     DEF Next, Quiet, vars, workerVars, handlerVars, worldVars, historyVars, TypeInv,
         TypeOK, BootsBounded
<1> QED
  BY <1>1, TypeInit, PTL DEF Spec

-----------------------------------------------------------------------------
(* The cooldown.                                                             *)

\* A handler past the front touches neither the cooldown nor its history.
LEMMA HandlerLeavesCooldown ==
  ASSUME NEW r \in Requests, Handler(r)
  PROVE  /\ UNCHANGED <<clock, boots, up, cooldown, alert, home, historyVars>>
         /\ pc[r] \in Stages
BY DEF Handler, MacroFetched, StageCrashes, Blocked, Cleared, Decided, Announce,
       NothingToExecute, Executed, ExecutorRaises, Report, Record, RecordFails, Conclude,
       workerVars, handlerVars, Stages

\* It moves its own request only, to a later stage or to its end.
LEMMA HandlerMoves ==
  ASSUME TypeInv, NEW r \in Requests, Handler(r)
  PROVE  \E stage \in Stages \cup {"done"} : pc' = [pc EXCEPT ![r] = stage]
BY DEF Handler, MacroFetched, StageCrashes, Blocked, Cleared, Announce,
       NothingToExecute, Executed, ExecutorRaises, Report, Record, RecordFails,
       Conclude, Respond, MoveTo, Stages

\* The stamp of a key is as late as the last admission under it since the
\* worker was booted; requests of earlier boots are history.
StampsCover ==
  /\ \A r \in Requests : pc[r] = "new" => era[r] = 0
  /\ \A r \in Requests : Admitted(r) => era[r] <= boots[home[r]]
  /\ \A r \in Requests :
       Admitted(r) /\ era[r] = boots[home[r]] /\ Cooldown > 0
         => admittedAt[r] <= cooldown[home[r]][Key(r)]

CooldownInv == StampsCover /\ CooldownHolds

\* An admission is at least the cooldown later than those it shares a key with.
LEMMA AdmitStep ==
  ASSUME TypeInv, TypeInv', CooldownInv, NEW r \in Requests, NEW w \in Workers, Admit(r, w)
  PROVE  CooldownInv'
<1> USE DEF TypeInv, TypeOK, BootsBounded, CooldownInv, StampsCover, Admitted
<1>1. /\ pc[r] = "new" /\ home' = [home EXCEPT ![r] = w]
      /\ pc' = [pc EXCEPT ![r] = "macro"]
      /\ admittedAt' = [admittedAt EXCEPT ![r] = clock]
      /\ era' = [era EXCEPT ![r] = boots[w]]
      /\ UNCHANGED <<clock, boots, alert>>
      /\ cooldown' = IF Cooldown > 0 THEN [cooldown EXCEPT ![w][Key(r)] = clock] ELSE cooldown
  BY DEF Admit, Arrives, MoveTo
<1>2. Cooldown > 0 => clock >= cooldown[w][Key(r)] + Cooldown
  BY KeyType DEF Admit, InCooldown
<1>3. \A s \in Requests : Key(s)' = Key(s) /\ Key(s) \in Keys
  BY <1>1, KeyType DEF Key
<1>4. StampsCover'
  <2>1. \A s \in Requests : pc'[s] = "new" => era'[s] = 0
    BY <1>1
  <2>2. \A s \in Requests : Admitted(s)' => era'[s] <= boots'[home'[s]]
    BY <1>1
  <2>3. ASSUME NEW s \in Requests, Admitted(s)', era'[s] = boots'[home'[s]], Cooldown > 0
        PROVE  admittedAt'[s] <= cooldown'[home'[s]][Key(s)']
    <3>1. cooldown' = [cooldown EXCEPT ![w][Key(r)] = clock]
      BY <1>1, <2>3
    <3>2. cooldown'[w][Key(r)] = clock
      BY <1>3, <3>1
    <3>3. CASE s = r
      BY <1>1, <1>3, <3>2, <3>3
    <3>4. CASE s # r
      <4>1. /\ Admitted(s) /\ era[s] = boots[home[s]] /\ home'[s] = home[s]
            /\ admittedAt'[s] = admittedAt[s] /\ home[s] \in Workers
        BY <1>1, <2>3, <3>4
      <4>2. admittedAt[s] <= cooldown[home[s]][Key(s)]
        BY <2>3, <4>1
      <4>3. CASE home[s] = w /\ Key(s) = Key(r)
        <5>1. Key(s)' = Key(r) /\ cooldown'[home'[s]][Key(s)'] = clock
          BY <1>3, <3>2, <4>1, <4>3
        <5>2. clock >= cooldown[w][Key(r)] + Cooldown /\ cooldown[w][Key(r)] \in Nat
          BY <1>2, <1>3, <2>3
        <5>3. admittedAt[s] <= clock
          <6>1. admittedAt[s] <= cooldown[w][Key(r)]
            BY <4>2, <4>3
          <6>2. admittedAt[s] \in Nat /\ clock \in Nat
            OBVIOUS
          <6> HIDE DEF TypeInv, TypeOK, BootsBounded, CooldownInv, StampsCover, Admitted
          <6> QED
            BY <5>2, <6>1, <6>2
        <5> QED
          BY <4>1, <5>1, <5>3
      <4>4. CASE ~(home[s] = w /\ Key(s) = Key(r))
        <5>1. cooldown'[home[s]][Key(s)] = cooldown[home[s]][Key(s)]
          BY <1>3, <3>1, <4>1, <4>4
        <5> QED
          BY <1>3, <4>1, <4>2, <5>1
      <4> QED
        BY <4>3, <4>4
    <3> QED
      BY <3>3, <3>4
  <2> QED
    BY <2>1, <2>2, <2>3
<1>5. CooldownHolds'
  <2> SUFFICES ASSUME NEW s \in Requests, NEW t \in Requests, SameCooldown(s, t)'
               PROVE  Apart(s, t)'
    BY DEF CooldownHolds
  <2> USE DEF SameCooldown, Apart
  <2>1. CASE s # r /\ t # r
    <3>1. SameCooldown(s, t)
      BY <1>1, <2>1
    <3>2. Apart(s, t)
      BY <3>1 DEF CooldownHolds
    <3> QED
      BY <1>1, <2>1, <3>2
  <2>2. ASSUME NEW u \in Requests, u # r, Admitted(u), Key(u) = Key(r), home[u] = w,
               era[u] = boots[w], Cooldown > 0
        PROVE  admittedAt[u] + Cooldown <= clock
    <3>1. admittedAt[u] <= cooldown[home[u]][Key(u)]
      BY <2>2
    <3>4. admittedAt[u] <= cooldown[w][Key(r)]
      BY <2>2, <3>1
    <3>2. cooldown[w][Key(r)] \in Nat /\ admittedAt[u] \in Nat /\ clock \in Nat
      BY <1>3
    <3>3. clock >= cooldown[w][Key(r)] + Cooldown
      BY <1>2, <2>2
    <3> HIDE DEF TypeInv, TypeOK, BootsBounded, CooldownInv, StampsCover, Admitted,
                 SameCooldown, Apart
    <3> QED
      BY <3>4, <3>2, <3>3, WebhookAssumption
  <2>3. CASE (s = r \/ t = r) /\ Cooldown > 0
    <3>1. PICK u \in Requests : u # r /\ {s, t} = {r, u}
      BY <2>3
    <3>2. /\ Admitted(u) /\ Key(u) = Key(r) /\ home[u] = w /\ era[u] = boots[w]
          /\ admittedAt'[u] = admittedAt[u]
      <4>0. home'[r] = w /\ era'[r] = boots[w]
        BY <1>1
      <4>5. (s = r /\ t = u) \/ (s = u /\ t = r)
        BY <3>1
      <4>1. SameCooldown(r, u)' /\ home'[r] = w /\ era'[r] = boots[w]
        <5>1. CASE s = r /\ t = u
          BY <4>0, <5>1
        <5>2. CASE s = u /\ t = r
          BY <4>0, <5>2
        <5> QED
          BY <4>5, <5>1, <5>2
      <4>2. alert'[u].symbol = alert'[r].symbol /\ alert'[u].signal = alert'[r].signal
        BY <4>1
      <4>3. Key(u) = Key(r)
        BY <1>1, <4>2 DEF Key
      <4> QED
        BY <1>1, <3>1, <4>1, <4>3
    <3>3. admittedAt'[u] + Cooldown <= admittedAt'[r]
      BY <1>1, <2>2, <2>3, <3>1, <3>2
    <3> QED
      BY <3>1, <3>3
  <2>4. CASE Cooldown = 0
    <3>1. admittedAt'[s] \in Nat /\ admittedAt'[t] \in Nat
      OBVIOUS
    <3> HIDE DEF TypeInv, TypeOK, BootsBounded, CooldownInv, StampsCover, Admitted
    <3> QED
      BY <2>4, <3>1
  <2> QED
    BY <2>1, <2>3, <2>4
<1> QED
  BY <1>4, <1>5

\* Steps that change nothing the cooldown depends on.
LEMMA CooldownFrame ==
  ASSUME CooldownInv, UNCHANGED <<boots, cooldown, alert, home, historyVars>>,
         \A r \in Requests : pc'[r] = "new" => pc[r] = "new"
  PROVE  CooldownInv'
BY DEF CooldownInv, StampsCover, CooldownHolds, SameCooldown, Apart, Admitted, Key,
       historyVars

\* A refused request has no history, so its home does not matter.
LEMMA RefusalStep ==
  ASSUME TypeInv, TypeInv', CooldownInv, NEW r \in Requests, pc[r] = "new",
         NEW w \in Workers, home' = [home EXCEPT ![r] = w],
         pc' = [pc EXCEPT ![r] = "done"],
         UNCHANGED <<boots, cooldown, alert, historyVars>>
  PROVE  CooldownInv'
<1> USE DEF TypeInv, TypeOK, BootsBounded, Admitted
<1>1. \A s \in Requests : Admitted(s)' <=> Admitted(s)
  BY DEF historyVars
<1>2. \A s \in Requests : Admitted(s) => s # r /\ home'[s] = home[s]
  BY DEF CooldownInv, StampsCover
<1>3. StampsCover'
  BY <1>1, <1>2 DEF CooldownInv, StampsCover, Key, historyVars
<1>4. CooldownHolds'
  BY <1>1, <1>2 DEF CooldownInv, CooldownHolds, SameCooldown, Apart, historyVars
<1> QED
  BY <1>3, <1>4 DEF CooldownInv

\* A restart keeps the stamps above the admissions of its boot.
LEMMA RestartStep ==
  ASSUME TypeInv, CooldownInv, NEW w \in Workers, Restart(w)
  PROVE  CooldownInv'
<1> USE DEF TypeInv, TypeOK, BootsBounded, Admitted, CooldownInv, Restart, historyVars,
            handlerVars
<1>1. StampsCover'
  BY DEF StampsCover, Key
<1>2. CooldownHolds'
  BY DEF CooldownHolds, SameCooldown, Apart
<1> QED
  BY <1>1, <1>2

\* The stamps cover the admissions of the current boot.
LEMMA CooldownInvariant == Spec => []CooldownInv
<1>1. Init => CooldownInv
  BY DEF Init, CooldownInv, StampsCover, CooldownHolds, SameCooldown, Admitted
<1>2. TypeInv /\ TypeInv' /\ CooldownInv /\ [Next]_vars => CooldownInv'
  <2> SUFFICES ASSUME TypeInv, TypeInv', CooldownInv, [Next]_vars PROVE CooldownInv'
    OBVIOUS
  <2> USE DEF workerVars, handlerVars, worldVars
  <2>1. ASSUME NEW r \in Requests, Front(r) PROVE CooldownInv'
    <3> PICK w \in Workers :
          RefuseBody(r, w) \/ RefuseSecret(r, w) \/ RefuseCooldown(r, w) \/ Admit(r, w)
      BY <2>1 DEF Front
    <3>1. CASE Admit(r, w)
      BY <3>1, AdmitStep
    <3>2. CASE RefuseBody(r, w) \/ RefuseSecret(r, w) \/ RefuseCooldown(r, w)
      BY <3>2, RefusalStep
         DEF RefuseBody, RefuseSecret, RefuseCooldown, Arrives, Respond, MoveTo
    <3> QED
      BY <3>1, <3>2
  <2>2. ASSUME NEW r \in Requests, Handler(r) PROVE CooldownInv'
    <3>1. \A s \in Requests : pc'[s] = "new" => pc[s] = "new"
      BY <2>2, HandlerMoves DEF TypeInv, TypeOK, Stages
    <3> QED
      BY <2>2, <3>1, HandlerLeavesCooldown, CooldownFrame
  <2>3. CASE Tick
    BY <2>3, CooldownFrame DEF Tick
  <2>4. ASSUME NEW w \in Workers, Crash(w) PROVE CooldownInv'
    BY <2>4, CooldownFrame DEF Crash
  <2>5. ASSUME NEW w \in Workers, Restart(w) PROVE CooldownInv'
    BY <2>5, RestartStep
  <2>6. CASE UNCHANGED vars
    BY <2>6, CooldownFrame DEF vars
  <2> QED
    BY <2>1, <2>2, <2>3, <2>4, <2>5, <2>6 DEF Next, Quiet
<1> QED
  BY <1>1, <1>2, TypeInvariant, PTL DEF Spec

\* THEOREM: two alerts of one (symbol, signal) that one boot of a worker admits
\* are at least the cooldown apart.
THEOREM CooldownCorrect == Spec => []CooldownHolds
<1>1. CooldownInv => CooldownHolds
  BY DEF CooldownInv
<1> QED
  BY <1>1, CooldownInvariant, PTL

\* A stamp that is not the dict's default is that of an admission of this boot.
Earns(s, w, k) ==
  Admitted(s) /\ Key(s) = k /\ home[s] = w /\ era[s] = boots[w] /\ admittedAt[s] = cooldown[w][k]

StampsEarned ==
  /\ clock >= Epoch
  /\ \A w \in Workers, k \in Keys : cooldown[w][k] # 0 => \E s \in Requests : Earns(s, w, k)

\* Steps that leave the stamps and their admissions alone.
LEMMA EarnedFrame ==
  ASSUME TypeInv, StampsCover, StampsEarned, UNCHANGED <<boots, cooldown, alert, historyVars>>,
         clock' >= clock, clock' \in Nat, \A s \in Requests : pc[s] # "new" => home'[s] = home[s]
  PROVE  StampsEarned'
<1>1. \A s \in Requests : Admitted(s) => pc[s] # "new"
  BY DEF StampsCover, Admitted
<1>2. \A s \in Requests, w \in Workers, k \in Keys : Earns(s, w, k) => Earns(s, w, k)'
  BY <1>1 DEF Earns, Admitted, Key, historyVars
<1>3. clock' >= Epoch
  BY DEF TypeInv, TypeOK, StampsEarned, Epoch
<1> QED
  BY <1>2, <1>3 DEF StampsEarned

\* An admission earns its key's stamp; the others keep theirs.
LEMMA EarnedByAdmission ==
  ASSUME TypeInv, TypeInv', StampsCover, StampsEarned, NEW r \in Requests, NEW w \in Workers,
         Admit(r, w)
  PROVE  StampsEarned'
<1> USE DEF TypeInv, TypeOK
<1>1. /\ pc[r] = "new" /\ home' = [home EXCEPT ![r] = w]
      /\ admittedAt' = [admittedAt EXCEPT ![r] = clock]
      /\ era' = [era EXCEPT ![r] = boots[w]]
      /\ UNCHANGED <<clock, boots, alert>>
      /\ cooldown' = IF Cooldown > 0 THEN [cooldown EXCEPT ![w][Key(r)] = clock] ELSE cooldown
  BY DEF Admit, Arrives
<1>2. \A s \in Requests : Key(s)' = Key(s) /\ (s # r => Admitted(s)' = Admitted(s))
  BY <1>1 DEF Key, Admitted
<1>3. Key(r) \in Keys /\ Admitted(r)' /\ ~Admitted(r)
  <2>1. Key(r) \in Keys
    BY KeyType
  <2>2. era[r] = 0 /\ era'[r] = boots[w] /\ boots[w] \in 1..MaxBoots
    BY <1>1 DEF StampsCover
  <2> QED
    BY <2>1, <2>2 DEF Admitted
<1>4. ASSUME NEW v \in Workers, NEW k \in Keys, cooldown'[v][k] # 0
      PROVE  \E s \in Requests : Earns(s, v, k)'
  <2>1. CASE Cooldown > 0 /\ v = w /\ k = Key(r)
    <3>1. cooldown'[w][Key(r)] = clock
      BY <1>1, <1>3, <2>1
    <3> QED
      BY <1>1, <1>2, <1>3, <2>1, <3>1 DEF Earns
  <2>2. CASE ~(Cooldown > 0 /\ v = w /\ k = Key(r))
    <3>1. cooldown'[v][k] = cooldown[v][k]
      BY <1>1, <1>3, <2>2
    <3>2. PICK s \in Requests : Earns(s, v, k)
      BY <1>4, <3>1 DEF StampsEarned
    <3>3. s # r
      BY <1>3, <3>2 DEF Earns
    <3> QED
      BY <1>1, <1>2, <3>1, <3>2, <3>3 DEF Earns
  <2> QED
    BY <2>1, <2>2
<1>5. clock' >= Epoch
  BY <1>1 DEF StampsEarned
<1> QED
  BY <1>4, <1>5 DEF StampsEarned

\* A restart forgets the stamps of its own worker only.
LEMMA EarnedAfterRestart ==
  ASSUME TypeInv, StampsEarned, NEW w \in Workers, Restart(w)
  PROVE  StampsEarned'
<1>1. /\ cooldown' = [cooldown EXCEPT ![w] = [k \in Keys |-> 0]]
      /\ boots' = [boots EXCEPT ![w] = @ + 1]
      /\ UNCHANGED <<clock, alert, home, admittedAt, era>>
  BY DEF Restart, handlerVars, historyVars
<1>2. \A s \in Requests : Key(s)' = Key(s) /\ Admitted(s)' = Admitted(s)
  BY <1>1 DEF Key, Admitted
<1>3. ASSUME NEW v \in Workers, NEW k \in Keys, cooldown'[v][k] # 0
      PROVE  \E s \in Requests : Earns(s, v, k)'
  <2>1. v # w
    BY <1>1, <1>3 DEF TypeInv, TypeOK
  <2>2. cooldown'[v] = cooldown[v] /\ boots'[v] = boots[v]
    BY <1>1, <2>1 DEF TypeInv, TypeOK
  <2>3. PICK s \in Requests : Earns(s, v, k)
    BY <1>3, <2>2 DEF StampsEarned
  <2> QED
    BY <1>1, <1>2, <2>2, <2>3 DEF Earns
<1> QED
  BY <1>1, <1>3 DEF StampsEarned, Epoch

\* Every stamp was put there by an admission of the current boot.
LEMMA EarnedInvariant == Spec => []StampsEarned
<1>1. Init => StampsEarned
  BY DEF Init, StampsEarned, Epoch
<1>2. TypeInv /\ TypeInv' /\ CooldownInv /\ StampsEarned /\ [Next]_vars => StampsEarned'
  <2> SUFFICES ASSUME TypeInv, TypeInv', CooldownInv, StampsEarned, [Next]_vars
               PROVE  StampsEarned'
    OBVIOUS
  <2>0. StampsCover /\ clock \in Nat /\ clock' \in Nat
    BY DEF CooldownInv, TypeInv, TypeOK
  <2> USE DEF workerVars, handlerVars, worldVars
  <2>1. ASSUME NEW r \in Requests, Front(r) PROVE StampsEarned'
    <3> PICK w \in Workers :
          RefuseBody(r, w) \/ RefuseSecret(r, w) \/ RefuseCooldown(r, w) \/ Admit(r, w)
      BY <2>1 DEF Front
    <3>1. CASE Admit(r, w)
      BY <2>0, <3>1, EarnedByAdmission
    <3>2. CASE RefuseBody(r, w) \/ RefuseSecret(r, w) \/ RefuseCooldown(r, w)
      <4>1. /\ pc[r] = "new" /\ home' = [home EXCEPT ![r] = w]
            /\ UNCHANGED <<clock, boots, cooldown, alert, historyVars>>
        BY <3>2 DEF RefuseBody, RefuseSecret, RefuseCooldown, Arrives
      <4>2. \A s \in Requests : pc[s] # "new" => home'[s] = home[s]
        BY <4>1 DEF TypeInv, TypeOK
      <4> QED
        BY <2>0, <4>1, <4>2, EarnedFrame
    <3> QED
      BY <3>1, <3>2
  <2>2. ASSUME NEW r \in Requests, Handler(r) PROVE StampsEarned'
    BY <2>0, <2>2, HandlerLeavesCooldown, EarnedFrame
  <2>3. CASE Tick
    BY <2>0, <2>3, EarnedFrame DEF Tick
  <2>4. ASSUME NEW w \in Workers, Crash(w) PROVE StampsEarned'
    BY <2>0, <2>4, EarnedFrame DEF Crash
  <2>5. ASSUME NEW w \in Workers, Restart(w) PROVE StampsEarned'
    BY <2>5, EarnedAfterRestart
  <2>6. CASE UNCHANGED vars
    BY <2>0, <2>6, EarnedFrame DEF vars
  <2> QED
    BY <2>1, <2>2, <2>3, <2>4, <2>5, <2>6 DEF Next, Quiet
<1> QED
  BY <1>1, <1>2, TypeInvariant, CooldownInvariant, PTL DEF Spec

\* Only the cooldown check answers 429.
LEMMA DroppedByCooldown ==
  ASSUME TypeInv, [Next]_vars, NEW r \in Requests, reply'[r] # reply[r], reply'[r].status = 429
  PROVE  \E w \in Workers : RefuseCooldown(r, w)
<1> USE DEF TypeInv, TypeOK
<1>1. ASSUME NEW q \in Requests, Handler(q) PROVE FALSE
  <2>1. \/ reply' = reply
        \/ \E answer \in {Answer(200), Answer(500), Accepted(signalId[q])} :
             reply' = [reply EXCEPT ![q] = answer]
    BY <1>1 DEF Handler, MacroFetched, StageCrashes, Blocked, Cleared, Decided, Announce,
       NothingToExecute, Executed, ExecutorRaises, Report, Record, RecordFails, Conclude,
       Respond, workerVars, handlerVars
  <2> QED
    BY <2>1 DEF Answer, Accepted
<1>2. ASSUME NEW q \in Requests, NEW w \in Workers,
             RefuseBody(q, w) \/ RefuseSecret(q, w) \/ Admit(q, w)
      PROVE  FALSE
  <2>1. \/ reply' = reply
        \/ \E status \in {400, 401, 422} : reply' = [reply EXCEPT ![q] = Answer(status)]
    BY <1>2 DEF RefuseBody, RefuseSecret, Admit, Respond
  <2> QED
    BY <2>1 DEF Answer
<1>3. ASSUME NEW q \in Requests, NEW w \in Workers, RefuseCooldown(q, w)
      PROVE  \E v \in Workers : RefuseCooldown(r, v)
  <2>1. reply' = [reply EXCEPT ![q] = Answer(429)]
    BY <1>3 DEF RefuseCooldown, Respond
  <2>2. q = r
    BY <2>1
  <2> QED
    BY <1>3, <2>2
<1>4. ~(UNCHANGED vars \/ Tick \/ \E w \in Workers : Crash(w) \/ Restart(w))
  BY DEF vars, Tick, Crash, Restart
<1> QED
  BY <1>1, <1>2, <1>3, <1>4 DEF Next, Front, Quiet

\* THEOREM: whoever is answered 429 was preceded, on that boot of that worker, by
\* an admitted alert of the same key less than the cooldown ago.
THEOREM DropsAreJustified == Spec => DropJustified
<1> DEFINE Justified ==
      \A r \in Requests :
        reply'[r] # reply[r] /\ reply'[r].status = 429 =>
          \E s \in Requests \ {r} :
            /\ Admitted(s)
            /\ alert[s].symbol = alert[r].symbol /\ alert[s].signal = alert[r].signal
            /\ home[s] = home'[r] /\ era[s] = boots[home'[r]]
            /\ clock - admittedAt[s] < Cooldown
<1>1. TypeInv /\ CooldownInv /\ StampsEarned /\ [Next]_vars => [Justified]_vars
  <2> SUFFICES ASSUME TypeInv, CooldownInv, StampsEarned, [Next]_vars,
                      NEW r \in Requests, reply'[r] # reply[r], reply'[r].status = 429
               PROVE  \E s \in Requests \ {r} :
                        /\ Admitted(s)
                        /\ alert[s].symbol = alert[r].symbol /\ alert[s].signal = alert[r].signal
                        /\ home[s] = home'[r] /\ era[s] = boots[home'[r]]
                        /\ clock - admittedAt[s] < Cooldown
    OBVIOUS
  <2>1. PICK w \in Workers : RefuseCooldown(r, w)
    BY DroppedByCooldown
  <2>2. pc[r] = "new" /\ home'[r] = w /\ InCooldown(r, w)
    BY <2>1 DEF RefuseCooldown, Arrives, TypeInv, TypeOK
  <2>3. Key(r) \in Keys /\ cooldown[w][Key(r)] \in Nat /\ clock \in Nat
    BY KeyType DEF TypeInv, TypeOK
  <2>4. cooldown[w][Key(r)] # 0 /\ clock - cooldown[w][Key(r)] < Cooldown
    BY <2>2, <2>3 DEF InCooldown, StampsEarned, Epoch
  <2>5. PICK s \in Requests : Earns(s, w, Key(r))
    BY <2>3, <2>4 DEF StampsEarned
  <2>6. s # r
    BY <2>2, <2>5 DEF Earns, Admitted, CooldownInv, StampsCover
  <2> QED
    BY <2>2, <2>4, <2>5, <2>6 DEF Earns, Key
<1> QED
  BY <1>1, TypeInvariant, CooldownInvariant, EarnedInvariant, PTL DEF Spec, DropJustified

-----------------------------------------------------------------------------
(* What becomes of a request: its authority, its order, its row, its alarms. *)

Late == {"notify", "execute", "report", "record", "answer"}

MayTrade(r) ==
  /\ alert[r].body = "ok" /\ Admitted(r)
  /\ ~GuardsBlock(r)
  /\ LlmConfigured => WithinPolicy(decision[r])

Ordered(r)  == \E i \in DOMAIN broker : broker[i].req = r
Recorded(r) == \E j \in DOMAIN journal : journal[j].req = r
RecordedAsPlaced(r) == \E j \in DOMAIN journal : journal[j].req = r /\ journal[j].placed

\* A request carries its authority along the stages; an order belongs to one
\* that is past "execute", a row to one that is past "record".
Authority(r) ==
  /\ pc[r] \in Stages => alert[r].body = "ok" /\ Admitted(r)
  /\ pc[r] \in Late => MayTrade(r)
  /\ Ordered(r) =>
       MayTrade(r) /\ Trades(r) /\ pc[r] \in {"report", "record", "answer", "done", "lost"}
  /\ Recorded(r) => pc[r] \in {"answer", "done", "lost"}

\* The messages and the row an order must have by the stage it has reached.
Trail(r) ==
  /\ pc[r] \in {"execute", "report", "record"} /\ Trades(r) => <<r, "entry">> \in outbox
  /\ Ordered(r) => <<r, "entry">> \in outbox /\ execution[r] \in {"placed", "error"}
  /\ execution[r] = "placed" => Ordered(r)
  /\ pc[r] \in {"record", "answer"} /\ execution[r] = "error" => <<r, "exec_error">> \in outbox
  /\ pc[r] = "answer" /\ Ordered(r) =>
       <<r, "exec_error">> \in outbox \/ signalId[r] = 0 \/ RecordedAsPlaced(r)
  /\ pc[r] = "done" /\ Ordered(r) =>
       <<r, "exec_error">> \in outbox \/ reply[r] = Accepted(0) \/ RecordedAsPlaced(r)
  /\ pc[r] = "done" /\ Recorded(r) => reply[r] = Accepted(signalId[r])

\* The handler's signal_id is its one row, which holds what it did; an answer
\* names no other.
Rows(r) ==
  /\ \A j \in DOMAIN journal : journal[j].req = r => signalId[r] = j /\ journal[j] = RowOf(r)
  /\ signalId[r] # 0 => signalId[r] \in DOMAIN journal /\ journal[signalId[r]].req = r
  /\ reply[r].id # 0 => reply[r].id = signalId[r]

Fate(r) == Authority(r) /\ Trail(r) /\ Rows(r)

FateInv == \A r \in Requests : Fate(r)

\* Append leaves the old elements and adds one.
LEMMA AppendFacts ==
  ASSUME NEW S, NEW seq \in Seq(S), NEW e \in S
  PROVE  /\ DOMAIN seq = 1..Len(seq) /\ Len(seq) \in Nat
         /\ DOMAIN Append(seq, e) = 1..(Len(seq) + 1)
         /\ Append(seq, e)[Len(seq) + 1] = e
         /\ \A i \in DOMAIN seq : Append(seq, e)[i] = seq[i]
OBVIOUS

\* The requests of the orders and of the rows.
LEMMA WorldRequests ==
  ASSUME TypeOK
  PROVE  /\ \A i \in DOMAIN broker : broker[i].req \in Requests
         /\ \A j \in DOMAIN journal : journal[j].req \in Requests
<1>1. /\ broker \in [1..Len(broker) -> Order] /\ DOMAIN broker = 1..Len(broker)
      /\ journal \in [1..Len(journal) -> Row] /\ DOMAIN journal = 1..Len(journal)
  BY DEF TypeOK
<1> QED
  BY <1>1 DEF Order, Row

\* An order is added for one request.
LEMMA OrderAdded ==
  ASSUME TypeOK, NEW r \in Requests, NEW side \in {"buy", "sell"},
         broker' = Append(broker, [req |-> r, side |-> side])
  PROVE  \A s \in Requests : Ordered(s)' <=> (Ordered(s) \/ s = r)
<1> DEFINE e == [req |-> r, side |-> side]
<1>1. e \in Order /\ broker \in Seq(Order)
  BY DEF Order, TypeOK
<1>2. /\ DOMAIN broker = 1..Len(broker) /\ Len(broker) \in Nat
      /\ DOMAIN broker' = 1..(Len(broker) + 1) /\ broker'[Len(broker) + 1] = e
      /\ \A i \in DOMAIN broker : broker'[i] = broker[i]
  BY <1>1, AppendFacts
<1> HIDE DEF e
<1>3. e.req = r
  BY DEF e
<1> QED
  BY <1>2, <1>3 DEF Ordered

\* A row is added for one request.
LEMMA RowAdded ==
  ASSUME TypeOK, NEW r \in Requests, NEW row \in Row, row.req = r,
         journal' = Append(journal, row)
  PROVE  /\ \A s \in Requests \ {r} :
              /\ Recorded(s)' <=> Recorded(s)
              /\ RecordedAsPlaced(s) => RecordedAsPlaced(s)'
         /\ Recorded(r)' /\ (row.placed => RecordedAsPlaced(r)')
         /\ \A j \in DOMAIN journal' :
              (j \in DOMAIN journal /\ journal'[j] = journal[j])
              \/ (j = Len(journal) + 1 /\ journal'[j] = row)
<1>1. journal \in Seq(Row)
  BY DEF TypeOK
<1>2. /\ DOMAIN journal = 1..Len(journal) /\ Len(journal) \in Nat
      /\ DOMAIN journal' = 1..(Len(journal) + 1) /\ journal'[Len(journal) + 1] = row
      /\ \A j \in DOMAIN journal : journal'[j] = journal[j]
  BY <1>1, AppendFacts
<1> QED
  BY <1>2 DEF Recorded, RecordedAsPlaced

\* A request that a step leaves alone keeps its fate.
LEMMA FateFrame ==
  ASSUME NEW s \in Requests, Fate(s),
         pc'[s] = pc[s], alert' = alert, decision'[s] = decision[s], era'[s] = era[s],
         notified'[s] = notified[s], execution'[s] = execution[s], reply'[s] = reply[s],
         signalId'[s] = signalId[s], outbox \subseteq outbox',
         Ordered(s)' <=> Ordered(s), Recorded(s)' <=> Recorded(s),
         RecordedAsPlaced(s) => RecordedAsPlaced(s)', Rows(s)'
  PROVE  Fate(s)'
<1>1. /\ MayTrade(s)' <=> MayTrade(s)
      /\ Trades(s)' <=> Trades(s)
      /\ Admitted(s)' <=> Admitted(s)
  BY DEF MayTrade, Trades, Admitted, GuardsBlock, GuardContext
<1>2. Authority(s)'
  BY <1>1 DEF Fate, Authority
<1>3. Trail(s)'
  BY <1>1 DEF Fate, Trail, Accepted
<1> QED
  BY <1>2, <1>3 DEF Fate

\* A step that changes neither the orders nor the rows.
LEMMA NoRowOrOrder ==
  ASSUME UNCHANGED <<broker, journal>>, NEW s
  PROVE  /\ Ordered(s)' <=> Ordered(s)
         /\ Recorded(s)' <=> Recorded(s)
         /\ RecordedAsPlaced(s)' <=> RecordedAsPlaced(s)
BY DEF Ordered, Recorded, RecordedAsPlaced

\* The rows of an untouched request stay its own.
LEMMA RowsFrame ==
  ASSUME NEW s \in Requests, Rows(s), UNCHANGED journal, reply'[s] = reply[s],
         decision'[s] = decision[s], execution'[s] = execution[s],
         notified'[s] = notified[s], signalId'[s] = signalId[s]
  PROVE  Rows(s)'
BY DEF Rows, RowOf

\* A request with no row is trivially told the truth.
LEMMA NoRows ==
  ASSUME NEW s \in Requests, ~Recorded(s), Rows(s), UNCHANGED journal,
         signalId'[s] = signalId[s], reply'[s] = reply[s] \/ reply'[s].id = 0
  PROVE  Rows(s)'
BY DEF Rows, Recorded

\* A step of r that changes neither orders nor rows and leaves the others alone.
LEMMA QuietStep ==
  ASSUME TypeInv, FateInv, NEW r \in Requests,
         UNCHANGED <<alert, broker, journal, signalId>>, outbox \subseteq outbox',
         \A s \in Requests \ {r} :
           /\ pc'[s] = pc[s] /\ decision'[s] = decision[s] /\ era'[s] = era[s]
           /\ notified'[s] = notified[s] /\ execution'[s] = execution[s]
           /\ reply'[s] = reply[s],
         ~Recorded(r), reply'[r] = reply[r] \/ reply'[r].id = 0, Authority(r)', Trail(r)'
  PROVE  FateInv'
<1>1. ASSUME NEW s \in Requests \ {r} PROVE Fate(s)'
  <2>1. Fate(s)
    BY DEF FateInv
  <2>2. Rows(s)'
    BY <2>1, RowsFrame DEF Fate
  <2> QED
    BY <2>1, <2>2, FateFrame, NoRowOrOrder
<1>2. Rows(r)'
  BY NoRows DEF FateInv, Fate
<1> QED
  BY <1>1, <1>2 DEF FateInv, Fate

\* The front of the handler keeps the fate of every request.
LEMMA FrontFate ==
  ASSUME TypeInv, FateInv, NEW r \in Requests, Front(r), era[r] = 0
  PROVE  FateInv'
<1> USE DEF TypeInv, TypeOK, BootsBounded, Stages, Late, workerVars, handlerVars, worldVars,
            historyVars, Arrives
<1> PICK w \in Workers :
      RefuseBody(r, w) \/ RefuseSecret(r, w) \/ RefuseCooldown(r, w) \/ Admit(r, w)
  BY DEF Front
<1>1. /\ pc[r] = "new" /\ ~Ordered(r) /\ ~Recorded(r) /\ execution[r] # "placed"
      /\ UNCHANGED <<alert, broker, journal, decision, notified, execution, signalId>>
      /\ outbox \subseteq outbox'
  BY DEF RefuseBody, RefuseSecret, RefuseCooldown, Admit, FateInv, Fate, Authority, Trail, Send
<1>2. ~Ordered(r)' /\ ~Recorded(r)' /\ execution'[r] # "placed"
  BY <1>1, NoRowOrOrder
<1>3. pc' = [pc EXCEPT ![r] = "done"] \/ (Admit(r, w) /\ pc' = [pc EXCEPT ![r] = "macro"])
  BY DEF RefuseBody, RefuseSecret, RefuseCooldown, Admit, Respond, MoveTo
<1>4. \A s \in Requests \ {r} : pc'[s] = pc[s] /\ era'[s] = era[s] /\ reply'[s] = reply[s]
  BY DEF RefuseBody, RefuseSecret, RefuseCooldown, Admit, Respond, MoveTo
<1>5. Authority(r)'
  <2>1. CASE pc' = [pc EXCEPT ![r] = "done"]
    BY <1>2, <2>1 DEF Authority
  <2>2. CASE Admit(r, w) /\ pc' = [pc EXCEPT ![r] = "macro"]
    <3>1. alert'[r].body = "ok" /\ Admitted(r)' /\ pc'[r] = "macro"
      BY <2>2 DEF Admit, Admitted
    <3> QED
      BY <1>2, <3>1 DEF Authority
  <2> QED
    BY <1>3, <2>1, <2>2
<1>6. Trail(r)'
  BY <1>2, <1>3 DEF Trail
<1>7. reply'[r] = reply[r] \/ reply'[r].id = 0
  BY DEF RefuseBody, RefuseSecret, RefuseCooldown, Admit, Respond, Answer
<1> QED
  BY <1>1, <1>4, <1>5, <1>6, <1>7, QuietStep

\* The handler's steps up to the notification, and those that end a request.
LEMMA DecideFate ==
  ASSUME TypeInv, FateInv, NEW r \in Requests,
         \/ MacroFetched(r)
         \/ \E stage \in {"macro", "engine"} : StageCrashes(r, stage)
         \/ \E d \in EngineResults(alert[r].signal, LlmConfigured) :
              Blocked(r, d) \/ Cleared(r, d)
         \/ ExecutorRaises(r)
  PROVE  FateInv'
<1> USE DEF TypeInv, TypeOK, Stages, Late, workerVars, handlerVars, worldVars, historyVars
<1>1. /\ pc[r] \in {"macro", "engine", "execute"} /\ ~Ordered(r) /\ ~Recorded(r)
      /\ UNCHANGED <<alert, broker, journal, notified, execution, signalId, era>>
      /\ execution[r] # "placed" /\ alert[r].body = "ok" /\ Admitted(r)
  BY DEF MacroFetched, StageCrashes, Blocked, Cleared, Decided, ExecutorRaises,
         FateInv, Fate, Authority, Trail
<1>2. /\ outbox \subseteq outbox'
      /\ \A s \in Requests \ {r} :
           pc'[s] = pc[s] /\ decision'[s] = decision[s] /\ reply'[s] = reply[s]
  BY DEF MacroFetched, StageCrashes, Blocked, Cleared, Decided, ExecutorRaises,
         Respond, MoveTo, Send
<1>3. ~Ordered(r)' /\ ~Recorded(r)' /\ execution'[r] # "placed"
      /\ alert'[r].body = "ok" /\ Admitted(r)'
  BY <1>1, NoRowOrOrder DEF Admitted
<1>4. pc'[r] \in {"engine", "done"} \/ \E d \in EngineResults(alert[r].signal, LlmConfigured) :
                                       Cleared(r, d)
  BY DEF MacroFetched, StageCrashes, Blocked, ExecutorRaises, Respond, MoveTo
<1>5. Authority(r)'
  <2>1. CASE pc'[r] \in {"engine", "done"}
    BY <1>3, <2>1 DEF Authority
  <2>2. ASSUME NEW d \in EngineResults(alert[r].signal, LlmConfigured), Cleared(r, d)
        PROVE  Authority(r)'
    <3>1. d \in LLMDecision /\ (LlmConfigured => WithinPolicy(d))
      BY KeyType, ResultsSound
    <3>2. decision'[r] = d /\ pc'[r] = "notify" /\ ~GuardsBlock(r)
      BY <2>2 DEF Cleared, Decided, MoveTo
    <3>3. ~GuardsBlock(r)'
      BY <1>1, <3>2 DEF GuardsBlock, GuardContext
    <3>4. MayTrade(r)'
      BY <1>3, <3>1, <3>2, <3>3 DEF MayTrade
    <3> QED
      BY <1>3, <3>2, <3>4 DEF Authority
  <2> QED
    BY <1>4, <2>1, <2>2
<1>6. Trail(r)'
  <2>1. pc'[r] \in {"engine", "done", "notify"}
    BY <1>4 DEF Cleared, MoveTo
  <2> QED
    BY <1>3, <2>1 DEF Trail
<1>7. reply'[r] = reply[r] \/ reply'[r].id = 0
  BY DEF MacroFetched, StageCrashes, Blocked, Cleared, ExecutorRaises, Respond, Answer
<1> QED
  BY <1>1, <1>2, <1>5, <1>6, <1>7, QuietStep

\* Notify, leave alone, report, fail to record: the trail grows as it must.
LEMMA TellFate ==
  ASSUME TypeInv, FateInv, NEW r \in Requests,
         \/ \E delivered \in BOOLEAN : Announce(r, delivered)
         \/ NothingToExecute(r) \/ Report(r) \/ RecordFails(r)
  PROVE  FateInv'
<1> USE DEF TypeInv, TypeOK, Stages, Late, workerVars, handlerVars, worldVars, historyVars
<1>1. /\ pc[r] \in Late \ {"answer"}
      /\ UNCHANGED <<alert, broker, journal, decision, execution, signalId, reply, era>>
      /\ outbox \subseteq outbox'
  BY DEF Announce, NothingToExecute, Report, RecordFails, Send
<1>2. \A s \in Requests \ {r} : pc'[s] = pc[s] /\ notified'[s] = notified[s]
  BY DEF Announce, NothingToExecute, Report, RecordFails, MoveTo
<1>3. /\ Ordered(r)' <=> Ordered(r)
      /\ Recorded(r)' <=> Recorded(r)
  BY <1>1, NoRowOrOrder
<1>4. /\ MayTrade(r)' <=> MayTrade(r)
      /\ Trades(r)' <=> Trades(r)
      /\ Admitted(r)' <=> Admitted(r)
  BY <1>1 DEF MayTrade, Trades, Admitted, GuardsBlock, GuardContext
<1>5. Authority(r) /\ Trail(r) /\ Rows(r) /\ ~Recorded(r)
  BY <1>1 DEF FateInv, Fate, Authority
<1>6. \/ Announce(r, TRUE) /\ pc[r] = "notify" /\ pc'[r] = "execute"
      \/ Announce(r, FALSE) /\ pc[r] = "notify" /\ pc'[r] = "execute"
      \/ NothingToExecute(r) /\ pc[r] = "execute" /\ pc'[r] = "report"
      \/ Report(r) /\ pc[r] = "report" /\ pc'[r] = "record"
      \/ RecordFails(r) /\ pc[r] = "record" /\ pc'[r] = "answer"
  BY DEF Announce, NothingToExecute, Report, RecordFails, MoveTo
<1>7. Authority(r)'
  BY <1>1, <1>3, <1>4, <1>5, <1>6 DEF Authority
<1>8. Trail(r)'
  <2>1. CASE pc[r] = "notify"
    <3>1. Trades(r) => <<r, "entry">> \in outbox'
      BY <1>6, <2>1 DEF Announce, NothingToExecute, Report, RecordFails, Send
    <3> QED
      BY <1>1, <1>3, <1>4, <1>5, <1>6, <2>1, <3>1 DEF Trail, Authority
  <2>2. CASE pc[r] = "execute"
    BY <1>1, <1>3, <1>4, <1>5, <1>6, <2>2 DEF Trail, Authority
  <2>3. CASE pc[r] = "report"
    <3>1. execution[r] = "error" => <<r, "exec_error">> \in outbox'
      BY <1>6, <2>3 DEF Report, Send
    <3> QED
      BY <1>1, <1>3, <1>4, <1>5, <1>6, <2>3, <3>1 DEF Trail
  <2>4. CASE pc[r] = "record"
    <3>1. signalId'[r] = 0
      BY <1>1, <1>5 DEF Rows, Recorded
    <3> QED
      BY <1>1, <1>3, <1>4, <1>5, <1>6, <2>4, <3>1 DEF Trail
  <2> QED
    BY <1>6, <2>1, <2>2, <2>3, <2>4
<1> QED
  BY <1>1, <1>2, <1>5, <1>7, <1>8, QuietStep

\* The executor's answer: an order that was accepted belongs to r from here on.
LEMMA ExecuteFate ==
  ASSUME TypeInv, FateInv, NEW r \in Requests, NEW outcome \in {"placed", "error"},
         NEW accepted \in BOOLEAN, Executed(r, outcome, accepted)
  PROVE  FateInv'
<1> USE DEF TypeInv, TypeOK, Stages, Late, workerVars, handlerVars, worldVars, historyVars
<1>1. /\ pc[r] = "execute" /\ Trades(r) /\ ~Recorded(r)
      /\ pc' = [pc EXCEPT ![r] = "report"]
      /\ execution' = [execution EXCEPT ![r] = outcome]
      /\ UNCHANGED <<alert, journal, decision, notified, signalId, era, reply, outbox>>
      /\ outcome = "placed" => accepted
      /\ alert[r].body = "ok" /\ Admitted(r) /\ MayTrade(r) /\ <<r, "entry">> \in outbox
  BY DEF Executed, MoveTo, FateInv, Fate, Authority, Trail
<1>2. \A s \in Requests : Ordered(s)' <=> (Ordered(s) \/ (s = r /\ accepted))
  <2>1. CASE accepted
    <3>1. broker' = Append(broker, [req |-> r, side |-> Side(r)])
      BY <2>1 DEF Executed
    <3>2. Side(r) \in {"buy", "sell"}
      BY DEF Side
    <3> QED
      BY <2>1, <3>1, <3>2, OrderAdded
  <2>2. CASE ~accepted
    BY <2>2 DEF Executed, Ordered
  <2> QED
    BY <2>1, <2>2
<1>3. \A s \in Requests : /\ Recorded(s)' <=> Recorded(s)
                          /\ RecordedAsPlaced(s)' <=> RecordedAsPlaced(s)
  BY <1>1 DEF Recorded, RecordedAsPlaced
<1>4. ASSUME NEW s \in Requests \ {r} PROVE Fate(s)'
  <2>1. Fate(s)
    BY DEF FateInv
  <2>2. Rows(s)'
    BY <1>1, <2>1, RowsFrame DEF Fate
  <2> QED
    BY <1>1, <1>2, <1>3, <2>1, <2>2, FateFrame
<1>5. MayTrade(r)' /\ Trades(r)' /\ Admitted(r)'
  BY <1>1 DEF MayTrade, Trades, Admitted, GuardsBlock, GuardContext
<1>6. Authority(r)'
  BY <1>1, <1>3, <1>5 DEF Authority
<1>7. Trail(r)'
  <2>1. pc'[r] = "report" /\ execution'[r] = outcome
    BY <1>1
  <2>2. outcome = "placed" => Ordered(r)'
    BY <1>1, <1>2
  <2> QED
    BY <1>1, <2>1, <2>2 DEF Trail
<1>8. Rows(r)'
  BY <1>1, NoRows DEF FateInv, Fate
<1> QED
  BY <1>4, <1>6, <1>7, <1>8 DEF FateInv, Fate

\* The row of r is committed and its id is the handler's.
LEMMA RecordFate ==
  ASSUME TypeInv, FateInv, NEW r \in Requests, Record(r)
  PROVE  FateInv'
<1> USE DEF TypeInv, TypeOK, Stages, Late, workerVars, handlerVars, worldVars, historyVars
<1>1. /\ pc[r] = "record" /\ ~Recorded(r)
      /\ pc' = [pc EXCEPT ![r] = "answer"]
      /\ signalId' = [signalId EXCEPT ![r] = Len(journal) + 1]
      /\ journal' = Append(journal, RowOf(r))
      /\ UNCHANGED <<alert, broker, decision, execution, notified, reply, era, outbox>>
  BY DEF Record, MoveTo, FateInv, Fate, Authority
<1>2. RowOf(r) \in Row /\ RowOf(r).req = r /\ RowOf(r).placed = (execution[r] = "placed")
  BY DEF RowOf, Row, LLMDecision
<1>3. \A s \in Requests : Ordered(s)' <=> Ordered(s)
  BY <1>1 DEF Ordered
<1>4. /\ \A s \in Requests \ {r} :
           /\ Recorded(s)' <=> Recorded(s)
           /\ RecordedAsPlaced(s) => RecordedAsPlaced(s)'
      /\ execution[r] = "placed" => RecordedAsPlaced(r)'
      /\ \A j \in DOMAIN journal' :
           (j \in DOMAIN journal /\ journal'[j] = journal[j])
           \/ (j = Len(journal) + 1 /\ journal'[j] = RowOf(r))
  BY <1>1, <1>2, RowAdded
<1>5. /\ \A j \in DOMAIN journal : j \in DOMAIN journal' /\ journal'[j] = journal[j]
      /\ Len(journal) + 1 \in DOMAIN journal' /\ journal'[Len(journal) + 1] = RowOf(r)
  BY <1>1, <1>2, AppendFacts
<1>6. ASSUME NEW s \in Requests \ {r} PROVE Fate(s)'
  <2>1. Fate(s) /\ Rows(s)
    BY DEF FateInv, Fate
  <2>2. /\ reply'[s] = reply[s] /\ pc'[s] = pc[s] /\ signalId'[s] = signalId[s]
        /\ RowOf(s)' = RowOf(s)
    BY <1>1 DEF RowOf
  <2>3. \A j \in DOMAIN journal' :
          journal'[j].req = s => j \in DOMAIN journal /\ journal'[j] = journal[j]
    BY <1>2, <1>4
  <2>4. Rows(s)'
    BY <1>5, <2>1, <2>2, <2>3 DEF Rows
  <2> QED
    BY <1>1, <1>3, <1>4, <2>1, <2>2, <2>4, FateFrame
<1>7. MayTrade(r)' <=> MayTrade(r)
  BY <1>1 DEF MayTrade, Admitted, GuardsBlock, GuardContext
<1>8. Authority(r)' /\ Trail(r)'
  <2>1. Authority(r) /\ Trail(r)
    BY DEF FateInv, Fate
  <2>2. Trades(r)' <=> Trades(r)
    BY <1>1 DEF Trades
  <2>3. pc'[r] = "answer" /\ execution'[r] = execution[r] /\ outbox' = outbox
    BY <1>1
  <2>4. Authority(r)'
    <3>1. "answer" \in Late /\ "answer" \in Stages /\ alert'[r].body = alert[r].body
      BY <1>1
    <3>2. Admitted(r)' <=> Admitted(r)
      BY <1>1 DEF Admitted
    <3> HIDE DEF TypeInv, TypeOK, Stages, Late
    <3>3. pc[r] \in Stages /\ pc[r] \in Late
      BY <1>1 DEF Stages, Late
    <3> QED
      BY <1>1, <1>3, <1>7, <2>1, <2>2, <2>3, <3>1, <3>2, <3>3 DEF Authority
  <2>5. Ordered(r)' => <<r, "exec_error">> \in outbox' \/ RecordedAsPlaced(r)'
    BY <1>1, <1>3, <1>4, <2>1, <2>3 DEF Trail
  <2>6. Trail(r)'
    BY <1>1, <1>3, <2>1, <2>3, <2>5 DEF Trail
  <2> QED
    BY <2>4, <2>6
<1>9. Rows(r)'
  <2>1. Rows(r) /\ RowOf(r)' = RowOf(r) /\ signalId'[r] = Len(journal) + 1
    BY <1>1 DEF RowOf, FateInv, Fate
  <2>2. \A j \in DOMAIN journal' : journal'[j].req = r => j = Len(journal) + 1
    BY <1>1, <1>4 DEF Recorded
  <2>3. reply'[r].id = 0
    <3>1. signalId[r] = 0
      BY <1>1, <2>1 DEF Rows, Recorded
    <3> QED
      BY <1>1, <2>1, <3>1 DEF Rows
  <2> QED
    BY <1>2, <1>5, <2>1, <2>2, <2>3 DEF Rows
<1> QED
  BY <1>6, <1>8, <1>9 DEF FateInv, Fate

\* The answer carries the handler's signal_id.
LEMMA ConcludeFate ==
  ASSUME TypeInv, FateInv, NEW r \in Requests, Conclude(r)
  PROVE  FateInv'
<1> USE DEF TypeInv, TypeOK, Stages, Late, workerVars, handlerVars, worldVars, historyVars
<1>1. /\ pc[r] = "answer" /\ pc' = [pc EXCEPT ![r] = "done"]
      /\ reply' = [reply EXCEPT ![r] = Accepted(signalId[r])]
      /\ UNCHANGED <<alert, broker, journal, decision, execution, notified, signalId, era,
                     outbox>>
  BY DEF Conclude, Respond, MoveTo
<1>2. ASSUME NEW s \in Requests \ {r} PROVE Fate(s)'
  <2>1. Fate(s) /\ reply'[s] = reply[s] /\ pc'[s] = pc[s]
    BY <1>1 DEF FateInv
  <2>2. Rows(s)'
    BY <1>1, <2>1, RowsFrame DEF Fate
  <2> QED
    BY <1>1, <2>1, <2>2, FateFrame, NoRowOrOrder
<1>3. Authority(r) /\ Trail(r) /\ Rows(r)
  BY DEF FateInv, Fate
<1>4. /\ MayTrade(r)' <=> MayTrade(r)
      /\ Trades(r)' <=> Trades(r)
      /\ Ordered(r)' <=> Ordered(r)
      /\ Recorded(r)' <=> Recorded(r)
      /\ RecordedAsPlaced(r)' <=> RecordedAsPlaced(r)
  BY <1>1, NoRowOrOrder DEF MayTrade, Trades, Admitted, GuardsBlock, GuardContext
<1>5. pc'[r] = "done" /\ reply'[r] = Accepted(signalId[r]) /\ signalId'[r] = signalId[r]
  BY <1>1
<1>6. Authority(r)'
  BY <1>3, <1>4, <1>5 DEF Authority
<1>7. Trail(r)'
  BY <1>1, <1>3, <1>4, <1>5 DEF Trail, Accepted
<1>8. Rows(r)'
  BY <1>1, <1>3, <1>5 DEF Rows, RowOf, Accepted
<1> QED
  BY <1>2, <1>6, <1>7, <1>8 DEF FateInv, Fate

\* Time, crashes and restarts.
LEMMA WorldFate ==
  ASSUME TypeInv, FateInv, Tick \/ \E w \in Workers : Crash(w) \/ Restart(w)
  PROVE  FateInv'
<1> USE DEF TypeInv, TypeOK, Stages, Late, workerVars, handlerVars, worldVars, historyVars
<1>1. UNCHANGED <<alert, decision, notified, execution, signalId, reply, broker, journal,
                  outbox, era>>
  BY DEF Tick, Crash, Restart
<1>2. \A s \in Requests : pc'[s] = pc[s] \/ (pc[s] \in Stages /\ pc'[s] = "lost")
  BY DEF Tick, Crash, Restart
<1> SUFFICES ASSUME NEW s \in Requests PROVE Fate(s)'
  BY DEF FateInv
<1>3. Fate(s) /\ Rows(s)'
  BY <1>1, RowsFrame DEF FateInv, Fate
<1>4. CASE pc'[s] = pc[s]
  BY <1>1, <1>3, <1>4, FateFrame, NoRowOrOrder
<1>5. CASE pc[s] \in Stages /\ pc'[s] = "lost"
  <2>1. /\ MayTrade(s)' <=> MayTrade(s)
        /\ Trades(s)' <=> Trades(s)
    BY <1>1 DEF MayTrade, Trades, Admitted, GuardsBlock, GuardContext
  <2>2. Ordered(s)' <=> Ordered(s)
    BY <1>1, NoRowOrOrder
  <2>3. Recorded(s)' <=> Recorded(s)
    BY <1>1, NoRowOrOrder
  <2>4. Authority(s)' /\ Trail(s)'
    BY <1>1, <1>3, <1>5, <2>1, <2>2, <2>3 DEF Fate, Authority, Trail
  <2> QED
    BY <1>3, <2>4 DEF Fate
<1> QED
  BY <1>2, <1>4, <1>5

\* Authority, trail and rows of every request hold in every reachable state.
LEMMA FateCorrect == Spec => []FateInv
<1>1. Init => FateInv
  <2> SUFFICES ASSUME Init, NEW r \in Requests PROVE Fate(r)
    BY DEF FateInv
  <2>1. /\ broker = << >> /\ journal = << >> /\ pc[r] = "new" /\ execution[r] = "none"
        /\ signalId[r] = 0 /\ reply[r].id = 0
    BY DEF Init, NoReply, Answer
  <2>2. DOMAIN broker = {} /\ DOMAIN journal = {}
    BY <2>1
  <2> QED
    BY <2>1, <2>2 DEF Fate, Authority, Trail, Rows, Ordered, Recorded, Stages, Late
<1>2. TypeInv /\ CooldownInv /\ FateInv /\ [Next]_vars => FateInv'
  <2> SUFFICES ASSUME TypeInv, CooldownInv, FateInv, [Next]_vars PROVE FateInv'
    OBVIOUS
  <2>1. ASSUME NEW r \in Requests, Front(r) PROVE FateInv'
    <3>1. era[r] = 0
      BY <2>1 DEF Front, RefuseBody, RefuseSecret, RefuseCooldown, Admit, Arrives,
                  CooldownInv, StampsCover
    <3> QED
      BY <2>1, <3>1, FrontFate
  <2>2. ASSUME NEW r \in Requests, Handler(r) PROVE FateInv'
    BY <2>2, DecideFate, TellFate, ExecuteFate, RecordFate, ConcludeFate DEF Handler
  <2>3. CASE UNCHANGED vars
    <3> SUFFICES ASSUME NEW s \in Requests PROVE Fate(s)'
      BY DEF FateInv
    <3> USE DEF vars, handlerVars, worldVars, historyVars
    <3>1. Fate(s) /\ Rows(s)'
      BY <2>3, RowsFrame DEF FateInv, Fate
    <3> QED
      BY <2>3, <3>1, FateFrame, NoRowOrOrder
  <2> QED
    BY <2>1, <2>2, <2>3, WorldFate DEF Next, Quiet
<1> QED
  BY <1>1, <1>2, TypeInvariant, CooldownInvariant, PTL DEF Spec

\* THEOREM: every order at the broker was authorised.
THEOREM OrdersAreAuthorised == Spec => []OrdersAuthorised
<1>1. TypeInv /\ FateInv => OrdersAuthorised
  <2> SUFFICES ASSUME TypeInv, FateInv, NEW i \in DOMAIN broker
               PROVE  LET r == broker[i].req IN MayTrade(r) /\ Trades(r)
    BY DEF OrdersAuthorised, MayTrade
  <2>1. broker[i].req \in Requests /\ Ordered(broker[i].req)
    BY WorldRequests DEF Ordered, TypeInv
  <2> QED
    BY <2>1 DEF FateInv, Fate, Authority
<1> QED
  BY <1>1, FateCorrect, TypeInvariant, PTL

\* THEOREM: no order goes without its entry message and, once its request is
\* answered, without its row or an alarm.
THEOREM NoOrderIsSilent == Spec => []NoSilentOrder
<1>1. TypeInv /\ FateInv => NoSilentOrder
  <2> SUFFICES ASSUME TypeInv, FateInv, NEW i \in DOMAIN broker, NEW r, r = broker[i].req
               PROVE  /\ <<r, "entry">> \in outbox
                      /\ pc[r] = "done" => \/ <<r, "exec_error">> \in outbox
                                           \/ reply[r] = Accepted(0)
                                           \/ RecordedAsPlaced(r)
    BY DEF NoSilentOrder, RecordedAsPlaced
  <2>1. r \in Requests /\ Ordered(r)
    BY WorldRequests DEF Ordered, TypeInv
  <2> QED
    BY <2>1 DEF FateInv, Fate, Trail
<1> QED
  BY <1>1, FateCorrect, TypeInvariant, PTL

\* THEOREM: a row tells what its request did and is answered with its id unless
\* the worker died first, and an answer names the row of its own request.
THEOREM JournalIsTruthful == Spec => []JournalTruthful
<1>1. TypeInv /\ FateInv => JournalTruthful
  <2> SUFFICES ASSUME TypeInv, FateInv PROVE JournalTruthful
    OBVIOUS
  <2>1. ASSUME NEW j \in DOMAIN journal, NEW r, r = journal[j].req
        PROVE  /\ journal[j] = RowOf(r)
               /\ journal[j].placed => Ordered(r)
               /\ pc[r] = "done" => reply[r] = Accepted(j)
    <3>1. r \in Requests /\ Recorded(r)
      BY <2>1, WorldRequests DEF TypeInv, Recorded
    <3>2. signalId[r] = j /\ journal[j] = RowOf(r)
      BY <2>1, <3>1 DEF FateInv, Fate, Rows
    <3>3. journal[j].placed => execution[r] = "placed"
      <4>1. RowOf(r).placed = (execution[r] = "placed")
        BY DEF RowOf
      <4>2. journal[j].placed = RowOf(r).placed
        BY <3>2
      <4> QED
        BY <4>1, <4>2, Zenon
    <3> QED
      BY <3>1, <3>2, <3>3 DEF FateInv, Fate, Trail
  <2>2. ASSUME NEW r \in Requests, reply[r].id # 0
        PROVE  reply[r].id \in DOMAIN journal /\ journal[reply[r].id].req = r
    BY <2>2 DEF FateInv, Fate, Rows
  <2> QED
    BY <2>1, <2>2 DEF JournalTruthful, Ordered
<1> QED
  BY <1>1, FateCorrect, TypeInvariant, PTL

-----------------------------------------------------------------------------
(* The handlers implement the ledger.                                        *)

\* A sequence is its length and its elements.
LEMMA ProjectionAppend ==
  ASSUME NEW S, NEW seq \in Seq(S), NEW e \in S, NEW T, NEW F \in [S -> T]
  PROVE  [i \in DOMAIN Append(seq, e) |-> F[Append(seq, e)[i]]]
           = Append([i \in DOMAIN seq |-> F[seq[i]]], F[e])
<1> DEFINE p == [i \in DOMAIN seq |-> F[seq[i]]]
           q == [i \in DOMAIN Append(seq, e) |-> F[Append(seq, e)[i]]]
<1>1. DOMAIN seq = 1..Len(seq) /\ Len(seq) \in Nat /\ \A i \in DOMAIN seq : seq[i] \in S
  OBVIOUS
<1>2. p \in Seq(T) /\ Len(p) = Len(seq)
  BY <1>1
<1>3. /\ DOMAIN Append(p, F[e]) = 1..(Len(p) + 1)
      /\ Append(p, F[e])[Len(p) + 1] = F[e]
      /\ \A i \in DOMAIN p : Append(p, F[e])[i] = p[i]
  <2>1. F[e] \in T
    OBVIOUS
  <2> HIDE DEF p
  <2> QED
    BY <1>2, <2>1, AppendFacts
<1>4. /\ DOMAIN q = 1..(Len(seq) + 1) /\ q[Len(seq) + 1] = F[e]
      /\ \A i \in DOMAIN seq : q[i] = F[seq[i]]
  BY <1>1, AppendFacts
<1> QED
  <2>1. Append(p, F[e]) \in Seq(T)
    BY <1>2
  <2>2. DOMAIN q = DOMAIN Append(p, F[e])
    BY <1>2, <1>3, <1>4
  <2>3. \A i \in DOMAIN q : q[i] = Append(p, F[e])[i]
    BY <1>1, <1>2, <1>3, <1>4
  <2> QED
    BY <2>1, <2>2, <2>3

\* The orders of a longer broker log.
LEMMA OrdersAppend ==
  ASSUME TypeOK, NEW r \in Requests, NEW side \in {"buy", "sell"},
         broker' = Append(broker, [req |-> r, side |-> side])
  PROVE  LedgerOrders' = Append(LedgerOrders, r)
<1> DEFINE e == [req |-> r, side |-> side]
           F == [o \in Order |-> o.req]
<1>1. e \in Order /\ broker \in Seq(Order) /\ F \in [Order -> Requests] /\ F[e] = r
  BY DEF Order, TypeOK
<1>2. broker' = Append(broker, e) /\ broker' \in Seq(Order)
  BY <1>1
<1> HIDE DEF e
<1>3. LedgerOrders = [i \in DOMAIN broker |-> F[broker[i]]]
  <2>1. \A i \in DOMAIN broker : broker[i] \in Order
    BY <1>1
  <2> QED
    BY <2>1 DEF LedgerOrders
<1>4. LedgerOrders' = [i \in DOMAIN broker' |-> F[broker'[i]]]
  <2>1. \A i \in DOMAIN broker' : broker'[i] \in Order
    BY <1>2
  <2> QED
    BY <2>1 DEF LedgerOrders
<1> HIDE DEF F
<1>5. LedgerOrders' = [i \in DOMAIN Append(broker, e) |-> F[Append(broker, e)[i]]]
  BY <1>2, <1>4
<1> QED
  BY <1>1, <1>3, <1>5, ProjectionAppend

\* The rows of a longer journal.
LEMMA RowsAppend ==
  ASSUME TypeOK, NEW row \in Row, journal' = Append(journal, row)
  PROVE  LedgerRows' = Append(LedgerRows, row.req)
<1> DEFINE F == [x \in Row |-> x.req]
<1>1. journal \in Seq(Row) /\ F \in [Row -> Requests] /\ F[row] = row.req
  BY DEF Row, TypeOK
<1>2. journal' \in Seq(Row)
  BY <1>1
<1>3. LedgerRows = [i \in DOMAIN journal |-> F[journal[i]]]
  <2>1. \A i \in DOMAIN journal : journal[i] \in Row
    BY <1>1
  <2> QED
    BY <2>1 DEF LedgerRows
<1>4. LedgerRows' = [i \in DOMAIN journal' |-> F[journal'[i]]]
  <2>1. \A i \in DOMAIN journal' : journal'[i] \in Row
    BY <1>2
  <2> QED
    BY <2>1 DEF LedgerRows
<1> HIDE DEF F
<1>5. LedgerRows' = [i \in DOMAIN Append(journal, row) |-> F[Append(journal, row)[i]]]
  BY <1>4
<1> QED
  BY <1>1, <1>3, <1>5, ProjectionAppend

\* The ledger knows the requests of the orders and of the rows.
LEMMA LedgerOccurs ==
  /\ \A r : Ledger!Occurs(r, LedgerOrders) <=> Ordered(r)
  /\ \A r : Ledger!Occurs(r, LedgerRows) <=> Recorded(r)
BY DEF Ledger!Occurs, LedgerOrders, LedgerRows, Ordered, Recorded

LedgerFrame == UNCHANGED <<LedgerOrders, LedgerRows>>

\* A step of one request shows in the ledger as the step of its stage.
LEMMA StageStep ==
  ASSUME TypeOK, NEW r \in Requests, NEW stage, pc' = [pc EXCEPT ![r] = stage]
  PROVE  LedgerStage' = [LedgerStage EXCEPT ![r] =
                           IF stage = "new" THEN "waiting"
                           ELSE IF stage \in Stages THEN "open" ELSE "closed"]
BY DEF TypeOK, LedgerStage

\* A request that ends.
LEMMA EndStep ==
  ASSUME TypeOK, NEW r \in Requests, pc[r] \in Stages, pc' = [pc EXCEPT ![r] = "done"],
         LedgerFrame
  PROVE  Ledger!End({r})
<1>1. LedgerStage' = [LedgerStage EXCEPT ![r] = "closed"]
  BY StageStep DEF Stages
<1>2. LedgerStage[r] = "open"
  BY DEF LedgerStage, Stages
<1>3. LedgerStage' = [s \in Requests |-> IF s \in {r} THEN "closed" ELSE LedgerStage[s]]
  BY <1>1 DEF LedgerStage
<1> QED
  BY <1>2, <1>3 DEF Ledger!End, LedgerFrame

\* What leaves stages, orders and rows alone leaves the ledger alone.
LEMMA LedgerFrameOf ==
  ASSUME UNCHANGED <<broker, journal>>
  PROVE  LedgerFrame
BY DEF LedgerFrame, LedgerOrders, LedgerRows

\* A step between two stages is no step of the ledger.
LEMMA MoveStep ==
  ASSUME TypeOK, NEW r \in Requests, NEW stage \in Stages, pc[r] \in Stages,
         pc' = [pc EXCEPT ![r] = stage]
  PROVE  LedgerStage' = LedgerStage
BY DEF TypeOK, LedgerStage, Stages

\* The front of the handler refuses or takes up.
LEMMA FrontLedger ==
  ASSUME TypeInv, NEW r \in Requests, Front(r)
  PROVE  Ledger!Refuse(r) \/ Ledger!TakeUp(r)
<1> PICK w \in Workers :
      RefuseBody(r, w) \/ RefuseSecret(r, w) \/ RefuseCooldown(r, w) \/ Admit(r, w)
  BY DEF Front
<1>1. pc[r] = "new" /\ TypeOK /\ LedgerFrame
  BY LedgerFrameOf
     DEF RefuseBody, RefuseSecret, RefuseCooldown, Admit, Arrives, TypeInv, worldVars
<1>2. LedgerStage[r] = "waiting"
  BY <1>1 DEF LedgerStage
<1>3. CASE Admit(r, w)
  <2>1. LedgerStage' = [LedgerStage EXCEPT ![r] = "open"]
    BY <1>1, <1>3, StageStep DEF Admit, MoveTo, Stages
  <2> QED
    BY <1>1, <1>2, <2>1 DEF Ledger!TakeUp, LedgerFrame
<1>4. CASE RefuseBody(r, w) \/ RefuseSecret(r, w) \/ RefuseCooldown(r, w)
  <2>1. pc' = [pc EXCEPT ![r] = "done"]
    BY <1>4 DEF RefuseBody, RefuseSecret, RefuseCooldown, Respond, MoveTo
  <2>2. "done" # "new" /\ "done" \notin Stages
    BY DEF Stages
  <2>3. LedgerStage' = [LedgerStage EXCEPT ![r] = "closed"]
    BY <1>1, <2>1, <2>2, StageStep
  <2> QED
    BY <1>1, <1>2, <2>3 DEF Ledger!Refuse, LedgerFrame
<1> QED
  BY <1>3, <1>4

\* The rest of the handler is a step of the ledger or none.
LEMMA HandlerLedger ==
  ASSUME TypeInv, FateInv, NEW r \in Requests, Handler(r)
  PROVE  Ledger!Next \/ UNCHANGED Ledger!vars
<1> USE DEF TypeInv, worldVars
<1>1. ASSUME LedgerFrame, LedgerStage' = LedgerStage PROVE UNCHANGED Ledger!vars
  BY <1>1 DEF Ledger!vars, LedgerFrame
<1>2. ASSUME Ledger!End({r}) PROVE Ledger!Next
  BY <1>2 DEF Ledger!Next
<1>3. CASE \/ MacroFetched(r)
           \/ \E d \in EngineResults(alert[r].signal, LlmConfigured) : Cleared(r, d)
           \/ \E delivered \in BOOLEAN : Announce(r, delivered)
           \/ NothingToExecute(r) \/ Report(r) \/ RecordFails(r)
  <2>1. LedgerFrame
    BY <1>3, LedgerFrameOf
       DEF MacroFetched, Cleared, Decided, Announce, NothingToExecute, Report, RecordFails
  <2>2. pc[r] \in Stages /\ \E stage \in Stages : pc' = [pc EXCEPT ![r] = stage]
    BY <1>3 DEF MacroFetched, Cleared, Decided, Announce, NothingToExecute, Report,
                RecordFails, MoveTo, Stages
  <2> QED
    BY <1>1, <2>1, <2>2, MoveStep
<1>4. CASE \/ \E stage \in {"macro", "engine"} : StageCrashes(r, stage)
           \/ \E d \in EngineResults(alert[r].signal, LlmConfigured) : Blocked(r, d)
           \/ ExecutorRaises(r) \/ Conclude(r)
  <2>1. LedgerFrame
    BY <1>4, LedgerFrameOf DEF StageCrashes, Blocked, Decided, ExecutorRaises, Conclude
  <2>2. pc[r] \in Stages /\ pc' = [pc EXCEPT ![r] = "done"]
    BY <1>4 DEF StageCrashes, Blocked, Decided, ExecutorRaises, Conclude, Respond, MoveTo,
                Stages
  <2> QED
    BY <1>2, <2>1, <2>2, EndStep
<1>5. ASSUME NEW outcome \in {"placed", "error"}, NEW accepted \in BOOLEAN,
             Executed(r, outcome, accepted)
      PROVE  Ledger!Next \/ UNCHANGED Ledger!vars
  <2>1. pc[r] = "execute" /\ pc' = [pc EXCEPT ![r] = "report"] /\ journal' = journal
    BY <1>5 DEF Executed, MoveTo
  <2>2. LedgerStage' = LedgerStage /\ LedgerStage[r] = "open"
    BY <2>1, MoveStep DEF Stages, LedgerStage
  <2>3. CASE accepted
    <3>1. ~Ordered(r) /\ ~Recorded(r)
      BY <2>1 DEF FateInv, Fate, Authority
    <3>2. broker' = Append(broker, [req |-> r, side |-> Side(r)]) /\ Side(r) \in {"buy", "sell"}
      BY <1>5, <2>3 DEF Executed, Side
    <3>3. LedgerOrders' = Append(LedgerOrders, r) /\ LedgerRows' = LedgerRows
      BY <2>1, <3>2, OrdersAppend DEF LedgerRows
    <3>4. Ledger!PlaceOrder(r)
      BY <2>2, <3>1, <3>3, LedgerOccurs DEF Ledger!PlaceOrder
    <3> QED
      BY <3>4 DEF Ledger!Next
  <2>4. CASE ~accepted
    <3>1. LedgerFrame
      BY <1>5, <2>4, LedgerFrameOf DEF Executed
    <3> QED
      BY <1>1, <2>2, <3>1
  <2> QED
    BY <2>3, <2>4
<1>6. CASE Record(r)
  <2>1. /\ pc[r] = "record" /\ pc' = [pc EXCEPT ![r] = "answer"]
        /\ journal' = Append(journal, RowOf(r)) /\ broker' = broker
    BY <1>6 DEF Record, MoveTo
  <2>2. LedgerStage[r] = "open" /\ LedgerStage' = LedgerStage
    BY <2>1, MoveStep DEF Stages, LedgerStage
  <2>3. RowOf(r) \in Row /\ RowOf(r).req = r
    BY DEF RowOf, Row, LLMDecision, TypeOK
  <2>4. LedgerRows' = Append(LedgerRows, r) /\ LedgerOrders' = LedgerOrders
    BY <2>1, <2>3, RowsAppend DEF LedgerOrders
  <2>5. ~Recorded(r)
    BY <2>1 DEF FateInv, Fate, Authority
  <2>6. Ledger!Record(r)
    BY <2>2, <2>4, <2>5, LedgerOccurs DEF Ledger!Record
  <2> QED
    BY <2>6 DEF Ledger!Next
<1> QED
  BY <1>3, <1>4, <1>5, <1>6 DEF Handler

\* THEOREM: the handlers of all workers implement the at-most-once ledger.
THEOREM LedgerImplemented == Spec => ImplementsLedger
<1>1. Init => Ledger!Init
  <2> SUFFICES ASSUME Init PROVE Ledger!Init
    OBVIOUS
  <2>1. LedgerStage = [r \in Requests |-> "waiting"]
    BY DEF Init, LedgerStage
  <2>2. LedgerOrders = << >> /\ LedgerRows = << >>
    BY DEF Init, LedgerOrders, LedgerRows
  <2> QED
    BY <2>1, <2>2 DEF Ledger!Init
<1>2. TypeInv /\ FateInv /\ [Next]_vars => [Ledger!Next]_(Ledger!vars)
  <2> SUFFICES ASSUME TypeInv, FateInv, [Next]_vars PROVE Ledger!Next \/ UNCHANGED Ledger!vars
    OBVIOUS
  <2>1. ASSUME NEW r \in Requests, Front(r) PROVE Ledger!Next
    BY <2>1, FrontLedger DEF Ledger!Next
  <2>2. CASE UNCHANGED vars \/ Tick \/ \E w \in Workers : Restart(w)
    BY <2>2 DEF vars, worldVars, Tick, Restart, Ledger!vars, LedgerStage, LedgerOrders, LedgerRows
  <2>3. ASSUME NEW w \in Workers, Crash(w) PROVE Ledger!Next
    <3> DEFINE S == {r \in Requests : home[r] = w /\ pc[r] \in Stages}
    <3>1. LedgerFrame
      BY <2>3, LedgerFrameOf DEF Crash, worldVars
    <3>2. \A r \in S : LedgerStage[r] = "open"
      BY DEF LedgerStage, Stages
    <3>3. LedgerStage' = [r \in Requests |-> IF r \in S THEN "closed" ELSE LedgerStage[r]]
      BY <2>3 DEF Crash, LedgerStage, Stages
    <3>4. Ledger!End(S)
      BY <3>1, <3>2, <3>3 DEF Ledger!End, LedgerFrame
    <3> QED
      BY <3>4 DEF Ledger!Next
  <2> QED
    BY <2>1, <2>2, <2>3, HandlerLedger DEF Next, Quiet
<1> QED
  BY <1>1, <1>2, TypeInvariant, FateCorrect, PTL DEF Spec, ImplementsLedger, Ledger!Spec

-----------------------------------------------------------------------------
(* The silence clock.                                                        *)

SilenceInv ==
  /\ \A w \in Workers : lastSignal[w] <= clock
  /\ \A r \in Requests : admittedAt[r] <= clock
  /\ \A r \in Requests :
       pc[r] \in Late \cup {"done"} /\ Admitted(r) /\ era[r] = boots[home[r]]
         => admittedAt[r] <= lastSignal[home[r]]

\* A step that does not take r past its decision leaves r's alert heard, as the
\* worker's clock never goes back.
LEMMA StillHeard ==
  ASSUME TypeInv, TypeInv', SilenceInv, NEW r \in Requests,
         pc[r] \in Late \cup {"done"}, Admitted(r), era[r] = boots[home[r]],
         UNCHANGED <<boots, home, admittedAt>>,
         lastSignal[home[r]] <= lastSignal'[home[r]]
  PROVE  admittedAt'[r] <= lastSignal'[home'[r]]
<1>1. home[r] \in Workers
  BY DEF TypeInv, BootsBounded, Late
<1>2. /\ admittedAt[r] \in Nat /\ lastSignal[home[r]] \in Nat /\ lastSignal'[home[r]] \in Nat
      /\ admittedAt[r] <= lastSignal[home[r]]
  BY <1>1 DEF TypeInv, TypeOK, SilenceInv
<1> QED
  BY <1>2

\* A step of a handler leaves no alert unheard by the silence clock.
LEMMA HandlerHeard ==
  ASSUME TypeInv, TypeInv', SilenceInv, NEW r \in Requests, Handler(r)
  PROVE  SilenceInv'
<1>1. UNCHANGED <<clock, boots, home, admittedAt, era>> /\ pc[r] \in Stages
  BY HandlerLeavesCooldown DEF historyVars
<1>2. home[r] \in Workers
  BY <1>1 DEF TypeInv, BootsBounded, Stages
<1>3. \/ lastSignal' = [lastSignal EXCEPT ![home[r]] = clock]
      \/ lastSignal' = lastSignal /\ (pc'[r] \in Late \cup {"done"} => pc[r] \in Late)
  BY DEF Handler, MacroFetched, StageCrashes, Blocked, Cleared, Decided, Announce,
         NothingToExecute, Executed, ExecutorRaises, Report, Record, RecordFails,
         Conclude, workerVars, Mark, MarkIf, MoveTo, Respond, Late, TypeInv, TypeOK
<1>4. /\ \A w \in Workers : lastSignal[w] \in Nat /\ lastSignal[w] <= clock
      /\ clock \in Nat /\ lastSignal \in [Workers -> Nat]
  BY DEF TypeInv, TypeOK, SilenceInv
<1>5. \A w \in Workers : lastSignal[w] <= lastSignal'[w] /\ lastSignal'[w] <= clock
  BY <1>2, <1>3, <1>4
<1>6. ASSUME NEW s \in Requests, pc'[s] \in Late \cup {"done"}, Admitted(s)',
             era'[s] = boots'[home'[s]]
      PROVE  admittedAt'[s] <= lastSignal'[home'[s]]
  <2>1. Admitted(s) /\ era[s] = boots[home[s]]
    BY <1>1, <1>6 DEF Admitted
  <2>2. CASE pc[s] \in Late \cup {"done"}
    <3>1. home[s] \in Workers
      BY <2>2 DEF TypeInv, BootsBounded, Late
    <3> QED
      BY <1>1, <1>5, <2>1, <2>2, <3>1, StillHeard
  <2>3. CASE pc[s] \notin Late \cup {"done"}
    <3>1. s = r
      BY <1>6, <2>3, HandlerMoves DEF TypeInv, TypeOK
    <3>2. lastSignal' = [lastSignal EXCEPT ![home[r]] = clock]
      BY <1>3, <1>6, <2>3, <3>1
    <3> QED
      BY <1>1, <1>2, <1>4, <3>1, <3>2 DEF SilenceInv
  <2> QED
    BY <2>2, <2>3
<1>7. \A w \in Workers : lastSignal'[w] <= clock'
  BY <1>1, <1>5
<1>8. \A s \in Requests : admittedAt'[s] <= clock'
  BY <1>1 DEF SilenceInv
<1> QED
  BY <1>6, <1>7, <1>8 DEF SilenceInv

\* THEOREM: the silence monitor hears of every alert its worker has answered.
THEOREM SilenceClockIsFed == Spec => []SilenceClockFed
<1>1. Init => SilenceInv
  BY DEF Init, SilenceInv, Admitted, Epoch
<1>2. TypeInv /\ TypeInv' /\ CooldownInv /\ SilenceInv /\ [Next]_vars => SilenceInv'
  <2> SUFFICES ASSUME TypeInv, TypeInv', CooldownInv, SilenceInv, [Next]_vars
               PROVE  SilenceInv'
    OBVIOUS
  <2> USE DEF TypeInv, TypeOK, BootsBounded, SilenceInv, Admitted, workerVars, handlerVars,
              worldVars, historyVars
  <2>1. ASSUME NEW r \in Requests, Front(r) PROVE SilenceInv'
    <3> PICK w \in Workers :
          RefuseBody(r, w) \/ RefuseSecret(r, w) \/ RefuseCooldown(r, w) \/ Admit(r, w)
      BY <2>1 DEF Front
    <3>1. /\ pc[r] = "new" /\ era[r] = 0 /\ home' = [home EXCEPT ![r] = w]
          /\ UNCHANGED <<clock, boots, lastSignal>>
          /\ \/ UNCHANGED <<admittedAt, era>> /\ pc' = [pc EXCEPT ![r] = "done"]
             \/ /\ admittedAt' = [admittedAt EXCEPT ![r] = clock]
                /\ era' = [era EXCEPT ![r] = boots[w]]
                /\ pc' = [pc EXCEPT ![r] = "macro"]
      BY DEF RefuseBody, RefuseSecret, RefuseCooldown, Admit, Arrives, Respond, MoveTo,
             CooldownInv, StampsCover
    <3>2. ASSUME NEW s \in Requests PROVE admittedAt'[s] <= clock'
      BY <3>1
    <3>3. ASSUME NEW s \in Requests, pc'[s] \in Late \cup {"done"}, era'[s] > 0
          PROVE  s # r /\ pc'[s] = pc[s] /\ era'[s] = era[s] /\ home'[s] = home[s]
                 /\ admittedAt'[s] = admittedAt[s]
      BY <3>1, <3>3 DEF Late
    <3>4. ASSUME NEW s \in Requests, pc'[s] \in Late \cup {"done"}, era'[s] > 0,
                 era'[s] = boots'[home'[s]]
          PROVE  admittedAt'[s] <= lastSignal'[home'[s]]
      <4>1. pc[s] \in Late \cup {"done"} /\ era[s] > 0 /\ era[s] = boots[home[s]]
        BY <3>1, <3>3, <3>4
      <4>2. admittedAt[s] <= lastSignal[home[s]]
        BY <4>1
      <4> QED
        BY <3>1, <3>3, <3>4, <4>2
    <3>5. \A u \in Workers : lastSignal'[u] <= clock'
      BY <3>1
    <3> QED
      BY <3>2, <3>4, <3>5
  <2>2. CASE Tick
    BY <2>2 DEF Tick
  <2>3. ASSUME NEW w \in Workers, Crash(w) PROVE SilenceInv'
    BY <2>3 DEF Crash, Stages, Late
  <2>4. ASSUME NEW w \in Workers, Restart(w) PROVE SilenceInv'
    BY <2>4 DEF Restart, CooldownInv, StampsCover, Late
  <2>5. CASE UNCHANGED vars
    BY <2>5 DEF vars
  <2>6. ASSUME NEW r \in Requests, Handler(r) PROVE SilenceInv'
    BY <2>6, HandlerHeard
  <2> QED
    BY <2>1, <2>2, <2>3, <2>4, <2>5, <2>6 DEF Next, Quiet
<1>3. TypeInv /\ SilenceInv => SilenceClockFed
  <2> SUFFICES ASSUME TypeInv, SilenceInv, NEW r \in Requests, pc[r] = "done", Admitted(r),
                      era[r] = boots[home[r]]
               PROVE  lastSignal[home[r]] >= admittedAt[r]
    BY DEF SilenceClockFed
  <2>1. home[r] \in Workers /\ admittedAt[r] <= lastSignal[home[r]]
    BY DEF TypeInv, BootsBounded, SilenceInv
  <2> QED
    BY <2>1 DEF TypeInv, TypeOK
<1> QED
  BY <1>1, <1>2, <1>3, TypeInvariant, CooldownInvariant, PTL DEF Spec

-----------------------------------------------------------------------------
(* The guards as the pipeline calls them.                                    *)

\* THEOREM: with a limit of at least one trade and a negative loss limit, the
\* volatility guard alone decides whether an alert is blocked, and none is ever
\* reduced: the day's trades and loss are handed over as constants, spread and
\* news window not at all (guard_context in the handler).
THEOREM OnlyVolatilityCounts ==
  ASSUME NEW r, MaxDailyTrades > 0, MaxDrawdown < 0
  PROVE  /\ GuardsBlock(r) <=> MaxATRGuard(GuardContext(r)) = Block
         /\ DefaultVerdict(GuardContext(r)) # "REDUCE"
<1> DEFINE ctx == GuardContext(r)
<1>1. MaxDailyTradesGuard(ctx) = Pass
  BY GuardSettingsAssumption DEF GuardContext, MaxDailyTradesGuard, BlockIf
<1>2. DrawdownGuard(ctx) = Pass
  BY GuardSettingsAssumption DEF GuardContext, DrawdownGuard, CautionThreshold
<1>3. SpreadGuard(ctx) = Pass /\ NewsBlackoutGuard(ctx) = Pass
  BY DEF GuardContext, SpreadGuard, NewsBlackoutGuard, BlockIf
<1>4. MaxATRGuard(ctx) \in {Pass, Block}
  BY DEF MaxATRGuard, BlockIf
<1>5. GuardNames = {"max_daily_trades", "drawdown", "spread", "max_atr", "news_blackout"}
  BY DEF GuardNames, DefaultChain
<1> HIDE DEF ctx
<1>6. {Evaluate(name, ctx) : name \in GuardNames} = {Pass, MaxATRGuard(ctx)}
  BY <1>1, <1>2, <1>3, <1>5 DEF Evaluate
<1>7. Pass.verdict = "PASS" /\ Block.verdict = "BLOCK"
  BY DEF Pass, Block
<1>8. DefaultVerdict(ctx) = ChainVerdict({Pass, MaxATRGuard(ctx)})
  BY <1>6 DEF DefaultVerdict
<1>9. DefaultVerdict(ctx) = IF MaxATRGuard(ctx) = Block THEN "BLOCK" ELSE "PASS"
  BY <1>4, <1>7, <1>8 DEF ChainVerdict
<1> QED
  BY <1>9 DEF GuardsBlock, ctx

=============================================================================
