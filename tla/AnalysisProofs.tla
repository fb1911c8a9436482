--------------------------- MODULE AnalysisProofs ---------------------------
(***************************************************************************)
(* What the webhook awaits before it decides, for every threshold, retry    *)
(* limit, reply, set of keys and failure: the operators of the decision     *)
(* layer, one call of evaluate_signal, one of fetch_macro_context or        *)
(* get_gold_price, and the two one after the other.                         *)
(***************************************************************************)
EXTENDS Analysis, TLAPS

USE MinConfidenceAssumption, RawConfidencesAssumption, MaxRetriesAssumption

-----------------------------------------------------------------------------
(* The decision layer's operators.                                           *)

\* A raw confidence of any kind ends up in 0..100.
LEMMA ConfidenceInRange ==
  ASSUME NEW raw \in RawConfidence
  PROVE  Confidence(raw) \in 0..100
BY DEF Confidence, RawConfidence

\* Whatever object the model answers becomes a valid decision.
LEMMA ParseType ==
  ASSUME NEW reply \in Replies
  PROVE  ParseAndValidate(reply) \in LLMDecision
<1>1. Confidence(reply.confidence) \in 0..100
  BY ConfidenceInRange DEF Replies
<1>2. (IF reply.action \in ValidActions THEN reply.action ELSE "skip") \in ValidActions
  BY DEF ValidActions
<1> QED
  BY <1>1, <1>2 DEF ParseAndValidate, LLMDecision

\* So does the fallback, for each signal name.
LEMMA FallbackType ==
  ASSUME NEW s \in Signals
  PROVE  SmartFallback(s) \in LLMDecision
BY DEF SmartFallback, LLMDecision, ValidActions

\* The policy keeps decisions decisions and leaves none below the threshold.
LEMMA PolicySound ==
  ASSUME NEW d \in LLMDecision
  PROVE  ApplyPolicy(d) \in LLMDecision /\ WithinPolicy(ApplyPolicy(d))
BY DEF ApplyPolicy, LLMDecision, ValidActions, WithinPolicy

\* The policy only ever turns a decision into a skip.
LEMMA PolicyOnlySkips ==
  ASSUME NEW d \in LLMDecision
  PROVE  ApplyPolicy(d).action \in {d.action, "skip"}
BY DEF ApplyPolicy, LLMDecision

\* A reply that is parsed and passes the policy is an engine result.
LEMMA ReplyIsResult ==
  ASSUME NEW s, NEW reply \in Replies
  PROVE  ApplyPolicy(ParseAndValidate(reply)) \in EngineResults(s, TRUE)
BY DEF EngineResults

\* So is the fallback once the policy has been applied.
LEMMA FallbackIsResult ==
  ASSUME NEW s
  PROVE  ApplyPolicy(SmartFallback(s)) \in EngineResults(s, TRUE)
BY DEF EngineResults

-----------------------------------------------------------------------------
(* evaluate_signal.                                                          *)

\* The pauses so far: the n-th failure has paused n times the base.
PausesAddUp ==
  /\ phase = "calling" => 2 * slept = BackoffBase * attempt * (attempt - 1)
  /\ phase = "sleeping" =>
       attempt < MaxRetries /\ 2 * slept = BackoffBase * attempt * (attempt + 1)
  /\ phase = "calling" => attempt >= 1
  /\ phase = "start" => attempt = 0 /\ slept = 0

\* A returned decision and where it came from.
ReturnedSoundly ==
  /\ phase = "done" /\ configured =>
       WithinPolicy(decision) /\ decision \in EngineResults(signal, configured)
  /\ phase = "done" /\ ~configured => decision = SmartFallback(signal)
  /\ phase # "start" /\ phase # "done" => configured
  /\ phase # "done" => source = "none"

IInv == TypeOK /\ PausesAddUp /\ ReturnedSoundly /\ FallbackOnlyWhenExhausted

\* The strengthening is inductive.
LEMMA Inductive == Spec => []IInv
<1>1. Init => IInv
  BY DEF Init, IInv, TypeOK, PausesAddUp, ReturnedSoundly, FallbackOnlyWhenExhausted,
         NoDecision, LLMDecision, ValidActions, Phases, Sources
<1>2. IInv /\ [Next]_vars => IInv'
  <2> SUFFICES ASSUME IInv, [Next]_vars PROVE IInv'
    OBVIOUS
  <2> USE DEF IInv, TypeOK, PausesAddUp, ReturnedSoundly, FallbackOnlyWhenExhausted,
              Phases, Sources, BackoffBase
  <2>1. CASE Unconfigured
    BY <2>1, FallbackType DEF Unconfigured, Return
  <2>2. CASE Start
    BY <2>2 DEF Start
  <2>3. ASSUME NEW reply \in Replies, ReplyArrives(reply) PROVE IInv'
    <3> DEFINE d == ApplyPolicy(ParseAndValidate(reply))
    <3>1. d \in LLMDecision /\ WithinPolicy(d)
      BY ParseType, PolicySound
    <3>2. d \in EngineResults(signal, TRUE)
      BY ReplyIsResult
    <3>3. /\ phase = "calling" /\ phase' = "done" /\ decision' = d /\ source' = "reply"
          /\ UNCHANGED <<configured, signal, attempt, slept>>
      BY <2>3 DEF ReplyArrives, Return
    <3> HIDE DEF d
    <3>4. WithinPolicy(decision') /\ decision' \in EngineResults(signal', configured')
      BY <3>1, <3>2, <3>3
    <3> QED
      BY <3>1, <3>3, <3>4 DEF WithinPolicy
  <2>4. CASE ReplyNotAnObject
    BY <2>4 DEF ReplyNotAnObject
  <2>5. CASE AttemptFails
    <3>1. CASE attempt < MaxRetries
      BY <2>5, <3>1 DEF AttemptFails
    <3>2. CASE ~(attempt < MaxRetries)
      <4> DEFINE d == ApplyPolicy(SmartFallback(signal))
      <4>1. d \in LLMDecision /\ WithinPolicy(d)
        BY FallbackType, PolicySound
      <4>2. d \in EngineResults(signal, TRUE)
        BY FallbackIsResult
      <4>3. /\ phase = "calling" /\ attempt = MaxRetries
            /\ phase' = "done" /\ decision' = d /\ source' = "fallback"
            /\ UNCHANGED <<configured, signal, attempt, slept>>
        BY <2>5, <3>2 DEF AttemptFails, Return
      <4> HIDE DEF d
      <4>4. WithinPolicy(decision') /\ decision' \in EngineResults(signal', configured')
        BY <4>1, <4>2, <4>3
      <4> QED
        BY <4>1, <4>3, <4>4 DEF WithinPolicy
    <3> QED
      BY <3>1, <3>2
  <2>6. CASE WakeUp
    BY <2>6 DEF WakeUp
  <2>7. CASE UNCHANGED vars
    BY <2>7 DEF vars, WithinPolicy
  <2> QED
    BY <2>1, <2>2, <2>3, <2>4, <2>5, <2>6, <2>7 DEF Next, Step, Idle
<1> QED
  BY <1>1, <1>2, PTL DEF Spec

\* THEOREM: the variables of evaluate_signal keep their types.
THEOREM TypeCorrect == Spec => []TypeOK
BY Inductive, PTL DEF IInv

\* THEOREM: with the LLM configured nothing below MIN_CONFIDENCE is traded.
THEOREM PolicyAlwaysApplied == Spec => []PolicyRespected
<1>1. IInv => PolicyRespected
  BY DEF IInv, ReturnedSoundly, PolicyRespected
<1> QED
  BY <1>1, Inductive, PTL

\* THEOREM: the fallback needs MaxRetries failed calls and the full backoff.
THEOREM FallbackIsLastResort == Spec => []FallbackOnlyWhenExhausted
BY Inductive, PTL DEF IInv

\* THEOREM: the request pipeline may take EngineResults for the engine.
THEOREM EngineAbstraction == Spec => []ReturnsAnEngineResult
<1>1. IInv => ReturnsAnEngineResult
  BY DEF IInv, ReturnedSoundly, ReturnsAnEngineResult, EngineResults, TypeOK
<1> QED
  BY <1>1, Inductive, PTL

-----------------------------------------------------------------------------
(* fetch_macro_context and get_gold_price.                                   *)

Instruments == {"dxy", "us10y", "news", "gold"}

ContextTypes ==
  /\ access \in SUBSET (Keyless \cup Keys) /\ Keyless \subseteq access
  /\ enabled \in BOOLEAN /\ wanted \in {Macro, {"gold"}}
  /\ asked \in [Instruments -> Seq(Answers \cup {NoKey})]
  /\ gather \in {"start", "waiting", "raised", "done"}

\* A ladder is climbed rung by rung: a provider is passed over exactly if its
\* key is missing, and nobody is asked after one that gave something.
Climbed ==
  \A t \in Instruments :
    /\ Len(asked[t]) <= Len(Ladder[t])
    /\ \A k \in 1..Len(asked[t]) : asked[t][k] = NoKey <=> Ladder[t][k] \notin access
    /\ \A k \in 1..(Len(asked[t]) - 1) : ~Usable(asked[t][k])

\* Nobody is asked before gather, which waits for tasks none of which has raised; the gold price is given up
\* only when the ladder has come to its end.
GatherSound ==
  /\ gather = "start" => \A t \in Instruments : asked[t] = << >>
  /\ gather = "waiting" => \A t \in wanted : ~Failed(t)
  /\ gather = "raised" /\ wanted = {"gold"} => Settled("gold") /\ ~Found("gold")

CInv == ContextTypes /\ Climbed /\ GatherSound /\ ContextHonest /\ OnlyMalformedRaises

\* The ladders: no provider is called "none", and every one but that of the
\* headlines has a provider that needs no key.
LEMMA LadderFacts ==
  /\ DOMAIN Ladder = Instruments
  /\ \A t \in Instruments :
       /\ Len(Ladder[t]) \in Nat \ {0} /\ DOMAIN Ladder[t] = 1..Len(Ladder[t])
       /\ \A k \in 1..Len(Ladder[t]) : Ladder[t][k] # "none"
  /\ \A t \in Instruments \ {"news"} : Ladder[t][1] \in Keyless
  /\ Len(Ladder["news"]) = 1 /\ Ladder["news"][1] = "newsapi"
BY DEF Ladder, Instruments, Keyless

\* What is asked for is a set of instruments.
LEMMA WantedFacts == ContextTypes => wanted \subseteq Instruments
BY DEF ContextTypes, Macro, Instruments

\* A reply is added at the end and changes nothing before it.
LEMMA ReplyAdded ==
  ASSUME ContextTypes, NEW t \in Instruments, NEW reply \in Answers \cup {NoKey},
         asked' = [asked EXCEPT ![t] = Append(@, reply)]
  PROVE  /\ asked' \in [Instruments -> Seq(Answers \cup {NoKey})]
         /\ Len(asked[t]) \in Nat /\ Len(asked'[t]) = Len(asked[t]) + 1
         /\ asked'[t][Len(asked[t]) + 1] = reply
         /\ \A k \in 1..Len(asked[t]) : asked'[t][k] = asked[t][k]
         /\ \A u \in Instruments \ {t} : asked'[u] = asked[u]
<1> DEFINE S == Answers \cup {NoKey}
<1>1. asked[t] \in Seq(S) /\ asked'[t] = Append(asked[t], reply)
  BY DEF ContextTypes
<1>2. asked' \in [Instruments -> Seq(S)]
  <2> HIDE DEF S
  <2> QED
    BY <1>1 DEF ContextTypes, S
<1> QED
  BY <1>1, <1>2 DEF ContextTypes

\* The replies of an instrument are where its sequence says.
LEMMA RepliesOf ==
  ASSUME ContextTypes, NEW t \in Instruments
  PROVE  Len(asked[t]) \in Nat /\ DOMAIN asked[t] = 1..Len(asked[t])
BY DEF ContextTypes

\* The call starts with nothing asked.
LEMMA ContextInitOK == ContextInit => CInv
<1> SUFFICES ASSUME ContextInit PROVE CInv
  OBVIOUS
<1>1. ContextTypes
  BY LadderFacts DEF ContextInit, ContextTypes, Macro
<1>2. Climbed
  BY LadderFacts DEF ContextInit, Climbed, Macro
<1>3. GatherSound
  BY LadderFacts DEF ContextInit, GatherSound
<1> QED
  BY <1>1, <1>2, <1>3 DEF ContextInit, CInv, ContextHonest, OnlyMalformedRaises

\* One more rung of a ladder, asked or passed over.
LEMMA ClimbStep ==
  ASSUME CInv, NEW t \in Instruments, NEW reply \in Answers \cup {NoKey}, Asking(t),
         reply = NoKey <=> Provider(t) \notin access,
         asked' = [asked EXCEPT ![t] = Append(@, reply)],
         UNCHANGED <<access, enabled, wanted, context>>,
         \/ gather' = gather /\ (reply = "malformed" => Catches(t, Provider(t)))
         \/ gather' = "raised" /\ reply = "malformed" /\ ~Catches(t, Provider(t))
  PROVE  CInv'
<1> USE DEF CInv
<1> DEFINE n == Len(asked[t])
<1>1. /\ asked' \in [Instruments -> Seq(Answers \cup {NoKey})]
      /\ n \in Nat /\ Len(asked'[t]) = n + 1 /\ asked'[t][n + 1] = reply
      /\ \A k \in 1..n : asked'[t][k] = asked[t][k]
      /\ \A u \in Instruments \ {t} : asked'[u] = asked[u]
  BY ReplyAdded
<1>2. DOMAIN asked[t] = 1..n /\ DOMAIN asked'[t] = 1..(n + 1)
  BY <1>1 DEF ContextTypes
<1>3. n < Len(Ladder[t]) /\ \A k \in 1..n : ~Usable(asked[t][k])
  BY <1>1, <1>2, LadderFacts DEF Asking, Settled, Found, Climbed
<1>4. ContextTypes'
  BY <1>1 DEF ContextTypes, Asking
<1>5. Climbed'
  <2>1. \A k \in 1..(n + 1) : asked'[t][k] = NoKey <=> Ladder[t][k] \notin access
    <3>1. asked'[t][n + 1] = NoKey <=> Ladder[t][n + 1] \notin access
      BY <1>1 DEF Provider
    <3>2. \A k \in 1..n : asked'[t][k] = NoKey <=> Ladder[t][k] \notin access
      BY <1>1 DEF Climbed
    <3> QED
      BY <1>1, <3>1, <3>2
  <2>2. \A k \in 1..n : ~Usable(asked'[t][k])
    BY <1>1, <1>3
  <2>3. n + 1 <= Len(Ladder[t])
    BY <1>1, <1>3, LadderFacts
  <2>4. \A u \in Instruments \ {t} : asked'[u] = asked[u]
    BY <1>1
  <2> HIDE DEF n
  <2> QED
    BY <1>1, <2>1, <2>2, <2>3, <2>4 DEF Climbed
<1>6. GatherSound'
  <2>1. gather' # "start"
    BY DEF Asking
  <2>2. ASSUME gather' = "waiting", NEW u \in wanted' PROVE ~Failed(u)'
    <3>1. gather = "waiting" /\ u \in wanted /\ u \in Instruments
      BY <2>2, WantedFacts
    <3>2. CASE u # t
      BY <1>1, <3>1, <3>2 DEF GatherSound, Failed
    <3>3. CASE u = t
      <4>1. reply = "malformed" => Catches(t, Ladder[t][n + 1])
        BY <2>2 DEF Provider
      <4>2. \A k \in 1..n : asked'[t][k] = "malformed" => Catches(t, Ladder[t][k])
        BY <1>1, <1>2, <3>1, <3>3 DEF GatherSound, Failed
      <4> QED
        BY <1>1, <1>2, <3>3, <4>1, <4>2 DEF Failed
    <3> QED
      BY <3>2, <3>3
  <2>3. ~(gather' = "raised" /\ wanted' = {"gold"})
    BY DEF Asking, Catches, GatherSound
  <2> QED
    BY <2>1, <2>2, <2>3 DEF GatherSound
<1>7. ContextHonest'
  BY DEF ContextHonest, Asking
<1>8. OnlyMalformedRaises'
  <2> SUFFICES ASSUME gather' = "raised" PROVE OnlyMalformedRaises'
    BY DEF OnlyMalformedRaises
  <2>1. ~(wanted' = {"gold"})
    BY DEF Asking, Catches, GatherSound
  <2>2. wanted' = Macro /\ wanted = Macro
    BY <1>4, <2>1 DEF ContextTypes
  <2>3. CASE gather = "raised"
    <3>1. PICK u \in Macro :
            Spoilt(u) \/ \E k \in DOMAIN asked[u] : asked[u][k] = "zero"
      BY <2>1, <2>3 DEF OnlyMalformedRaises
    <3>2. PICK k \in DOMAIN asked[u] : asked[u][k] \in {"malformed", "zero"}
      BY <3>1 DEF Spoilt
    <3>3. k \in DOMAIN asked'[u] /\ asked'[u][k] = asked[u][k]
      BY <1>1, <1>2, <2>2, <3>2, WantedFacts
    <3> QED
      BY <2>2, <3>2, <3>3 DEF OnlyMalformedRaises, Spoilt
  <2>4. CASE gather # "raised"
    <3>1. t \in Macro /\ asked'[t][n + 1] = "malformed" /\ n + 1 \in DOMAIN asked'[t]
      BY <1>1, <1>2, <2>2, <2>4 DEF Asking
    <3> QED
      BY <2>2, <3>1 DEF OnlyMalformedRaises, Spoilt
  <2> QED
    BY <2>3, <2>4
<1> QED
  BY <1>4, <1>5, <1>6, <1>7, <1>8

\* The instruments that are wanted have all settled without an exception: each
\* has a figure from its last rung, or its whole ladder has none.
LEMMA SettledFacts ==
  ASSUME CInv, gather = "waiting", NEW t \in wanted, Settled(t)
  PROVE  /\ t \in Instruments /\ Len(asked[t]) \in Nat
         /\ Found(t) => /\ Len(asked[t]) \in 1..Len(Ladder[t]) /\ Usable(asked[t][Len(asked[t])])
                        /\ \A k \in 1..(Len(asked[t]) - 1) : ~Usable(asked[t][k])
                        /\ Source(t) = Ladder[t][Len(asked[t])] /\ Source(t) # "none"
         /\ ~Found(t) => /\ Len(asked[t]) = Len(Ladder[t])
                         /\ \A k \in 1..Len(asked[t]) : ~Usable(asked[t][k])
                         /\ Source(t) = "none"
<1>1. t \in Instruments /\ Len(asked[t]) \in Nat /\ DOMAIN asked[t] = 1..Len(asked[t])
  BY RepliesOf, WantedFacts DEF CInv
<1>2. ~Failed(t)
  BY DEF CInv, GatherSound
<1>3. ASSUME Found(t)
      PROVE  /\ Len(asked[t]) \in 1..Len(Ladder[t]) /\ Usable(asked[t][Len(asked[t])])
             /\ \A k \in 1..(Len(asked[t]) - 1) : ~Usable(asked[t][k])
  <2>1. PICK k \in 1..Len(asked[t]) : Usable(asked[t][k])
    BY <1>1, <1>3 DEF Found
  <2>2. \A j \in 1..(Len(asked[t]) - 1) : ~Usable(asked[t][j])
    BY <1>1 DEF CInv, Climbed
  <2>3. k = Len(asked[t])
    BY <1>1, <2>1, <2>2
  <2>4. Len(asked[t]) <= Len(Ladder[t]) /\ Len(Ladder[t]) \in Nat
    BY <1>1, LadderFacts DEF CInv, Climbed
  <2> QED
    BY <1>1, <2>1, <2>2, <2>3, <2>4
<1>4. Found(t) => Source(t) = Ladder[t][Len(asked[t])] /\ Source(t) # "none"
  BY <1>1, <1>3, LadderFacts DEF Source
<1>5. ~Found(t) => /\ Len(asked[t]) = Len(Ladder[t])
                   /\ \A k \in 1..Len(asked[t]) : ~Usable(asked[t][k])
                   /\ Source(t) = "none"
  BY <1>1, <1>2 DEF Settled, Found, Source
<1> QED
  BY <1>1, <1>3, <1>4, <1>5

\* What is put together says where it is from and what is missing.
LEMMA CollectStep ==
  ASSUME CInv, Collect
  PROVE  CInv'
<1>1. /\ gather = "waiting" /\ gather' = "done" /\ wanted = Macro
      /\ \A t \in wanted : Settled(t)
      /\ context' = [source |-> [t \in DOMAIN Ladder |-> Source(t)], partial |-> Missing # {}]
      /\ UNCHANGED <<access, enabled, wanted, asked>>
  BY DEF Collect
<1>2. ContextTypes' /\ Climbed' /\ GatherSound' /\ OnlyMalformedRaises'
  BY <1>1 DEF CInv, ContextTypes, Climbed, GatherSound, OnlyMalformedRaises
<1>3. \A t \in Instruments : context'.source[t] = Source(t)
  BY <1>1, LadderFacts
<1>4. \A t \in wanted :
        /\ t \in Instruments
        /\ \A k \in 1..Len(asked[t]) : asked[t][k] = NoKey <=> Ladder[t][k] \notin access
        /\ context'.source[t] = Source(t)
  BY <1>3, WantedFacts DEF CInv, Climbed
<1>5. context'.partial <=> \E t \in wanted : /\ context'.source[t] = "none"
                                            /\ \E k \in DOMAIN Ladder[t] : Ladder[t][k] \in access
  <2>1. \A t \in wanted : Source(t) = "none" <=> ~Found(t)
    BY <1>1, SettledFacts
  <2>2. \A t \in {"dxy", "us10y"} : \E k \in DOMAIN Ladder[t] : Ladder[t][k] \in access
    BY LadderFacts DEF CInv, ContextTypes, Instruments
  <2>3. (\E k \in DOMAIN Ladder["news"] : Ladder["news"][k] \in access) <=> "newsapi" \in access
    BY LadderFacts DEF Instruments
  <2>4. wanted = {"dxy", "us10y", "news"}
    BY <1>1 DEF Macro
  <2>5. context'.partial <=> Missing # {}
    BY <1>1
  <2> QED
    BY <1>4, <2>1, <2>2, <2>3, <2>4, <2>5 DEF Missing
<1>6. ContextHonest'
  <2>1. ASSUME NEW t \in wanted
        PROVE  LET n == Len(asked[t]) IN
                 /\ \A k \in 1..n : asked[t][k] = NoKey <=> Ladder[t][k] \notin access
                 /\ IF context'.source[t] = "none"
                    THEN n = Len(Ladder[t]) /\ \A k \in 1..n : ~Usable(asked[t][k])
                    ELSE /\ n \in DOMAIN Ladder[t] /\ context'.source[t] = Ladder[t][n]
                         /\ Usable(asked[t][n]) /\ \A k \in 1..(n - 1) : ~Usable(asked[t][k])
    <3>1. CASE Found(t)
      <4>1. /\ Len(asked[t]) \in 1..Len(Ladder[t]) /\ Usable(asked[t][Len(asked[t])])
            /\ \A k \in 1..(Len(asked[t]) - 1) : ~Usable(asked[t][k])
            /\ Source(t) = Ladder[t][Len(asked[t])] /\ Source(t) # "none"
        BY <1>1, <3>1, SettledFacts
      <4> QED
        BY <1>4, <4>1, LadderFacts
    <3>2. CASE ~Found(t)
      <4>1. /\ Len(asked[t]) = Len(Ladder[t]) /\ Source(t) = "none"
            /\ \A k \in 1..Len(asked[t]) : ~Usable(asked[t][k])
        BY <1>1, <3>2, SettledFacts
      <4> QED
        BY <1>4, <4>1
    <3> QED
      BY <3>1, <3>2
  <2> QED
    BY <1>1, <1>5, <2>1 DEF ContextHonest
<1> QED
  BY <1>2, <1>6 DEF CInv

\* So is the gold price, or there is none.
LEMMA QuoteStep ==
  ASSUME CInv, Quote
  PROVE  CInv'
<1>1. /\ gather = "waiting" /\ wanted = {"gold"} /\ Settled("gold")
      /\ gather' = IF Found("gold") THEN "done" ELSE "raised"
      /\ context' = [Empty EXCEPT !.source["gold"] = Source("gold")]
      /\ UNCHANGED <<access, enabled, wanted, asked>>
  BY DEF Quote
<1>2. ContextTypes' /\ Climbed'
  BY <1>1 DEF CInv, ContextTypes, Climbed
<1>3. GatherSound' /\ OnlyMalformedRaises'
  BY <1>1 DEF GatherSound, OnlyMalformedRaises, Settled, Found, Failed
<1>4. context'.source["gold"] = Source("gold") /\ context'.partial = FALSE
  BY <1>1, LadderFacts DEF Empty, Instruments
<1>5. "gold" \in Instruments
      /\ \A k \in 1..Len(asked["gold"]) : asked["gold"][k] = NoKey <=> Ladder["gold"][k] \notin access
  BY DEF CInv, Climbed, Instruments
<1>6. ContextHonest'
  <2>1. CASE Found("gold")
    <3>1. /\ Len(asked["gold"]) \in DOMAIN Ladder["gold"] /\ Usable(asked["gold"][Len(asked["gold"])])
          /\ \A k \in 1..(Len(asked["gold"]) - 1) : ~Usable(asked["gold"][k])
          /\ Source("gold") = Ladder["gold"][Len(asked["gold"])] /\ Source("gold") # "none"
      BY <1>1, <2>1, SettledFacts, LadderFacts
    <3> QED
      BY <1>1, <1>4, <1>5, <3>1 DEF ContextHonest
  <2>2. CASE ~Found("gold")
    BY <1>1, <2>2 DEF ContextHonest
  <2> QED
    BY <2>1, <2>2
<1> QED
  BY <1>2, <1>3, <1>6 DEF CInv

\* Every step of the call keeps the invariant.
LEMMA FetchStep == CInv /\ [Fetch]_contextVars => CInv'
<1> SUFFICES ASSUME CInv, [Fetch]_contextVars PROVE CInv'
  OBVIOUS
<1>1. CASE Disabled
  BY <1>1 DEF Disabled, CInv, ContextTypes, Climbed, GatherSound, ContextHonest, OnlyMalformedRaises
<1>2. CASE Begin
  <2>1. GatherSound'
    BY <1>2, WantedFacts DEF Begin, CInv, GatherSound, Failed
  <2> QED
    BY <1>2, <2>1 DEF Begin, CInv, ContextTypes, Climbed, ContextHonest, OnlyMalformedRaises
<1>3. ASSUME NEW t \in DOMAIN Ladder, PassOver(t) PROVE CInv'
  <2>1. t \in Instruments /\ NoKey # "malformed"
    BY LadderFacts DEF NoKey
  <2> QED
    BY <1>3, <2>1, ClimbStep DEF PassOver
<1>4. ASSUME NEW t \in DOMAIN Ladder, NEW reply \in Answers, Answer(t, reply) PROVE CInv'
  <2>1. t \in Instruments /\ reply # NoKey
    BY LadderFacts DEF NoKey, Answers
  <2>2. /\ Asking(t) /\ Provider(t) \in access
        /\ asked' = [asked EXCEPT ![t] = Append(@, reply)]
        /\ UNCHANGED <<access, enabled, wanted, context>>
        /\ gather' = IF reply = "malformed" /\ ~Catches(t, Provider(t)) THEN "raised" ELSE gather
    BY <1>4 DEF Answer
  <2> QED
    BY <2>1, <2>2, ClimbStep
<1>5. CASE Collect
  BY <1>5, CollectStep
<1>6. CASE DividesByZero
  <2>1. /\ wanted = Macro /\ gather' = "raised" /\ "dxy" \in Macro /\ Macro # {"gold"}
        /\ \E k \in DOMAIN asked["dxy"] : asked["dxy"][k] = "zero"
        /\ UNCHANGED <<access, enabled, wanted, asked, context>>
    BY <1>6 DEF DividesByZero, Macro
  <2> QED
    BY <2>1 DEF CInv, ContextTypes, Climbed, GatherSound, ContextHonest, OnlyMalformedRaises
<1>7. CASE Quote
  BY <1>7, QuoteStep
<1>8. CASE UNCHANGED contextVars
  BY <1>8 DEF contextVars, CInv, ContextTypes, Climbed, GatherSound, ContextHonest,
              OnlyMalformedRaises, Settled, Found, Failed, Spoilt
<1> QED
  BY <1>1, <1>2, <1>3, <1>4, <1>5, <1>6, <1>7, <1>8 DEF Fetch

-----------------------------------------------------------------------------
(* The two one after the other.                                              *)

\* THEOREM: the webhook's awaits leave evaluate_signal a call of its own: what
\* holds of every one holds of that under way in a request.
THEOREM EngineInside == AnalysisSpec => Spec
<1>1. AnalysisInit => Init
  BY DEF AnalysisInit
<1>2. [AnalysisNext]_analysisVars => [Next]_vars
  BY DEF AnalysisNext, Stage, FetchContext, EvaluateSignal, analysisVars, Next
<1> QED
  BY <1>1, <1>2, PTL DEF AnalysisSpec, Spec

\* THEOREM: so it is with fetch_macro_context.
THEOREM ContextInside == AnalysisSpec => ContextInit /\ [][Fetch]_contextVars
<1>1. AnalysisInit => ContextInit
  BY DEF AnalysisInit
<1>2. [AnalysisNext]_analysisVars => [Fetch]_contextVars
  BY DEF AnalysisNext, Stage, FetchContext, EvaluateSignal, analysisVars
<1> QED
  BY <1>1, <1>2, PTL DEF AnalysisSpec

\* The invariant of the context holds in every request.
LEMMA ContextInvariant == AnalysisSpec => []CInv
BY ContextInitOK, FetchStep, ContextInside, PTL

\* THEOREM: a context names the first provider of each ladder that gave a
\* figure, and is partial exactly if something that could be asked is missing.
THEOREM ContextIsHonest == AnalysisSpec => []ContextHonest
BY ContextInvariant, PTL DEF CInv

\* THEOREM: providers that are down or refuse never make fetch_macro_context
\* raise.
THEOREM FailuresDegrade == AnalysisSpec => []OnlyMalformedRaises
BY ContextInvariant, PTL DEF CInv

\* The decision is made on a finished context.
DecidedOnContext == phase # "start" => gather = "done" /\ wanted = Macro

\* THEOREM: no model is asked before the context stands, and it does not change
\* any more while the model is asked, retried and fallen back from.
THEOREM ContextBeforeDecision ==
  AnalysisSpec => []DecidedOnContext /\ [][phase # "start" => UNCHANGED contextVars]_analysisVars
<1>1. AnalysisInit => DecidedOnContext
  BY DEF AnalysisInit, Init, DecidedOnContext
<1>2. gather = "done" /\ Fetch => FALSE
  BY DEF Fetch, Disabled, Begin, Answer, PassOver, Asking, Collect, DividesByZero, Quote
<1>3. DecidedOnContext /\ [AnalysisNext]_analysisVars =>
        DecidedOnContext' /\ (phase # "start" => UNCHANGED contextVars)
  BY <1>2 DEF DecidedOnContext, AnalysisNext, Stage, FetchContext, EvaluateSignal,
              analysisVars, vars, contextVars
<1> QED
  BY <1>1, <1>3, PTL DEF AnalysisSpec

\* THEOREM: a request whose model is configured ends with a decision of the
\* engine, within the policy, made on an honest context.
THEOREM RequestDecidesSoundly ==
  AnalysisSpec => [](phase = "done" => /\ ContextHonest /\ gather = "done"
                                       /\ decision \in EngineResults(signal, configured)
                                       /\ configured => WithinPolicy(decision))
<1>1. /\ PolicyRespected /\ ReturnsAnEngineResult /\ DecidedOnContext /\ ContextHonest
      => (phase = "done" => /\ ContextHonest /\ gather = "done"
                            /\ decision \in EngineResults(signal, configured)
                            /\ configured => WithinPolicy(decision))
  BY DEF PolicyRespected, ReturnsAnEngineResult, DecidedOnContext
<1> QED
  BY <1>1, EngineInside, PolicyAlwaysApplied, EngineAbstraction, ContextBeforeDecision,
     ContextIsHonest, PTL

=============================================================================
