--------------------------- MODULE DecisionEngine ---------------------------
(***************************************************************************)
(* One call of evaluate_signal (app/engine/decision_engine.py): at most     *)
(* MaxRetries chat calls, a growing pause after each failed one, the smart  *)
(* fallback when all have failed.  Durations are tenths of a second.        *)
(***************************************************************************)
EXTENDS Decision

CONSTANT MaxRetries         \* _MAX_RETRIES

ASSUME MaxRetriesAssumption == MaxRetries \in Nat \ {0}

BackoffBase == 15           \* _RETRY_BACKOFF_BASE = 1.5 seconds

VARIABLES configured, \* settings.llm_is_configured
          signal,    \* alert.signal
          phase,     \* where the coroutine is
          attempt,   \* the loop variable, 0 before the loop
          slept,     \* total time spent in asyncio.sleep
          source,    \* history: where the decision came from
          decision   \* what is returned

vars == <<configured, signal, phase, attempt, slept, source, decision>>

Phases  == {"start", "calling", "sleeping", "done", "raised"}
Sources == {"none", "reply", "fallback", "unconfigured"}
NoDecision == [action |-> "skip", confidence |-> 0]

Init ==
  /\ configured \in BOOLEAN
  /\ signal \in Signals
  /\ phase = "start" /\ attempt = 0 /\ slept = 0
  /\ source = "none" /\ decision = NoDecision

Return(d, src) ==
  /\ phase' = "done"
  /\ decision' = d
  /\ source' = src

\* settings.llm_is_configured is false: the fallback is returned as it is.
Unconfigured ==
  /\ phase = "start"
  /\ ~configured
  /\ Return(SmartFallback(signal), "unconfigured")
  /\ UNCHANGED <<configured, signal, attempt, slept>>

Start ==
  /\ phase = "start"
  /\ configured
  /\ phase' = "calling"
  /\ attempt' = 1
  /\ UNCHANGED <<configured, signal, slept, source, decision>>

\* The model answered a JSON object: parse, apply the policy, return.
ReplyArrives(reply) ==
  /\ phase = "calling"
  /\ Return(ApplyPolicy(ParseAndValidate(reply)), "reply")
  /\ UNCHANGED <<configured, signal, attempt, slept>>

\* The model answered JSON that is no object (a list, a number): as_json
\* accepts it, and raw.get raises outside the try block.
ReplyNotAnObject ==
  /\ phase = "calling"
  /\ phase' = "raised"
  /\ UNCHANGED <<configured, signal, attempt, slept, source, decision>>

\* Fault: the last allowed attempt is retried too.
OneRetryTooMany ==
  /\ phase = "calling"
  /\ IF attempt <= MaxRetries
     THEN /\ phase' = "sleeping"
          /\ slept' = slept + BackoffBase * attempt
          /\ UNCHANGED <<source, decision>>
     ELSE /\ Return(ApplyPolicy(SmartFallback(signal)), "fallback")
          /\ UNCHANGED slept
  /\ UNCHANGED <<configured, signal, attempt>>

\* Fault: the loop gives up one attempt early.
OneRetryTooFew ==
  /\ phase = "calling"
  /\ IF attempt < MaxRetries - 1
     THEN /\ phase' = "sleeping"
          /\ slept' = slept + BackoffBase * attempt
          /\ UNCHANGED <<source, decision>>
     ELSE /\ Return(ApplyPolicy(SmartFallback(signal)), "fallback")
          /\ UNCHANGED slept
  /\ UNCHANGED <<configured, signal, attempt>>

\* Fault: a failed attempt is not counted and the loop starts over.
UncountedFailure ==
  /\ phase = "calling"
  /\ phase' = "sleeping"
  /\ attempt' = attempt - 1
  /\ UNCHANGED <<configured, signal, slept, source, decision>>

\* Empty content, a MiniMaxError or any other exception of the call.
AttemptFails ==
  /\ phase = "calling"
  /\ IF attempt < MaxRetries
     THEN /\ phase' = "sleeping"
          /\ slept' = slept + BackoffBase * attempt
          /\ UNCHANGED <<source, decision>>
     ELSE /\ Return(ApplyPolicy(SmartFallback(signal)), "fallback")
          /\ UNCHANGED slept
  /\ UNCHANGED <<configured, signal, attempt>>

WakeUp ==
  /\ phase = "sleeping"
  /\ phase' = "calling"
  /\ attempt' = attempt + 1
  /\ UNCHANGED <<configured, signal, slept, source, decision>>

Ended == phase \in {"done", "raised"}

\* The coroutine is over; nothing moves any more.
Idle == Ended /\ UNCHANGED vars

Step ==
  \/ Unconfigured
  \/ Start
  \/ \E reply \in Replies : ReplyArrives(reply)
  \/ ReplyNotAnObject
  \/ AttemptFails
  \/ WakeUp

Next == Step \/ Idle

Spec == Init /\ [][Next]_vars

-----------------------------------------------------------------------------

\* The variables keep their types (decision_engine.py).
TypeOK ==
  /\ configured \in BOOLEAN
  /\ signal \in Signals
  /\ phase \in Phases
  /\ attempt \in 0..MaxRetries
  /\ slept \in Nat
  /\ source \in Sources
  /\ decision \in LLMDecision

\* With the LLM configured no path out of evaluate_signal (reply, coerced
\* reply, exhausted retries) returns a trade below MIN_CONFIDENCE.
PolicyRespected ==
  phase = "done" /\ configured => WithinPolicy(decision)

\* The fallback replaces the model only after MaxRetries failed calls, and by
\* then the pauses add up to the documented 1.5s, 3.0s, ... of the failed
\* calls but the last (decision_engine.py retry loop).
FallbackOnlyWhenExhausted ==
  source = "fallback" =>
    /\ attempt = MaxRetries
    /\ 2 * slept = BackoffBase * MaxRetries * (MaxRetries - 1)

\* What the request pipeline assumes of the engine: the decision is one of
\* EngineResults for this signal.
ReturnsAnEngineResult ==
  phase = "done" => decision \in EngineResults(signal, configured)

=============================================================================
