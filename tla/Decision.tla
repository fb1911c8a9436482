------------------------------ MODULE Decision ------------------------------
(***************************************************************************)
(* The pure part of the decision layer (app/engine/decision_engine.py):     *)
(* what an LLM reply becomes, what replaces it when there is none, and the  *)
(* MIN_CONFIDENCE policy.  Confidences are percentages, 0..100.             *)
(***************************************************************************)
EXTENDS Integers

CONSTANTS MinConfidence,    \* MIN_CONFIDENCE, in percent
          RawConfidences    \* the "confidence" values an LLM reply may carry

ASSUME MinConfidenceAssumption == MinConfidence \in 0..100

\* A raw confidence is anything float() may be handed: a number, NaN, or text.
RawConfidence == [kind : {"number", "nan", "text"}, value : Int]

ASSUME RawConfidencesAssumption == RawConfidences \subseteq RawConfidence

-----------------------------------------------------------------------------

ExitSignals   == {"exit_long", "exit_short"}
StrongSignals == {"strong_long", "strong_short"}
PlainSignals  == {"long", "short"}
LegacySignals == {"bull_choch", "bear_choch", "bull_bos", "bear_bos",
                  "bull_grab", "bear_grab"}
Signals == ExitSignals \cup StrongSignals \cup PlainSignals \cup LegacySignals

ValidActions == {"execute", "skip", "reduce"}
LLMDecision  == [action : ValidActions, confidence : 0..100]

\* The JSON object an LLM may answer: any action word, any confidence.
Replies == [action : ValidActions \cup {"other"}, confidence : RawConfidences]

\* The decision taken from the indicator alone when no reply can be used.
SmartFallback(signal) ==
  CASE signal \in ExitSignals   -> [action |-> "execute", confidence |-> 75]
    [] signal \in StrongSignals -> [action |-> "execute", confidence |-> 70]
    [] signal \in PlainSignals  -> [action |-> "reduce",  confidence |-> 55]
    [] OTHER                    -> [action |-> "skip",    confidence |-> 0]

\* Fault: the confidence is not clamped.
UnclampedConfidence(raw) ==
  CASE raw.kind = "text" -> 0
    [] raw.kind = "nan"  -> 100
    [] OTHER             -> raw.value

\* max(0.0, min(1.0, x)); Python's min(1.0, nan) is 1.0, so NaN is certainty.
Confidence(raw) ==
  CASE raw.kind = "text" -> 0
    [] raw.kind = "nan"  -> 100
    [] OTHER             -> IF raw.value < 0 THEN 0
                            ELSE IF raw.value > 100 THEN 100 ELSE raw.value

ParseAndValidate(reply) ==
  [action     |-> IF reply.action \in ValidActions THEN reply.action ELSE "skip",
   confidence |-> Confidence(reply.confidence)]

\* Fault: "reduce" slips past the policy.
PolicyOnExecuteOnly(d) ==
  IF d.action = "execute" /\ d.confidence < MinConfidence
  THEN [d EXCEPT !.action = "skip"]
  ELSE d

\* The MIN_CONFIDENCE downgrade: too little confidence turns a trade to a skip.
ApplyPolicy(d) ==
  IF d.action # "skip" /\ d.confidence < MinConfidence
  THEN [d EXCEPT !.action = "skip"]
  ELSE d

\* Every decision evaluate_signal can return for an alert with this signal;
\* configured is settings.llm_is_configured.
EngineResults(signal, configured) ==
  IF configured
  THEN {ApplyPolicy(d) : d \in {ParseAndValidate(r) : r \in Replies}
                               \cup {SmartFallback(signal)}}
  ELSE {SmartFallback(signal)}

\* A decision the MIN_CONFIDENCE policy lets through.
WithinPolicy(d) == d.action = "skip" \/ d.confidence >= MinConfidence

=============================================================================
