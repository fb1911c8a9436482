------------------------------ MODULE Analysis ------------------------------
(***************************************************************************)
(* The two awaits of the webhook before it decides: fetch_macro_context and *)
(* then evaluate_signal (app/api/webhook.py).  An exception of either ends  *)
(* the request with 500.  The dashboard's gold price uses the first alone.  *)
(***************************************************************************)
EXTENDS DecisionEngine, MarketContext

analysisVars == <<vars, contextVars>>

AnalysisInit == Init /\ ContextInit

\* context = await fetch_macro_context(...), or a poll of /api/gold-price.
FetchContext == Fetch /\ UNCHANGED vars

\* decision = await evaluate_signal(alert, context, ...), once there is a context.
EvaluateSignal ==
  /\ gather = "done" /\ wanted = Macro
  /\ Step
  /\ UNCHANGED contextVars

Answered == Ended \/ gather = "raised" \/ (gather = "done" /\ wanted # Macro)

Stage == FetchContext \/ EvaluateSignal

AnalysisNext == Stage \/ (Answered /\ UNCHANGED analysisVars)

AnalysisSpec == AnalysisInit /\ [][AnalysisNext]_analysisVars

\* Every provider and the model are called with an HTTP timeout, yfinance in a
\* thread that returns, and sleep returns: every step is taken.
AnalysisFairSpec == AnalysisSpec /\ WF_analysisVars(Stage)

-----------------------------------------------------------------------------

\* The request gets an answer whatever the providers and the model do: a ladder
\* is climbed once, a failed chat call retried MaxRetries times at most.
RequestEnds == <>Answered

=============================================================================
