------------------------------ MODULE MCWebhook ------------------------------
(***************************************************************************)
(* Model-checking values for Webhook.                                       *)
(***************************************************************************)
EXTENDS Webhook

MCMaxDrawdown == -30

\* A reply that claims too much is clamped to 100; the decisions below the
\* threshold come from the fallback, whose 55 for "long" is downgraded.
MCRawConfidences == [kind : {"number"}, value : {170}]

Good(symbol, signal, atr) ==
  [body |-> "ok", symbol |-> symbol, signal |-> signal, atr |-> atr, price |-> 4700]

Bad(body) == [Good("XAUUSD", "long", 20) EXCEPT !.body = body]

\* A signal in a quiet and in a wild market (0.8% of 4700 is 37.6), another
\* signal, and every kind of refusal (a body that is no JSON takes the path of an
\* invalid one).
MCAlerts == {Good("XAUUSD", "long", 20), Good("XAUUSD", "long", 38),
             Good("XAUUSD", "exit_long", 38), Bad("invalid"), Bad("bad_secret")}

=============================================================================
