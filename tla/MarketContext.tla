--------------------------- MODULE MarketContext ---------------------------
(***************************************************************************)
(* One call of app/context/market_context.py: fetch_macro_context, which    *)
(* the webhook awaits before it asks the model, or get_gold_price, which    *)
(* the dashboard polls.  Every instrument has a ladder of providers that    *)
(* are asked one after the other; the three of the macro context are asked  *)
(* concurrently and gathered.                                               *)
(***************************************************************************)
EXTENDS Integers, Sequences

VARIABLES access,   \* providers that can be asked: those without a key, and keys in .env
          enabled,  \* settings.enable_macro_context
          wanted,   \* the instruments of the call
          asked,    \* asked[t]: what became of the providers of t so far, in order
          gather,   \* where the call stands
          context   \* what it returns: per instrument the provider used, and partial

contextVars == <<access, enabled, wanted, asked, gather, context>>

Macro  == {"dxy", "us10y", "news"}
Ladder == [dxy   |-> <<"yfinance", "twelvedata", "alphavantage">>,
           us10y |-> <<"yfinance", "twelvedata", "alphavantage">>,
           news  |-> <<"newsapi">>,
           gold  |-> <<"spot", "futures", "twelvedata", "alphavantage", "metals">>]

Keyless == {"yfinance", "spot", "futures"}
Keys    == {"twelvedata", "alphavantage", "newsapi", "metals"}

\* What comes back: closes, closes of which the previous one is 0, nothing of
\* use (a network failure, an HTTP status, too few values, a price out of
\* range), or JSON of another shape.
Answers == {"closes", "zero", "nothing", "malformed"}

Usable(reply) == reply \in {"closes", "zero"}

\* A provider whose key is not in .env is passed over.
NoKey == "no key"

Empty == [source |-> [t \in DOMAIN Ladder |-> "none"], partial |-> FALSE]

Found(t)  == \E k \in DOMAIN asked[t] : Usable(asked[t][k])
Spoilt(t) == \E k \in DOMAIN asked[t] : asked[t][k] = "malformed"

\* The functions of yfinance and of the gold price catch every exception; the
\* others only HTTPError, ValueError and KeyError.
Catches(t, provider) == t = "gold" \/ provider = "yfinance"

Failed(t) == \E k \in DOMAIN asked[t] :
               asked[t][k] = "malformed" /\ ~Catches(t, Ladder[t][k])

Settled(t) == Found(t) \/ Failed(t) \/ Len(asked[t]) = Len(Ladder[t])

\* The provider of t whose turn it is.
Provider(t) == Ladder[t][Len(asked[t]) + 1]

\* The task of t is under way.
Asking(t) == gather \in {"waiting", "raised"} /\ t \in wanted /\ ~Settled(t)

ContextInit ==
  /\ \E keys \in SUBSET Keys : access = Keyless \cup keys
  /\ enabled \in BOOLEAN
  /\ wanted \in {Macro, {"gold"}}
  /\ asked = [t \in DOMAIN Ladder |-> << >>]
  /\ gather = "start"
  /\ context = Empty

\* ENABLE_MACRO_CONTEXT=false: an empty context, marked partial.
Disabled ==
  /\ gather = "start" /\ wanted = Macro /\ ~enabled
  /\ gather' = "done"
  /\ context' = [Empty EXCEPT !.partial = TRUE]
  /\ UNCHANGED <<access, enabled, wanted, asked>>

Begin ==
  /\ gather = "start" /\ (enabled \/ wanted # Macro)
  /\ gather' = "waiting"
  /\ UNCHANGED <<access, enabled, wanted, asked, context>>

\* Fault: a provider that is down raises like one that answers nonsense.
NetworkRaises(t, reply) ==
  /\ Asking(t) /\ Provider(t) \in access
  /\ asked' = [asked EXCEPT ![t] = Append(@, reply)]
  /\ gather' = IF reply \in {"malformed", "nothing"} /\ ~Catches(t, Provider(t))
               THEN "raised" ELSE gather
  /\ UNCHANGED <<access, enabled, wanted, context>>

\* The provider whose turn it is replies.  The first exception of a task is
\* raised by gather at once; the other tasks go on, and nobody reads them.
Answer(t, reply) ==
  /\ Asking(t) /\ Provider(t) \in access
  /\ reply = "zero" => t = "dxy"        \* only DXY is divided by the previous close
  /\ asked' = [asked EXCEPT ![t] = Append(@, reply)]
  /\ gather' = IF reply = "malformed" /\ ~Catches(t, Provider(t))
               THEN "raised" ELSE gather
  /\ UNCHANGED <<access, enabled, wanted, context>>

\* Its key is not there: the next one's turn, without a request.
PassOver(t) ==
  /\ Asking(t) /\ Provider(t) \notin access
  /\ asked' = [asked EXCEPT ![t] = Append(@, NoKey)]
  /\ UNCHANGED <<access, enabled, wanted, gather, context>>

Source(t) == IF Found(t) THEN Ladder[t][Len(asked[t])] ELSE "none"

Missing == {t \in {"dxy", "us10y"} : ~Found(t)}
             \cup IF "newsapi" \in access /\ ~Found("news") THEN {"news"} ELSE {}

\* Fault: headlines that were asked for and are not there go unnoticed.
CollectIgnoringNews ==
  /\ gather = "waiting" /\ wanted = Macro
  /\ \A t \in wanted : Settled(t)
  /\ \A k \in DOMAIN asked["dxy"] : asked["dxy"][k] # "zero"
  /\ gather' = "done"
  /\ context' = [source |-> [t \in DOMAIN Ladder |-> Source(t)],
                 partial |-> Missing \ {"news"} # {}]
  /\ UNCHANGED <<access, enabled, wanted, asked>>

\* All three have returned: the context is put together.
Collect ==
  /\ gather = "waiting" /\ wanted = Macro
  /\ \A t \in wanted : Settled(t)
  /\ \A k \in DOMAIN asked["dxy"] : asked["dxy"][k] # "zero"
  /\ gather' = "done"
  /\ context' = [source |-> [t \in DOMAIN Ladder |-> Source(t)], partial |-> Missing # {}]
  /\ UNCHANGED <<access, enabled, wanted, asked>>

\* The change of DXY in percent divides by the previous close.
DividesByZero ==
  /\ gather = "waiting" /\ wanted = Macro
  /\ \A t \in wanted : Settled(t)
  /\ \E k \in DOMAIN asked["dxy"] : asked["dxy"][k] = "zero"
  /\ gather' = "raised"
  /\ UNCHANGED <<access, enabled, wanted, asked, context>>

\* get_gold_price: the first price in range, or a RuntimeError (503).
Quote ==
  /\ gather = "waiting" /\ wanted = {"gold"}
  /\ Settled("gold")
  /\ gather' = IF Found("gold") THEN "done" ELSE "raised"
  /\ context' = [Empty EXCEPT !.source["gold"] = Source("gold")]
  /\ UNCHANGED <<access, enabled, wanted, asked>>

Fetch ==
  \/ Disabled
  \/ Begin
  \/ \E t \in DOMAIN Ladder : PassOver(t) \/ \E reply \in Answers : Answer(t, reply)
  \/ Collect
  \/ DividesByZero
  \/ Quote

-----------------------------------------------------------------------------

\* A context says where each figure is from, the first provider of its ladder
\* that gave one, every one before it that has a key having been tried, and it
\* is marked partial exactly when something that could be asked for is missing
\* (fetch_macro_context, _fetch_with_fallback, get_gold_price).
ContextHonest ==
  gather = "done" /\ (enabled \/ wanted # Macro) =>
    /\ \A t \in wanted :
         LET n == Len(asked[t]) IN
           /\ \A k \in 1..n : asked[t][k] = NoKey <=> Ladder[t][k] \notin access
           /\ IF context.source[t] = "none"
              THEN n = Len(Ladder[t]) /\ \A k \in 1..n : ~Usable(asked[t][k])
              ELSE /\ n \in DOMAIN Ladder[t] /\ context.source[t] = Ladder[t][n]
                   /\ Usable(asked[t][n]) /\ \A k \in 1..(n - 1) : ~Usable(asked[t][k])
    /\ context.partial <=> \E t \in wanted : /\ context.source[t] = "none"
                                            /\ \E k \in DOMAIN Ladder[t] : Ladder[t][k] \in access

\* "Any failure degrades gracefully": providers that are down, refuse or have
\* nothing never make fetch_macro_context raise, only a reply of another shape
\* or a previous close of zero does; the gold price raises exactly when nobody
\* had one (fetch_macro_context, get_gold_price).
OnlyMalformedRaises ==
  gather = "raised" =>
    \/ wanted = Macro /\ \E t \in Macro : Spoilt(t) \/ \E k \in DOMAIN asked[t] : asked[t][k] = "zero"
    \/ wanted = {"gold"} /\ ~Found("gold")

=============================================================================
