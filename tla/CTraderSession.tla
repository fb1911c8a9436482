--------------------------- MODULE CTraderSession ---------------------------
(***************************************************************************)
(* The MCP session of one worker process: CTraderExecutor (executor/        *)
(* ctrader.py), whose client the request handlers and the breakeven loop    *)
(* share, and CTraderMCPClient (executor/ctrader_client.py).                *)
(*                                                                          *)
(* A session is initialised once through each HTTP client, and named by it. *)
(* That is the httpx.AsyncClient, not a connection: it opens another when   *)
(* one is lost, after a failed request or idle, and sends the same session  *)
(* on it.  The code sees nothing of that but a failed request, and nor does *)
(* this model; what the server makes of it is Expire.                       *)
(*                                                                          *)
(* A coroutine is at an await between two steps.  Client objects nobody     *)
(* refers to any more are collected, so that a finite set of names does.    *)
(***************************************************************************)
EXTENDS Naturals, FiniteSets

CONSTANTS Handlers,   \* coroutines in execute(), one request after another
          Loop,       \* the coroutine of the breakeven loop
          Clients,    \* names of CTraderMCPClient objects
          HttpClients, \* names of httpx.AsyncClient objects
          None        \* Python's None

ASSUME SessionAssumption ==
  /\ Loop \notin Handlers /\ None \notin Handlers \cup {Loop}
  /\ None \notin Clients /\ None \notin HttpClients

Coroutines == Handlers \cup {Loop}

VARIABLES
  client,       \* executor: _client
  connected,    \* executor: _connected
  lock,         \* executor: holder of _connect_lock
  http,         \* http[c]: _http
  initialized,  \* initialized[c]: _initialized
  session,      \* session[c]: _session_id
  tools,        \* tools[c]: _tools is filled
  alive,        \* sessions the server knows
  pc,           \* pc[k]: the await at which k stands
  on,           \* on[k]: the client k is working with
  via           \* via[k]: the HTTP client of the request k is waiting for

executorVars == <<client, connected, lock>>
clientVars   == <<http, initialized, session, tools>>
vars == <<executorVars, clientVars, alive, pc, on, via>>

-----------------------------------------------------------------------------

Connecting == {"init", "notify", "list", "closing", "aclose"}
Calling    == {"call", "recall"}
Places     == Connecting \cup Calling \cup {"idle", "lock", "read"}

Init ==
  /\ client = None /\ connected = FALSE /\ lock = None
  /\ http = [c \in Clients |-> None]
  /\ initialized = [c \in Clients |-> FALSE]
  /\ session = [c \in Clients |-> None]
  /\ tools = [c \in Clients |-> FALSE]
  /\ alive = {}
  /\ pc = [k \in Coroutines |-> "idle"]
  /\ on = [k \in Coroutines |-> None]
  /\ via = [k \in Coroutines |-> None]

\* CTraderMCPClient.is_connected and the test of _lazy_connect.
IsConnected(c) == initialized[c] /\ http[c] # None

Ready == connected /\ client # None /\ IsConnected(client)

GoTo(k, place) == pc' = [pc EXCEPT ![k] = place]

\* k is at an await of client c, with a request out through HTTP client s or none.
Await(k, place, c, s) ==
  /\ GoTo(k, place)
  /\ on' = [on EXCEPT ![k] = c]
  /\ via' = [via EXCEPT ![k] = s]

Return(k) == Await(k, "idle", None, None)

Busy       == {on[k] : k \in Coroutines}
Referenced == {client} \cup Busy
HttpInUse == {http[c] : c \in Clients} \cup {session[c] : c \in Clients}
                  \cup {via[k] : k \in Coroutines}

\* Fault: the tool table is not looked at.
UseClientUnchecked(k) ==
  IF k = Loop THEN Await(k, "call", client, http[client]) ELSE Return(k)

\* What follows _lazy_connect without an await.  The loop calls get_positions,
\* which fails at once if the tool is not in the table; the connect() of call_tool
\* is never needed, since a ready client is initialized.  execute() calls two
\* methods the client does not have and ends with their AttributeErrors.
UseClient(k) ==
  IF k = Loop /\ tools[client] THEN Await(k, "call", client, http[client])
                               ELSE Return(k)

\* Names have no meaning: any one will do.
OneOf(names) == CHOOSE name \in names : TRUE

\* connect() of a client without HTTP client, up to its first await.
OpenAndInitialize(k, c, https, held) ==
  LET s == OneOf(HttpClients \ HttpInUse) IN
    /\ HttpClients \ HttpInUse # {}
    /\ http' = [https EXCEPT ![c] = s]
    /\ alive' = (alive \cap held) \ {s}
    /\ Await(k, "init", c, s)

-----------------------------------------------------------------------------
(* _lazy_connect                                                             *)

\* The executor is ready: no lock is taken.
FastPath(k) ==
  /\ pc[k] = "idle" /\ Ready
  /\ UseClient(k)
  /\ UNCHANGED <<executorVars, clientVars, alive>>

\* The lock is held by another coroutine.
WaitForLock(k) ==
  /\ pc[k] = "idle" /\ ~Ready /\ lock # None
  /\ GoTo(k, "lock")
  /\ UNCHANGED <<executorVars, clientVars, alive, on, via>>

\* Fault: the second look, unlike the first, asks for the tools as well.
AlreadyConnectedWithTools(k) ==
  /\ pc[k] = "lock" /\ lock = None /\ Ready /\ tools[client]
  /\ UseClient(k)
  /\ UNCHANGED <<executorVars, clientVars, alive>>

\* The second look, with the lock: somebody else has connected meanwhile.
AlreadyConnected(k) ==
  /\ pc[k] = "lock" /\ lock = None /\ Ready
  /\ UseClient(k)
  /\ UNCHANGED <<executorVars, clientVars, alive>>

\* A new client takes the place of the old one, which is not closed; it is
\* collected with the others no coroutine works with.
NewClient(k) ==
  /\ pc[k] \in {"idle", "lock"} /\ lock = None /\ ~Ready
  /\ Clients \ Referenced # {}
  /\ LET c == OneOf(Clients \ Referenced)
         Fresh(field, value) == [d \in Clients |-> IF d \in Busy THEN field[d] ELSE value]
     IN /\ client' = c
        /\ initialized' = Fresh(initialized, FALSE)
        /\ session' = Fresh(session, None)
        /\ tools' = Fresh(tools, FALSE)
        /\ OpenAndInitialize(k, c, Fresh(http, None), {session[d] : d \in Busy \ {None}})
  /\ lock' = k
  /\ UNCHANGED connected

\* Fault: the lock is kept when connecting fails.
ClosedWithLock(k) ==
  /\ pc[k] = "closing"
  /\ http' = [http EXCEPT ![on[k]] = None]
  /\ initialized' = [initialized EXCEPT ![on[k]] = FALSE]
  /\ session' = [session EXCEPT ![on[k]] = None]
  /\ client' = None
  /\ Return(k)
  /\ UNCHANGED <<connected, lock, tools, alive>>

\* The client could not be connected: it is closed and forgotten.
Closed(k) ==
  /\ pc[k] = "closing"
  /\ http' = [http EXCEPT ![on[k]] = None]
  /\ initialized' = [initialized EXCEPT ![on[k]] = FALSE]
  /\ session' = [session EXCEPT ![on[k]] = None]
  /\ client' = None /\ lock' = None
  /\ Return(k)
  /\ UNCHANGED <<connected, tools, alive>>

-----------------------------------------------------------------------------
(* connect(), on behalf of _lazy_connect (k holds the lock) or _reconnect.   *)

InitAnswered(k) ==
  /\ pc[k] = "init"
  /\ session' = [session EXCEPT ![on[k]] = via[k]]
  /\ alive' = alive \cup {via[k]}
  /\ GoTo(k, "notify")
  /\ UNCHANGED <<executorVars, http, initialized, tools, on, via>>

\* The notification was sent or not: its errors are swallowed.  The client
\* counts as connected from here on, before its tools are known.
Notified(k) ==
  /\ pc[k] = "notify"
  /\ initialized' = [initialized EXCEPT ![on[k]] = TRUE]
  /\ Await(k, "list", on[k], http[on[k]])
  /\ UNCHANGED <<executorVars, http, session, tools, alive>>

ListAnswered(k) ==
  /\ pc[k] = "list"
  /\ tools' = [tools EXCEPT ![on[k]] = TRUE]
  /\ IF lock = k
     THEN /\ connected' = TRUE /\ lock' = None
          /\ IF k = Loop THEN Await(k, "call", on[k], http[on[k]]) ELSE Return(k)
     ELSE /\ Await(k, "recall", on[k], http[on[k]])
          /\ UNCHANGED <<connected, lock>>
  /\ UNCHANGED <<client, http, initialized, session, alive>>

\* The loop's reconcile_breakeven catches the error.  One that speaks of the
\* session resets the executor, unless its client is gone and the look at it
\* raises; then _breakeven_loop catches that.
Reset == connected' = IF client = None THEN connected ELSE FALSE

\* initialize or tools/list fails: a timeout, an HTTP error, an answer with an
\* error in it.
ConnectFails(k) ==
  /\ pc[k] \in {"init", "list"}
  /\ IF lock = k
     THEN GoTo(k, "closing") /\ UNCHANGED <<connected, on, via>>
     ELSE Return(k) /\ (Reset \/ UNCHANGED connected)
  /\ UNCHANGED <<client, lock, clientVars, alive>>

-----------------------------------------------------------------------------
(* call_tool("get_positions") of the loop.                                   *)

Answered(k) ==
  /\ pc[k] \in Calling /\ session[on[k]] \in alive
  /\ Await(k, "read", on[k], None)
  /\ UNCHANGED <<executorVars, clientVars, alive>>

\* The positions are gone through.  To modify one fails without an await, as
\* the client has no modify_position.
Reconciled(k) ==
  /\ pc[k] = "read"
  /\ Return(k)
  /\ UNCHANGED <<executorVars, clientVars, alive>>

\* Fault: the answer is not taken for one of an expired session.
SessionExpiredUnnoticed(k) ==
  /\ pc[k] = "call" /\ session[on[k]] \notin alive
  /\ Return(k)
  /\ UNCHANGED <<executorVars, clientVars, alive>>

\* The first answer says that the session is gone.
SessionExpired(k) ==
  /\ pc[k] = "call" /\ session[on[k]] \notin alive
  /\ GoTo(k, "aclose")
  /\ UNCHANGED <<executorVars, clientVars, alive, on, via>>

\* Fault: the tool table and the flags of the old session are kept.
ReconnectKeepingSession(k) ==
  /\ pc[k] = "aclose"
  /\ OpenAndInitialize(k, on[k], http, HttpClients)
  /\ UNCHANGED <<executorVars, initialized, session, tools>>

\* Fault: the client keeps counting as initialised.
ReconnectInitialized(k) ==
  /\ pc[k] = "aclose"
  /\ session' = [session EXCEPT ![on[k]] = None]
  /\ tools' = [tools EXCEPT ![on[k]] = FALSE]
  /\ OpenAndInitialize(k, on[k], http, HttpClients)
  /\ UNCHANGED <<executorVars, initialized>>

\* _reconnect: the HTTP client is closed, everything is cleared, and connect()
\* opens a new one.
Reconnect(k) ==
  /\ pc[k] = "aclose"
  /\ initialized' = [initialized EXCEPT ![on[k]] = FALSE]
  /\ session' = [session EXCEPT ![on[k]] = None]
  /\ tools' = [tools EXCEPT ![on[k]] = FALSE]
  /\ OpenAndInitialize(k, on[k], http, HttpClients)
  /\ UNCHANGED executorVars

\* So does the second: there is no third attempt.
ExpiredAgain(k) ==
  /\ pc[k] = "recall" /\ session[on[k]] \notin alive
  /\ Reset
  /\ Return(k)
  /\ UNCHANGED <<client, lock, clientVars, alive>>

\* Any other error of either attempt.
CallFails(k) ==
  /\ pc[k] \in Calling
  /\ Return(k)
  /\ UNCHANGED <<executorVars, clientVars, alive>>

\* Sessions of clients that somebody still refers to: what becomes of the others
\* makes no difference.
Held == {session[c] : c \in Referenced \ {None}}

\* The server forgets a session, though not while it is being set up.  (If it
\* did, the listing would fail, which ConnectFails covers.)
Expire(s) ==
  /\ s \in alive \cap Held
  /\ \A k \in Coroutines : pc[k] \in {"notify", "list"} => session[on[k]] # s
  /\ alive' = alive \ {s}
  /\ UNCHANGED <<executorVars, clientVars, pc, on, via>>

-----------------------------------------------------------------------------

Acquire(k) == AlreadyConnected(k) \/ (pc[k] = "lock" /\ NewClient(k))

Start(k) == FastPath(k) \/ WaitForLock(k) \/ (pc[k] = "idle" /\ NewClient(k))

Go(k) ==
  \/ InitAnswered(k) \/ Notified(k) \/ ListAnswered(k) \/ ConnectFails(k) \/ Closed(k)
  \/ Answered(k) \/ Reconciled(k) \/ CallFails(k)
  \/ SessionExpired(k) \/ Reconnect(k) \/ ExpiredAgain(k)

Next ==
  \/ \E k \in Coroutines : Start(k) \/ Acquire(k) \/ Go(k)
  \/ \E s \in HttpClients : Expire(s)

Spec == Init /\ [][Next]_vars

\* Every request ends by the client's timeout, the lock is handed on in the
\* order of arrival, and the loop comes round again.  Handlers come at will.
Fairness ==
  /\ WF_vars(Start(Loop))
  /\ \A k \in Coroutines : WF_vars(Go(k)) /\ SF_vars(Acquire(k))

FairSpec == Spec /\ Fairness

\* Besides, the server does not fail for ever: what is asked again and again is
\* answered at last.
ServerFairness ==
  \A k \in Coroutines : /\ SF_vars(InitAnswered(k)) /\ SF_vars(ListAnswered(k))
                        /\ SF_vars(Answered(k)) /\ SF_vars(SessionExpired(k))

HealthySpec == FairSpec /\ ServerFairness

-----------------------------------------------------------------------------

\* The variables keep their types, and the lock is held by a coroutine that is
\* connecting (ctrader.py:46-52, ctrader_client.py:60-69).
TypeOK ==
  /\ client \in Clients \cup {None} /\ connected \in BOOLEAN
  /\ lock = None \/ (lock \in Coroutines /\ pc[lock] \in Connecting)
  /\ http \in [Clients -> HttpClients \cup {None}]
  /\ initialized \in [Clients -> BOOLEAN]
  /\ session \in [Clients -> HttpClients \cup {None}]
  /\ tools \in [Clients -> BOOLEAN]
  /\ alive \subseteq HttpClients
  /\ pc \in [Coroutines -> Places]
  /\ on \in [Coroutines -> Clients \cup {None}]
  /\ via \in [Coroutines -> HttpClients \cup {None}]

\* No two coroutines have requests out on one client or change it at the same
\* time, although _reconnect takes no lock (ctrader_client.py:222): what keeps
\* them apart is that a connecting executor always starts from a new client and
\* that the loop turns away from one without tools.
NoSharedClient ==
  \A j, k \in Coroutines : j # k /\ pc[j] \in Connecting \cup Calling => on[j] # on[k]

\* No request carries the session of another HTTP client than the one it goes out
\* through: whatever fails on the way of a reconnect, what was known of the old
\* session is gone (_reconnect, close).
NoStaleSession ==
  \A k \in Coroutines :
    pc[k] \in {"notify", "list"} \cup Calling => via[k] # None /\ session[on[k]] = via[k]

\* No execute() hangs: whatever fails, the lock is released and the handler
\* gets its answer (ctrader.py:62-109).
ExecutesEnd == \A h \in Handlers : pc[h] # "idle" ~> pc[h] = "idle"

\* The executor has a client with a session; that client knows no tools.
Up       == client # None /\ initialized[client] /\ session[client] # None
HalfOpen == Up /\ ~tools[client]

\* An executor that has lost its client or its session comes back to a
\* connected one, whichever of the calls on the way failed (ctrader.py:57-109).
ComesBack == ~Up ~> Up

\* Nothing keeps the loop from reading positions again and again but a client
\* that is connected and knows no tools (ctrader_client.py:111-115).
OnlyHalfOpenStops ==
  []<>(pc[Loop] = "read") \/ <>[]HalfOpen

\* "If it still fails, reset our state so the NEXT cycle starts fresh instead of
\* looping on a dead session" (ctrader.py:306-308): the loop never stops reading
\* positions.
KeepsReconciling == []<>(pc[Loop] = "read")

=============================================================================
