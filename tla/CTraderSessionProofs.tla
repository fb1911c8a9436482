------------------------ MODULE CTraderSessionProofs ------------------------
(***************************************************************************)
(* The shared MCP session for any number of request handlers: no client is  *)
(* used by two coroutines at a time, and no request carries the session of  *)
(* another HTTP client than the one it goes out through.                    *)
(***************************************************************************)
EXTENDS CTraderSession, TLAPS

USE SessionAssumption

Types ==
  /\ client \in Clients \cup {None} /\ connected \in BOOLEAN
  /\ lock \in Coroutines \cup {None}
  /\ http \in [Clients -> HttpClients \cup {None}]
  /\ initialized \in [Clients -> BOOLEAN]
  /\ session \in [Clients -> HttpClients \cup {None}]
  /\ tools \in [Clients -> BOOLEAN]
  /\ alive \subseteq HttpClients
  /\ pc \in [Coroutines -> Places]
  /\ on \in [Coroutines -> Clients \cup {None}]
  /\ via \in [Coroutines -> HttpClients \cup {None}]

\* A coroutine is connecting on behalf of _lazy_connect exactly if it holds the
\* lock, and then it works on the executor's client, which has no tools yet;
\* without the lock only the loop has anything to do with a client.
LockSound ==
  /\ lock # None => /\ pc[lock] \in {"init", "notify", "list", "closing"}
                    /\ on[lock] = client /\ ~tools[client]
  /\ \A k \in Coroutines :
       /\ pc[k] \in {"idle", "lock"} <=> on[k] = None
       /\ k # Loop /\ on[k] # None => lock = k
       /\ pc[k] = "closing" => lock = k

Apart == \A j, k \in Coroutines : j # k /\ on[j] # None => on[j] # on[k]

\* A request under way is on the HTTP client of its object; from initialize on
\* the session is the one initialised through it.
RequestsSound ==
  \A k \in Coroutines :
    /\ pc[k] \in {"init", "notify", "list"} \cup Calling
         => via[k] # None /\ http[on[k]] = via[k]
    /\ pc[k] \in {"notify", "list"} \cup Calling => session[on[k]] = via[k]

\* A client that knows its tools has a session made through its present HTTP client.
ToolsSound == \A c \in Clients : tools[c] => http[c] # None /\ session[c] = http[c]

IInv == Types /\ LockSound /\ Apart /\ RequestsSound /\ ToolsSound

\* Nobody holds the lock under the name of none.
LEMMA NoneIsNobody == None \notin Coroutines
BY DEF Coroutines

\* The invariant holds before the first connection.
LEMMA InitOK == Init => IInv
BY DEF Init, IInv, Types, LockSound, Apart, RequestsSound, ToolsSound, Places, Connecting,
       Calling

\* Choosing a name from what is left.
LEMMA OneOfChooses ==
  ASSUME NEW S, S # {}
  PROVE  OneOf(S) \in S
BY DEF OneOf

\* Going on with a ready client keeps the invariant.
LEMMA UseClientStep ==
  ASSUME IInv, NEW k \in Coroutines, pc[k] \in {"idle", "lock"}, Ready, UseClient(k),
         UNCHANGED <<executorVars, clientVars, alive>>
  PROVE  IInv'
<1> USE DEF executorVars, clientVars
<1>1. client \in Clients /\ http[client] # None
  BY DEF Ready, IsConnected, IInv, Types
<1>2. CASE k = Loop /\ tools[client]
  <2>1. /\ pc' = [pc EXCEPT ![k] = "call"] /\ on' = [on EXCEPT ![k] = client]
        /\ via' = [via EXCEPT ![k] = http[client]]
    BY <1>2 DEF UseClient, Await, GoTo
  <2>2. lock = None
    BY <1>2 DEF IInv, LockSound
  <2>3. \A j \in Coroutines : j # k => on[j] = None
    BY <1>2, <2>2, NoneIsNobody DEF IInv, LockSound
  <2>4. Types'
    BY <1>1, <2>1 DEF IInv, Types, Places, Calling
  <2>5. LockSound'
    <3>1. pc'[k] = "call" /\ on'[k] # None /\ k = Loop
      BY <1>1, <1>2, <2>1 DEF IInv, Types
    <3>2. \A j \in Coroutines : j # k => pc'[j] = pc[j] /\ on'[j] = on[j]
      BY <2>1 DEF IInv, Types
    <3> QED
      BY <2>2, <3>1, <3>2 DEF IInv, LockSound
  <2>6. Apart'
    BY <1>1, <2>1, <2>3 DEF IInv, Types, Apart
  <2>7. RequestsSound'
    BY <1>1, <1>2, <2>1 DEF IInv, Types, RequestsSound, ToolsSound
  <2>8. ToolsSound'
    BY DEF IInv, ToolsSound
  <2> QED
    BY <2>4, <2>5, <2>6, <2>7, <2>8 DEF IInv
<1>3. CASE ~(k = Loop /\ tools[client])
  <2>1. /\ pc' = [pc EXCEPT ![k] = "idle"] /\ on' = [on EXCEPT ![k] = None]
        /\ via' = [via EXCEPT ![k] = None]
    BY <1>3 DEF UseClient, Return, Await, GoTo
  <2>2. lock # k
    BY NoneIsNobody DEF IInv, LockSound, Types
  <2>3. Types'
    BY <2>1 DEF IInv, Types, Places
  <2>4. LockSound'
    BY <2>1, <2>2 DEF IInv, Types, LockSound
  <2>5. /\ pc'[k] = "idle" /\ on'[k] = None
        /\ \A j \in Coroutines : j # k => pc'[j] = pc[j] /\ on'[j] = on[j] /\ via'[j] = via[j]
    BY <2>1 DEF IInv, Types
  <2>6. Apart'
    BY <2>5 DEF IInv, Apart
  <2>7. RequestsSound'
    BY <2>5 DEF IInv, RequestsSound, Calling
  <2>8. ToolsSound'
    BY DEF IInv, ToolsSound
  <2> QED
    BY <2>3, <2>4, <2>6, <2>7, <2>8 DEF IInv
<1> QED
  BY <1>2, <1>3

\* The clients of the other coroutines are untouched and k keeps its client.
LEMMA OwnClient ==
  ASSUME IInv, NEW k \in Coroutines, on[k] \in Clients,
         UNCHANGED <<client, on>>,
         lock' = lock \/ (lock = k /\ k = Loop /\ lock' = None),
         \A j \in Coroutines \ {k} : pc'[j] = pc[j] /\ via'[j] = via[j],
         \A c \in Clients \ {on[k]} :
            http'[c] = http[c] /\ session'[c] = session[c] /\ tools'[c] = tools[c],
         Types',
         pc'[k] \notin {"idle", "lock", "closing"} \/ (pc'[k] = "closing" /\ lock' = k),
         lock' = k => /\ pc'[k] \in {"init", "notify", "list", "closing"} /\ ~tools'[on[k]],
         pc'[k] \in {"init", "notify", "list"} \cup Calling
           => via'[k] # None /\ http'[on[k]] = via'[k],
         pc'[k] \in {"notify", "list"} \cup Calling => session'[on[k]] = via'[k],
         tools'[on[k]] => http'[on[k]] # None /\ session'[on[k]] = http'[on[k]]
  PROVE  IInv'
<1>1. \A j \in Coroutines : j # k => on[j] # on[k]
  BY DEF IInv, Apart
<1>2. LockSound'
  <2>1. ASSUME lock' # None, lock' # k
        PROVE  /\ pc'[lock'] \in {"init", "notify", "list", "closing"}
               /\ on[lock'] = client /\ ~tools'[client]
    <3>1. lock' = lock /\ lock \in Coroutines \ {k} /\ on[lock] = client /\ ~tools[client]
      BY <2>1 DEF IInv, Types, LockSound
    <3>2. client # None
      BY <2>1, <3>1 DEF IInv, LockSound
    <3>3. client \in Clients /\ client # on[k]
      BY <1>1, <3>1, <3>2 DEF IInv, Types
    <3> QED
      BY <2>1, <3>1, <3>3 DEF IInv, LockSound
  <2>2. ASSUME lock' = k
        PROVE  /\ pc'[lock'] \in {"init", "notify", "list", "closing"}
               /\ on[lock'] = client /\ ~tools'[client]
    BY <2>2, NoneIsNobody DEF IInv, LockSound
  <2>3. \A j \in Coroutines :
          /\ pc'[j] \in {"idle", "lock"} <=> on[j] = None
          /\ j # Loop /\ on[j] # None => lock' = j
          /\ pc'[j] = "closing" => lock' = j
    BY DEF IInv, LockSound
  <2> QED
    BY <2>1, <2>2, <2>3 DEF LockSound
<1>3. Apart'
  BY DEF IInv, Apart
<1>4. RequestsSound'
  <2> SUFFICES ASSUME NEW j \in Coroutines, j # k
               PROVE  /\ (pc[j] \in {"init", "notify", "list"} \cup Calling
                            => via[j] # None /\ http[on[j]] = via[j])'
                      /\ (pc[j] \in {"notify", "list"} \cup Calling => session[on[j]] = via[j])'
    BY DEF RequestsSound
  <2>1. CASE on[j] = None
    BY <2>1 DEF IInv, LockSound, Calling
  <2>2. CASE on[j] # None
    <3>1. on[j] \in Clients \ {on[k]}
      BY <1>1, <2>2 DEF IInv, Types
    <3> QED
      BY <3>1 DEF IInv, RequestsSound
  <2> QED
    BY <2>1, <2>2
<1>5. ToolsSound'
  BY DEF IInv, ToolsSound
<1> QED
  BY <1>2, <1>3, <1>4, <1>5 DEF IInv

\* k lets go of its client.
LEMMA LetGo ==
  ASSUME IInv, NEW k \in Coroutines, Types', on[k] # None,
         pc'[k] = "idle", on'[k] = None,
         \A j \in Coroutines \ {k} : pc'[j] = pc[j] /\ on'[j] = on[j] /\ via'[j] = via[j],
         \A c \in Clients \ {on[k]} :
            http'[c] = http[c] /\ session'[c] = session[c] /\ tools'[c] = tools[c],
         tools'[on[k]] => http'[on[k]] # None /\ session'[on[k]] = http'[on[k]],
         \/ lock = k /\ lock' = None
         \/ lock # k /\ lock' = lock /\ client' = client /\ tools' = tools
  PROVE  IInv'
<1>1. \A j \in Coroutines : j # k => on[j] # on[k]
  BY DEF IInv, Apart
<1>2. Apart'
  BY DEF IInv, Apart
<1>3. RequestsSound'
  <2> SUFFICES ASSUME NEW j \in Coroutines, j # k
               PROVE  /\ (pc[j] \in {"init", "notify", "list"} \cup Calling
                            => via[j] # None /\ http[on[j]] = via[j])'
                      /\ (pc[j] \in {"notify", "list"} \cup Calling => session[on[j]] = via[j])'
    BY DEF RequestsSound, Calling
  <2>1. CASE on[j] = None
    BY <2>1 DEF IInv, LockSound, Calling
  <2>2. CASE on[j] # None
    <3>1. on[j] \in Clients \ {on[k]}
      BY <1>1, <2>2 DEF IInv, Types
    <3> QED
      BY <3>1 DEF IInv, RequestsSound
  <2> QED
    BY <2>1, <2>2
<1>4. ToolsSound'
  <2>1. on[k] \in Clients
    BY DEF IInv, Types
  <2> QED
    BY <2>1 DEF IInv, ToolsSound
<1>5. LockSound'
  <2>1. \A j \in Coroutines :
          /\ pc'[j] \in {"idle", "lock"} <=> on'[j] = None
          /\ j # Loop /\ on'[j] # None => lock' = j
          /\ pc'[j] = "closing" => lock' = j
    BY DEF IInv, LockSound
  <2>2. ASSUME lock' # None
        PROVE  /\ pc'[lock'] \in {"init", "notify", "list", "closing"}
               /\ on'[lock'] = client' /\ ~tools'[client']
    <3>1. lock \in Coroutines \ {k} /\ lock' = lock /\ client' = client /\ tools' = tools
      BY <2>2 DEF IInv, Types
    <3> QED
      BY <2>2, <3>1 DEF IInv, LockSound
  <2> QED
    BY <2>1, <2>2 DEF LockSound
<1> QED
  BY <1>2, <1>3, <1>4, <1>5 DEF IInv

\* Making a client under the lock keeps the invariant.
LEMMA NewClientStep ==
  ASSUME IInv, NEW k \in Coroutines, NewClient(k)
  PROVE  IInv'
<1> DEFINE c == OneOf(Clients \ Referenced)
           s == OneOf(HttpClients \ HttpInUse)
<1>1. c \in Clients /\ c \notin Referenced /\ s \in HttpClients
  BY OneOfChooses DEF NewClient, OpenAndInitialize
<1>2. /\ pc[k] \in {"idle", "lock"} /\ lock = None
      /\ client' = c /\ lock' = k /\ connected' = connected
      /\ initialized' = [d \in Clients |-> IF d \in Busy THEN initialized[d] ELSE FALSE]
      /\ session' = [d \in Clients |-> IF d \in Busy THEN session[d] ELSE None]
      /\ tools' = [d \in Clients |-> IF d \in Busy THEN tools[d] ELSE FALSE]
      /\ http' = [[d \in Clients |-> IF d \in Busy THEN http[d] ELSE None] EXCEPT ![c] = s]
      /\ alive' \subseteq alive
      /\ pc' = [pc EXCEPT ![k] = "init"] /\ on' = [on EXCEPT ![k] = c]
      /\ via' = [via EXCEPT ![k] = s]
  BY DEF NewClient, OpenAndInitialize, Await, GoTo
<1> HIDE DEF c, s
<1>3. c \notin Busy /\ \A j \in Coroutines : on[j] \in Busy /\ on[j] # c
  BY <1>1 DEF Referenced, Busy
<1>4. Types'
  BY <1>1, <1>2 DEF IInv, Types, Places, Connecting
<1>5. /\ pc'[k] = "init" /\ on'[k] = c /\ via'[k] = s /\ http'[c] = s /\ ~tools'[c]
      /\ \A j \in Coroutines : j # k => pc'[j] = pc[j] /\ on'[j] = on[j] /\ via'[j] = via[j]
      /\ \A d \in Clients \cap Busy :
           http'[d] = http[d] /\ session'[d] = session[d] /\ tools'[d] = tools[d]
      /\ \A d \in Clients \ Busy : ~tools'[d]
  BY <1>1, <1>2, <1>3 DEF IInv, Types
<1>6. LockSound'
  BY <1>1, <1>2, <1>5, NoneIsNobody DEF IInv, LockSound
<1>7. Apart'
  BY <1>3, <1>5 DEF IInv, Apart
<1>8. RequestsSound'
  <2> SUFFICES ASSUME NEW j \in Coroutines
               PROVE  /\ (pc[j] \in {"init", "notify", "list"} \cup Calling
                            => via[j] # None /\ http[on[j]] = via[j])'
                      /\ (pc[j] \in {"notify", "list"} \cup Calling => session[on[j]] = via[j])'
    BY DEF RequestsSound
  <2>1. CASE j = k
    BY <1>1, <1>5, <2>1 DEF Calling
  <2>2. CASE j # k /\ on[j] = None
    BY <1>5, <2>2 DEF IInv, LockSound, Calling
  <2>3. CASE j # k /\ on[j] # None
    <3>1. on[j] \in Clients \cap Busy
      BY <1>3, <2>3 DEF IInv, Types
    <3> QED
      BY <1>5, <2>3, <3>1 DEF IInv, RequestsSound
  <2> QED
    BY <2>1, <2>2, <2>3
<1>9. ToolsSound'
  BY <1>5 DEF IInv, ToolsSound
<1> QED
  BY <1>4, <1>6, <1>7, <1>8, <1>9 DEF IInv

\* A step of a coroutine keeps the invariant.
LEMMA GoStep ==
  ASSUME IInv, NEW k \in Coroutines, Go(k)
  PROVE  IInv'
<1>0. pc[k] \notin {"idle", "lock"} /\ on[k] # None /\ on[k] \in Clients
  <2>1. pc[k] \notin {"idle", "lock"}
    BY DEF Go, InitAnswered, ListAnswered, Answered, Notified, Reconciled, SessionExpired,
           Reconnect, ExpiredAgain, ConnectFails, CallFails, Closed, Calling
  <2> QED
    BY <2>1 DEF IInv, LockSound, Types
<1> USE DEF executorVars, clientVars, GoTo, Await, Return
<1>a. /\ lock = k => on[k] = client /\ ~tools[on[k]]
                     /\ pc[k] \in {"init", "notify", "list", "closing"}
      /\ pc[k] = "closing" => lock = k
      /\ k # Loop => lock = k
  BY <1>0, NoneIsNobody DEF IInv, LockSound
<1>b. /\ pc[k] \in {"init", "notify", "list"} \cup Calling => via[k] # None /\ http[on[k]] = via[k]
      /\ pc[k] \in {"notify", "list"} \cup Calling => session[on[k]] = via[k]
  BY DEF IInv, RequestsSound
<1>c. tools[on[k]] => http[on[k]] # None /\ session[on[k]] = http[on[k]]
  BY <1>0 DEF IInv, ToolsSound
<1>d. Types
  BY DEF IInv
<1>1. CASE InitAnswered(k)
  <2>1. /\ pc[k] = "init" /\ session' = [session EXCEPT ![on[k]] = via[k]]
        /\ alive' = alive \cup {via[k]}
        /\ pc' = [pc EXCEPT ![k] = "notify"]
        /\ UNCHANGED <<client, connected, lock, http, initialized, tools, on, via>>
    BY <1>1 DEF InitAnswered
  <2>2. Types'
    BY <1>0, <1>b, <1>d, <2>1 DEF Types, Places, Connecting
  <2> QED
    BY <1>0, <1>a, <1>b, <1>c, <1>d, <2>1, <2>2, OwnClient DEF Types, Calling
<1>2. CASE Notified(k)
  <2>1. /\ pc[k] = "notify" /\ initialized' = [initialized EXCEPT ![on[k]] = TRUE]
        /\ pc' = [pc EXCEPT ![k] = "list"] /\ on' = [on EXCEPT ![k] = on[k]]
        /\ via' = [via EXCEPT ![k] = http[on[k]]]
        /\ UNCHANGED <<client, connected, lock, http, session, tools, alive>>
    BY <1>2 DEF Notified
  <2>2. Types' /\ on' = on
    BY <1>0, <1>d, <2>1 DEF Types, Places, Connecting
  <2> QED
    BY <1>0, <1>a, <1>b, <1>c, <1>d, <2>1, <2>2, OwnClient DEF Types, Calling
<1>3. CASE ListAnswered(k)
  <2>1. /\ pc[k] = "list" /\ tools' = [tools EXCEPT ![on[k]] = TRUE]
        /\ UNCHANGED <<client, http, initialized, session, alive>>
    BY <1>3 DEF ListAnswered
  <2>2. CASE lock = k /\ k # Loop
    <3>1. /\ connected' = TRUE /\ lock' = None /\ pc' = [pc EXCEPT ![k] = "idle"]
          /\ on' = [on EXCEPT ![k] = None] /\ via' = [via EXCEPT ![k] = None]
      BY <1>3, <2>2 DEF ListAnswered
    <3>2. Types'
      BY <1>0, <1>d, <2>1, <3>1 DEF Types, Places
    <3> QED
      BY <1>0, <1>b, <1>d, <2>1, <2>2, <3>1, <3>2, LetGo DEF Types
  <2>3. CASE ~(lock = k /\ k # Loop)
    <3>1. /\ pc' \in {[pc EXCEPT ![k] = place] : place \in Calling}
          /\ on' = [on EXCEPT ![k] = on[k]] /\ via' = [via EXCEPT ![k] = http[on[k]]]
          /\ connected' \in {TRUE, connected}
          /\ \/ lock' = lock /\ lock # k
             \/ lock = k /\ k = Loop /\ lock' = None
      BY <1>3, <2>3 DEF ListAnswered, Calling
    <3>2. Types' /\ on' = on
      BY <1>0, <1>d, <2>1, <3>1 DEF Types, Places, Calling
    <3>3. /\ pc'[k] \in Calling /\ via'[k] = http[on[k]]
          /\ \A j \in Coroutines \ {k} : pc'[j] = pc[j] /\ via'[j] = via[j]
          /\ \A c \in Clients \ {on[k]} : tools'[c] = tools[c]
      BY <1>d, <2>1, <3>1 DEF Types
    <3>5. /\ http[on[k]] = via[k] /\ session[on[k]] = via[k] /\ via[k] # None
      BY <1>b, <2>1 DEF Calling
    <3>4. lock' # k
      BY <3>1, NoneIsNobody
    <3> QED
      BY <1>0, <2>1, <3>1, <3>2, <3>3, <3>4, <3>5, OwnClient DEF Calling
  <2> QED
    BY <2>2, <2>3
<1>4. CASE Answered(k)
  <2>1. /\ pc[k] \in Calling /\ pc' = [pc EXCEPT ![k] = "read"]
        /\ on' = [on EXCEPT ![k] = on[k]] /\ via' = [via EXCEPT ![k] = None]
        /\ UNCHANGED <<client, connected, lock, http, initialized, session, tools, alive>>
    BY <1>4 DEF Answered
  <2>2. Types' /\ on' = on
    BY <1>0, <1>d, <2>1 DEF Types, Places
  <2> QED
    BY <1>0, <1>a, <1>c, <1>d, <2>1, <2>2, OwnClient DEF Types, Calling
<1>5. CASE SessionExpired(k)
  <2>1. /\ pc[k] = "call" /\ pc' = [pc EXCEPT ![k] = "aclose"]
        /\ UNCHANGED <<client, connected, lock, http, initialized, session, tools, alive, on, via>>
    BY <1>5 DEF SessionExpired
  <2>2. Types'
    BY <1>0, <1>d, <2>1 DEF Types, Places, Connecting
  <2> QED
    BY <1>0, <1>a, <1>c, <1>d, <2>1, <2>2, OwnClient DEF Types, Calling
<1>6. CASE Reconnect(k)
  <2> DEFINE s == OneOf(HttpClients \ HttpInUse)
  <2>1. s \in HttpClients
    BY <1>6, OneOfChooses DEF Reconnect, OpenAndInitialize
  <2>2. /\ pc[k] = "aclose" /\ initialized' = [initialized EXCEPT ![on[k]] = FALSE]
        /\ session' = [session EXCEPT ![on[k]] = None] /\ tools' = [tools EXCEPT ![on[k]] = FALSE]
        /\ http' = [http EXCEPT ![on[k]] = s]
        /\ alive' \subseteq alive
        /\ pc' = [pc EXCEPT ![k] = "init"] /\ on' = [on EXCEPT ![k] = on[k]]
        /\ via' = [via EXCEPT ![k] = s] /\ UNCHANGED <<client, connected, lock>>
    BY <1>6 DEF Reconnect, OpenAndInitialize
  <2> HIDE DEF s
  <2>3. Types' /\ on' = on
    BY <1>0, <1>d, <2>1, <2>2 DEF Types, Places, Connecting
  <2>4. s # None
    BY <2>1
  <2> QED
    BY <1>0, <1>a, <1>d, <2>2, <2>3, <2>4, OwnClient DEF Types, Calling
<1>7. CASE Reconciled(k) \/ CallFails(k) \/ ExpiredAgain(k) \/ (ConnectFails(k) /\ lock # k)
  <2>1. /\ pc[k] # "closing" /\ lock # k /\ pc' = [pc EXCEPT ![k] = "idle"]
        /\ on' = [on EXCEPT ![k] = None] /\ via' = [via EXCEPT ![k] = None]
        /\ connected' \in {connected, FALSE}
        /\ UNCHANGED <<client, lock, http, initialized, session, tools, alive>>
    BY <1>7, <1>a DEF Reconciled, CallFails, ExpiredAgain, ConnectFails, Reset,
                      Calling
  <2>2. Types'
    BY <1>0, <1>d, <2>1 DEF Types, Places
  <2> QED
    BY <1>0, <1>c, <1>d, <2>1, <2>2, LetGo DEF Types
<1>8. CASE ConnectFails(k) /\ lock = k
  <2>1. /\ pc' = [pc EXCEPT ![k] = "closing"]
       
        /\ UNCHANGED <<client, connected, lock, http, initialized, session, tools, alive, on, via>>
    BY <1>8 DEF ConnectFails
  <2>2. Types'
    BY <1>0, <1>d, <2>1 DEF Types, Places, Connecting
  <2> QED
    BY <1>0, <1>8, <1>a, <1>c, <1>d, <2>1, <2>2, OwnClient DEF Types, Calling
<1>9. CASE Closed(k)
  <2>1. /\ pc[k] = "closing" /\ client' = None /\ lock' = None
        /\ http' = [http EXCEPT ![on[k]] = None]
        /\ initialized' = [initialized EXCEPT ![on[k]] = FALSE]
        /\ session' = [session EXCEPT ![on[k]] = None]
        /\ pc' = [pc EXCEPT ![k] = "idle"] /\ on' = [on EXCEPT ![k] = None]
        /\ via' = [via EXCEPT ![k] = None] /\ UNCHANGED <<connected, tools, alive>>
    BY <1>9 DEF Closed
  <2>2. Types'
    BY <1>0, <1>d, <2>1 DEF Types, Places
  <2> QED
    BY <1>0, <1>a, <1>d, <2>1, <2>2, LetGo DEF Types
<1> QED
  BY <1>1, <1>2, <1>3, <1>4, <1>5, <1>6, <1>7, <1>8, <1>9 DEF Go

\* Every step keeps the invariant.
LEMMA InvariantStep ==
  ASSUME IInv, [Next]_vars
  PROVE  IInv'
<1>1. CASE UNCHANGED vars
  BY <1>1 DEF vars, executorVars, clientVars, IInv, Types, LockSound, Apart, RequestsSound,
              ToolsSound
<1>2. ASSUME NEW s \in HttpClients, Expire(s) PROVE IInv'
  <2>1. /\ alive' \subseteq alive
        /\ UNCHANGED <<executorVars, clientVars, pc, on, via>>
    BY <1>2 DEF Expire
  <2> QED
    BY <2>1 DEF executorVars, clientVars, IInv, Types, LockSound, Apart, RequestsSound,
                ToolsSound
<1>3. ASSUME NEW k \in Coroutines, WaitForLock(k) PROVE IInv'
  <2>1. /\ pc[k] = "idle" /\ pc' = [pc EXCEPT ![k] = "lock"] /\ lock # k
        /\ UNCHANGED <<client, connected, lock, http, initialized, session, tools, alive, on, via>>
    BY <1>3, NoneIsNobody DEF WaitForLock, GoTo, executorVars, clientVars, IInv, LockSound
  <2>2. Types'
    BY <2>1 DEF IInv, Types, Places
  <2>3. LockSound'
    BY <2>1 DEF IInv, Types, LockSound
  <2>4. Apart' /\ ToolsSound'
    BY <2>1 DEF IInv, Apart, ToolsSound
  <2>5. RequestsSound'
    BY <2>1 DEF IInv, Types, RequestsSound, Calling
  <2> QED
    BY <2>2, <2>3, <2>4, <2>5 DEF IInv
<1>4. ASSUME NEW k \in Coroutines, FastPath(k) \/ AlreadyConnected(k) PROVE IInv'
  BY <1>4, UseClientStep DEF FastPath, AlreadyConnected
<1> QED
  BY <1>1, <1>2, <1>3, <1>4, NewClientStep, GoStep DEF Next, Start, Acquire

\* THEOREM: lock, clients, sessions and requests under way agree in every
\* reachable state.
THEOREM Invariant == Spec => []IInv
BY InitOK, InvariantStep, PTL DEF Spec

\* For any number of handlers no client is used or changed by two coroutines at
\* a time, although reconnecting takes no lock.
THEOREM ClientsAreNotShared == Spec => []NoSharedClient
<1>1. IInv => NoSharedClient
  BY DEF IInv, LockSound, Apart, NoSharedClient, Connecting, Calling
<1> QED
  BY <1>1, Invariant, PTL

\* For any number of handlers no request carries the session of another HTTP client
\* than the one it goes out through: a reconnect leaves nothing of the old session.
THEOREM SessionsAreNotStale == Spec => []NoStaleSession
<1>1. IInv => NoStaleSession
  BY DEF IInv, RequestsSound, NoStaleSession
<1> QED
  BY <1>1, Invariant, PTL

\* The variables keep their types and the lock is held by a connecting coroutine.
THEOREM TypeCorrect == Spec => []TypeOK
<1>1. IInv => TypeOK
  BY DEF IInv, Types, LockSound, TypeOK, Connecting
<1> QED
  BY <1>1, Invariant, PTL

=============================================================================
