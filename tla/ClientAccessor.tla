--------------------------- MODULE ClientAccessor ---------------------------
(***************************************************************************)
(* A program that keeps a connection to a service: Inc/IPC/Bond/Transport.h*)
(* and Connect.h, Transport/ClientAccessor.cs with its base classes, and   *)
(* the loop of either client in Examples/Calc.                             *)
(*                                                                         *)
(* The connections are made, and made anew after one was lost, by the IPC  *)
(* library.  They are numbered from 1; event 2 * i - 1 is that connection  *)
(* i was made, and event 2 * i that it was lost.                           *)
(***************************************************************************)
EXTENDS Integers

CONSTANTS
    Caller,         \* threads that call ConnectClient or ConnectServer
    Program,        \* the one of them whose accessor this is about
    User,           \* threads that share the accessor
    Connections     \* a bound on the connections that are made

ASSUME Threads == Program \in Caller /\ Connections \in Nat

None == 0

VARIABLES
    managed,    \* whether the program is in C#
    role,       \* what each caller connects: a client or a server
    once,       \* m_clientConnectorOnceFlag, m_serverConnectorOnceFlag
    shared,     \* m_clientConnector, m_serverConnector
    made,       \* how many connectors have been made
    call,       \* where each caller is
    connector,  \* the connector that it has got
    ctor,       \* the construction of the accessor
    raised,     \* how many events there have been
    delivered,  \* how many of them have been handled
    wrapping,   \* OnConnected has made a Client for this connection
    cached,     \* _client: the connection that it is a wrapper of
    pc,         \* where each user is in its loop
    client,     \* its client, or the one that it has made and not stored yet
    overtaken   \* a Client was stored whose loss had been handled (history)

transport == <<managed, role, once, shared, made, call, connector>>
events    == <<raised, delivered, wrapping>>
users     == <<pc, client>>
vars      == <<transport, ctor, events, cached, users, overtaken>>

Role == {"client", "server"}

Init ==
    /\ managed \in BOOLEAN
    /\ role \in [Caller -> Role] /\ role[Program] = "client"
    /\ once = [r \in Role |-> "new"]
    /\ shared = [r \in Role |-> None]
    /\ made = 0
    /\ call = [t \in Caller |-> "begun"]
    /\ connector = [t \in Caller |-> None]
    /\ ctor = "none"
    /\ raised = 0 /\ delivered = 0 /\ wrapping = None
    /\ cached = None
    /\ pc = [u \in User |-> "ask"]
    /\ client = [u \in User |-> None]
    /\ overtaken = FALSE

-----------------------------------------------------------------------------
(* Transport: the connector that is made once, by std::call_once.          *)

\* Mutant: the pointer is tested instead of the flag.
CallUnlessMade(t) ==
    /\ ~managed /\ call[t] = "begun"
    /\ IF shared[role[t]] = None
       THEN call' = [call EXCEPT ![t] = "making"] /\ once' = once
       ELSE call' = [call EXCEPT ![t] = "made"] /\ once' = once

\* One caller makes the connector, and the others wait for it.
CallOnce(t) ==
    /\ ~managed /\ call[t] = "begun" /\ once[role[t]] # "running"
    /\ IF once[role[t]] = "new"
       THEN /\ call' = [call EXCEPT ![t] = "making"]
            /\ once' = [once EXCEPT ![role[t]] = "running"]
       ELSE call' = [call EXCEPT ![t] = "made"] /\ once' = once

EnterOnce(t) ==
    /\ CallOnce(t)
    /\ UNCHANGED <<managed, role, shared, made, connector, ctor, events, cached,
                   users, overtaken>>

MakeConnector(t) ==
    /\ call[t] = "making"
    /\ made' = made + 1
    /\ shared' = [shared EXCEPT ![role[t]] = made + 1]
    /\ once' = [once EXCEPT ![role[t]] = "done"]
    /\ call' = [call EXCEPT ![t] = "made"]
    /\ UNCHANGED <<managed, role, connector, ctor, events, cached, users, overtaken>>

\* The exception leaves ConnectClient, and the next caller tries again.
MakeConnectorThrows(t) ==
    /\ call[t] = "making"
    /\ once' = [once EXCEPT ![role[t]] = "new"]
    /\ call' = [call EXCEPT ![t] = "threw"]
    /\ UNCHANGED <<managed, role, shared, made, connector, ctor, events, cached,
                   users, overtaken>>

UseConnector(t) ==
    /\ call[t] = "made"
    /\ connector' = [connector EXCEPT ![t] = shared[role[t]]]
    /\ call' = [call EXCEPT ![t] = "returned"]
    /\ UNCHANGED <<managed, role, once, shared, made, events, cached, users, overtaken>>

\* What a program in C++ gets is the accessor of the library.
ConnectClient(t) ==
    /\ role[t] = "client" /\ UseConnector(t)
    /\ ctor' = IF t = Program THEN "ready" ELSE ctor

ConnectServer(t) == role[t] = "server" /\ UseConnector(t) /\ ctor' = ctor

\* Transport.ConnectClient of C#: Impl.ConnectClient, which is not of this
\* transport, and then the constructors below.
ManagedConnectClient ==
    /\ managed /\ ctor = "none"
    /\ ctor' = "made"
    /\ UNCHANGED <<transport, events, cached, users, overtaken>>

-----------------------------------------------------------------------------
(* IPC::detail::Connect, external.                                         *)

Exists == ctor # "none"

\* The component that the library's accessor has, if it has any.
Current == IF raised % 2 = 1 THEN (raised + 1) \div 2 ELSE None

MadeAs(i)  == 2 * i - 1
LostAs(i)  == 2 * i

Establish ==
    /\ Exists /\ Current = None /\ raised < 2 * Connections
    /\ raised' = raised + 1
    /\ UNCHANGED <<transport, ctor, delivered, wrapping, cached, users, overtaken>>

Lose ==
    /\ Current # None
    /\ raised' = raised + 1
    /\ UNCHANGED <<transport, ctor, delivered, wrapping, cached, users, overtaken>>

-----------------------------------------------------------------------------
(* AccessorBase and ClientAccessor: constructors and event handlers.       *)

\* What the handlers of an accessor are subscribed to, and when there is a
\* _serializerMaker: the constructor of the base comes first.
Construct ==
    /\ \/ ctor = "made" /\ ctor' = "hears of connections"
       \/ ctor = "hears of connections" /\ ctor' = "hears"
       \/ ctor = "hears" /\ ctor' = "ready"
    /\ UNCHANGED <<transport, events, cached, users, overtaken>>

\* Events come one by one and in order, on a thread of the library.
Delivers(e) == managed /\ Exists /\ e = delivered + 1 /\ e <= raised

\* Nobody listens; or _serializerMaker still is null.
Unheard(i) ==
    /\ \/ Delivers(MadeAs(i)) /\ ctor # "ready"
       \/ Delivers(LostAs(i)) /\ ctor \in {"made", "hears of connections"}
    /\ delivered' = delivered + 1
    /\ UNCHANGED <<transport, ctor, raised, wrapping, cached, users, overtaken>>

OnConnected(i) ==
    /\ Delivers(MadeAs(i)) /\ ctor = "ready" /\ wrapping = None
    /\ wrapping' = i
    /\ UNCHANGED <<transport, ctor, raised, delivered, cached, users, overtaken>>

\* Interlocked.Exchange of the Client that was made for connection i.
Exchange(i) ==
    /\ cached' = i
    /\ overtaken' = (overtaken \/ LostAs(i) <= delivered)

OnConnectedStores ==
    /\ wrapping # None
    /\ Exchange(wrapping)
    /\ wrapping' = None
    /\ delivered' = delivered + 1
    /\ UNCHANGED <<transport, ctor, raised, users>>

\* Mutant: the Client of a lost connection stays where it is.
DisconnectNothing == cached' = cached

DisconnectComponent == cached' = None

OnDisconnected(i) ==
    /\ Delivers(LostAs(i)) /\ ctor \in {"hears", "ready"}
    /\ DisconnectComponent
    /\ delivered' = delivered + 1
    /\ UNCHANGED <<transport, ctor, raised, wrapping, users, overtaken>>

-----------------------------------------------------------------------------
(* The loops, and the getter of ClientAccessor in one of them.             *)

GoTo(u, label) == pc' = [pc EXCEPT ![u] = label]

\* In C++ the accessor throws without a connection, and keeps no client.
CallAccessor(u) ==
    /\ ~managed /\ ctor = "ready" /\ pc[u] = "ask" /\ Current # None
    /\ client' = [client EXCEPT ![u] = Current]
    /\ GoTo(u, "invoke")
    /\ UNCHANGED <<transport, ctor, events, cached, overtaken>>

\* The left operand of the ?? operator.
Ask(u) ==
    /\ managed /\ ctor = "ready" /\ pc[u] = "ask"
    /\ IF cached = None THEN GoTo(u, "access") /\ UNCHANGED client
       ELSE GoTo(u, "invoke") /\ client' = [client EXCEPT ![u] = cached]
    /\ UNCHANGED <<transport, ctor, events, cached, overtaken>>

\* The right one: Impl.Client throws without a connection, out of the getter.
Access(u) ==
    /\ pc[u] = "access"
    /\ GoTo(u, IF Current = None THEN "ask" ELSE "store")
    /\ client' = [client EXCEPT ![u] = Current]
    /\ UNCHANGED <<transport, ctor, events, cached, overtaken>>

ConnectComponent(u) ==
    /\ pc[u] = "store"
    /\ Exchange(client[u])
    /\ GoTo(u, "invoke")
    /\ UNCHANGED <<transport, ctor, events, client>>

\* Mutant: the loop keeps its client.
InvokeOrRetry(u) ==
    /\ pc[u] = "invoke" /\ UNCHANGED users
    /\ UNCHANGED <<transport, ctor, events, cached, overtaken>>

\* A request is answered as long as there is the connection; if it fails,
\* the loop drops its client and begins anew.
Invoke(u) ==
    /\ pc[u] = "invoke"
    /\ IF client[u] = Current THEN UNCHANGED users
       ELSE GoTo(u, "ask") /\ client' = [client EXCEPT ![u] = None]
    /\ UNCHANGED <<transport, ctor, events, cached, overtaken>>

\* A loop in C# ends with Dispose, which closes the connection.
Leave(u) ==
    /\ pc[u] \in {"ask", "invoke"}
    /\ pc' = [pc EXCEPT ![u] = "left"]
    /\ raised' = IF managed /\ client[u] # None /\ client[u] = Current
                 THEN raised + 1 ELSE raised
    /\ UNCHANGED <<transport, ctor, delivered, wrapping, cached, client, overtaken>>

-----------------------------------------------------------------------------
Handle ==
    \/ \E i \in 1 .. Connections :
        Unheard(i) \/ OnConnected(i) \/ OnDisconnected(i)
    \/ OnConnectedStores

Loop(u) ==
    \/ CallAccessor(u)
    \/ Ask(u) \/ Access(u) \/ ConnectComponent(u)
    \/ Invoke(u)

Next ==
    \/ \E t \in Caller :
        \/ EnterOnce(t) \/ MakeConnector(t) \/ MakeConnectorThrows(t)
        \/ ConnectClient(t) \/ ConnectServer(t)
    \/ ManagedConnectClient
    \/ Establish
    \/ Lose
    \/ Construct
    \/ Handle
    \/ \E u \in User : Loop(u) \/ Leave(u)

\* Handlers and loops keep running; connections need not come back.
Fairness == WF_vars(Handle) /\ \A u \in User : WF_vars(Loop(u))

Spec == Init /\ [][Next]_vars /\ Fairness

-----------------------------------------------------------------------------
(* Properties.                                                             *)

TransportTypes ==
    /\ managed \in BOOLEAN
    /\ role \in [Caller -> Role]
    /\ once \in [Role -> {"new", "running", "done"}]
    /\ shared \in [Role -> Nat] /\ made \in Nat
    /\ call \in [Caller -> {"begun", "making", "made", "threw", "returned"}]
    /\ connector \in [Caller -> Nat]

EventTypes ==
    raised \in Nat /\ delivered \in Nat /\ wrapping \in Nat /\ cached \in Nat

UserTypes ==
    /\ ctor \in {"none", "made", "hears of connections", "hears", "ready"}
    /\ overtaken \in BOOLEAN
    /\ pc \in [User -> {"ask", "access", "store", "invoke", "left"}]
    /\ client \in [User -> Nat]

TypeOK == TransportTypes /\ EventTypes /\ UserTypes

\* Whoever connects through a transport at the same time, and whoever of them
\* fails to make the connector, those that succeed share one per role
\* (Transport.h:107 and 137), which is not the other role's.
OneConnector ==
    \A t, u \in Caller :
        call[t] = "returned" /\ call[u] = "returned" =>
            /\ connector[t] # None
            /\ role[t] = role[u] <=> connector[t] = connector[u]

\* When every event has been handled, the Client that is cached is that of
\* the connection there is (ClientAccessor.cs:19), except if one was stored
\* by a getter that a loss has overtaken.
CacheIsLive ==
    delivered = raised /\ ~overtaken => cached \in {None, Current}

\* A user of an accessor that has a connection for good comes to use that
\* connection, with the same exception.
Reconnects ==
    \A u \in User :
        <>[](ctor = "ready" /\ Current # None /\ pc[u] # "left" /\ ~overtaken)
            => <>[](client[u] = Current)

\* What the loop in Examples/Calc/CalcManaged/Client.cs:69-73 relies on: after
\* a request that failed, it asks the accessor again, and again, and gets to
\* the service once that is connected.
RetryReconnects ==
    \A u \in User :
        <>[](ctor = "ready" /\ Current # None /\ pc[u] # "left")
            => <>[](client[u] = Current)
=============================================================================
