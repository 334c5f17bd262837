------------------------ MODULE ClientAccessorProofs ------------------------
(***************************************************************************)
(* Proofs about ClientAccessor, for any number of callers, of users of the *)
(* accessor and of connections.                                            *)
(*                                                                         *)
(* The connectors: only the one caller that the flag of a role lets in     *)
(* makes a connector, and who comes after it finds it made.                *)
(*                                                                         *)
(* The cache: a wrapper that no loss has overtaken is of a connection      *)
(* whose loss has not been handled; all others were cleared or never       *)
(* stored.  When every event has been handled that leaves the current one. *)
(***************************************************************************)
EXTENDS ClientAccessor, TLAPS

\* std::call_once: the flag of a role and the callers of that role.
Once ==
    /\ \A t, u \in Caller :
           call[t] = "making" /\ call[u] = "making" /\ role[t] = role[u] => t = u
    /\ \A t \in Caller :
           /\ call[t] = "making" => once[role[t]] = "running"
           /\ call[t] \in {"made", "returned"} => once[role[t]] = "done"
           /\ call[t] = "returned" => connector[t] = shared[role[t]]

\* A connector is made for one role.
Made ==
    /\ \A r \in Role : once[r] = "done" <=> shared[r] # None
    /\ \A r \in Role : shared[r] <= made
    /\ \A r, s \in Role : shared[r] = shared[s] /\ shared[r] # None => r = s

\* Nothing is cached before the accessor is constructed.
Constructed ==
    /\ wrapping # None \/ cached # None => ctor = "ready"
    /\ \A u \in User : pc[u] \in {"access", "store"} => ctor = "ready"

\* Events are handled after they were raised.
Handled == delivered <= raised

\* A wrapper is of a connection that has been made.
IsMade(i) == i = None \/ MadeAs(i) <= raised
Wrapped ==
    /\ wrapping # None =>
           MadeAs(wrapping) = delivered + 1 /\ MadeAs(wrapping) <= raised
    /\ IsMade(cached)
    /\ \A u \in User : IsMade(client[u]) /\ (pc[u] = "store" => client[u] # None)

\* No loss has been handled of a wrapper that is cached.
NotLost == ~overtaken => cached = None \/ delivered < LostAs(cached)

IndInv == TypeOK /\ Once /\ Made /\ Constructed /\ Handled /\ Wrapped /\ NotLost

-----------------------------------------------------------------------------
LEMMA CurrentIsMade ==
    ASSUME raised \in Nat
    PROVE  Current \in Nat /\ IsMade(Current)
<1>1. CASE raised % 2 = 1
  <2>1. PICK k \in Nat : raised = 2 * k + 1
    BY <1>1
  <2>2. (raised + 1) \div 2 = k + 1
    BY <2>1
  <2>3. QED
    BY <1>1, <2>1, <2>2 DEF Current, IsMade, MadeAs
<1>2. CASE raised % 2 # 1
  BY <1>2 DEF Current, IsMade, None
<1>3. QED
  BY <1>1, <1>2

LEMMA InitEstablishes == Init => IndInv
<1>1. SUFFICES ASSUME Init PROVE IndInv
  OBVIOUS
<1>2. TypeOK
  BY <1>1 DEF Init, TypeOK, TransportTypes, EventTypes, UserTypes, Role, None
<1>3. Once /\ Made
  BY <1>1 DEF Init, Once, Made, Role, None
<1>4. Constructed /\ Handled /\ Wrapped /\ NotLost
  BY <1>1 DEF Init, Constructed, Handled, Wrapped, IsMade, NotLost, None
<1>5. QED
  BY <1>2, <1>3, <1>4 DEF IndInv

\* A caller in the middle of call_once is alone in its role.
LEMMA MakesAlone ==
    ASSUME IndInv, NEW t \in Caller, call[t] = "making"
    PROVE  /\ once[role[t]] = "running" /\ role[t] \in Role
           /\ \A u \in Caller \ {t} : role[u] = role[t] =>
                  call[u] \notin {"making", "made", "returned"}
  BY DEF IndInv, Once, TypeOK, TransportTypes

\* The transport's own part of the invariant, step by step.
LEMMA ConnectorsKeep ==
    ASSUME IndInv, NEW t \in Caller,
           \/ EnterOnce(t) \/ MakeConnector(t) \/ MakeConnectorThrows(t)
           \/ UseConnector(t)
    PROVE  TransportTypes' /\ Once' /\ Made'
<1> USE DEF IndInv, TypeOK
<1>1. role[t] \in Role
  BY DEF TransportTypes
<1>2. CASE EnterOnce(t)
  <2>1. TransportTypes'
    BY <1>1, <1>2 DEF EnterOnce, CallOnce, TransportTypes
  <2>2. UNCHANGED <<shared, made, role, connector>>
    BY <1>2 DEF EnterOnce
  <2>3. CASE once[role[t]] = "new"
    <3>1. /\ call' = [call EXCEPT ![t] = "making"]
          /\ once' = [once EXCEPT ![role[t]] = "running"]
      BY <1>2, <2>3 DEF EnterOnce, CallOnce
    <3>2. Once'
      BY <1>1, <2>2, <2>3, <3>1 DEF Once, TransportTypes
    <3>3. Made'
      BY <1>1, <2>2, <2>3, <3>1 DEF Made, TransportTypes
    <3>4. QED
      BY <2>1, <3>2, <3>3
  <2>4. CASE once[role[t]] # "new"
    <3>1. /\ call' = [call EXCEPT ![t] = "made"] /\ once' = once
          /\ once[role[t]] = "done"
      BY <1>1, <1>2, <2>4 DEF EnterOnce, CallOnce, TransportTypes
    <3>2. Once' /\ Made'
      BY <1>1, <2>2, <3>1 DEF Once, Made, TransportTypes
    <3>3. QED
      BY <2>1, <3>2
  <2>5. QED
    BY <2>3, <2>4
<1>3. CASE MakeConnector(t)
  <2>1. /\ shared' = [shared EXCEPT ![role[t]] = made + 1]
        /\ once' = [once EXCEPT ![role[t]] = "done"]
        /\ call' = [call EXCEPT ![t] = "made"]
        /\ made' = made + 1
        /\ UNCHANGED <<managed, role, connector>>
        /\ call[t] = "making"
    BY <1>3 DEF MakeConnector
  <2>2. TransportTypes'
    BY <1>1, <2>1 DEF TransportTypes
  <2>3. Once'
    BY <1>1, <2>1, MakesAlone DEF Once, TransportTypes
  <2>4. /\ made \in Nat /\ made + 1 # None
        /\ \A r \in Role : shared[r] \in Nat /\ shared[r] <= made
    BY DEF TransportTypes, Made, None
  <2>5. \A r \in Role : shared'[r] = IF r = role[t] THEN made + 1 ELSE shared[r]
    BY <1>1, <2>1 DEF TransportTypes
  <2>6. \A r \in Role : once'[r] = "done" <=> shared'[r] # None
    BY <1>1, <2>1, <2>4, <2>5 DEF TransportTypes, Made
  <2>7. \A r \in Role : shared'[r] <= made'
    BY <2>1, <2>4, <2>5
  <2>8. \A r, s \in Role :
           shared'[r] = shared'[s] /\ shared'[r] # None => r = s
    <3>1. \A r \in Role : shared[r] # made + 1
      BY <2>4
    <3>2. QED
      BY <2>5, <3>1 DEF Made
  <2>9. QED
    BY <2>2, <2>3, <2>6, <2>7, <2>8 DEF Made
<1>4. CASE MakeConnectorThrows(t)
  <2>1. /\ once' = [once EXCEPT ![role[t]] = "new"]
        /\ call' = [call EXCEPT ![t] = "threw"]
        /\ UNCHANGED <<managed, role, shared, made, connector>>
        /\ call[t] = "making"
    BY <1>4 DEF MakeConnectorThrows
  <2>2. TransportTypes'
    BY <1>1, <2>1 DEF TransportTypes
  <2>3. Once'
    BY <1>1, <2>1, MakesAlone DEF Once, TransportTypes
  <2>4. Made'
    BY <1>1, <2>1, MakesAlone DEF Made, TransportTypes
  <2>5. QED
    BY <2>2, <2>3, <2>4
<1>5. CASE UseConnector(t)
  <2>1. /\ connector' = [connector EXCEPT ![t] = shared[role[t]]]
        /\ call' = [call EXCEPT ![t] = "returned"]
        /\ UNCHANGED <<managed, role, once, shared, made>>
        /\ call[t] = "made"
    BY <1>5 DEF UseConnector
  <2>2. TransportTypes'
    BY <1>1, <2>1 DEF TransportTypes
  <2>3. Once' /\ Made'
    BY <1>1, <2>1 DEF Once, Made, TransportTypes
  <2>4. QED
    BY <2>2, <2>3
<1>6. QED
  BY <1>2, <1>3, <1>4, <1>5

LEMMA TransportKeeps ==
    ASSUME IndInv, NEW t \in Caller,
           \/ EnterOnce(t) \/ MakeConnector(t) \/ MakeConnectorThrows(t)
           \/ ConnectClient(t) \/ ConnectServer(t)
    PROVE  IndInv'
<1>1. /\ UNCHANGED <<events, cached, users, overtaken>>
      /\ ctor' = ctor \/ ctor' = "ready"
  BY DEF EnterOnce, MakeConnector, MakeConnectorThrows, ConnectClient,
     ConnectServer, UseConnector
<1>2. EventTypes' /\ UserTypes'
  BY <1>1 DEF IndInv, TypeOK, EventTypes, UserTypes, events, users
<1>3. Constructed' /\ Handled' /\ Wrapped' /\ NotLost'
  BY <1>1 DEF IndInv, Constructed, Handled, Wrapped, NotLost, IsMade, MadeAs,
     LostAs, events, users
<1>4. QED
  BY <1>2, <1>3, ConnectorsKeep DEF IndInv, TypeOK, ConnectClient, ConnectServer

\* Everything else leaves the transport alone.
LEMMA OthersKeepTransport ==
    ASSUME IndInv, UNCHANGED transport
    PROVE  TransportTypes' /\ Once' /\ Made'
  BY DEF IndInv, TypeOK, TransportTypes, Once, Made, transport

\* The library and the constructors.
LEMMA ConnectionKeeps ==
    ASSUME IndInv, ManagedConnectClient \/ Construct \/ Establish \/ Lose
    PROVE  IndInv'
<1>1. UNCHANGED <<transport, delivered, wrapping, cached, users, overtaken>>
  BY DEF ManagedConnectClient, Construct, Establish, Lose, events
<1>2. EventTypes /\ UserTypes
  BY DEF IndInv, TypeOK
<1>3. raised' = raised \/ raised' = raised + 1
  BY DEF ManagedConnectClient, Construct, Establish, Lose, events
<1>4. raised' \in Nat /\ raised <= raised'
  BY <1>2, <1>3 DEF EventTypes
<1>5. /\ ctor' \in {"none", "made", "hears of connections", "hears", "ready"}
      /\ ctor = "ready" => ctor' = "ready"
  BY <1>2 DEF ManagedConnectClient, Construct, Establish, Lose, UserTypes
<1>6. EventTypes' /\ UserTypes'
  BY <1>1, <1>2, <1>4, <1>5 DEF EventTypes, UserTypes, users
<1>7. Constructed' /\ NotLost'
  BY <1>1, <1>5 DEF IndInv, Constructed, NotLost, LostAs, users
<1>8. Handled'
  BY <1>1, <1>2, <1>4 DEF IndInv, Handled, EventTypes
<1>9. Wrapped'
  <2>1. \A i \in Nat : IsMade(i) => IsMade(i)'
    BY <1>2, <1>4 DEF IsMade, MadeAs, EventTypes
  <2>2. \A i \in Nat : MadeAs(i) <= raised => MadeAs(i) <= raised'
    BY <1>2, <1>4 DEF MadeAs, EventTypes
  <2>3. cached \in Nat /\ wrapping \in Nat /\ \A u \in User : client[u] \in Nat
    BY <1>2 DEF EventTypes, UserTypes
  <2>4. QED
    BY <1>1, <2>1, <2>2, <2>3 DEF IndInv, Wrapped, IsMade, MadeAs, users
<1>10. QED
  BY <1>1, <1>6, <1>7, <1>8, <1>9, OthersKeepTransport DEF IndInv, TypeOK

\* What the handlers do to the events and to the cache.
LEMMA HandlerKeepsEvents ==
    ASSUME IndInv, UNCHANGED raised,
           \/ \E i \in 1 .. Connections :
                  Unheard(i) \/ OnConnected(i) \/ OnDisconnected(i)
           \/ OnConnectedStores
    PROVE  /\ EventTypes' /\ overtaken' \in BOOLEAN
           /\ wrapping' # None \/ cached' # None => ctor = "ready"
           /\ Handled' /\ NotLost' /\ IsMade(cached')
           /\ wrapping' # None =>
                  MadeAs(wrapping') = delivered' + 1 /\ MadeAs(wrapping') <= raised
<1>1. EventTypes /\ overtaken \in BOOLEAN
  BY DEF IndInv, TypeOK, UserTypes
<1>2. /\ wrapping # None \/ cached # None => ctor = "ready"
      /\ wrapping # None =>
             MadeAs(wrapping) = delivered + 1 /\ MadeAs(wrapping) <= raised
      /\ IsMade(cached) /\ NotLost /\ delivered <= raised
  BY DEF IndInv, Constructed, Wrapped, Handled
<1> USE DEF EventTypes, NotLost, Handled, IsMade, MadeAs, LostAs, None
<1>3. ASSUME NEW i \in 1 .. Connections, Unheard(i)
      PROVE  /\ ctor # "ready"
             /\ delivered' = delivered + 1 /\ delivered' <= raised
             /\ wrapping' = wrapping /\ cached' = cached
             /\ overtaken' = overtaken
  BY <1>3 DEF Unheard, Delivers
<1>4. ASSUME NEW i \in 1 .. Connections, OnConnected(i)
      PROVE  /\ wrapping' = i /\ ctor = "ready" /\ i \in Nat
             /\ 2 * i - 1 = delivered + 1 /\ 2 * i - 1 <= raised
             /\ delivered' = delivered /\ cached' = cached
             /\ overtaken' = overtaken
  BY <1>4 DEF OnConnected, Delivers
<1>5. ASSUME NEW i \in 1 .. Connections, OnDisconnected(i)
      PROVE  /\ delivered' = delivered + 1 /\ 2 * i = delivered + 1 /\ i \in Nat
             /\ delivered' <= raised /\ cached' = 0
             /\ wrapping' = wrapping /\ overtaken' = overtaken
  BY <1>5 DEF OnDisconnected, DisconnectComponent, Delivers
<1>6. ASSUME OnConnectedStores
      PROVE  /\ wrapping # 0 /\ cached' = wrapping /\ wrapping' = 0
             /\ delivered' = delivered + 1
             /\ overtaken' = (overtaken \/ 2 * wrapping <= delivered)
  BY <1>6 DEF OnConnectedStores, Exchange
<1>7. CASE \E i \in 1 .. Connections : Unheard(i)
  BY <1>1, <1>2, <1>3, <1>7
<1>8. CASE \E i \in 1 .. Connections : OnConnected(i)
  BY <1>1, <1>2, <1>4, <1>8
<1>9. CASE \E i \in 1 .. Connections : OnDisconnected(i)
  BY <1>1, <1>2, <1>5, <1>9
<1>10. CASE OnConnectedStores
  BY <1>1, <1>2, <1>6, <1>10
<1>11. QED
  BY <1>7, <1>8, <1>9, <1>10

LEMMA HandlerKeeps ==
    ASSUME IndInv, Handle
    PROVE  IndInv'
<1>1. UNCHANGED <<transport, ctor, raised, users>>
  BY DEF Handle, Unheard, OnConnected, OnConnectedStores, OnDisconnected
<1>2. /\ EventTypes' /\ overtaken' \in BOOLEAN
      /\ wrapping' # None \/ cached' # None => ctor = "ready"
      /\ Handled' /\ NotLost' /\ IsMade(cached')
      /\ wrapping' # None =>
             MadeAs(wrapping') = delivered' + 1 /\ MadeAs(wrapping') <= raised
  BY <1>1, HandlerKeepsEvents DEF Handle
<1>3. UserTypes'
  BY <1>1, <1>2 DEF IndInv, TypeOK, UserTypes, users
<1>4. Constructed'
  BY <1>1, <1>2 DEF IndInv, Constructed, users
<1>5. Wrapped'
  BY <1>1, <1>2 DEF IndInv, Wrapped, IsMade, MadeAs, users
<1>6. QED
  BY <1>1, <1>2, <1>3, <1>4, <1>5, OthersKeepTransport DEF IndInv, TypeOK

\* The loops of the users.
LEMMA UserKeeps ==
    ASSUME IndInv, NEW u \in User, Loop(u) \/ Leave(u)
    PROVE  IndInv'
<1>1. UNCHANGED <<transport, ctor, delivered, wrapping>>
  BY DEF Loop, CallAccessor, Ask, Access, ConnectComponent, Invoke, Leave, events
<1>2. EventTypes /\ UserTypes
  BY DEF IndInv, TypeOK
<1>3. Current \in Nat /\ IsMade(Current)
  BY <1>2, CurrentIsMade DEF EventTypes
<1>4. CASE \/ CallAccessor(u) \/ Ask(u) \/ Access(u) \/ Invoke(u)
  <2>1. UNCHANGED <<raised, cached, overtaken>>
    BY <1>4 DEF CallAccessor, Ask, Access, Invoke, events
  <2>2. PICK n \in {client[u], Current, cached, None},
             l \in {"ask", "access", "store", "invoke", "left"} :
          /\ client' = [client EXCEPT ![u] = n] /\ pc' = [pc EXCEPT ![u] = l]
          /\ l = "access" => ctor = "ready"
          /\ l = "store" => ctor = "ready" /\ n # None
    <3>1. CASE CallAccessor(u)
      BY <3>1 DEF CallAccessor, GoTo
    <3>2. CASE Ask(u)
      BY <1>2, <3>2 DEF Ask, GoTo, UserTypes
    <3>3. CASE Access(u)
      BY <3>3 DEF IndInv, Access, GoTo, Constructed
    <3>4. CASE Invoke(u)
      BY <1>2, <3>4 DEF Invoke, GoTo, UserTypes, users
    <3>5. QED
      BY <1>4, <3>1, <3>2, <3>3, <3>4
  <2>3. n \in Nat /\ IsMade(n)
    <3>1. client[u] \in Nat /\ IsMade(client[u])
      BY <1>2 DEF IndInv, UserTypes, Wrapped
    <3>2. cached \in Nat /\ IsMade(cached)
      BY <1>2 DEF IndInv, EventTypes, Wrapped
    <3>3. None \in Nat /\ IsMade(None)
      BY DEF None, IsMade
    <3>4. QED
      BY <1>3, <2>2, <3>1, <3>2, <3>3
  <2>4. EventTypes' /\ UserTypes'
    BY <1>1, <1>2, <2>1, <2>2, <2>3 DEF EventTypes, UserTypes
  <2>5. Constructed' /\ Handled' /\ NotLost'
    BY <1>1, <1>2, <2>1, <2>2 DEF IndInv, UserTypes, Constructed, Handled,
       NotLost, LostAs
  <2>6. Wrapped'
    BY <1>1, <1>2, <2>1, <2>2, <2>3 DEF IndInv, UserTypes, Wrapped, IsMade, MadeAs
  <2>7. QED
    BY <1>1, <2>4, <2>5, <2>6, OthersKeepTransport DEF IndInv, TypeOK
<1>5. CASE ConnectComponent(u)
  <2>1. /\ pc[u] = "store" /\ cached' = client[u]
        /\ overtaken' = (overtaken \/ LostAs(client[u]) <= delivered)
        /\ pc' = [pc EXCEPT ![u] = "invoke"]
        /\ UNCHANGED <<raised, client>>
    BY <1>5 DEF ConnectComponent, Exchange, GoTo, events
  <2>2. ctor = "ready" /\ client[u] \in Nat /\ IsMade(client[u])
    BY <1>2, <2>1 DEF IndInv, Constructed, Wrapped, UserTypes
  <2>3. EventTypes' /\ UserTypes'
    BY <1>1, <1>2, <2>1, <2>2 DEF EventTypes, UserTypes
  <2>4. Constructed' /\ Handled' /\ Wrapped'
    BY <1>1, <1>2, <2>1, <2>2 DEF IndInv, UserTypes, Constructed, Handled,
       Wrapped, IsMade, MadeAs
  <2>5. NotLost'
    <3>1. LostAs(client[u]) \in Nat /\ delivered \in Nat
      BY <1>2, <2>2 DEF LostAs, EventTypes
    <3>2. ~(LostAs(client[u]) <= delivered) => delivered < LostAs(client[u])
      BY <3>1
    <3>3. QED
      BY <1>1, <2>1, <3>2 DEF NotLost, LostAs
  <2>6. QED
    BY <1>1, <2>3, <2>4, <2>5, OthersKeepTransport DEF IndInv, TypeOK
<1>6. CASE Leave(u)
  <2>1. /\ raised' = raised \/ raised' = raised + 1
        /\ pc' = [pc EXCEPT ![u] = "left"]
        /\ UNCHANGED <<cached, client, overtaken>>
    BY <1>6 DEF Leave
  <2>2. raised' \in Nat /\ raised <= raised'
    BY <1>2, <2>1 DEF EventTypes
  <2>3. EventTypes' /\ UserTypes'
    BY <1>1, <1>2, <2>1, <2>2 DEF EventTypes, UserTypes
  <2>4. Constructed' /\ NotLost'
    BY <1>1, <1>2, <2>1 DEF IndInv, UserTypes, Constructed, NotLost, LostAs
  <2>5. Handled'
    BY <1>1, <1>2, <2>2 DEF IndInv, EventTypes, Handled
  <2>6. \A i \in Nat : MadeAs(i) <= raised => MadeAs(i) <= raised'
    BY <1>2, <2>2 DEF MadeAs, EventTypes
  <2>7. cached \in Nat /\ wrapping \in Nat /\ \A v \in User : client[v] \in Nat
    BY <1>2 DEF EventTypes, UserTypes
  <2>8. Wrapped'
    BY <1>1, <1>2, <2>1, <2>6, <2>7 DEF IndInv, UserTypes, Wrapped, IsMade, MadeAs
  <2>9. QED
    BY <1>1, <2>3, <2>4, <2>5, <2>8, OthersKeepTransport DEF IndInv, TypeOK
<1>7. QED
  BY <1>4, <1>5, <1>6 DEF Loop

LEMMA NextKeeps == IndInv /\ [Next]_vars => IndInv'
<1>1. SUFFICES ASSUME IndInv, [Next]_vars
               PROVE  IndInv'
  OBVIOUS
<1>2. CASE UNCHANGED vars
  <2>1. UNCHANGED <<transport, ctor, events, cached, users, overtaken>>
    BY <1>2 DEF vars
  <2>2. EventTypes' /\ UserTypes'
    BY <1>1, <2>1 DEF IndInv, TypeOK, EventTypes, UserTypes, events, users
  <2>3. Constructed' /\ Handled' /\ Wrapped' /\ NotLost'
    BY <1>1, <2>1 DEF IndInv, Constructed, Handled, Wrapped, NotLost, IsMade,
       MadeAs, LostAs, events, users
  <2>4. QED
    BY <1>1, <2>1, <2>2, <2>3, OthersKeepTransport DEF IndInv, TypeOK
<1>3. QED
  BY <1>1, <1>2, TransportKeeps, ConnectionKeeps, HandlerKeeps, UserKeeps DEF Next

-----------------------------------------------------------------------------
(* Theorems.                                                               *)

\* Every reachable state satisfies the invariant.
THEOREM Invariance == Spec => []IndInv
  BY InitEstablishes, NextKeeps, PTL DEF Spec

\* The state of the program has its types.
THEOREM TypeCorrect == Spec => []TypeOK
<1>1. IndInv => TypeOK
  BY DEF IndInv
<1>2. QED
  BY <1>1, Invariance, PTL

\* Any number of threads that connect at the same time share one connector
\* per role (Transport.h:105-111, 135-141).
THEOREM AlwaysOneConnector == Spec => []OneConnector
<1>1. ASSUME IndInv PROVE OneConnector
  <2>1. SUFFICES ASSUME NEW t \in Caller, NEW u \in Caller,
                        call[t] = "returned", call[u] = "returned"
                 PROVE  /\ connector[t] # None
                        /\ role[t] = role[u] <=> connector[t] = connector[u]
    BY DEF OneConnector
  <2>2. /\ role[t] \in Role /\ role[u] \in Role
        /\ connector[t] = shared[role[t]] /\ connector[u] = shared[role[u]]
        /\ once[role[t]] = "done"
    BY <1>1, <2>1 DEF IndInv, TypeOK, TransportTypes, Once
  <2>3. QED
    BY <1>1, <2>2 DEF IndInv, Made
<1>2. QED
  BY <1>1, Invariance, PTL

\* However late events are handled and getters store, once all is handled
\* the cache has no other Client than the current one, unless a getter was
\* overtaken by a loss (ClientAccessor.cs:29-54).
THEOREM CacheAlwaysLive == Spec => []CacheIsLive
<1>1. ASSUME IndInv PROVE CacheIsLive
  <2>1. SUFFICES ASSUME delivered = raised, ~overtaken, cached # None
                 PROVE  cached = Current
    BY DEF CacheIsLive
  <2>2. /\ raised \in Nat /\ cached \in Nat
        /\ raised < 2 * cached /\ 2 * cached - 1 <= raised
    BY <1>1, <2>1 DEF IndInv, TypeOK, EventTypes, NotLost, Wrapped, IsMade,
       MadeAs, LostAs
  <2>3. raised = 2 * cached - 1
    BY <2>2
  <2>4. raised % 2 = 1 /\ (raised + 1) \div 2 = cached
    BY <2>2, <2>3
  <2>5. QED
    BY <2>4 DEF Current
<1>2. QED
  BY <1>1, Invariance, PTL
=============================================================================
