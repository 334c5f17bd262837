----------------------- MODULE RequestResponseProofs -----------------------
(***************************************************************************)
(* Proofs about RequestResponse, for any number of calls, any protocols    *)
(* and any number of answers.                                              *)
(*                                                                         *)
(* What a payload is read as depends on the settings of both ends only,    *)
(* which do not change (DecodesTo).  That buffers stay mapped needs that a *)
(* call is encoded by a component that exists; that blobs do, that their   *)
(* holders are taken apart in the right order (HoldersInOrder).            *)
(* That a call completes as CallTable promises needs an order of the       *)
(* places that a call passes: caller, requests, handler, replies, caller.  *)
(***************************************************************************)
EXTENDS RequestResponse, TLAPS

\* What the caller knows of its call is where its call is.
CallerKnows ==
    \A c \in Call :
        /\ caller[c] = "encoded" => stage["client"] = "built"
        /\ result[c] = "none" <=> caller[c] = "idle"
        /\ result[c] = "pending" <=>
               caller[c] \in {"encoded", "waiting", "running"}

\* What was sent: neither is a call begun again, nor does it fail to be sent.
Sent(c) == caller[c] \notin {"idle", "encoded"} /\ result[c] # "threw"

\* A call comes to the caller's end again only through the places before.
CallInOrder ==
    \A c \in Call :
        /\ c \in requests => Sent(c) /\ handler[c] = "none"
        /\ handler[c] # "none" => Sent(c)
        /\ handler[c] \in {"handling", "answering"} => arg[c] # "none"
        /\ handler[c] = "answering" => answers[c] < MaxAnswers[c]
        /\ replies[c] # {} \/ caller[c] = "running" =>
               handler[c] # "none" /\ arg[c] # "none"

\* What was configured has been passed on, and an end exists, or has done
\* anything, only if there is a serializer for its settings.
AsConfigured == \A e \in End : settings[e] = asked[e]

Created ==
    /\ \A e \in End : stage[e] \in {"receiving", "built", "stripped"} =>
           Create(settings[e])
    /\ \A c \in Call : /\ caller[c] # "idle" => Create(settings["client"])
                       /\ handler[c] # "none" => Create(settings["server"])

\* Of no holder is the memory gone and the blob still there.
HoldersInOrder ==
    \A e \in End : \A c \in Call :
        "blob" \in holder[e][c] => "memory" \in holder[e][c]

Calls  == TypeOK /\ CallerKnows /\ CallInOrder /\ AgreedIsRead /\ HoldersInOrder
IndInv == Calls /\ AsConfigured /\ Created

-----------------------------------------------------------------------------
(* Payloads.                                                               *)

\* A payload is read as what it was written of, or not at all; and read if
\* the ends agree.
LEMMA DecodesTo ==
    ASSUME settings \in [End -> Settings], AsConfigured,
           NEW e \in End, NEW f \in End, Create(settings[e]), NEW of,
           NEW o \in Decode(MakeSerializer(e), Encode(MakeSerializer(f), of))
    PROVE  /\ o \in {of} \cup Misread
           /\ Agree => o = of
<1>1. /\ settings[e] \in Settings /\ settings[f] \in Settings
      /\ e \in {"client", "server"} /\ f \in {"client", "server"}
  BY DEF End
<1> DEFINE b == Encode(MakeSerializer(f), of)
<1>2. /\ b.marshal = settings[f].marshal
      /\ b.protocol = settings[f].protocol
      /\ b.version = 1
      /\ b.of = of
  BY <1>1 DEF Encode, Marshal, Serialize, MakeSerializer, Settings, Version,
     DefaultVersion, ProtocolFactory
<1>3. o \in IF settings[e].marshal
            THEN (IF /\ b.marshal
                     /\ settings[e].managed => b.protocol \in ManagedProtocol
                  THEN {b.of} ELSE Misread)
            ELSE (IF ~b.marshal /\ b.protocol = settings[e].protocol
                  THEN {b.of} ELSE Misread)
  <2>1. /\ MakeSerializer(e).marshal = settings[e].marshal
        /\ MakeSerializer(e).managed = settings[e].managed
        /\ MakeSerializer(e).protocol = settings[e].protocol
        /\ Version(MakeSerializer(e)) = 1
    BY DEF MakeSerializer, Version, DefaultVersion, ProtocolFactory
  <2>2. o \in Decode(MakeSerializer(e), b)
    OBVIOUS
  <2> HIDE DEF b
  <2>3. QED
    BY <1>2, <2>1, <2>2 DEF Decode, ManagedDecode, MarshalerDeserialize,
       SerializerDeserialize, Unmarshal, Deserialize
<1>4. ASSUME Agree
      PROVE  /\ settings[e].marshal = settings[f].marshal
             /\ settings[e].marshal \/ settings[e].protocol = settings[f].protocol
             /\ settings[e].managed => settings[f].protocol \in ManagedProtocol
  <2>1. settings[e] = asked[e] /\ settings[f] = asked[f]
    BY DEF AsConfigured
  <2>2. CASE \A g, h \in End :
               /\ asked[g].marshal
               /\ asked[g].managed => asked[h].protocol \in ManagedProtocol
    BY <1>1, <2>1, <2>2 DEF Settings
  <2>3. CASE /\ asked["client"].protocol = asked["server"].protocol
             /\ asked["client"].marshal = asked["server"].marshal
    <3>1. settings[e].managed => settings[e].protocol \in ManagedProtocol
      BY DEF Create
    <3>2. QED
      BY <1>1, <2>1, <2>3, <3>1
  <2>4. QED
    BY <1>4, <2>2, <2>3 DEF Agree
<1>5. o \in {of} \cup Misread
  BY <1>2, <1>3
<1>6. ASSUME Agree PROVE o = of
  <2>1. CASE settings[e].marshal
    BY <1>2, <1>3, <1>4, <1>6, <2>1
  <2>2. CASE ~settings[e].marshal
    BY <1>2, <1>3, <1>4, <1>6, <2>2
  <2>3. QED
    BY <2>1, <2>2
<1>7. QED
  BY <1>5, <1>6

\* What a handler is called with, and what a caller gets.
LEMMA Arguments ==
    ASSUME IndInv, NEW c \in Call, handler[c] = "received",
           NEW o \in Decode(MakeSerializer("server"), Request(c))
    PROVE  o \in Outcome /\ (Agree => o \notin Misread)
<1>1. Create(settings["server"])
  BY DEF IndInv, Created
<1>2. settings \in [End -> Settings] /\ AsConfigured
  BY DEF IndInv, Calls, TypeOK
<1>3. o \in {"value"} \cup Misread /\ (Agree => o = "value")
  BY <1>1, <1>2, DecodesTo DEF Request, End
<1>4. QED
  BY <1>3 DEF Outcome, Misread

LEMMA Results ==
    ASSUME IndInv, NEW c \in Call, caller[c] = "running",
           NEW o \in Decode(MakeSerializer("client"), Reply(c))
    PROVE  o \in Outcome /\ (Agree => o \notin Misread)
<1>1. o \in {arg[c]} \cup Misread /\ (Agree => o = arg[c])
  <2>1. Create(settings["client"])
    BY DEF IndInv, Created
  <2>2. settings \in [End -> Settings] /\ AsConfigured
    BY DEF IndInv, Calls, TypeOK
  <2>3. QED
    BY <2>1, <2>2, DecodesTo DEF Reply, End
<1>2. arg[c] \in Outcome /\ (Agree => arg[c] \notin Misread)
  BY DEF IndInv, Calls, TypeOK, CallInOrder, AgreedIsRead
<1>3. QED
  BY <1>1, <1>2 DEF Outcome, Misread

-----------------------------------------------------------------------------
(* The invariant.                                                          *)

LEMMA InitEstablishes == Init => IndInv
<1>1. SUFFICES ASSUME Init PROVE IndInv
  OBVIOUS
<1>2. AsConfigured /\ settings \in [End -> Settings]
  <2>1. PICK a \in End \cup {"neither"} : settings = PassedOn(a)
    BY <1>1 DEF Init
  <2>2. ASSUME NEW e \in End
        PROVE  settings[e] = asked[e]
    <3>1. asked[e] \in Settings
      BY <1>1 DEF Init
    <3>2. CASE asked[e].managed
      BY <2>1, <3>1, <3>2 DEF PassedOn, ManagedMakes, Settings
    <3>3. CASE ~asked[e].managed
      <4>1. settings[e] = Given(asked[e].protocol, asked[e].marshal)
        BY <2>1, <3>3 DEF PassedOn, Makes, Accepts, Connects, AcceptServers,
           AcceptClients, ConnectClient, ConnectServer
      <4>2. QED
        BY <3>1, <3>3, <4>1 DEF Given, Settings
    <3>4. QED
      BY <3>2, <3>3
  <2>3. settings = [e \in End |-> settings[e]] /\ asked \in [End -> Settings]
    BY <1>1, <2>1 DEF Init, PassedOn
  <2>4. QED
    BY <2>2, <2>3 DEF AsConfigured
<1>3. QED
  BY <1>1, <1>2, Bounds DEF Init, IndInv, Calls, TypeOK, CallerKnows,
     CallInOrder, Sent, Created, AgreedIsRead, HoldersInOrder, Misread,
     Outcome, End

\* Steps of the components.
LEMMA ComponentKeeps ==
    ASSUME IndInv, NEW e \in End,
           Make(e) \/ MakeFails(e) \/ ComponentBase(e) \/ Strip(e) \/ Destroy(e)
    PROVE  Calls'
<1> USE DEF IndInv, Calls, made, here, there, wire
<1>1. /\ stage' \in [End -> {"none", "receiving", "built", "stripped", "gone"}]
      /\ open' \in BOOLEAN
  BY DEF Make, MakeFails, ComponentBase, Strip, Destroy, TypeOK
<1>2. /\ settings' = settings /\ asked' = asked /\ how' = how
      /\ handler' = handler /\ arg' = arg
      /\ answers' = answers /\ requests' = requests /\ replies' = replies
      /\ holder' = holder
  BY DEF Make, MakeFails, ComponentBase, Strip, Destroy
<1>3. CASE Make(e) \/ MakeFails(e) \/ ComponentBase(e) \/ Strip(e)
  <2>1. caller' = caller /\ result' = result
    BY <1>3 DEF Make, MakeFails, ComponentBase, Strip
  <2>2. TypeOK'
    BY <1>1, <1>2, <2>1 DEF TypeOK
  <2>3. CallerKnows'
    BY <1>3, <2>1 DEF CallerKnows, Make, MakeFails, ComponentBase, Strip,
       TypeOK, End
  <2>4. CallInOrder' /\ AgreedIsRead'
    BY <1>2, <2>1 DEF CallInOrder, Sent, AgreedIsRead, Agree
  <2>5. HoldersInOrder'
    BY <1>2 DEF HoldersInOrder
  <2>6. QED
    BY <2>2, <2>3, <2>4, <2>5
<1>4. CASE Destroy(e)
  <2>1. \A c \in Call :
           \/ caller'[c] = caller[c] /\ result'[c] = result[c]
           \/ /\ caller[c] = "waiting" /\ caller'[c] = "over"
              /\ result'[c] \in {"unanswered", "dropped"}
    BY <1>4 DEF Destroy, TypeOK, Unanswered
  <2>2. TypeOK'
    <3>1. /\ caller' \in [Call -> {"idle", "encoded", "waiting", "running", "over"}]
          /\ result' \in [Call -> Outcome \cup {"none", "pending", "threw",
                                                "unanswered", "dropped"}]
      BY <1>4 DEF Destroy, TypeOK, Unanswered
    <3>2. QED
      BY <1>1, <1>2, <3>1 DEF TypeOK
  <2>3. CallerKnows'
    BY <1>4, <2>1 DEF CallerKnows, Destroy, TypeOK, End
  <2>4. CallInOrder'
    BY <1>2, <2>1 DEF CallInOrder, Sent
  <2>5. AgreedIsRead'
    BY <1>2, <2>1 DEF AgreedIsRead, Agree, Misread
  <2>6. HoldersInOrder'
    BY <1>2 DEF HoldersInOrder
  <2>7. QED
    BY <2>2, <2>3, <2>4, <2>5, <2>6
<1>5. QED
  BY <1>3, <1>4

\* Steps of the library.
LEMMA LibraryKeeps ==
    ASSUME IndInv, NEW c \in Call,
           \/ CloseConnection
           \/ Send(c) \/ SendThrows(c) \/ Drop(c) \/ ReceiveRequest(c)
           \/ \E n \in 1 .. MaxAnswers[c] : ReceiveReply(c, n)
           \/ SendReply(c) \/ ReplyThrows(c)
    PROVE  Calls'
<1> USE DEF IndInv, Calls, made, here, there, wire
<1>1. CASE CloseConnection
  BY <1>1 DEF CloseConnection, TypeOK, CallerKnows, CallInOrder, Sent,
     AgreedIsRead, Agree, HoldersInOrder
<1>2. CASE Send(c)
  BY <1>2 DEF Send, TypeOK, CallerKnows, CallInOrder, Sent,
     AgreedIsRead, Agree, HoldersInOrder
<1>3. CASE SendThrows(c)
  BY <1>3 DEF SendThrows, TypeOK, CallerKnows, CallInOrder, Sent,
     AgreedIsRead, Agree, HoldersInOrder, Misread
<1>4. CASE Drop(c)
  BY <1>4 DEF Drop, Unanswered, TypeOK, CallerKnows, CallInOrder, Sent,
     AgreedIsRead, Agree, HoldersInOrder, Misread
<1>5. CASE ReceiveRequest(c)
  BY <1>5 DEF ReceiveRequest, TypeOK, CallerKnows, CallInOrder, Sent,
     AgreedIsRead, Agree, HoldersInOrder
<1>6. ASSUME NEW n \in 1 .. MaxAnswers[c], ReceiveReply(c, n)
      PROVE  Calls'
  BY <1>6 DEF ReceiveReply, TypeOK, CallerKnows, CallInOrder, Sent,
     AgreedIsRead, Agree, HoldersInOrder
<1>7. CASE SendReply(c)
  <2>1. TypeOK'
    <3>1. answers[c] \in Nat /\ MaxAnswers[c] \in Nat /\ answers[c] < MaxAnswers[c]
      BY <1>7, Bounds DEF SendReply, TypeOK, CallInOrder
    <3>2. /\ answers' \in [Call -> Nat]
          /\ \A d \in Call : answers'[d] <= MaxAnswers[d]
      BY <1>7, <3>1 DEF SendReply, TypeOK
    <3>3. replies' \in [Call -> SUBSET Nat]
      BY <1>7, <3>1 DEF SendReply, TypeOK
    <3>4. QED
      BY <1>7, <3>2, <3>3 DEF SendReply, TypeOK
  <2>2. CallerKnows' /\ AgreedIsRead' /\ HoldersInOrder'
    BY <1>7 DEF SendReply, TypeOK, CallerKnows, AgreedIsRead, Agree, Misread,
       HoldersInOrder
  <2>3. CallInOrder'
    BY <1>7, Bounds DEF SendReply, TypeOK, CallInOrder, Sent
  <2>4. QED
    BY <2>1, <2>2, <2>3
<1>8. CASE ReplyThrows(c)
  <2>1. TypeOK'
    <3>1. answers[c] \in Nat /\ MaxAnswers[c] \in Nat /\ answers[c] < MaxAnswers[c]
      BY <1>8, Bounds DEF ReplyThrows, TypeOK, CallInOrder
    <3>2. /\ answers' \in [Call -> Nat]
          /\ \A d \in Call : answers'[d] <= MaxAnswers[d]
      BY <1>8, <3>1 DEF ReplyThrows, TypeOK
    <3>3. replies' \in [Call -> SUBSET Nat]
      BY <1>8, <3>1 DEF ReplyThrows, TypeOK
    <3>4. QED
      BY <1>8, <3>2, <3>3 DEF ReplyThrows, TypeOK
  <2>2. CallerKnows' /\ AgreedIsRead' /\ HoldersInOrder'
    BY <1>8 DEF ReplyThrows, TypeOK, CallerKnows, AgreedIsRead, Agree, Misread,
       HoldersInOrder
  <2>3. CallInOrder'
    BY <1>8, Bounds DEF ReplyThrows, TypeOK, CallInOrder, Sent
  <2>4. QED
    BY <2>1, <2>2, <2>3
<1>9. QED
  BY <1>1, <1>2, <1>3, <1>4, <1>5, <1>6, <1>7, <1>8

LEMMA KeepsHolders ==
    ASSUME TypeOK, HoldersInOrder, NEW e \in End, NEW c \in Call, NEW o,
           \/ Keep(e, c, o)
           \/ ClearBlob(e, c) \/ ReleaseMemory(e, c)
    PROVE  /\ holder' \in [End -> [Call -> SUBSET BlobHolder]]
           /\ HoldersInOrder'
<1>1. holder \in [End -> [Call -> SUBSET BlobHolder]]
  BY DEF TypeOK
<1>2. PICK k \in SUBSET BlobHolder :
         /\ holder' = [holder EXCEPT ![e] = [holder[e] EXCEPT ![c] = k]]
         /\ "blob" \in k => "memory" \in k
  <2>1. /\ holder[e][c] \in SUBSET BlobHolder
        /\ "blob" \in holder[e][c] => "memory" \in holder[e][c]
    BY <1>1 DEF HoldersInOrder
  <2>2. CASE Keep(e, c, o)
    <3>1. \/ holder' = [holder EXCEPT ![e] = [holder[e] EXCEPT ![c] = BlobHolder]]
          \/ holder' = [holder EXCEPT ![e] =
                           [holder[e] EXCEPT ![c] = holder[e][c]]]
      BY <2>2 DEF Keep
    <3>2. QED
      BY <2>1, <3>1 DEF BlobHolder
  <2>3. CASE ClearBlob(e, c)
    <3>1. holder' = [holder EXCEPT ![e] =
                       [holder[e] EXCEPT ![c] = holder[e][c] \ {"blob"}]]
      BY <2>3 DEF ClearBlob
    <3>2. QED
      BY <2>1, <3>1
  <2>4. CASE ReleaseMemory(e, c)
    <3>1. holder' = [holder EXCEPT ![e] = [holder[e] EXCEPT ![c] = {}]]
      BY <2>4 DEF ReleaseMemory
    <3>2. {} \in SUBSET BlobHolder /\ "blob" \notin {}
      OBVIOUS
    <3>3. QED
      BY <3>1, <3>2, Zenon
  <2>5. QED
    BY <2>2, <2>3, <2>4
<1>3. [holder[e] EXCEPT ![c] = k] \in [Call -> SUBSET BlobHolder]
  BY <1>1, <1>2
<1>4. HoldersInOrder'
  BY <1>1, <1>2 DEF HoldersInOrder
<1>5. QED
  BY <1>1, <1>2, <1>3, <1>4

\* Steps of caller, handler and the users of values.
LEMMA UserKeeps ==
    ASSUME IndInv, NEW c \in Call,
           \/ Begin(c) \/ Resolve(c) \/ InvokeAsync(c)
           \/ Dispatch(c) \/ DispatchManaged(c)
           \/ Answer(c) \/ AnswerManaged(c) \/ LeaveHandler(c)
           \/ \E e \in End : ClearBlob(e, c) \/ ReleaseMemory(e, c)
    PROVE  Calls'
<1> USE DEF IndInv, Calls, made, here, there, wire
<1>1. CASE Begin(c)
  <2>1. TypeOK'
    BY <1>1 DEF Begin, TypeOK
  <2>2. CallerKnows' /\ AgreedIsRead' /\ HoldersInOrder'
    BY <1>1 DEF Begin, TypeOK, CallerKnows, AgreedIsRead, Agree, Misread,
       HoldersInOrder
  <2>3. CallInOrder'
    BY <1>1 DEF Begin, TypeOK, CallInOrder, Sent
  <2>4. QED
    BY <2>1, <2>2, <2>3
<1>2. CASE Resolve(c)
  <2>1. PICK o \in Decode(MakeSerializer("client"), Reply(c)) :
           result' = [result EXCEPT ![c] = o] /\ Keep("client", c, o)
    BY <1>2 DEF Resolve
  <2>2. o \in Outcome /\ (Agree => o \notin Misread)
    BY <1>2, <2>1, Results DEF Resolve
  <2>3. holder' \in [End -> [Call -> SUBSET BlobHolder]] /\ HoldersInOrder'
    BY <2>1, KeepsHolders DEF End
  <2>4. TypeOK'
    BY <1>2, <2>1, <2>2, <2>3 DEF Resolve, TypeOK
  <2>5. CallerKnows' /\ CallInOrder'
    BY <1>2, <2>1, <2>2 DEF Resolve, TypeOK, CallerKnows, CallInOrder, Sent,
       Outcome
  <2>6. AgreedIsRead'
    BY <1>2, <2>1, <2>2 DEF Resolve, TypeOK, AgreedIsRead, Agree
  <2>7. QED
    BY <2>3, <2>4, <2>5, <2>6
<1>3. CASE Dispatch(c) \/ DispatchManaged(c)
  <2>1. PICK o \in Decode(MakeSerializer("server"), Request(c)) :
           arg' = [arg EXCEPT ![c] = o]
    BY <1>3 DEF Dispatch, DispatchManaged
  <2>2. o \in Outcome /\ (Agree => o \notin Misread)
    <3>1. handler[c] = "received"
      BY <1>3 DEF Dispatch, DispatchManaged
    <3>2. QED
      BY <2>1, <3>1, Arguments
  <2>3. holder' \in [End -> [Call -> SUBSET BlobHolder]] /\ HoldersInOrder'
    <3>1. holder' = holder \/ \E x \in Outcome : Keep("server", c, x)
      BY <1>3, Arguments DEF Dispatch, DispatchManaged
    <3>2. QED
      BY <3>1, KeepsHolders DEF End, TypeOK, HoldersInOrder
  <2>4. /\ handler[c] = "received"
        /\ \/ handler' = [handler EXCEPT ![c] = "handling"]
           \/ handler' = [handler EXCEPT ![c] = "over"]
        /\ UNCHANGED <<made, stage, open, here, answers, wire>>
    BY <1>3 DEF Dispatch, DispatchManaged
  <2>5. TypeOK'
    BY <2>1, <2>2, <2>3, <2>4 DEF TypeOK
  <2>6. CallerKnows' /\ CallInOrder'
    BY <2>1, <2>2, <2>4 DEF TypeOK, CallerKnows, CallInOrder, Sent, Outcome
  <2>7. AgreedIsRead'
    BY <2>1, <2>2, <2>4 DEF TypeOK, AgreedIsRead, Agree
  <2>8. QED
    BY <2>3, <2>5, <2>6, <2>7
<1>4. CASE Answer(c) \/ AnswerManaged(c)
  BY <1>4, Bounds DEF Answer, AnswerManaged, TypeOK, CallerKnows, CallInOrder,
     Sent, AgreedIsRead, Agree, HoldersInOrder
<1>5. CASE LeaveHandler(c)
  BY <1>5 DEF LeaveHandler, TypeOK, CallerKnows, CallInOrder, Sent,
     AgreedIsRead, Agree, HoldersInOrder
<1>6. ASSUME NEW e \in End, ClearBlob(e, c) \/ ReleaseMemory(e, c)
      PROVE  Calls'
  <2>1. TypeOK' /\ HoldersInOrder'
    BY <1>6, KeepsHolders DEF ClearBlob, ReleaseMemory, TypeOK
  <2>2. CallerKnows' /\ CallInOrder' /\ AgreedIsRead'
    BY <1>6 DEF ClearBlob, ReleaseMemory, CallerKnows, CallInOrder, Sent,
       AgreedIsRead, Agree
  <2>3. QED
    BY <2>1, <2>2
<1>7. QED
  BY <1>1, <1>2, <1>3, <1>4, <1>5, <1>6 DEF InvokeAsync

\* Steps of the ends' beginnings; no other step makes an end or begins a call.
LEMMA CreatedKeeps ==
    ASSUME IndInv, [Next]_vars
    PROVE  AsConfigured' /\ Created'
<1>1. asked' = asked /\ settings' = settings
  BY DEF Next, vars, made, Make, MakeFails, ComponentBase, Strip, Destroy,
     CloseConnection, Begin, Resolve, InvokeAsync, Send, SendThrows, Drop,
     ReceiveRequest, Dispatch, DispatchManaged, Answer, AnswerManaged,
     SendReply, ReplyThrows, LeaveHandler, ReceiveReply, ClearBlob,
     ReleaseMemory
<1>2. \A e \in End : \/ stage'[e] = stage[e]
                     \/ stage'[e] = "gone"
                     \/ Create(settings[e])
  <2>1. stage' = stage \/ \E e \in End : Make(e) \/ MakeFails(e)
                            \/ ComponentBase(e) \/ Strip(e) \/ Destroy(e)
    BY DEF Next, vars, CloseConnection, Begin, Resolve, InvokeAsync, Send,
       SendThrows, Drop, ReceiveRequest, Dispatch, DispatchManaged, Answer,
       AnswerManaged, SendReply, ReplyThrows, LeaveHandler, ReceiveReply,
       ClearBlob, ReleaseMemory
  <2>2. QED
    BY <2>1 DEF IndInv, Calls, TypeOK, Created, Make, MakeFails,
       ComponentBase, Strip, Destroy
<1>3. ASSUME NEW c \in Call
      PROVE  /\ caller'[c] # "idle" => Create(settings["client"])
             /\ handler'[c] # "none" => Create(settings["server"])
  <2> USE DEF made, here, there, wire
  <2>1. /\ caller[c] # "idle" \/ stage["client"] = "built" =>
               Create(settings["client"])
        /\ handler[c] # "none" \/ Receives("server") =>
               Create(settings["server"])
    BY DEF IndInv, Created, End, Receives
  <2>2. /\ caller \in [Call -> {"idle", "encoded", "waiting", "running", "over"}]
        /\ handler \in [Call -> {"none", "received", "handling", "answering",
                                 "over"}]
    BY DEF IndInv, Calls, TypeOK
  <2>3. CASE UNCHANGED vars \/ CloseConnection
    BY <2>1, <2>3 DEF vars, CloseConnection
  <2>4. ASSUME NEW e \in End, \/ Make(e) \/ MakeFails(e) \/ ComponentBase(e)
                              \/ Strip(e) \/ Destroy(e)
        PROVE  (caller[c] = "idle" => caller'[c] = "idle") /\ handler' = handler
    BY <2>2, <2>4 DEF Make, MakeFails, ComponentBase, Strip, Destroy
  <2>5. ASSUME NEW d \in Call,
               \/ Send(d) \/ SendThrows(d) \/ Drop(d) \/ ReceiveRequest(d)
               \/ \E n \in 1 .. MaxAnswers[d] : ReceiveReply(d, n)
               \/ SendReply(d) \/ ReplyThrows(d)
        PROVE  /\ caller[c] = "idle" => caller'[c] = "idle"
               /\ \/ handler[c] # "none" \/ Receives("server")
                  \/ handler'[c] = "none"
    BY <2>2, <2>5 DEF Send, SendThrows, Drop, ReceiveRequest, ReceiveReply,
       SendReply, ReplyThrows
  <2>6. ASSUME NEW d \in Call,
               \/ Begin(d) \/ Resolve(d) \/ InvokeAsync(d)
               \/ Dispatch(d) \/ DispatchManaged(d)
               \/ Answer(d) \/ AnswerManaged(d) \/ LeaveHandler(d)
               \/ \E e \in End : ClearBlob(e, d) \/ ReleaseMemory(e, d)
        PROVE  /\ caller[c] # "idle" \/ stage["client"] = "built"
                      \/ caller'[c] = "idle"
               /\ handler[c] = "none" => handler'[c] = "none"
    BY <2>2, <2>6 DEF Begin, Resolve, InvokeAsync, Dispatch, DispatchManaged,
       Answer, AnswerManaged, LeaveHandler, ClearBlob, ReleaseMemory
  <2>7. QED
    BY <2>1, <2>3, <2>4, <2>5, <2>6 DEF Next
<1>4. QED
  BY <1>1, <1>2, <1>3 DEF IndInv, AsConfigured, Created, Create

LEMMA NextKeeps == IndInv /\ [Next]_vars => IndInv'
<1>1. SUFFICES ASSUME IndInv, [Next]_vars
               PROVE  IndInv'
  OBVIOUS
<1>2. CASE UNCHANGED vars
  BY <1>1, <1>2, CreatedKeeps DEF vars, made, here, there, wire, IndInv, Calls,
     TypeOK, CallerKnows, CallInOrder, Sent, AgreedIsRead, Agree,
     HoldersInOrder
<1>3. CASE CloseConnection
  BY <1>1, <1>3, CreatedKeeps DEF CloseConnection, made, here, there, wire,
     IndInv, Calls, TypeOK, CallerKnows, CallInOrder, Sent, AgreedIsRead, Agree,
     HoldersInOrder
<1>4. QED
  BY <1>1, <1>2, <1>3, CreatedKeeps, ComponentKeeps, LibraryKeeps, UserKeeps
     DEF Next, IndInv

-----------------------------------------------------------------------------
(* Theorems.                                                               *)

\* Every reachable state satisfies the invariant.
THEOREM Invariance == Spec => []IndInv
  BY InitEstablishes, NextKeeps, PTL DEF Spec

\* The state of a connection has its types.
THEOREM TypeCorrect == Spec => []TypeOK
<1>1. IndInv => TypeOK
  BY DEF IndInv, Calls
<1>2. QED
  BY <1>1, Invariance, PTL

\* Ends that agree never fail to read a request or a response
\* (Serializer.h:103-117).
THEOREM AgreedAlwaysRead == Spec => []AgreedIsRead
<1>1. IndInv => AgreedIsRead
  BY DEF IndInv, Calls
<1>2. QED
  BY <1>1, Invariance, PTL

\* Callbacks keep the memory of their buffers mapped, whatever has become of
\* the component (Client.h:35, Server.h:26-29).
THEOREM BuffersAlwaysMapped == Spec => []BuffersStayMapped
<1>1. ASSUME IndInv PROVE BuffersStayMapped
  <2>1. SUFFICES ASSUME NEW e \in End, NEW b \in Buffers(e)
                 PROVE  b.memory \in Mapped(e)
    BY DEF BuffersStayMapped
  <2>2. \A s, of : Encode(s, of).memory = s.outputPool
    BY DEF Encode, Marshal, Serialize
  <2>3. CASE e = "client"
    <3>1. CASE \E c \in Call : caller[c] = "encoded" /\ b = Request(c)
      <4>1. stage[e] = "built"
        BY <1>1, <2>3, <3>1 DEF IndInv, Calls, CallerKnows
      <4>2. b.memory = "requests"
        BY <2>2, <3>1 DEF Request, MakeSerializer, MakeBufferPoolHolder,
           OutputMemory
      <4>3. QED
        BY <4>1, <4>2 DEF Mapped, Memory
    <3>2. CASE \E c \in Call : caller[c] = "running" /\ b = Reply(c)
      <4>1. b.memory = "responses"
        BY <2>2, <3>2 DEF Reply, MakeSerializer, MakeBufferPoolHolder,
           OutputMemory
      <4>2. "responses" \in ReferredTo(MakeSerializer(e))
        BY <2>3 DEF ReferredTo, MakeSerializer, MakeBufferPoolHolder,
           InputMemory, OutputMemory
      <4>3. Captured(e) # {}
        BY <2>3, <3>2 DEF Captured
      <4>4. QED
        BY <4>1, <4>2, <4>3 DEF Mapped
    <3>3. QED
      BY <2>1, <2>3, <3>1, <3>2 DEF Buffers
  <2>4. CASE e = "server"
    <3>1. PICK c \in Call : \/ handler[c] = "received" /\ b = Request(c)
                            \/ handler[c] = "answering" /\ b = Reply(c)
      BY <2>1, <2>4 DEF Buffers
    <3>2. b.memory \in ReferredTo(MakeSerializer(e))
      BY <2>2, <2>4, <3>1 DEF Request, Reply, ReferredTo, MakeSerializer,
         MakeBufferPoolHolder, InputMemory, OutputMemory
    <3>3. Captured(e) # {}
      BY <2>4, <3>1 DEF Captured
    <3>4. QED
      BY <3>2, <3>3 DEF Mapped
  <2>5. QED
    BY <2>3, <2>4 DEF End
<1>2. QED
  BY <1>1, Invariance, PTL

\* A bond::blob never outlives the mapping of its bytes: the memory is let go
\* of last, when there is no component and no callback to keep it either
\* (BlobHolder.h:24-37).
THEOREM BlobsAlwaysMapped == Spec => []BlobsStayMapped
<1>1. ASSUME IndInv PROVE BlobsStayMapped
  <2>1. SUFFICES ASSUME NEW e \in End, NEW b \in BlobsOf(e)
                 PROVE  b.memory \in Mapped(e)
    BY DEF BlobsStayMapped
  <2>2. PICK c \in Call : /\ "blob" \in holder[e][c]
                          /\ b = IF e = "client" THEN Reply(c) ELSE Request(c)
    BY <2>1 DEF BlobsOf
  <2>3. b.memory = BlobCast(e)
    BY <2>2 DEF BlobCast, Request, Reply, Encode, Marshal, Serialize,
       MakeSerializer, MakeBufferPoolHolder, InputMemory, OutputMemory, End
  <2>4. "memory" \in holder[e][c]
    BY <1>1, <2>2 DEF IndInv, Calls, HoldersInOrder
  <2>5. QED
    BY <2>3, <2>4 DEF Mapped
<1>2. QED
  BY <1>1, Invariance, PTL

-----------------------------------------------------------------------------
(* The connection implements the table of calls.                           *)

LEMMA InitRefines == Init => Table!Init
  BY DEF Init, Table!Init, Status

\* Most steps are none of the table.
LEMMA Stutters ==
    ASSUME result' = result,
           \A c \in Call : handler[c] # "none" <=> handler'[c] # "none"
    PROVE  UNCHANGED Table!vars
  BY DEF Table!vars

\* A step that a call takes alone.
LEMMA TableSteps ==
    ASSUME IndInv, NEW c \in Call, NEW r,
           result' = [result EXCEPT ![c] = r], handler' = handler
    PROVE  /\ [d \in Call |-> Status(result[d])]' =
                  [[d \in Call |-> Status(result[d])] EXCEPT ![c] = Status(r)]
           /\ {d \in Call : handler[d] # "none"}' =
                  {d \in Call : handler[d] # "none"}
<1>1. result \in [Call -> Outcome \cup {"none", "pending", "threw",
                                      "unanswered", "dropped"}]
  BY DEF IndInv, Calls, TypeOK
<1>2. QED
  BY <1>1

LEMMA BeginRefines ==
    ASSUME IndInv, NEW c \in Call, Begin(c)
    PROVE  Table!Next
<1>1. handler' = handler /\ caller[c] = "idle"
  BY DEF Begin, there
<1>2. result[c] = "none" /\ handler[c] = "none"
  BY <1>1 DEF IndInv, Calls, CallerKnows, CallInOrder, Sent
<1>3. CASE result' = [result EXCEPT ![c] = "pending"]
  BY <1>1, <1>2, <1>3, TableSteps DEF Table!Next, Table!Begin, Status
<1>4. CASE result' = [result EXCEPT ![c] = "threw"]
  BY <1>1, <1>2, <1>4, TableSteps DEF Table!Next, Table!Refuse, Status
<1>5. QED
  BY <1>3, <1>4 DEF Begin

LEMMA ResolveRefines ==
    ASSUME IndInv, NEW c \in Call, Resolve(c)
    PROVE  Table!Next
<1>1. PICK o \in Decode(MakeSerializer("client"), Reply(c)) :
         result' = [result EXCEPT ![c] = o]
  BY DEF Resolve
<1>2. o \in Outcome
  BY <1>1, Results DEF Resolve
<1>3. handler' = handler /\ caller[c] = "running"
  BY DEF Resolve, there
<1>4. result[c] = "pending" /\ handler[c] # "none"
  BY <1>3 DEF IndInv, Calls, CallerKnows, CallInOrder
<1>5. Status(o) \in {"value", "error"}
  BY <1>2 DEF Outcome, Status
<1>6. Table!Answer(c)
  BY <1>1, <1>3, <1>4, <1>5, TableSteps DEF Table!Answer, Status
<1>7. QED
  BY <1>6 DEF Table!Next

LEMMA SendThrowsRefines ==
    ASSUME IndInv, NEW c \in Call, SendThrows(c)
    PROVE  Table!Next
<1>1. /\ handler' = handler /\ caller[c] = "encoded"
      /\ result' = [result EXCEPT ![c] = "threw"]
  BY DEF SendThrows, there
<1>2. result[c] = "pending" /\ handler[c] = "none"
  BY <1>1 DEF IndInv, Calls, CallerKnows, CallInOrder, Sent
<1>3. Table!Refuse(c)
  BY <1>1, <1>2, TableSteps DEF Table!Refuse, Status
<1>4. QED
  BY <1>3 DEF Table!Next

LEMMA ReceiveRequestRefines ==
    ASSUME IndInv, NEW c \in Call, ReceiveRequest(c)
    PROVE  Table!Next
<1>1. /\ result' = result /\ c \in requests
      /\ handler' = [handler EXCEPT ![c] = "received"]
  BY DEF ReceiveRequest, here
<1>2. Sent(c) /\ handler[c] = "none" /\ result[c] # "none"
  BY <1>1 DEF IndInv, Calls, CallerKnows, CallInOrder, Sent
<1>3. {d \in Call : handler[d] # "none"}' =
          {d \in Call : handler[d] # "none"} \cup {c}
  BY <1>1 DEF IndInv, Calls, TypeOK
<1>4. Table!Serve(c)
  BY <1>1, <1>2, <1>3 DEF Table!Serve, Status, Sent
<1>5. QED
  BY <1>4 DEF Table!Next

\* Calls that end together, with the connection, or one that times out.
LEMMA AbandonRefines ==
    ASSUME IndInv, NEW C \in SUBSET Call,
           \A c \in C : caller[c] = "waiting",
           result' = [c \in Call |->
                         IF c \in C THEN Unanswered(c) ELSE result[c]],
           handler' = handler
    PROVE  Table!Next
<1>1. \A c \in C : result[c] = "pending"
  BY DEF IndInv, Calls, CallerKnows
<1>2. [c \in Call |-> Status(result[c])]' =
          [c \in Call |-> IF c \in C THEN "unanswered"
                         ELSE [d \in Call |-> Status(result[d])][c]]
  <2>1. \A c \in Call : Status(Unanswered(c)) = "unanswered"
    BY DEF Status, Unanswered
  <2>2. QED
    BY <2>1
<1>3. Table!Abandon
  BY <1>1, <1>2 DEF Table!Abandon, Status
<1>4. QED
  BY <1>3 DEF Table!Next

LEMMA NextRefines == IndInv /\ [Next]_vars => [Table!Next]_(Table!vars)
<1>1. SUFFICES ASSUME IndInv, [Next]_vars
               PROVE  [Table!Next]_(Table!vars)
  OBVIOUS
<1>2. handler \in [Call -> {"none", "received", "handling", "answering", "over"}]
  BY <1>1 DEF IndInv, Calls, TypeOK
<1>3. CASE UNCHANGED vars \/ CloseConnection
  BY <1>3, Stutters DEF vars, here, there, CloseConnection
<1>4. ASSUME NEW e \in End,
             Make(e) \/ MakeFails(e) \/ ComponentBase(e) \/ Strip(e)
      PROVE  UNCHANGED Table!vars
  BY <1>4, Stutters DEF Make, MakeFails, ComponentBase, Strip, here, there
<1>5. ASSUME NEW e \in End, Destroy(e)
      PROVE  Table!Next
  <2> DEFINE lost == {c \in Call : e = "client" /\ caller[c] = "waiting"}
  <2>1. /\ result' = [c \in Call |->
                         IF c \in lost THEN Unanswered(c) ELSE result[c]]
        /\ handler' = handler
    BY <1>5 DEF Destroy, there
  <2>2. lost \in SUBSET Call /\ \A c \in lost : caller[c] = "waiting"
    OBVIOUS
  <2> HIDE DEF lost
  <2>3. QED
    BY <1>1, <2>1, <2>2, AbandonRefines
<1>6. ASSUME NEW c \in Call, Drop(c)
      PROVE  Table!Next
  <2> DEFINE lost == {c}
  <2>1. result' = [d \in Call |->
                      IF d \in lost THEN Unanswered(d) ELSE result[d]]
    BY <1>1, <1>6 DEF Drop, IndInv, Calls, TypeOK
  <2>2. /\ lost \in SUBSET Call /\ \A d \in lost : caller[d] = "waiting"
        /\ handler' = handler
    BY <1>6 DEF Drop, there
  <2> HIDE DEF lost
  <2>3. QED
    BY <1>1, <2>1, <2>2, AbandonRefines
<1>7. ASSUME NEW c \in Call,
             \/ Send(c) \/ Dispatch(c) \/ DispatchManaged(c)
             \/ Answer(c) \/ AnswerManaged(c) \/ SendReply(c) \/ ReplyThrows(c)
             \/ LeaveHandler(c)
             \/ \E n \in 1 .. MaxAnswers[c] : ReceiveReply(c, n)
             \/ \E e \in End : ClearBlob(e, c) \/ ReleaseMemory(e, c)
      PROVE  UNCHANGED Table!vars
  <2>1. result' = result
    BY <1>7 DEF Send, Dispatch, DispatchManaged, Answer, AnswerManaged,
       SendReply, ReplyThrows, LeaveHandler, ReceiveReply, ClearBlob,
       ReleaseMemory, here
  <2>2. \/ handler' = handler
        \/ /\ handler[c] # "none"
           /\ \E h \in {"handling", "answering", "over"} :
                  handler' = [handler EXCEPT ![c] = h]
    <3>1. CASE \/ Send(c)
               \/ \E n \in 1 .. MaxAnswers[c] : ReceiveReply(c, n)
               \/ \E e \in End : ClearBlob(e, c) \/ ReleaseMemory(e, c)
      BY <3>1 DEF Send, ReceiveReply, ClearBlob, ReleaseMemory, there
    <3>2. CASE \/ Dispatch(c) \/ DispatchManaged(c) \/ Answer(c)
               \/ AnswerManaged(c) \/ SendReply(c) \/ ReplyThrows(c)
               \/ LeaveHandler(c)
      BY <3>2 DEF Dispatch, DispatchManaged, Answer, AnswerManaged, SendReply,
         ReplyThrows, LeaveHandler
    <3>3. QED
      BY <1>7, <3>1, <3>2
  <2>3. \A d \in Call : handler[d] # "none" <=> handler'[d] # "none"
    BY <1>2, <2>2
  <2>4. QED
    BY <2>1, <2>3, Stutters
<1>8. QED
  BY <1>1, <1>3, <1>4, <1>5, <1>6, <1>7, BeginRefines, ResolveRefines,
     SendThrowsRefines, ReceiveRequestRefines DEF Next, InvokeAsync

\* Whatever is lost, late, repeated or taken apart: a call ends once and for
\* all, and with an answer only if the server was asked, which it is at most
\* once (Client.h:29-64, Server.h:25-33).
THEOREM CallsComplete == Spec => CompletesCalls
<1>1. Spec => Table!Init /\ [][Table!Next]_(Table!vars)
  BY Invariance, InitRefines, NextRefines, PTL DEF Spec
<1>2. QED
  BY <1>1 DEF CompletesCalls, Table!Spec
=============================================================================
