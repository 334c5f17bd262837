-------------------------- MODULE RequestResponse --------------------------
(***************************************************************************)
(* One connection, the Client at one end of it and the Server at the other *)
(* (Inc/IPC/Bond/Client.h, Server.h, Serializer.h, BlobCast.h, detail/),   *)
(* or those of Transport/*.cs, in C#.                                      *)
(*                                                                         *)
(* Each end is a process that maps the memories of both channels and must  *)
(* keep them mapped while it has an item in them.  What it keeps them with *)
(* are the component, the serializers that its callbacks have captured,    *)
(* and the values that refer to bytes of a buffer.                         *)
(***************************************************************************)
EXTENDS Naturals

CONSTANTS
    Call,           \* the calls of the client, bounded
    Blobs,          \* those whose structures have a field of type bond::blob
    Protocol,       \* bond::ProtocolType
    ManagedProtocol,    \* those that there is a serializer for in C#
    MaxAnswers      \* of each call, a bound on how often its handler answers

ASSUME Bounds ==
    /\ Blobs \subseteq Call /\ ManagedProtocol \subseteq Protocol
    /\ MaxAnswers \in [Call -> Nat]

End      == {"client", "server"}
Memory   == {"requests", "responses"}
Outcome  == {"value", "garbage", "error"}
Settings == [protocol : Protocol, marshal : BOOLEAN, managed : BOOLEAN]

\* How a program makes a call: by the operator that returns a future or the
\* one that takes a callback, and with a timeout or with none.
Way == [future : BOOLEAN, timed : BOOLEAN]

\* The members of the deleter of a bond::blob.
BlobHolder == {"memory", "blob"}

VARIABLES
    asked,      \* what the program at each end has configured
    settings,   \* what each end is made with
    how,        \* of each call: how the program makes it
    stage,      \* how far its component is constructed or destroyed
    open,       \* the connection
    caller,     \* of each call: where it is at the client
    result,     \* of each call: what its future or callback has got
    handler,    \* of each call: where it is at the server
    arg,        \* of each call: what the future for the handler holds
    answers,    \* of each call: how often the handler has answered
    requests,   \* the requests in the channel
    replies,    \* of each call: its answers in the channel
    holder      \* at each end, of each call: what is still there of the holder
                \* of the blob of its value

wire  == <<requests, replies>>
there == <<handler, arg, answers>>
here  == <<caller, result>>
made  == <<asked, settings, how>>
vars  == <<made, stage, open, here, there, wire, holder>>

(***************************************************************************)
(* How ends are made: what a program has configured is passed on, through  *)
(* a Transport, an acceptor or a connector, to MakeClient and MakeServer.  *)
(***************************************************************************)
Given(protocol, marshal) ==
    [protocol |-> protocol, marshal |-> marshal, managed |-> FALSE]

\* Mutant: marshal is not passed on, and takes its default.
AcceptServersByDefault(protocol, marshal) == Given(protocol, TRUE)

AcceptServers(protocol, marshal) == Given(protocol, marshal)
AcceptClients(protocol, marshal) == Given(protocol, marshal)
ConnectClient(protocol, marshal) == Given(protocol, marshal)
ConnectServer(protocol, marshal) == Given(protocol, marshal)

\* A Transport: an end accepts those of the other kind, or connects to one,
\* or is made for a connection that the program has.
Accepts(e, s) == IF e = "server" THEN AcceptServers(s.protocol, s.marshal)
                 ELSE AcceptClients(s.protocol, s.marshal)
Connects(e, s) == IF e = "client" THEN ConnectClient(s.protocol, s.marshal)
                  ELSE ConnectServer(s.protocol, s.marshal)
Makes(s) == Given(s.protocol, s.marshal)

\* In C# what is transported is buffers, and the Transport makes serializers
\* for them.
ManagedMakes(s) ==
    [protocol |-> s.protocol, marshal |-> s.marshal, managed |-> TRUE]

\* What the ends are made with if end a accepts, or neither does.
PassedOn(a) ==
    [e \in End |->
        IF asked[e].managed THEN ManagedMakes(asked[e])
        ELSE IF a \notin End THEN Makes(asked[e])
        ELSE IF a = e THEN Accepts(e, asked[e])
        ELSE Connects(e, asked[e])]

(***************************************************************************)
(* Pools and serializers.                                                  *)
(***************************************************************************)
\* The channels of a connection: what is output at one end is input at the
\* other.
OutputMemory(e) == IF e = "client" THEN "requests" ELSE "responses"
InputMemory(e)  == IF e = "client" THEN "responses" ELSE "requests"

\* Both pools live as long as either is used.
MakeBufferPoolHolder(e) == [in |-> InputMemory(e), out |-> OutputMemory(e)]

\* SerializerFactory.Create throws for a protocol that it does not know.
Create(s) == ~s.managed \/ s.protocol \in ManagedProtocol

MakeSerializer(e) ==
    [protocol |-> settings[e].protocol, marshal |-> settings[e].marshal,
     managed |-> settings[e].managed,
     outputPool |-> MakeBufferPoolHolder(e).out,
     inputMemory |-> MakeBufferPoolHolder(e).in]

\* The memory to which pools and serializer of an end refer together.
ReferredTo(s) == {s.outputPool, s.inputMemory}

\* The version of a protocol, for writers and readers: Bond's default in C++,
\* and what ProtocolFactory makes them with in C#.
DefaultVersion  == 1
ProtocolFactory == 1
Version(s) == IF s.managed THEN ProtocolFactory ELSE DefaultVersion

\* A marshaled payload says which protocol it is in, and which version.
Marshal(s, of) ==
    [marshal |-> TRUE, protocol |-> s.protocol, version |-> Version(s),
     of |-> of, memory |-> s.outputPool]
Serialize(s, of) ==
    [marshal |-> FALSE, protocol |-> s.protocol, version |-> Version(s),
     of |-> of, memory |-> s.outputPool]

Encode(s, of) == IF s.marshal THEN Marshal(s, of) ELSE Serialize(s, of)

\* What Bond's reader makes of a payload that it was not written for is an
\* exception, if it is recognized at all.
Misread == {"garbage", "error"}

Unmarshal(b)      == IF b.marshal THEN {b.of} ELSE Misread
Deserialize(s, b) ==
    IF ~b.marshal /\ b.protocol = s.protocol /\ b.version = Version(s)
    THEN {b.of} ELSE Misread

\* In C# Bond has no readers for the other protocols; a Serializer is made
\* with the one for its protocol.
MarshalerDeserialize(b) ==
    IF b.protocol \in ManagedProtocol THEN Unmarshal(b) ELSE Misread
SerializerDeserialize(s, b) == Deserialize(s, b)

ManagedDecode(s, b) == IF s.marshal THEN MarshalerDeserialize(b)
                       ELSE SerializerDeserialize(s, b)

Decode(s, b) == IF s.managed THEN ManagedDecode(s, b)
                ELSE IF s.marshal THEN Unmarshal(b) ELSE Deserialize(s, b)

Request(c) == Encode(MakeSerializer("client"), "value")
Reply(c)   == Encode(MakeSerializer("server"), arg[c])

(***************************************************************************)
(* Who keeps the memory mapped.                                            *)
(***************************************************************************)
\* Mutant: the callbacks capture this->Serializer by reference.
CapturedByReference(e) == {}

\* The callbacks that hold a copy of the serializer: those of the client for
\* responses; at the server those that a handler is given to answer with.
Captured(e) ==
    {c \in Call : IF e = "client" THEN caller[c] \in {"waiting", "running"}
                  ELSE handler[c] \notin {"none", "over"}}

\* The memory that a bond::blob keeps next to its ConstBlob.
BlobCast(e) == MakeSerializer(e).inputMemory

Mapped(e) ==
    UNION {IF stage[e] \in {"receiving", "built", "stripped"} THEN Memory
           ELSE {},
           IF Captured(e) # {} THEN ReferredTo(MakeSerializer(e)) ELSE {},
           {BlobCast(e) : c \in {d \in Call : "memory" \in holder[e][d]}}}

\* The buffers that an end has a hand on, and the blobs of its values.
Buffers(e) ==
    IF e = "client"
    THEN {Request(c) : c \in {d \in Call : caller[d] = "encoded"}}
         \cup {Reply(c) : c \in {d \in Call : caller[d] = "running"}}
    ELSE {Request(c) : c \in {d \in Call : handler[d] = "received"}}
         \cup {Reply(c) : c \in {d \in Call : handler[d] = "answering"}}

BlobsOf(e) ==
    {IF e = "client" THEN Reply(c) ELSE Request(c) :
         c \in {d \in Call : "blob" \in holder[e][d]}}

(***************************************************************************)
(* The components.                                                         *)
(***************************************************************************)
Init ==
    /\ asked \in [End -> Settings]
    /\ \E a \in End \cup {"neither"} :
        \* C# has no acceptor of clients, and no connector of servers.
        /\ a = "client" => \A e \in End : ~asked[e].managed
        /\ settings = PassedOn(a)
    \* In C# every call is a task.
    /\ how \in [Call -> Way]
    /\ asked["client"].managed => \A c \in Call : how[c].future
    /\ stage = [e \in End |-> "none"]
    /\ open = TRUE
    /\ caller = [c \in Call |-> "idle"]
    /\ result = [c \in Call |-> "none"]
    /\ handler = [c \in Call |-> "none"]
    /\ arg = [c \in Call |-> "none"]
    /\ answers = [c \in Call |-> 0]
    /\ requests = {}
    /\ replies = [c \in Call |-> {}]
    /\ holder = [e \in End |-> [c \in Call |-> {}]]

\* MakeClient and MakeServer, up to the construction of the first base of the
\* component: from then on it receives.
Make(e) ==
    /\ stage[e] = "none" /\ Create(settings[e])
    /\ stage' = [stage EXCEPT ![e] = "receiving"]
    /\ UNCHANGED <<made, open, here, there, wire, holder>>

\* The pools do not fit into the memory, there is no serializer, or the
\* factory of handlers throws.
MakeFails(e) ==
    /\ stage[e] = "none"
    /\ stage' = [stage EXCEPT ![e] = "gone"]
    /\ open' = FALSE
    /\ UNCHANGED <<made, here, there, wire, holder>>

\* The other bases: the pools and the serializer.
ComponentBase(e) ==
    /\ stage[e] = "receiving"
    /\ stage' = [stage EXCEPT ![e] = "built"]
    /\ UNCHANGED <<made, open, here, there, wire, holder>>

\* Bases are destroyed in reverse, so the component still receives.  Its user
\* does not destroy it in the middle of a call.
Strip(e) ==
    /\ stage[e] = "built"
    /\ e = "client" => \A c \in Call : caller[c] # "encoded"
    /\ stage' = [stage EXCEPT ![e] = "stripped"]
    /\ UNCHANGED <<made, open, here, there, wire, holder>>

\* A callback that is destroyed breaks the promise of the future that was
\* returned; one that the program has passed is gone without a word.
Unanswered(c) == IF how[c].future THEN "unanswered" ELSE "dropped"

\* What still waits for a response is dropped with the transactions.
Destroy(e) ==
    /\ stage[e] = "stripped"
    /\ stage' = [stage EXCEPT ![e] = "gone"]
    /\ open' = FALSE
    /\ LET lost == {c \in Call : e = "client" /\ caller[c] = "waiting"}
       IN  /\ caller' = [c \in Call |->
                            IF c \in lost THEN "over" ELSE caller[c]]
           /\ result' = [c \in Call |->
                            IF c \in lost THEN Unanswered(c) ELSE result[c]]
    /\ UNCHANGED <<made, there, wire, holder>>

Receives(e) == open /\ stage[e] \in {"receiving", "built", "stripped"}

(***************************************************************************)
(* The channels and transactions of the IPC library.                       *)
(***************************************************************************)
\* A process ends, or a queue fails.
CloseConnection ==
    /\ open
    /\ open' = FALSE
    /\ UNCHANGED <<made, stage, here, there, wire, holder>>

\* Begins a transaction, which keeps the callback.
Send(c) ==
    /\ caller[c] = "encoded" /\ open
    /\ caller' = [caller EXCEPT ![c] = "waiting"]
    /\ requests' = requests \cup {c}
    /\ UNCHANGED <<made, stage, open, result, there, replies, holder>>

\* The queue is full or closed.
SendThrows(c) ==
    /\ caller[c] = "encoded"
    /\ caller' = [caller EXCEPT ![c] = "over"]
    /\ result' = [result EXCEPT ![c] = "threw"]
    /\ UNCHANGED <<made, stage, open, there, wire, holder>>

\* The time is up, or the connection closed: the callback is destroyed.
Drop(c) ==
    /\ caller[c] = "waiting" /\ (how[c].timed \/ ~open)
    /\ caller' = [caller EXCEPT ![c] = "over"]
    /\ result' = [result EXCEPT ![c] = Unanswered(c)]
    /\ UNCHANGED <<made, stage, open, there, wire, holder>>

ReceiveRequest(c) ==
    /\ Receives("server") /\ c \in requests
    /\ requests' = requests \ {c}
    /\ handler' = [handler EXCEPT ![c] = "received"]
    /\ UNCHANGED <<made, stage, open, here, arg, answers, replies, holder>>

\* An answer to a call that is over, or was answered before, is ignored.
ReceiveReply(c, n) ==
    /\ Receives("client") /\ n \in replies[c]
    /\ replies' = [replies EXCEPT ![c] = @ \ {n}]
    /\ caller' = [caller EXCEPT ![c] = IF @ = "waiting" THEN "running" ELSE @]
    /\ UNCHANGED <<made, stage, open, result, there, requests, holder>>

SendReply(c) ==
    /\ handler[c] = "answering" /\ open
    /\ handler' = [handler EXCEPT ![c] = "handling"]
    /\ answers' = [answers EXCEPT ![c] = @ + 1]
    /\ replies' = [replies EXCEPT ![c] = @ \cup {answers[c] + 1}]
    /\ UNCHANGED <<made, stage, open, here, arg, requests, holder>>

\* Serialize or the channel throws, into the handler.
ReplyThrows(c) ==
    /\ handler[c] = "answering"
    /\ handler' = [handler EXCEPT ![c] = "handling"]
    /\ answers' = [answers EXCEPT ![c] = @ + 1]
    /\ UNCHANGED <<made, stage, open, here, arg, wire, holder>>

(***************************************************************************)
(* The client.                                                             *)
(***************************************************************************)
\* get_future and Serialize; or Serialize throws, and there is no call.
Begin(c) ==
    /\ stage["client"] = "built" /\ caller[c] = "idle"
    /\ \/ /\ caller' = [caller EXCEPT ![c] = "encoded"]
          /\ result' = [result EXCEPT ![c] = "pending"]
       \/ /\ caller' = [caller EXCEPT ![c] = "over"]
          /\ result' = [result EXCEPT ![c] = "threw"]
    /\ UNCHANGED <<made, stage, open, there, wire, holder>>

\* A value, as opposed to an exception, may have blobs in the buffer; in C#
\* these are copied (InputStream::ReadBytes).
Keep(e, c, o) ==
    holder' = [holder EXCEPT ![e][c] =
                  IF o # "error" /\ c \in Blobs /\ ~settings[e].managed
                  THEN BlobHolder ELSE @]

\* Mutant: the callback calls Deserialize outside of a packaged_task, and
\* the exception gets lost in the library.
ResolveUnguarded(c) ==
    /\ caller[c] = "running"
    /\ \E o \in Decode(MakeSerializer("client"), Reply(c)) :
           /\ result' = [result EXCEPT ![c] = IF o = "error" THEN @ ELSE o]
           /\ Keep("client", c, o)
    /\ caller' = [caller EXCEPT ![c] = "over"]
    /\ UNCHANGED <<made, stage, open, there, wire>>

\* Mutant: the callback stays with its transaction after it has run.
ResolveAgain(c) ==
    /\ caller[c] = "running"
    /\ \E o \in Decode(MakeSerializer("client"), Reply(c)) :
           /\ result' = [result EXCEPT ![c] = o]
           /\ Keep("client", c, o)
    /\ caller' = [caller EXCEPT ![c] = "waiting"]
    /\ UNCHANGED <<made, stage, open, there, wire>>

\* The callback runs: a packaged_task sets the future, or the callback of the
\* user gets a future that is set.
Resolve(c) ==
    /\ caller[c] = "running"
    /\ \E o \in Decode(MakeSerializer("client"), Reply(c)) :
           /\ result' = [result EXCEPT ![c] = o]
           /\ Keep("client", c, o)
    /\ caller' = [caller EXCEPT ![c] = "over"]
    /\ UNCHANGED <<made, stage, open, there, wire>>

\* In C# the same is a task, which fails if Serialize throws, and resumes with
\* the answer.
InvokeAsync(c) == settings["client"].managed /\ (Begin(c) \/ Resolve(c))

(***************************************************************************)
(* The server and its handler.                                             *)
(***************************************************************************)
\* The handler is called with a future and a callback, and may keep both.
Dispatch(c) ==
    /\ handler[c] = "received" /\ ~settings["server"].managed
    /\ \E o \in Decode(MakeSerializer("server"), Request(c)) :
           arg' = [arg EXCEPT ![c] = o] /\ Keep("server", c, o)
    /\ handler' = [handler EXCEPT ![c] = "handling"]
    /\ UNCHANGED <<made, stage, open, here, answers, wire>>

\* In C# it is called with the request; an exception goes to the library, as
\* one of the handler does, and there is no answer.
DispatchManaged(c) ==
    /\ handler[c] = "received" /\ settings["server"].managed
    /\ \E o \in Decode(MakeSerializer("server"), Request(c)) :
           /\ arg' = [arg EXCEPT ![c] = o]
           /\ handler' = [handler EXCEPT ![c] = IF o = "error" THEN "over"
                                               ELSE "handling"]
    /\ UNCHANGED <<made, stage, open, here, answers, wire, holder>>

\* The handler calls the callback, then or later, and from any thread.
Answer(c) ==
    /\ handler[c] = "handling" /\ arg[c] # "error"
    /\ answers[c] < MaxAnswers[c]
    /\ ~settings["server"].managed
    /\ handler' = [handler EXCEPT ![c] = "answering"]
    /\ UNCHANGED <<made, stage, open, here, arg, answers, wire, holder>>

\* The task of the handler has a result, which is serialized, and so has the
\* one that the library waits for.
AnswerManaged(c) ==
    /\ handler[c] = "handling" /\ answers[c] = 0 /\ MaxAnswers[c] # 0
    /\ settings["server"].managed
    /\ handler' = [handler EXCEPT ![c] = "answering"]
    /\ UNCHANGED <<made, stage, open, here, arg, answers, wire, holder>>

\* The handler is done: it has answered, or it has caught the exception of
\* the future or of the callback and does not answer.
LeaveHandler(c) ==
    /\ handler[c] = "handling"
    /\ handler' = [handler EXCEPT ![c] = "over"]
    /\ UNCHANGED <<made, stage, open, here, arg, answers, wire, holder>>

(***************************************************************************)
(* The values.                                                             *)
(***************************************************************************)
\* A value goes.  The deleter resets the blob, before the holder is destroyed.
ClearBlob(e, c) ==
    /\ "blob" \in holder[e][c]
    /\ holder' = [holder EXCEPT ![e][c] = @ \ {"blob"}]
    /\ UNCHANGED <<made, stage, open, here, there, wire>>

\* Mutant: the memory is the first thing that is released.
ReleaseMemoryFirst(e, c) ==
    /\ "memory" \in holder[e][c]
    /\ holder' = [holder EXCEPT ![e][c] = @ \ {"memory"}]
    /\ UNCHANGED <<made, stage, open, here, there, wire>>

\* The members of the holder are destroyed in reverse, the memory last.
ReleaseMemory(e, c) ==
    /\ holder[e][c] = {"memory"}
    /\ holder' = [holder EXCEPT ![e][c] = {}]
    /\ UNCHANGED <<made, stage, open, here, there, wire>>

Next ==
    \/ \E e \in End : Make(e) \/ MakeFails(e) \/ ComponentBase(e)
                     \/ Strip(e) \/ Destroy(e)
    \/ CloseConnection
    \/ \E c \in Call :
          \/ ~settings["client"].managed /\ (Begin(c) \/ Resolve(c))
          \/ InvokeAsync(c)
          \/ Send(c) \/ SendThrows(c) \/ Drop(c)
          \/ ReceiveRequest(c) \/ Dispatch(c) \/ DispatchManaged(c) \/ Answer(c)
          \/ AnswerManaged(c) \/ SendReply(c) \/ ReplyThrows(c) \/ LeaveHandler(c)
          \/ \E n \in 1 .. MaxAnswers[c] : ReceiveReply(c, n)
          \/ \E e \in End : ClearBlob(e, c) \/ ReleaseMemory(e, c)

\* A call returns, a callback that has begun ends, and so does a transaction
\* that has a timeout.  A program need not give it one.
Fairness ==
    \A c \in Call :
        /\ WF_vars(Send(c) \/ SendThrows(c))
        /\ WF_vars(how[c].timed /\ Drop(c))
        /\ WF_vars(Resolve(c))

Spec == Init /\ [][Next]_vars /\ Fairness

(***************************************************************************)
(* Properties.                                                             *)
(***************************************************************************)
TypeOK ==
    /\ asked \in [End -> Settings]
    /\ settings \in [End -> Settings]
    /\ how \in [Call -> Way]
    /\ stage \in [End -> {"none", "receiving", "built", "stripped", "gone"}]
    /\ open \in BOOLEAN
    /\ caller \in [Call -> {"idle", "encoded", "waiting", "running", "over"}]
    /\ result \in [Call -> Outcome \cup {"none", "pending", "threw",
                                         "unanswered", "dropped"}]
    /\ handler \in [Call -> {"none", "received", "handling", "answering",
                             "over"}]
    /\ arg \in [Call -> Outcome \cup {"none"}]
    /\ answers \in [Call -> Nat]
    /\ requests \in SUBSET Call
    /\ \A c \in Call : answers[c] <= MaxAnswers[c]
    /\ replies \in [Call -> SUBSET Nat]
    /\ holder \in [End -> [Call -> SUBSET BlobHolder]]

\* No callback, whenever it runs, has a buffer in a memory that its end has
\* unmapped: components may be gone by then, but the callbacks have copied
\* their serializers (Client.h:35, Server.h:26 and 29).
BuffersStayMapped == \A e \in End : \A b \in Buffers(e) : b.memory \in Mapped(e)

\* Nor has a value that outlives component and callbacks: the deleter of its
\* bond::blob lets go of the blob before it lets go of the memory, which may
\* be the last reference to it (BlobHolder.h:24-36).
BlobsStayMapped == \A e \in End : \A b \in BlobsOf(e) : b.memory \in Mapped(e)

\* Ends understand each other if both programs have configured the same, in
\* whatever way the ends are made, and also if both marshal: then protocols
\* need not agree, but C# must know that of the other end.
Agree ==
    \/ /\ asked["client"].protocol = asked["server"].protocol
       /\ asked["client"].marshal = asked["server"].marshal
    \/ \A e, f \in End :
           /\ asked[e].marshal
           /\ asked[e].managed => asked[f].protocol \in ManagedProtocol

\* Then no request and no response fails to be read.
AgreedIsRead ==
    Agree => \A c \in Call : {result[c], arg[c]} \cap Misread = {}

\* What the table tells apart of what a future or a callback has got.
Status(r) == CASE r = "garbage" -> "value"
               [] r = "dropped" -> "unanswered"
               [] OTHER         -> r

Table == INSTANCE CallTable WITH
    status <- [c \in Call |-> Status(result[c])],
    seen <- {c \in Call : handler[c] # "none"}

\* A call ends once, with an answer only if the server was asked, which it is
\* at most once.
CompletesCalls == Table!Spec

\* A caller is to be told: an answer has come, or the call returned a future
\* and its time runs or its client is gone.  A program that has passed a
\* callback is not told of anything but an answer (Client.h:35-38), and one
\* that waits without a timeout may wait for as long as its client exists.
Due(c) ==
    /\ result[c] = "pending"
    /\ \/ caller[c] = "running"
       \/ how[c].future /\ (how[c].timed \/ stage["client"] = "gone")

\* Whoever is to be told of the end of a call is told, with a value or an
\* exception: also if the answer cannot be read, comes late, or never.
CallsEnd == \A c \in Call : Due(c) ~> result[c] \notin {"pending", "dropped"}
=============================================================================
