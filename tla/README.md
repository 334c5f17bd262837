# A TLA+ model of IPC.Bond

IPC.Bond sends [Bond](https://github.com/Microsoft/bond) structures between
processes through shared memory.  The transport itself (channels, lock-free
queues, shared pointers, connections) is the IPC library, a submodule; this
repository adds what is built on top of it: a pool of shared-memory buffers,
streams that serialize into such buffers and out of them without copying, and
the typed clients and servers, in C++ and in C#.

The model follows `Inc/IPC/Bond`, `Interop`, `Managed` and `Transport`; a name
in it is the name of the code wherever TLA+ allows.  `PROJECT.json` maps each
definition to the lines it stands for and lists the runs, mutants, findings,
hazards and theorems.

## Components

| component | code | state | status |
|---|---|---|---|
| BufferPool | `Inc/IPC/Bond/BufferPool.h` | reference-counted `Data` in shared memory, the lock-free queue of idle ones, the items (`Blob`, `ConstBlob`, `Buffer`, `ConstBuffer`) that refer to them | modelled, proved |
| OutputBuffer | `OutputBuffer.h` | current blob and cursor, the buffer of finished blobs | modelled, proved |
| InputBuffer | `InputBuffer.h` | iterators into a buffer, cursor, limit | modelled, proved |
| Serializer | `Serializer.h` | pools and settings; runs the streams through Bond | modelled in RequestResponse |
| BlobCast | `BlobCast.h`, `detail/BlobHolder.h` | a `bond::blob` whose deleter holds a `ConstBlob` and the memory | its life in RequestResponse, the way back in OutputBuffer |
| Client, Server and their pools | `Client.h`, `Server.h`, `detail/` | connection, two pools with one owner, callbacks under way | RequestResponse, proved; not the clients without a response |
| Transport, Accept, Connect | `Transport.h`, ... | two connectors made by `std::call_once` | connectors in ClientAccessor, proved; the rest is factories |
| Interop | `Interop/Src` | native objects behind C++/CLI | ManagedStreams, proved; `GetSize`/`CopyTo` in OutputBuffer |
| Managed | `Managed/Src` | garbage-collected wrappers | streams in ManagedStreams, proved; not the finalizers |
| Transport (C#) | `Transport/*.cs` | cached client of `ClientAccessor`, event handlers, tasks | ClientAccessor, proved; calls in RequestResponse |
| SerializerFactory | `Transport/SerializerFactory.cs` | none | in RequestResponse |
| Examples | `Examples/Calc` | the client of a loop that retries | loops in ClientAccessor, the handler in RequestResponse |
| tests, build files | | | not modelled |

How they interact.  A client serializes a request: `Serialize` constructs an
`OutputBuffer` on the output pool, Bond writes to it, `GetBuffer() &&` turns it
into a `ConstBuffer`.  The IPC channel carries this item to the server's
process, where `Deserialize` reads it through an `InputBuffer`.  Fields of type
`bond::blob` are not copied but refer to the blob in shared memory, through a
`ConstBlob` in their deleter; a server that writes such a field to a stream on
the same memory appends that blob to its buffer, so a `Data` comes to be shared
by several items, in several processes, and as an element of the `m_buffer` of
other `Data`.  When the last item goes, its destructor clears the `Data` and
pushes it to the queue of the pool it was taken from, whichever process that
happens in.

A program gets its client from an accessor, which the IPC library makes and
which hands out the component of the connection there is.  The accessor of C#
caches a wrapper of it and hears of connections through events.

What is hard: nothing is locked.  Counts change in other processes between any
two steps of `~ItemBase`; a destructor of a buffer runs destructors of its
elements, each of which may recycle in turn; the pool and its queue may end
before the items do; a process may die.  The streams are sequential but full of
boundaries: empty blobs, limits inside a blob, reads that fail in the middle,
allocations that throw between two updates.  A reader asks for most items in
one piece, and nothing but the writer sees to it that they lie in one.  The
callbacks of a component outlive it, and what they use lies in memory that
somebody must have kept mapped; a call can end in many ways, two of which may
come at once.  The cache of an accessor is written by a thread that handles
events and by any user whose getter found it empty.

## Modules

    SharedData  <---implements---  BufferPool  <--- MCBufferPool (runs)
                                        ^---------- BufferPoolProofs
                                                        ^-- SharedDataProofs
    ByteStream  <---implements---  InputBuffer <--- its own runs
                                        ^---------- InputBufferProofs
                                        |               ^-- ByteStreamProofs
                    (its ranges)   OutputBuffer <-- MCOutputBuffer (run)
                                        ^---------- OutputBufferProofs
                                        |               ^-- ManagedStreamsProofs
          (its reads and the writer)  ManagedStreams <-- MCManagedStreams (run)
                                        ^-------------- ManagedStreamsProofs

    CallTable   <---implements---  RequestResponse <-- MCRequestResponse (run)
                                        ^---------- RequestResponseProofs
                                   ClientAccessor  <-- its own runs
                                        ^---------- ClientAccessorProofs

**BufferPool** is the pool and the life of an item.  `data`, `queue` are
`m_data`, `m_queue`; the count of a `Data` is the number of items that refer to
it (`Holders`), and the count of a queue is its items plus the pool object
(`Users`, `open`).  The steps are those another thread can see: `Take` is
`TakePop`, or `TakeMiss` and then `TakeNew` or `TakeFails` (`Pop` and
`MakeShared` are separate); `~ItemBase` is `Begin` (`unique()`), `Clear`,
`Recycle` (`Push(std::move(m_data))`), `ReleaseQueue`, `ReleaseData`, in the
order in which C++ destroys members.  `Clear` makes the elements of `m_buffer`
run the same steps.  `Free` ends `~Data`, `Close` is `~BufferPool`, `Crash`
stops a process with whatever it was doing.  "Moving" an item is `Copy`, because
`ItemBase` declares a destructor and so has no move operations.  `Assign` and
`Reset` are the defaulted `operator=`.  External, from how the code uses them:
the counts of `SharedMemory::SharedPtr` are atomic, `LockFree::Queue` pops what
was pushed, once.

**SharedData** is what a user of the pool may rely on: a `Data` has readers, its
contents stay while it has any, only a reader can give another one access, and
what is taken is empty.  `BufferPool` implements it: `Readers`, `Status` and
`bytes` are the mapping.

**InputBuffer** is the reading stream.  Bytes of all blobs are numbered through;
`start` is the layout, chosen once, with empty blobs anywhere.  `At` is
`UpdateData` with `SkipEmptyBlobs`, `Advance` is `EndRead` with `MoveNext`.  The
loop of `ReadMultiple` takes a step per iteration with `RollBack` for its
handler.  `CreateInputBuffer` composes `GetBufferRange` and the constructor from
a `Range`, as Bond does for `bonded` fields.

**ByteStream** is a position and a limit.  An operation names the number of
bytes it asks for: it delivers the next so many if they are there (`Enough`),
and in one blob where they must be (`Whole`), and is refused just if they are
not; of the blobs only the places where they meet are left (`cuts`).  What is
refused delivers nothing and leaves the stream as it was; only a number that is
cut off (`ReadNumber`) uses it up.  A loop of `InputBuffer` takes effect when it
returns.  `AsAsked` ties the operations together: a step of `InputBuffer` that
reads `n` bytes of a stream is a step of `ByteStream` that is asked for those
`n` of that stream, and one that makes a stream or a range makes the same one.

**OutputBuffer** is the writing stream, with the vectors of its `Data`
(`Memcpy`, `Room`), `Merge`/`TakeBlob` (`FlushAndPush`), the appending of blobs
of the pool's memory, ranges (`Pieces`), and what its exceptions leave behind.
`GetSize` and `CopyTo` are Interop's, `Length` and `CopyToArray` those of the
managed `ConstBuffer`, which has 32 bits for a length, so that the two languages
are compared on the same buffer.  `BlobCast` is the way from a `bond::blob`, or a
part of one, back to the `ConstBlob` that is appended (`WriteBlob`).

**ManagedStreams** composes the two streams: it `EXTENDS OutputBuffer`, which
writes the buffer, and has instances of `InputBuffer` over the blobs that come
of it (`BlobStarts`).  `WriteNumber`, `WriteString`, ... are the methods of
`Managed/Src/OutputStream.cpp`, or what Bond calls of the native stream, and
`ReadNumber`, ... those of `InputStream.cpp`; `InteropWrite` and `InteropRead`
say to which method of the native object each is forwarded.  `script` is what
was written, and `next` the item that a reader is at.

**RequestResponse** is one connection.  Of a component, `stage` is how far it
is constructed or destroyed: the base that receives is the first and the last
to be there (`ComponentBase.h:53`).  Of a call, `caller` is where it is at the
client (`Begin`, `Send`, `Resolve`), `handler` where it is at the server
(`Dispatch`, `Answer`, `SendReply`); `requests` and `replies` are in the
channels, from which they are taken in any order.  `Mapped(e)` is the memory
that process `e` still maps, by the component, by the serializers that the
callbacks have captured (`Captured`), or by the deleter of a `bond::blob` that a
user keeps: `holder` is which of the two members of `BlobHolder` are still
there, the `ConstBlob` (`ClearBlob`) and the memory (`ReleaseMemory`).  `how` is
how the program makes a call, for a future or with a callback and with a timeout
or without one, which decides what becomes of a call that is dropped
(`Unanswered`): the future gets a broken promise, the callback is destroyed and
the program hears nothing.  `Encode` and `Decode` are the branches of the serializer: a payload
is what it was made of and how.  The `settings` of an end are what the program
asked for, passed on by the functions of `Accept.h`, `Connect.h` or a Transport
(`PassedOn`).  An end may be in C#, where a serializer is made for some protocols
only (`Create`) and with the version of `ProtocolFactory` (`Version`), a handler
is a task with one result, and blobs are copied (`InvokeAsync`,
`DispatchManaged`, `AnswerManaged`).  External, from how the code uses them: a
transaction keeps its callback until it runs or is destroyed, and runs it once
at most.

**CallTable** is what a caller and a service may rely on: a call ends once,
with an answer only if the service was asked, and it is asked at most once.

**ClientAccessor** is the threads that connect through one transport
(`CallOnce`, `MakeConnector`), one of the accessors that they get (`Construct`
in steps, `OnConnected` and `OnDisconnected` on the thread of the library), and
users of it that loop as the clients of `Examples/Calc` do; the getter is
`Ask`, `Access` and `ConnectComponent`, the three places where it reads or
writes what others share.  Connections are numbered and so are their events;
`raised - delivered` are the events that are still to be handled.  In C++ the
accessor is that of the library and has no cache.

No definition is replaced by a configuration; `MC*` modules only name values.

## What the runs check

| run | instance | shows |
|---|---|---|
| `pool_nested` | 4 items, 2 Data, 1 process | contents stay while there is a reader; what is recycled is exclusive; idle Data are clean; nothing leaks, with buffers inside buffers |
| `pool_crash` | 3 items, 2 Data, 2 processes, one may crash | nothing dangles; the pool implements `SharedData` |
| `pool_homes` | 3 items, 2 Data, 2 pools in 2 processes | a `Data` returns to the pool it came from |
| `pool_ends` | 3 items, 2 Data, 1 process | destructors that have begun end |
| `pool_assignment` | 2 items, 2 Data | *violated*: `blob = {}` does not recycle |
| `input_reads` | 2 streams, 3 blobs, at most 4 bytes | cursor, roll back, end of stream, a read delivers just the bytes that it was asked for, and throws just if it must; loops end |
| `input_nested` | 2 streams, 3 blobs, at most 3 bytes | *violated*: a range of a range loses its end |
| `output_writes` | 3 Data, blobs of 2 to 4 bytes, 4 bytes written, a source of 3 blobs and 3 bytes | order, completeness and stability of what is written, the cursor, ranges, copying in managed code |
| `streams` | 2 Data, blobs of 2 to 4 bytes, 3 items of 4 bytes in sum, an appended blob, 2 readers | every item is read where it was written and in one piece where it must be; it makes no difference how a reader came to an item |
| `calls` | 2 calls, one with blobs and one with two answers, 2 protocols, one of them known in C# | buffers and blobs in use are mapped; ends that agree read each other; calls end as `CallTable` says; all that return a future do, unless they have no timeout and the client stays, and all whose answer has come |
| `accessor` | 3 threads that connect, 2 users, 3 connections | one connector per role; no lost client stays cached, and users come to the connection that stays, unless a getter was overtaken |
| `accessor_stale` | 1 user, 2 connections | *violated*: an overtaken getter leaves a closed client in the cache, and a loop that retries gets it for ever |

**Bounds.**  Four items are a buffer, its element, a copy of either and an item
that is taken meanwhile; two `Data` are the buffer's and the element's.  Both
are also the memory limit, so that `MakeShared` fails.  Two processes and two
pools are the least in which a `Data` can go to a wrong home or a holder can be
missed.  Three blobs are an empty one before, between or after two others or
two empty ones in a row; four bytes allow a blob longer than the fast path of
numbers of variable length (`FastPath` is 1, so such numbers have one or two
bytes) and a limit strictly inside it.  `OutputBuffer` gets capacities from the
minimum to twice the minimum, so that each write finds a blob that has room,
just has none, or must grow; three `Data` let it flush twice and then fail.
Items and `Data` are interchangeable, and so are the `Data` of an
`OutputBuffer`: the safety runs use that symmetry; the liveness run does not.
`MaxInt` is 3, so that four bytes are more than `Length` can tell.  `streams`
needs four bytes so that a string longer than the smallest blob makes it grow;
three items so that one is read, one skipped and one left; and as many blobs as
bytes (`MaxBlobs`), because no blob of the buffer is empty.  `calls`
has one call with blobs and one without, one handler that may answer once and
one that may answer twice; the settings are those that differ in what is
understood (`MCInit`): the protocol of the client stands for either, and ends
in C# are tried with one form of payload at both ends.  The first of the calls
is for a future and has no timeout; the second has one, and is made with a
callback by clients in C++ that do not marshal, with a future by the others.
The proofs are about all settings and all ways to make a call.  Three connections of `accessor` are one that is lost while a
getter is under way, the one cached after it, and one that brings the loop back
on its feet; of three threads two have the same role.

**Fairness.**  `pool_ends` assumes that a thread inside a destructor keeps
running (weak fairness of the steps of each destructor and of each `~Data`); no
step of these waits for another thread, since the queue is lock-free.  Starting
a destructor is the program's choice and not fair.  Its specification
`EmptyBlobs` leaves out the contents of blobs, other processes and the end of
the pools, which no destructor waits for.  `input_reads` assumes that a loop
keeps running.  `calls` assumes that a call of the client returns
(`Send` or `SendThrows`), that a callback that has begun ends (`Resolve`), and
that a transaction that has a timeout does not last for ever (`Drop`).  A
timeout is the choice of the program, through the arguments of a call or its
transaction manager, and `UnitTests/TransportTests.cpp:21` and
`UnitTestsManaged/TransportTests.cs:19` do without: of such a call nothing is
assumed, so `CallsEnd` promises its end only if an answer comes or the client is
destroyed.  Nothing is assumed of the server, its handler or the channels.  `accessor` assumes that
events are handled (`Handle`) and that a loop goes on (`Loop`); it need not
leave, and connections need not come back: what is promised is promised for a
connection that stays.

**Deadlock** is not checked where the program may stop: pools closed and items
destroyed, an `OutputBuffer` moved from or its buffer read, components
destroyed, users gone.

Each property has a mutant, a definition marked `Mutant:` that changes one line
the way a mistake in the code would and makes TLC find the property violated.

### Findings

* `AssignmentRecycles`.  `BufferPoolTests.cpp:60-68` and `134-142` expect that
  `blob = {}` returns the `Data` to the pool.  Only `~ItemBase` does; assignment
  replaces the shared pointer and destroys the `Data`.  The test passes when the
  allocator reuses the address.  `BlobHolder.h:31` drops every `bond::blob` this
  way.
* `RangeIsExact`.  `GetBufferRange` (`InputBuffer.h:234`) describes the end of a
  stream by offset 0.  If the stream is itself limited inside a blob, this means
  the end of that blob, so an input over the range delivers bytes behind the
  limit: a `bonded` field at the end of a `bonded` field.
* `RetryReconnects`.  The getter of `ClientAccessor` (`ClientAccessor.cs:33-46`)
  stores the wrapper of what it has read before, also if that connection was
  lost and its loss handled meanwhile, or another one is cached already.  The
  loop in `Examples/Calc/CalcManaged/Client.cs:71-72` drops a client whose
  request has failed and asks again; it gets the same closed client until the
  next event, though the service is connected.

## What is proved

`BufferPoolProofs` proves, for every number of items, `Data`, pools and
processes, for every `Host` and `MayCrash`: `TypeOK`, `RecycledIsExclusive`,
`NoDangling`, `IdleIsClean` and `SameHome` are invariants of `Spec`.  The
assumptions are those of `BufferPool`: `Null` is not one of the values, no
`Data` is a process, `Host` and `MayCrash` have their types.  TLC evaluates
them in every run.

None of the properties is inductive alone.  That the only reference stays the
only one (`RecycledIsExclusive`) needs that nobody gets a second one: not
through `Pop`, so what is idle has no references (`NoDangling`) and is in one
queue once (`IdleIsClean`); not by copying an element of the buffer that is
being cleared, which is reachable through a live item only.  That an idle
`Data` is clean needs that it was cleared before (`ClearedIsEmpty`) and that
its members are there (`ItemsHold`), and dropping a last reference must not
leave a destructor running on freed memory (`DestroyedExists`).  `IndInv` is
the conjunction.  There is one lemma per action (`TakePopKeeps`, ...,
`CrashKeeps`); the actions that drop references share `DropKeepsHeap`.

`InputBufferProofs` proves, for every number of blobs, bytes and streams and for
every `FastPath`: `TypeOK` and `CursorInBlob` are invariants of `Spec`, and every
step satisfies `ThrowRestores`.  The only assumption is that the bounds are
natural numbers.  `IndInv` adds to `CursorInBlob` what ties the members of a
stream together (`CursorOK`): the limit lies inside the blob before `blobEnd`,
`ptrEnd` is the limit in that blob and the end of the blob in all others, and
only there may a stream stand at `ptrEnd` without being at its end.  The last
part is what makes `CreateInputBuffer` safe (`RangeFacts`): without it the end
of a range could lie in a blob before its begin.  `LoopOK` says that a loop
under way has moved its stream by just what it has read, so that one that finds
the stream at its end was asked for more than there is.  `FirstFacts` and
`AtFacts` are about `SkipEmptyBlobs` and `UpdateData`, `AdvanceFacts` about
`EndRead`; the first rests on the least element of a set of blobs
(`LeastElement`, from the well-foundedness of the order of natural numbers), in
place of an induction over the blobs.  `LoopsProgress` is the half of `LoopsEnd`
that is no matter of fairness: an iteration reads a byte, or, at a limit inside a
blob, none and then knows that it is at the end; so a loop has at most one
iteration more than bytes to read.

`ByteStreamProofs` goes on from there: every step satisfies `EofWhenDone`, and
`InputBuffer` implements `ByteStream` (`DeliversInOrder`).  A loop over the
blobs takes effect when it ends: until then the abstract streams are those the
loop began with, and `LoopOK` says that what it has moved by is what it will
have delivered; when it ends, that is what it was asked for (`LoopFacts`).  A
read from one blob is refused just if the abstract stream would refuse it,
because no place where blobs meet is inside what fits, and one is inside, or the
limit, of what does not (`FitsIfWhole`).  `AsAskedHolds` says this of each
operation with the amount that it was asked for; the step of `ByteStream` then
follows (`AnyAmount`).  That a loop throws only when the bytes are not there
rests on `DryFacts` (a stream that has no byte left in its blob has none at
all, since `EndRead` moves on at once), and that a range has the bytes between
two streams on `RangeEnds`.

`SharedDataProofs` proves the rest of what is promised of the pool: `NoLeak`,
`ReadersKeepContents`, and that the pool implements `SharedData`
(`SharesData`).  For these the invariant becomes `Accounts`: where an item is at
each stage of its life (`Housed`), that a `Data` is a blob or a buffer to all
who refer to it, so that elements of buffers are never buffers (`Kin`), and that
everything that is kept is kept by somebody (`Counted`): a `Data` by an item, a
queue or its own destructor, a queue by its pool or an item.  Nothing leaks
because an item that is in no process is an element of a buffer, whose own
keepers are in a process, being destroyed, or absent (`NestedIsDestroyed`).
Each operation has a lemma that says which step of `SharedData` it is for each
`Data` (`TakePopShares`, ..., `FreeShares`); what a step does to the bytes that
are read then follows from `SharedData` alone (`ReadBytesStay`), and its
elements stay because no reader is left when a buffer is emptied
(`ReadIsNotEmptied`).

`OutputBufferProofs` proves `CursorInBlob` and `ChunksStay` for every size of
blobs, every number of `Data` and every source buffer.  `ChunksStay` needs that
the blob that is written to is none of the buffer (`Apart`), which `TakeBlob`
sees to and which does not hold after an exception in between; so no write may
go on then (`Busy`).  `PiecesFacts` says that whatever ends a range has, its
pieces are chunks of the source, by way of the blob that a byte lies in
(`ByteInBlob`, a least element again).

It also proves `ContentsInOrder`, `CopiedCompletely`, `WritesWholeRange` and
`TypeOK`. All but the last are about concatenations, `FlattenSeq` of the
community modules, whose recursion cannot be followed by induction here: instead
`FlattenIs` shows that any function that satisfies the recursion has its values,
because the places where the two differ would have a least one, and the facts
about one more and one less sequence (`FlattenAppend`, `FlattenHead`) name such
a function. The invariant is then `Holds`: no chunk is empty, and what was
copied lies in its blob. Copying extends the used part of the blob only
(`MemcpyContents`, with `RoomKeeps` for a blob that grows), and a flush makes
that part the last chunk (`MergeContents`), which a blob that is taken does not
touch (`FlushContents`). For `WritesWholeRange`, an `InputBuffer` at a byte is
in the one blob that has the byte (`InputAtFacts`), an `InputBuffer` over the
range delivers the bytes between the two (`RangeBytesAre`), and the pieces
follow each other without a gap from the first to the last of them (`PiecesAre`,
`SlicesJoin`).

`ManagedStreamsProofs` proves, for every number of items, readers, bytes and
blobs: `ReadsItems` and `SameCursor`.  The assumption `Items` says that the
bounds are natural numbers and that there may be as many blobs as bytes.

* The writer first.  `MSSpec` implies the `Spec` of `OutputBuffer`
  (`WriterIsOutputBuffer`), so that all that is proved of the latter holds; what
  the former adds is where items lie (`Writes`).  They follow each other without
  a gap (`Follow`), a write of several steps is that of the last of them
  (`Pending`), and one that is read from one blob lies in one, or still in that
  of the writer (`WholeItem`): a flush makes a chunk of all that is in it
  (`PushedBlobs`), and is the only step that does.
* The readers then.  No blob of the buffer is empty, so that each byte lies in
  one blob, and a stream at a byte has one possible state (`Stands`,
  `StandsUnique`): `SameCursor` follows, by whatever way two streams came.
  Reading moves a stream from one such state to the next (`AdvanceStands`), and
  what lies in one blob fits (`FitsInBlob`).
* `Reading` ties both together: a reader stands at the begin of its next item,
  less what the loop under way has still to read.  So a loop never runs out of
  bytes and never rolls back, and the only read that throws is that of an array
  without bytes (`Threw`).

`RequestResponseProofs` proves, for every number of calls, all protocols and
any bound on answers: `TypeOK`, `AgreedIsRead`, `BuffersStayMapped`,
`BlobsStayMapped`, and that the connection implements `CallTable`
(`CompletesCalls`).  What a payload is read as depends on the settings, which
do not change (`DecodesTo`); with it `AgreedIsRead` is a part of the invariant,
for ends that agree in what their programs asked for, however they were made and
in whichever language they are.  `BlobsStayMapped` needs that no deleter
lets go of the memory before the blob (`HoldersInOrder`): a blob may be the last
user of the memory, when component and callbacks are gone.
For the refinement the invariant says where a call can be: `result` and
`caller` tell the same (`CallerKnows`), and a call has passed the places before
the one it is at (`CallInOrder`), so that a request that is received was not
received before and a reply has a handler that was asked.  There is one lemma
for each kind of step (`BeginRefines`, `AbandonRefines`, ...), and `Stutters`
for those that the table does not see.

`ClientAccessorProofs` proves, for every number of threads, users and
connections: `TypeOK`, `OneConnector` and `CacheIsLive`.  For the former, the
flag of a role admits one maker (`Once`) and a number is given once (`Made`).
For the latter, no wrapper is cached or stored before the accessor is
constructed (`Constructed`), all of them are of connections that were made
(`Wrapped`), events are handled after they were raised (`Handled`), and no loss
was handled of what is cached (`NotLost`).

The assumptions are those that the modules name: the bounds are natural
numbers, sets are subsets of each other, `Program` is one of the threads.  TLC
has checked `IndInv` of the last three modules, with what `ManagedStreamsProofs`
adds to it, as an invariant.

Only model-checked is liveness: `DestructorsEnd`, `LoopsEnd`, `CallsEnd` and
`Reconnects` rest on fairness and so on `ENABLED`, which the prover does not
know.  The invariants and action properties of all runs that pass are proved.

## What is not modelled

* The arithmetic of sizes in fixed width, `offset + count` in `GetRange`; the
  cast to 32 bits in `Managed/Src/BufferPool.cpp:24` is `Length`.
* The values of primitives: a primitive is a number of bytes.  Bond's readers
  and writers are callers of the streams; that they end `Serialize` with an
  exception is `Begin` with `threw`, and that Bond does not ask for an empty
  string is a guard of `ReadString`.
* Order of memory accesses below atomicity of the counts and the queue.
* A client whose response is `void` (`Client.h:42-46`): it sends without a
  transaction and expects nothing.
* The finalizers of `Managed`: when a garbage collector releases a buffer that
  nobody disposes of (the reply at `Transport.cs:100` is one) is not a matter
  of order but of time.
* `Accept.h`, `ServersAccessor`, `ServerAcceptor` and `ClientConnector`: they
  pass on what the library gives them and keep nothing.
* The library itself.  That events come one by one and in order, on one thread,
  is an assumption on it, made where `Delivers` is defined.
* An array without bytes is an exception of `ReadsItems`: it can be written and
  its reading throws (`InputStream.cpp:115`, `InputBuffer.h:50`).
* The members of an `OutputBuffer` one by one when it is destroyed: its callers
  have a copy of the pool for longer (`Serializer.h:26-36`).
* `push_back` running out of memory in `Merge` and `WriteBlob`
  (`OutputBuffer.h:182` and `198`); the exceptions of a writer are those of
  `TakeBlob` and of growing a blob, and after one it is not used any more.
* The task of a C# client whose transaction the library drops: that the library
  cancels it is taken for granted.
* The use of a wrapper outside of the `try` in
  `Examples/Calc/CalcManaged/Client.cs:45-49`: a user that shares it with one
  that has disposed of it would end there, where the model lets it loop; and a
  request that fails while there is a connection.

## Plan

1. *(done)* `BufferPool`, `SharedData`, `BufferPoolProofs`: the part every other
   one relies on.
2. *(done)* `ByteStream`, `InputBuffer`, then `OutputBuffer`, which uses the
   former to say what a range means; `ManagedStreams` over both.
3. *(done)* `CallTable` and `RequestResponse`, with who keeps memory mapped and
   how long a blob lives.
4. *(done)* `ClientAccessor`, the cache against events on another thread.
5. *(done)* Proofs of the invariants, the action properties and the three
   refinements above, and that the writer of `ManagedStreams` is an
   `OutputBuffer`.  Next: how many steps a destructor may take, the half of
   `DestructorsEnd` that is no matter of fairness, as `LoopsProgress` is that of
   `LoopsEnd`.
6. Clients without a response, and several connections to one server, whose
   handlers share what they keep.
