----------------------------- MODULE BufferPool -----------------------------
(***************************************************************************)
(* The pool of shared-memory buffers of Inc/IPC/Bond/BufferPool.h.         *)
(*                                                                         *)
(* An item (Blob, ConstBlob, Buffer or ConstBuffer; all of them are an     *)
(* ItemBase) holds a counted reference to a Data and a counted reference   *)
(* to the queue of the pool the Data was taken from.  A Data holds a blob  *)
(* (a vector of bytes) and a buffer (a vector of ConstBlob, items too).    *)
(* Items are copied freely, within a process and, as ConstBuffers, to      *)
(* another process; each process runs the destructors of its own items.    *)
(* The destructor returns a Data that nobody else refers to to its pool.   *)
(*                                                                         *)
(* The reference counts of SharedMemory::SharedPtr are atomic; the count   *)
(* of a Data is the number of items that refer to it, so it is not a       *)
(* variable of its own.  The count of a queue is the number of items that  *)
(* refer to it, plus one for the BufferPool object while it exists.        *)
(***************************************************************************)
EXTENDS FiniteSets

CONSTANTS
    Item,       \* objects derived from ItemBase (a bound on how many exist)
    Data,       \* places for a Data in the shared memory (a bound on memory)
    Pool,       \* BufferPool objects; each one has its own queue
    Process,    \* processes that map the memory
    Null,       \* the empty SharedPtr
    Host,       \* Host[q]: the process that constructed pool q
    MayCrash    \* the processes that may stop at any step

ASSUME Distinct ==
    /\ Null \notin Data \cup Pool \cup Process
    /\ Data \cap Process = {}
ASSUME HostType == Host \in [Pool -> Process]
ASSUME CrashType == MayCrash \subseteq Process

VARIABLES
    memory,     \* the Data objects that are constructed
    destroyer,  \* the process running the destructor of a Data, or Null
    bytes,      \* whether the m_blob of a Data is non-empty
    data,       \* ItemBase::m_data
    queue,      \* ItemBase::m_queue
    place,      \* the process an item belongs to, or the Data whose m_buffer
                \* it is an element of, or Null
    kind,       \* the class of an item
    phase,      \* how far an item has come, from Take to the end of ~ItemBase
    idle,       \* the contents of the queue of a pool
    open,       \* whether the BufferPool object exists
    alive       \* whether a process still runs

vars == <<memory, destroyer, bytes, data, queue, place, kind, phase,
          idle, open, alive>>

BlobKinds   == {"Blob", "ConstBlob"}
BufferKinds == {"Buffer", "ConstBuffer"}
Kinds       == BlobKinds \cup BufferKinds

\* "missed": Take found the queue empty; "unique": ~ItemBase saw the only
\* reference; "clearing": m_blob is cleared and m_buffer is being cleared;
\* "releasing": the body of ~ItemBase has ended; "released": so has ~m_queue.
Phases == {"none", "missed", "live", "unique", "clearing", "releasing",
           "released"}

TypeOK ==
    /\ memory \in SUBSET Data
    /\ destroyer \in [Data -> Process \cup {Null}]
    /\ bytes \in [Data -> BOOLEAN]
    /\ data \in [Item -> Data \cup {Null}]
    /\ queue \in [Item -> Pool \cup {Null}]
    /\ place \in [Item -> Process \cup Data \cup {Null}]
    /\ kind \in [Item -> Kinds]
    /\ phase \in [Item -> Phases]
    /\ idle \in [Pool -> SUBSET Data]
    /\ open \in [Pool -> BOOLEAN]
    /\ alive \in [Process -> BOOLEAN]

Init ==
    /\ memory = {}
    /\ destroyer = [d \in Data |-> Null]
    /\ bytes = [d \in Data |-> FALSE]
    /\ data = [i \in Item |-> Null]
    /\ queue = [i \in Item |-> Null]
    /\ place = [i \in Item |-> Null]
    /\ kind = [i \in Item |-> "Blob"]
    /\ phase = [i \in Item |-> "none"]
    /\ idle = [q \in Pool |-> {}]
    /\ open = [q \in Pool |-> TRUE]
    /\ alive = [p \in Process |-> TRUE]

-----------------------------------------------------------------------------
\* Mutant: the elements of a m_buffer are not counted.
HoldersInProcesses(d) == {i \in Item : data[i] = d /\ place[i] \in Process}

Holders(d) == {i \in Item : data[i] = d}
Users(q)   == {i \in Item : queue[i] = q}
Nested(d)  == {i \in Item : place[i] = d}

\* m_data.unique() of item i: false for an empty SharedPtr.
Unique(i) == data[i] # Null /\ Holders(data[i]) = {i}

\* Mutant: the reference is taken for the last one.
LastDataAlways(i) == IF data[i] # Null THEN {data[i]} ELSE {}

\* The Data, and the contents of the queue, that go when item i drops its
\* reference to them and no other reference is left.
LastData(i) == IF Unique(i) THEN {data[i]} ELSE {}

LastQueue(i) == {q \in Pool : queue[i] = q /\ Users(q) = {i} /\ ~open[q]}

IdleOf(Q) == UNION {idle[q] : q \in Q}

\* Process p destroys the Data of D: ~Data runs the destructors of the
\* elements of m_buffer first, when there are any, and then frees the memory.
Destroy(p, D) ==
    /\ memory' = memory \ {d \in D : Nested(d) = {}}
    /\ bytes' = [d \in Data |-> bytes[d] /\ d \notin D]
    /\ destroyer' = [d \in Data |->
            IF d \in D /\ Nested(d) # {} THEN p ELSE destroyer[d]]

\* The destruction of a queue destroys the Data in it.
DropQueues(Q) == idle' = [q \in Pool |-> IF q \in Q THEN {} ELSE idle[q]]

\* Item i comes to be with these members.
Create(i, d, q, w, k, f) ==
    /\ data' = [data EXCEPT ![i] = d]
    /\ queue' = [queue EXCEPT ![i] = q]
    /\ place' = [place EXCEPT ![i] = w]
    /\ kind' = [kind EXCEPT ![i] = k]
    /\ phase' = [phase EXCEPT ![i] = f]

\* Process p can name item i: it is p's own, or an element of the m_buffer
\* of a Data that an item of p refers to.
Reaches(p, i) ==
    \/ place[i] = p
    \/ \E j \in Item : place[j] = p /\ phase[j] = "live" /\ data[j] = place[i]

Usable(p, i) == phase[i] = "live" /\ data[i] # Null /\ Reaches(p, i)

-----------------------------------------------------------------------------
(* Impl::Take, called by TakeBlob and TakeBuffer: pop, or construct.       *)

\* Mutant: the Data that is handed out stays in the queue.
TakePeek(p, i, q, k) ==
    /\ alive[p]
    /\ phase[i] = "none" /\ open[q] /\ Host[q] = p
    /\ \E d \in idle[q] : Create(i, d, q, p, k, "live")
    /\ UNCHANGED <<memory, destroyer, bytes, idle, open, alive>>

TakePop(p, i, q, k) ==
    /\ alive[p]
    /\ phase[i] = "none" /\ open[q] /\ Host[q] = p
    /\ \E d \in idle[q] :
        /\ idle' = [idle EXCEPT ![q] = @ \ {d}]
        /\ Create(i, d, q, p, k, "live")
    /\ UNCHANGED <<memory, destroyer, bytes, open, alive>>

TakeMiss(p, i, q, k) ==
    /\ alive[p]
    /\ phase[i] = "none" /\ open[q] /\ Host[q] = p
    /\ idle[q] = {}
    /\ Create(i, Null, q, p, k, "missed")
    /\ UNCHANGED <<memory, destroyer, bytes, idle, open, alive>>

TakeNew(p, i) ==
    /\ alive[p]
    /\ phase[i] = "missed" /\ place[i] = p
    /\ \E d \in Data \ memory :
        /\ memory' = memory \cup {d}
        /\ data' = [data EXCEPT ![i] = d]
    /\ phase' = [phase EXCEPT ![i] = "live"]
    /\ UNCHANGED <<destroyer, bytes, queue, place, kind, idle, open, alive>>

\* MakeShared throws when the memory is full: no item is constructed.
TakeFails(p, i) ==
    /\ alive[p]
    /\ phase[i] = "missed" /\ place[i] = p
    /\ memory = Data
    /\ Create(i, Null, Null, Null, "Blob", "none")
    /\ UNCHANGED <<memory, destroyer, bytes, idle, open, alive>>

-----------------------------------------------------------------------------
(* The operations on items.                                                *)

\* The bytes of a Blob are written, or the vector is resized.
Write(p, i) ==
    /\ alive[p]
    /\ Usable(p, i) /\ place[i] = p /\ kind[i] = "Blob"
    /\ bytes' = [bytes EXCEPT ![data[i]] = TRUE]
    /\ UNCHANGED <<memory, destroyer, data, queue, place, kind, phase, idle,
                   open, alive>>

\* What a constructor makes of an item of each class.  ItemBase declares a
\* destructor, so it has no move constructor: a moved item is copied and the
\* source keeps its references.
Converts(k) ==
    CASE k = "Blob"        -> {"Blob", "ConstBlob"}
      [] k = "ConstBlob"   -> {"ConstBlob"}
      [] k = "Buffer"      -> {"Buffer", "ConstBuffer"}
      [] k = "ConstBuffer" -> {"ConstBuffer"}

\* Item i of process r is made from item j.  What goes from one process to
\* another is a ConstBuffer, in a queue of the transport.
Copy(p, r, i, j, k) ==
    /\ alive[p]
    /\ phase[i] = "none" /\ Usable(p, j) /\ k \in Converts(kind[j])
    /\ r # p => kind[j] = "ConstBuffer" /\ alive[r]
    /\ Create(i, data[j], queue[j], r, k, "live")
    /\ UNCHANGED <<memory, destroyer, bytes, idle, open, alive>>

\* Mutant: the element takes the queue of the buffer it is put in.
PushBackQueueOfBuffer(p, i, j, b) ==
    /\ alive[p]
    /\ phase[i] = "none"
    /\ Usable(p, b) /\ place[b] = p /\ kind[b] = "Buffer"
    /\ Usable(p, j) /\ kind[j] \in BlobKinds
    /\ Create(i, data[j], queue[b], data[b], "ConstBlob", "live")
    /\ UNCHANGED <<memory, destroyer, bytes, idle, open, alive>>

\* buffer->push_back(blob): a new ConstBlob i, made from j, in the Data of b.
PushBack(p, i, j, b) ==
    /\ alive[p]
    /\ phase[i] = "none"
    /\ Usable(p, b) /\ place[b] = p /\ kind[b] = "Buffer"
    /\ Usable(p, j) /\ kind[j] \in BlobKinds
    /\ Create(i, data[j], queue[j], data[b], "ConstBlob", "live")
    /\ UNCHANGED <<memory, destroyer, bytes, idle, open, alive>>

\* i = j.  The assignment of ItemBase assigns m_data and m_queue and does not
\* run ~ItemBase, so a last reference that it drops is not recycled.
Assign(p, i, j) ==
    /\ alive[p]
    /\ i # j /\ kind[i] = kind[j] /\ Usable(p, j)
    /\ phase[i] = "live" /\ place[i] = p
    /\ LET Q == IF queue[j] = queue[i] THEN {} ELSE LastQueue(i)
       IN  /\ Destroy(p, LastData(i) \cup IdleOf(Q))
           /\ DropQueues(Q)
    /\ data' = [data EXCEPT ![i] = data[j]]
    /\ queue' = [queue EXCEPT ![i] = queue[j]]
    /\ UNCHANGED <<place, kind, phase, open, alive>>

\* i = {}.  A default-constructed item is in the state that this leaves.
Reset(p, i) ==
    /\ alive[p]
    /\ phase[i] = "live" /\ place[i] = p /\ data[i] # Null
    /\ Destroy(p, LastData(i) \cup IdleOf(LastQueue(i)))
    /\ DropQueues(LastQueue(i))
    /\ data' = [data EXCEPT ![i] = Null]
    /\ queue' = [queue EXCEPT ![i] = Null]
    /\ UNCHANGED <<place, kind, phase, open, alive>>

-----------------------------------------------------------------------------
(* ~ItemBase, one step per access to what other threads share.             *)

\* The m_buffer of Data d is being emptied by process p: by the clear() of
\* ~ItemBase, or by ~Data.
Empties(p, d) ==
    \/ destroyer[d] = p
    \/ \E j \in Item : place[j] = p /\ data[j] = d /\ phase[j] = "clearing"

\* The destructor of item i runs in process p.
RunsIn(p, i) ==
    place[i] = p \/ \E d \in Data : place[i] = d /\ Empties(p, d)

\* Mutant: ~ItemBase does not ask whether its reference is the only one.
BeginUnchecked(p, i) ==
    /\ alive[p]
    /\ phase[i] = "live" /\ RunsIn(p, i)
    /\ place[i] \in Data =>
        \A j \in Nested(place[i]) : phase[j] = "live"
    /\ phase' = [phase EXCEPT ![i] =
            IF data[i] # Null THEN "unique" ELSE "releasing"]
    /\ UNCHANGED <<memory, destroyer, bytes, data, queue, place, kind, idle,
                   open, alive>>

\* Mutant: the elements of a vector wait for one another.
BeginAlone(p, i) ==
    /\ alive[p]
    /\ phase[i] = "live" /\ RunsIn(p, i)
    /\ place[i] \in Data => Nested(place[i]) = {i}
    /\ phase' = [phase EXCEPT ![i] =
            IF Unique(i) THEN "unique" ELSE "releasing"]
    /\ UNCHANGED <<memory, destroyer, bytes, data, queue, place, kind, idle,
                   open, alive>>

\* The vector destroys its elements one after the other.
Begin(p, i) ==
    /\ alive[p]
    /\ phase[i] = "live" /\ RunsIn(p, i)
    /\ place[i] \in Data =>
        \A j \in Nested(place[i]) : phase[j] = "live"
    /\ phase' = [phase EXCEPT ![i] =
            IF Unique(i) THEN "unique" ELSE "releasing"]
    /\ UNCHANGED <<memory, destroyer, bytes, data, queue, place, kind, idle,
                   open, alive>>

\* Mutant: m_blob is not cleared.
ClearNothing(p, i) ==
    /\ alive[p]
    /\ phase[i] = "unique" /\ RunsIn(p, i)
    /\ phase' = [phase EXCEPT ![i] = "clearing"]
    /\ UNCHANGED <<memory, destroyer, bytes, data, queue, place, kind, idle,
                   open, alive>>

Clear(p, i) ==
    /\ alive[p]
    /\ phase[i] = "unique" /\ RunsIn(p, i)
    /\ bytes' = [bytes EXCEPT ![data[i]] = FALSE]
    /\ phase' = [phase EXCEPT ![i] = "clearing"]
    /\ UNCHANGED <<memory, destroyer, data, queue, place, kind, idle, open,
                   alive>>

\* Mutant: m_buffer is not cleared.
RecycleWithElements(p, i) ==
    /\ alive[p]
    /\ phase[i] = "clearing" /\ RunsIn(p, i)
    /\ idle' = [idle EXCEPT ![queue[i]] = @ \cup {data[i]}]
    /\ data' = [data EXCEPT ![i] = Null]
    /\ phase' = [phase EXCEPT ![i] = "releasing"]
    /\ UNCHANGED <<memory, destroyer, bytes, queue, place, kind, open, alive>>

\* Mutant: what is pushed has been moved from.
RecycleMoved(p, i) ==
    /\ alive[p]
    /\ phase[i] = "clearing" /\ RunsIn(p, i) /\ Nested(data[i]) = {}
    /\ data' = [data EXCEPT ![i] = Null]
    /\ idle' = [idle EXCEPT ![queue[i]] = @ \cup {data'[i]}]
    /\ phase' = [phase EXCEPT ![i] = "releasing"]
    /\ UNCHANGED <<memory, destroyer, bytes, queue, place, kind, open, alive>>

\* m_queue->Push(std::move(m_data)), once the destructors of the elements of
\* m_buffer have run.
Recycle(p, i) ==
    /\ alive[p]
    /\ phase[i] = "clearing" /\ RunsIn(p, i) /\ Nested(data[i]) = {}
    /\ idle' = [idle EXCEPT ![queue[i]] = @ \cup {data[i]}]
    /\ data' = [data EXCEPT ![i] = Null]
    /\ phase' = [phase EXCEPT ![i] = "releasing"]
    /\ UNCHANGED <<memory, destroyer, bytes, queue, place, kind, open, alive>>

\* m_queue is declared after m_data, so it is destroyed first.
ReleaseQueue(p, i) ==
    /\ alive[p]
    /\ phase[i] = "releasing" /\ RunsIn(p, i)
    /\ Destroy(p, IdleOf(LastQueue(i)))
    /\ DropQueues(LastQueue(i))
    /\ queue' = [queue EXCEPT ![i] = Null]
    /\ phase' = [phase EXCEPT ![i] = "released"]
    /\ UNCHANGED <<data, place, kind, open, alive>>

ReleaseData(p, i) ==
    /\ alive[p]
    /\ phase[i] = "released" /\ RunsIn(p, i)
    /\ Destroy(p, LastData(i))
    /\ Create(i, Null, Null, Null, "Blob", "none")
    /\ UNCHANGED <<idle, open, alive>>

\* The end of ~Data, once the destructors of the elements of m_buffer have
\* run.
Free(p, d) ==
    /\ alive[p]
    /\ destroyer[d] = p /\ Nested(d) = {}
    /\ memory' = memory \ {d}
    /\ destroyer' = [destroyer EXCEPT ![d] = Null]
    /\ UNCHANGED <<bytes, data, queue, place, kind, phase, idle, open, alive>>

\* ~BufferPool, when no call of Take is under way.
Close(p, q) ==
    /\ alive[p]
    /\ open[q] /\ Host[q] = p
    /\ \A i \in Users(q) : phase[i] # "missed"
    /\ open' = [open EXCEPT ![q] = FALSE]
    /\ LET Q == IF Users(q) = {} THEN {q} ELSE {}
       IN  Destroy(p, IdleOf(Q)) /\ DropQueues(Q)
    /\ UNCHANGED <<data, queue, place, kind, phase, alive>>

\* A process stops: its destructors do not run, its references stay counted.
Crash(p) ==
    /\ alive[p]
    /\ p \in MayCrash
    /\ alive' = [alive EXCEPT ![p] = FALSE]
    /\ UNCHANGED <<memory, destroyer, bytes, data, queue, place, kind, phase,
                   idle, open>>

-----------------------------------------------------------------------------
Take(p) ==
    \E i \in Item :
        \/ \E q \in Pool, k \in {"Blob", "Buffer"} :
            TakePop(p, i, q, k) \/ TakeMiss(p, i, q, k)
        \/ TakeNew(p, i)
        \/ TakeFails(p, i)

Use(p) ==
    \E i \in Item :
        \/ Write(p, i)
        \/ Reset(p, i)
        \/ \E j \in Item :
            \/ \E r \in Process, k \in Kinds : Copy(p, r, i, j, k)
            \/ \E b \in Item : PushBack(p, i, j, b)
            \/ Assign(p, i, j)

\* The rest of a destructor that has begun, and the destructors of the
\* elements of a vector that is being emptied.
Finish(p, i) ==
    \/ Begin(p, i) /\ place[i] \in Data
    \/ Clear(p, i)
    \/ Recycle(p, i)
    \/ ReleaseQueue(p, i)
    \/ ReleaseData(p, i)

Next ==
    \E p \in Process :
        \/ Take(p)
        \/ Use(p)
        \/ \E i \in Item : Begin(p, i) \/ Finish(p, i)
        \/ \E d \in Data : Free(p, d)
        \/ \E q \in Pool : Close(p, q)
        \/ Crash(p)

Spec == Init /\ [][Next]_vars

\* A thread inside a destructor runs on to its end.
Fairness ==
    /\ \A i \in Item : WF_vars(\E p \in Process : Finish(p, i))
    /\ \A d \in Data : WF_vars(\E p \in Process : Free(p, d))

-----------------------------------------------------------------------------
(* Properties.                                                             *)

Readers(d) == {i \in Item : data[i] = d /\ phase[i] = "live"}

\* Between the test of m_data.unique() in ~ItemBase and the end of Push no
\* other item comes to refer to the Data, so that what is cleared and
\* recycled is not in use anywhere, in any process.
RecycledIsExclusive ==
    \A i \in Item : phase[i] \in {"unique", "clearing"} => Unique(i)

\* No item refers to a Data that is destroyed, that is being destroyed, or
\* that is in a queue, where Take would hand it out a second time.
NoDangling ==
    \A i \in Item : data[i] # Null =>
        /\ data[i] \in memory
        /\ destroyer[data[i]] = Null
        /\ \A q \in Pool : data[i] \notin idle[q]

\* What Take can pop is constructed, empty (m_blob and m_buffer cleared) and
\* in one queue once.
IdleIsClean ==
    \A q \in Pool : \A d \in idle[q] :
        /\ d \in memory /\ destroyer[d] = Null
        /\ ~bytes[d] /\ Nested(d) = {}
        /\ \A r \in Pool : d \in idle[r] => r = q

\* The items that share a Data agree on the queue it goes back to, whichever
\* of them turns out to be the last.
SameHome ==
    \A i, j \in Item :
        data[i] # Null /\ data[i] = data[j] /\ queue[i] # Null
            /\ queue[j] # Null => queue[i] = queue[j]

\* Nothing leaks: once the items of all processes are destroyed and the
\* pools too, no Data is left, even though a Data refers to other Data (its
\* m_buffer) and these to the queue.  A process that has crashed keeps its
\* items.
NoLeak ==
    /\ \A i \in Item : place[i] \notin Process
    /\ \A q \in Pool : ~open[q]
    /\ \A d \in Data : destroyer[d] = Null
    => memory = {}

\* A step takes nothing from a Data that has a reader before and after it:
\* its bytes stay, and no element of its m_buffer begins to be destroyed.
KeepsContents ==
    \A d \in Data : Readers(d) # {} /\ Readers(d)' # {} =>
        /\ bytes[d] => bytes'[d]
        /\ \A i \in Nested(d) :
            phase[i] = "live" => place'[i] = d /\ phase'[i] = "live"

\* What is shared by readers stays as it is, whatever the other items do.
ReadersKeepContents == [][KeepsContents]_vars

\* A destructor that has begun, and a ~Data that has begun, come to an end,
\* whatever the other processes do meanwhile.
DestructorEnds(i) ==
    phase[i] \in {"unique", "clearing", "releasing", "released"}
        ~> phase[i] = "none"

DestructionEnds(d) == destroyer[d] # Null ~> destroyer[d] = Null

\* What BufferPoolTests.cpp:60-68 and 134-142 expect: the Data that
\* "blob = {}" drops is the one that the next TakeBlob returns, so it is in
\* the queue of its pool after the assignment.
AssignmentRecycles ==
    [][\A i \in Item :
        phase[i] = "live" /\ Unique(i) /\ data'[i] = Null =>
            \E q \in Pool : queue[i] = q /\ data[i] \in idle'[q]]_vars

-----------------------------------------------------------------------------
(* The pool implements SharedData: its readers are the live items.         *)

Status(d) ==
    CASE d \notin memory                -> "free"
      [] \E q \in Pool : d \in idle[q]  -> "idle"
      [] OTHER                          -> "used"

Shared == INSTANCE SharedData WITH
    Reader  <- Item,
    status  <- [d \in Data |-> Status(d)],
    readers <- [d \in Data |-> Readers(d)],
    full    <- bytes

\* Every step of the pool is, for every Data, a step that SharedData allows.
SharesData == Shared!Spec
=============================================================================
