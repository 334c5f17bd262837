---------------------------- MODULE InputBuffer -----------------------------
(***************************************************************************)
(* Inc/IPC/Bond/InputBuffer.h: reading a ConstBuffer, a sequence of blobs  *)
(* some of which may be empty, as one stream of bytes, or a Range of it.   *)
(*                                                                         *)
(* The bytes of all blobs are numbered through from 0; blob b is the bytes *)
(* from start[b] up to start[b + 1].  A pointer into a blob is the number  *)
(* of a byte, and the iterator of blob b is b, end() being Blobs + 1.      *)
(***************************************************************************)
EXTENDS Integers

CONSTANTS
    Stream,     \* InputBuffer objects over one ConstBuffer
    Blobs,      \* how many blobs the buffer has
    Bytes,      \* a bound on the bytes in the buffer
    FastPath    \* sizeof(T) * 8 / 7 for the numbers of variable length

ASSUME Bounds == Blobs \in Nat /\ Bytes \in Nat /\ FastPath \in Nat

VARIABLES
    start,      \* where each blob of the buffer begins
    cur,        \* the members of each InputBuffer
    op,         \* the loop that is under way, if any
    outcome     \* of the last operation that ended: "ok" or "threw"

vars == <<start, cur, op, outcome>>

Iterator == 1 .. Blobs + 1

Cursor == [blob : Iterator, blobEnd : Iterator, ptr : Nat, ptrEnd : Nat,
           isEof : BOOLEAN, lastOffset : Nat]

NoOp == [kind |-> "none"]

Loop == [kind : {"multiple", "variable"}, stream : Stream, size : Nat,
         left : Nat, before : Cursor]

TypeOK ==
    /\ start \in [1 .. Blobs + 1 -> 0 .. Bytes]
    /\ cur \in [Stream -> Cursor]
    /\ op \in Loop \cup {NoOp}
    /\ outcome \in {"ok", "threw"}

Size(b) == start[b + 1] - start[b]

\* Mutant: empty blobs are not skipped.
FirstBlob(b, e) == b

\* SkipEmptyBlobs: the first blob from b on that has bytes, or e.
FirstWithBytes(b, e) ==
    CHOOSE c \in b .. e :
        /\ c = e \/ Size(c) # 0
        /\ \A x \in b .. c - 1 : Size(x) = 0

\* Mutant: the limit inside the last blob is forgotten.
AtWholeBlob(b, e, last) ==
    LET c == FirstWithBytes(b, e)
    IN  [blob |-> c, blobEnd |-> e, ptr |-> IF c = e THEN 0 ELSE start[c],
         ptrEnd |-> IF c = e THEN 0 ELSE start[c + 1],
         isEof |-> c = e, lastOffset |-> last]

\* UpdateData: the cursor at the begin of blob b, or of the next with bytes,
\* when the stream ends at e or, if last is not 0, last bytes into the blob
\* before e.  The null pointer is 0.
At(b, e, last) ==
    LET c == FirstWithBytes(b, e)
        p == IF c = e THEN 0 ELSE start[c]
        q == IF c = e THEN 0
             ELSE IF last # 0 /\ c + 1 = e THEN start[c] + last
             ELSE start[c + 1]
    IN  [blob |-> c, blobEnd |-> e, ptr |-> p, ptrEnd |-> q,
         isEof |-> c = e, lastOffset |-> last]

\* The InputBuffer that is default-constructed, or that has no buffer.
Nothing == [blob |-> Blobs + 1, blobEnd |-> Blobs + 1, ptr |-> 0,
            ptrEnd |-> 0, isEof |-> TRUE, lastOffset |-> 0]

Init ==
    /\ start \in {f \in [1 .. Blobs + 1 -> 0 .. Bytes] :
                    f[1] = 0 /\ \A b \in 1 .. Blobs : f[b] <= f[b + 1]}
    /\ cur = [s \in Stream |-> Nothing]
    /\ op = NoOp
    /\ outcome = "ok"

-----------------------------------------------------------------------------
(* The constructors, GetCurrentBuffer, GetBufferRange, CreateInputBuffer.  *)

Put(s, c) ==
    /\ op = NoOp
    /\ cur' = [cur EXCEPT ![s] = c]
    /\ outcome' = "ok"
    /\ UNCHANGED <<start, op>>

Open(s) == Put(s, At(1, Blobs + 1, 0))

GetCurrentBuffer(s, t) == Put(t, cur[s])

Offset(c) == IF c.isEof THEN 0 ELSE c.ptr - start[c.blob]

GetBufferRange(b, e) ==
    [firstBlob |-> b.blob, firstOffset |-> Offset(b),
     lastBlob  |-> e.blob, lastOffset  |-> Offset(e)]

FromRange(r) ==
    LET e == IF r.lastOffset # 0 THEN r.lastBlob + 1 ELSE r.lastBlob
        c == At(r.firstBlob, e, r.lastOffset)
    IN  IF c.isEof THEN c ELSE [c EXCEPT !.ptr = @ + r.firstOffset]

\* The number of the next byte, and of the first byte that is not delivered.
LimitOf(c) == IF c.lastOffset # 0 THEN start[c.blobEnd - 1] + c.lastOffset
              ELSE start[c.blobEnd]
PosOf(c)   == IF c.blob = c.blobEnd THEN LimitOf(c) ELSE c.ptr

\* Bond makes a range of two copies of the same stream, the second one taken
\* after the bytes of the range were read or skipped.
CreateInputBuffer(b, e, s) ==
    /\ cur[b].blobEnd = cur[e].blobEnd /\ cur[b].lastOffset = cur[e].lastOffset
    /\ PosOf(cur[b]) <= PosOf(cur[e]) /\ (cur[e].isEof \/ ~cur[b].isEof)
    /\ Put(s, FromRange(GetBufferRange(cur[b], cur[e])))

-----------------------------------------------------------------------------
(* Reading within a blob: Read<T>, Allocate, Read(bond::blob&).            *)

\* Mutant: nothing may end where the blob does.
FitsBelow(c, n) == c.ptr + n < c.ptrEnd /\ ~c.isEof

\* BeginRead does not throw.
Fits(c, n) == c.ptr + n <= c.ptrEnd /\ ~c.isEof

\* Mutant: no MoveNext at the end of a blob.
AdvanceInBlob(c, n) == [c EXCEPT !.ptr = @ + n]

\* EndRead, with MoveNext when the end of the blob is reached.
Advance(c, n) ==
    IF c.ptr + n # c.ptrEnd THEN [c EXCEPT !.ptr = @ + n]
    ELSE At(c.blob + 1, c.blobEnd, c.lastOffset)

Throw ==
    /\ op' = NoOp
    /\ outcome' = "threw"
    /\ UNCHANGED start

ReadSingle(s, n) ==
    /\ op = NoOp
    /\ \/ /\ Fits(cur[s], n)
          /\ cur' = [cur EXCEPT ![s] = Advance(@, n)]
          /\ outcome' = "ok"
          /\ UNCHANGED <<start, op>>
       \/ ~Fits(cur[s], n) /\ Throw /\ UNCHANGED cur

-----------------------------------------------------------------------------
(* ReadMultiple: Read(void*, size) and Skip, one iteration at a time.      *)

Begin(k, s, n) ==
    /\ op = NoOp
    /\ op' = [kind |-> k, stream |-> s, size |-> n, left |-> n,
              before |-> cur[s]]
    /\ UNCHANGED <<start, cur, outcome>>

ReadMultiple(s, n) == Begin("multiple", s, n)

\* Mutant: the rest of the blob is read, however little is wanted.
ChunkOfBlob(c) == c.ptrEnd - c.ptr

Chunk(c) == IF c.ptrEnd - c.ptr < op.left THEN c.ptrEnd - c.ptr ELSE op.left

\* ReadSingle(n) in the loop: the cursor and what is left move on together.
Step(n) ==
    /\ cur' = [cur EXCEPT ![op.stream] = Advance(@, n)]
    /\ op' = [op EXCEPT !.left = @ - n]
    /\ UNCHANGED <<start, outcome>>

Iterate ==
    LET n == Chunk(cur[op.stream])
    IN  /\ op.kind = "multiple" /\ op.left # 0
        /\ Fits(cur[op.stream], n)
        /\ Step(n)

\* Mutant: m_ptrEnd is not restored.
RollBackPartly ==
    LET s == op.stream
        b == op.before
    IN  /\ op.kind = "multiple" /\ op.left # 0
        /\ ~Fits(cur[s], Chunk(cur[s]))
        /\ cur' = [cur EXCEPT ![s].ptr = b.ptr, ![s].blob = b.blob,
                              ![s].isEof = (b.blob = cur[s].blobEnd)]
        /\ Throw

\* The handler restores m_ptr, m_ptrEnd and m_blob, and computes m_isEof.
RollBack ==
    LET s == op.stream
        b == op.before
    IN  /\ op.kind = "multiple" /\ op.left # 0
        /\ ~Fits(cur[s], Chunk(cur[s]))
        /\ cur' = [cur EXCEPT ![s].ptr = b.ptr, ![s].ptrEnd = b.ptrEnd,
                              ![s].blob = b.blob,
                              ![s].isEof = (b.blob = cur[s].blobEnd)]
        /\ Throw

-----------------------------------------------------------------------------
(* ReadVariableUnsigned of a number that is n bytes long.                  *)

ReadVariable(s, n) ==
    IF cur[s].ptr + FastPath < cur[s].ptrEnd
    THEN /\ op = NoOp
         /\ cur' = [cur EXCEPT ![s] = Advance(@, n)]
         /\ outcome' = "ok"
         /\ UNCHANGED <<start, op>>
    ELSE Begin("variable", s, n)

\* bond::GenericReadVariableUnsigned reads byte by byte.
NextByte ==
    /\ op.kind = "variable" /\ op.left # 0
    /\ \/ Fits(cur[op.stream], 1) /\ Step(1)
       \/ ~Fits(cur[op.stream], 1) /\ Throw /\ UNCHANGED cur

Return ==
    /\ op # NoOp /\ op.left = 0
    /\ op' = NoOp
    /\ outcome' = "ok"
    /\ UNCHANGED <<start, cur>>

-----------------------------------------------------------------------------
Next ==
    \/ \E s \in Stream :
        \/ Open(s)
        \/ \E t \in Stream : GetCurrentBuffer(s, t)
        \/ \E b, e \in Stream : CreateInputBuffer(b, e, s)
        \/ \E n \in 0 .. Bytes + 1 : ReadSingle(s, n) \/ ReadMultiple(s, n)
        \/ \E n \in 1 .. FastPath + 1 : ReadVariable(s, n)
    \/ Iterate
    \/ RollBack
    \/ NextByte
    \/ Return

Spec == Init /\ [][Next]_vars

\* A loop runs on to its end.
Fairness == WF_vars(Iterate) /\ WF_vars(RollBack) /\ WF_vars(NextByte)
                /\ WF_vars(Return)

FairSpec == Spec /\ Fairness

-----------------------------------------------------------------------------
(* Properties.                                                             *)

\* m_isEof agrees with the iterators (asserted at InputBuffer.h:83), a
\* stream that is not at its end stands in a blob with bytes, and it never
\* points outside what it may deliver of that blob.
CursorInBlob ==
    \A s \in Stream :
        LET c == cur[s]
        IN  /\ c.isEof <=> c.blob = c.blobEnd
            /\ c.blob <= c.blobEnd
            /\ ~c.isEof => /\ start[c.blob] <= c.ptr /\ c.ptr <= c.ptrEnd
                           /\ c.ptrEnd <= start[c.blob + 1]
                           /\ start[c.blob] < c.ptrEnd
                           /\ c.ptrEnd <= LimitOf(c)
            /\ c.isEof => c.ptr = c.ptrEnd

\* A loop that throws leaves every member of the stream as the caller had
\* it, and throws only when the bytes are not there.
ThrowRestores ==
    [][op.kind = "multiple" /\ op' = NoOp /\ outcome' = "threw" =>
        /\ cur'[op.stream] = op.before
        /\ PosOf(op.before) + op.size > LimitOf(op.before)]_vars

\* Some read delivers the last byte of the stream.
ReadsToEnd(s) ==
    /\ \/ Iterate \/ NextByte
       \/ \E n \in 0 .. Bytes + 1 : ReadSingle(s, n) \/ ReadVariable(s, n)
    /\ PosOf(cur[s]) < PosOf(cur'[s]) /\ PosOf(cur'[s]) = LimitOf(cur'[s])

NoticesEnd == \A s \in Stream : ReadsToEnd(s) => cur'[s].isEof

\* A stream whose last byte was read is at its end, however many empty blobs
\* follow and whether the limit is inside a blob or between blobs.
EofWhenDone == [][NoticesEnd]_vars

\* Every loop ends.
LoopsEnd == op # NoOp ~> op = NoOp

\* What InputBufferTests.cpp:379-389 expect of a range that ends where its
\* stream ends: an input over it delivers the bytes up to there, and then is
\* at its end.
RangeIsExact ==
    [][\A b, e, s \in Stream :
        CreateInputBuffer(b, e, s) /\ PosOf(cur[b]) < PosOf(cur[e]) =>
            LimitOf(cur'[s]) - PosOf(cur'[s]) = PosOf(cur[e]) - PosOf(cur[b])]_vars

-----------------------------------------------------------------------------
(* InputBuffer implements ByteStream; a loop takes effect when it ends.    *)

Seen(s) == IF op # NoOp /\ op.stream = s THEN op.before ELSE cur[s]

Abstract == INSTANCE ByteStream WITH
    total <- start[Blobs + 1],
    cuts  <- {start[b] : b \in Iterator},
    pos   <- [s \in Stream |-> PosOf(Seen(s))],
    limit <- [s \in Stream |-> LimitOf(Seen(s))]

\* A loop does not show while it is under way.  Each operation on a stream
\* does as ByteStream does when it is asked for the same: to read the same
\* number of bytes of that stream, or to place it.
AsAsked ==
    IF op' # NoOp THEN UNCHANGED Abstract!vars
    ELSE /\ op.kind = "multiple" => Abstract!ReadPieces(op.stream, op.size)
         /\ op.kind = "variable" => Abstract!ReadNumber(op.stream, op.size)
         /\ \A s \in Stream :
             /\ Open(s) => Abstract!Open(s)
             /\ \A t \in Stream : GetCurrentBuffer(s, t) => Abstract!Copy(s, t)
             /\ \A b, e \in Stream :
                 CreateInputBuffer(b, e, s) =>
                     Abstract!Slice(b, e, s) \/ Abstract!SliceOfNothing(b, s)
             /\ \A n \in 0 .. Bytes + 1 :
                 ReadSingle(s, n) => Abstract!ReadWhole(s, n)
             /\ \A n \in 1 .. FastPath + 1 :
                 ReadVariable(s, n) => Abstract!ReadNumber(s, n)

\* Whoever reads n bytes gets exactly the next n of that stream if they are
\* there, in one blob where they have to be, and else an exception, after
\* which the stream stands where it stood, or at its end if a number was cut
\* off (InputBuffer.h:24-160).
DeliversInOrder == Abstract!Spec /\ [][AsAsked]_vars
=============================================================================
