---------------------------- MODULE OutputBuffer ----------------------------
(***************************************************************************)
(* Inc/IPC/Bond/OutputBuffer.h: writing a stream of bytes into blobs of a  *)
(* pool.  Bytes are copied into the current blob; what already lies in     *)
(* blobs of the pool's memory is appended without copying it.              *)
(*                                                                         *)
(* Bytes are numbers.  A source buffer to be written has the layout of     *)
(* module InputBuffer, and its byte p is the number SourceByte(p).         *)
(***************************************************************************)
EXTENDS Integers, Sequences, SequencesExt

CONSTANTS
    Data,           \* what the pool has for this object (a bound on memory)
    MinBlobSize,    \* m_minBlobSize
    MaxBlobSize,    \* a bound on the size of a blob: resize throws beyond it
    Bytes,          \* a bound on how many bytes are written
    FastPath,       \* sizeof(T) * 8 / 7 for the numbers of variable length
    SourceBlobs,    \* how many blobs the source buffer has
    SourceBytes,    \* a bound on the bytes in the source buffer
    MaxInt          \* Int32::MaxValue

ASSUME Sizes ==
    /\ MinBlobSize \in Nat \ {0} /\ MaxBlobSize \in Nat
    /\ MinBlobSize <= MaxBlobSize
    /\ Bytes \in Nat /\ FastPath \in Nat
    /\ SourceBlobs \in Nat /\ SourceBytes \in Nat /\ MaxInt \in Nat

VARIABLES
    mem,        \* the contents of the vector of each Data
    blob,       \* the Data of m_blob
    ptr,        \* m_ptr, as an offset in the blob; m_ptrEnd is its size
    buffer,     \* the ConstBlobs of m_buffer
    op,         \* a write that takes several steps
    phase,      \* "open", "moved" by GetBuffer() &&, or "broken" by a throw
                \* between Merge and the end of TakeBlob
    log,        \* the bytes written so far (history)
    start,      \* the layout of the source buffer
    inPool      \* whether the source buffer lies in the memory of the pool

out  == <<mem, blob, ptr, buffer, phase, log>>
vars == <<out, op, start, inPool>>

In == INSTANCE InputBuffer WITH
    Stream <- {}, Blobs <- SourceBlobs, Bytes <- SourceBytes,
    cur <- <<>>, outcome <- "ok"

Total == start[SourceBlobs + 1]

SourceByte(p) == Bytes + 1 + p

\* The bytes of the source from byte a up to byte b.
SourceRange(a, b) == [k \in 1 .. b - a |-> SourceByte(a + k - 1)]

\* A ConstBlob: bytes of a Data that this object filled, or of the source.
Own(d, n)    == [own |-> TRUE, data |-> d, from |-> 0, to |-> n]
Piece(a, b)  == [own |-> FALSE, from |-> a, to |-> b]

BytesOf(c) == IF c.own THEN SubSeq(mem[c.data], c.from + 1, c.to)
              ELSE SourceRange(c.from, c.to)

BufferBytes == FlattenSeq([k \in DOMAIN buffer |-> BytesOf(buffer[k])])

Used == {blob} \cup {buffer[k].data : k \in {j \in DOMAIN buffer : buffer[j].own}}

NoOp == [kind |-> "none"]

TypeOK ==
    /\ mem \in [Data -> Seq(Nat)]
    /\ blob \in Data
    /\ ptr \in Nat
    /\ \A k \in DOMAIN buffer :
        \/ buffer[k] \in [own : {TRUE}, data : Data, from : Nat, to : Nat]
        \/ buffer[k] \in [own : {FALSE}, from : 0 .. Total, to : 0 .. Total]
    /\ \/ op = NoOp
       \/ op.kind = "variable" /\ op.left \in Nat
       \/ /\ op.kind = "pieces"
           /\ \A k \in DOMAIN op.left :
                op.left[k] \in [own : {FALSE}, from : 0 .. Total, to : 0 .. Total]
    /\ phase \in {"open", "moved", "broken"}
    /\ log \in Seq(Nat)

\* The vector of a Data from the pool is resized to its capacity, or to
\* m_minBlobSize if that is more; its bytes are not initialized.
Junk(n) == [k \in 1 .. n |-> 0]

Init ==
    /\ \E d \in Data, n \in MinBlobSize .. MaxBlobSize :
        /\ blob = d
        /\ mem = [e \in Data |-> IF e = d THEN Junk(n) ELSE <<>>]
    /\ ptr = 0
    /\ buffer = <<>>
    /\ op = NoOp
    /\ phase = "open"
    /\ log = <<>>
    /\ start \in {f \in [1 .. SourceBlobs + 1 -> 0 .. SourceBytes] :
                    f[1] = 0 /\ \A b \in 1 .. SourceBlobs : f[b] <= f[b + 1]}
    /\ inPool \in BOOLEAN

-----------------------------------------------------------------------------
(* Write(const void*, size) and Write<T>: Allocate and copy.               *)

\* What the size of the blob becomes when n more bytes do not fit.
Grown(n) == ptr + (IF n > MinBlobSize THEN n ELSE MinBlobSize)

\* The blob after Allocate, with room for n bytes at ptr.
Room(n) ==
    IF ptr + n < Len(mem[blob]) THEN mem[blob]
    ELSE mem[blob] \o Junk(Grown(n) - Len(mem[blob]))

\* resize throws when the memory is used up, and changes nothing then.
Fails(n) == ptr + n >= Len(mem[blob]) /\ Grown(n) > MaxBlobSize

\* memcpy of the bytes bs to m_ptr, in a blob whose vector is r.
Memcpy(r, bs) ==
    /\ mem' = [mem EXCEPT ![blob] =
                [k \in DOMAIN r |->
                    IF k \in ptr + 1 .. ptr + Len(bs) THEN bs[k - ptr] ELSE r[k]]]
    /\ ptr' = ptr + Len(bs)
    /\ log' = log \o bs
    /\ UNCHANGED <<blob, buffer, phase>>

\* Mutant: the blob is filled up, and what does not fit goes to the next one.
AppendSplit(bs) ==
    LET room == Len(mem[blob]) - ptr
    IN  \/ Len(bs) <= room /\ Memcpy(mem[blob], bs)
        \/ /\ Len(bs) > room
           /\ \E d \in Data \ Used :
                /\ blob' = d
                /\ mem' = [mem EXCEPT ![blob] = SubSeq(@, 1, ptr) \o SubSeq(bs, 1, room),
                            ![d] = SubSeq(bs, room + 1, Len(bs)) \o Junk(MinBlobSize)]
           /\ ptr' = Len(bs) - room
           /\ buffer' = buffer \o <<Own(blob, Len(mem[blob]))>>
           /\ log' = log \o bs
           /\ UNCHANGED phase

AppendBytes(bs) == ~Fails(Len(bs)) /\ Memcpy(Room(Len(bs)), bs)

Ready == phase = "open" /\ op = NoOp

\* The bytes that the caller provides are numbered as they come.
Fresh(n) == [k \in 1 .. n |-> Len(log) + k]

Write(n) ==
    /\ Ready /\ Len(log) + n <= Bytes
    /\ AppendBytes(Fresh(n))
    /\ UNCHANGED <<op, start, inPool>>

-----------------------------------------------------------------------------
(* WriteVariableUnsigned of a number that is n bytes long.                 *)

\* Mutant: the comparison admits one byte too many.
FitsAlmost == ptr + FastPath <= Len(mem[blob])

\* The longest encoding, of FastPath + 1 bytes, fits in the blob.
FitsVariable == ptr + FastPath < Len(mem[blob])

WriteVariable(n) ==
    /\ Ready /\ Len(log) + n <= Bytes
    /\ IF FitsVariable
       THEN Memcpy(mem[blob], Fresh(n)) /\ op' = op
       ELSE op' = [kind |-> "variable", left |-> n] /\ UNCHANGED out
    /\ UNCHANGED <<start, inPool>>

\* bond::GenericWriteVariableUnsigned writes byte by byte.
NextByte ==
    /\ op.kind = "variable" /\ op.left # 0
    /\ AppendBytes(Fresh(1))
    /\ op' = [op EXCEPT !.left = @ - 1]
    /\ UNCHANGED <<start, inPool>>

-----------------------------------------------------------------------------
(* Flush and GetBuffer.                                                    *)

\* Merge: the bytes written to the blob become a ConstBlob of the buffer.
MergedMem == IF ptr = 0 THEN mem ELSE [mem EXCEPT ![blob] = SubSeq(@, 1, ptr)]

\* Mutant: an empty blob is pushed too.
MergedAlways == buffer \o <<Own(blob, ptr)>>

MergedBuffer == IF ptr = 0 THEN buffer ELSE buffer \o <<Own(blob, ptr)>>

\* Mutant: what was copied before is not flushed.
PushOnly(b) ==
    /\ buffer' = buffer \o b
    /\ UNCHANGED <<mem, blob, ptr, phase>>

\* Mutant: the blob that was pushed is written to again.
PushAndRewind(b) ==
    /\ ptr' = 0
    /\ buffer' = MergedBuffer \o b
    /\ mem' = MergedMem
    /\ UNCHANGED <<blob, phase>>

\* Merge, then TakeBlob, then push_back of the blobs in b.
FlushAndPush(b) ==
    /\ IF ptr = 0 THEN UNCHANGED <<mem, blob, ptr>>
       ELSE \E d \in Data \ Used, n \in MinBlobSize .. MaxBlobSize :
            /\ blob' = d
            /\ mem' = [MergedMem EXCEPT ![d] = Junk(n)]
            /\ ptr' = 0
    /\ buffer' = MergedBuffer \o b
    /\ UNCHANGED phase

Flush ==
    /\ Ready
    /\ FlushAndPush(<<>>)
    /\ UNCHANGED <<op, log, start, inPool>>

\* GetBuffer() &&; GetBuffer() & is Flush, and GetBuffer() const & returns
\* the buffer as it is, if ptr = 0.
GetBuffer ==
    /\ Ready
    /\ mem' = MergedMem /\ buffer' = MergedBuffer
    /\ phase' = "moved"
    /\ UNCHANGED <<blob, ptr, op, log, start, inPool>>

\* Interop's ConstBuffer: the size of the buffer, and the bytes that CopyTo
\* copies to an array of that size.
GetSize == Len(BufferBytes)

CopyTo(size) ==
    LET end == CHOOSE k \in 1 .. Len(buffer) + 1 :
                /\ k = Len(buffer) + 1 \/ buffer[k].from = buffer[k].to
                /\ \A j \in 1 .. k - 1 : buffer[j].from # buffer[j].to
        bs  == FlattenSeq([k \in 1 .. end - 1 |-> BytesOf(buffer[k])])
    IN  IF size < Len(bs) THEN SubSeq(bs, 1, size) ELSE bs

\* The managed ConstBuffer: its Length is the size cast to an Int32.
Length ==
    IF GetSize <= MaxInt THEN GetSize
    ELSE ((GetSize + MaxInt + 1) % (2 * (MaxInt + 1))) - (MaxInt + 1)

\* CopyTo throws, or copies all that the length says to the given offset.
Insufficient(array, offset) == Length > 0 /\ offset + Length > Len(array)

CopyToArray(array, offset) ==
    IF Length <= 0 THEN array
    ELSE LET bs == CopyTo(Length)
         IN  [k \in DOMAIN array |->
                IF k \in offset + 1 .. offset + Len(bs) THEN bs[k - offset]
                ELSE array[k]]

-----------------------------------------------------------------------------
(* Write of a blob, a ConstBuffer or a Range of the source.                *)

BlobSize(b) == start[b + 1] - start[b]

SourcePiece(b, from, to) == Piece(start[b] + from, start[b] + to)

WholeBlob(b) == SourcePiece(b, 0, BlobSize(b))

IsEmpty(r) == r.firstBlob = r.lastBlob /\ r.firstOffset = r.lastOffset

\* Mutant: the size of the only piece is not reduced by its offset.
PieceUncut(r, b, last) ==
    LET from == IF b = r.firstBlob THEN r.firstOffset ELSE 0
        size == IF b = last /\ r.lastOffset # 0 THEN r.lastOffset ELSE BlobSize(b)
    IN  SourcePiece(b, from, from + size)

\* The part of blob b that lies in a range whose last piece is of blob last.
PieceOf(r, b, last) ==
    SourcePiece(b, IF b = r.firstBlob THEN r.firstOffset ELSE 0,
                IF b = last /\ r.lastOffset # 0 THEN r.lastOffset ELSE BlobSize(b))

\* Mutant: the blob that the range ends in is left out.
LastWholeBlob(r) == r.lastBlob - 1

LastPiece(r) == IF r.lastOffset # 0 THEN r.lastBlob ELSE r.lastBlob - 1

\* The blobs that Write(ConstBuffer::Range) writes, in this order.
Pieces(r) ==
    IF IsEmpty(r) THEN <<>>
    ELSE [k \in 1 .. LastPiece(r) + 1 - r.firstBlob |->
            PieceOf(r, r.firstBlob + k - 1, LastPiece(r))]

\* An InputBuffer over the source, at byte p.
InputAt(p) ==
    IF p = Total THEN In!Nothing
    ELSE LET b == CHOOSE b \in 1 .. SourceBlobs : start[b] <= p /\ p < start[b + 1]
         IN  [In!At(b, SourceBlobs + 1, 0) EXCEPT !.ptr = p]

\* What an InputBuffer over range r delivers.
RangeBytes(r) ==
    LET c == In!FromRange(r) IN SourceRange(In!PosOf(c), In!LimitOf(c))

Begin(ps, bs) ==
    /\ Ready /\ Len(log) + Len(bs) <= Bytes
    /\ op' = [kind |-> "pieces", left |-> ps, goal |-> log \o bs]
    /\ UNCHANGED <<out, start, inPool>>

\* A bond::blob that was read from blob b of the source, in part or whole.
BlobCast(b, from, to) == SourcePiece(b, from, to)

WriteBlob(b, from, to) ==
    Begin(<<BlobCast(b, from, to)>>, SourceRange(start[b] + from, start[b] + to))

WriteBuffer ==
    Begin([b \in 1 .. SourceBlobs |-> WholeBlob(b)], SourceRange(0, Total))

WriteRange(p, q) ==
    LET r == In!GetBufferRange(InputAt(p), InputAt(q))
    IN  p <= q /\ Begin(Pieces(r), RangeBytes(r))

\* Write(ConstBlob, ...): data() is null for an empty blob, and that is not
\* in the memory.
NextPiece ==
    LET c == Head(op.left)
    IN  /\ op.kind = "pieces" /\ op.left # <<>>
        /\ IF inPool /\ c.from < c.to
           THEN /\ FlushAndPush(<<c>>)
                /\ log' = log \o BytesOf(c)
           ELSE AppendBytes(BytesOf(c))
        /\ op' = [op EXCEPT !.left = Tail(@)]
        /\ UNCHANGED <<start, inPool>>

Return ==
    /\ phase = "open"
    /\ \/ op.kind = "variable" /\ op.left = 0
       \/ op.kind = "pieces" /\ op.left = <<>>
    /\ op' = NoOp
    /\ UNCHANGED <<out, start, inPool>>

-----------------------------------------------------------------------------
(* Exceptions.                                                             *)

\* resize throws in Allocate: what was written before remains.
AllocateThrows ==
    /\ phase = "open"
    /\ \/ op.kind = "variable" /\ op.left # 0 /\ Fails(1)
       \/ /\ op.kind = "pieces" /\ op.left # <<>>
          /\ LET c == Head(op.left)
             IN  ~(inPool /\ c.from < c.to) /\ Fails(c.to - c.from)
    /\ op' = NoOp
    /\ UNCHANGED <<out, start, inPool>>

\* TakeBlob throws after Merge: m_blob and m_ptr still are those of the blob
\* that was pushed, and the object is good for nothing but its destructor.
TakeBlobThrows ==
    /\ phase = "open" /\ ptr # 0 /\ Used = Data
    /\ \/ op = NoOp
       \/ /\ op.kind = "pieces" /\ op.left # <<>> /\ inPool
          /\ Head(op.left).from < Head(op.left).to
    /\ mem' = MergedMem /\ buffer' = MergedBuffer
    /\ op' = NoOp
    /\ phase' = "broken"
    /\ UNCHANGED <<blob, ptr, log, start, inPool>>

-----------------------------------------------------------------------------
Next ==
    \/ \E n \in 0 .. Bytes : Write(n)
    \/ \E n \in 1 .. FastPath + 1 : WriteVariable(n)
    \/ NextByte
    \/ Flush
    \/ GetBuffer
    \/ \E b \in 1 .. SourceBlobs : \E from \in 0 .. BlobSize(b) :
        \E to \in from .. BlobSize(b) : WriteBlob(b, from, to)
    \/ WriteBuffer
    \/ \E p, q \in 0 .. Total : WriteRange(p, q)
    \/ NextPiece
    \/ Return
    \/ AllocateThrows
    \/ TakeBlobThrows

Spec == Init /\ [][Next]_vars

-----------------------------------------------------------------------------
(* Properties.                                                             *)

\* m_ptr stays within the blob.
CursorInBlob == phase = "open" => ptr <= Len(mem[blob])

\* Whatever mixture of copied and appended bytes was written, the buffer and
\* the used part of the current blob hold all of it, in order.
ContentsInOrder ==
    IF phase = "open" THEN BufferBytes \o SubSeq(mem[blob], 1, ptr) = log
    ELSE BufferBytes = log

\* A buffer that is handed to managed code is copied completely there, to an
\* array with just enough room for it: CopyTo takes an empty blob for the end
\* (Interop/Src/detail/Interop/BufferPool.cpp lines 38-50), though GetSize
\* and Length count what is behind it.
CopiedCompletely ==
    GetSize <= MaxInt =>
        \A offset \in 0 .. MaxInt :
            LET array == Junk(offset + GetSize)
            IN  /\ ~Insufficient(array, offset)
                /\ SubSeq(CopyToArray(array, offset), offset + 1, Len(array))
                       = BufferBytes

KeepsChunks ==
    \A k \in DOMAIN buffer :
        k \in DOMAIN buffer' /\ BytesOf(buffer[k])' = BytesOf(buffer[k])

\* What is in the buffer, and may be read elsewhere, is never written again.
ChunksStay == [][KeepsChunks]_vars

\* A Range, which the caller describes by two iterators and two offsets, is
\* written as exactly the bytes that an InputBuffer over it would deliver.
WritesWholeRange ==
    op.kind = "pieces" =>
        log \o FlattenSeq([k \in DOMAIN op.left |-> BytesOf(op.left[k])]) = op.goal
=============================================================================
