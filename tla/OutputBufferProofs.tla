------------------------- MODULE OutputBufferProofs -------------------------
(***************************************************************************)
(* Proofs about OutputBuffer, for blobs, pools, sources and writes of any  *)
(* size: the cursor stays in its blob, what is in the buffer is never      *)
(* written again, and it is the bytes that were written, in their order.   *)
(*                                                                         *)
(* The first two need that the blob that is written to is none of the      *)
(* buffer, from the moment that TakeBlob has replaced it (Apart), and that *)
(* no write goes on after an exception in between (Busy).  What FlattenSeq *)
(* computes is shown by least counterexamples: the numbers of sequences    *)
(* for which it would not hold have no least one.                          *)
(***************************************************************************)
EXTENDS OutputBuffer, TLAPS, SequenceTheorems, WellFoundedInduction

Source == [own : {FALSE}, from : Nat, to : Nat]
Chunk  == [own : {TRUE}, data : Data, from : Nat, to : Nat] \cup Source

Layout  ==
    /\ start \in [1 .. SourceBlobs + 1 -> Nat] /\ start[1] = 0
    /\ \A b \in 1 .. SourceBlobs : start[b] <= start[b + 1]
Members == mem \in [Data -> Seq(Nat)] /\ blob \in Data /\ ptr \in Nat
Chunks  == buffer \in Seq(Chunk)
Logged  == log \in Seq(Nat)

\* The blob that is written to is none of those in the buffer.
Apart == phase = "open" =>
             \A k \in DOMAIN buffer : buffer[k].own => buffer[k].data # blob

\* What remains of a write that takes several steps.
Left ==
    /\ op.kind = "pieces" =>
           /\ op.left \in Seq(Source)
           /\ op = [kind |-> "pieces", left |-> op.left, goal |-> op.goal]
    /\ op.kind = "variable" => op = [kind |-> "variable", left |-> op.left]

Busy == op.kind \in {"pieces", "variable"} => phase = "open"

Core   == Members /\ Chunks /\ Apart /\ CursorInBlob
IndInv == Layout /\ Core /\ Logged /\ Left /\ Busy

\* A step leaves the chunks of the buffer where and what they are.
Stay ==
    \A k \in DOMAIN buffer :
        /\ k \in DOMAIN buffer' /\ buffer'[k] = buffer[k]
        /\ buffer[k].own => mem'[buffer[k].data] = mem[buffer[k].data]

-----------------------------------------------------------------------------
(* Sequences.                                                              *)

LEMMA IsSequence ==
    ASSUME NEW S, NEW n \in Nat, NEW f \in [1 .. n -> S]
    PROVE  f \in Seq(S) /\ Len(f) = n
<1>1. f \in Seq(S)
  BY SeqDef
<1>2. Len(f) \in Nat /\ DOMAIN f = 1 .. Len(f)
  BY <1>1, LenProperties
<1>3. QED
  BY <1>1, <1>2

LEMMA LeastElement ==
    ASSUME NEW S \in SUBSET Nat, S # {}
    PROVE  \E m \in S : \A k \in S : m <= k
<1>1. PICK m \in S : \A k \in S : ~ (<<k, m>> \in OpToRel(<, Nat))
  BY NatLessThanWellFounded, WFMin
<1>2. \A k \in S : ~ (k < m)
  BY <1>1 DEF OpToRel
<1>3. QED
  BY <1>2

LEMMA JunkFacts ==
    ASSUME NEW n \in Nat
    PROVE  Junk(n) \in Seq(Nat) /\ Len(Junk(n)) = n
<1>1. Junk(n) \in [1 .. n -> Nat]
  BY DEF Junk
<1>2. QED
  BY <1>1, IsSequence

\* The bytes of a source that is described by any two numbers.
LEMMA SourceRangeFacts ==
    ASSUME NEW a \in Nat, NEW b \in Nat
    PROVE  SourceRange(a, b) \in Seq(Nat)
<1>1. CASE b - a \in Nat
  <2>1. SourceRange(a, b) \in [1 .. b - a -> Nat]
    BY Sizes DEF SourceRange, SourceByte
  <2>2. QED
    BY <1>1, <2>1, IsSequence
<1>2. CASE b - a \notin Nat
  <2>1. 1 .. b - a = 1 .. 0
    BY <1>2
  <2>2. SourceRange(a, b) \in [1 .. 0 -> Nat]
    BY <2>1 DEF SourceRange
  <2>3. QED
    BY <2>2, IsSequence
<1>3. QED
  BY <1>1, <1>2

-----------------------------------------------------------------------------
(* Copying to the blob.                                                    *)

\* Allocate leaves room for what is to be written.
LEMMA RoomFacts ==
    ASSUME Core, phase = "open", NEW n \in Nat
    PROVE  Room(n) \in Seq(Nat) /\ ptr + n <= Len(Room(n))
<1>1. /\ mem[blob] \in Seq(Nat) /\ Len(mem[blob]) \in Nat /\ ptr \in Nat
      /\ ptr <= Len(mem[blob])
  BY LenProperties DEF Core, Members, CursorInBlob
<1>2. CASE ptr + n < Len(mem[blob])
  BY <1>1, <1>2 DEF Room
<1>3. CASE ~(ptr + n < Len(mem[blob]))
  <2>1. Grown(n) \in Nat /\ ptr + n <= Grown(n) /\ Len(mem[blob]) <= Grown(n)
    BY <1>1, <1>3, Sizes DEF Grown
  <2> DEFINE m == Grown(n) - Len(mem[blob])
  <2>2. m \in Nat
    BY <1>1, <2>1
  <2>3. Junk(m) \in Seq(Nat) /\ Len(Junk(m)) = m
    BY <2>2, JunkFacts
  <2>4. Room(n) = mem[blob] \o Junk(m)
    BY <1>3 DEF Room
  <2>5. Room(n) \in Seq(Nat) /\ Len(Room(n)) = Len(mem[blob]) + m
    BY <1>1, <2>3, <2>4, ConcatProperties
  <2>6. QED
    BY <1>1, <2>1, <2>5
<1>4. QED
  BY <1>2, <1>3

LEMMA MemcpyKeeps ==
    ASSUME Core, phase = "open", NEW r \in Seq(Nat), NEW bs \in Seq(Nat),
           ptr + Len(bs) <= Len(r), Memcpy(r, bs)
    PROVE  Core' /\ Stay
<1> DEFINE v == [k \in DOMAIN r |->
                    IF k \in ptr + 1 .. ptr + Len(bs) THEN bs[k - ptr] ELSE r[k]]
<1>1. /\ mem' = [mem EXCEPT ![blob] = v] /\ ptr' = ptr + Len(bs)
      /\ blob' = blob /\ buffer' = buffer /\ phase' = phase
  BY DEF Memcpy
<1>2. ptr \in Nat /\ blob \in Data /\ Len(bs) \in Nat /\ Len(r) \in Nat
  BY LenProperties DEF Core, Members
<1>3. v \in Seq(Nat) /\ Len(v) = Len(r)
  <2>1. DOMAIN r = 1 .. Len(r) /\ \A k \in 1 .. Len(r) : r[k] \in Nat
    BY LenProperties
  <2>2. \A k \in ptr + 1 .. ptr + Len(bs) : bs[k - ptr] \in Nat
    <3>1. \A i \in 1 .. Len(bs) : bs[i] \in Nat
      BY LenProperties
    <3>2. \A k \in ptr + 1 .. ptr + Len(bs) : k - ptr \in 1 .. Len(bs)
      BY <1>2
    <3>3. QED
      BY <3>1, <3>2
  <2>3. v \in [1 .. Len(r) -> Nat]
    BY <2>1, <2>2
  <2>4. QED
    BY <1>2, <2>3, IsSequence
<1> HIDE DEF v
<1>4. Members' /\ CursorInBlob'
  BY <1>1, <1>2, <1>3 DEF Core, Members, CursorInBlob
<1>5. Chunks' /\ Apart'
  BY <1>1 DEF Core, Chunks, Apart
<1>6. Stay
  <2>1. \A k \in DOMAIN buffer : buffer[k].own => buffer[k].data # blob
    BY DEF Core, Apart
  <2>2. \A k \in DOMAIN buffer : buffer[k].own => buffer[k].data \in Data
    <3>1. \A k \in DOMAIN buffer : buffer[k] \in Chunk
      BY LenProperties DEF Core, Chunks
    <3>2. QED
      BY <3>1 DEF Chunk, Source
  <2>3. QED
    BY <1>1, <2>1, <2>2 DEF Stay, Core, Members
<1>7. QED
  BY <1>4, <1>5, <1>6 DEF Core

LEMMA AppendKeeps ==
    ASSUME Core, phase = "open", NEW bs \in Seq(Nat), AppendBytes(bs)
    PROVE  Core' /\ Stay
<1>1. Len(bs) \in Nat /\ Memcpy(Room(Len(bs)), bs)
  BY LenProperties DEF AppendBytes
<1>2. QED
  BY <1>1, RoomFacts, MemcpyKeeps

-----------------------------------------------------------------------------
(* Pushing the blob to the buffer.                                         *)

\* Merge cuts the blob at the cursor, which is not in the buffer before.
LEMMA MergeFacts ==
    ASSUME Core, phase = "open"
    PROVE  /\ MergedMem \in [Data -> Seq(Nat)]
           /\ \A d \in Data \ {blob} : MergedMem[d] = mem[d]
           /\ MergedBuffer \in Seq(Chunk)
           /\ \A k \in DOMAIN buffer :
                  k \in DOMAIN MergedBuffer /\ MergedBuffer[k] = buffer[k]
           /\ \A k \in DOMAIN MergedBuffer :
                  \/ k \in DOMAIN buffer
                  \/ ptr # 0 /\ MergedBuffer[k] = Own(blob, ptr)
<1>1. /\ mem \in [Data -> Seq(Nat)] /\ blob \in Data /\ ptr \in Nat
      /\ ptr <= Len(mem[blob]) /\ buffer \in Seq(Chunk)
  BY DEF Core, Members, Chunks, CursorInBlob
<1>2. CASE ptr = 0
  BY <1>1, <1>2 DEF MergedMem, MergedBuffer
<1>3. CASE ptr # 0
  <2>1. SubSeq(mem[blob], 1, ptr) \in Seq(Nat)
    <3>1. Len(mem[blob]) \in Nat /\ \A i \in 1 .. Len(mem[blob]) : mem[blob][i] \in Nat
      BY <1>1, LenProperties
    <3>2. \A i \in 1 .. ptr : mem[blob][i] \in Nat
      BY <1>1, <3>1
    <3>3. QED
      BY <1>1, <3>2, SubSeqProperties
  <2>2. /\ MergedMem \in [Data -> Seq(Nat)]
        /\ \A d \in Data \ {blob} : MergedMem[d] = mem[d]
    BY <1>1, <1>3, <2>1 DEF MergedMem
  <2>3. Own(blob, ptr) \in Chunk
    BY <1>1 DEF Own, Chunk
  <2> DEFINE t == <<Own(blob, ptr)>>
  <2>4. t \in Seq(Chunk) /\ Len(t) = 1 /\ t[1] = Own(blob, ptr)
    BY <2>3
  <2> HIDE DEF t
  <2>5. MergedBuffer = buffer \o t
    BY <1>3 DEF MergedBuffer, t
  <2>6. /\ MergedBuffer \in Seq(Chunk) /\ Len(MergedBuffer) = Len(buffer) + 1
        /\ \A i \in 1 .. Len(buffer) + 1 :
               MergedBuffer[i] = IF i <= Len(buffer) THEN buffer[i]
                                 ELSE t[i - Len(buffer)]
    <3>1. buffer \in Seq(Chunk) /\ t \in Seq(Chunk)
      BY <1>1, <2>4
    <3>2. /\ buffer \o t \in Seq(Chunk)
          /\ Len(buffer \o t) = Len(buffer) + Len(t)
          /\ \A i \in 1 .. Len(buffer) + Len(t) :
                 (buffer \o t)[i] = IF i <= Len(buffer) THEN buffer[i]
                                    ELSE t[i - Len(buffer)]
      BY <3>1, ConcatProperties, Zenon
    <3>3. Len(t) = 1
      BY <2>4
    <3>4. QED
      BY <2>5, <3>2, <3>3
  <2>7. /\ Len(buffer) \in Nat /\ DOMAIN buffer = 1 .. Len(buffer)
        /\ DOMAIN MergedBuffer = 1 .. Len(buffer) + 1
    BY <1>1, <2>6, LenProperties
  <2>8. QED
    BY <1>3, <2>2, <2>4, <2>6, <2>7
<1>4. QED
  BY <1>1, <1>2, <1>3

\* The blobs of the buffer lie where Merge does not reach.
LEMMA ChunksApart ==
    ASSUME Core, phase = "open", NEW k \in DOMAIN buffer, buffer[k].own
    PROVE  /\ buffer[k].data \in Data \ {blob}
           /\ buffer[k].data \in Used
<1>1. buffer[k] \in Chunk
  BY LenProperties DEF Core, Chunks
<1>2. buffer[k].data \in Data
  BY <1>1 DEF Chunk, Source
<1>3. QED
  BY <1>2 DEF Core, Apart, Used

\* Merge at the end, or before an exception.
LEMMA MergeKeeps ==
    ASSUME Core, phase = "open", mem' = MergedMem, buffer' = MergedBuffer,
           blob' = blob, ptr' = ptr, phase' # "open"
    PROVE  Core' /\ Stay
<1>1. Members' /\ Chunks' /\ Apart' /\ CursorInBlob'
  BY MergeFacts DEF Core, Members, Chunks, Apart, CursorInBlob
<1>2. Stay
  BY MergeFacts, ChunksApart DEF Stay
<1>3. QED
  BY <1>1, <1>2 DEF Core

LEMMA FlushKeeps ==
    ASSUME Core, phase = "open", NEW b \in Seq(Source), FlushAndPush(b)
    PROVE  Core' /\ Stay
<1>1. buffer' = MergedBuffer \o b /\ phase' = phase
  BY DEF FlushAndPush
<1>2. MergedBuffer \in Seq(Chunk) /\ b \in Seq(Chunk)
  BY MergeFacts, SeqMonotonic DEF Chunk
<1>3. /\ Len(MergedBuffer) \in Nat /\ DOMAIN MergedBuffer = 1 .. Len(MergedBuffer)
      /\ Len(b) \in Nat /\ \A i \in 1 .. Len(b) : b[i] \in Source
  BY <1>2, LenProperties
<1>4. /\ buffer' \in Seq(Chunk) /\ Len(buffer') = Len(MergedBuffer) + Len(b)
      /\ \A i \in 1 .. Len(MergedBuffer) + Len(b) :
             buffer'[i] = IF i <= Len(MergedBuffer) THEN MergedBuffer[i]
                          ELSE b[i - Len(MergedBuffer)]
  BY <1>1, <1>2, ConcatProperties
<1>5. DOMAIN buffer' = 1 .. Len(MergedBuffer) + Len(b)
  BY <1>4, LenProperties
<1>6. /\ \A k \in DOMAIN MergedBuffer :
             k \in DOMAIN buffer' /\ buffer'[k] = MergedBuffer[k]
      /\ \A k \in DOMAIN buffer' :
             \/ k \in DOMAIN MergedBuffer
             \/ buffer'[k] \in Source
  BY <1>3, <1>4, <1>5
<1>7. \A k \in DOMAIN buffer : k \in DOMAIN buffer' /\ buffer'[k] = buffer[k]
  BY <1>6, MergeFacts
<1>8. \A k \in DOMAIN buffer' : buffer'[k].own =>
          \/ k \in DOMAIN buffer
          \/ ptr # 0 /\ buffer'[k] = Own(blob, ptr)
  BY <1>6, MergeFacts DEF Source
<1>9. CASE ptr = 0
  <2>1. UNCHANGED <<mem, blob, ptr>>
    BY <1>9 DEF FlushAndPush
  <2>2. Members' /\ CursorInBlob' /\ Chunks'
    BY <1>1, <1>4, <2>1 DEF Core, Members, CursorInBlob, Chunks
  <2>3. Apart'
    BY <1>7, <1>8, <1>9, <2>1, ChunksApart DEF Apart
  <2>4. Stay
    BY <1>7, <2>1 DEF Stay
  <2>5. QED
    BY <2>2, <2>3, <2>4 DEF Core
<1>10. CASE ptr # 0
  <2>1. PICK d \in Data \ Used, n \in MinBlobSize .. MaxBlobSize :
          /\ blob' = d /\ mem' = [MergedMem EXCEPT ![d] = Junk(n)] /\ ptr' = 0
    BY <1>10 DEF FlushAndPush
  <2>2. n \in Nat /\ d # blob
    BY Sizes DEF Used
  <2>3. Members' /\ Chunks' /\ CursorInBlob'
    <3>1. Junk(n) \in Seq(Nat)
      BY <2>2, JunkFacts
    <3>2. Members' /\ Chunks'
      BY <1>4, <2>1, <3>1, MergeFacts DEF Members, Chunks
    <3>3. mem'[blob'] \in Seq(Nat) /\ ptr' = 0
      BY <2>1, <3>2 DEF Members
    <3>4. Len(mem'[blob']) \in Nat
      BY <3>3, LenProperties
    <3>5. QED
      BY <3>2, <3>3, <3>4 DEF CursorInBlob
  <2>4. Apart'
    <3>1. \A k \in DOMAIN buffer' : buffer'[k].own => buffer'[k].data # d
      BY <1>7, <1>8, <2>1, <2>2, ChunksApart DEF Own
    <3>2. QED
      BY <2>1, <3>1 DEF Apart
  <2>5. Stay
    <3>1. ASSUME NEW k \in DOMAIN buffer, buffer[k].own
          PROVE  mem'[buffer[k].data] = mem[buffer[k].data]
      <4>1. buffer[k].data \in Data \ {blob} /\ buffer[k].data # d
        BY <2>1, <3>1, ChunksApart
      <4>2. QED
        BY <2>1, <4>1, MergeFacts
    <3>2. QED
      BY <1>7, <3>1 DEF Stay
  <2>6. QED
    BY <2>3, <2>4, <2>5 DEF Core
<1>11. QED
  BY <1>9, <1>10

-----------------------------------------------------------------------------
(* What is written of a source.                                            *)

LEMMA StartFacts ==
    ASSUME Layout
    PROVE  /\ SourceBlobs \in Nat /\ Total \in Nat
           /\ \A b \in 1 .. SourceBlobs + 1 : start[b] \in Nat
  BY Sizes DEF Layout, Total

LEMMA WholeBlobFacts ==
    ASSUME Layout, NEW b \in 1 .. SourceBlobs
    PROVE  WholeBlob(b) \in Source
<1>1. start[b] \in Nat /\ start[b + 1] \in Nat
  BY StartFacts
<1>2. QED
  BY <1>1 DEF WholeBlob, SourcePiece, BlobSize, Piece, Source

\* A bond::blob is a part of a blob of the source.
LEMMA BlobCastFacts ==
    ASSUME Layout, NEW b \in 1 .. SourceBlobs, NEW from \in 0 .. BlobSize(b),
           NEW to \in from .. BlobSize(b)
    PROVE  /\ BlobCast(b, from, to) \in Source
           /\ BlobCast(b, from, to).from = start[b] + from
           /\ BlobCast(b, from, to).to = start[b] + to
           /\ start[b] + from \in Nat /\ start[b] + to \in Nat
           /\ start[b] + from <= start[b] + to
           /\ start[b] + to <= start[b + 1]
<1>1. start[b] \in Nat /\ start[b + 1] \in Nat
  BY StartFacts
<1>2. from \in Nat /\ to \in Nat /\ from <= to /\ to <= start[b + 1] - start[b]
  BY <1>1 DEF BlobSize
<1>3. QED
  BY <1>1, <1>2 DEF BlobCast, SourcePiece, Piece, Source

\* Every byte of the source lies in a blob.
LEMMA ByteInBlob ==
    ASSUME Layout, NEW p \in 0 .. Total, p # Total
    PROVE  \E b \in 1 .. SourceBlobs : start[b] <= p /\ p < start[b + 1]
<1> DEFINE S == {b \in 1 .. SourceBlobs : p < start[b + 1]}
<1>1. SourceBlobs \in Nat /\ Total \in Nat /\ start[1] = 0 /\ p < Total
  BY StartFacts DEF Layout
<1>2. SourceBlobs # 0
  BY <1>1 DEF Total
<1>3. SourceBlobs \in S
  BY <1>1, <1>2 DEF Total
<1>4. PICK m \in S : \A k \in S : m <= k
  <2>1. S \in SUBSET Nat /\ S # {}
    BY <1>1, <1>3
  <2> HIDE DEF S
  <2>2. QED
    BY <2>1, LeastElement
<1>5. CASE m = 1
  BY <1>1, <1>4, <1>5
<1>6. CASE m # 1
  <2>1. m - 1 \in 1 .. SourceBlobs /\ m - 1 \notin S
    BY <1>1, <1>4, <1>6
  <2>2. start[(m - 1) + 1] <= p
    <3>1. start[(m - 1) + 1] \in Nat
      BY <2>1, StartFacts
    <3>2. QED
      BY <1>1, <2>1, <3>1
  <2>3. (m - 1) + 1 = m
    BY <1>1, <1>4
  <2>4. QED
    BY <1>4, <2>2, <2>3
<1>7. QED
  BY <1>5, <1>6

LEMMA Rising ==
    ASSUME Layout, NEW b \in 1 .. SourceBlobs + 1,
           NEW c \in 1 .. SourceBlobs + 1, b <= c
    PROVE  start[b] <= start[c]
<1> DEFINE S == {k \in b .. SourceBlobs + 1 : start[k] < start[b]}
<1>1. SourceBlobs \in Nat /\ \A k \in 1 .. SourceBlobs + 1 : start[k] \in Nat
  BY StartFacts
<1>2. SUFFICES ASSUME S # {} PROVE FALSE
  BY <1>1
<1>3. PICK m \in S : \A k \in S : m <= k
  <2>1. S \in SUBSET Nat
    BY <1>1
  <2> HIDE DEF S
  <2>2. QED
    BY <1>2, <2>1, LeastElement
<1>4. m # b /\ m - 1 \in b .. SourceBlobs + 1 /\ m - 1 \in 1 .. SourceBlobs
  BY <1>1, <1>3
<1>5. m - 1 \notin S
  BY <1>3, <1>4
<1>6. start[m - 1] <= start[(m - 1) + 1] /\ (m - 1) + 1 = m
  BY <1>1, <1>3, <1>4 DEF Layout
<1>7. start[m] \in Nat /\ start[m - 1] \in Nat /\ start[b] \in Nat
  BY <1>1, <1>3, <1>4
<1>8. QED
  BY <1>3, <1>4, <1>5, <1>6, <1>7

\* A blob that has bytes is not skipped.
LEMMA FirstIs ==
    ASSUME NEW b \in Nat, NEW e \in Nat, b <= e, b = e \/ In!Size(b) # 0
    PROVE  In!FirstWithBytes(b, e) = b
<1> DEFINE First(c) == /\ c = e \/ In!Size(c) # 0
                       /\ \A x \in b .. c - 1 : In!Size(x) = 0
<1>1. b \in b .. e /\ First(b)
  OBVIOUS
<1>2. \A c \in b .. e : First(c) => c = b
  <2>1. SUFFICES ASSUME NEW c \in b .. e, First(c), c # b PROVE FALSE
    OBVIOUS
  <2>2. b \in b .. c - 1 /\ b # e
    BY <2>1
  <2>3. In!Size(b) = 0
    BY <2>1, <2>2
  <2>4. QED
    BY <2>2, <2>3
<1>3. In!FirstWithBytes(b, e) = CHOOSE c \in b .. e : First(c)
  BY DEF In!FirstWithBytes
<1> HIDE DEF First
<1>4. QED
  BY <1>1, <1>2, <1>3

\* Where an InputBuffer at byte p is.
LEMMA InputAtFacts ==
    ASSUME Layout, NEW p \in 0 .. Total
    PROVE  LET c == InputAt(p)
           IN  /\ c.blob \in 1 .. SourceBlobs + 1
               /\ start[c.blob] <= p
               /\ In!Offset(c) = p - start[c.blob]
               /\ IF c.blob = SourceBlobs + 1 THEN p = Total
                  ELSE p < start[c.blob + 1]
<1>1. SourceBlobs \in Nat /\ Total \in Nat /\ Total = start[SourceBlobs + 1]
  BY StartFacts DEF Total
<1>2. CASE p = Total
  BY <1>1, <1>2 DEF InputAt, In!Nothing, In!Offset
<1>3. CASE p # Total
  <2> DEFINE b == CHOOSE b \in 1 .. SourceBlobs : start[b] <= p /\ p < start[b + 1]
  <2>1. b \in 1 .. SourceBlobs /\ start[b] <= p /\ p < start[b + 1]
    BY <1>3, ByteInBlob
  <2>2. start[b] \in Nat /\ start[b + 1] \in Nat
    BY <2>1, StartFacts
  <2>3. InputAt(p) = [In!At(b, SourceBlobs + 1, 0) EXCEPT !.ptr = p]
    BY <1>3 DEF InputAt
  <2> HIDE DEF b
  <2>4. In!FirstWithBytes(b, SourceBlobs + 1) = b
    <3>1. In!Size(b) # 0
      BY <2>1, <2>2 DEF In!Size
    <3>2. b \in Nat /\ SourceBlobs + 1 \in Nat /\ b <= SourceBlobs + 1
      BY <1>1, <2>1
    <3>3. QED
      BY <3>1, <3>2, FirstIs
  <2>5. /\ InputAt(p).blob = b /\ InputAt(p).ptr = p
        /\ InputAt(p).isEof <=> b = SourceBlobs + 1
    BY <2>3, <2>4 DEF In!At
  <2>6. b # SourceBlobs + 1
    BY <1>1, <2>1
  <2>7. In!Offset(InputAt(p)) = p - start[b]
    BY <2>5, <2>6 DEF In!Offset
  <2>8. QED
    BY <1>1, <2>1, <2>5, <2>6, <2>7
<1>4. QED
  BY <1>2, <1>3

LEMMA PiecesFacts ==
    ASSUME Layout, NEW p \in 0 .. Total, NEW q \in 0 .. Total
    PROVE  Pieces(In!GetBufferRange(InputAt(p), InputAt(q))) \in Seq(Source)
<1> DEFINE r == In!GetBufferRange(InputAt(p), InputAt(q))
<1>1. /\ r.firstBlob \in 1 .. SourceBlobs + 1 /\ r.firstOffset \in Nat
      /\ r.lastBlob \in 1 .. SourceBlobs + 1 /\ r.lastOffset \in Nat
      /\ r.lastOffset # 0 => r.lastBlob <= SourceBlobs
  <2>1. SourceBlobs \in Nat /\ \A b \in 1 .. SourceBlobs + 1 : start[b] \in Nat
    BY StartFacts
  <2>2. QED
    BY <2>1, InputAtFacts DEF In!GetBufferRange, Total
<1> HIDE DEF r
<1>2. SourceBlobs \in Nat
  BY StartFacts
<1>3. LastPiece(r) \in 0 .. SourceBlobs
  BY <1>1, <1>2 DEF LastPiece
<1>4. ASSUME NEW b \in r.firstBlob .. LastPiece(r)
      PROVE  PieceOf(r, b, LastPiece(r)) \in Source
  <2>1. start[b] \in Nat /\ BlobSize(b) \in Nat
    <3>1. b \in 1 .. SourceBlobs
      BY <1>1, <1>2, <1>3
    <3>2. start[b] \in Nat /\ start[b + 1] \in Nat /\ start[b] <= start[b + 1]
      BY <1>2, <3>1, StartFacts DEF Layout
    <3>3. QED
      BY <3>2 DEF BlobSize
  <2> DEFINE from == IF b = r.firstBlob THEN r.firstOffset ELSE 0
             to == IF b = LastPiece(r) /\ r.lastOffset # 0 THEN r.lastOffset
                   ELSE BlobSize(b)
  <2>2. from \in Nat /\ to \in Nat
    BY <1>1, <2>1
  <2>3. PieceOf(r, b, LastPiece(r)) = SourcePiece(b, from, to)
    BY DEF PieceOf
  <2> HIDE DEF from, to
  <2>4. QED
    BY <2>1, <2>2, <2>3 DEF SourcePiece, Piece, Source
<1> DEFINE n == LastPiece(r) + 1 - r.firstBlob
           f == [k \in 1 .. n |-> PieceOf(r, r.firstBlob + k - 1, LastPiece(r))]
<1>5. n \in Int
  BY <1>1, <1>3
<1>6. f \in [1 .. n -> Source]
  <2>1. ASSUME NEW k \in 1 .. n
        PROVE  r.firstBlob + k - 1 \in r.firstBlob .. LastPiece(r)
    BY <1>1, <1>3, <1>5
  <2>2. QED
    BY <1>4, <2>1
<1>7. f \in Seq(Source)
  <2>1. CASE n \in Nat
    BY <1>6, <2>1, IsSequence
  <2>2. CASE n \notin Nat
    <3>1. 1 .. n = 1 .. 0
      BY <1>5, <2>2
    <3>2. f \in [1 .. 0 -> Source]
      BY <1>6, <3>1
    <3>3. QED
      BY <3>2, IsSequence
  <2>3. QED
    BY <2>1, <2>2
<1>8. Pieces(r) = IF IsEmpty(r) THEN <<>> ELSE f
  BY DEF Pieces
<1>9. <<>> \in Seq(Source)
  BY EmptySeq
<1>10. QED
  BY <1>7, <1>8, <1>9 DEF r

-----------------------------------------------------------------------------
(* The invariant.                                                          *)

LEMMA InitEstablishes == Init => IndInv
<1>1. SUFFICES ASSUME Init PROVE IndInv
  OBVIOUS
<1>2. Layout
  BY <1>1, Sizes DEF Init, Layout
<1>3. PICK d \in Data, n \in MinBlobSize .. MaxBlobSize :
        blob = d /\ mem = [e \in Data |-> IF e = d THEN Junk(n) ELSE <<>>]
  BY <1>1 DEF Init
<1>4. n \in Nat /\ Junk(n) \in Seq(Nat) /\ Len(Junk(n)) = n
  BY Sizes, JunkFacts
<1>5. <<>> \in Seq(Nat) /\ <<>> \in Seq(Chunk)
  BY EmptySeq
<1>6. ptr = 0 /\ buffer = <<>> /\ op = NoOp /\ phase = "open"
  BY <1>1 DEF Init
<1>7. Members /\ Chunks /\ CursorInBlob
  BY <1>3, <1>4, <1>5, <1>6 DEF Members, Chunks, CursorInBlob
<1>8. Apart /\ Left /\ Busy /\ Logged
  BY <1>1, <1>5, <1>6 DEF Init, Apart, Left, Busy, NoOp, Logged
<1>9. QED
  BY <1>2, <1>7, <1>8 DEF IndInv, Core

\* The bytes that a caller provides.
LEMMA FreshFacts ==
    ASSUME IndInv, NEW n \in Nat
    PROVE  Fresh(n) \in Seq(Nat) /\ Len(Fresh(n)) = n
<1>1. Len(log) \in Nat
  BY LenProperties DEF IndInv, Logged
<1>2. Fresh(n) \in [1 .. n -> Nat]
  BY <1>1 DEF Fresh
<1>3. QED
  BY <1>2, IsSequence

\* What a source piece or the bytes of a caller add to the log.
LEMMA LogKeeps ==
    ASSUME IndInv, NEW bs \in Seq(Nat), log' = log \/ log' = log \o bs
    PROVE  Logged'
  BY ConcatProperties DEF IndInv, Logged

\* Steps that copy bytes to the blob.
LEMMA WriteKeeps ==
    ASSUME IndInv,
           \/ \E n \in 0 .. Bytes : Write(n)
           \/ \E n \in 1 .. FastPath + 1 : WriteVariable(n)
           \/ NextByte
    PROVE  IndInv' /\ Stay
<1>1. ASSUME NEW n \in 0 .. Bytes, Write(n)
      PROVE  IndInv' /\ Stay
  <2>1. /\ phase = "open" /\ AppendBytes(Fresh(n)) /\ op' = op /\ start' = start
    BY <1>1 DEF Write, Ready
  <2>2. Fresh(n) \in Seq(Nat)
    BY <1>1, FreshFacts
  <2>3. Core' /\ Stay
    BY <2>1, <2>2, AppendKeeps DEF IndInv
  <2>4. log' = log \o Fresh(n) /\ phase' = phase
    BY <2>1 DEF AppendBytes, Memcpy
  <2>5. Logged'
    BY <2>2, <2>4, LogKeeps
  <2>6. QED
    BY <2>1, <2>3, <2>4, <2>5 DEF IndInv, Layout, Left, Busy
<1>2. ASSUME NEW n \in 1 .. FastPath + 1, WriteVariable(n)
      PROVE  IndInv' /\ Stay
  <2>1. phase = "open" /\ start' = start /\ n \in Nat
    BY <1>2, Sizes DEF WriteVariable, Ready
  <2>2. Fresh(n) \in Seq(Nat) /\ Len(Fresh(n)) = n
    BY <2>1, FreshFacts
  <2>3. CASE FitsVariable
    <3>1. Memcpy(mem[blob], Fresh(n)) /\ op' = op
      BY <1>2, <2>3 DEF WriteVariable
    <3>2. /\ mem[blob] \in Seq(Nat) /\ Len(mem[blob]) \in Nat /\ ptr \in Nat
      BY LenProperties DEF IndInv, Core, Members
    <3>3. ptr + Len(Fresh(n)) <= Len(mem[blob])
      BY <2>1, <2>2, <2>3, <3>2, Sizes DEF FitsVariable
    <3>4. Core' /\ Stay
      BY <2>1, <2>2, <3>1, <3>2, <3>3, MemcpyKeeps DEF IndInv
    <3>5. log' = log \o Fresh(n) /\ phase' = phase
      BY <3>1 DEF Memcpy
    <3>6. Logged'
      BY <2>2, <3>5, LogKeeps
    <3>7. QED
      BY <2>1, <3>1, <3>4, <3>5, <3>6 DEF IndInv, Layout, Left, Busy
  <2>4. CASE ~FitsVariable
    <3>1. op' = [kind |-> "variable", left |-> n] /\ UNCHANGED out
      BY <1>2, <2>4 DEF WriteVariable
    <3>2. Left' /\ Busy'
      BY <2>1, <3>1 DEF Left, Busy, out
    <3>3. Layout' /\ Core' /\ Logged' /\ Stay
      BY <2>1, <3>1 DEF IndInv, Layout, Core, Members, Chunks, Apart,
         CursorInBlob, Logged, Stay, out
    <3>4. QED
      BY <3>2, <3>3 DEF IndInv
  <2>5. QED
    BY <2>3, <2>4
<1>3. ASSUME NextByte
      PROVE  IndInv' /\ Stay
  <2>1. /\ op.kind = "variable" /\ AppendBytes(Fresh(1)) /\ start' = start
        /\ op' = [op EXCEPT !.left = @ - 1]
    BY <1>3 DEF NextByte
  <2>2. phase = "open" /\ op = [kind |-> "variable", left |-> op.left]
    BY <2>1 DEF IndInv, Busy, Left
  <2>3. Fresh(1) \in Seq(Nat)
    BY FreshFacts
  <2>4. Core' /\ Stay
    BY <2>1, <2>2, <2>3, AppendKeeps DEF IndInv
  <2>5. log' = log \o Fresh(1) /\ phase' = phase
    BY <2>1 DEF AppendBytes, Memcpy
  <2>6. Logged'
    BY <2>3, <2>5, LogKeeps
  <2>7. op' = [kind |-> "variable", left |-> op.left - 1]
    BY <2>1, <2>2
  <2>8. Left' /\ Busy'
    BY <2>2, <2>5, <2>7 DEF Left, Busy
  <2>9. QED
    BY <2>1, <2>4, <2>6, <2>8 DEF IndInv, Layout
<1>4. QED
  BY <1>1, <1>2, <1>3

\* Steps that push the blob and end, with or without an exception.
LEMMA PushKeeps ==
    ASSUME IndInv, Flush \/ GetBuffer \/ TakeBlobThrows
    PROVE  IndInv' /\ Stay
<1>1. CASE Flush
  <2>1. /\ phase = "open" /\ FlushAndPush(<<>>)
        /\ UNCHANGED <<op, log, start>>
    BY <1>1 DEF Flush, Ready
  <2>2. <<>> \in Seq(Source)
    BY EmptySeq
  <2>3. Core' /\ Stay
    BY <2>1, <2>2, FlushKeeps DEF IndInv
  <2>4. phase' = phase
    BY <2>1 DEF FlushAndPush
  <2>5. QED
    BY <2>1, <2>3, <2>4 DEF IndInv, Layout, Logged, Left, Busy
<1>2. CASE GetBuffer
  <2>1. /\ phase = "open" /\ op = NoOp /\ mem' = MergedMem
        /\ buffer' = MergedBuffer /\ phase' = "moved"
        /\ UNCHANGED <<blob, ptr, op, log, start>>
    BY <1>2 DEF GetBuffer, Ready
  <2>2. Core' /\ Stay
    BY <2>1, MergeKeeps DEF IndInv
  <2>3. QED
    BY <2>1, <2>2 DEF IndInv, Layout, Logged, Left, Busy, NoOp
<1>3. CASE TakeBlobThrows
  <2>1. /\ phase = "open" /\ op' = NoOp /\ mem' = MergedMem
        /\ buffer' = MergedBuffer /\ phase' = "broken"
        /\ UNCHANGED <<blob, ptr, log, start>>
    BY <1>3 DEF TakeBlobThrows
  <2>2. Core' /\ Stay
    BY <2>1, MergeKeeps DEF IndInv
  <2>3. QED
    BY <2>1, <2>2 DEF IndInv, Layout, Logged, Left, Busy, NoOp
<1>4. QED
  BY <1>1, <1>2, <1>3

\* Steps that only change what remains to be written.
LEMMA OpKeeps ==
    ASSUME IndInv, UNCHANGED <<out, start>>,
           \/ op' = NoOp
           \/ /\ phase = "open"
              /\ \E ps \in Seq(Source) :
                     \E g : op' = [kind |-> "pieces", left |-> ps, goal |-> g]
    PROVE  IndInv' /\ Stay
<1>1. Layout' /\ Core' /\ Logged' /\ Stay
  BY DEF IndInv, Layout, Core, Members, Chunks, Apart, CursorInBlob, Logged,
     Stay, out
<1>2. CASE op' = NoOp
  BY <1>1, <1>2 DEF IndInv, Left, Busy, NoOp
<1>3. CASE phase = "open" /\ op' # NoOp
  <2>1. PICK ps \in Seq(Source) :
          \E g : op' = [kind |-> "pieces", left |-> ps, goal |-> g]
    BY <1>3
  <2>2. PICK g : op' = [kind |-> "pieces", left |-> ps, goal |-> g]
    BY <2>1
  <2>3. Left' /\ Busy'
    BY <1>3, <2>2 DEF Left, Busy, out
  <2>4. QED
    BY <1>1, <2>3 DEF IndInv
<1>4. QED
  BY <1>2, <1>3

LEMMA BeginKeeps ==
    ASSUME IndInv,
           \/ \E b \in 1 .. SourceBlobs : \E from \in 0 .. BlobSize(b) :
                \E to \in from .. BlobSize(b) : WriteBlob(b, from, to)
           \/ WriteBuffer
           \/ \E p, q \in 0 .. Total : WriteRange(p, q)
           \/ Return \/ AllocateThrows
    PROVE  IndInv' /\ Stay
<1>1. ASSUME NEW ps \in Seq(Source), NEW bs, Begin(ps, bs)
      PROVE  IndInv' /\ Stay
  BY <1>1, OpKeeps DEF Begin, Ready
<1>2. Layout
  BY DEF IndInv
<1>3. ASSUME NEW b \in 1 .. SourceBlobs, NEW from \in 0 .. BlobSize(b),
             NEW to \in from .. BlobSize(b), WriteBlob(b, from, to)
      PROVE  IndInv' /\ Stay
  <2>1. <<BlobCast(b, from, to)>> \in Seq(Source)
    BY <1>2, BlobCastFacts
  <2>2. QED
    BY <1>1, <1>3, <2>1 DEF WriteBlob
<1>4. CASE WriteBuffer
  <2> DEFINE ps == [b \in 1 .. SourceBlobs |-> WholeBlob(b)]
  <2>1. ps \in [1 .. SourceBlobs -> Source]
    BY <1>2, WholeBlobFacts
  <2>2. ps \in Seq(Source)
    BY <2>1, Sizes, IsSequence
  <2>3. QED
    BY <1>1, <1>4, <2>2 DEF WriteBuffer
<1>5. ASSUME NEW p \in 0 .. Total, NEW q \in 0 .. Total, WriteRange(p, q)
      PROVE  IndInv' /\ Stay
  <2> DEFINE r == In!GetBufferRange(InputAt(p), InputAt(q))
  <2>1. Pieces(r) \in Seq(Source)
    BY <1>2, PiecesFacts
  <2>2. Begin(Pieces(r), RangeBytes(r))
    BY <1>5 DEF WriteRange
  <2> HIDE DEF r
  <2>3. QED
    BY <1>1, <2>1, <2>2
<1>6. CASE Return \/ AllocateThrows
  BY <1>6, OpKeeps DEF Return, AllocateThrows
<1>7. QED
  BY <1>3, <1>4, <1>5, <1>6

LEMMA PieceKeeps ==
    ASSUME IndInv, NextPiece
    PROVE  IndInv' /\ Stay
<1> DEFINE c == Head(op.left)
<1>1. /\ op.kind = "pieces" /\ op.left # <<>> /\ start' = start
      /\ op' = [op EXCEPT !.left = Tail(@)]
  BY DEF NextPiece
<1>2. /\ op.left \in Seq(Source) /\ phase = "open"
      /\ op = [kind |-> "pieces", left |-> op.left, goal |-> op.goal]
  BY <1>1 DEF IndInv, Left, Busy
<1>3. c \in Source /\ Tail(op.left) \in Seq(Source)
  BY <1>1, <1>2, HeadTailProperties
<1> HIDE DEF c
<1>4. BytesOf(c) \in Seq(Nat)
  <2>1. ~c.own /\ c.from \in Nat /\ c.to \in Nat
    BY <1>3 DEF Source
  <2>2. QED
    BY <2>1, SourceRangeFacts DEF BytesOf
<1>5. \/ FlushAndPush(<<c>>) /\ log' = log \o BytesOf(c)
      \/ AppendBytes(BytesOf(c))
  BY DEF NextPiece, c
<1>6. /\ Core' /\ Stay
      /\ phase' = phase /\ log' = log \o BytesOf(c)
  <2>1. CASE FlushAndPush(<<c>>) /\ log' = log \o BytesOf(c)
    <3>1. <<c>> \in Seq(Source)
      BY <1>3
    <3>2. QED
      BY <1>2, <2>1, <3>1, FlushKeeps DEF IndInv, FlushAndPush
  <2>2. CASE AppendBytes(BytesOf(c))
    BY <1>2, <1>4, <2>2, AppendKeeps DEF IndInv, AppendBytes, Memcpy
  <2>3. QED
    BY <1>5, <2>1, <2>2
<1>7. Logged'
  BY <1>4, <1>6, LogKeeps
<1>8. op' = [kind |-> "pieces", left |-> Tail(op.left), goal |-> op.goal]
  BY <1>1, <1>2
<1>9. Left' /\ Busy'
  BY <1>2, <1>3, <1>6, <1>8 DEF Left, Busy
<1>10. QED
  BY <1>1, <1>6, <1>7, <1>9 DEF IndInv, Layout

LEMMA NextKeeps ==
    ASSUME IndInv, [Next]_vars
    PROVE  IndInv' /\ Stay
<1>1. CASE UNCHANGED vars
  BY <1>1 DEF vars, out, IndInv, Layout, Core, Members, Chunks, Apart,
     CursorInBlob, Left, Busy, Logged, Stay
<1>2. QED
  BY <1>1, WriteKeeps, PushKeeps, BeginKeeps, PieceKeeps DEF Next

-----------------------------------------------------------------------------
(* Theorems about the cursor and the chunks.                               *)

\* Every reachable state satisfies the invariant.
THEOREM Invariance == Spec => []IndInv
  BY InitEstablishes, NextKeeps, PTL DEF Spec

\* m_ptr never leaves the blob, though Allocate grows it and the fast path
\* of numbers of variable length fills it (OutputBuffer.h:45-60).
THEOREM CursorAlwaysInBlob == Spec => []CursorInBlob
<1>1. IndInv => CursorInBlob
  BY DEF IndInv, Core
<1>2. QED
  BY <1>1, Invariance, PTL

\* What was pushed to the buffer, and may have readers, is never written
\* again, also if the pool is used up in the middle of a write
\* (OutputBuffer.h:160-203).
THEOREM ChunksAlwaysStay == Spec => ChunksStay
<1>1. IndInv /\ [Next]_vars => [KeepsChunks]_vars
  <2>1. SUFFICES ASSUME IndInv, [Next]_vars PROVE KeepsChunks
    OBVIOUS
  <2>2. Stay
    BY <2>1, NextKeeps
  <2>3. QED
    BY <2>2 DEF Stay, KeepsChunks, BytesOf, SourceRange
<1>2. QED
  BY <1>1, Invariance, PTL DEF Spec, ChunksStay

-----------------------------------------------------------------------------
(* FlattenSeq.                                                             *)

LEMMA Associative ==
    \A T : \A x, y, z \in Seq(T) : (x \o y) \o z = x \o (y \o z)
<1> SUFFICES ASSUME NEW T, NEW x \in Seq(T), NEW y \in Seq(T), NEW z \in Seq(T)
             PROVE  (x \o y) \o z = x \o (y \o z)
  OBVIOUS
<1> QED
  BY ConcatAssociative

LEMMA AssociativeBytes ==
    \A x, y, z \in Seq(Nat) : (x \o y) \o z = x \o (y \o z)
<1> SUFFICES ASSUME NEW x \in Seq(Nat), NEW y \in Seq(Nat), NEW z \in Seq(Nat)
             PROVE  (x \o y) \o z = x \o (y \o z)
  OBVIOUS
<1> QED
  BY ConcatAssociative

\* The recursive function that FlattenSeq evaluates, on the first n sequences.
Flattens(f, s, n) ==
    f = [i \in 1 .. n |-> IF i = 1 THEN s[i] ELSE f[i - 1] \o s[i]]

LEMMA FlattensExists ==
    ASSUME NEW T, NEW s \in Seq(Seq(T)), NEW n \in 0 .. Len(s)
    PROVE  \E f : Flattens(f, s, n) /\ \A i \in 1 .. n : f[i] \in Seq(T)
<1> DEFINE Good(m) ==
        \E f : Flattens(f, s, m) /\ \A i \in 1 .. m : f[i] \in Seq(T)
    Bad == {m \in 0 .. Len(s) : ~Good(m)}
<1>1. Len(s) \in Nat /\ \A i \in 1 .. Len(s) : s[i] \in Seq(T)
  BY LenProperties
<1>2. Good(0)
  <2> DEFINE f == [i \in 1 .. 0 |-> 0]
  <2>1. f = [i \in 1 .. 0 |-> IF i = 1 THEN s[i] ELSE f[i - 1] \o s[i]]
    OBVIOUS
  <2> HIDE DEF f
  <2>2. Flattens(f, s, 0)
    BY <2>1 DEF Flattens
  <2>3. QED
    BY <2>2
<1>3. ASSUME NEW m \in 0 .. Len(s), m + 1 \in 0 .. Len(s), Good(m)
      PROVE  Good(m + 1)
  <2>1. PICK f : Flattens(f, s, m) /\ \A i \in 1 .. m : f[i] \in Seq(T)
    BY <1>3
  <2> DEFINE next == IF m = 0 THEN s[1] ELSE f[m] \o s[m + 1]
             g == [i \in 1 .. m + 1 |-> IF i = m + 1 THEN next ELSE f[i]]
  <2>2. next \in Seq(T)
    <3>1. CASE m = 0
      BY <1>1, <1>3, <3>1
    <3>2. CASE m # 0
      <4>1. f[m] \in Seq(T) /\ s[m + 1] \in Seq(T)
        BY <1>1, <1>3, <2>1, <3>2
      <4>2. QED
        BY <3>2, <4>1, ConcatProperties
    <3>3. QED
      BY <3>1, <3>2
  <2>3. \A i \in 1 .. m : f[i] = IF i = 1 THEN s[i] ELSE f[i - 1] \o s[i]
    BY <2>1 DEF Flattens
  <2>4. \A i \in 1 .. m : g[i] = f[i]
    BY <1>1
  <2>5. g[m + 1] = next
    BY <1>1
  <2>6. \A i \in 1 .. m + 1 : g[i] \in Seq(T)
    BY <1>1, <2>1, <2>2, <2>4, <2>5
  <2>7. ASSUME NEW i \in 1 .. m + 1
        PROVE  g[i] = IF i = 1 THEN s[i] ELSE g[i - 1] \o s[i]
    <3>1. CASE i = m + 1
      <4>1. CASE m = 0
        BY <2>5, <3>1, <4>1
      <4>2. CASE m # 0
        <5>1. i - 1 = m /\ g[m] = f[m] /\ i # 1
          BY <1>1, <2>4, <3>1, <4>2
        <5>2. QED
          BY <2>5, <3>1, <4>2, <5>1
      <4>3. QED
        BY <4>1, <4>2
    <3>2. CASE i # m + 1
      <4>1. i \in 1 .. m /\ (i # 1 => i - 1 \in 1 .. m)
        BY <1>1, <3>2
      <4>2. QED
        BY <2>3, <2>4, <4>1
    <3>3. QED
      BY <3>1, <3>2
  <2>8. g = [i \in 1 .. m + 1 |-> g[i]]
    OBVIOUS
  <2> HIDE DEF g
  <2>9. Flattens(g, s, m + 1)
    BY <2>7, <2>8 DEF Flattens
  <2>10. QED
    BY <2>6, <2>9
<1> HIDE DEF Good
<1>4. Bad = {}
  <2>1. SUFFICES ASSUME Bad # {} PROVE FALSE
    OBVIOUS
  <2>2. Bad \in SUBSET Nat
    OBVIOUS
  <2>3. PICK m \in Bad : \A k \in Bad : m <= k
    BY <2>1, <2>2, LeastElement
  <2>4. m # 0 /\ m \in 0 .. Len(s)
    BY <1>2, <2>3
  <2>5. m - 1 \in 0 .. Len(s) /\ (m - 1) + 1 = m
    BY <1>1, <2>4
  <2>6. Good(m - 1)
    BY <1>1, <2>3, <2>4, <2>5
  <2>7. QED
    BY <1>3, <2>3, <2>4, <2>5, <2>6
<1>5. QED
  BY <1>4 DEF Good

LEMMA FlattensUnique ==
    ASSUME NEW s, NEW t, NEW n \in Nat, NEW m \in Nat, n <= m,
           \A i \in 1 .. n : s[i] = t[i],
           NEW f, Flattens(f, s, n), NEW g, Flattens(g, t, m)
    PROVE  \A i \in 1 .. n : f[i] = g[i]
<1> DEFINE Bad == {i \in 1 .. n : f[i] # g[i]}
<1>1. SUFFICES ASSUME Bad # {} PROVE FALSE
  OBVIOUS
<1>2. Bad \in SUBSET Nat
  OBVIOUS
<1>3. PICK i \in Bad : \A k \in Bad : i <= k
  BY <1>1, <1>2, LeastElement
<1>4. /\ \A k \in 1 .. n : f[k] = IF k = 1 THEN s[k] ELSE f[k - 1] \o s[k]
      /\ \A k \in 1 .. n : g[k] = IF k = 1 THEN t[k] ELSE g[k - 1] \o t[k]
  <2>1. \A k \in 1 .. n : f[k] = IF k = 1 THEN s[k] ELSE f[k - 1] \o s[k]
    BY DEF Flattens
  <2>2. \A k \in 1 .. m : g[k] = IF k = 1 THEN t[k] ELSE g[k - 1] \o t[k]
    BY DEF Flattens
  <2>3. QED
    BY <2>1, <2>2
<1>5. i # 1
  BY <1>3, <1>4
<1>6. i - 1 \in 1 .. n /\ f[i - 1] = g[i - 1]
  BY <1>3, <1>5
<1>7. f[i] = g[i]
  BY <1>3, <1>4, <1>5, <1>6
<1>8. QED
  BY <1>3, <1>7

\* FlattenSeq of a sequence that is not empty.
LEMMA FlattenFacts ==
    ASSUME NEW T, NEW s \in Seq(Seq(T)), s # <<>>
    PROVE  /\ FlattenSeq(s) \in Seq(T)
           /\ \E f : /\ Flattens(f, s, Len(s)) /\ FlattenSeq(s) = f[Len(s)]
                     /\ \A i \in 1 .. Len(s) : f[i] \in Seq(T)
<1> DEFINE f == CHOOSE f : Flattens(f, s, Len(s))
<1>1. Len(s) \in Nat \ {0}
  BY EmptySeq
<1>2. PICK g : /\ Flattens(g, s, Len(s))
               /\ \A i \in 1 .. Len(s) : g[i] \in Seq(T)
  BY <1>1, FlattensExists
<1>3. Flattens(f, s, Len(s))
  BY <1>2
<1>4. FlattenSeq(s) = f[Len(s)]
  BY <1>1 DEF FlattenSeq, Flattens
<1> HIDE DEF f
<1>5. \A i \in 1 .. Len(s) : f[i] = g[i]
  BY <1>1, <1>2, <1>3, FlattensUnique
<1>6. \A i \in 1 .. Len(s) : f[i] \in Seq(T)
  BY <1>2, <1>5
<1>7. FlattenSeq(s) \in Seq(T)
  BY <1>1, <1>4, <1>6
<1>8. QED
  BY <1>3, <1>4, <1>6, <1>7

\* The flattened prefixes of s, from the empty one on.
Partials(h, s) ==
    h[0] = <<>> /\ \A i \in 1 .. Len(s) : h[i] = h[i - 1] \o s[i]

LEMMA PartialsExist ==
    ASSUME NEW T, NEW s \in Seq(Seq(T))
    PROVE  \E h : Partials(h, s) /\ \A i \in 0 .. Len(s) : h[i] \in Seq(T)
<1> DEFINE n == Len(s)
<1>1. n \in Nat /\ n \in 0 .. Len(s) /\ \A i \in 1 .. n : s[i] \in Seq(T)
  BY LenProperties
<1>2. PICK f : Flattens(f, s, n) /\ \A i \in 1 .. n : f[i] \in Seq(T)
  BY <1>1, FlattensExists
<1>3. \A i \in 1 .. n : f[i] = IF i = 1 THEN s[i] ELSE f[i - 1] \o s[i]
  BY <1>2 DEF Flattens
<1> DEFINE h == [i \in 0 .. n |-> IF i = 0 THEN <<>> ELSE f[i]]
<1> HIDE DEF n
<1>4. h[0] = <<>> /\ \A i \in 1 .. n : h[i] = f[i]
  BY <1>1
<1> HIDE DEF h
<1>5. <<>> \in Seq(T)
  BY EmptySeq
<1>6. ASSUME NEW i \in 0 .. n
      PROVE  h[i] \in Seq(T)
  <2>1. CASE i = 0
    BY <1>4, <1>5, <2>1
  <2>2. CASE i # 0
    <3>1. i \in 1 .. n
      BY <1>1, <2>2
    <3>2. h[i] = f[i] /\ f[i] \in Seq(T)
      BY <1>2, <1>4, <3>1
    <3>3. QED
      BY <3>2
  <2>3. QED
    BY <2>1, <2>2
<1>7. ASSUME NEW i \in 1 .. n
      PROVE  h[i] = h[i - 1] \o s[i]
  <2>1. CASE i = 1
    <3>1. h[i] = s[i] /\ h[i - 1] = <<>> /\ s[i] \in Seq(T)
      BY <1>1, <1>3, <1>4, <2>1
    <3>2. QED
      BY <3>1, ConcatEmptySeq
  <2>2. CASE i # 1
    <3>1. i - 1 \in 1 .. n
      BY <1>1, <2>2
    <3>2. QED
      BY <1>3, <1>4, <2>2, <3>1
  <2>3. QED
    BY <2>1, <2>2
<1>8. QED
  BY <1>4, <1>6, <1>7 DEF Partials, n

LEMMA FlattenIs ==
    ASSUME NEW T, NEW s \in Seq(Seq(T)), NEW h, Partials(h, s)
    PROVE  FlattenSeq(s) = h[Len(s)]
<1>1. CASE s = <<>>
  <2>1. FlattenSeq(s) = <<>>
    BY <1>1 DEF FlattenSeq
  <2>2. Len(s) = 0
    BY <1>1
  <2>3. QED
    BY <2>1, <2>2 DEF Partials
<1>2. CASE s # <<>>
  <2> DEFINE n == Len(s)
  <2>1. n \in Nat \ {0} /\ \A i \in 1 .. n : s[i] \in Seq(T)
    BY <1>2, EmptySeq, LenProperties
  <2>2. PICK f : Flattens(f, s, n) /\ FlattenSeq(s) = f[n]
    BY <1>2, FlattenFacts
  <2>3. \A i \in 1 .. n : f[i] = IF i = 1 THEN s[i] ELSE f[i - 1] \o s[i]
    BY <2>2 DEF Flattens
  <2>4. h[0] = <<>> /\ \A i \in 1 .. n : h[i] = h[i - 1] \o s[i]
    BY DEF Partials
  <2> HIDE DEF n
  <2> DEFINE Bad == {i \in 1 .. n : f[i] # h[i]}
  <2>5. Bad = {}
    <3>1. SUFFICES ASSUME Bad # {} PROVE FALSE
      OBVIOUS
    <3>2. Bad \in SUBSET Nat
      OBVIOUS
    <3>3. PICK i \in Bad : \A k \in Bad : i <= k
      BY <3>1, <3>2, LeastElement
    <3>4. i \in 1 .. n /\ f[i] # h[i]
      BY <3>3
    <3>5. CASE i = 1
      <4>1. 1 \in 1 .. n /\ 1 - 1 = 0
        BY <3>4, <3>5
      <4>2. h[1] = h[1 - 1] \o s[1] /\ s[1] \in Seq(T) /\ f[1] = s[1]
        BY <2>1, <2>3, <2>4, <4>1
      <4>3. h[1] = <<>> \o s[1]
        BY <2>4, <4>1, <4>2
      <4>4. <<>> \o s[1] = s[1]
        BY <4>2, ConcatEmptySeq
      <4>5. QED
        BY <3>4, <3>5, <4>2, <4>3, <4>4
    <3>6. CASE i # 1
      <4>1. i - 1 \in 1 .. n /\ i - 1 < i
        BY <2>1, <3>4, <3>6
      <4>2. f[i - 1] = h[i - 1]
        BY <3>3, <4>1
      <4>3. QED
        BY <2>3, <2>4, <3>4, <3>6, <4>2
    <3>7. QED
      BY <3>5, <3>6
  <2>6. f[n] = h[n]
    BY <2>1, <2>5
  <2>7. QED
    BY <2>2, <2>6 DEF n
<1>3. QED
  BY <1>1, <1>2

LEMMA FlattenEmpty == FlattenSeq(<<>>) = <<>>
  BY DEF FlattenSeq

LEMMA FlattenInSeq ==
    ASSUME NEW T, NEW s \in Seq(Seq(T))
    PROVE  FlattenSeq(s) \in Seq(T)
<1>1. PICK h : Partials(h, s) /\ \A i \in 0 .. Len(s) : h[i] \in Seq(T)
  BY PartialsExist
<1>2. Len(s) \in 0 .. Len(s)
  BY LenProperties
<1>3. QED
  BY <1>1, <1>2, FlattenIs

\* One more sequence at the end.
LEMMA FlattenAppend ==
    ASSUME NEW T, NEW s \in Seq(Seq(T)), NEW n \in Nat, n = Len(s),
           NEW u \in Seq(Seq(T)), Len(u) = n + 1,
           \A i \in 1 .. n : u[i] = s[i]
    PROVE  FlattenSeq(u) = FlattenSeq(s) \o u[n + 1]
<1>1. PICK h : Partials(h, s)
  BY PartialsExist
<1> DEFINE all == h[n] \o u[n + 1]
           g == [i \in 0 .. n + 1 |-> IF i = n + 1 THEN all ELSE h[i]]
<1> HIDE DEF all
<1>2. g[n + 1] = all /\ \A i \in 0 .. n : g[i] = h[i]
  OBVIOUS
<1> HIDE DEF g
<1>3. h[0] = <<>> /\ \A i \in 1 .. n : h[i] = h[i - 1] \o s[i]
  BY <1>1 DEF Partials
<1>4. ASSUME NEW i \in 1 .. n + 1
      PROVE  g[i] = g[i - 1] \o u[i]
  <2>1. CASE i = n + 1
    <3>1. i - 1 = n /\ n \in 0 .. n
      BY <2>1
    <3>2. QED
      BY <1>2, <2>1, <3>1 DEF all
  <2>2. CASE i # n + 1
    <3>1. i \in 1 .. n /\ i \in 0 .. n /\ i - 1 \in 0 .. n
      BY <2>2
    <3>2. QED
      BY <1>2, <1>3, <3>1
  <2>3. QED
    BY <2>1, <2>2
<1>5. Partials(g, u)
  <2>1. 0 \in 0 .. n
    OBVIOUS
  <2>2. g[0] = <<>>
    BY <1>2, <1>3, <2>1
  <2>3. QED
    BY <1>4, <2>2 DEF Partials
<1>6. FlattenSeq(u) = g[n + 1]
  BY <1>5, FlattenIs
<1>7. FlattenSeq(s) = h[n]
  BY <1>1, FlattenIs
<1>8. QED
  BY <1>2, <1>6, <1>7 DEF all

\* One sequence less at the begin.
LEMMA FlattenHead ==
    ASSUME NEW T, NEW s \in Seq(Seq(T)), NEW n \in Nat, Len(s) = n + 1,
           NEW t \in Seq(Seq(T)), Len(t) = n,
           \A i \in 1 .. n : t[i] = s[i + 1]
    PROVE  FlattenSeq(s) = s[1] \o FlattenSeq(t)
<1>1. PICK h : Partials(h, t) /\ \A i \in 0 .. Len(t) : h[i] \in Seq(T)
  BY PartialsExist
<1>2. /\ h[0] = <<>> /\ \A i \in 1 .. n : h[i] = h[i - 1] \o t[i]
      /\ \A i \in 0 .. n : h[i] \in Seq(T)
  BY <1>1 DEF Partials
<1>3. \A i \in 1 .. n + 1 : s[i] \in Seq(T)
  BY ElementOfSeq
<1> DEFINE after(i) == s[1] \o h[i]
           g == [i \in 0 .. n + 1 |-> IF i = 0 THEN <<>> ELSE after(i - 1)]
<1> HIDE DEF after
<1>4. g[0] = <<>> /\ \A i \in 1 .. n + 1 : g[i] = after(i - 1)
  OBVIOUS
<1> HIDE DEF g
<1>5. ASSUME NEW i \in 1 .. n + 1
      PROVE  g[i] = g[i - 1] \o s[i]
  <2>1. CASE i = 1
    <3>1. s[1] \in Seq(T)
      BY <1>3, <2>1
    <3>2. s[1] \o <<>> = s[1] /\ <<>> \o s[1] = s[1]
      BY <3>1, ConcatEmptySeq
    <3>3. i - 1 = 0 /\ i \in 1 .. n + 1
      BY <2>1
    <3>4. g[i] = after(0) /\ g[i - 1] = <<>>
      BY <1>4, <3>3
    <3>5. g[i] = s[1] \o <<>>
      BY <1>2, <3>4 DEF after
    <3>6. QED
      BY <2>1, <3>2, <3>4, <3>5
  <2>2. CASE i # 1
    <3> DEFINE j == i - 1
    <3>1. j \in 1 .. n /\ j - 1 \in 0 .. n /\ j + 1 = i /\ 1 \in 1 .. n + 1
          /\ j \in 1 .. n + 1
      BY <2>2
    <3>2. g[i] = s[1] \o h[j] /\ g[j] = s[1] \o h[j - 1]
      BY <1>4, <3>1 DEF after
    <3>3. h[j] = h[j - 1] \o s[i]
      <4>1. t[j] = s[j + 1]
        BY <3>1
      <4>2. QED
        BY <1>2, <3>1, <4>1
    <3> HIDE DEF j
    <3>4. s[1] \in Seq(T) /\ h[j - 1] \in Seq(T) /\ s[i] \in Seq(T)
      BY <1>2, <1>3, <3>1
    <3>5. (s[1] \o h[j - 1]) \o s[i] = s[1] \o (h[j - 1] \o s[i])
      <4>1. \A x, y, z \in Seq(T) : (x \o y) \o z = x \o (y \o z)
        BY Associative
      <4>2. QED
        BY <3>4, <4>1
    <3>6. QED
      BY <3>2, <3>3, <3>5 DEF j
  <2>3. QED
    BY <2>1, <2>2
<1>6. Partials(g, s)
  BY <1>4, <1>5 DEF Partials
<1>7. FlattenSeq(s) = g[n + 1]
  BY <1>6, FlattenIs
<1>8. FlattenSeq(t) = h[n]
  BY <1>1, FlattenIs
<1>9. g[n + 1] = s[1] \o h[n]
  <2>1. n + 1 \in 1 .. n + 1 /\ (n + 1) - 1 = n
    OBVIOUS
  <2>2. QED
    BY <1>4, <2>1 DEF after
<1>10. QED
  BY <1>7, <1>8, <1>9

-----------------------------------------------------------------------------
(* The contents of a buffer b in a memory m.                               *)

BytesIn(c, m) ==
    IF c.own THEN SubSeq(m[c.data], c.from + 1, c.to)
    ELSE SourceRange(c.from, c.to)

Contents(b, m) == FlattenSeq([k \in DOMAIN b |-> BytesIn(b[k], m)])

\* A chunk is not empty, and one that was copied begins where its Data does.
Fits(c, m) ==
    /\ c.from < c.to
    /\ c.own => c.from = 0 /\ c.to <= Len(m[c.data])

Memory == [Data -> Seq(Nat)]

Sound(b, m) ==
    m \in Memory /\ b \in Seq(Chunk) /\ \A k \in DOMAIN b : Fits(b[k], m)

LEMMA BytesInSeq ==
    ASSUME NEW m \in Memory, NEW c \in Chunk, Fits(c, m)
    PROVE  BytesIn(c, m) \in Seq(Nat)
<1>1. CASE c.own
  <2>1. c \in [own : {TRUE}, data : Data, from : Nat, to : Nat]
    BY <1>1 DEF Chunk, Source
  <2>2. /\ m[c.data] \in Seq(Nat) /\ c.to \in Nat /\ c.from = 0
        /\ c.to <= Len(m[c.data])
    BY <1>1, <2>1 DEF Memory, Fits
  <2>3. Len(m[c.data]) \in Nat /\ \A i \in 1 .. Len(m[c.data]) : m[c.data][i] \in Nat
    BY <2>2, LenProperties
  <2>4. \A i \in c.from + 1 .. c.to : m[c.data][i] \in Nat
    BY <2>2, <2>3
  <2>5. SubSeq(m[c.data], c.from + 1, c.to) \in Seq(Nat)
    BY <2>2, <2>4, SubSeqProperties
  <2>6. QED
    BY <1>1, <2>5 DEF BytesIn
<1>2. CASE ~c.own
  <2>1. c.from \in Nat /\ c.to \in Nat
    BY <1>2 DEF Chunk, Source
  <2>2. QED
    BY <1>2, <2>1, SourceRangeFacts DEF BytesIn
<1>3. QED
  BY <1>1, <1>2

LEMMA ChunkBytesFacts ==
    ASSUME NEW b, NEW m, Sound(b, m)
    PROVE  LET s == [k \in DOMAIN b |-> BytesIn(b[k], m)]
           IN  s \in Seq(Seq(Nat)) /\ Len(s) = Len(b)
<1>1. Len(b) \in Nat /\ DOMAIN b = 1 .. Len(b) /\ \A k \in 1 .. Len(b) : b[k] \in Chunk
  BY LenProperties DEF Sound
<1>2. \A k \in DOMAIN b : BytesIn(b[k], m) \in Seq(Nat)
  BY <1>1, BytesInSeq DEF Sound
<1>3. [k \in DOMAIN b |-> BytesIn(b[k], m)] \in [1 .. Len(b) -> Seq(Nat)]
  BY <1>1, <1>2
<1>4. QED
  BY <1>1, <1>3, IsSequence

LEMMA ContentsInSeq ==
    ASSUME NEW b, NEW m, Sound(b, m)
    PROVE  Contents(b, m) \in Seq(Nat)
  BY ChunkBytesFacts, FlattenInSeq DEF Contents

\* Changes of the memory that the buffer does not lie in.
LEMMA ContentsStay ==
    ASSUME NEW b, NEW m, Sound(b, m), NEW m2 \in Memory,
           \A k \in DOMAIN b : b[k].own => m2[b[k].data] = m[b[k].data]
    PROVE  Sound(b, m2) /\ Contents(b, m2) = Contents(b, m)
<1>1. \A k \in DOMAIN b : BytesIn(b[k], m2) = BytesIn(b[k], m)
  BY DEF BytesIn
<1>2. Sound(b, m2)
  BY DEF Sound, Fits
<1>3. [k \in DOMAIN b |-> BytesIn(b[k], m2)] = [k \in DOMAIN b |-> BytesIn(b[k], m)]
  BY <1>1
<1>4. QED
  BY <1>2, <1>3 DEF Contents

\* One more chunk.
LEMMA ContentsAppend ==
    ASSUME NEW b, NEW m, Sound(b, m), NEW c \in Chunk, Fits(c, m)
    PROVE  /\ Sound(b \o <<c>>, m)
           /\ Contents(b \o <<c>>, m) = Contents(b, m) \o BytesIn(c, m)
<1> DEFINE e == <<c>>
           n == Len(b)
           w == b \o e
           s == [k \in DOMAIN b |-> BytesIn(b[k], m)]
           u == [k \in DOMAIN w |-> BytesIn(w[k], m)]
<1>1. e \in Seq(Chunk) /\ Len(e) = 1 /\ e[1] = c
  OBVIOUS
<1>2. b \in Seq(Chunk) /\ n \in Nat /\ DOMAIN b = 1 .. n
  BY LenProperties DEF Sound
<1> HIDE DEF e
<1>3. /\ w \in Seq(Chunk) /\ Len(w) = n + Len(e)
      /\ \A i \in 1 .. n + Len(e) : w[i] = IF i <= n THEN b[i] ELSE e[i - n]
  BY <1>1, <1>2, ConcatProperties
<1>4. DOMAIN w = 1 .. n + 1
  BY <1>1, <1>3, LenProperties
<1> HIDE DEF w
<1>5. w[n + 1] = c /\ \A i \in 1 .. n : w[i] = b[i]
  BY <1>1, <1>2, <1>3
<1> HIDE DEF n
<1>6. Sound(w, m)
  <2>1. ASSUME NEW k \in 1 .. n + 1
        PROVE  Fits(w[k], m)
    <3>1. CASE k = n + 1
      BY <1>5, <3>1
    <3>2. CASE k # n + 1
      <4>1. k \in 1 .. n
        BY <1>2, <3>2
      <4>2. QED
        BY <1>2, <1>5, <4>1 DEF Sound
    <3>3. QED
      BY <3>1, <3>2
  <2>2. QED
    BY <1>3, <1>4, <2>1 DEF Sound
<1>7. s \in Seq(Seq(Nat)) /\ Len(s) = n
  BY ChunkBytesFacts DEF n
<1>8. u \in Seq(Seq(Nat)) /\ Len(u) = n + 1
  BY <1>1, <1>3, <1>6, ChunkBytesFacts
<1>9. \A i \in 1 .. n : u[i] = s[i]
  BY <1>2, <1>4, <1>5
<1>10. u[n + 1] = BytesIn(c, m)
  BY <1>2, <1>4, <1>5
<1> HIDE DEF s, u
<1>11. FlattenSeq(u) = FlattenSeq(s) \o u[n + 1]
  BY <1>2, <1>7, <1>8, <1>9, FlattenAppend
<1>12. QED
  BY <1>6, <1>10, <1>11 DEF Contents, s, u, w, e

-----------------------------------------------------------------------------
(* What the steps of a write do to the contents.                           *)

LEMMA PrefixFacts ==
    ASSUME NEW v \in Seq(Nat), NEW n \in Nat, n <= Len(v)
    PROVE  /\ SubSeq(v, 1, n) \in Seq(Nat) /\ Len(SubSeq(v, 1, n)) = n
           /\ \A i \in 1 .. n : SubSeq(v, 1, n)[i] = v[i]
<1>1. Len(v) \in Nat /\ \A i \in 1 .. Len(v) : v[i] \in Nat
  BY LenProperties
<1>2. \A i \in 1 .. n : v[i] \in Nat
  BY <1>1
<1>3. 1 \in Int /\ n \in Int /\ n - 1 + 1 = n
  OBVIOUS
<1>4. /\ SubSeq(v, 1, n) \in Seq(Nat)
      /\ Len(SubSeq(v, 1, n)) = IF 1 <= n THEN n - 1 + 1 ELSE 0
      /\ \A i \in 1 .. n - 1 + 1 : SubSeq(v, 1, n)[i] = v[1 + i - 1]
  BY <1>2, <1>3, SubSeqProperties
<1>5. Len(SubSeq(v, 1, n)) = n
  BY <1>4
<1>6. \A i \in 1 .. n : SubSeq(v, 1, n)[i] = v[i]
  <2>1. \A i \in 1 .. n : 1 + i - 1 = i
    OBVIOUS
  <2>2. QED
    BY <1>3, <1>4, <2>1
<1>7. QED
  BY <1>4, <1>5, <1>6

Copied == SubSeq(mem[blob], 1, ptr)

LEMMA CopiedInSeq ==
    ASSUME Core, phase = "open"
    PROVE  Copied \in Seq(Nat) /\ Len(Copied) = ptr
  BY PrefixFacts DEF Core, Members, CursorInBlob, Copied

\* Merge turns what was copied into a chunk.
LEMMA MergeContents ==
    ASSUME Core, phase = "open", Sound(buffer, mem)
    PROVE  /\ Sound(MergedBuffer, MergedMem)
           /\ Contents(MergedBuffer, MergedMem) = Contents(buffer, mem) \o Copied
<1>1. CASE ptr = 0
  <2>1. Copied = <<>>
    BY <1>1, CopiedInSeq, EmptySeq
  <2>2. Contents(buffer, mem) \o <<>> = Contents(buffer, mem)
    BY ContentsInSeq, ConcatEmptySeq
  <2>3. MergedBuffer = buffer /\ MergedMem = mem
    BY <1>1 DEF MergedBuffer, MergedMem
  <2>4. QED
    BY <2>1, <2>2, <2>3
<1>2. CASE ptr # 0
  <2> DEFINE c == Own(blob, ptr)
  <2>1. /\ mem \in Memory /\ blob \in Data /\ ptr \in Nat \ {0}
        /\ ptr <= Len(mem[blob]) /\ mem[blob] \in Seq(Nat)
    BY <1>2 DEF Core, Members, CursorInBlob, Memory
  <2>2. /\ MergedMem = [mem EXCEPT ![blob] = Copied]
        /\ MergedBuffer = buffer \o <<c>>
    BY <1>2 DEF MergedMem, MergedBuffer, Copied
  <2>3. MergedMem \in Memory /\ MergedMem[blob] = Copied
    BY <2>1, <2>2, CopiedInSeq DEF Memory
  <2>4. Sound(buffer, MergedMem) /\ Contents(buffer, MergedMem) = Contents(buffer, mem)
    <3>1. \A k \in DOMAIN buffer : buffer[k].own =>
              MergedMem[buffer[k].data] = mem[buffer[k].data]
      BY ChunksApart, MergeFacts
    <3>2. QED
      BY <2>3, <3>1, ContentsStay
  <2>5. c \in Chunk
    BY <2>1 DEF Own, Chunk
  <2>6. Fits(c, MergedMem)
    BY <2>1, <2>3, CopiedInSeq DEF Fits, Own
  <2>7. BytesIn(c, MergedMem) = Copied
    <3>1. BytesIn(c, MergedMem) = SubSeq(Copied, 1, ptr)
      <4>1. c.own /\ c.data = blob /\ c.from + 1 = 1 /\ c.to = ptr
        BY DEF Own
      <4>2. QED
        BY <2>3, <4>1 DEF BytesIn
    <3>2. SubSeq(Copied, 1, Len(Copied)) = Copied
      BY CopiedInSeq, SubSeqFull
    <3>3. QED
      BY <3>1, <3>2, CopiedInSeq
  <2> HIDE DEF c
  <2>8. QED
    BY <2>2, <2>4, <2>5, <2>6, <2>7, ContentsAppend
<1>3. QED
  BY <1>1, <1>2 DEF Core, Members

\* TakeBlob takes a blob that the buffer does not lie in.
LEMMA FlushContents ==
    ASSUME Core, phase = "open", Sound(buffer, mem), NEW b, FlushAndPush(b),
           mem' \in Memory
    PROVE  /\ Sound(MergedBuffer, mem')
           /\ Contents(MergedBuffer, mem') = Contents(buffer, mem) \o Copied
<1>1. \A k \in DOMAIN MergedBuffer : MergedBuffer[k].own =>
          mem'[MergedBuffer[k].data] = MergedMem[MergedBuffer[k].data]
  <2>1. CASE ptr = 0
    BY <2>1 DEF FlushAndPush, MergedMem
  <2>2. CASE ptr # 0
    <3>1. PICK d \in Data \ Used, n \in MinBlobSize .. MaxBlobSize :
            blob' = d /\ mem' = [MergedMem EXCEPT ![d] = Junk(n)]
      BY <2>2 DEF FlushAndPush
    <3>2. ASSUME NEW k \in DOMAIN MergedBuffer, MergedBuffer[k].own
          PROVE  MergedBuffer[k].data \in Data \ {d}
      <4>1. CASE k \in DOMAIN buffer
        BY <3>1, <3>2, <4>1, MergeFacts, ChunksApart
      <4>2. CASE MergedBuffer[k] = Own(blob, ptr)
        BY <3>1, <4>2 DEF Own, Used, Core, Members
      <4>3. QED
        BY <4>1, <4>2, MergeFacts
    <3>3. MergedMem \in [Data -> Seq(Nat)]
      BY MergeFacts
    <3>4. QED
      BY <3>1, <3>2, <3>3
  <2>3. QED
    BY <2>1, <2>2
<1>2. QED
  BY <1>1, MergeContents, ContentsStay

\* memcpy to a blob that may have grown.
LEMMA MemcpyContents ==
    ASSUME Core, phase = "open", Sound(buffer, mem),
           NEW r \in Seq(Nat), NEW bs \in Seq(Nat),
           ptr + Len(bs) <= Len(r), \A k \in 1 .. ptr : r[k] = mem[blob][k],
           Memcpy(r, bs)
    PROVE  /\ Sound(buffer', mem')
           /\ Contents(buffer', mem') = Contents(buffer, mem)
           /\ Copied' = Copied \o bs
<1>1. /\ mem \in Memory /\ blob \in Data /\ ptr \in Nat /\ Len(bs) \in Nat
      /\ ptr <= Len(mem[blob]) /\ mem[blob] \in Seq(Nat)
  BY LenProperties DEF Core, Members, CursorInBlob, Memory
<1> DEFINE v == [k \in DOMAIN r |->
                    IF k \in ptr + 1 .. ptr + Len(bs) THEN bs[k - ptr] ELSE r[k]]
<1>2. /\ mem' = [mem EXCEPT ![blob] = v] /\ ptr' = ptr + Len(bs)
      /\ blob' = blob /\ buffer' = buffer
  BY DEF Memcpy
<1>3. \A k \in 1 .. ptr + Len(bs) :
          v[k] = IF k <= ptr THEN mem[blob][k] ELSE bs[k - ptr]
  <2>1. Len(r) \in Nat /\ DOMAIN r = 1 .. Len(r)
    BY LenProperties
  <2>2. QED
    BY <1>1, <2>1
<1> HIDE DEF v
<1>4. Core' /\ mem' \in Memory /\ phase' = "open"
  BY MemcpyKeeps DEF Core, Members, Memory, Memcpy
<1>5. Sound(buffer', mem') /\ Contents(buffer', mem') = Contents(buffer, mem)
  <2>1. \A k \in DOMAIN buffer : buffer[k].own =>
            mem'[buffer[k].data] = mem[buffer[k].data]
    BY <1>1, <1>2, ChunksApart DEF Memory
  <2>2. QED
    BY <1>2, <1>4, <2>1, ContentsStay
<1>6. Copied' = Copied \o bs
  <2>1. Copied' = SubSeq(v, 1, ptr + Len(bs)) /\ mem'[blob'] = v
    BY <1>1, <1>2 DEF Copied, Memory
  <2>2. v \in Seq(Nat) /\ ptr + Len(bs) <= Len(v) /\ ptr + Len(bs) \in Nat
    BY <1>1, <1>2, <1>4, <2>1 DEF Core, Members, CursorInBlob
  <2>3. /\ Copied' \in Seq(Nat) /\ Len(Copied') = ptr + Len(bs)
        /\ \A i \in 1 .. ptr + Len(bs) : Copied'[i] = v[i]
    BY <2>1, <2>2, PrefixFacts
  <2>4. /\ Copied \in Seq(Nat) /\ Len(Copied) = ptr
        /\ \A i \in 1 .. ptr : Copied[i] = mem[blob][i]
    BY <1>1, PrefixFacts DEF Copied
  <2> DEFINE w == Copied \o bs
  <2>5. /\ w \in Seq(Nat) /\ Len(w) = ptr + Len(bs)
        /\ \A i \in 1 .. ptr + Len(bs) :
               w[i] = IF i <= ptr THEN Copied[i] ELSE bs[i - ptr]
    BY <2>4, ConcatProperties
  <2> HIDE DEF w
  <2>6. ASSUME NEW i \in 1 .. Len(w)
        PROVE  w[i] = Copied'[i]
    <3>1. i \in 1 .. ptr + Len(bs) /\ (i <= ptr => i \in 1 .. ptr)
      BY <1>1, <2>5
    <3>2. CASE i <= ptr
      BY <1>3, <2>3, <2>4, <2>5, <3>1, <3>2
    <3>3. CASE ~(i <= ptr)
      BY <1>3, <2>3, <2>5, <3>1, <3>3
    <3>4. QED
      BY <3>2, <3>3
  <2>7. w = Copied'
    BY <2>3, <2>5, <2>6, SeqEqual
  <2>8. QED
    BY <2>7 DEF w
<1>7. QED
  BY <1>5, <1>6

\* resize keeps what the blob contains.
LEMMA RoomKeeps ==
    ASSUME Core, phase = "open", NEW n \in Nat, NEW k \in 1 .. ptr
    PROVE  Room(n)[k] = mem[blob][k]
<1>1. /\ mem[blob] \in Seq(Nat) /\ Len(mem[blob]) \in Nat /\ ptr \in Nat
      /\ ptr <= Len(mem[blob])
  BY LenProperties DEF Core, Members, CursorInBlob
<1>2. CASE ptr + n < Len(mem[blob])
  BY <1>2 DEF Room
<1>3. CASE ~(ptr + n < Len(mem[blob]))
  <2> DEFINE m == Grown(n) - Len(mem[blob])
  <2>1. m \in Nat
    BY <1>1, <1>3, Sizes DEF Grown
  <2>2. Junk(m) \in Seq(Nat)
    BY <2>1, JunkFacts
  <2>3. Room(n) = mem[blob] \o Junk(m)
    BY <1>3 DEF Room
  <2>4. Len(Junk(m)) = m
    BY <2>1, JunkFacts
  <2> HIDE DEF m
  <2>5. k \in 1 .. Len(mem[blob]) + Len(Junk(m)) /\ k <= Len(mem[blob])
    BY <1>1, <2>1, <2>4
  <2>6. QED
    BY <1>1, <2>2, <2>3, <2>5, ConcatProperties DEF m
<1>4. QED
  BY <1>2, <1>3

-----------------------------------------------------------------------------
(* The contents are what was written.                                      *)

\* The buffer holds chunks as they were pushed, and with the used part of the
\* blob it is all that was written.
Holds == Sound(buffer, mem) /\ ContentsInOrder

LEMMA BufferBytesIs ==
    /\ BufferBytes = Contents(buffer, mem)
    /\ BufferBytes' = Contents(buffer', mem')
  BY DEF BufferBytes, Contents, BytesOf, BytesIn, SourceRange

LEMMA HoldsFacts ==
    ASSUME Holds, phase = "open"
    PROVE  Sound(buffer, mem) /\ log = Contents(buffer, mem) \o Copied
  BY BufferBytesIs DEF Holds, ContentsInOrder, Copied

LEMMA CopyHolds ==
    ASSUME Core, Holds, phase = "open",
           NEW r \in Seq(Nat), NEW bs \in Seq(Nat),
           ptr + Len(bs) <= Len(r), \A k \in 1 .. ptr : r[k] = mem[blob][k],
           Memcpy(r, bs)
    PROVE  Holds'
<1> DEFINE all == Contents(buffer, mem)
<1>1. /\ Sound(buffer', mem') /\ Contents(buffer', mem') = all
      /\ Copied' = Copied \o bs
  BY HoldsFacts, MemcpyContents
<1>2. log' = log \o bs /\ phase' = "open"
  BY DEF Memcpy
<1>3. log = all \o Copied
  BY HoldsFacts
<1>4. all \in Seq(Nat) /\ Copied \in Seq(Nat)
  BY HoldsFacts, ContentsInSeq, CopiedInSeq
<1> HIDE DEF all
<1>5. (all \o Copied) \o bs = all \o (Copied \o bs)
  BY <1>4, Associative
<1>6. log' = Contents(buffer', mem') \o Copied'
  BY <1>1, <1>2, <1>3, <1>5
<1>7. QED
  BY <1>1, <1>2, <1>6, BufferBytesIs DEF Holds, ContentsInOrder, Copied

LEMMA AppendHolds ==
    ASSUME Core, Holds, phase = "open", NEW bs \in Seq(Nat), AppendBytes(bs)
    PROVE  Holds'
<1>1. Len(bs) \in Nat /\ Memcpy(Room(Len(bs)), bs)
  BY LenProperties DEF AppendBytes
<1>2. /\ Room(Len(bs)) \in Seq(Nat) /\ ptr + Len(bs) <= Len(Room(Len(bs)))
      /\ \A k \in 1 .. ptr : Room(Len(bs))[k] = mem[blob][k]
  BY <1>1, RoomFacts, RoomKeeps
<1>3. QED
  BY <1>1, <1>2, CopyHolds

\* After Merge alone.
LEMMA EndHolds ==
    ASSUME Core, Holds, phase = "open", mem' = MergedMem,
           buffer' = MergedBuffer, phase' # "open", log' = log
    PROVE  Holds'
<1>1. Sound(buffer', mem') /\ Contents(buffer', mem') = log
  BY HoldsFacts, MergeContents
<1>2. QED
  BY <1>1, BufferBytesIs DEF Holds, ContentsInOrder

\* In a blob that was just taken, nothing is copied yet.
LEMMA TakenHolds ==
    ASSUME phase' = "open", ptr' = 0, Sound(buffer', mem'),
           Contents(buffer', mem') = log'
    PROVE  Holds'
<1>1. Copied' = <<>>
  <2>1. SubSeq(mem'[blob'], 1, 0) = <<>>
    BY SubSeqEmpty
  <2>2. QED
    BY <2>1 DEF Copied
<1>2. Contents(buffer', mem') \in Seq(Nat)
  BY ContentsInSeq
<1>3. Contents(buffer', mem') \o <<>> = Contents(buffer', mem')
  BY <1>2, ConcatEmptySeq
<1>4. QED
  BY <1>1, <1>3, BufferBytesIs DEF Holds, ContentsInOrder, Copied

LEMMA FlushHolds ==
    ASSUME Core, Holds, phase = "open", FlushAndPush(<<>>), log' = log
    PROVE  Holds'
<1>1. mem' \in Memory
  <2>1. <<>> \in Seq(Source)
    BY EmptySeq
  <2>2. QED
    BY <2>1, FlushKeeps DEF Core, Members, Memory
<1>2. Sound(MergedBuffer, mem') /\ Contents(MergedBuffer, mem') = log
  BY <1>1, HoldsFacts, FlushContents
<1>3. buffer' = MergedBuffer \o <<>> /\ phase' = "open" /\ ptr' = 0
  BY DEF FlushAndPush
<1>4. MergedBuffer \o <<>> = MergedBuffer
  BY MergeFacts, ConcatEmptySeq
<1>5. QED
  BY <1>2, <1>3, <1>4, TakenHolds

LEMMA PushHolds ==
    ASSUME Core, Holds, phase = "open", NEW c \in Source, c.from < c.to,
           FlushAndPush(<<c>>), log' = log \o BytesOf(c)
    PROVE  Holds'
<1>1. mem' \in Memory
  <2>1. <<c>> \in Seq(Source)
    OBVIOUS
  <2>2. QED
    BY <2>1, FlushKeeps DEF Core, Members, Memory
<1>2. Sound(MergedBuffer, mem') /\ Contents(MergedBuffer, mem') = log
  BY <1>1, HoldsFacts, FlushContents
<1>3. buffer' = MergedBuffer \o <<c>> /\ phase' = "open" /\ ptr' = 0
  BY DEF FlushAndPush
<1>4. c \in Chunk /\ ~c.own
  BY DEF Chunk, Source
<1>5. Fits(c, mem')
  BY <1>4 DEF Fits
<1>6. BytesIn(c, mem') = BytesOf(c)
  BY <1>4 DEF BytesIn, BytesOf
<1>7. Sound(buffer', mem') /\ Contents(buffer', mem') = log \o BytesOf(c)
  BY <1>2, <1>3, <1>4, <1>5, <1>6, ContentsAppend
<1>8. QED
  BY <1>3, <1>7, TakenHolds

LEMMA InitHolds == Init => Holds
<1>1. SUFFICES ASSUME Init PROVE Holds
  OBVIOUS
<1>2. /\ buffer = <<>> /\ phase = "open" /\ ptr = 0 /\ log = <<>>
      /\ mem \in Memory
  <2>1. mem \in Memory
    <3>1. IndInv
      BY <1>1, InitEstablishes
    <3>2. QED
      BY <3>1 DEF IndInv, Core, Members, Memory
  <2>2. QED
    BY <1>1, <2>1 DEF Init
<1>3. <<>> \in Seq(Chunk) /\ DOMAIN <<>> = {}
  BY EmptySeq
<1>4. Sound(buffer, mem)
  BY <1>2, <1>3 DEF Sound
<1>5. Contents(buffer, mem) = <<>>
  <2>1. [k \in DOMAIN buffer |-> BytesIn(buffer[k], mem)] = <<>>
    BY <1>2, <1>3
  <2>2. QED
    BY <2>1, FlattenEmpty DEF Contents
<1>6. SubSeq(mem[blob], 1, ptr) = <<>>
  BY <1>2, SubSeqEmpty
<1>7. <<>> \o <<>> = <<>>
  BY EmptySeq, ConcatEmptySeq
<1>8. QED
  BY <1>2, <1>4, <1>5, <1>6, <1>7, BufferBytesIs DEF Holds, ContentsInOrder

LEMMA NextHolds ==
    ASSUME IndInv, Holds, [Next]_vars
    PROVE  Holds'
<1>1. Core /\ (op.kind \in {"pieces", "variable"} => phase = "open")
  BY DEF IndInv, Busy
<1>2. CASE UNCHANGED out
  BY <1>2, BufferBytesIs DEF out, Holds, Sound, Fits, ContentsInOrder
<1>3. ASSUME NEW n \in 0 .. Bytes, Write(n)
      PROVE  Holds'
  <2>1. phase = "open" /\ AppendBytes(Fresh(n)) /\ Fresh(n) \in Seq(Nat)
    BY <1>3, FreshFacts DEF Write, Ready
  <2>2. QED
    BY <1>1, <2>1, AppendHolds
<1>4. ASSUME NEW n \in 1 .. FastPath + 1, WriteVariable(n)
      PROVE  Holds'
  <2>1. n \in Nat /\ phase = "open"
    BY <1>4, Sizes DEF WriteVariable, Ready
  <2>2. Fresh(n) \in Seq(Nat) /\ Len(Fresh(n)) = n
    BY <2>1, FreshFacts
  <2>3. CASE FitsVariable
    <3>1. Memcpy(mem[blob], Fresh(n))
      BY <1>4, <2>3 DEF WriteVariable
    <3>2. mem[blob] \in Seq(Nat) /\ Len(mem[blob]) \in Nat /\ ptr \in Nat
      BY <1>1, LenProperties DEF Core, Members
    <3>3. ptr + Len(Fresh(n)) <= Len(mem[blob])
      BY <2>1, <2>2, <2>3, <3>2, Sizes DEF FitsVariable
    <3>4. QED
      BY <1>1, <2>1, <2>2, <3>1, <3>2, <3>3, CopyHolds
  <2>4. CASE ~FitsVariable
    BY <1>2, <1>4, <2>4 DEF WriteVariable
  <2>5. QED
    BY <2>3, <2>4
<1>5. CASE NextByte
  <2>1. phase = "open" /\ AppendBytes(Fresh(1)) /\ Fresh(1) \in Seq(Nat)
    BY <1>1, <1>5, FreshFacts DEF NextByte
  <2>2. QED
    BY <1>1, <2>1, AppendHolds
<1>6. CASE Flush
  BY <1>1, <1>6, FlushHolds DEF Flush, Ready
<1>7. CASE GetBuffer \/ TakeBlobThrows
  <2>1. /\ phase = "open" /\ phase' # "open" /\ log' = log
        /\ mem' = MergedMem /\ buffer' = MergedBuffer
    BY <1>7 DEF GetBuffer, TakeBlobThrows, Ready
  <2>2. QED
    BY <1>1, <2>1, EndHolds
<1>8. CASE NextPiece
  <2> DEFINE c == Head(op.left)
  <2>1. /\ op.kind = "pieces" /\ op.left # <<>>
        /\ \/ c.from < c.to /\ FlushAndPush(<<c>>) /\ log' = log \o BytesOf(c)
           \/ AppendBytes(BytesOf(c))
    BY <1>8 DEF NextPiece
  <2>2. op.left \in Seq(Source)
    BY <2>1 DEF IndInv, Left
  <2>3. c \in Source /\ phase = "open"
    BY <1>1, <2>1, <2>2, HeadTailProperties
  <2> HIDE DEF c
  <2>4. BytesOf(c) \in Seq(Nat)
    BY <2>3, SourceRangeFacts DEF BytesOf, Source
  <2>5. QED
    BY <1>1, <2>1, <2>3, <2>4, PushHolds, AppendHolds
<1>9. QED
  BY <1>2, <1>3, <1>4, <1>5, <1>6, <1>7, <1>8
     DEF Next, vars, WriteBlob, WriteBuffer, WriteRange, Begin, Return,
         AllocateThrows

LEMMA HoldsAlways == Spec => [](IndInv /\ Holds)
<1>1. Init => IndInv /\ Holds
  BY InitEstablishes, InitHolds
<1>2. IndInv /\ Holds /\ [Next]_vars => (IndInv /\ Holds)'
  BY NextKeeps, NextHolds
<1>3. QED
  BY <1>1, <1>2, PTL DEF Spec

-----------------------------------------------------------------------------
(* The pieces of a write.                                                  *)

Slices(ps) == [k \in DOMAIN ps |-> SourceRange(ps[k].from, ps[k].to)]

LEMMA RangeElements ==
    ASSUME NEW a \in Nat, NEW b \in Nat, a <= b
    PROVE  /\ SourceRange(a, b) \in Seq(Nat) /\ Len(SourceRange(a, b)) = b - a
           /\ \A k \in 1 .. b - a : SourceRange(a, b)[k] = Bytes + a + k
<1>1. b - a \in Nat /\ SourceRange(a, b) \in [1 .. b - a -> Nat]
  BY Sizes DEF SourceRange, SourceByte
<1>2. \A k \in 1 .. b - a : SourceRange(a, b)[k] = Bytes + a + k
  BY Sizes DEF SourceRange, SourceByte
<1>3. QED
  BY <1>1, <1>2, IsSequence

LEMMA RangeEmpty ==
    ASSUME NEW a \in Nat
    PROVE  SourceRange(a, a) = <<>>
<1>1. SourceRange(a, a) \in Seq(Nat) /\ Len(SourceRange(a, a)) = 0
  BY RangeElements
<1>2. QED
  BY <1>1, EmptySeq

LEMMA RangeJoin ==
    ASSUME NEW a \in Nat, NEW b \in Nat, NEW c \in Nat, a <= b, b <= c
    PROVE  SourceRange(a, b) \o SourceRange(b, c) = SourceRange(a, c)
<1> DEFINE x == SourceRange(a, b)
           y == SourceRange(b, c)
           z == SourceRange(a, c)
           w == x \o y
<1>1. /\ x \in Seq(Nat) /\ Len(x) = b - a
      /\ \A k \in 1 .. b - a : x[k] = Bytes + a + k
  BY RangeElements
<1>2. /\ y \in Seq(Nat) /\ Len(y) = c - b
      /\ \A k \in 1 .. c - b : y[k] = Bytes + b + k
  BY RangeElements
<1>3. /\ z \in Seq(Nat) /\ Len(z) = c - a
      /\ \A k \in 1 .. c - a : z[k] = Bytes + a + k
  <2>1. a <= c
    OBVIOUS
  <2>2. QED
    BY <2>1, RangeElements
<1> HIDE DEF x, y, z
<1>4. /\ w \in Seq(Nat) /\ Len(w) = Len(x) + Len(y)
      /\ \A i \in 1 .. Len(x) + Len(y) :
             w[i] = IF i <= Len(x) THEN x[i] ELSE y[i - Len(x)]
  BY <1>1, <1>2, ConcatProperties
<1> HIDE DEF w
<1>5. Len(w) = c - a
  BY <1>1, <1>2, <1>4
<1>6. ASSUME NEW i \in 1 .. c - a
      PROVE  w[i] = z[i]
  <2>1. z[i] = Bytes + a + i
    BY <1>3
  <2>2. CASE i <= b - a
    <3>1. i \in 1 .. b - a
      BY <2>2
    <3>2. QED
      BY <1>1, <1>2, <1>4, <2>1, <2>2, <3>1
  <2>3. CASE ~(i <= b - a)
    <3>1. i - (b - a) \in 1 .. c - b /\ Bytes + b + (i - (b - a)) = Bytes + a + i
      BY <2>3, Sizes
    <3>2. y[i - (b - a)] = Bytes + a + i
      BY <1>2, <3>1
    <3>3. w[i] = y[i - (b - a)]
      BY <1>1, <1>2, <1>4, <2>3
    <3>4. QED
      BY <2>1, <3>2, <3>3
  <2>4. QED
    BY <2>2, <2>3
<1>7. w = z
  BY <1>3, <1>4, <1>5, <1>6, SeqEqual
<1>8. QED
  BY <1>7 DEF w, x, y, z

LEMMA SlicesFacts ==
    ASSUME NEW ps \in Seq(Source)
    PROVE  Slices(ps) \in Seq(Seq(Nat)) /\ Len(Slices(ps)) = Len(ps)
<1>1. Len(ps) \in Nat /\ DOMAIN ps = 1 .. Len(ps) /\ \A k \in 1 .. Len(ps) : ps[k] \in Source
  BY LenProperties
<1>2. \A k \in 1 .. Len(ps) : SourceRange(ps[k].from, ps[k].to) \in Seq(Nat)
  BY <1>1, SourceRangeFacts DEF Source
<1>3. Slices(ps) \in [1 .. Len(ps) -> Seq(Nat)]
  BY <1>1, <1>2 DEF Slices
<1>4. QED
  BY <1>1, <1>3, IsSequence

\* Pieces that follow each other without a gap are one range.
LEMMA SlicesJoin ==
    ASSUME NEW n \in Nat, NEW cut, \A k \in 0 .. n : cut[k] \in Nat,
           \A k \in 1 .. n : cut[0] <= cut[k - 1] /\ cut[k - 1] <= cut[k],
           NEW ps \in Seq(Source), Len(ps) = n,
           \A k \in 1 .. n : ps[k].from = cut[k - 1] /\ ps[k].to = cut[k]
    PROVE  FlattenSeq(Slices(ps)) = SourceRange(cut[0], cut[n])
<1> DEFINE s == Slices(ps)
           upTo(i) == SourceRange(cut[0], cut[i])
           h == [i \in 0 .. n |-> upTo(i)]
<1>1. s \in Seq(Seq(Nat)) /\ Len(s) = n
  BY SlicesFacts
<1>2. \A k \in 1 .. n : s[k] = SourceRange(cut[k - 1], cut[k])
  BY LenProperties DEF Slices
<1> HIDE DEF s, upTo
<1>3. \A i \in 0 .. n : h[i] = upTo(i)
  OBVIOUS
<1> HIDE DEF h
<1>4. h[0] = <<>>
  BY <1>3, RangeEmpty DEF upTo
<1>5. ASSUME NEW i \in 1 .. n
      PROVE  h[i] = h[i - 1] \o s[i]
  <2>1. i \in 0 .. n /\ i - 1 \in 0 .. n /\ 0 \in 0 .. n
    OBVIOUS
  <2>2. upTo(i - 1) \o SourceRange(cut[i - 1], cut[i]) = upTo(i)
    BY <2>1, RangeJoin DEF upTo
  <2>3. QED
    BY <1>2, <1>3, <2>1, <2>2
<1>6. Partials(h, s)
  BY <1>1, <1>4, <1>5 DEF Partials
<1>7. FlattenSeq(s) = h[n]
  BY <1>1, <1>6, FlattenIs
<1>8. QED
  BY <1>3, <1>7 DEF s, upTo

\* A Range between bytes p and q of the source.
RangeOf(p, q) == In!GetBufferRange(InputAt(p), InputAt(q))

\* An InputBuffer over that Range delivers the bytes from p up to q.
LEMMA RangeBytesAre ==
    ASSUME Layout, NEW p \in 0 .. Total, NEW q \in 0 .. Total, p <= q
    PROVE  RangeBytes(RangeOf(p, q)) = SourceRange(p, q)
<1> DEFINE r == RangeOf(p, q)
           f == InputAt(p).blob
           g == InputAt(q).blob
           e == IF q - start[g] # 0 THEN g + 1 ELSE g
           c == In!FromRange(r)
<1>1. /\ SourceBlobs \in Nat /\ Total \in Nat /\ Total = start[SourceBlobs + 1]
      /\ \A b \in 1 .. SourceBlobs + 1 : start[b] \in Nat
  BY StartFacts DEF Total
<1>2. /\ f \in 1 .. SourceBlobs + 1 /\ start[f] <= p
      /\ IF f = SourceBlobs + 1 THEN p = Total ELSE p < start[f + 1]
      /\ g \in 1 .. SourceBlobs + 1 /\ start[g] <= q
      /\ IF g = SourceBlobs + 1 THEN q = Total ELSE q < start[g + 1]
  BY InputAtFacts
<1>3. r = [firstBlob |-> f, firstOffset |-> p - start[f],
           lastBlob |-> g, lastOffset |-> q - start[g]]
  BY InputAtFacts DEF RangeOf, In!GetBufferRange
<1> HIDE DEF f, g, r
<1>4. f <= g
  <2>1. SUFFICES ASSUME g < f PROVE FALSE
    BY <1>1, <1>2
  <2>2. g + 1 \in 1 .. SourceBlobs + 1 /\ g + 1 <= f /\ g # SourceBlobs + 1
    BY <1>1, <1>2, <2>1
  <2>3. start[g + 1] <= start[f]
    BY <1>2, <2>2, Rising
  <2>4. QED
    BY <1>1, <1>2, <2>2, <2>3
<1>5. /\ e \in 1 .. SourceBlobs + 1 /\ f <= e
      /\ c = LET d == In!At(f, e, q - start[g])
             IN  IF d.isEof THEN d ELSE [d EXCEPT !.ptr = @ + (p - start[f])]
  <2>1. e \in 1 .. SourceBlobs + 1 /\ f <= e
    BY <1>1, <1>2, <1>4
  <2>2. QED
    BY <1>3, <2>1 DEF In!FromRange
<1>6. In!FirstWithBytes(f, e) = f
  <2>1. f \in Nat /\ e \in Nat
    BY <1>1, <1>2, <1>5
  <2>2. ASSUME f # e PROVE In!Size(f) # 0
    <3>1. f # SourceBlobs + 1
      BY <1>1, <1>2, <1>5, <2>2
    <3>2. start[f] \in Nat /\ start[f + 1] \in Nat /\ start[f] < start[f + 1]
      BY <1>1, <1>2, <3>1
    <3>3. QED
      BY <3>2 DEF In!Size
  <2>3. QED
    BY <1>5, <2>1, <2>2, FirstIs
<1>7. /\ c.blob = f /\ c.blobEnd = e /\ c.lastOffset = q - start[g]
      /\ f # e => c.ptr = p
  <2> DEFINE d == In!At(f, e, q - start[g])
  <2>1. /\ d.blob = f /\ d.blobEnd = e /\ d.lastOffset = q - start[g]
        /\ d.isEof <=> f = e
        /\ f # e => d.ptr = start[f]
    BY <1>6 DEF In!At
  <2>2. CASE f = e
    <3>1. c = d
      BY <1>5, <2>1, <2>2
    <3>2. QED
      BY <2>1, <2>2, <3>1
  <2>3. CASE f # e
    <3>1. c = [d EXCEPT !.ptr = @ + (p - start[f])]
      BY <1>5, <2>1, <2>3
    <3>2. d = [blob |-> d.blob, blobEnd |-> d.blobEnd, ptr |-> d.ptr,
               ptrEnd |-> d.ptrEnd, isEof |-> d.isEof, lastOffset |-> d.lastOffset]
      BY DEF In!At
    <3> HIDE DEF d, e, c
    <3>3. c.blob = d.blob /\ c.blobEnd = d.blobEnd /\ c.lastOffset = d.lastOffset
          /\ c.ptr = d.ptr + (p - start[f])
      BY <3>1, <3>2
    <3>4. start[f] + (p - start[f]) = p
      BY <1>1, <1>2
    <3>5. QED
      BY <2>1, <2>3, <3>3, <3>4
  <2>4. QED
    BY <2>2, <2>3
<1> HIDE DEF c
<1>8. In!LimitOf(c) = q
  <2>1. start[g] \in Nat /\ start[g] + (q - start[g]) = q /\ (g + 1) - 1 = g
    BY <1>1, <1>2
  <2>2. CASE q - start[g] # 0
    BY <1>7, <2>1, <2>2 DEF In!LimitOf
  <2>3. CASE q - start[g] = 0
    BY <1>7, <2>1, <2>3 DEF In!LimitOf
  <2>4. QED
    BY <2>2, <2>3
<1>9. In!PosOf(c) = p
  <2>1. CASE f = e
    <3>1. f = g /\ q = start[g]
      BY <1>1, <1>2, <1>4, <2>1
    <3>2. p = q
      BY <1>1, <1>2, <3>1
    <3>3. QED
      BY <1>7, <1>8, <2>1, <3>2 DEF In!PosOf
  <2>2. CASE f # e
    BY <1>7, <2>2 DEF In!PosOf
  <2>3. QED
    BY <2>1, <2>2
<1>10. QED
  BY <1>8, <1>9 DEF RangeBytes, c, r

\* The pieces of ps lie before byte m of the source.
Before(ps, m) == \A k \in DOMAIN ps : ps[k].from <= m /\ ps[k].to <= m

\* The pieces of that Range are those bytes.
LEMMA PiecesAre ==
    ASSUME Layout, NEW p \in 0 .. Total, NEW q \in 0 .. Total, p <= q
    PROVE  /\ FlattenSeq(Slices(Pieces(RangeOf(p, q)))) = SourceRange(p, q)
           /\ Before(Pieces(RangeOf(p, q)), q)
<1> DEFINE r == RangeOf(p, q)
           f == InputAt(p).blob
           g == InputAt(q).blob
           last == LastPiece(r)
           n == last + 1 - f
           ps == Pieces(r)
<1>1. /\ SourceBlobs \in Nat /\ Total \in Nat /\ Total = start[SourceBlobs + 1]
      /\ \A b \in 1 .. SourceBlobs + 1 : start[b] \in Nat
  BY StartFacts DEF Total
<1>2. /\ f \in 1 .. SourceBlobs + 1 /\ start[f] <= p
      /\ IF f = SourceBlobs + 1 THEN p = Total ELSE p < start[f + 1]
      /\ g \in 1 .. SourceBlobs + 1 /\ start[g] <= q
      /\ IF g = SourceBlobs + 1 THEN q = Total ELSE q < start[g + 1]
  BY InputAtFacts
<1>3. r = [firstBlob |-> f, firstOffset |-> p - start[f],
           lastBlob |-> g, lastOffset |-> q - start[g]]
  BY InputAtFacts DEF RangeOf, In!GetBufferRange
<1>4. ps \in Seq(Source)
  BY PiecesFacts DEF RangeOf
<1> HIDE DEF f, g, r
<1>5. last = IF q - start[g] # 0 THEN g ELSE g - 1
  BY <1>3 DEF LastPiece
<1>6. f <= g
  <2>1. SUFFICES ASSUME g < f PROVE FALSE
    BY <1>1, <1>2
  <2>2. g + 1 \in 1 .. SourceBlobs + 1 /\ g + 1 <= f /\ g # SourceBlobs + 1
    BY <1>1, <1>2, <2>1
  <2>3. start[g + 1] <= start[f]
    BY <1>2, <2>2, Rising
  <2>4. QED
    BY <1>1, <1>2, <2>2, <2>3
<1> HIDE DEF last
<1>7. CASE p = q
  <2>1. f = g
    <3>1. SUFFICES ASSUME f < g PROVE FALSE
      BY <1>1, <1>2, <1>6
    <3>2. f + 1 \in 1 .. SourceBlobs + 1 /\ f + 1 <= g /\ f # SourceBlobs + 1
      BY <1>1, <1>2, <3>1
    <3>3. start[f + 1] <= start[g]
      BY <1>2, <3>2, Rising
    <3>4. QED
      BY <1>1, <1>2, <1>7, <3>2, <3>3
  <2>2. ps = <<>>
    BY <1>3, <1>7, <2>1 DEF Pieces, IsEmpty
  <2>3. Slices(ps) = <<>>
    BY <2>2 DEF Slices
  <2>4. FlattenSeq(Slices(ps)) = <<>> /\ SourceRange(p, q) = <<>>
    BY <1>1, <1>7, <2>3, FlattenEmpty, RangeEmpty
  <2>5. Before(ps, q)
    BY <2>2 DEF Before
  <2>6. QED
    BY <2>4, <2>5 DEF r
<1>8. CASE p # q
  <2>1. p < q /\ p \in Nat /\ q \in Nat
    BY <1>1, <1>8
  <2>2. ~IsEmpty(r)
    <3>1. SUFFICES ASSUME f = g, p - start[f] = q - start[g] PROVE FALSE
      BY <1>3 DEF IsEmpty
    <3>2. QED
      BY <1>1, <1>2, <2>1, <3>1
  <2>3. f < g \/ (f = g /\ q - start[g] # 0)
    <3>1. CASE f = g
      <4>1. start[g] < q
        BY <1>1, <1>2, <2>1, <3>1
      <4>2. QED
        BY <1>1, <1>2, <2>1, <3>1, <4>1
    <3>2. QED
      BY <1>1, <1>2, <1>6, <3>1
  <2>4. /\ n \in Nat \ {0} /\ last \in 1 .. SourceBlobs /\ last <= g /\ f <= last
        /\ last + 1 - n = f
    <3>1. q - start[g] # 0 => g <= SourceBlobs
      BY <1>1, <1>2
    <3>2. QED
      BY <1>1, <1>2, <1>5, <2>3, <3>1
  <2> DEFINE piece(k) == PieceOf(r, f + k - 1, last)
             seq == [k \in 1 .. n |-> piece(k)]
  <2>5. ps = seq
    BY <1>3, <2>2 DEF Pieces, last
  <2> HIDE DEF ps
  <2> DEFINE cut == [k \in 0 .. n |-> IF k = 0 THEN p
                                      ELSE IF k = n THEN q ELSE start[f + k]]
  <2>6. /\ cut[0] = p /\ cut[n] = q
        /\ \A k \in 1 .. n - 1 : cut[k] = start[f + k]
    BY <2>4
  <2> HIDE DEF cut
  <2>7. \A k \in 1 .. n - 1 : f + k \in 1 .. SourceBlobs + 1 /\ f + k <= last
    BY <1>1, <1>2, <2>4
  <2>8. ASSUME NEW k \in 1 .. n - 1
        PROVE  /\ cut[k] \in Nat /\ p <= cut[k] /\ cut[k] <= q
               /\ start[f + k] = cut[k]
    <3>1. f + 1 \in 1 .. SourceBlobs + 1 /\ f + 1 <= f + k /\ f + k <= g
      BY <1>1, <1>2, <2>4, <2>7
    <3>2. p < start[f + 1]
      BY <1>1, <1>2, <3>1
    <3>3. start[f + 1] <= start[f + k] /\ start[f + k] <= start[g]
      BY <1>2, <2>7, <3>1, Rising
    <3>4. start[f + 1] \in Nat /\ start[f + k] \in Nat /\ start[g] \in Nat
      BY <1>1, <1>2, <2>7, <3>1
    <3>5. cut[k] = start[f + k]
      BY <2>6
    <3>6. QED
      BY <1>2, <2>1, <3>2, <3>3, <3>4, <3>5
  <2>9. ASSUME NEW k \in 0 .. n
        PROVE  cut[k] \in Nat /\ p <= cut[k] /\ cut[k] <= q
    <3>1. k = 0 \/ k = n \/ k \in 1 .. n - 1
      BY <2>4
    <3>2. QED
      BY <2>1, <2>6, <2>8, <3>1
  <2>10. ASSUME NEW k \in 1 .. n
         PROVE  cut[0] <= cut[k - 1] /\ cut[k - 1] <= cut[k]
    <3>1. k - 1 \in 0 .. n /\ (k - 1 = 0 \/ k - 1 \in 1 .. n - 1)
          /\ (k = n \/ k \in 1 .. n - 1)
      BY <2>4
    <3>2. cut[0] <= cut[k - 1]
      BY <2>6, <2>9, <3>1
    <3>3. CASE k - 1 = 0
      <4>1. k \in 0 .. n
        BY <2>4
      <4>2. QED
        BY <2>6, <2>9, <3>2, <3>3, <4>1
    <3>4. CASE k - 1 \in 1 .. n - 1 /\ k = n
      BY <2>6, <2>8, <3>2, <3>4
    <3>5. CASE k - 1 \in 1 .. n - 1 /\ k \in 1 .. n - 1
      <4>1. f + (k - 1) \in 1 .. SourceBlobs + 1 /\ f + k \in 1 .. SourceBlobs + 1
            /\ f + (k - 1) <= f + k
        BY <1>1, <1>2, <2>7, <3>5
      <4>2. start[f + (k - 1)] <= start[f + k]
        BY <4>1, Rising
      <4>3. QED
        BY <2>8, <3>2, <3>5, <4>2
    <3>6. QED
      BY <3>1, <3>3, <3>4, <3>5
  <2>11. ASSUME NEW k \in 1 .. n
         PROVE  piece(k).from = cut[k - 1] /\ piece(k).to = cut[k]
    <3> DEFINE b == f + k - 1
               from == IF b = f THEN p - start[f] ELSE 0
               to == IF b = last /\ q - start[g] # 0 THEN q - start[g]
                     ELSE BlobSize(b)
    <3>1. piece(k).from = start[b] + from /\ piece(k).to = start[b] + to
      BY <1>3 DEF PieceOf, SourcePiece, Piece
    <3>2. /\ b \in 1 .. SourceBlobs /\ start[b] \in Nat /\ start[b + 1] \in Nat
          /\ b = f <=> k = 1
          /\ b = last <=> k = n
          /\ b + 1 = f + k
      BY <1>1, <1>2, <2>4
    <3>3. start[b] + BlobSize(b) = start[f + k]
      BY <3>2 DEF BlobSize
    <3> HIDE DEF b, piece
    <3>4. start[b] + from = cut[k - 1]
      <4>1. CASE k = 1
        <5>1. b = f /\ k - 1 = 0
          BY <3>2, <4>1
        <5>2. start[f] + (p - start[f]) = p
          BY <1>1, <1>2
        <5>3. QED
          BY <2>6, <5>1, <5>2
      <4>2. CASE k # 1
        <5>1. k - 1 \in 1 .. n - 1 /\ b = f + (k - 1) /\ b # f
          BY <1>2, <2>4, <3>2, <4>2 DEF b
        <5>2. QED
          BY <2>6, <3>2, <5>1
      <4>3. QED
        BY <4>1, <4>2
    <3>5. start[b] + to = cut[k]
      <4>1. CASE k # n
        <5>1. k \in 1 .. n - 1 /\ b # last
          BY <2>4, <3>2, <4>1
        <5>2. QED
          BY <2>6, <3>3, <5>1
      <4>2. CASE k = n /\ q - start[g] # 0
        <5>1. b = last /\ b = g
          BY <1>5, <3>2, <4>2
        <5>2. start[g] + (q - start[g]) = q
          BY <1>1, <1>2
        <5>3. QED
          BY <2>6, <4>2, <5>1, <5>2
      <4>3. CASE k = n /\ q - start[g] = 0
        <5>1. b + 1 = g
          BY <1>2, <1>5, <3>2, <4>3
        <5>2. start[g] = q
          BY <1>1, <1>2, <4>3
        <5>3. QED
          BY <2>6, <3>2, <3>3, <4>3, <5>1, <5>2
      <4>4. QED
        BY <4>1, <4>2, <4>3
    <3>6. QED
      BY <3>1, <3>4, <3>5
  <2> HIDE DEF piece
  <2>12. Len(ps) = n
    <3>1. DOMAIN ps = 1 .. n
      BY <2>5
    <3>2. Len(ps) \in Nat /\ DOMAIN ps = 1 .. Len(ps)
      BY <1>4, LenProperties
    <3>3. QED
      BY <2>4, <3>1, <3>2
  <2>13. \A k \in 1 .. n : ps[k].from = cut[k - 1] /\ ps[k].to = cut[k]
    BY <2>5, <2>11
  <2> HIDE DEF n, seq
  <2>14. FlattenSeq(Slices(ps)) = SourceRange(cut[0], cut[n])
    BY <1>4, <2>4, <2>9, <2>10, <2>12, <2>13, SlicesJoin
  <2>15. Before(ps, q)
    <3>1. ASSUME NEW k \in 1 .. n
          PROVE  ps[k].from <= q /\ ps[k].to <= q
      <4>1. k - 1 \in 0 .. n /\ k \in 0 .. n
        BY <2>4
      <4>2. QED
        BY <2>9, <2>13, <4>1
    <3>2. DOMAIN ps = 1 .. n
      BY <1>4, <2>12, LenProperties
    <3>3. QED
      BY <3>1, <3>2 DEF Before
  <2>16. QED
    BY <2>6, <2>14, <2>15 DEF ps, r
<1>9. QED
  BY <1>7, <1>8

\* What was written and what remains are together what was to be written.
Remains == log \o FlattenSeq(Slices(op.left)) = op.goal

LEMMA RemainsIs ==
    ASSUME IndInv, op.kind = "pieces"
    PROVE  WritesWholeRange <=> Remains
<1>1. op.left \in Seq(Source)
  BY DEF IndInv, Left
<1>2. \A k \in DOMAIN op.left : op.left[k] \in Source
  BY <1>1, LenProperties
<1>3. \A k \in DOMAIN op.left :
          BytesOf(op.left[k]) = SourceRange(op.left[k].from, op.left[k].to)
  BY <1>2 DEF Source, BytesOf
<1>4. [k \in DOMAIN op.left |-> BytesOf(op.left[k])] = Slices(op.left)
  BY <1>3 DEF Slices
<1>5. QED
  BY <1>4 DEF WritesWholeRange, Remains

LEMMA RemainsIsNext ==
    ASSUME IndInv', op'.kind = "pieces",
           log' \o FlattenSeq(Slices(op'.left)) = op'.goal
    PROVE  WritesWholeRange'
<1>1. op'.left \in Seq(Source)
  BY DEF IndInv, Left, Source
<1>2. \A k \in DOMAIN op'.left : op'.left[k] \in Source
  BY <1>1, LenProperties
<1>3. \A k \in DOMAIN op'.left :
          BytesOf(op.left[k])' = SourceRange(op'.left[k].from, op'.left[k].to)
  BY <1>2 DEF Source, BytesOf, SourceRange
<1>4. [k \in DOMAIN op'.left |-> BytesOf(op.left[k])'] = Slices(op'.left)
  BY <1>3 DEF Slices
<1>5. QED
  BY <1>4 DEF WritesWholeRange

LEMMA BeginWhole ==
    ASSUME IndInv, IndInv', NEW ps, NEW bs, Begin(ps, bs),
           FlattenSeq(Slices(ps)) = bs
    PROVE  WritesWholeRange'
<1>1. op' = [kind |-> "pieces", left |-> ps, goal |-> log \o bs] /\ log' = log
  BY DEF Begin, out
<1>2. op'.kind = "pieces" /\ op'.left = ps /\ op'.goal = log \o bs
  BY <1>1
<1>3. QED
  BY <1>1, <1>2, RemainsIsNext

LEMMA BlobWhole ==
    ASSUME Layout, NEW b \in 1 .. SourceBlobs, NEW from \in 0 .. BlobSize(b),
           NEW to \in from .. BlobSize(b)
    PROVE  FlattenSeq(Slices(<<BlobCast(b, from, to)>>))
               = SourceRange(start[b] + from, start[b] + to)
<1> DEFINE p == start[b] + from
           q == start[b] + to
           c == BlobCast(b, from, to)
           cut == [k \in 0 .. 1 |-> IF k = 0 THEN p ELSE q]
           ps == <<c>>
<1>1. p \in Nat /\ q \in Nat /\ p <= q
  BY BlobCastFacts
<1>2. c \in Source /\ c.from = p /\ c.to = q
  BY BlobCastFacts
<1> HIDE DEF p, q, c
<1>3. cut[0] = p /\ cut[1] = q
  OBVIOUS
<1>4. ps \in Seq(Source) /\ Len(ps) = 1 /\ ps[1] = c
  BY <1>2
<1> HIDE DEF cut, ps
<1>5. FlattenSeq(Slices(ps)) = SourceRange(cut[0], cut[1])
  <2>1. \A k \in 0 .. 1 : cut[k] \in Nat
    <3>1. \A k \in 0 .. 1 : k = 0 \/ k = 1
      OBVIOUS
    <3>2. QED
      BY <1>1, <1>3, <3>1
  <2>2. \A k \in 1 .. 1 : k = 1 /\ k - 1 = 0
    OBVIOUS
  <2>3. \A k \in 1 .. 1 : cut[0] <= cut[k - 1] /\ cut[k - 1] <= cut[k]
    BY <1>1, <1>3, <2>2
  <2>4. \A k \in 1 .. 1 : ps[k].from = cut[k - 1] /\ ps[k].to = cut[k]
    BY <1>2, <1>3, <1>4, <2>2
  <2>5. 1 \in Nat
    OBVIOUS
  <2>6. QED
    BY <1>4, <2>1, <2>3, <2>4, <2>5, SlicesJoin
<1>6. QED
  BY <1>3, <1>5 DEF ps, p, q, c

LEMMA BufferWhole ==
    ASSUME Layout
    PROVE  FlattenSeq(Slices([b \in 1 .. SourceBlobs |-> WholeBlob(b)]))
               = SourceRange(0, Total)
<1> DEFINE n == SourceBlobs
           cut == [k \in 0 .. n |-> start[k + 1]]
           ps == [b \in 1 .. n |-> WholeBlob(b)]
<1>1. n \in Nat /\ \A b \in 1 .. n + 1 : start[b] \in Nat
  BY StartFacts
<1>2. ps \in Seq(Source) /\ Len(ps) = n
  <2>1. ps \in [1 .. n -> Source]
    BY WholeBlobFacts
  <2>2. QED
    BY <1>1, <2>1, IsSequence
<1>3. \A k \in 0 .. n : cut[k] = start[k + 1] /\ k + 1 \in 1 .. n + 1
  BY <1>1
<1> HIDE DEF cut
<1>4. ASSUME NEW k \in 1 .. n
      PROVE  /\ cut[0] <= cut[k - 1] /\ cut[k - 1] <= cut[k]
             /\ ps[k].from = cut[k - 1] /\ ps[k].to = cut[k]
  <2>1. k - 1 \in 0 .. n /\ k \in 0 .. n /\ 0 \in 0 .. n /\ (k - 1) + 1 = k
    BY <1>1
  <2>2. cut[0] = start[1] /\ cut[k - 1] = start[k] /\ cut[k] = start[k + 1]
    BY <1>3, <2>1
  <2>3. start[1] = 0 /\ start[k] \in Nat /\ start[k + 1] \in Nat
        /\ start[k] <= start[k + 1]
    BY <1>1 DEF Layout
  <2>4. ps[k].from = start[k] /\ ps[k].to = start[k + 1]
    BY <2>3 DEF WholeBlob, SourcePiece, BlobSize, Piece
  <2>5. QED
    BY <2>2, <2>3, <2>4
<1>5. \A k \in 0 .. n : cut[k] \in Nat
  BY <1>1, <1>3
<1>6. cut[0] = 0 /\ cut[n] = Total
  BY <1>1, <1>3 DEF Total, Layout
<1> HIDE DEF ps
<1>7. FlattenSeq(Slices(ps)) = SourceRange(cut[0], cut[n])
  BY <1>1, <1>2, <1>4, <1>5, SlicesJoin
<1>8. QED
  BY <1>6, <1>7 DEF ps

LEMMA PieceWhole ==
    ASSUME IndInv, IndInv', WritesWholeRange, NextPiece
    PROVE  WritesWholeRange'
<1> DEFINE c == Head(op.left)
           s == Slices(op.left)
           t == Slices(Tail(op.left))
           n == Len(Tail(op.left))
<1>1. op.kind = "pieces" /\ op.left # <<>> /\ op.left \in Seq(Source)
  BY DEF NextPiece, IndInv, Left
<1>2. op = [kind |-> "pieces", left |-> op.left, goal |-> op.goal]
  BY <1>1 DEF IndInv, Left
<1>3. /\ op'.kind = "pieces" /\ op'.left = Tail(op.left) /\ op'.goal = op.goal
  BY <1>2 DEF NextPiece
<1>4. /\ c \in Source /\ Tail(op.left) \in Seq(Source) /\ n = Len(op.left) - 1
      /\ \A i \in 1 .. n : Tail(op.left)[i] = op.left[i + 1]
  BY <1>1, HeadTailProperties
<1>5. /\ n \in Nat /\ Len(op.left) = n + 1
      /\ DOMAIN op.left = 1 .. n + 1 /\ DOMAIN Tail(op.left) = 1 .. n
  <2>1. n \in Nat /\ DOMAIN Tail(op.left) = 1 .. n
    BY <1>4, LenProperties
  <2>2. Len(op.left) \in Nat /\ DOMAIN op.left = 1 .. Len(op.left)
    BY <1>1, LenProperties
  <2> HIDE DEF n
  <2>3. QED
    BY <1>4, <2>1, <2>2
<1> HIDE DEF n
<1>6. c = op.left[1]
  BY <1>1
<1>7. log' = log \o SourceRange(c.from, c.to)
  <2>1. BytesOf(c) = SourceRange(c.from, c.to)
    BY <1>4 DEF Source, BytesOf
  <2>2. log' = log \o BytesOf(c)
    BY DEF NextPiece, AppendBytes, Memcpy
  <2>3. QED
    BY <2>1, <2>2
<1> HIDE DEF c
<1>8. /\ s \in Seq(Seq(Nat)) /\ Len(s) = n + 1
      /\ t \in Seq(Seq(Nat)) /\ Len(t) = n
  BY <1>1, <1>4, <1>5, SlicesFacts DEF n
<1>9. s[1] = SourceRange(c.from, c.to) /\ \A i \in 1 .. n : t[i] = s[i + 1]
  <2>1. 1 \in 1 .. n + 1
    BY <1>5
  <2>2. s[1] = SourceRange(c.from, c.to)
    BY <1>5, <1>6, <2>1 DEF Slices
  <2>3. ASSUME NEW i \in 1 .. n
        PROVE  t[i] = s[i + 1]
    <3>1. i + 1 \in 1 .. n + 1
      BY <1>5
    <3>2. QED
      BY <1>4, <1>5, <3>1 DEF Slices
  <2>4. QED
    BY <2>2, <2>3
<1> HIDE DEF s, t
<1>10. FlattenSeq(s) = s[1] \o FlattenSeq(t)
  BY <1>5, <1>8, <1>9, FlattenHead
<1>11. log \o FlattenSeq(s) = op.goal
  BY <1>1, RemainsIs DEF Remains, s
<1>12. log \in Seq(Nat) /\ s[1] \in Seq(Nat) /\ FlattenSeq(t) \in Seq(Nat)
  <2>1. s[1] \in Seq(Nat)
    BY <1>5, <1>8, ElementOfSeq
  <2>2. QED
    BY <1>8, <2>1, FlattenInSeq DEF IndInv, Logged
<1>13. (log \o s[1]) \o FlattenSeq(t) = log \o (s[1] \o FlattenSeq(t))
  BY <1>12, AssociativeBytes
<1>14. log' \o FlattenSeq(t) = op.goal
  BY <1>7, <1>9, <1>10, <1>11, <1>13
<1>15. QED
  BY <1>3, <1>14, RemainsIsNext DEF t

LEMMA NextWhole ==
    ASSUME IndInv, IndInv', WritesWholeRange, [Next]_vars
    PROVE  WritesWholeRange'
<1>1. Layout
  BY DEF IndInv
<1>2. CASE UNCHANGED vars
  BY <1>2 DEF vars, out, WritesWholeRange, BytesOf, SourceRange
<1>3. CASE op'.kind # "pieces"
  BY <1>3 DEF WritesWholeRange
<1>4. ASSUME NEW n, Write(n) PROVE op'.kind # "pieces"
  BY <1>4 DEF Write, Ready, NoOp
<1>5. ASSUME NEW n, WriteVariable(n) PROVE op'.kind # "pieces"
  BY <1>5 DEF WriteVariable, Ready, NoOp
<1>6. ASSUME NextByte PROVE op'.kind # "pieces"
  <2>1. op = [kind |-> "variable", left |-> op.left]
    BY <1>6 DEF NextByte, IndInv, Left
  <2>2. QED
    BY <1>6, <2>1 DEF NextByte
<1>7. ASSUME Flush \/ GetBuffer \/ Return \/ AllocateThrows \/ TakeBlobThrows
      PROVE  op'.kind # "pieces"
  BY <1>7 DEF Flush, GetBuffer, Return, AllocateThrows, TakeBlobThrows, Ready, NoOp
<1>8. ASSUME NEW b \in 1 .. SourceBlobs, NEW from \in 0 .. BlobSize(b),
             NEW to \in from .. BlobSize(b), WriteBlob(b, from, to)
      PROVE  WritesWholeRange'
  BY <1>1, <1>8, BlobWhole, BeginWhole DEF WriteBlob
<1>9. CASE WriteBuffer
  BY <1>1, <1>9, BufferWhole, BeginWhole DEF WriteBuffer
<1>10. ASSUME NEW p \in 0 .. Total, NEW q \in 0 .. Total, WriteRange(p, q)
       PROVE  WritesWholeRange'
  <2>1. p <= q /\ Begin(Pieces(RangeOf(p, q)), RangeBytes(RangeOf(p, q)))
    BY <1>10 DEF WriteRange, RangeOf
  <2>2. FlattenSeq(Slices(Pieces(RangeOf(p, q)))) = RangeBytes(RangeOf(p, q))
    BY <1>1, <2>1, PiecesAre, RangeBytesAre
  <2>3. QED
    BY <2>1, <2>2, BeginWhole
<1>11. QED
  BY <1>2, <1>3, <1>4, <1>5, <1>6, <1>7, <1>8, <1>9, <1>10, PieceWhole DEF Next

-----------------------------------------------------------------------------
(* Types.                                                                  *)

\* What the type invariant says beyond IndInv.
Shape ==
    /\ \A k \in DOMAIN buffer :
           ~buffer[k].own => buffer[k].from <= Total /\ buffer[k].to <= Total
    /\ op.kind = "pieces" => Before(op.left, Total)
    /\ op.kind = "variable" => op.left \in Nat
    /\ op = NoOp \/ op.kind \in {"pieces", "variable"}
    /\ phase \in {"open", "moved", "broken"}

\* The chunks that FlushAndPush adds to those of others are the ones of b.
LEMMA PushedPieces ==
    ASSUME Core, phase = "open", NEW b \in Seq(Source), FlushAndPush(b),
           NEW k \in DOMAIN buffer', ~buffer'[k].own
    PROVE  \/ k \in DOMAIN buffer /\ buffer'[k] = buffer[k]
           \/ \E j \in DOMAIN b : buffer'[k] = b[j]
<1> DEFINE m == Len(MergedBuffer)
<1>1. buffer' = MergedBuffer \o b
  BY DEF FlushAndPush
<1>2. MergedBuffer \in Seq(Chunk) /\ b \in Seq(Chunk)
  BY MergeFacts, SeqMonotonic DEF Chunk
<1>3. /\ m \in Nat /\ DOMAIN MergedBuffer = 1 .. m
      /\ Len(b) \in Nat /\ DOMAIN b = 1 .. Len(b)
  BY <1>2, LenProperties
<1>4. /\ buffer' \in Seq(Chunk) /\ Len(buffer') = m + Len(b)
      /\ \A i \in 1 .. m + Len(b) :
             buffer'[i] = IF i <= m THEN MergedBuffer[i] ELSE b[i - m]
  BY <1>1, <1>2, ConcatProperties
<1>5. k \in 1 .. m + Len(b)
  BY <1>4, LenProperties
<1> HIDE DEF m
<1>6. CASE k <= m
  <2>1. k \in DOMAIN MergedBuffer /\ buffer'[k] = MergedBuffer[k]
    BY <1>3, <1>4, <1>5, <1>6
  <2>2. MergedBuffer[k] # Own(blob, ptr)
    BY <2>1 DEF Own
  <2>3. QED
    BY <2>1, <2>2, MergeFacts
<1>7. CASE ~(k <= m)
  <2>1. k - m \in DOMAIN b /\ buffer'[k] = b[k - m]
    BY <1>3, <1>4, <1>5, <1>7
  <2>2. QED
    BY <2>1
<1>8. QED
  BY <1>6, <1>7

LEMMA MergedPieces ==
    ASSUME Core, phase = "open", NEW k \in DOMAIN MergedBuffer,
           ~MergedBuffer[k].own
    PROVE  k \in DOMAIN buffer /\ MergedBuffer[k] = buffer[k]
<1>1. MergedBuffer[k] # Own(blob, ptr)
  BY DEF Own
<1>2. QED
  BY <1>1, MergeFacts

LEMMA BeginShape ==
    ASSUME Shape, start' = start, NEW ps, NEW bs, Begin(ps, bs),
           Before(ps, Total)
    PROVE  Shape'
<1>1. /\ op' = [kind |-> "pieces", left |-> ps, goal |-> log \o bs]
      /\ buffer' = buffer /\ phase' = phase
  BY DEF Begin, out
<1>2. op'.kind = "pieces" /\ op'.left = ps
  BY <1>1
<1>3. Total' = Total
  BY DEF Total
<1>4. QED
  BY <1>1, <1>2, <1>3 DEF Shape, Before

LEMMA WholeBlobBefore ==
    ASSUME Layout, NEW b \in 1 .. SourceBlobs
    PROVE  WholeBlob(b).from <= Total /\ WholeBlob(b).to <= Total
<1>1. /\ SourceBlobs \in Nat
      /\ b \in 1 .. SourceBlobs + 1 /\ b + 1 \in 1 .. SourceBlobs + 1
      /\ SourceBlobs + 1 \in 1 .. SourceBlobs + 1
      /\ b <= SourceBlobs + 1 /\ b + 1 <= SourceBlobs + 1
  BY StartFacts
<1>2. start[b] \in Nat /\ start[b + 1] \in Nat
  BY <1>1, StartFacts
<1>3. start[b] <= Total /\ start[b + 1] <= Total
  BY <1>1, Rising DEF Total
<1>4. WholeBlob(b).from = start[b] /\ WholeBlob(b).to = start[b + 1]
  BY <1>2 DEF WholeBlob, SourcePiece, BlobSize, Piece
<1>5. QED
  BY <1>3, <1>4

LEMMA BlobCastBefore ==
    ASSUME Layout, NEW b \in 1 .. SourceBlobs, NEW from \in 0 .. BlobSize(b),
           NEW to \in from .. BlobSize(b)
    PROVE  /\ BlobCast(b, from, to).from <= Total
           /\ BlobCast(b, from, to).to <= Total
<1>1. /\ SourceBlobs \in Nat
      /\ b + 1 \in 1 .. SourceBlobs + 1
      /\ SourceBlobs + 1 \in 1 .. SourceBlobs + 1 /\ b + 1 <= SourceBlobs + 1
  BY StartFacts
<1>2. start[b + 1] \in Nat /\ Total \in Nat
  BY <1>1, StartFacts
<1>3. start[b + 1] <= Total
  BY <1>1, Rising DEF Total
<1>4. QED
  BY <1>2, <1>3, BlobCastFacts

LEMMA PieceShape ==
    ASSUME IndInv, Shape, NextPiece
    PROVE  Shape'
<1> DEFINE c == Head(op.left)
<1>1. /\ op.kind = "pieces" /\ op.left # <<>> /\ op.left \in Seq(Source)
      /\ op = [kind |-> "pieces", left |-> op.left, goal |-> op.goal]
      /\ phase = "open" /\ start' = start
  BY DEF NextPiece, IndInv, Left, Busy
<1>2. Total' = Total
  BY <1>1 DEF Total
<1>3. op'.kind = "pieces" /\ op'.left = Tail(op.left)
  BY <1>1 DEF NextPiece
<1>4. /\ c \in Source /\ c = op.left[1] /\ 1 \in DOMAIN op.left
      /\ \A i \in DOMAIN Tail(op.left) :
             i + 1 \in DOMAIN op.left /\ Tail(op.left)[i] = op.left[i + 1]
  <2>1. Len(op.left) \in Nat \ {0} /\ DOMAIN op.left = 1 .. Len(op.left)
    BY <1>1, EmptySeq, LenProperties
  <2>2. /\ Tail(op.left) \in Seq(Source) /\ Len(Tail(op.left)) = Len(op.left) - 1
        /\ \A i \in 1 .. Len(Tail(op.left)) : Tail(op.left)[i] = op.left[i + 1]
        /\ c \in Source
    BY <1>1, HeadTailProperties
  <2>3. DOMAIN Tail(op.left) = 1 .. Len(Tail(op.left))
    BY <2>2, LenProperties
  <2>4. QED
    BY <1>1, <2>1, <2>2, <2>3
<1>5. Before(op.left, Total)
  BY <1>1 DEF Shape
<1>6. Before(Tail(op.left), Total) /\ c.from <= Total /\ c.to <= Total
  BY <1>4, <1>5 DEF Before
<1>7. \/ FlushAndPush(<<c>>)
      \/ AppendBytes(BytesOf(c))
  BY DEF NextPiece
<1> HIDE DEF c
<1>8. phase' = phase
  BY <1>7 DEF FlushAndPush, AppendBytes, Memcpy
<1>9. \A k \in DOMAIN buffer' :
          ~buffer'[k].own => buffer'[k].from <= Total /\ buffer'[k].to <= Total
  <2>1. CASE FlushAndPush(<<c>>)
    <3>1. <<c>> \in Seq(Source) /\ \A j \in DOMAIN <<c>> : <<c>>[j] = c
      BY <1>4
    <3>2. Core
      BY DEF IndInv
    <3>3. QED
      BY <1>1, <1>6, <2>1, <3>1, <3>2, PushedPieces DEF Shape
  <2>2. CASE AppendBytes(BytesOf(c))
    BY <2>2 DEF AppendBytes, Memcpy, Shape
  <2>3. QED
    BY <1>7, <2>1, <2>2
<1>10. QED
  BY <1>1, <1>2, <1>3, <1>6, <1>8, <1>9 DEF Shape

LEMMA NextShape ==
    ASSUME IndInv, Shape, [Next]_vars
    PROVE  Shape'
<1>1. Layout /\ Core
  BY DEF IndInv
<1>2. start' = start /\ Total' = Total
  BY DEF Next, vars, Write, WriteVariable, NextByte, Flush, GetBuffer, WriteBlob,
     WriteBuffer, WriteRange, Begin, NextPiece, Return, AllocateThrows,
     TakeBlobThrows, Total
<1>3. CASE UNCHANGED vars
  BY <1>2, <1>3 DEF vars, out, Shape, Before
<1>4. ASSUME UNCHANGED <<buffer, phase>>, op' = op \/ op' = NoOp
      PROVE  Shape'
  BY <1>2, <1>4 DEF Shape, Before, NoOp
<1>5. ASSUME NEW n \in 0 .. Bytes, Write(n) PROVE Shape'
  BY <1>4, <1>5 DEF Write, AppendBytes, Memcpy
<1>6. ASSUME NEW n \in 1 .. FastPath + 1, WriteVariable(n) PROVE Shape'
  <2>1. n \in Nat
    BY Sizes
  <2>2. UNCHANGED <<buffer, phase>>
    BY <1>6 DEF WriteVariable, Memcpy, out
  <2>3. CASE op' = op
    BY <1>4, <2>2, <2>3
  <2>4. CASE op' = [kind |-> "variable", left |-> n]
    BY <1>2, <2>1, <2>2, <2>4 DEF Shape
  <2>5. QED
    BY <1>6, <2>3, <2>4 DEF WriteVariable
<1>7. CASE NextByte
  <2>1. /\ op = [kind |-> "variable", left |-> op.left]
        /\ op.left \in Nat /\ op.left # 0 /\ UNCHANGED <<buffer, phase>>
        /\ op' = [op EXCEPT !.left = @ - 1]
    BY <1>7 DEF NextByte, IndInv, Left, Shape, AppendBytes, Memcpy
  <2>2. op' = [kind |-> "variable", left |-> op.left - 1]
    BY <2>1
  <2>3. op'.kind = "variable" /\ op'.left = op.left - 1
    BY <2>2
  <2>4. op.left - 1 \in Nat
    BY <2>1
  <2>5. QED
    BY <1>2, <2>1, <2>3, <2>4 DEF Shape
<1>8. CASE Flush
  <2>1. phase = "open" /\ FlushAndPush(<<>>) /\ op' = op /\ phase' = phase
    BY <1>8 DEF Flush, Ready, FlushAndPush
  <2>2. <<>> \in Seq(Source) /\ DOMAIN <<>> = {}
    BY EmptySeq
  <2>3. \A k \in DOMAIN buffer' : ~buffer'[k].own =>
            k \in DOMAIN buffer /\ buffer'[k] = buffer[k]
    BY <1>1, <2>1, <2>2, PushedPieces
  <2>4. QED
    BY <1>2, <2>1, <2>3 DEF Shape, Before
<1>9. CASE GetBuffer \/ TakeBlobThrows
  <2>1. /\ phase = "open" /\ buffer' = MergedBuffer
        /\ phase' \in {"moved", "broken"} /\ (op' = op \/ op' = NoOp)
    BY <1>9 DEF GetBuffer, TakeBlobThrows, Ready
  <2>2. \A k \in DOMAIN buffer' : ~buffer'[k].own =>
            k \in DOMAIN buffer /\ buffer'[k] = buffer[k]
    BY <1>1, <2>1, MergedPieces
  <2>3. QED
    BY <1>2, <2>1, <2>2 DEF Shape, Before, NoOp
<1>10. CASE Return \/ AllocateThrows
  BY <1>4, <1>10 DEF Return, AllocateThrows, out
<1>11. ASSUME NEW b \in 1 .. SourceBlobs, NEW from \in 0 .. BlobSize(b),
              NEW to \in from .. BlobSize(b), WriteBlob(b, from, to)
       PROVE  Shape'
  <2>1. Before(<<BlobCast(b, from, to)>>, Total)
    BY <1>1, BlobCastBefore DEF Before
  <2>2. QED
    BY <1>2, <1>11, <2>1, BeginShape DEF WriteBlob
<1>12. CASE WriteBuffer
  <2>1. Before([b \in 1 .. SourceBlobs |-> WholeBlob(b)], Total)
    BY <1>1, WholeBlobBefore DEF Before
  <2>2. QED
    BY <1>2, <1>12, <2>1, BeginShape DEF WriteBuffer
<1>13. ASSUME NEW p \in 0 .. Total, NEW q \in 0 .. Total, WriteRange(p, q)
       PROVE  Shape'
  <2>1. p <= q /\ Begin(Pieces(RangeOf(p, q)), RangeBytes(RangeOf(p, q)))
    BY <1>13 DEF WriteRange, RangeOf
  <2>2. Before(Pieces(RangeOf(p, q)), q) /\ Pieces(RangeOf(p, q)) \in Seq(Source)
    BY <1>1, <2>1, PiecesAre, PiecesFacts DEF RangeOf
  <2> DEFINE ps == Pieces(RangeOf(p, q))
  <2>3. \A k \in DOMAIN ps : ps[k].from \in Nat /\ ps[k].to \in Nat
    <3>1. \A k \in DOMAIN ps : ps[k] \in Source
      BY <2>2, LenProperties
    <3>2. QED
      BY <3>1 DEF Source
  <2>4. Total \in Nat /\ q <= Total
    BY <1>1, StartFacts
  <2>5. Before(ps, Total)
    BY <2>2, <2>3, <2>4 DEF Before
  <2>6. QED
    BY <1>2, <2>1, <2>5, BeginShape
<1>14. QED
  BY <1>3, <1>5, <1>6, <1>7, <1>8, <1>9, <1>10, <1>11, <1>12, <1>13, PieceShape
     DEF Next

LEMMA TypesFollow == IndInv /\ Shape => TypeOK
<1>1. SUFFICES ASSUME IndInv, Shape PROVE TypeOK
  OBVIOUS
<1>2. Total \in Nat
  BY <1>1, StartFacts DEF IndInv
<1>3. ASSUME NEW c \in Source, c.from <= Total, c.to <= Total
      PROVE  c \in [own : {FALSE}, from : 0 .. Total, to : 0 .. Total]
  <2>1. c = [own |-> c.own, from |-> c.from, to |-> c.to]
    BY DEF Source
  <2>2. c.own \in {FALSE} /\ c.from \in Nat /\ c.to \in Nat
    BY DEF Source
  <2>3. c.from \in 0 .. Total /\ c.to \in 0 .. Total
    BY <1>2, <1>3, <2>2
  <2>4. QED
    BY <2>1, <2>2, <2>3
<1>4. ASSUME NEW k \in DOMAIN buffer
      PROVE  \/ buffer[k] \in [own : {TRUE}, data : Data, from : Nat, to : Nat]
             \/ buffer[k] \in [own : {FALSE}, from : 0 .. Total, to : 0 .. Total]
  <2>1. buffer[k] \in Chunk
    BY <1>1, LenProperties DEF IndInv, Core, Chunks
  <2>2. CASE buffer[k] \in Source
    <3>1. ~buffer[k].own
      BY <2>2 DEF Source
    <3>2. QED
      BY <1>1, <1>3, <2>2, <3>1 DEF Shape
  <2>3. QED
    BY <2>1, <2>2 DEF Chunk
<1>5. ASSUME op.kind = "pieces", NEW k \in DOMAIN op.left
      PROVE  op.left[k] \in [own : {FALSE}, from : 0 .. Total, to : 0 .. Total]
  <2>1. op.left \in Seq(Source) /\ Before(op.left, Total)
    BY <1>1, <1>5 DEF IndInv, Left, Shape
  <2>2. op.left[k] \in Source
    BY <1>5, <2>1, LenProperties
  <2>3. QED
    BY <1>3, <2>1, <2>2 DEF Before
<1>6. QED
  BY <1>1, <1>4, <1>5 DEF TypeOK, Shape, IndInv, Core, Members, Logged

-----------------------------------------------------------------------------
(* Theorems about the contents.                                            *)

\* However writes that copy, writes that append blobs of the pool, Flush and
\* exceptions follow each other, the buffer and the used part of the current
\* blob are the bytes that were written, in order (OutputBuffer.h:92-203).
THEOREM ContentsAlwaysInOrder == Spec => []ContentsInOrder
<1>1. IndInv /\ Holds => ContentsInOrder
  BY DEF Holds
<1>2. QED
  BY <1>1, HoldsAlways, PTL

\* An OutputBuffer never puts an empty blob into its buffer, so that the loop
\* of Interop's CopyTo, which takes one for the end, reaches all of it
\* (Interop/BufferPool.cpp:38-50).
THEOREM AlwaysCopiedCompletely == Spec => []CopiedCompletely
<1>1. IndInv /\ Holds => CopiedCompletely
  <2>1. SUFFICES ASSUME IndInv, Holds PROVE CopiedCompletely
    OBVIOUS
  <2> DEFINE n == Len(buffer)
             End(k) == /\ k = n + 1 \/ buffer[k].from = buffer[k].to
                       /\ \A j \in 1 .. k - 1 : buffer[j].from # buffer[j].to
             end == CHOOSE k \in 1 .. n + 1 : End(k)
             bs == FlattenSeq([k \in 1 .. end - 1 |-> BytesOf(buffer[k])])
  <2>2. n \in Nat /\ DOMAIN buffer = 1 .. n
    BY <2>1, LenProperties DEF Holds, Sound
  <2>3. \A k \in 1 .. n : buffer[k].from # buffer[k].to
    <3>1. \A k \in 1 .. n : buffer[k].from < buffer[k].to /\ buffer[k] \in Chunk
      BY <2>1, <2>2, LenProperties DEF Holds, Sound, Fits
    <3>2. ASSUME NEW c \in Chunk
          PROVE  c.from \in Nat /\ c.to \in Nat
      <4>1. CASE c \in [own : {TRUE}, data : Data, from : Nat, to : Nat]
        BY <4>1
      <4>2. CASE c \in Source
        BY <4>2 DEF Source
      <4>3. QED
        BY <4>1, <4>2 DEF Chunk
    <3>3. QED
      BY <3>1, <3>2
  <2>4. end = n + 1
    <3>1. n + 1 \in 1 .. n + 1 /\ (n + 1) - 1 = n
      BY <2>2
    <3>2. End(n + 1)
      BY <2>3, <3>1
    <3>3. \A k \in 1 .. n + 1 : End(k) => k = n + 1
      BY <2>2, <2>3
    <3> HIDE DEF End
    <3>4. QED
      BY <3>1, <3>2, <3>3
  <2>5. CopyTo(GetSize) = IF GetSize < Len(bs) THEN SubSeq(bs, 1, GetSize) ELSE bs
    BY DEF CopyTo
  <2> HIDE DEF end
  <2>6. bs = BufferBytes
    <3>1. 1 .. end - 1 = DOMAIN buffer
      BY <2>2, <2>4
    <3>2. QED
      BY <3>1 DEF BufferBytes
  <2>7. BufferBytes \in Seq(Nat)
    BY <2>1, BufferBytesIs, ContentsInSeq DEF Holds
  <2>8. GetSize = Len(bs) /\ Len(bs) \in Nat
    BY <2>6, <2>7, LenProperties DEF GetSize
  <2>9. bs \in Seq(Nat)
    BY <2>6, <2>7
  <2> HIDE DEF bs
  <2>10. CopyTo(GetSize) = bs
    BY <2>5, <2>8
  <2>11. SUFFICES ASSUME GetSize <= MaxInt, NEW offset \in 0 .. MaxInt
                  PROVE  LET array == Junk(offset + GetSize)
                         IN  /\ ~Insufficient(array, offset)
                             /\ SubSeq(CopyToArray(array, offset), offset + 1,
                                       Len(array)) = BufferBytes
    BY DEF CopiedCompletely
  <2> DEFINE array == Junk(offset + GetSize)
             copied == CopyToArray(array, offset)
             whole == SubSeq(copied, offset + 1, Len(array))
  <2>12. offset \in Nat /\ GetSize \in Nat /\ Length = GetSize
    BY <2>8, <2>11, Sizes DEF Length
  <2>13. array \in Seq(Nat) /\ Len(array) = offset + GetSize
    BY <2>12, JunkFacts
  <2> HIDE DEF array
  <2>14. ~Insufficient(array, offset)
    BY <2>12, <2>13 DEF Insufficient
  <2>15. DOMAIN copied = 1 .. Len(array) /\ copied \in Seq(Nat)
         /\ \A k \in 1 .. GetSize : copied[offset + k] = bs[k]
    <3>1. CASE GetSize = 0
      BY <2>12, <2>13, <3>1, LenProperties DEF CopyToArray
    <3>2. CASE GetSize # 0
      <4>1. copied = [k \in 1 .. Len(array) |->
                IF k \in offset + 1 .. offset + Len(bs) THEN bs[k - offset]
                ELSE array[k]]
        BY <2>10, <2>12, <2>13, <3>2, LenProperties DEF CopyToArray
      <4>2. \A k \in 1 .. Len(bs) : bs[k] \in Nat
        BY <2>9, LenProperties
      <4>3. \A k \in 1 .. Len(array) : array[k] \in Nat
        BY <2>13, LenProperties
      <4>4. copied \in [1 .. Len(array) -> Nat]
        BY <2>8, <2>12, <4>1, <4>2, <4>3
      <4>5. copied \in Seq(Nat)
        BY <2>12, <2>13, <4>4, IsSequence
      <4>6. QED
        BY <2>8, <2>12, <2>13, <4>1, <4>4, <4>5
    <3>3. QED
      BY <3>1, <3>2
  <2> HIDE DEF copied
  <2>16. Len(copied) = offset + GetSize
    BY <2>12, <2>13, <2>15, LenProperties
  <2>17. whole = bs
    <3>1. /\ whole \in Seq(Nat) /\ Len(whole) = GetSize
          /\ \A k \in 1 .. GetSize : whole[k] = copied[offset + k]
      <4>1. /\ offset + 1 \in 1 .. Len(copied) + 1
            /\ Len(array) \in offset .. Len(copied)
            /\ Len(array) - (offset + 1) + 1 = GetSize
            /\ offset + 1 <= Len(array) \/ GetSize = 0
            /\ \A k \in 1 .. GetSize : offset + 1 + k - 1 = offset + k
        BY <2>12, <2>13, <2>16
      <4> HIDE DEF whole
      <4>2. /\ whole \in Seq(Nat)
            /\ Len(whole) = IF offset + 1 <= Len(array) THEN GetSize ELSE 0
            /\ \A k \in 1 .. GetSize : whole[k] = copied[offset + 1 + k - 1]
        BY <2>15, <4>1, SubSeqProperties DEF whole
      <4>3. QED
        BY <2>12, <2>13, <4>1, <4>2
    <3>2. \A k \in 1 .. GetSize : whole[k] = bs[k]
      BY <2>15, <3>1
    <3> HIDE DEF whole
    <3>3. QED
      BY <2>8, <2>9, <3>1, <3>2, SeqEqual
  <2>18. QED
    BY <2>6, <2>14, <2>17 DEF array, copied
<1>2. QED
  BY <1>1, HoldsAlways, PTL

\* A Range that two iterators and two offsets describe is written as the
\* bytes that an InputBuffer over it delivers, wherever it begins and ends in
\* whichever layout of blobs (OutputBuffer.h:92-135).
THEOREM AlwaysWritesWholeRange == Spec => []WritesWholeRange
<1>1. Init => IndInv /\ WritesWholeRange
  <2>1. Init => WritesWholeRange
    BY DEF Init, NoOp, WritesWholeRange
  <2>2. QED
    BY <2>1, InitEstablishes
<1>2. (IndInv /\ WritesWholeRange) /\ [Next]_vars => (IndInv /\ WritesWholeRange)'
  BY NextKeeps, NextWhole
<1>3. QED
  BY <1>1, <1>2, PTL DEF Spec

\* The members have their types: whatever is appended lies in the source.
THEOREM TypeCorrect == Spec => []TypeOK
<1>1. Init => IndInv /\ Shape
  <2>1. ASSUME Init PROVE Shape
    <3>1. buffer = <<>> /\ op = NoOp /\ phase = "open"
      BY <2>1 DEF Init
    <3>2. QED
      BY <3>1 DEF Shape, NoOp
  <2>2. QED
    BY <2>1, InitEstablishes
<1>2. (IndInv /\ Shape) /\ [Next]_vars => (IndInv /\ Shape)'
  BY NextKeeps, NextShape
<1>3. QED
  BY <1>1, <1>2, TypesFollow, PTL DEF Spec
=============================================================================
