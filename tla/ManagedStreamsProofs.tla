------------------------ MODULE ManagedStreamsProofs ------------------------
(***************************************************************************)
(* Proofs about ManagedStreams, for any number of items, readers, bytes    *)
(* and blobs: what is written item by item is read item by item, and it    *)
(* makes no difference to a stream how it came to an item.                 *)
(*                                                                         *)
(* The writer is an OutputBuffer, of which everything that is proved in    *)
(* OutputBufferProofs holds; what it adds is where the items lie (Writes). *)
(* A reader has one possible state at each byte (Stands): no blob of the   *)
(* buffer is empty, and so each byte lies in one blob.                     *)
(***************************************************************************)
EXTENDS ManagedStreams, OutputBufferProofs

\* How much of a write that takes several steps is still to come.
Rest ==
    IF op.kind = "variable" THEN op.left
    ELSE IF op.kind = "pieces" /\ op.left # <<>>
    THEN Head(op.left).to - Head(op.left).from
    ELSE 0

Scripts == Seq([kind : {"number", "variable", "string", "bytes"},
                size : Nat, from : Nat])

EndOf(k) == script[k].from + script[k].size

\* The items follow each other, from the first byte to the last.
Follow ==
    /\ script \in Scripts
    /\ \A k \in DOMAIN script :
        /\ script[k].kind = "number" => script[k].size # 0
        /\ script[k].kind = "variable" => script[k].size \in 1 .. FastPath + 1
        /\ EndOf(k) = IF k = Len(script) THEN Len(log) + Rest
                      ELSE script[k + 1].from
        /\ EndOf(k) <= Len(log) + Rest
        /\ \A j \in DOMAIN script : j < k => EndOf(j) <= script[k].from
    /\ IF script = <<>> THEN Len(log) + Rest = 0 ELSE script[1].from = 0
    /\ Len(log) + Rest <= Bytes

\* A write that takes several steps is that of the last item.
Pending ==
    /\ op = NoOp \/ op.kind \in {"variable", "pieces"}
    /\ op.kind = "variable" =>
        /\ op.left \in Nat
        /\ script # <<>> /\ script[Len(script)].kind = "variable"
    /\ op.kind = "pieces" /\ op.left # <<>> =>
        /\ op.left = <<Head(op.left)>>
        /\ Head(op.left) \in Source /\ Head(op.left).from <= Head(op.left).to
        /\ script # <<>> /\ script[Len(script)].from = Len(log)
    /\ phase \in {"open", "moved"}
    /\ phase = "moved" => op = NoOp

\* The bytes from p up to q lie in one blob of the buffer.
InOneBlob(p, q) ==
    \E b \in 1 .. Len(buffer) : BlobStarts[b] <= p /\ q <= BlobStarts[b + 1]

\* An item that is read from one blob lies in one, or in that of the writer.
WholeItem(k) ==
    script[k].kind # "variable" /\ script[k].size # 0 =>
        \/ InOneBlob(script[k].from, EndOf(k))
        \/ phase = "open" /\ Len(BufferBytes) <= script[k].from

Whole == \A k \in DOMAIN script : WholeItem(k)

Writes == Follow /\ Pending /\ Whole

\* The states of a stream that stands at byte p.
AtEnd == [blob |-> Len(buffer) + 1, blobEnd |-> Len(buffer) + 1,
          ptr |-> 0, ptrEnd |-> 0, isEof |-> TRUE, lastOffset |-> 0]

InBlob(b, p) ==
    [blob |-> b, blobEnd |-> Len(buffer) + 1, ptr |-> p,
     ptrEnd |-> BlobStarts[b + 1], isEof |-> FALSE, lastOffset |-> 0]

Stands(c, p) ==
    \/ p = Len(log) /\ c = AtEnd
    \/ \E b \in 1 .. Len(buffer) :
        BlobStarts[b] <= p /\ p < BlobStarts[b + 1] /\ c = InBlob(b, p)

\* What the read of s that is under way has left to do.
LeftOf(s) == IF loop # NoOp /\ loop.stream = s THEN loop.left ELSE 0

Loops ==
    loop # NoOp =>
        /\ loop = [kind |-> loop.kind, stream |-> loop.stream,
                   size |-> loop.size, left |-> loop.left,
                   before |-> loop.before]
        /\ loop.kind \in {"multiple", "variable"}
        /\ loop.stream \in Reader /\ next[loop.stream] # 0
        /\ loop.left \in Nat /\ outcome = "ok"

\* An array without bytes is all that cannot be read.
Threw ==
    outcome = "threw" =>
        \E s \in Reader : next[s] > 1 /\ script[next[s] - 1].kind = "bytes"
                                      /\ script[next[s] - 1].size = 0

StandsAtItem(s) ==
    next[s] # 0 /\ outcome = "ok" =>
        /\ LeftOf(s) <= Goal(next[s])
        /\ Stands(cur[s], Goal(next[s]) - LeftOf(s))

ReadersStand == \A s \in Reader : StandsAtItem(s)

Reading ==
    /\ cur = [s \in Reader |-> cur[s]]
    /\ next \in [Reader -> 0 .. Len(script) + 1]
    /\ outcome \in {"ok", "threw"}
    /\ phase # "moved" =>
        loop = NoOp /\ outcome = "ok" /\ \A s \in Reader : next[s] = 0
    /\ Loops /\ Threw /\ ReadersStand

MSInv == IndInv /\ Holds /\ Writes /\ Reading
-----------------------------------------------------------------------------
(* Where the blobs of a buffer begin.                                      *)

\* The first n chunks of buffer b, in memory m.
Cut(b, m, n) == [k \in 1 .. n |-> BytesIn(b[k], m)]

StartsOf(b, m) == [n \in 1 .. MaxBlobs + 1 |->
    Len(FlattenSeq([k \in {j \in DOMAIN b : j < n} |-> BytesIn(b[k], m)]))]

LEMMA BlobStartsIs ==
    /\ BlobStarts = StartsOf(buffer, mem)
    /\ BlobStarts' = StartsOf(buffer', mem')
  BY DEF BlobStarts, StartsOf, BytesOf, BytesIn, SourceRange

LEMMA BytesLength ==
    ASSUME NEW m \in Memory, NEW c \in Chunk, Fits(c, m)
    PROVE  /\ Len(BytesIn(c, m)) = c.to - c.from
           /\ c.to \in Nat /\ c.from \in Nat /\ c.from < c.to
<1>1. PICK p \in Nat, q \in Nat : c.from = p /\ c.to = q /\ p < q
  BY DEF Chunk, Source, Fits
<1>2. CASE c.own
  <2>1. c.data \in Data
    BY <1>2 DEF Chunk, Source
  <2>2. PICK v \in Seq(Nat) : m[c.data] = v
    BY <2>1 DEF Memory
  <2>3. p = 0 /\ q <= Len(v)
    BY <1>1, <1>2, <2>2 DEF Fits
  <2>4. Len(SubSeq(v, 1, q)) = q
    BY <2>3, PrefixFacts
  <2>5. BytesIn(c, m) = SubSeq(v, 1, q)
    BY <1>1, <1>2, <2>2, <2>3 DEF BytesIn
  <2>6. QED
    BY <1>1, <2>3, <2>4, <2>5
<1>3. CASE ~c.own
  <2>1. Len(SourceRange(p, q)) = q - p
    BY <1>1, RangeElements
  <2>2. QED
    BY <1>1, <1>3, <2>1 DEF BytesIn
<1>4. QED
  BY <1>2, <1>3

LEMMA SoundFacts ==
    ASSUME NEW b, NEW m, Sound(b, m)
    PROVE  /\ m \in Memory /\ Len(b) \in Nat /\ DOMAIN b = 1 .. Len(b)
           /\ \A k \in 1 .. Len(b) :
                  /\ b[k] \in Chunk /\ Fits(b[k], m)
                  /\ BytesIn(b[k], m) \in Seq(Nat)
                  /\ Len(BytesIn(b[k], m)) = b[k].to - b[k].from
                  /\ b[k].to \in Nat /\ b[k].from \in Nat /\ b[k].from < b[k].to
<1>1. /\ m \in Memory /\ Len(b) \in Nat /\ DOMAIN b = 1 .. Len(b)
      /\ \A k \in 1 .. Len(b) : b[k] \in Chunk /\ Fits(b[k], m)
  BY LenProperties DEF Sound
<1>2. QED
  BY <1>1, BytesInSeq, BytesLength

LEMMA CutFacts ==
    ASSUME NEW b, NEW m, Sound(b, m), NEW n \in 0 .. Len(b)
    PROVE  /\ Cut(b, m, n) \in Seq(Seq(Nat)) /\ Len(Cut(b, m, n)) = n
           /\ FlattenSeq(Cut(b, m, n)) \in Seq(Nat)
           /\ Len(FlattenSeq(Cut(b, m, n))) \in Nat
<1>1. n \in Nat /\ \A k \in 1 .. n : BytesIn(b[k], m) \in Seq(Nat)
  BY SoundFacts
<1>2. Cut(b, m, n) \in [1 .. n -> Seq(Nat)]
  BY <1>1 DEF Cut
<1>3. Cut(b, m, n) \in Seq(Seq(Nat)) /\ Len(Cut(b, m, n)) = n
  BY <1>1, <1>2, IsSequence
<1>4. QED
  BY <1>3, FlattenInSeq, LenProperties

LEMMA CutStep ==
    ASSUME NEW b, NEW m, Sound(b, m), NEW n \in 1 .. Len(b)
    PROVE  /\ Len(FlattenSeq(Cut(b, m, n)))
                  = Len(FlattenSeq(Cut(b, m, n - 1))) + (b[n].to - b[n].from)
           /\ b[n].to - b[n].from \in Nat \ {0}
<1> DEFINE s == Cut(b, m, n - 1)
           u == Cut(b, m, n)
<1>1. Len(b) \in Nat /\ n \in Nat /\ n - 1 \in 0 .. Len(b) /\ n \in 0 .. Len(b)
  BY SoundFacts
<1>2. /\ s \in Seq(Seq(Nat)) /\ Len(s) = n - 1 /\ FlattenSeq(s) \in Seq(Nat)
      /\ u \in Seq(Seq(Nat)) /\ Len(u) = n
  BY <1>1, CutFacts
<1>3. \A i \in 1 .. n - 1 : u[i] = s[i]
  BY <1>1 DEF Cut
<1>4. u[n] = BytesIn(b[n], m)
  BY <1>1 DEF Cut
<1>5. /\ BytesIn(b[n], m) \in Seq(Nat)
      /\ Len(BytesIn(b[n], m)) = b[n].to - b[n].from
      /\ b[n].to \in Nat /\ b[n].from \in Nat /\ b[n].from < b[n].to
  BY SoundFacts
<1> HIDE DEF s, u
<1>6. n - 1 \in Nat /\ n - 1 + 1 = n
  BY <1>1
<1>7. FlattenSeq(u) = FlattenSeq(s) \o u[n - 1 + 1]
  BY <1>2, <1>3, <1>6, FlattenAppend
<1>8. Len(FlattenSeq(u)) = Len(FlattenSeq(s)) + Len(BytesIn(b[n], m))
  BY <1>2, <1>4, <1>5, <1>6, <1>7, ConcatProperties
<1>9. QED
  BY <1>5, <1>8 DEF s, u

\* Each chunk has bytes, and so the next one begins behind it.
LEMMA CutsRise ==
    ASSUME NEW b, NEW m, Sound(b, m), NEW i \in 0 .. Len(b), NEW j \in i .. Len(b)
    PROVE  Len(FlattenSeq(Cut(b, m, i))) + (j - i) <= Len(FlattenSeq(Cut(b, m, j)))
<1> DEFINE at(n) == Len(FlattenSeq(Cut(b, m, n)))
           Bad == {n \in i .. Len(b) : ~(at(i) + (n - i) <= at(n))}
<1>1. Len(b) \in Nat /\ i \in Nat /\ \A n \in 0 .. Len(b) : at(n) \in Nat
  BY SoundFacts, CutFacts
<1>2. \A n \in 1 .. Len(b) :
          at(n) = at(n - 1) + (b[n].to - b[n].from)
          /\ b[n].to - b[n].from \in Nat \ {0}
  BY CutStep
<1> HIDE DEF at
<1>3. SUFFICES ASSUME Bad # {} PROVE FALSE
  BY <1>1 DEF at
<1>4. Bad \in SUBSET Nat
  BY <1>1
<1>5. PICK n \in Bad : \A k \in Bad : n <= k
  BY <1>3, <1>4, LeastElement
<1>6. n \in i .. Len(b) /\ ~(at(i) + (n - i) <= at(n)) /\ n # i
  BY <1>1, <1>5
<1>7. n - 1 \in i .. Len(b) /\ n \in 1 .. Len(b)
  BY <1>1, <1>6
<1>8. at(i) + (n - 1 - i) <= at(n - 1)
  BY <1>1, <1>5, <1>7
<1>9. /\ at(n) = at(n - 1) + (b[n].to - b[n].from)
      /\ b[n].to - b[n].from \in Nat \ {0}
  BY <1>2, <1>7
<1>10. at(n) \in Nat /\ at(n - 1) \in Nat /\ at(i) \in Nat
  BY <1>1, <1>7
<1>11. QED
  BY <1>1, <1>6, <1>8, <1>9, <1>10

LEMMA StartsFacts ==
    ASSUME NEW b, NEW m, Sound(b, m), Len(Contents(b, m)) <= Bytes
    PROVE  /\ Len(b) \in Nat /\ Len(b) <= MaxBlobs
           /\ StartsOf(b, m)[1] = 0
           /\ StartsOf(b, m)[Len(b) + 1] = Len(Contents(b, m))
           /\ \A n \in 1 .. Len(b) + 1 : StartsOf(b, m)[n] \in Nat
           /\ \A n \in 1 .. Len(b) : StartsOf(b, m)[n + 1]
                  = StartsOf(b, m)[n] + (b[n].to - b[n].from)
           /\ \A i, j \in 1 .. Len(b) + 1 :
                  i < j => StartsOf(b, m)[i] < StartsOf(b, m)[j]
<1> DEFINE at(n) == Len(FlattenSeq(Cut(b, m, n)))
           f == StartsOf(b, m)
           N == Len(b)
<1>1. /\ N \in Nat /\ DOMAIN b = 1 .. N
      /\ \A n \in 0 .. N : at(n) \in Nat
  BY SoundFacts, CutFacts
<1>2. at(N) = Len(Contents(b, m))
  <2>1. Cut(b, m, N) = [k \in DOMAIN b |-> BytesIn(b[k], m)]
    BY <1>1 DEF Cut
  <2>2. QED
    BY <2>1 DEF Contents
<1>3. at(0) = 0
  <2>1. Cut(b, m, 0) = <<>>
    <3>1. Cut(b, m, 0) \in Seq(Seq(Nat)) /\ Len(Cut(b, m, 0)) = 0
      BY <1>1, CutFacts
    <3>2. QED
      BY <3>1, EmptySeq
  <2>2. QED
    BY <2>1, FlattenEmpty
<1>4. N <= MaxBlobs
  <2>1. at(0) + (N - 0) <= at(N)
    BY <1>1, CutsRise
  <2>2. QED
    BY <1>1, <1>2, <1>3, <2>1, Items, Sizes
<1>5. ASSUME NEW n \in 1 .. N + 1
      PROVE  f[n] = at(n - 1)
  <2>1. n \in 1 .. MaxBlobs + 1
    BY <1>1, <1>4, Items
  <2>2. {j \in DOMAIN b : j < n} = 1 .. n - 1
    BY <1>1
  <2>3. f[n] = Len(FlattenSeq([k \in {j \in DOMAIN b : j < n} |-> BytesIn(b[k], m)]))
    BY <2>1 DEF StartsOf
  <2>4. QED
    BY <2>2, <2>3 DEF Cut
<1>6. \A n \in 1 .. N : at(n) = at(n - 1) + (b[n].to - b[n].from)
  BY CutStep
<1>7. \A i \in 0 .. N : \A j \in i .. N : at(i) + (j - i) <= at(j)
  BY CutsRise
<1> HIDE DEF at, f
<1>8. f[1] = 0 /\ f[N + 1] = Len(Contents(b, m))
  <2>1. f[1] = at(0)
    BY <1>1, <1>5
  <2>2. f[N + 1] = at(N)
    BY <1>1, <1>5
  <2>3. QED
    BY <1>2, <1>3, <2>1, <2>2
<1>9. \A n \in 1 .. N + 1 : f[n] \in Nat
  BY <1>1, <1>5
<1>10. \A n \in 1 .. N : f[n + 1] = f[n] + (b[n].to - b[n].from)
  <2>1. SUFFICES ASSUME NEW n \in 1 .. N
                 PROVE  f[n + 1] = f[n] + (b[n].to - b[n].from)
    OBVIOUS
  <2>2. /\ n \in 1 .. N + 1 /\ n + 1 \in 1 .. N + 1
        /\ (n + 1) - 1 = n
    BY <1>1
  <2>3. f[n + 1] = at((n + 1) - 1) /\ f[n] = at(n - 1)
    BY <1>5, <2>2
  <2>4. f[n + 1] = at(n)
    BY <2>2, <2>3
  <2>5. QED
    BY <1>6, <2>3, <2>4
<1>11. ASSUME NEW i \in 1 .. N + 1, NEW j \in 1 .. N + 1, i < j
       PROVE  f[i] < f[j]
  <2>1. i - 1 \in 0 .. N /\ j - 1 \in (i - 1) .. N
    BY <1>1, <1>11
  <2>2. at(i - 1) + ((j - 1) - (i - 1)) <= at(j - 1)
    BY <1>7, <2>1
  <2>3. at(i - 1) \in Nat /\ at(j - 1) \in Nat
    BY <1>1, <2>1
  <2>4. QED
    BY <1>1, <1>5, <1>11, <2>2, <2>3
<1>12. QED
  BY <1>1, <1>4, <1>8, <1>9, <1>10, <1>11 DEF f

\* Chunks that stay begin where they did.
LEMMA StartsStay ==
    ASSUME NEW b, NEW m, Sound(b, m), Len(b) <= MaxBlobs,
           NEW c, NEW w, Sound(c, w),
           \A k \in DOMAIN b :
               /\ k \in DOMAIN c /\ c[k] = b[k]
               /\ b[k].own => w[b[k].data] = m[b[k].data]
    PROVE  \A n \in 1 .. Len(b) + 1 : StartsOf(c, w)[n] = StartsOf(b, m)[n]
<1>1. /\ Len(b) \in Nat /\ DOMAIN b = 1 .. Len(b)
      /\ Len(c) \in Nat /\ DOMAIN c = 1 .. Len(c)
  BY SoundFacts
<1>2. Len(b) <= Len(c)
  <2>1. Len(b) # 0 => Len(b) \in DOMAIN c
    BY <1>1
  <2>2. QED
    BY <1>1, <2>1
<1>3. \A k \in DOMAIN b : BytesIn(c[k], w) = BytesIn(b[k], m)
  BY DEF BytesIn
<1>4. SUFFICES ASSUME NEW n \in 1 .. Len(b) + 1
               PROVE  StartsOf(c, w)[n] = StartsOf(b, m)[n]
  OBVIOUS
<1>5. /\ {j \in DOMAIN b : j < n} = 1 .. n - 1
      /\ {j \in DOMAIN c : j < n} = 1 .. n - 1
  BY <1>1, <1>2
<1>6. [k \in 1 .. n - 1 |-> BytesIn(c[k], w)] = [k \in 1 .. n - 1 |-> BytesIn(b[k], m)]
  BY <1>1, <1>3
<1>7. n \in 1 .. MaxBlobs + 1
  BY <1>1, Items
<1>8. QED
  BY <1>5, <1>6, <1>7 DEF StartsOf

-----------------------------------------------------------------------------
(* The writer.                                                             *)

ReadsOf(s) ==
    \/ OpenStream(s)
    \/ \E t \in Reader : Clone(s, t)
    \/ ReadNumber(s) \/ ReadVarUInt(s) \/ ReadString(s)
    \/ ReadBytes(s) \/ ReadBondBlob(s) \/ SkipBytes(s)

LEMMA ReadersOnly ==
    ASSUME ReadOn \/ \E s \in Reader : ReadsOf(s)
    PROVE  UNCHANGED writer
<1>1. CASE ReadOn
  BY <1>1 DEF ReadOn
<1>2. ASSUME NEW s \in Reader, ReadsOf(s)
      PROVE  UNCHANGED writer
  BY <1>2 DEF ReadsOf, OpenStream, Clone, ReadNumber, ReadVarUInt, ReadString,
     ReadBytes, ReadBondBlob, SkipBytes, Reads
<1>3. QED
  BY <1>1, <1>2

\* Whatever is written, and in which language, it is the native OutputBuffer
\* that writes it (Interop/Src/detail/Interop/OutputBuffer.cpp:31-84).
LEMMA WriterSteps ==
    ASSUME [MSNext]_<<writer, reading>>
    PROVE  [Next]_vars
<1>1. ASSUME NEW n \in 0 .. Bytes, WriteNumber(n) \/ WriteString(n) \/ WriteBytes(n)
      PROVE  [Next]_vars
  BY <1>1 DEF WriteNumber, WriteString, WriteBytes, InteropWrite, Next
<1>2. ASSUME NEW n \in 1 .. FastPath + 1, WriteVarUInt(n)
      PROVE  [Next]_vars
  BY <1>2 DEF WriteVarUInt, InteropWrite, Next
<1>3. ASSUME NEW b \in 1 .. SourceBlobs, NEW from \in 0 .. BlobSize(b),
             NEW to \in from .. BlobSize(b), WriteBondBlob(b, from, to)
      PROVE  [Next]_vars
  BY <1>3 DEF WriteBondBlob, Next
<1>4. CASE Proceed \/ ManagedGetBuffer
  BY <1>4 DEF Proceed, ManagedGetBuffer, Next
<1>5. CASE UNCHANGED writer
  BY <1>5 DEF writer
<1>6. ASSUME NEW s \in Reader, ReadsOf(s)
      PROVE  UNCHANGED writer
  BY <1>6, ReadersOnly
<1>7. CASE ReadOn
  BY <1>5, <1>7, ReadersOnly
<1>8. CASE UNCHANGED <<writer, reading>>
  BY <1>5, <1>8
<1>9. QED
  BY <1>1, <1>2, <1>3, <1>4, <1>5, <1>6, <1>7, <1>8 DEF MSNext, ReadsOf

LEMMA RestFacts ==
    ASSUME IndInv, Pending
    PROVE  Rest \in Nat /\ (op = NoOp => Rest = 0)
<1>1. CASE op = NoOp
  BY <1>1 DEF Rest, NoOp
<1>2. CASE op.kind = "variable"
  BY <1>2 DEF Rest, Pending, NoOp
<1>3. CASE op.kind = "pieces"
  <2>1. op # NoOp
    BY <1>3 DEF NoOp
  <2>2. CASE op.left = <<>>
    BY <1>3, <2>1, <2>2 DEF Rest
  <2>3. CASE op.left # <<>>
    <3>1. PICK p \in Nat, q \in Nat :
              Head(op.left).from = p /\ Head(op.left).to = q /\ p <= q
      BY <1>3, <2>3 DEF Pending, Source
    <3>2. Rest = q - p
      BY <1>3, <2>3, <3>1 DEF Rest
    <3>3. QED
      BY <2>1, <3>1, <3>2
  <2>4. QED
    BY <2>2, <2>3
<1>4. QED
  BY <1>1, <1>2, <1>3 DEF Pending

\* The bytes that were written are those of the buffer and of the blob.
LEMMA LogFacts ==
    ASSUME IndInv, Holds, Writes
    PROVE  /\ Sound(buffer, mem)
           /\ Len(log) \in Nat /\ Len(log) + Rest <= Bytes /\ Len(log) <= Bytes
           /\ Len(BufferBytes) \in Nat /\ ptr \in Nat
           /\ BufferBytes = Contents(buffer, mem)
           /\ phase = "open" => Len(log) = Len(BufferBytes) + ptr
           /\ phase = "moved" => BufferBytes = log
<1>1. /\ Sound(buffer, mem) /\ BufferBytes = Contents(buffer, mem)
      /\ Contents(buffer, mem) \in Seq(Nat) /\ Len(BufferBytes) \in Nat
  BY BufferBytesIs, ContentsInSeq, LenProperties DEF Holds
<1>2. log \in Seq(Nat) /\ Len(log) \in Nat /\ ptr \in Nat
  BY LenProperties DEF IndInv, Logged, Core, Members
<1>3. Len(log) + Rest <= Bytes /\ Len(log) <= Bytes
  BY <1>2, RestFacts, Sizes DEF Writes, Follow
<1>4. ASSUME phase = "open"
      PROVE  Len(log) = Len(BufferBytes) + ptr
  <2>1. Copied \in Seq(Nat) /\ Len(Copied) = ptr
    BY <1>4, CopiedInSeq DEF IndInv
  <2>2. log = BufferBytes \o Copied
    BY <1>1, <1>4, HoldsFacts
  <2>3. QED
    BY <1>1, <2>1, <2>2, ConcatProperties
<1>5. phase = "moved" => BufferBytes = log
  BY DEF Holds, ContentsInOrder
<1>6. QED
  BY <1>1, <1>2, <1>3, <1>4, <1>5

\* Where the blobs of the writer's buffer begin.
LEMMA Starts ==
    ASSUME IndInv, Holds, Writes
    PROVE  /\ Len(buffer) \in Nat /\ Len(buffer) <= MaxBlobs
           /\ BlobStarts[1] = 0
           /\ BlobStarts[Len(buffer) + 1] = Len(BufferBytes)
           /\ \A n \in 1 .. Len(buffer) + 1 : BlobStarts[n] \in Nat
           /\ \A i, j \in 1 .. Len(buffer) + 1 :
                  i < j => BlobStarts[i] < BlobStarts[j]
<1>1. /\ Sound(buffer, mem) /\ BufferBytes = Contents(buffer, mem)
      /\ Len(BufferBytes) <= Bytes
  <2>1. phase = "open" \/ phase = "moved"
    BY DEF Writes, Pending
  <2>2. /\ Sound(buffer, mem) /\ BufferBytes = Contents(buffer, mem)
        /\ Len(log) \in Nat /\ Len(log) <= Bytes
        /\ Len(BufferBytes) \in Nat /\ ptr \in Nat
    BY LogFacts
  <2>3. Len(BufferBytes) <= Len(log)
    BY <2>1, <2>2, LogFacts
  <2>4. QED
    BY <2>2, <2>3, Sizes
<1>2. BlobStarts = StartsOf(buffer, mem)
  BY BlobStartsIs
<1>3. QED
  BY <1>1, <1>2, StartsFacts

LEMMA StartsKept ==
    ASSUME IndInv, Holds, Writes, Stay, Holds'
    PROVE  \A n \in 1 .. Len(buffer) + 1 : BlobStarts'[n] = BlobStarts[n]
<1>1. Sound(buffer, mem) /\ Sound(buffer', mem') /\ Len(buffer) <= MaxBlobs
  BY Starts DEF Holds
<1>2. QED
  BY <1>1, BlobStartsIs, StartsStay DEF Stay

LEMMA OneBlobStays ==
    ASSUME IndInv, Holds, Writes, Stay, Holds', NEW p, NEW q, InOneBlob(p, q)
    PROVE  InOneBlob(p, q)'
<1>1. PICK b \in 1 .. Len(buffer) : BlobStarts[b] <= p /\ q <= BlobStarts[b + 1]
  BY DEF InOneBlob
<1>2. Sound(buffer, mem) /\ Sound(buffer', mem') /\ Len(buffer) <= MaxBlobs
  BY Starts DEF Holds
<1>3. /\ Len(buffer) \in Nat /\ DOMAIN buffer = 1 .. Len(buffer)
      /\ Len(buffer') \in Nat /\ DOMAIN buffer' = 1 .. Len(buffer')
  BY <1>2, SoundFacts
<1>4. \A n \in 1 .. Len(buffer) + 1 : BlobStarts'[n] = BlobStarts[n]
  BY StartsKept
<1>5. /\ b \in 1 .. Len(buffer')
      /\ b \in 1 .. Len(buffer) + 1
      /\ b + 1 \in 1 .. Len(buffer) + 1
  BY <1>3 DEF Stay
<1>6. BlobStarts'[b] <= p /\ q <= BlobStarts'[b + 1]
  BY <1>1, <1>4, <1>5
<1>7. QED
  BY <1>5, <1>6 DEF InOneBlob

\* One more item, of which the bytes are written or remain to be.
LEMMA ItemFollows ==
    ASSUME IndInv, Writes, op = NoOp,
           NEW kind \in {"number", "variable", "string", "bytes"}, NEW n \in Nat,
           kind = "number" => n # 0,
           kind = "variable" => n \in 1 .. FastPath + 1,
           Item(kind, n), Len(log') + Rest' = Len(log) + n, Len(log) + n <= Bytes
    PROVE  /\ Follow'
           /\ Len(script) \in Nat /\ Len(script') = Len(script) + 1
           /\ script' # <<>>
           /\ script'[Len(script')] = [kind |-> kind, size |-> n, from |-> Len(log)]
           /\ DOMAIN script = 1 .. Len(script)
           /\ DOMAIN script' = 1 .. Len(script) + 1
           /\ \A k \in DOMAIN script : script'[k] = script[k]
<1> DEFINE it == [kind |-> kind, size |-> n, from |-> Len(log)]
           m == Len(script)
           Items1 == [kind : {"number", "variable", "string", "bytes"},
                      size : Nat, from : Nat]
<1>1. /\ Rest = 0 /\ Len(log) \in Nat
      /\ script \in Seq(Items1) /\ m \in Nat /\ DOMAIN script = 1 .. m
      /\ \A k \in 1 .. m : script[k] \in Items1
  BY RestFacts, LenProperties DEF IndInv, Logged, Writes, Follow, Scripts
<1>2. it \in Items1 /\ script' = Append(script, it)
  BY <1>1 DEF Item
<1>3. /\ script' \in Seq(Items1) /\ Len(script') = m + 1
      /\ script'[m + 1] = it /\ \A k \in 1 .. m : script'[k] = script[k]
      /\ DOMAIN script' = 1 .. m + 1
  BY <1>1, <1>2
<1>0. ASSUME NEW k \in 1 .. m
      PROVE  /\ script[k].kind = "number" => script[k].size # 0
             /\ script[k].kind = "variable" => script[k].size \in 1 .. FastPath + 1
             /\ EndOf(k) = IF k = m THEN Len(log) ELSE script[k + 1].from
             /\ EndOf(k) <= Len(log)
             /\ \A j \in 1 .. m : j < k => EndOf(j) <= script[k].from
  <2>1. k \in DOMAIN script /\ Len(log) + Rest = Len(log)
    BY <1>1
  <2>2. /\ script[k].kind = "number" => script[k].size # 0
        /\ script[k].kind = "variable" => script[k].size \in 1 .. FastPath + 1
        /\ EndOf(k) = IF k = Len(script) THEN Len(log) + Rest
                      ELSE script[k + 1].from
        /\ EndOf(k) <= Len(log) + Rest
        /\ \A j \in DOMAIN script : j < k => EndOf(j) <= script[k].from
    BY <2>1 DEF Writes, Follow
  <2>3. QED
    BY <1>1, <2>1, <2>2
<1> HIDE DEF m
<1>4. /\ it.kind = kind /\ it.size = n /\ it.from = Len(log)
  OBVIOUS
<1> HIDE DEF it
<1>5. ASSUME NEW k \in 1 .. m
      PROVE  EndOf(k)' = EndOf(k) /\ EndOf(k) \in Nat
  <2>1. script'[k] = script[k] /\ script[k] \in Items1
    BY <1>1, <1>3
  <2>2. EndOf(k)' = script'[k].from + script'[k].size
    BY DEF EndOf
  <2>3. QED
    BY <2>1, <2>2 DEF EndOf
<1>6. script'[m + 1].from + script'[m + 1].size = Len(log) + n
  BY <1>3, <1>4
<1>7. ASSUME NEW k \in 1 .. m + 1
      PROVE  /\ script'[k].kind = "number" => script'[k].size # 0
             /\ script'[k].kind = "variable" => script'[k].size \in 1 .. FastPath + 1
             /\ EndOf(k)' = IF k = m + 1 THEN Len(log) + n ELSE script'[k + 1].from
             /\ EndOf(k)' <= Len(log) + n
             /\ \A j \in 1 .. m + 1 : j < k => EndOf(j)' <= script'[k].from
  <2>1. CASE k = m + 1
    <3>1. \A j \in 1 .. m : EndOf(j)' <= Len(log)
      <4>1. \A j \in 1 .. m : EndOf(j) <= Len(log)
        BY <1>0
      <4>2. QED
        BY <1>5, <4>1
    <3>2. \A j \in 1 .. m + 1 : j < k => j \in 1 .. m
      BY <1>1, <2>1 DEF m
    <3>3. Len(log) + n \in Nat
      BY <1>1
    <3>4. EndOf(k)' = Len(log) + n
      BY <1>6, <2>1 DEF EndOf
    <3>5. QED
      BY <1>3, <1>4, <2>1, <3>1, <3>2, <3>3, <3>4
  <2>2. CASE k # m + 1
    <3>1. k \in 1 .. m /\ m \in Nat
      BY <1>1, <2>2 DEF m
    <3>2. /\ script[k].kind = "number" => script[k].size # 0
          /\ script[k].kind = "variable" => script[k].size \in 1 .. FastPath + 1
          /\ EndOf(k) = IF k = m THEN Len(log) ELSE script[k + 1].from
          /\ EndOf(k) <= Len(log)
          /\ \A j \in 1 .. m : j < k => EndOf(j) <= script[k].from
      BY <1>0, <3>1
    <3>3. EndOf(k)' <= Len(log) + n
      <4>1. EndOf(k)' = EndOf(k) /\ EndOf(k) \in Nat
        BY <1>5, <3>1
      <4>2. EndOf(k) <= Len(log) /\ Len(log) \in Nat
        BY <1>1, <3>2
      <4>3. EndOf(k) <= Len(log) + n
        BY <4>1, <4>2
      <4>4. QED
        BY <4>1, <4>3
    <3>4. EndOf(k)' = script'[k + 1].from
      <4>1. CASE k = m
        BY <1>3, <1>4, <1>5, <3>1, <3>2, <4>1
      <4>2. CASE k # m
        <5>1. k + 1 \in 1 .. m
          BY <3>1, <4>2
        <5>2. QED
          BY <1>3, <1>5, <3>1, <3>2, <4>2, <5>1
      <4>3. QED
        BY <4>1, <4>2
    <3>5. \A j \in 1 .. m + 1 : j < k => EndOf(j)' <= script'[k].from
      <4>1. \A j \in 1 .. m + 1 : j < k => j \in 1 .. m
        BY <3>1
      <4>2. QED
        BY <1>3, <1>5, <3>1, <3>2, <4>1
    <3>6. QED
      BY <1>3, <2>2, <3>1, <3>2, <3>3, <3>4, <3>5
  <2>3. QED
    BY <2>1, <2>2
<1>8. script' # <<>> /\ script'[1].from = 0
  <2>1. CASE m = 0
    <3>1. script = <<>>
      BY <1>1, <2>1, EmptySeq DEF m
    <3>2. Len(log) = 0
      BY <1>1, <3>1 DEF Writes, Follow
    <3>3. QED
      BY <1>3, <1>4, <2>1, <3>2
  <2>2. CASE m # 0
    <3>1. script # <<>> /\ 1 \in 1 .. m
      BY <1>1, <2>2, EmptySeq DEF m
    <3>2. QED
      BY <1>1, <1>3, <3>1 DEF Writes, Follow, m
  <2>3. QED
    BY <2>1, <2>2
<1>9. Follow'
  BY <1>3, <1>7, <1>8 DEF Follow, Scripts
<1>10. QED
  BY <1>1, <1>3, <1>8, <1>9 DEF m, it

\* What the script says of an item.
LEMMA ItemFacts ==
    ASSUME Writes
    PROVE  /\ Len(script) \in Nat /\ DOMAIN script = 1 .. Len(script)
           /\ \A k \in 1 .. Len(script) :
                /\ script[k].from \in Nat /\ script[k].size \in Nat
                /\ script[k].kind \in {"number", "variable", "string", "bytes"}
<1>1. script \in Scripts
  BY DEF Writes, Follow
<1>2. /\ Len(script) \in Nat /\ DOMAIN script = 1 .. Len(script)
      /\ \A k \in 1 .. Len(script) :
           script[k] \in [kind : {"number", "variable", "string", "bytes"},
                         size : Nat, from : Nat]
  BY <1>1, LenProperties, ElementOfSeq DEF Scripts
<1>3. QED
  BY <1>2

\* What goes on with the last item leaves the others where they are.
LEMMA GoesOn ==
    ASSUME IndInv, Writes, script' = script,
           Len(log') + Rest' = Len(log) + Rest
    PROVE  Follow'
<1>1. \A k : EndOf(k)' = EndOf(k)
  BY DEF EndOf
<1>2. Follow
  BY DEF Writes
<1>3. QED
  BY <1>1, <1>2 DEF Follow

LEMMA BytesStay ==
    ASSUME Holds, Stay, Holds', buffer' = buffer
    PROVE  Len(BufferBytes') = Len(BufferBytes)
<1>1. Sound(buffer, mem) /\ mem' \in Memory
  BY DEF Holds, Sound
<1>2. \A i \in DOMAIN buffer :
          buffer[i].own => mem'[buffer[i].data] = mem[buffer[i].data]
  BY DEF Stay
<1>3. Contents(buffer, mem') = Contents(buffer, mem)
  BY <1>1, <1>2, ContentsStay
<1>4. QED
  BY <1>3, BufferBytesIs

\* An item stays in its blob, or in that of the writer.
LEMMA WholeStays ==
    ASSUME IndInv, Holds, Writes, Stay, Holds', buffer' = buffer,
           phase' = phase,
           NEW k \in DOMAIN script, script'[k] = script[k]
    PROVE  WholeItem(k)'
<1>1. WholeItem(k) /\ EndOf(k)' = EndOf(k)
  BY DEF Writes, Whole, EndOf
<1>2. Len(BufferBytes') = Len(BufferBytes)
  BY BytesStay
<1>3. CASE InOneBlob(script[k].from, EndOf(k))
  <2>1. PICK p, q : p = script[k].from /\ q = EndOf(k)
    OBVIOUS
  <2>2. InOneBlob(p, q)
    BY <1>3, <2>1
  <2>3. InOneBlob(p, q)'
    BY <2>2, OneBlobStays
  <2>4. InOneBlob(script[k].from, EndOf(k))'
    BY <1>1, <2>1, <2>3 DEF InOneBlob
  <2>5. QED
    BY <2>4 DEF WholeItem
<1>4. CASE ~InOneBlob(script[k].from, EndOf(k))
  BY <1>1, <1>2, <1>4 DEF WholeItem
<1>5. QED
  BY <1>3, <1>4

\* A step that copies, or is about to, for a new item of the script.
LEMMA ItemKeeps ==
    ASSUME IndInv, Holds, Writes, Stay, Holds', op = NoOp, phase = "open",
           NEW kind \in {"number", "variable", "string", "bytes"}, NEW n \in Nat,
           kind = "number" => n # 0,
           kind = "variable" => n \in 1 .. FastPath + 1,
           Item(kind, n), Len(log') + Rest' = Len(log) + n, Len(log) + n <= Bytes,
           buffer' = buffer, phase' = phase
    PROVE  Follow' /\ Whole'
<1>1. /\ Follow'
      /\ Len(script) \in Nat
      /\ DOMAIN script = 1 .. Len(script)
      /\ script'[Len(script')] = [kind |-> kind, size |-> n, from |-> Len(log)]
      /\ DOMAIN script' = 1 .. Len(script) + 1
      /\ Len(script') = Len(script) + 1
      /\ \A k \in DOMAIN script : script'[k] = script[k]
  BY ItemFollows
<1>2. ASSUME NEW k \in DOMAIN script'
      PROVE  WholeItem(k)'
  <2>1. CASE k \in DOMAIN script
    BY <1>1, <2>1, WholeStays
  <2>2. CASE k \notin DOMAIN script
    <3>1. script'[k].from = Len(log)
      BY <1>1, <2>2
    <3>2. Len(BufferBytes') <= Len(log)
      <4>1. Len(BufferBytes') = Len(BufferBytes)
        BY BytesStay
      <4>2. /\ Len(log) = Len(BufferBytes) + ptr
            /\ ptr \in Nat /\ Len(BufferBytes) \in Nat
        BY LogFacts
      <4>3. QED
        BY <4>1, <4>2
    <3>3. QED
      BY <3>1, <3>2 DEF WholeItem
  <2>3. QED
    BY <2>1, <2>2
<1>3. QED
  BY <1>1, <1>2 DEF Whole

\* No write of several steps is pending.
LEMMA NothingPending ==
    ASSUME op' = NoOp, phase' \in {"open", "moved"}
    PROVE  Pending' /\ Rest' = 0
  BY DEF Pending, Rest, NoOp

LEMMA FreshAppends ==
    ASSUME IndInv, NEW n \in Nat, log' = log \o Fresh(n)
    PROVE  Len(log') = Len(log) + n
<1>1. PICK bs \in Seq(Nat) : bs = Fresh(n) /\ Len(bs) = n
  BY FreshFacts
<1>2. log \in Seq(Nat)
  BY DEF IndInv, Logged
<1>3. QED
  BY <1>1, <1>2, ConcatProperties

\* Numbers, strings and arrays.
LEMMA WriteKeepsItems ==
    ASSUME IndInv, Holds, Writes, Stay, Holds',
           NEW kind \in {"number", "string", "bytes"}, NEW n \in Nat,
           kind = "number" => n # 0,
           Ready,
           Write(n) \/ (n = 0 /\ UNCHANGED vars), Item(kind, n)
    PROVE  Writes'
<1>1. phase = "open" /\ op = NoOp /\ op' = NoOp /\ phase' = phase
  BY DEF Ready, Write, AppendBytes, Memcpy, vars, out
<1>2. Len(log') = Len(log) + n /\ Len(log) + n <= Bytes /\ buffer' = buffer
  <2>1. CASE Write(n)
    <3>1. log' = log \o Fresh(n) /\ Len(log) + n <= Bytes /\ buffer' = buffer
      BY <2>1 DEF Write, AppendBytes, Memcpy
    <3>2. QED
      BY <3>1, FreshAppends
  <2>2. CASE n = 0 /\ UNCHANGED vars
    BY <2>2, LogFacts DEF vars, out
  <2>3. QED
    BY <2>1, <2>2
<1>3. Pending' /\ Rest' = 0
  BY <1>1, NothingPending
<1>4. Len(log') + Rest' = Len(log) + n
  BY <1>2, <1>3, LogFacts
<1>5. Follow' /\ Whole'
  BY <1>1, <1>2, <1>4, ItemKeeps
<1>6. QED
  BY <1>3, <1>5 DEF Writes

\* A number of variable length, at once or byte by byte.
LEMMA WriteVarUIntKeepsItems ==
    ASSUME IndInv, Holds, Writes, Stay, Holds', NEW n \in 1 .. FastPath + 1,
           WriteVarUInt(n)
    PROVE  Writes'
<1>1. /\ phase = "open" /\ op = NoOp /\ phase' = phase /\ buffer' = buffer
      /\ Len(log) + n <= Bytes /\ n \in Nat
      /\ Item("variable", n)
  BY Sizes DEF WriteVarUInt, InteropWrite, WriteVariable, Ready, Memcpy, out
<1>2. /\ Len(log') + Rest' = Len(log) + n
      /\ op' = NoOp \/ op' = [kind |-> "variable", left |-> n]
  <2>1. CASE FitsVariable
    <3>1. log' = log \o Fresh(n) /\ op' = NoOp
      BY <1>1, <2>1 DEF WriteVarUInt, InteropWrite, WriteVariable, Memcpy
    <3>2. Rest' = 0
      BY <1>1, <3>1, NothingPending
    <3>3. Len(log') = Len(log) + n
      BY <1>1, <3>1, FreshAppends
    <3>4. QED
      BY <1>1, <3>1, <3>2, <3>3, LogFacts
  <2>2. CASE ~FitsVariable
    <3>1. log' = log /\ op' = [kind |-> "variable", left |-> n]
      BY <2>2 DEF WriteVarUInt, InteropWrite, WriteVariable, out
    <3>2. QED
      BY <3>1 DEF Rest
  <2>3. QED
    BY <2>1, <2>2
<1>3. Follow' /\ Whole'
  BY <1>1, <1>2, ItemKeeps
<1>4. script' # <<>> /\ script'[Len(script')].kind = "variable"
  <2>1. /\ script' # <<>>
        /\ script'[Len(script')]
               = [kind |-> "variable", size |-> n, from |-> Len(log)]
    BY <1>1, <1>2, ItemFollows
  <2>2. QED
    BY <2>1
<1>5. CASE op' = NoOp
  BY <1>1, <1>3, <1>5, NothingPending DEF Writes
<1>6. CASE op' = [kind |-> "variable", left |-> n]
  <2>1. op'.kind = "variable" /\ op'.left = n
    BY <1>6
  <2>2. Pending'
    BY <1>1, <1>4, <2>1 DEF Pending
  <2>3. QED
    BY <1>3, <2>2 DEF Writes
<1>7. QED
  BY <1>2, <1>5, <1>6

\* A bond::blob is a write of one piece.
LEMMA WriteBondBlobKeepsItems ==
    ASSUME IndInv, Holds, Writes, Stay, Holds', NEW b \in 1 .. SourceBlobs,
           NEW from \in 0 .. BlobSize(b), NEW to \in from .. BlobSize(b),
           WriteBondBlob(b, from, to)
    PROVE  Writes'
<1> DEFINE p == start[b] + from
           q == start[b] + to
           bs == SourceRange(p, q)
<1>1. /\ BlobCast(b, from, to) \in Source
      /\ BlobCast(b, from, to).from = p /\ BlobCast(b, from, to).to = q
      /\ p \in Nat /\ q \in Nat /\ p <= q
  BY BlobCastFacts DEF IndInv
<1>2. from \in Nat /\ to \in Nat /\ to - from \in Nat /\ q - p = to - from
  <2>1. start[b] \in Nat /\ BlobSize(b) \in Int
    BY StartFacts DEF IndInv, BlobSize
  <2>2. QED
    BY <2>1
<1>3. bs \in Seq(Nat) /\ Len(bs) = to - from
  BY <1>1, <1>2, RangeElements
<1> HIDE DEF bs, p, q
<1>4. /\ phase = "open" /\ op = NoOp /\ phase' = phase /\ buffer' = buffer
      /\ log' = log
      /\ Len(log) + Len(bs) <= Bytes
      /\ op' = [kind |-> "pieces", left |-> <<BlobCast(b, from, to)>>,
                goal |-> log \o bs]
      /\ Item("bytes", to - from)
  BY DEF WriteBondBlob, WriteBlob, Begin, Ready, out, bs, p, q
<1>5. PICK c \in Source : c = BlobCast(b, from, to)
  BY <1>1
<1>6. op'.kind = "pieces" /\ op'.left = <<c>> /\ op' # NoOp
  BY <1>4, <1>5 DEF NoOp
<1>7. op'.left # <<>> /\ Head(op'.left) = c
  BY <1>6
<1>8. c.from = p /\ c.to = q /\ c.from <= c.to
  BY <1>1, <1>5
<1>9. Rest' = to - from
  BY <1>2, <1>6, <1>7, <1>8 DEF Rest
<1>10. /\ Len(log') + Rest' = Len(log) + (to - from)
       /\ Len(log) + (to - from) <= Bytes
  BY <1>3, <1>4, <1>9
<1>11. Follow' /\ Whole'
  BY <1>2, <1>4, <1>10, ItemKeeps
<1>12. /\ script' # <<>>
       /\ script'[Len(script')]
              = [kind |-> "bytes", size |-> to - from, from |-> Len(log)]
  BY <1>2, <1>4, <1>10, ItemFollows
<1>13. Pending'
  <2>1. script'[Len(script')].from = Len(log')
    BY <1>4, <1>12
  <2>2. QED
    BY <1>4, <1>6, <1>7, <1>8, <1>12, <2>1 DEF Pending
<1>14. QED
  BY <1>11, <1>13 DEF Writes

LEMMA GoOnKeepsItems ==
    ASSUME IndInv, Holds, Writes, Stay, Holds', script' = script,
           buffer' = buffer, phase' = phase,
           Len(log') + Rest' = Len(log) + Rest, Pending'
    PROVE  Writes'
<1>1. Follow'
  BY GoesOn
<1>2. Whole'
  BY WholeStays DEF Whole
<1>3. QED
  BY <1>1, <1>2 DEF Writes

LEMMA NextByteKeepsItems ==
    ASSUME IndInv, Holds, Writes, Stay, Holds', script' = script, NextByte
    PROVE  Writes'
<1>1. /\ op.kind = "variable" /\ op.left # 0
      /\ op' = [op EXCEPT !.left = @ - 1]
      /\ log' = log \o Fresh(1) /\ buffer' = buffer /\ phase' = phase
  BY DEF NextByte, AppendBytes, Memcpy
<1>2. PICK n \in Nat : op = [kind |-> "variable", left |-> n]
  BY <1>1 DEF IndInv, Left, Writes, Pending
<1>3. op' = [kind |-> "variable", left |-> n - 1] /\ n - 1 \in Nat
  BY <1>1, <1>2
<1>4. op'.kind = "variable" /\ op'.left = n - 1 /\ op.left = n
  BY <1>2, <1>3
<1>5. Len(log') + Rest' = Len(log) + Rest
  <2>1. Len(log') = Len(log) + 1
    BY <1>1, FreshAppends
  <2>2. Rest = n /\ Rest' = n - 1
    BY <1>1, <1>4 DEF Rest
  <2>3. Len(log) \in Nat
    BY LogFacts
  <2>4. QED
    BY <1>2, <2>1, <2>2, <2>3
<1>6. phase # "moved"
  BY <1>1 DEF Writes, Pending, NoOp
<1>7. Pending'
  <2>1. script # <<>> /\ script[Len(script)].kind = "variable"
        /\ phase \in {"open", "moved"}
    BY <1>1 DEF Writes, Pending
  <2>2. QED
    BY <1>1, <1>3, <1>4, <1>6, <2>1 DEF Pending
<1>8. QED
  BY <1>1, <1>5, <1>7, GoOnKeepsItems

\* The piece that a write of a blob has left.
LEMMA PieceFacts ==
    ASSUME IndInv, Holds, Writes, NextPiece
    PROVE  /\ phase = "open"
           /\ \E p, q \in Nat : \E c \in Source :
                /\ c = Head(op.left) /\ c.from = p /\ c.to = q /\ p <= q
                /\ Rest = q - p /\ Rest' = 0 /\ Pending'
                /\ BytesOf(c) = SourceRange(p, q)
                /\ Len(BytesOf(c)) = q - p /\ BytesOf(c) \in Seq(Nat)
                /\ script # <<>> /\ script[Len(script)].from = Len(log)
<1>1. op.kind = "pieces" /\ op.left # <<>> /\ op' = [op EXCEPT !.left = Tail(@)]
  BY DEF NextPiece
<1>2. /\ op.left = <<Head(op.left)>> /\ Head(op.left) \in Source
      /\ Head(op.left).from <= Head(op.left).to
      /\ script # <<>> /\ script[Len(script)].from = Len(log)
      /\ op = [kind |-> "pieces", left |-> op.left, goal |-> op.goal]
      /\ phase = "open"
  BY <1>1 DEF Writes, Pending, IndInv, Left, NoOp
<1>3. PICK c \in Source : c = Head(op.left) /\ op.left = <<c>> /\ c.from <= c.to
  BY <1>2
<1>4. PICK p \in Nat, q \in Nat : c.from = p /\ c.to = q /\ p <= q /\ c.own = FALSE
  BY <1>3 DEF Source
<1>5. op' = [kind |-> "pieces", left |-> <<>>, goal |-> op.goal]
  BY <1>1, <1>2, <1>3
<1>6. op'.kind = "pieces" /\ op'.left = <<>>
  BY <1>5
<1>7. Rest = q - p /\ Rest' = 0
  BY <1>1, <1>3, <1>4, <1>6 DEF Rest
<1>8. phase' = "open"
  BY <1>2 DEF NextPiece, FlushAndPush, AppendBytes, Memcpy
<1>9. Pending'
  BY <1>6, <1>8 DEF Pending
<1>10. /\ BytesOf(c) = SourceRange(p, q)
       /\ Len(BytesOf(c)) = q - p /\ BytesOf(c) \in Seq(Nat)
  <2>1. BytesOf(c) = SourceRange(p, q)
    BY <1>4 DEF BytesOf, SourceRange
  <2>2. SourceRange(p, q) \in Seq(Nat) /\ Len(SourceRange(p, q)) = q - p
    BY <1>4, RangeElements
  <2>3. QED
    BY <2>1, <2>2
<1>11. QED
  BY <1>2, <1>3, <1>4, <1>7, <1>9, <1>10

LEMMA ReturnKeepsItems ==
    ASSUME IndInv, Holds, Writes, Stay, Holds', script' = script, Return
    PROVE  Writes'
<1>1. /\ phase = "open" /\ op' = NoOp /\ phase' = phase
      /\ log' = log /\ buffer' = buffer
  BY DEF Return, out
<1>2. Pending' /\ Rest' = 0
  BY <1>1, NothingPending
<1>3. Rest = 0
  BY DEF Return, Rest
<1>4. QED
  BY <1>1, <1>2, <1>3, GoOnKeepsItems

-----------------------------------------------------------------------------
(* Pushing the blob to the buffer.                                         *)

\* With nothing copied since, the buffer holds all that was written.
LEMMA AllPushed ==
    ASSUME Holds', phase' = "moved" \/ (phase' = "open" /\ ptr' = 0)
    PROVE  BufferBytes' = log'
<1>1. CASE phase' = "moved"
  BY <1>1 DEF Holds, ContentsInOrder
<1>2. CASE phase' = "open" /\ ptr' = 0
  <2>1. SubSeq(mem'[blob'], 1, 0) = <<>>
    BY SubSeqEmpty
  <2>2. BufferBytes' \in Seq(Nat)
    <3>1. Sound(buffer', mem')
      BY DEF Holds
    <3>2. QED
      BY <3>1, BufferBytesIs, ContentsInSeq
  <2>3. BufferBytes' \o <<>> = log'
    BY <1>2, <2>1 DEF Holds, ContentsInOrder
  <2>4. QED
    BY <2>2, <2>3, ConcatEmptySeq
<1>3. QED
  BY <1>1, <1>2

\* What was in the blob of the writer, and the piece that is pushed with it,
\* lie in a blob of the buffer each.
LEMMA PushedBlobs ==
    ASSUME IndInv, Holds, Writes, Stay, Holds', phase = "open",
           phase' = "moved" \/ (phase' = "open" /\ ptr' = 0),
           NEW b, b = <<>> \/ \E c \in Source : b = <<c>>,
           buffer' = MergedBuffer \o b,
           Len(log') \in Nat, Len(log') <= Bytes,
           NEW from \in Nat, from = Len(BufferBytes),
           NEW to \in Nat, to = Len(log)
    PROVE  /\ ptr # 0 => InOneBlob(from, to)'
           /\ \A c \in Source : b = <<c>> => InOneBlob(to, to + (c.to - c.from))'
<1>1. /\ Sound(buffer, mem) /\ Sound(buffer', mem')
      /\ ptr \in Nat /\ to = from + ptr
      /\ Len(buffer) \in Nat /\ Len(buffer) <= MaxBlobs
      /\ BlobStarts[Len(buffer) + 1] = from
  BY LogFacts, Starts DEF Holds
<1>2. PICK N, f : N \in Nat /\ N = Len(buffer) /\ f = BlobStarts'
  BY <1>1
<1>3. Len(Contents(buffer', mem')) <= Bytes
  BY AllPushed, BufferBytesIs
<1>4. /\ Len(buffer') \in Nat
      /\ \A n \in 1 .. Len(buffer') + 1 : f[n] \in Nat
      /\ \A n \in 1 .. Len(buffer') :
             f[n + 1] = f[n] + (buffer'[n].to - buffer'[n].from)
  <2>1. /\ Len(buffer') \in Nat
        /\ \A n \in 1 .. Len(buffer') + 1 : StartsOf(buffer', mem')[n] \in Nat
        /\ \A n \in 1 .. Len(buffer') : StartsOf(buffer', mem')[n + 1]
               = StartsOf(buffer', mem')[n] + (buffer'[n].to - buffer'[n].from)
    BY <1>1, <1>3, StartsFacts
  <2>2. f = StartsOf(buffer', mem')
    BY <1>2, BlobStartsIs
  <2>3. QED
    BY <2>1, <2>2
<1>5. f[N + 1] = from
  <2>1. \A n \in 1 .. Len(buffer) + 1 : BlobStarts'[n] = BlobStarts[n]
    BY StartsKept
  <2>2. N + 1 \in 1 .. Len(buffer) + 1
    BY <1>2
  <2>3. QED
    BY <1>1, <1>2, <2>1, <2>2
<1>6. buffer \in Seq(Chunk) /\ b \in Seq(Chunk)
  BY <1>1 DEF Sound, Chunk
<1>7. ASSUME ptr # 0
      PROVE  /\ N + 1 \in 1 .. Len(buffer')
             /\ f[N + 2] = to
             /\ Len(buffer') = N + 1 + Len(b)
             /\ \A c : b = <<c>> => buffer'[N + 2] = c
  <2>1. PICK o : o = [own |-> TRUE, data |-> blob, from |-> 0, to |-> ptr]
    OBVIOUS
  <2>2. o \in Chunk /\ o.from = 0 /\ o.to = ptr
    BY <2>1 DEF IndInv, Core, Members, Chunk
  <2>3. buffer' = (buffer \o <<o>>) \o b
    BY <1>7, <2>1 DEF MergedBuffer, Own
  <2>4. PICK w : w = buffer \o <<o>>
    OBVIOUS
  <2>5. /\ w \in Seq(Chunk) /\ Len(w) = N + 1 /\ w[N + 1] = o
        /\ Len(b) \in Nat
    BY <1>2, <1>6, <2>2, <2>4
  <2>6. /\ Len(buffer') = N + 1 + Len(b)
        /\ buffer'[N + 1] = o
    BY <1>2, <1>6, <2>3, <2>4, <2>5
  <2>7. ASSUME NEW c, b = <<c>>
        PROVE  buffer'[N + 2] = c
    BY <1>2, <1>6, <2>3, <2>4, <2>5, <2>7
  <2>8. f[N + 1 + 1] = f[N + 1] + (buffer'[N + 1].to - buffer'[N + 1].from)
    BY <1>2, <1>4, <2>5, <2>6
  <2>9. f[N + 2] = to
    BY <1>1, <1>2, <1>5, <2>2, <2>6, <2>8
  <2>10. N + 1 \in 1 .. Len(buffer')
    BY <1>2, <2>5, <2>6
  <2>11. QED
    BY <2>6, <2>7, <2>9, <2>10
<1>8. ptr # 0 => InOneBlob(from, to)'
  <2>1. SUFFICES ASSUME ptr # 0
                 PROVE  InOneBlob(from, to)'
    OBVIOUS
  <2>2. N + 1 \in 1 .. Len(buffer') /\ f[N + 1] <= from /\ to <= f[N + 1 + 1]
    BY <1>2, <1>5, <1>7, <2>1
  <2>3. QED
    BY <1>2, <2>2 DEF InOneBlob
<1>9. ASSUME NEW c \in Source, b = <<c>>
      PROVE  InOneBlob(to, to + (c.to - c.from))'
  <2>1. CASE ptr # 0
    <3>1. /\ N + 2 \in 1 .. Len(buffer') /\ f[N + 2] = to
          /\ buffer'[N + 2] = c
      BY <1>2, <1>7, <1>9, <2>1
    <3>2. f[N + 2 + 1] = to + (c.to - c.from)
      BY <1>4, <3>1
    <3>3. PICK k \in 1 .. Len(buffer') : k = N + 2
      BY <3>1
    <3>4. /\ f[k] = to
          /\ f[k + 1] = to + (c.to - c.from)
          /\ to + (c.to - c.from) \in Nat
      BY <1>4, <3>1, <3>2, <3>3
    <3>5. QED
      BY <1>2, <3>4 DEF InOneBlob
  <2>2. CASE ptr = 0
    <3>1. buffer' = buffer \o <<c>>
      BY <1>9, <2>2 DEF MergedBuffer
    <3>2. N + 1 \in 1 .. Len(buffer') /\ buffer'[N + 1] = c
      BY <1>2, <1>6, <1>9, <3>1
    <3>3. f[N + 1] = to /\ f[N + 1 + 1] = to + (c.to - c.from)
      BY <1>1, <1>4, <1>5, <2>2, <3>2
    <3>4. PICK k \in 1 .. Len(buffer') : k = N + 1
      BY <3>2
    <3>5. /\ f[k] = to
          /\ f[k + 1] = to + (c.to - c.from)
          /\ to + (c.to - c.from) \in Nat
      BY <1>4, <3>2, <3>3, <3>4
    <3>6. QED
      BY <1>2, <3>5 DEF InOneBlob
  <2>3. QED
    BY <2>1, <2>2
<1>10. QED
  BY <1>8, <1>9

\* The items lie in the blobs of the buffer, after the blob was pushed.
LEMMA PushKeepsWhole ==
    ASSUME IndInv, Holds, Writes, Stay, Holds', phase = "open",
           phase' = "moved" \/ (phase' = "open" /\ ptr' = 0),
           NEW b, b = <<>> \/ \E c \in Source : b = <<c>>,
           buffer' = MergedBuffer \o b, script' = script,
           Len(log') \in Nat, Len(log') <= Bytes,
           NEW k \in DOMAIN script, EndOf(k) <= Len(log)
    PROVE  WholeItem(k)'
<1>1. PICK from \in Nat, to \in Nat :
          from = Len(BufferBytes) /\ to = Len(log) /\ to = from + ptr
  BY LogFacts
<1>2. PICK p \in Nat, n \in Nat : script[k].from = p /\ script[k].size = n
  BY ItemFacts
<1>3. script'[k] = script[k] /\ EndOf(k) = p + n /\ EndOf(k)' = p + n
  BY <1>2 DEF EndOf
<1>4. SUFFICES ASSUME script[k].kind # "variable", n # 0
               PROVE  InOneBlob(p, p + n)'
  <2>1. InOneBlob(p, p + n)' => InOneBlob(script[k].from, EndOf(k))'
    BY <1>2, <1>3 DEF InOneBlob
  <2>2. QED
    BY <1>2, <1>3, <2>1 DEF WholeItem
<1>5. InOneBlob(p, p + n) \/ from <= p
  BY <1>1, <1>2, <1>3, <1>4 DEF Writes, Whole, WholeItem
<1>6. CASE InOneBlob(p, p + n)
  BY <1>6, OneBlobStays
<1>7. CASE from <= p
  <2>1. p + n <= to
    BY <1>1, <1>3
  <2>2. ptr # 0
    BY <1>1, <1>2, <1>4, <1>7, <2>1
  <2>3. InOneBlob(from, to)'
    BY <1>1, <2>2, PushedBlobs
  <2>4. PICK c \in 1 .. Len(buffer') :
            BlobStarts'[c] <= from /\ to <= BlobStarts'[c + 1]
    BY <2>3 DEF InOneBlob
  <2>5. /\ Len(buffer') \in Nat
        /\ BlobStarts'[c] \in Nat /\ BlobStarts'[c + 1] \in Nat
    <3>1. Sound(buffer', mem') /\ Len(Contents(buffer', mem')) <= Bytes
      BY AllPushed, BufferBytesIs DEF Holds
    <3>2. /\ Len(buffer') \in Nat
          /\ \A i \in 1 .. Len(buffer') + 1 : StartsOf(buffer', mem')[i] \in Nat
      BY <3>1, StartsFacts
    <3>3. c \in 1 .. Len(buffer') + 1 /\ c + 1 \in 1 .. Len(buffer') + 1
      BY <3>2
    <3>4. QED
      BY <3>2, <3>3, BlobStartsIs
  <2>6. BlobStarts'[c] <= p /\ p + n <= BlobStarts'[c + 1]
    BY <1>7, <2>1, <2>4, <2>5
  <2>7. QED
    BY <2>4, <2>6 DEF InOneBlob
<1>8. QED
  BY <1>5, <1>6, <1>7

\* Flush, and GetBuffer of an OutputStream that is disposed of.
LEMMA FlushKeepsItems ==
    ASSUME IndInv, Holds, Writes, Stay, Holds', script' = script,
           Flush \/ GetBuffer
    PROVE  Writes'
<1>1. /\ phase = "open" /\ op = NoOp /\ op' = NoOp /\ log' = log
      /\ phase' = "moved" \/ (phase' = "open" /\ ptr' = 0)
  BY DEF Flush, GetBuffer, FlushAndPush, Ready
<1>2. Len(log) \in Nat /\ Len(log) <= Bytes /\ Rest = 0
  BY <1>1, LogFacts, RestFacts DEF Writes
<1>3. Pending' /\ Rest' = 0
  BY <1>1, NothingPending
<1>4. Follow'
  BY <1>1, <1>2, <1>3, GoesOn
<1>5. buffer' = MergedBuffer \o <<>>
  <2>1. MergedBuffer \in Seq(Chunk)
    BY <1>1, MergeFacts DEF IndInv
  <2>2. MergedBuffer \o <<>> = MergedBuffer
    BY <2>1, ConcatEmptySeq
  <2>3. QED
    BY <2>2 DEF Flush, GetBuffer, FlushAndPush
<1>6. \A k \in DOMAIN script : EndOf(k) <= Len(log)
  BY <1>2 DEF Writes, Follow
<1>7. Whole'
  BY <1>1, <1>2, <1>5, <1>6, PushKeepsWhole DEF Whole
<1>8. QED
  BY <1>3, <1>4, <1>7 DEF Writes

\* A piece of a blob is copied, or pushed behind what was copied before.
LEMMA NextPieceKeepsItems ==
    ASSUME IndInv, Holds, Writes, Stay, Holds', script' = script, NextPiece
    PROVE  Writes'
<1>1. PICK p \in Nat, q \in Nat, c \in Source :
          /\ c = Head(op.left) /\ c.from = p /\ c.to = q /\ p <= q
          /\ Rest = q - p /\ Rest' = 0 /\ Pending'
          /\ BytesOf(c) = SourceRange(p, q)
          /\ Len(BytesOf(c)) = q - p /\ BytesOf(c) \in Seq(Nat)
          /\ script # <<>> /\ script[Len(script)].from = Len(log)
  BY PieceFacts
<1>2. phase = "open"
  BY PieceFacts
<1>3. log \in Seq(Nat) /\ Len(log) \in Nat /\ Len(log) + Rest <= Bytes
  BY LogFacts DEF IndInv, Logged
<1>4. log' = log \o BytesOf(c)
  BY <1>1 DEF NextPiece, AppendBytes, Memcpy
<1>5. Len(log') = Len(log) + (q - p)
  <2>1. PICK bs \in Seq(Nat) : bs = BytesOf(c) /\ Len(bs) = q - p
    BY <1>1
  <2>2. QED
    BY <1>3, <1>4, <2>1, ConcatProperties
<1>6. Len(log') + Rest' = Len(log) + Rest
  BY <1>1, <1>3, <1>5
<1>7. CASE ~(inPool /\ c.from < c.to)
  <2>1. buffer' = buffer /\ phase' = phase
    BY <1>1, <1>7 DEF NextPiece, AppendBytes, Memcpy
  <2>2. QED
    BY <1>1, <1>6, <2>1, GoOnKeepsItems
<1>8. CASE inPool /\ c.from < c.to
  <2>1. /\ buffer' = MergedBuffer \o <<c>> /\ phase' = "open" /\ ptr' = 0
    BY <1>1, <1>2, <1>8 DEF NextPiece, FlushAndPush
  <2>2. Follow'
    BY <1>6, GoesOn
  <2>3. Len(log') \in Nat /\ Len(log') <= Bytes
    BY <1>1, <1>3, <1>5, Sizes
  <2>4. ASSUME NEW k \in DOMAIN script
        PROVE  WholeItem(k)'
    <3>1. /\ Len(script) \in Nat /\ k \in 1 .. Len(script)
          /\ Len(script) \in DOMAIN script
          /\ script[k].from \in Nat /\ script[k].size \in Nat
      BY ItemFacts
    <3>2. CASE k = Len(script)
      <4>1. EndOf(k) = Len(log) + (q - p) /\ script[k].from = Len(log)
        BY <1>1, <3>1, <3>2 DEF Writes, Follow
      <4>2. PICK m \in Nat, to \in Nat : m = Len(BufferBytes) /\ to = Len(log)
        BY LogFacts
      <4>3. InOneBlob(to, to + (c.to - c.from))'
        BY <1>2, <2>1, <2>3, <4>2, PushedBlobs
      <4>4. EndOf(k)' = EndOf(k) /\ script'[k].from = to
        BY <4>1, <4>2 DEF EndOf
      <4>5. EndOf(k)' = to + (c.to - c.from)
        BY <1>1, <4>1, <4>2, <4>4
      <4>6. QED
        BY <4>3, <4>4, <4>5 DEF WholeItem, InOneBlob
    <3>3. CASE k # Len(script)
      <4>1. EndOf(k) <= Len(log)
        BY <1>1, <3>1, <3>3 DEF Writes, Follow
      <4>2. QED
        BY <1>2, <2>1, <2>3, <4>1, PushKeepsWhole
    <3>4. QED
      BY <3>2, <3>3
  <2>5. Whole'
    BY <2>4 DEF Whole
  <2>6. QED
    BY <1>1, <2>2, <2>5 DEF Writes
<1>9. QED
  BY <1>7, <1>8

\* The readers leave the writer alone.
LEMMA WritesUnchanged ==
    ASSUME Writes, UNCHANGED writer
    PROVE  Writes'
<1>1. UNCHANGED <<mem, blob, ptr, buffer, op, phase, log, start, inPool, script>>
  BY DEF writer, vars, out
<1>2. BlobStarts' = BlobStarts /\ BufferBytes' = BufferBytes /\ Rest' = Rest
  BY <1>1 DEF BlobStarts, BufferBytes, BytesOf, SourceRange, Rest
<1>3. /\ \A k : EndOf(k)' = EndOf(k)
      /\ \A p, q : InOneBlob(p, q)' <=> InOneBlob(p, q)
  BY <1>1, <1>2 DEF EndOf, InOneBlob
<1>4. Follow'
  BY <1>1, <1>2, <1>3 DEF Writes, Follow
<1>5. Pending'
  BY <1>1 DEF Writes, Pending
<1>6. ASSUME NEW k \in DOMAIN script
      PROVE  WholeItem(k)'
  <2>1. WholeItem(k)
    BY DEF Writes, Whole
  <2>2. PICK p, q : p = script[k].from /\ q = EndOf(k)
    OBVIOUS
  <2>3. InOneBlob(script[k].from, EndOf(k)) => InOneBlob(p, q)'
    BY <1>3, <2>2
  <2>4. InOneBlob(p, q)' => InOneBlob(script[k].from, EndOf(k))'
    BY <1>1, <1>3, <2>2 DEF InOneBlob
  <2>5. QED
    BY <1>1, <1>2, <2>1, <2>3, <2>4 DEF WholeItem
<1>7. QED
  BY <1>1, <1>4, <1>5, <1>6 DEF Writes, Whole

LEMMA ItemsStay ==
    ASSUME IndInv, Holds, Writes, [MSNext]_<<writer, reading>>
    PROVE  Writes'
<1>1. [Next]_vars
  BY WriterSteps
<1>2. Stay /\ Holds'
  BY <1>1, NextKeeps, NextHolds
<1>3. ASSUME NEW n \in 0 .. Bytes, WriteNumber(n)
      PROVE  Writes'
  <2>1. n \in Nat /\ n # 0 /\ Ready /\ Write(n) /\ Item("number", n)
    BY <1>3, Sizes DEF WriteNumber, InteropWrite, Write
  <2>2. QED
    BY <1>2, <2>1, WriteKeepsItems
<1>4. ASSUME NEW n \in 0 .. Bytes, WriteString(n)
      PROVE  Writes'
  <2>1. n \in Nat /\ Ready /\ Write(n) /\ Item("string", n)
    BY <1>4, Sizes DEF WriteString, InteropWrite, Write
  <2>2. QED
    BY <1>2, <2>1, WriteKeepsItems
<1>5. ASSUME NEW n \in 0 .. Bytes, WriteBytes(n)
      PROVE  Writes'
  <2>1. /\ n \in Nat /\ Ready /\ Item("bytes", n)
        /\ Write(n) \/ (n = 0 /\ UNCHANGED vars)
    BY <1>5, Sizes DEF WriteBytes, InteropWrite
  <2>2. QED
    BY <1>2, <2>1, WriteKeepsItems
<1>6. ASSUME NEW n \in 1 .. FastPath + 1, WriteVarUInt(n)
      PROVE  Writes'
  BY <1>2, <1>6, WriteVarUIntKeepsItems
<1>7. ASSUME NEW b \in 1 .. SourceBlobs, NEW from \in 0 .. BlobSize(b),
             NEW to \in from .. BlobSize(b), WriteBondBlob(b, from, to)
      PROVE  Writes'
  BY <1>2, <1>7, WriteBondBlobKeepsItems
<1>8. CASE Proceed
  <2>1. script' = script /\ (NextByte \/ NextPiece \/ Return \/ Flush)
    BY <1>8 DEF Proceed
  <2>2. QED
    BY <1>2, <2>1, NextByteKeepsItems, NextPieceKeepsItems, ReturnKeepsItems,
       FlushKeepsItems
<1>9. CASE ManagedGetBuffer
  BY <1>2, <1>9, FlushKeepsItems DEF ManagedGetBuffer
<1>10. CASE ReadOn \/ \E s \in Reader : ReadsOf(s)
  BY <1>10, ReadersOnly, WritesUnchanged
<1>11. CASE UNCHANGED <<writer, reading>>
  BY <1>11, WritesUnchanged
<1>12. QED
  BY <1>3, <1>4, <1>5, <1>6, <1>7, <1>8, <1>9, <1>10, <1>11 DEF MSNext, ReadsOf

LEMMA InitWrites == MSInit => Writes
<1>1. SUFFICES ASSUME MSInit PROVE Writes
  OBVIOUS
<1>2. /\ op = NoOp /\ phase = "open" /\ script = <<>> /\ log = <<>>
  BY <1>1 DEF MSInit, Init
<1>3. script \in Scripts /\ Len(log) = 0 /\ DOMAIN script = {}
  BY <1>2 DEF Scripts
<1>4. Rest = 0 /\ Pending
  BY <1>2 DEF Rest, NoOp, Pending
<1>5. QED
  BY <1>2, <1>3, <1>4, Sizes DEF Writes, Follow, Whole

-----------------------------------------------------------------------------
(* A stream over the buffer that the writer has made.                      *)

Handed == IndInv /\ Holds /\ Writes /\ phase = "moved"

LEMMA HandedFacts ==
    ASSUME Handed
    PROVE  /\ Len(buffer) \in Nat /\ Len(log) \in Nat /\ Rest = 0
           /\ BlobStarts[1] = 0 /\ BlobStarts[Len(buffer) + 1] = Len(log)
           /\ \A n \in 1 .. Len(buffer) + 1 : BlobStarts[n] \in Nat
           /\ \A i, j \in 1 .. Len(buffer) + 1 :
                  i < j => BlobStarts[i] < BlobStarts[j]
<1>1. Len(log) \in Nat /\ BufferBytes = log
  BY LogFacts DEF Handed
<1>2. Rest = 0
  BY RestFacts DEF Handed, Writes, Pending
<1>3. QED
  BY <1>1, <1>2, Starts DEF Handed

\* Where each item ends, the next one begins.
LEMMA Goals ==
    ASSUME Handed
    PROVE  /\ Goal(1) = 0
           /\ \A k \in DOMAIN script :
                /\ Goal(k) = script[k].from /\ Goal(k) \in Nat
                /\ Goal(k + 1) = Goal(k) + script[k].size
                /\ Goal(k + 1) = EndOf(k)
                /\ Goal(k + 1) \in Nat /\ Goal(k + 1) <= Len(log)
<1>1. /\ Len(script) \in Nat /\ DOMAIN script = 1 .. Len(script)
      /\ \A k \in 1 .. Len(script) :
            script[k].from \in Nat /\ script[k].size \in Nat
  BY ItemFacts DEF Handed
<1>2. Rest = 0 /\ Len(log) \in Nat
  BY HandedFacts
<1>3. Goal(1) = 0
  <2>1. CASE script = <<>>
    BY <1>1, <1>2, <2>1 DEF Goal, Handed, Writes, Follow
  <2>2. CASE script # <<>>
    <3>1. script[1].from = 0
      BY <2>2 DEF Handed, Writes, Follow
    <3>2. Len(script) # 0
      BY <2>2, EmptySeq DEF Handed, Writes, Follow, Scripts
    <3>3. QED
      BY <1>1, <3>1, <3>2 DEF Goal
  <2>3. QED
    BY <2>1, <2>2
<1>4. ASSUME NEW k \in DOMAIN script
      PROVE  /\ Goal(k) = script[k].from /\ Goal(k) \in Nat
             /\ Goal(k + 1) = Goal(k) + script[k].size
             /\ Goal(k + 1) = EndOf(k)
             /\ Goal(k + 1) \in Nat /\ Goal(k + 1) <= Len(log)
  <2>1. Goal(k) = script[k].from /\ Goal(k) \in Nat
    BY <1>1 DEF Goal
  <2>2. /\ EndOf(k) = IF k = Len(script) THEN Len(log) ELSE script[k + 1].from
        /\ EndOf(k) <= Len(log)
    BY <1>2 DEF Handed, Writes, Follow
  <2>3. Goal(k + 1) = EndOf(k)
    BY <1>1, <2>2 DEF Goal
  <2>4. EndOf(k) = script[k].from + script[k].size
    BY DEF EndOf
  <2>5. QED
    BY <1>1, <2>1, <2>2, <2>3, <2>4
<1>5. QED
  BY <1>3, <1>4

LEMMA FirstOfReader ==
    ASSUME NEW b \in Nat, NEW e \in Nat, b <= e, b = e \/ R!Size(b) # 0
    PROVE  R!FirstWithBytes(b, e) = b
<1> DEFINE Q(c) == /\ c = e \/ R!Size(c) # 0
                   /\ \A x \in b .. c - 1 : R!Size(x) = 0
<1>1. b \in b .. e /\ Q(b)
  OBVIOUS
<1>2. \A c \in b .. e : Q(c) => c = b
  OBVIOUS
<1>3. R!FirstWithBytes(b, e) = CHOOSE c \in b .. e : Q(c)
  BY DEF R!FirstWithBytes
<1> HIDE DEF Q
<1>4. QED
  BY <1>1, <1>2, <1>3

\* UpdateData leaves the cursor where the blob begins.
LEMMA AtStands ==
    ASSUME Handed, NEW b \in 1 .. Len(buffer) + 1
    PROVE  Stands(R!At(b, Len(buffer) + 1, 0), BlobStarts[b])
<1>1. PICK N \in Nat : N = Len(buffer)
  BY HandedFacts
<1>2. b \in Nat /\ b <= N + 1 /\ b \in 1 .. N + 1
  BY <1>1
<1>3. CASE b = N + 1
  <2>1. R!FirstWithBytes(b, N + 1) = b
    BY <1>2, <1>3, FirstOfReader
  <2>2. R!At(b, N + 1, 0) = AtEnd
    BY <1>1, <1>3, <2>1 DEF R!At, AtEnd
  <2>3. QED
    BY <1>1, <1>3, <2>2, HandedFacts DEF Stands
<1>4. CASE b # N + 1
  <2>1. b \in 1 .. N /\ b + 1 \in 1 .. N + 1
    BY <1>2, <1>4
  <2>2. /\ BlobStarts[b] \in Nat /\ BlobStarts[b + 1] \in Nat
        /\ BlobStarts[b] < BlobStarts[b + 1]
    BY <1>1, <1>2, <2>1, HandedFacts
  <2>3. R!Size(b) # 0
    BY <2>2 DEF R!Size
  <2>4. R!FirstWithBytes(b, N + 1) = b
    BY <1>2, <2>3, FirstOfReader
  <2>5. R!At(b, N + 1, 0) = InBlob(b, BlobStarts[b])
    BY <1>1, <1>4, <2>4 DEF R!At, InBlob
  <2>6. QED
    BY <1>1, <2>1, <2>2, <2>5 DEF Stands
<1>5. QED
  BY <1>3, <1>4

\* At one byte there is one state that a stream may have.
LEMMA StandsUnique ==
    ASSUME Handed, NEW c, NEW d, NEW p \in Nat, Stands(c, p), Stands(d, p)
    PROVE  c = d
<1>1. PICK N, f : N \in Nat /\ N = Len(buffer) /\ f = BlobStarts
  BY HandedFacts
<1>2. /\ f[N + 1] = Len(log)
      /\ \A n \in 1 .. N + 1 : f[n] \in Nat
      /\ \A i, j \in 1 .. N + 1 : i < j => f[i] < f[j]
  BY <1>1, HandedFacts
<1>3. \A b \in 1 .. N : f[b + 1] <= f[N + 1]
  <2>1. SUFFICES ASSUME NEW b \in 1 .. N PROVE f[b + 1] <= f[N + 1]
    OBVIOUS
  <2>2. /\ b + 1 \in 1 .. N + 1
        /\ N + 1 \in 1 .. N + 1
        /\ (b + 1 = N + 1 \/ b + 1 < N + 1)
    BY <1>1
  <2>3. QED
    BY <1>2, <2>2
<1>4. ASSUME NEW b \in 1 .. N, f[b] <= p, p < f[b + 1],
             NEW a \in 1 .. N, f[a] <= p, p < f[a + 1]
      PROVE  a = b
  <2>1. /\ a \in 1 .. N + 1 /\ b \in 1 .. N + 1
        /\ a + 1 \in 1 .. N + 1 /\ b + 1 \in 1 .. N + 1
    BY <1>1
  <2>2. /\ f[a] \in Nat /\ f[b] \in Nat /\ f[a + 1] \in Nat /\ f[b + 1] \in Nat
    BY <1>2, <2>1
  <2>3. CASE a < b
    <3>1. f[a + 1] <= f[b]
      BY <1>2, <2>1, <2>3
    <3>2. QED
      BY <1>4, <2>2, <3>1
  <2>4. CASE b < a
    <3>1. f[b + 1] <= f[a]
      BY <1>2, <2>1, <2>4
    <3>2. QED
      BY <1>4, <2>2, <3>1
  <2>5. QED
    BY <2>3, <2>4
<1>5. CASE p = Len(log)
  <2>1. \A b \in 1 .. N : ~(p < f[b + 1])
    <3>1. SUFFICES ASSUME NEW b \in 1 .. N PROVE ~(p < f[b + 1])
      OBVIOUS
    <3>2. b + 1 \in 1 .. N + 1
      BY <1>1
    <3>3. QED
      BY <1>2, <1>3, <1>5, <3>2
  <2>2. QED
    BY <1>1, <2>1 DEF Stands
<1>6. CASE p # Len(log)
  <2>1. PICK b \in 1 .. N : f[b] <= p /\ p < f[b + 1] /\ c = InBlob(b, p)
    BY <1>1, <1>6 DEF Stands
  <2>2. PICK a \in 1 .. N : f[a] <= p /\ p < f[a + 1] /\ d = InBlob(a, p)
    BY <1>1, <1>6 DEF Stands
  <2>3. a = b
    BY <1>4, <2>1, <2>2
  <2>4. QED
    BY <2>1, <2>2, <2>3
<1>7. QED
  BY <1>5, <1>6

\* The byte that a stream is at is the one that PosOf computes.
LEMMA StandsPos ==
    ASSUME Handed, NEW c, NEW p, Stands(c, p)
    PROVE  /\ R!PosOf(c) = p
           /\ p = Len(log) => c.isEof
<1>1. PICK N \in Nat : N = Len(buffer)
  BY HandedFacts
<1>2. BlobStarts[N + 1] = Len(log)
  BY <1>1, HandedFacts
<1>3. CASE p = Len(log) /\ c = AtEnd
  BY <1>1, <1>2, <1>3 DEF AtEnd, R!PosOf, R!LimitOf
<1>4. ASSUME NEW b \in 1 .. N, BlobStarts[b] <= p, p < BlobStarts[b + 1],
             c = InBlob(b, p)
      PROVE  R!PosOf(c) = p /\ p # Len(log)
  <2>1. c.blob = b /\ c.blobEnd = N + 1 /\ c.ptr = p
    BY <1>1, <1>4 DEF InBlob
  <2>2. R!PosOf(c) = p
    BY <2>1 DEF R!PosOf
  <2>3. /\ b + 1 \in 1 .. N + 1
        /\ N + 1 \in 1 .. N + 1
        /\ (b + 1 = N + 1 \/ b + 1 < N + 1)
    BY <1>1
  <2>4. /\ BlobStarts[b + 1] \in Nat /\ BlobStarts[N + 1] \in Nat
        /\ b + 1 = N + 1 \/ BlobStarts[b + 1] < BlobStarts[N + 1]
    BY <1>1, <2>3, HandedFacts
  <2>5. p # Len(log)
    BY <1>2, <1>4, <2>4
  <2>6. QED
    BY <2>2, <2>5
<1>5. QED
  BY <1>1, <1>3, <1>4 DEF Stands

\* What fits in the rest of the blob leaves the stream at the byte behind it.
LEMMA AdvanceStands ==
    ASSUME Handed, NEW c, NEW p \in Nat, Stands(c, p), NEW n \in Nat,
           R!Fits(c, n)
    PROVE  Stands(R!Advance(c, n), p + n)
<1>1. PICK N \in Nat : N = Len(buffer)
  BY HandedFacts
<1>2. c # AtEnd
  BY DEF AtEnd, R!Fits
<1>3. PICK b \in 1 .. N :
          BlobStarts[b] <= p /\ p < BlobStarts[b + 1] /\ c = InBlob(b, p)
  BY <1>1, <1>2 DEF Stands
<1>4. /\ c.blob = b /\ c.blobEnd = N + 1 /\ c.ptr = p /\ c.lastOffset = 0
      /\ c.ptrEnd = BlobStarts[b + 1]
  BY <1>1, <1>3 DEF InBlob
<1>5. /\ b + 1 \in 1 .. Len(buffer) + 1 /\ b \in 1 .. Len(buffer) + 1
      /\ BlobStarts[b] \in Nat /\ BlobStarts[b + 1] \in Nat
  BY <1>1, HandedFacts
<1>6. p + n <= BlobStarts[b + 1]
  BY <1>4 DEF R!Fits
<1>7. CASE p + n # BlobStarts[b + 1]
  <2>1. R!Advance(c, n) = [c EXCEPT !.ptr = @ + n]
    BY <1>4, <1>7 DEF R!Advance
  <2>2. R!Advance(c, n) = InBlob(b, p + n)
    BY <1>3, <2>1 DEF InBlob
  <2>3. BlobStarts[b] <= p + n /\ p + n < BlobStarts[b + 1]
    BY <1>3, <1>5, <1>6, <1>7
  <2>4. QED
    BY <1>1, <2>2, <2>3 DEF Stands
<1>8. CASE p + n = BlobStarts[b + 1]
  <2>1. R!Advance(c, n) = R!At(b + 1, N + 1, 0)
    BY <1>4, <1>8 DEF R!Advance
  <2>2. Stands(R!At(b + 1, Len(buffer) + 1, 0), BlobStarts[b + 1])
    BY <1>5, AtStands
  <2>3. QED
    BY <1>1, <1>8, <2>1, <2>2
<1>9. QED
  BY <1>7, <1>8

\* Bytes that lie in one blob can be read from it.
LEMMA FitsInBlob ==
    ASSUME Handed, NEW c, NEW p \in Nat, Stands(c, p), NEW n \in Nat, n # 0,
           InOneBlob(p, p + n)
    PROVE  R!Fits(c, n)
<1>1. PICK N \in Nat : N = Len(buffer)
  BY HandedFacts
<1>2. PICK b \in 1 .. N : BlobStarts[b] <= p /\ p + n <= BlobStarts[b + 1]
  BY <1>1 DEF InOneBlob
<1>3. b + 1 \in 1 .. N + 1 /\ BlobStarts[b + 1] \in Nat
  BY <1>1, HandedFacts
<1>4. p < BlobStarts[b + 1]
  BY <1>2, <1>3
<1>5. Stands(InBlob(b, p), p)
  BY <1>1, <1>2, <1>4 DEF Stands
<1>6. c = InBlob(b, p)
  BY <1>5, StandsUnique
<1>7. c.ptr = p /\ c.ptrEnd = BlobStarts[b + 1] /\ c.isEof = FALSE
  BY <1>6 DEF InBlob
<1>8. QED
  BY <1>2, <1>7 DEF R!Fits

\* A stream that is not at its end has bytes in its blob.
LEMMA RestOfBlob ==
    ASSUME Handed, NEW c, NEW p \in Nat, Stands(c, p), p < Len(log)
    PROVE  /\ c.ptr \in Nat /\ c.ptrEnd \in Nat /\ c.ptr < c.ptrEnd /\ ~c.isEof
           /\ \A n \in Nat : n <= c.ptrEnd - c.ptr => R!Fits(c, n)
<1>1. PICK N \in Nat : N = Len(buffer) /\ Len(log) \in Nat
  BY HandedFacts
<1>2. PICK b \in 1 .. N :
          BlobStarts[b] <= p /\ p < BlobStarts[b + 1] /\ c = InBlob(b, p)
  BY <1>1 DEF Stands
<1>3. b + 1 \in 1 .. N + 1 /\ BlobStarts[b + 1] \in Nat
  BY <1>1, HandedFacts
<1>4. c.ptr = p /\ c.ptrEnd = BlobStarts[b + 1] /\ c.isEof = FALSE
  BY <1>2 DEF InBlob
<1>5. QED
  BY <1>2, <1>3, <1>4 DEF R!Fits

-----------------------------------------------------------------------------
(* The steps of the readers.                                               *)

\* To the streams it is the same buffer after a step of one of them.
LEMMA SameBuffer ==
    ASSUME UNCHANGED writer
    PROVE  /\ script' = script /\ phase' = phase /\ log' = log
           /\ \A k : Goal(k)' = Goal(k)
           /\ \A c, p : Stands(c, p)' <=> Stands(c, p)
<1>1. UNCHANGED <<mem, blob, ptr, buffer, phase, log, start, inPool, script>>
  BY DEF writer, vars, out
<1>2. BlobStarts' = BlobStarts
  BY <1>1 DEF BlobStarts, BytesOf, SourceRange
<1>3. AtEnd' = AtEnd /\ \A b, p : InBlob(b, p)' = InBlob(b, p)
  BY <1>1, <1>2 DEF AtEnd, InBlob
<1>4. QED
  BY <1>1, <1>2, <1>3 DEF Goal, Stands

LEMMA ExceptFacts ==
    ASSUME NEW S, NEW f, f = [x \in S |-> f[x]], NEW s \in S, NEW v,
           NEW g, g = [f EXCEPT ![s] = v]
    PROVE  /\ g = [x \in S |-> g[x]] /\ g[s] = v
           /\ \A t \in S \ {s} : g[t] = f[t]
<1>1. DOMAIN f = S
  OBVIOUS
<1>2. g = [x \in S |-> IF x = s THEN v ELSE f[x]]
  BY <1>1
<1>3. QED
  BY <1>2

LEMMA StandsAgain ==
    ASSUME UNCHANGED writer, NEW t, NEW i, NEW c, NEW l,
           next'[t] = i, cur'[t] = c, LeftOf(t)' = l,
           l <= Goal(i), Stands(c, Goal(i) - l)
    PROVE  StandsAtItem(t)'
<1>1. PICK g, p : g = Goal(i) /\ p = g - l /\ l <= g /\ Stands(c, p)
  OBVIOUS
<1>2. Goal(next[t])' = g
  <2>1. script' = script /\ log' = log
    BY SameBuffer
  <2>2. QED
    BY <1>1, <2>1 DEF Goal
<1>3. Stands(c, p)'
  BY <1>1, SameBuffer
<1>4. (Goal(next[t]) - LeftOf(t))' = p
  BY <1>1, <1>2
<1>5. Stands(cur[t], Goal(next[t]) - LeftOf(t))'
  BY <1>3, <1>4 DEF Stands
<1>6. QED
  BY <1>1, <1>2, <1>5 DEF StandsAtItem

\* Which items there are to come to.
LEMMA GoalFacts ==
    ASSUME Handed, NEW i \in 1 .. Len(script) + 1
    PROVE  Goal(i) \in Nat /\ Goal(i) <= Len(log) /\ Len(log) \in Nat
<1>1. /\ Len(script) \in Nat /\ DOMAIN script = 1 .. Len(script)
      /\ \A k \in 1 .. Len(script) : script[k].size \in Nat
  BY ItemFacts DEF Handed
<1>2. Len(log) \in Nat
  BY HandedFacts
<1>3. CASE i \in DOMAIN script
  <2>1. PICK g \in Nat, n \in Nat, l \in Nat :
            g = Goal(i) /\ n = script[i].size /\ l = Len(log)
            /\ g + n <= l
    BY <1>1, <1>2, <1>3, Goals
  <2>2. QED
    BY <2>1
<1>4. CASE i \notin DOMAIN script
  BY <1>2, <1>4 DEF Goal
<1>5. QED
  BY <1>3, <1>4

\* A read that ended: the stream is at the item behind the one it read.
LEMMA EndOfRead ==
    ASSUME Handed, Reading, UNCHANGED writer, loop = NoOp, outcome = "ok",
           NEW s \in Reader, NEW k \in DOMAIN script, next[s] = k,
           next' = [next EXCEPT ![s] = @ + 1],
           NEW c, Stands(c, Goal(k + 1)), cur' = [cur EXCEPT ![s] = c],
           loop' = NoOp, outcome' = "ok"
    PROVE  Reading'
<1>1. /\ script' = script /\ phase' = phase
      /\ \A i : Goal(i)' = Goal(i)
      /\ \A d, p : Stands(d, p)' <=> Stands(d, p)
  BY SameBuffer
<1>2. /\ Len(script) \in Nat /\ k \in 1 .. Len(script)
  BY ItemFacts DEF Handed
<1>3. /\ next \in [Reader -> 0 .. Len(script) + 1]
      /\ cur = [t \in Reader |-> cur[t]]
  BY DEF Reading
<1>4. /\ next' \in [Reader -> 0 .. Len(script) + 1] /\ next'[s] = k + 1
      /\ \A t \in Reader \ {s} : next'[t] = next[t] /\ cur'[t] = cur[t]
      /\ cur'[s] = c /\ cur' = [t \in Reader |-> cur'[t]]
  <2>1. /\ next' \in [Reader -> 0 .. Len(script) + 1] /\ next'[s] = k + 1
        /\ \A t \in Reader \ {s} : next'[t] = next[t]
    BY <1>2, <1>3
  <2>2. QED
    BY <1>3, <2>1, ExceptFacts
<1>5. \A t : LeftOf(t) = 0 /\ LeftOf(t)' = 0
  BY DEF LeftOf
<1>6. ASSUME NEW t \in Reader, next'[t] # 0
      PROVE  StandsAtItem(t)'
  <2>1. CASE t = s
    <3>1. Goal(k + 1) \in Nat
      BY Goals
    <3>2. Goal(k + 1) - 0 = Goal(k + 1) /\ 0 <= Goal(k + 1)
      BY <3>1
    <3>3. QED
      BY <1>4, <1>5, <2>1, <3>2, StandsAgain
  <2>2. CASE t # s
    <3>1. next'[t] = next[t] /\ cur'[t] = cur[t] /\ next[t] # 0
      BY <1>4, <1>6, <2>2
    <3>2. 0 <= Goal(next[t]) /\ Stands(cur[t], Goal(next[t]) - 0)
      BY <1>5, <3>1 DEF Reading, ReadersStand, StandsAtItem
    <3>3. QED
      BY <1>5, <3>1, <3>2, StandsAgain
  <2>3. QED
    BY <2>1, <2>2
<1>7. ReadersStand'
  BY <1>6 DEF ReadersStand, StandsAtItem
<1>8. QED
  BY <1>1, <1>4, <1>7 DEF Reading, Loops, Threw, Handed

\* A loop is begun: all of the item is left to be read.
LEMMA BeginOfRead ==
    ASSUME Handed, Reading, UNCHANGED writer, loop = NoOp, outcome = "ok",
           NEW s \in Reader, NEW k \in DOMAIN script, next[s] = k,
           next' = [next EXCEPT ![s] = @ + 1], cur' = cur, outcome' = "ok",
           NEW kind \in {"multiple", "variable"}, NEW n, n = script[k].size,
           NEW c, loop' = [kind |-> kind, stream |-> s, size |-> n, left |-> n,
                           before |-> c]
    PROVE  Reading'
<1>1. /\ Len(script) \in Nat /\ k \in 1 .. Len(script) /\ n \in Nat
      /\ script' = script /\ phase' = phase
  BY ItemFacts, SameBuffer DEF Handed
<1>2. /\ next \in [Reader -> 0 .. Len(script) + 1]
      /\ cur = [t \in Reader |-> cur[t]]
  BY DEF Reading
<1>3. /\ next' \in [Reader -> 0 .. Len(script) + 1] /\ next'[s] = k + 1
      /\ \A t \in Reader \ {s} : next'[t] = next[t]
  BY <1>1, <1>2
<1>4. /\ loop'.kind = kind /\ loop'.stream = s /\ loop'.size = n
      /\ loop'.left = n /\ loop'.before = c /\ loop' # NoOp
  BY DEF NoOp
<1>5. /\ \A t : LeftOf(t) = 0 /\ (t # s => LeftOf(t)' = 0)
      /\ LeftOf(s)' = n
  BY <1>4 DEF LeftOf
<1>6. ASSUME NEW t \in Reader, next'[t] # 0
      PROVE  StandsAtItem(t)'
  <2>1. CASE t = s
    <3>1. PICK g \in Nat : /\ g = Goal(k) /\ Goal(k + 1) = g + n
                           /\ Stands(cur[s], g - 0)
      BY <1>1, <1>5, Goals DEF Reading, ReadersStand, StandsAtItem
    <3>2. n <= Goal(k + 1) /\ Goal(k + 1) - n = g - 0
      BY <1>1, <3>1
    <3>3. QED
      BY <1>3, <1>5, <2>1, <3>1, <3>2, StandsAgain
  <2>2. CASE t # s
    <3>1. next'[t] = next[t] /\ cur'[t] = cur[t] /\ next[t] # 0
      BY <1>3, <1>6, <2>2
    <3>2. 0 <= Goal(next[t]) /\ Stands(cur[t], Goal(next[t]) - 0)
      BY <1>5, <3>1 DEF Reading, ReadersStand, StandsAtItem
    <3>3. QED
      BY <1>5, <2>2, <3>1, <3>2, StandsAgain
  <2>3. QED
    BY <2>1, <2>2
<1>7. ReadersStand'
  BY <1>6 DEF ReadersStand, StandsAtItem
<1>8. Loops'
  BY <1>1, <1>3, <1>4 DEF Loops
<1>9. QED
  BY <1>1, <1>2, <1>3, <1>7, <1>8 DEF Reading, Threw, Handed

\* An array without bytes could not be read.
LEMMA FailedRead ==
    ASSUME Handed, Reading, UNCHANGED writer, loop = NoOp, outcome = "ok",
           NEW s \in Reader, NEW k \in DOMAIN script, next[s] = k,
           next' = [next EXCEPT ![s] = @ + 1], cur' = cur, outcome' = "threw",
           loop' = NoOp, script[k].kind = "bytes", script[k].size = 0
    PROVE  Reading'
<1>1. /\ Len(script) \in Nat /\ k \in 1 .. Len(script)
      /\ script' = script /\ phase' = phase
  BY ItemFacts, SameBuffer DEF Handed
<1>2. /\ next \in [Reader -> 0 .. Len(script) + 1]
      /\ cur = [t \in Reader |-> cur[t]]
  BY DEF Reading
<1>3. /\ next' \in [Reader -> 0 .. Len(script) + 1] /\ next'[s] = k + 1
  BY <1>1, <1>2
<1>4. Threw'
  <2>1. next'[s] > 1 /\ next'[s] - 1 = k
    BY <1>1, <1>3
  <2>2. QED
    BY <1>1, <2>1 DEF Threw
<1>5. QED
  BY <1>1, <1>2, <1>3, <1>4
     DEF Reading, ReadersStand, StandsAtItem, Loops, Handed

\* One iteration: the cursor and what is left move on together.
LEMMA StepOfRead ==
    ASSUME Handed, Reading, UNCHANGED <<writer, next>>, loop # NoOp,
           NEW s, s = loop.stream, NEW n \in Nat, n <= loop.left,
           R!Fits(cur[s], n), cur' = [cur EXCEPT ![s] = R!Advance(@, n)],
           loop' = [loop EXCEPT !.left = @ - n], outcome' = outcome
    PROVE  Reading'
<1>0. UNCHANGED writer /\ next' = next
  OBVIOUS
<1>1. /\ s \in Reader /\ next[s] # 0 /\ outcome = "ok"
      /\ loop.kind \in {"multiple", "variable"}
      /\ loop = [kind |-> loop.kind, stream |-> s, size |-> loop.size,
                 left |-> loop.left, before |-> loop.before]
  BY DEF Reading, Loops
<1>2. PICK l \in Nat : l = loop.left /\ n <= l
  BY DEF Reading, Loops
<1>3. /\ loop' = [kind |-> loop'.kind, stream |-> loop'.stream,
                  size |-> loop'.size, left |-> loop'.left,
                  before |-> loop'.before]
      /\ loop'.kind = loop.kind /\ loop'.stream = s /\ loop'.left = l - n
  <2>1. PICK kind, size, before :
            loop = [kind |-> kind, stream |-> s, size |-> size, left |-> l,
                    before |-> before]
    BY <1>1, <1>2
  <2>2. loop' = [kind |-> kind, stream |-> s, size |-> size, left |-> l - n,
                 before |-> before]
    BY <2>1
  <2>3. QED
    BY <2>1, <2>2
<1>4. loop' # NoOp /\ l - n \in Nat /\ loop'.left = l - n /\ loop'.stream = s
  BY <1>1, <1>2, <1>3 DEF NoOp
<1>5. /\ LeftOf(s) = l /\ LeftOf(s)' = l - n
      /\ \A t : t # s => LeftOf(t) = 0 /\ LeftOf(t)' = 0
  BY <1>2, <1>4 DEF LeftOf
<1>6. /\ script' = script /\ phase' = phase
      /\ next \in [Reader -> 0 .. Len(script) + 1]
      /\ cur = [t \in Reader |-> cur[t]] /\ Len(script) \in Nat
  BY <1>0, SameBuffer, ItemFacts DEF Reading, Handed
<1>7. /\ cur' = [t \in Reader |-> cur'[t]]
      /\ cur'[s] = R!Advance(cur[s], n)
      /\ \A t \in Reader \ {s} : cur'[t] = cur[t]
  <2>1. cur' = [cur EXCEPT ![s] = R!Advance(cur[s], n)]
    OBVIOUS
  <2>2. QED
    BY <1>1, <1>6, <2>1, ExceptFacts
<1>8. ASSUME NEW t \in Reader, next'[t] # 0
      PROVE  StandsAtItem(t)'
  <2>1. CASE t = s
    <3>1. next[s] \in 1 .. Len(script) + 1
      BY <1>1, <1>6
    <3>2. PICK g \in Nat : /\ g = Goal(next[s]) /\ l <= g
                           /\ Stands(cur[s], g - l)
      BY <1>1, <1>5, <3>1, GoalFacts DEF Reading, ReadersStand, StandsAtItem
    <3>3. g - l \in Nat /\ g - l + n = g - (l - n) /\ l - n <= g
      BY <1>2, <3>2
    <3>4. Stands(R!Advance(cur[s], n), g - l + n)
      BY <3>2, <3>3, AdvanceStands
    <3>5. Stands(R!Advance(cur[s], n), Goal(next[s]) - (l - n))
      BY <3>2, <3>3, <3>4
    <3>6. l - n <= Goal(next[s])
      BY <3>2, <3>3
    <3>7. QED
      BY <1>0, <1>5, <1>7, <2>1, <3>5, <3>6, StandsAgain
  <2>2. CASE t # s
    <3>1. next'[t] = next[t] /\ cur'[t] = cur[t] /\ next[t] # 0
      BY <1>0, <1>7, <1>8, <2>2
    <3>2. 0 <= Goal(next[t]) /\ Stands(cur[t], Goal(next[t]) - 0)
      BY <1>1, <1>5, <2>2, <3>1 DEF Reading, ReadersStand, StandsAtItem
    <3>3. QED
      BY <1>0, <1>5, <2>2, <3>1, <3>2, StandsAgain
  <2>3. QED
    BY <2>1, <2>2
<1>9. ReadersStand'
  BY <1>8 DEF ReadersStand, StandsAtItem
<1>10. Loops'
  BY <1>0, <1>1, <1>3, <1>4 DEF Loops
<1>11. QED
  BY <1>0, <1>1, <1>6, <1>7, <1>9, <1>10 DEF Reading, Threw, Handed

LEMMA LoopReturns ==
    ASSUME Handed, Reading, UNCHANGED <<writer, next>>, loop # NoOp,
           loop.left = 0, loop' = NoOp, outcome' = "ok", cur' = cur
    PROVE  Reading'
<1>1. UNCHANGED writer /\ next' = next
  OBVIOUS
<1>2. script' = script /\ phase' = phase /\ outcome = "ok"
  BY <1>1, SameBuffer DEF Reading, Loops
<1>3. \A t : LeftOf(t) = 0 /\ LeftOf(t)' = 0
  BY DEF LeftOf
<1>4. ASSUME NEW t \in Reader, next'[t] # 0
      PROVE  StandsAtItem(t)'
  <2>1. 0 <= Goal(next[t]) /\ Stands(cur[t], Goal(next[t]) - 0)
    BY <1>1, <1>2, <1>3, <1>4 DEF Reading, ReadersStand, StandsAtItem
  <2>2. QED
    BY <1>1, <1>3, <2>1, StandsAgain
<1>5. ReadersStand'
  BY <1>4 DEF ReadersStand, StandsAtItem
<1>6. QED
  BY <1>1, <1>2, <1>5 DEF Reading, Threw, Loops, Handed

\* A stream is opened where the buffer begins.
LEMMA OpenKeeps ==
    ASSUME Handed, Reading, NEW s \in Reader, OpenStream(s)
    PROVE  Reading'
<1>1. /\ UNCHANGED writer /\ loop = NoOp /\ loop' = NoOp /\ outcome' = outcome
      /\ next[s] = 0 /\ next' = [next EXCEPT ![s] = 1]
      /\ cur' = [cur EXCEPT ![s] = R!At(1, Len(buffer) + 1, 0)]
  BY DEF OpenStream
<1>2. /\ script' = script /\ phase' = phase /\ Len(script) \in Nat
      /\ next \in [Reader -> 0 .. Len(script) + 1]
      /\ cur = [t \in Reader |-> cur[t]]
  BY <1>1, SameBuffer, ItemFacts DEF Reading, Handed
<1>3. /\ next' \in [Reader -> 0 .. Len(script) + 1] /\ next'[s] = 1
      /\ \A t \in Reader \ {s} : next'[t] = next[t]
  BY <1>1, <1>2
<1>4. /\ cur' = [t \in Reader |-> cur'[t]]
      /\ cur'[s] = R!At(1, Len(buffer) + 1, 0)
      /\ \A t \in Reader \ {s} : cur'[t] = cur[t]
  BY <1>1, <1>2, ExceptFacts
<1>5. \A t : LeftOf(t) = 0 /\ LeftOf(t)' = 0
  BY <1>1 DEF LeftOf
<1>6. ASSUME NEW t \in Reader, next'[t] # 0, outcome = "ok"
      PROVE  StandsAtItem(t)'
  <2>1. CASE t = s
    <3>1. /\ Len(buffer) \in Nat /\ BlobStarts[1] = 0 /\ Goal(1) = 0
      BY HandedFacts, Goals
    <3>2. Stands(R!At(1, Len(buffer) + 1, 0), BlobStarts[1])
      BY <3>1, AtStands
    <3>3. Stands(cur'[s], Goal(1) - 0) /\ 0 <= Goal(1)
      BY <1>4, <3>1, <3>2
    <3>4. QED
      BY <1>1, <1>3, <1>5, <2>1, <3>3, StandsAgain
  <2>2. CASE t # s
    <3>1. next'[t] = next[t] /\ cur'[t] = cur[t] /\ next[t] # 0
      BY <1>3, <1>4, <1>6, <2>2
    <3>2. 0 <= Goal(next[t]) /\ Stands(cur[t], Goal(next[t]) - 0)
      BY <1>5, <1>6, <3>1 DEF Reading, ReadersStand, StandsAtItem
    <3>3. QED
      BY <1>1, <1>5, <3>1, <3>2, StandsAgain
  <2>3. QED
    BY <2>1, <2>2
<1>7. ReadersStand'
  BY <1>1, <1>6 DEF ReadersStand, StandsAtItem
<1>8. Threw'
  <2>1. SUFFICES ASSUME outcome = "threw" PROVE Threw'
    BY <1>1 DEF Threw
  <2>2. PICK t \in Reader : /\ next[t] > 1 /\ script[next[t] - 1].kind = "bytes"
                            /\ script[next[t] - 1].size = 0
    BY <2>1 DEF Reading, Threw
  <2>3. next'[t] = next[t]
    BY <1>1, <1>3, <2>2
  <2>4. QED
    BY <1>2, <2>2, <2>3 DEF Threw
<1>9. QED
  BY <1>1, <1>2, <1>3, <1>4, <1>7, <1>8 DEF Reading, Loops, Handed

\* A clone stands where its stream does.
LEMMA CloneKeeps ==
    ASSUME Handed, Reading, NEW s \in Reader, NEW u \in Reader, Clone(s, u)
    PROVE  Reading'
<1>1. /\ UNCHANGED writer /\ loop = NoOp /\ loop' = NoOp
      /\ outcome = "ok" /\ outcome' = "ok"
      /\ next[s] # 0 /\ next' = [next EXCEPT ![u] = next[s]]
      /\ cur' = [cur EXCEPT ![u] = cur[s]]
  BY DEF Clone, R!GetCurrentBuffer, R!Put, R!NoOp, NoOp
<1>2. /\ script' = script /\ phase' = phase
      /\ next \in [Reader -> 0 .. Len(script) + 1]
      /\ cur = [t \in Reader |-> cur[t]]
  BY <1>1, SameBuffer DEF Reading
<1>3. /\ next' \in [Reader -> 0 .. Len(script) + 1] /\ next'[u] = next[s]
      /\ \A t \in Reader \ {u} : next'[t] = next[t]
  BY <1>1, <1>2
<1>4. /\ cur' = [t \in Reader |-> cur'[t]] /\ cur'[u] = cur[s]
      /\ \A t \in Reader \ {u} : cur'[t] = cur[t]
  BY <1>1, <1>2, ExceptFacts
<1>5. \A t : LeftOf(t) = 0 /\ LeftOf(t)' = 0
  BY <1>1 DEF LeftOf
<1>6. ASSUME NEW t \in Reader, next'[t] # 0
      PROVE  StandsAtItem(t)'
  <2>1. PICK v \in Reader : next'[t] = next[v] /\ cur'[t] = cur[v] /\ next[v] # 0
    BY <1>3, <1>4, <1>6
  <2>2. 0 <= Goal(next[v]) /\ Stands(cur[v], Goal(next[v]) - 0)
    BY <1>1, <1>5, <2>1 DEF Reading, ReadersStand, StandsAtItem
  <2>3. QED
    BY <1>1, <1>5, <2>1, <2>2, StandsAgain
<1>7. ReadersStand'
  BY <1>6 DEF ReadersStand, StandsAtItem
<1>8. QED
  BY <1>1, <1>2, <1>3, <1>4, <1>7 DEF Reading, Loops, Threw, Handed

\* Between two reads, a stream is where its next item begins.
LEMMA BeforeRead ==
    ASSUME Handed, Reading, NEW s \in Reader, NEW k \in DOMAIN script,
           next[s] = k, Reads(s)
    PROVE  /\ loop = NoOp /\ outcome = "ok" /\ UNCHANGED writer
           /\ next' = [next EXCEPT ![s] = @ + 1]
           /\ Goal(k) \in Nat /\ script[k].size \in Nat
           /\ Goal(k + 1) = Goal(k) + script[k].size
           /\ Stands(cur[s], Goal(k))
<1>1. /\ loop = NoOp /\ outcome = "ok" /\ UNCHANGED writer
      /\ next' = [next EXCEPT ![s] = @ + 1]
  BY DEF Reads
<1>2. PICK g \in Nat, n \in Nat :
          g = Goal(k) /\ n = script[k].size /\ Goal(k + 1) = g + n
  BY Goals, ItemFacts DEF Handed
<1>3. LeftOf(s) = 0
  BY <1>1 DEF LeftOf
<1>4. k # 0
  BY ItemFacts DEF Handed
<1>5. Stands(cur[s], g - 0)
  BY <1>1, <1>2, <1>3, <1>4 DEF Reading, ReadersStand, StandsAtItem
<1>6. QED
  BY <1>1, <1>2, <1>5

\* What is read from one blob was written to one.
LEMMA SingleKeeps ==
    ASSUME Handed, Reading, NEW s \in Reader, NEW k \in DOMAIN script,
           next[s] = k, Reads(s), script[k].kind # "variable",
           script[k].size = 0 => script[k].kind = "bytes",
           R!ReadSingle(s, script[k].size)
    PROVE  Reading'
<1>1. /\ loop = NoOp /\ outcome = "ok" /\ UNCHANGED writer
      /\ next' = [next EXCEPT ![s] = @ + 1]
  BY BeforeRead
<1>2. PICK g \in Nat, n \in Nat :
          /\ g = Goal(k) /\ n = script[k].size /\ Goal(k + 1) = g + n
          /\ Stands(cur[s], g)
  BY BeforeRead
<1>3. CASE R!Fits(cur[s], n)
  <2>1. /\ cur' = [cur EXCEPT ![s] = R!Advance(cur[s], n)]
        /\ outcome' = "ok" /\ loop' = NoOp
    BY <1>1, <1>2, <1>3 DEF R!ReadSingle
  <2>2. Stands(R!Advance(cur[s], n), Goal(k + 1))
    BY <1>2, <1>3, AdvanceStands
  <2>3. QED
    BY <1>1, <2>1, <2>2, EndOfRead
<1>4. CASE ~R!Fits(cur[s], n)
  <2>1. n = 0
    <3>1. SUFFICES ASSUME n # 0 PROVE FALSE
      OBVIOUS
    <3>2. WholeItem(k) /\ phase = "moved"
      BY DEF Handed, Writes, Whole
    <3>3. InOneBlob(script[k].from, EndOf(k))
      BY <1>2, <3>1, <3>2 DEF WholeItem
    <3>4. script[k].from = g /\ EndOf(k) = g + n
      BY <1>2, Goals
    <3>5. InOneBlob(g, g + n)
      BY <3>3, <3>4
    <3>6. QED
      BY <1>2, <1>4, <3>1, <3>5, FitsInBlob
  <2>2. cur' = cur /\ outcome' = "threw" /\ loop' = NoOp
    BY <1>2, <1>4 DEF R!ReadSingle, R!Throw, R!NoOp, NoOp
  <2>3. QED
    BY <1>1, <1>2, <2>1, <2>2, FailedRead
<1>5. QED
  BY <1>3, <1>4

LEMMA MultipleKeeps ==
    ASSUME Handed, Reading, NEW s \in Reader, NEW k \in DOMAIN script,
           next[s] = k, Reads(s), R!ReadMultiple(s, script[k].size)
    PROVE  Reading'
<1>1. /\ loop = NoOp /\ outcome = "ok" /\ UNCHANGED writer
      /\ next' = [next EXCEPT ![s] = @ + 1]
  BY BeforeRead
<1>2. /\ cur' = cur /\ outcome' = "ok"
      /\ loop' = [kind |-> "multiple", stream |-> s, size |-> script[k].size,
                  left |-> script[k].size, before |-> cur[s]]
  BY <1>1 DEF R!ReadMultiple, R!Begin
<1>3. QED
  BY <1>1, <1>2, BeginOfRead

\* The bytes that the fast path asks for are as many as a number can have.
LEMMA VariableKeeps ==
    ASSUME Handed, Reading, NEW s \in Reader, NEW k \in DOMAIN script,
           next[s] = k, Reads(s), script[k].kind = "variable",
           R!ReadVariable(s, script[k].size)
    PROVE  Reading'
<1>1. /\ loop = NoOp /\ outcome = "ok" /\ UNCHANGED writer
      /\ next' = [next EXCEPT ![s] = @ + 1]
  BY BeforeRead
<1>2. PICK g \in Nat, n \in Nat :
          /\ g = Goal(k) /\ n = script[k].size /\ Goal(k + 1) = g + n
          /\ Stands(cur[s], g)
  BY BeforeRead
<1>3. CASE cur[s].ptr + FastPath < cur[s].ptrEnd
  <2>1. /\ cur' = [cur EXCEPT ![s] = R!Advance(cur[s], n)]
        /\ outcome' = "ok" /\ loop' = NoOp
    BY <1>1, <1>2, <1>3 DEF R!ReadVariable
  <2>2. n \in 1 .. FastPath + 1
    BY <1>2 DEF Handed, Writes, Follow
  <2>3. g < Len(log)
    BY <1>2, <2>2, Goals, HandedFacts, Sizes
  <2>4. /\ cur[s].ptr \in Nat /\ cur[s].ptrEnd \in Nat
        /\ \A m \in Nat : m <= cur[s].ptrEnd - cur[s].ptr => R!Fits(cur[s], m)
    BY <1>2, <2>3, RestOfBlob
  <2>5. n <= cur[s].ptrEnd - cur[s].ptr
    BY <1>3, <2>2, <2>4, Sizes
  <2>6. R!Fits(cur[s], n)
    BY <2>4, <2>5
  <2>7. Stands(R!Advance(cur[s], n), Goal(k + 1))
    BY <1>2, <2>6, AdvanceStands
  <2>8. QED
    BY <1>1, <2>1, <2>7, EndOfRead
<1>4. CASE ~(cur[s].ptr + FastPath < cur[s].ptrEnd)
  <2>1. /\ cur' = cur /\ outcome' = "ok"
        /\ loop' = [kind |-> "variable", stream |-> s, size |-> n,
                    left |-> n, before |-> cur[s]]
    BY <1>1, <1>2, <1>4 DEF R!ReadVariable, R!Begin
  <2>2. QED
    BY <1>1, <1>2, <2>1, BeginOfRead
<1>5. QED
  BY <1>3, <1>4

\* Bond does not ask for the bytes of a string that has none.
LEMMA EmptyKeeps ==
    ASSUME Handed, Reading, NEW s \in Reader, NEW k \in DOMAIN script,
           next[s] = k, Reads(s), script[k].size = 0,
           UNCHANGED <<cur, loop, outcome>>
    PROVE  Reading'
<1>1. /\ loop = NoOp /\ outcome = "ok" /\ UNCHANGED writer
      /\ next' = [next EXCEPT ![s] = @ + 1]
      /\ loop' = NoOp /\ outcome' = "ok"
  BY BeforeRead
<1>2. Stands(cur[s], Goal(k + 1))
  <2>1. PICK g \in Nat : g = Goal(k) /\ Goal(k + 1) = g + 0 /\ Stands(cur[s], g)
    BY BeforeRead
  <2>2. QED
    BY <2>1
<1>3. cur' = [cur EXCEPT ![s] = cur[s]]
  <2>1. cur = [t \in Reader |-> cur[t]]
    BY DEF Reading
  <2>2. DOMAIN cur = Reader
    BY <2>1
  <2>3. [cur EXCEPT ![s] = cur[s]] = [t \in Reader |-> cur[t]]
    BY <2>2
  <2>4. QED
    BY <2>1, <2>3
<1>4. QED
  BY <1>1, <1>2, <1>3, EndOfRead

\* In a loop, what is left is the bytes up to where the item ends.
LEMMA LoopStands ==
    ASSUME Handed, Reading, loop # NoOp
    PROVE  \E s \in Reader, p, l \in Nat :
                /\ s = loop.stream /\ l = loop.left
                /\ Stands(cur[s], p) /\ (l # 0 => p < Len(log))
<1>1. PICK s \in Reader : s = loop.stream /\ next[s] # 0 /\ outcome = "ok"
  BY DEF Reading, Loops
<1>2. PICK l \in Nat : l = loop.left
  BY DEF Reading, Loops
<1>3. LeftOf(s) = l
  BY <1>1, <1>2 DEF LeftOf
<1>4. next[s] \in 1 .. Len(script) + 1
  BY <1>1, ItemFacts DEF Reading, Handed
<1>5. PICK g \in Nat, e \in Nat : g = Goal(next[s]) /\ e = Len(log) /\ g <= e
  BY <1>4, GoalFacts
<1>6. l <= g /\ Stands(cur[s], g - l)
  BY <1>1, <1>3, <1>5 DEF Reading, ReadersStand, StandsAtItem
<1>7. g - l \in Nat /\ (l # 0 => g - l < e)
  BY <1>5, <1>6
<1>8. QED
  BY <1>1, <1>2, <1>5, <1>6, <1>7

\* A loop always finds bytes in a blob, and so it never has to roll back.
LEMMA LoopKeeps ==
    ASSUME Handed, Reading, ReadOn
    PROVE  Reading'
<1>1. UNCHANGED writer /\ next' = next
  BY DEF ReadOn
<1>2. loop # NoOp
  BY DEF ReadOn, R!Iterate, R!RollBack, R!NextByte, R!Return, R!NoOp, NoOp
<1>3. PICK s \in Reader, p \in Nat, l \in Nat :
          /\ s = loop.stream /\ l = loop.left
          /\ Stands(cur[s], p) /\ (l # 0 => p < Len(log))
  BY <1>2, LoopStands
<1>4. ASSUME l # 0
      PROVE  /\ R!Fits(cur[s], 1)
             /\ R!Fits(cur[s], R!Chunk(cur[s]))
             /\ R!Chunk(cur[s]) \in Nat /\ R!Chunk(cur[s]) <= l
  <2>1. PICK a \in Nat, b \in Nat :
            /\ a = cur[s].ptr /\ b = cur[s].ptrEnd /\ a < b
            /\ \A n \in Nat : n <= b - a => R!Fits(cur[s], n)
    BY <1>3, <1>4, RestOfBlob
  <2>2. R!Chunk(cur[s]) = IF b - a < l THEN b - a ELSE l
    BY <1>3, <2>1 DEF R!Chunk
  <2>3. /\ R!Chunk(cur[s]) \in Nat
        /\ R!Chunk(cur[s]) <= l
        /\ R!Chunk(cur[s]) <= b - a
    BY <2>1, <2>2
  <2>4. 1 <= b - a
    BY <2>1
  <2>5. QED
    BY <2>1, <2>3, <2>4
<1>5. CASE R!Iterate
  <2>1. PICK n \in Nat :
            /\ n <= l /\ R!Fits(cur[s], n)
            /\ cur' = [cur EXCEPT ![s] = R!Advance(@, n)]
            /\ loop' = [loop EXCEPT !.left = @ - n] /\ outcome' = outcome
    BY <1>3, <1>4, <1>5 DEF R!Iterate, R!Step
  <2>2. QED
    BY <1>1, <1>2, <1>3, <2>1, StepOfRead
<1>6. CASE R!RollBack
  BY <1>3, <1>4, <1>6 DEF R!RollBack
<1>7. CASE R!NextByte
  <2>1. /\ l # 0
        /\ cur' = [cur EXCEPT ![s] = R!Advance(@, 1)]
        /\ loop' = [loop EXCEPT !.left = @ - 1] /\ outcome' = outcome
    BY <1>3, <1>4, <1>7 DEF R!NextByte, R!Step
  <2>2. 1 \in Nat /\ 1 <= l /\ R!Fits(cur[s], 1)
    BY <1>3, <1>4, <2>1
  <2>3. QED
    BY <1>1, <1>2, <1>3, <2>1, <2>2, StepOfRead
<1>8. CASE R!Return
  <2>1. loop.left = 0 /\ loop' = NoOp /\ outcome' = "ok" /\ cur' = cur
    BY <1>8 DEF R!Return, R!NoOp, NoOp
  <2>2. QED
    BY <1>1, <1>2, <2>1, LoopReturns
<1>9. QED
  BY <1>5, <1>6, <1>7, <1>8 DEF ReadOn

\* What each read does, by the kind of the item.
LEMMA ReadKeeps ==
    ASSUME Handed, Reading, NEW s \in Reader, ReadsOf(s)
    PROVE  Reading'
<1>1. CASE OpenStream(s)
  BY <1>1, OpenKeeps
<1>2. ASSUME NEW u \in Reader, Clone(s, u)
      PROVE  Reading'
  BY <1>2, CloneKeeps
<1>3. CASE ReadNumber(s)
  <2>1. PICK k \in DOMAIN script : k = next[s] /\ script[k].kind = "number"
    BY <1>3 DEF ReadNumber, At
  <2>2. Reads(s) /\ R!ReadSingle(s, script[k].size)
    BY <1>3, <2>1 DEF ReadNumber, InteropRead, Size
  <2>3. script[k].size # 0
    BY <2>1 DEF Handed, Writes, Follow
  <2>4. QED
    BY <2>1, <2>2, <2>3, SingleKeeps
<1>4. CASE ReadVarUInt(s)
  <2>1. PICK k \in DOMAIN script : k = next[s] /\ script[k].kind = "variable"
    BY <1>4 DEF ReadVarUInt, At
  <2>2. Reads(s) /\ R!ReadVariable(s, script[k].size)
    BY <1>4, <2>1 DEF ReadVarUInt, InteropRead, Size
  <2>3. QED
    BY <2>1, <2>2, VariableKeeps
<1>5. CASE ReadString(s)
  <2>1. PICK k \in DOMAIN script : k = next[s] /\ script[k].kind = "string"
    BY <1>5 DEF ReadString, At
  <2>2. /\ Reads(s)
        /\ \/ script[k].size = 0 /\ UNCHANGED <<cur, loop, outcome>>
           \/ script[k].size # 0 /\ R!ReadSingle(s, script[k].size)
           \/ script[k].size # 0 /\ R!ReadMultiple(s, script[k].size)
    BY <1>5, <2>1 DEF ReadString, InteropRead, Size
  <2>3. QED
    BY <2>1, <2>2, EmptyKeeps, SingleKeeps, MultipleKeeps
<1>6. CASE ReadBytes(s)
  <2>1. PICK k \in DOMAIN script : k = next[s] /\ script[k].kind = "bytes"
    BY <1>6 DEF ReadBytes, At
  <2>2. /\ Reads(s)
        /\ \/ /\ script[k].size = 0
              /\ loop' = NoOp /\ outcome' = "threw" /\ cur' = cur
           \/ R!ReadMultiple(s, script[k].size)
    BY <1>6, <2>1 DEF ReadBytes, InteropRead, Size, R!Throw, R!NoOp, NoOp
  <2>3. CASE script[k].size = 0 /\ loop' = NoOp /\ outcome' = "threw" /\ cur' = cur
    BY <2>1, <2>2, <2>3, BeforeRead, FailedRead
  <2>4. QED
    BY <2>1, <2>2, <2>3, MultipleKeeps
<1>7. CASE ReadBondBlob(s)
  <2>1. PICK k \in DOMAIN script : k = next[s] /\ script[k].kind = "bytes"
    BY <1>7 DEF ReadBondBlob, At
  <2>2. Reads(s) /\ R!ReadSingle(s, script[k].size)
    BY <1>7, <2>1 DEF ReadBondBlob, InteropRead, Size
  <2>3. QED
    BY <2>1, <2>2, SingleKeeps
<1>8. CASE SkipBytes(s)
  <2>1. PICK k \in DOMAIN script : k = next[s]
    BY <1>8 DEF SkipBytes
  <2>2. Reads(s) /\ R!ReadMultiple(s, script[k].size)
    BY <1>8, <2>1 DEF SkipBytes, InteropRead, Size
  <2>3. QED
    BY <2>1, <2>2, MultipleKeeps
<1>9. QED
  BY <1>1, <1>2, <1>3, <1>4, <1>5, <1>6, <1>7, <1>8 DEF ReadsOf

-----------------------------------------------------------------------------
(* Theorems.                                                               *)

WritesOf ==
    \/ \E n \in 0 .. Bytes : WriteNumber(n) \/ WriteString(n) \/ WriteBytes(n)
    \/ \E n \in 1 .. FastPath + 1 : WriteVarUInt(n)
    \/ \E b \in 1 .. SourceBlobs : \E from \in 0 .. BlobSize(b) :
        \E to \in from .. BlobSize(b) : WriteBondBlob(b, from, to)
    \/ Proceed
    \/ ManagedGetBuffer

\* Nothing is read while it is written, nor written once it may be read.
LEMMA WritesAlone ==
    ASSUME Writes, WritesOf
    PROVE  phase # "moved" /\ UNCHANGED reading
<1>1. phase = "moved" => op = NoOp
  BY DEF Writes, Pending
<1>2. ASSUME NEW n, WriteNumber(n) \/ WriteString(n) \/ WriteBytes(n) \/ WriteVarUInt(n)
      PROVE  phase # "moved" /\ UNCHANGED reading
  BY <1>2 DEF WriteNumber, WriteString, WriteBytes, WriteVarUInt, InteropWrite,
     Write, WriteVariable, Ready, Item
<1>3. ASSUME NEW b, NEW from, NEW to, WriteBondBlob(b, from, to)
      PROVE  phase # "moved" /\ UNCHANGED reading
  BY <1>3 DEF WriteBondBlob, WriteBlob, Begin, Ready, Item
<1>4. CASE Proceed
  <2>1. UNCHANGED reading
    BY <1>4 DEF Proceed
  <2>2. phase # "moved"
    BY <1>1, <1>4
       DEF Proceed, NextByte, NextPiece, Return, Flush, Ready, NoOp
  <2>3. QED
    BY <2>1, <2>2
<1>5. CASE ManagedGetBuffer
  BY <1>5 DEF ManagedGetBuffer, GetBuffer, Ready
<1>6. QED
  BY <1>2, <1>3, <1>4, <1>5 DEF WritesOf

\* What nobody reads is in order.
LEMMA NotYetRead ==
    ASSUME Reading, phase # "moved", Writes', UNCHANGED reading
    PROVE  Reading'
<1>1. /\ loop' = NoOp /\ outcome' = "ok" /\ cur' = cur /\ next' = next
      /\ \A s \in Reader : next[s] = 0
      /\ next \in [Reader -> 0 .. Len(script) + 1]
      /\ cur = [s \in Reader |-> cur[s]]
  BY DEF Reading, reading
<1>2. Len(script') \in Nat
  BY LenProperties DEF Writes, Follow, Scripts
<1>3. next' \in [Reader -> 0 .. Len(script') + 1]
  BY <1>1, <1>2
<1>4. ReadersStand' /\ Loops' /\ Threw'
  BY <1>1 DEF ReadersStand, StandsAtItem, Loops, Threw
<1>5. QED
  BY <1>1, <1>3, <1>4 DEF Reading

LEMMA ReadingUnchanged ==
    ASSUME Reading, UNCHANGED <<writer, reading>>
    PROVE  Reading'
<1>1. /\ UNCHANGED writer
      /\ cur' = cur /\ loop' = loop /\ outcome' = outcome /\ next' = next
  BY DEF reading
<1>2. script' = script /\ phase' = phase
  BY <1>1, SameBuffer
<1>3. \A t : LeftOf(t)' = LeftOf(t)
  BY <1>1 DEF LeftOf
<1>4. ASSUME NEW t \in Reader, next'[t] # 0, outcome = "ok"
      PROVE  StandsAtItem(t)'
  <2>1. LeftOf(t) <= Goal(next[t]) /\ Stands(cur[t], Goal(next[t]) - LeftOf(t))
    BY <1>1, <1>4 DEF Reading, ReadersStand, StandsAtItem
  <2>2. QED
    BY <1>1, <1>3, <2>1, StandsAgain
<1>5. ReadersStand'
  BY <1>1, <1>4 DEF ReadersStand, StandsAtItem
<1>6. QED
  BY <1>1, <1>2, <1>5 DEF Reading, Loops, Threw

LEMMA ReadingStays ==
    ASSUME IndInv, Holds, Writes, Writes', Reading, [MSNext]_<<writer, reading>>
    PROVE  Reading'
<1>1. CASE UNCHANGED <<writer, reading>>
  BY <1>1, ReadingUnchanged
<1>2. CASE WritesOf
  BY <1>2, WritesAlone, NotYetRead
<1>3. ASSUME NEW s \in Reader, ReadsOf(s)
      PROVE  Reading'
  <2>1. phase = "moved"
    <3>1. SUFFICES ASSUME phase # "moved" PROVE FALSE
      OBVIOUS
    <3>2. next[s] = 0 /\ next[s] \notin DOMAIN script
      BY <3>1, ItemFacts DEF Reading
    <3>3. QED
      BY <1>3, <3>1, <3>2 DEF ReadsOf, OpenStream, Clone, ReadNumber,
         ReadVarUInt, ReadString, ReadBytes, ReadBondBlob, SkipBytes, At
  <2>2. QED
    BY <1>3, <2>1, ReadKeeps DEF Handed
<1>4. CASE ReadOn
  <2>1. loop # NoOp
    BY <1>4 DEF ReadOn, R!Iterate, R!RollBack, R!NextByte, R!Return, R!NoOp, NoOp
  <2>2. phase = "moved"
    BY <2>1 DEF Reading
  <2>3. QED
    BY <1>4, <2>2, LoopKeeps DEF Handed
<1>5. QED
  BY <1>1, <1>2, <1>3, <1>4 DEF MSNext, WritesOf, ReadsOf

LEMMA InitReading == MSInit => Reading
<1>1. SUFFICES ASSUME MSInit PROVE Reading
  OBVIOUS
<1>2. /\ phase = "open" /\ script = <<>> /\ loop = NoOp /\ outcome = "ok"
      /\ cur = [s \in Reader |-> R!Nothing] /\ next = [s \in Reader |-> 0]
  BY <1>1 DEF MSInit, Init
<1>3. Len(script) = 0
  BY <1>2
<1>4. next \in [Reader -> 0 .. Len(script) + 1] /\ \A s \in Reader : next[s] = 0
  BY <1>2, <1>3
<1>5. cur = [s \in Reader |-> cur[s]]
  BY <1>2
<1>6. Loops /\ Threw /\ ReadersStand
  BY <1>2, <1>4 DEF Loops, Threw, ReadersStand, StandsAtItem
<1>7. QED
  BY <1>2, <1>4, <1>5, <1>6 DEF Reading

\* Through its wrappers, in either language, an OutputBuffer is written as
\* its own specification allows (Interop/Src/detail/Interop/OutputBuffer.cpp,
\* Managed/Src/OutputStream.cpp), and so all that is proved about it holds.
THEOREM WriterIsOutputBuffer == MSSpec => Spec
<1>1. MSInit => Init
  BY DEF MSInit
<1>2. [MSNext]_<<writer, reading>> => [Next]_vars
  BY WriterSteps
<1>3. QED
  BY <1>1, <1>2, PTL DEF MSSpec, Spec

\* In every reachable state the items lie in the buffer, and the streams
\* stand between items or in the middle of one.
THEOREM StreamsInvariance == MSSpec => []MSInv
<1>1. MSInit => MSInv
  BY InitEstablishes, InitHolds, InitWrites, InitReading DEF MSInit, MSInv
<1>2. MSInv /\ [MSNext]_<<writer, reading>> => MSInv'
  <2>1. SUFFICES ASSUME MSInv, [MSNext]_<<writer, reading>> PROVE MSInv'
    OBVIOUS
  <2>2. IndInv /\ Holds /\ Writes /\ Reading
    BY <2>1 DEF MSInv
  <2>3. [Next]_vars
    BY <2>1, WriterSteps
  <2>4. IndInv' /\ Holds'
    BY <2>2, <2>3, NextKeeps, NextHolds
  <2>5. Writes'
    BY <2>1, <2>2, ItemsStay
  <2>6. Reading'
    BY <2>1, <2>2, <2>5, ReadingStays
  <2>7. QED
    BY <2>4, <2>5, <2>6 DEF MSInv
<1>3. QED
  BY <1>1, <1>2, PTL DEF MSSpec

\* A stream that is not in a read is where its next item begins.
LEMMA DoneStands ==
    ASSUME MSInv, NEW s \in Reader, Done(s)
    PROVE  /\ Handed /\ next[s] \in 1 .. Len(script) + 1
           /\ Goal(next[s]) \in Nat /\ Stands(cur[s], Goal(next[s]))
<1>1. next[s] # 0 /\ loop = NoOp /\ outcome = "ok"
  BY DEF Done
<1>2. Handed
  BY <1>1 DEF MSInv, Reading, Handed
<1>3. next[s] \in 1 .. Len(script) + 1
  BY <1>1, <1>2, ItemFacts DEF MSInv, Reading, Handed
<1>4. PICK g \in Nat : g = Goal(next[s])
  BY <1>2, <1>3, GoalFacts
<1>5. LeftOf(s) = 0
  BY <1>1 DEF LeftOf
<1>6. Stands(cur[s], g - 0)
  BY <1>1, <1>4, <1>5 DEF MSInv, Reading, ReadersStand, StandsAtItem
<1>7. QED
  BY <1>2, <1>3, <1>4, <1>6

\* Every item is read from where it was written, whichever language wrote it
\* and whichever reads it, and no read fails but one of an array without bytes
\* (InputBuffer.h:32, Managed/Src/InputStream.cpp:115).
THEOREM ItemsAreRead == MSSpec => []ReadsItems
<1>1. MSInv => ReadsItems
  <2>1. SUFFICES ASSUME MSInv PROVE ReadsItems
    OBVIOUS
  <2>2. ASSUME NEW s \in Reader, Done(s)
        PROVE  R!PosOf(cur[s]) = Goal(next[s])
    BY <2>1, <2>2, DoneStands, StandsPos
  <2>3. Threw
    BY <2>1 DEF MSInv, Reading
  <2>4. QED
    BY <2>2, <2>3 DEF ReadsItems, Threw
<1>2. QED
  BY <1>1, StreamsInvariance, PTL

\* Streams at the same item are in the same state, by whatever reads, skips
\* and clones they came there, and behind the last item they are at their end
\* (InputBuffer.h:138-160).
THEOREM CursorsAgree == MSSpec => []SameCursor
<1>1. MSInv => SameCursor
  <2>1. SUFFICES ASSUME MSInv, NEW s \in Reader, NEW t \in Reader
                 PROVE  /\ Done(s) /\ Done(t) /\ next[s] = next[t] => cur[s] = cur[t]
                        /\ Done(s) /\ next[s] > Len(script) => cur[s].isEof
    BY DEF SameCursor
  <2>2. ASSUME Done(s), Done(t), next[s] = next[t]
        PROVE  cur[s] = cur[t]
    <3>1. PICK g \in Nat : g = Goal(next[s]) /\ Stands(cur[s], g) /\ Handed
      BY <2>1, <2>2, DoneStands
    <3>2. Stands(cur[t], g)
      BY <2>1, <2>2, <3>1, DoneStands
    <3>3. QED
      BY <3>1, <3>2, StandsUnique
  <2>3. ASSUME Done(s), next[s] > Len(script)
        PROVE  cur[s].isEof
    <3>1. /\ Handed
          /\ Stands(cur[s], Goal(next[s]))
          /\ next[s] \in 1 .. Len(script) + 1
      BY <2>1, <2>3, DoneStands
    <3>2. next[s] \notin DOMAIN script
      BY <2>3, <3>1, ItemFacts DEF Handed
    <3>3. Goal(next[s]) = Len(log)
      BY <3>2 DEF Goal
    <3>4. QED
      BY <3>1, <3>3, StandsPos
  <2>4. QED
    BY <2>2, <2>3
<1>2. QED
  BY <1>1, StreamsInvariance, PTL
=============================================================================
