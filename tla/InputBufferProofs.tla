------------------------- MODULE InputBufferProofs -------------------------
(***************************************************************************)
(* Proofs that a stream over any layout of any number of blobs stays in    *)
(* the bytes that it may deliver, and that a read that fails restores it.  *)
(***************************************************************************)
EXTENDS InputBuffer, TLAPS, WellFoundedInduction

\* The blobs follow each other without gaps.
Layout ==
    /\ start \in [1 .. Blobs + 1 -> 0 .. Bytes]
    /\ start[1] = 0
    /\ \A b \in 1 .. Blobs : start[b] <= start[b + 1]

\* Where a stream ends: between two blobs, or inside the blob before e.
EndOK(e, last) ==
    /\ e \in Iterator /\ last \in Nat
    /\ last # 0 => e > 1 /\ start[e - 1] + last <= start[e]

\* What the members of a stream have to do with each other.
CursorOK(c) ==
    /\ c \in Cursor
    /\ EndOK(c.blobEnd, c.lastOffset)
    /\ c.blob <= c.blobEnd
    /\ c.isEof <=> c.blob = c.blobEnd
    /\ c.isEof => c.ptr = c.ptrEnd
    /\ ~c.isEof =>
        /\ start[c.blob] <= c.ptr /\ c.ptr <= c.ptrEnd
        /\ start[c.blob] < c.ptrEnd
        /\ c.ptrEnd = IF c.lastOffset # 0 /\ c.blob + 1 = c.blobEnd
                      THEN start[c.blob] + c.lastOffset
                      ELSE start[c.blob + 1]
        /\ c.ptr < c.ptrEnd \/ c.blob + 1 = c.blobEnd

\* A loop has read what is no longer left, and knows where it began.
LoopOK ==
    op # NoOp =>
        /\ op \in Loop /\ op.left <= op.size
        /\ CursorOK(op.before)
        /\ cur[op.stream].blobEnd = op.before.blobEnd
        /\ cur[op.stream].lastOffset = op.before.lastOffset
        /\ PosOf(cur[op.stream]) = PosOf(op.before) + (op.size - op.left)

IndInv ==
    /\ Layout
    /\ cur \in [Stream -> Cursor]
    /\ \A s \in Stream : CursorOK(cur[s])
    /\ LoopOK
    /\ op \in Loop \cup {NoOp}
    /\ outcome \in {"ok", "threw"}

-----------------------------------------------------------------------------
(* The layout.                                                             *)

LEMMA StartInNat ==
    ASSUME Layout, NEW b \in Iterator
    PROVE  b \in Nat /\ start[b] \in Nat
BY Bounds DEF Layout, Iterator

LEMMA LeastElement ==
    ASSUME NEW S \in SUBSET Nat, S # {}
    PROVE  \E m \in S : \A k \in S : m <= k
<1>1. PICK m \in S : \A k \in S : ~ (<<k, m>> \in OpToRel(<, Nat))
  BY NatLessThanWellFounded, WFMin
<1>2. \A k \in S : ~ (k < m)
  BY <1>1 DEF OpToRel
<1>3. QED
  BY <1>2

LEMMA Monotone ==
    ASSUME Layout, NEW b \in Iterator, NEW c \in Iterator, b <= c
    PROVE  start[b] <= start[c]
<1> DEFINE S == {k \in b .. Blobs + 1 : start[k] < start[b]}
<1>1. SUFFICES ASSUME S # {} PROVE FALSE
  <2>1. start[b] \in Nat /\ start[c] \in Nat /\ c \in b .. Blobs + 1
    BY Bounds DEF Layout, Iterator
  <2>2. c \notin S => ~ (start[c] < start[b])
    BY <2>1
  <2>3. QED
    BY <2>1, <2>2
<1>2. S \in SUBSET Nat
  BY Bounds DEF Iterator
<1>3. PICK m \in S : \A k \in S : m <= k
  BY <1>1, <1>2, LeastElement
<1>4. m # b /\ m - 1 \in b .. Blobs + 1 /\ m - 1 \in 1 .. Blobs
  BY <1>3, Bounds DEF Layout, Iterator
<1>5. m - 1 \notin S
  BY <1>3, <1>4
<1>6. start[m - 1] <= start[m - 1 + 1]
  BY <1>4 DEF Layout
<1>7. start[m] \in Nat /\ start[m - 1] \in Nat /\ start[b] \in Nat
  BY <1>3, <1>4, Bounds DEF Layout, Iterator
<1>8. QED
  BY <1>3, <1>4, <1>5, <1>6, <1>7

\* FirstWithBytes skips empty blobs only, and not one too few.
LEMMA FirstFacts ==
    ASSUME Layout, NEW b \in Iterator, NEW e \in Iterator, b <= e
    PROVE  LET c == FirstWithBytes(b, e)
           IN  /\ c \in b .. e
               /\ c = e \/ Size(c) # 0
               /\ \A x \in b .. c - 1 : Size(x) = 0
               /\ start[c] = start[b]
<1> DEFINE c == FirstWithBytes(b, e)
           S == {k \in b .. e : k = e \/ Size(k) # 0}
<1>1. \E m \in b .. e : /\ m = e \/ Size(m) # 0
                        /\ \A x \in b .. m - 1 : Size(x) = 0
  <2>1. S \in SUBSET Nat /\ e \in S
    BY Bounds DEF Iterator
  <2>2. PICK m \in S : \A k \in S : m <= k
    BY <2>1, LeastElement
  <2>3. \A x \in b .. m - 1 : Size(x) = 0
    BY <2>2, Bounds DEF Iterator
  <2>4. QED
    BY <2>2, <2>3
<1>2. /\ c \in b .. e
      /\ c = e \/ Size(c) # 0
      /\ \A x \in b .. c - 1 : Size(x) = 0
  BY <1>1 DEF FirstWithBytes
<1>3. start[c] = start[b]
  <2> DEFINE T == {k \in b .. c : start[k] # start[b]}
  <2> HIDE DEF c
  <2>1. SUFFICES ASSUME T # {} PROVE FALSE
    BY <1>2, Bounds DEF Iterator
  <2>2. T \in SUBSET Nat
    BY <1>2, Bounds DEF Iterator
  <2>3. PICK m \in T : \A k \in T : m <= k
    BY <2>1, <2>2, LeastElement
  <2>4. m # b /\ m - 1 \in b .. c - 1 /\ m - 1 \notin T
    BY <2>3, <1>2, Bounds DEF Iterator
  <2>5. Size(m - 1) = 0 /\ start[m - 1] = start[b]
    BY <2>4, <1>2, Bounds DEF Iterator
  <2>6. start[m - 1 + 1] - start[m - 1] = 0
    BY <2>5 DEF Size
  <2>7. start[m] \in Nat /\ start[m - 1] \in Nat
    BY <2>3, <2>4, <1>2, Bounds DEF Layout, Iterator
  <2>8. QED
    BY <2>3, <2>4, <2>5, <2>6, <2>7, <1>2, Bounds DEF Iterator
<1>4. QED
  BY <1>2, <1>3

\* A stream that is put at blob b has all the bytes before it, and no other,
\* behind it.
LEMMA AtFacts ==
    ASSUME Layout, NEW b \in Iterator, NEW e, NEW last, EndOK(e, last), b <= e
    PROVE  LET c == At(b, e, last)
           IN  /\ CursorOK(c)
               /\ c.blobEnd = e /\ c.lastOffset = last
               /\ b # e => PosOf(c) = start[b]
               /\ b = e => PosOf(c) = LimitOf(c)
<1> DEFINE f == FirstWithBytes(b, e)
           c == At(b, e, last)
<1>1. /\ f \in b .. e
      /\ f = e \/ Size(f) # 0
      /\ \A x \in b .. f - 1 : Size(x) = 0
      /\ start[f] = start[b]
  BY FirstFacts DEF EndOK
<1>2. /\ b \in Nat /\ e \in Nat /\ last \in Nat /\ f \in Iterator
      /\ start[f] \in Nat /\ start[e] \in Nat
      /\ e > 1 => e - 1 \in 1 .. Blobs /\ start[e - 1] \in Nat
  <2>1. b \in Nat /\ e \in Iterator /\ last \in Nat /\ f \in Iterator
    BY <1>1, Bounds DEF Iterator, EndOK
  <2>2. QED
    BY <2>1, Bounds DEF Iterator, Layout
<1>3. /\ c.blob = f /\ c.blobEnd = e /\ c.lastOffset = last
      /\ c.isEof <=> f = e
      /\ f = e => c.ptr = 0 /\ c.ptrEnd = 0
      /\ f # e => /\ c.ptr = start[f]
                 /\ c.ptrEnd = IF last # 0 /\ f + 1 = e THEN start[f] + last
                               ELSE start[f + 1]
      /\ c.isEof \in BOOLEAN
  BY DEF At
<1>4. c = [blob |-> c.blob, blobEnd |-> c.blobEnd, ptr |-> c.ptr,
           ptrEnd |-> c.ptrEnd, isEof |-> c.isEof, lastOffset |-> c.lastOffset]
  BY DEF At
<1> HIDE DEF f, c
<1>5. CASE f = e
  <2>1. CursorOK(c)
    BY <1>2, <1>3, <1>4, <1>5 DEF CursorOK, Cursor, EndOK, Iterator
  <2>2. PosOf(c) = LimitOf(c)
    BY <1>3, <1>5 DEF PosOf
  <2>3. ASSUME b # e PROVE last = 0
    <3>1. e - 1 \in b .. f - 1 /\ e > 1
      BY <1>1, <1>2, <1>5, <2>3, Bounds DEF Iterator
    <3>2. Size(e - 1) = 0
      BY <1>1, <3>1
    <3>3. start[e - 1 + 1] - start[e - 1] = 0 /\ e - 1 + 1 = e
      BY <3>2, <1>2 DEF Size
    <3>4. QED
      BY <3>1, <3>3, <1>2 DEF EndOK
  <2>4. b # e => LimitOf(c) = start[b]
    BY <2>3, <1>1, <1>3, <1>5 DEF LimitOf
  <2>5. QED
    BY <2>1, <2>2, <2>4, <1>3 DEF f, c
<1>6. CASE f # e
  <2>1. f \in 1 .. Blobs /\ f + 1 \in Iterator /\ f < e /\ b # e
    BY <1>1, <1>2, <1>6, Bounds DEF Iterator, EndOK
  <2>2. start[f + 1] - start[f] # 0 /\ start[f] <= start[f + 1] /\ start[f + 1] \in Nat
    BY <1>1, <1>6, <2>1, Bounds DEF Size, Layout, Iterator
  <2>3. CursorOK(c)
    BY <1>2, <1>3, <1>4, <1>6, <2>1, <2>2, Bounds DEF CursorOK, Cursor, EndOK, Iterator
  <2>4. PosOf(c) = start[b]
    BY <1>1, <1>3, <1>6 DEF PosOf
  <2>5. QED
    BY <2>1, <2>3, <2>4, <1>3 DEF f, c
<1>7. QED
  BY <1>5, <1>6

\* The limit depends on where the stream ends only, and the stream is not
\* behind it.
LEMMA CursorFacts ==
    ASSUME Layout, NEW c, CursorOK(c)
    PROVE  /\ PosOf(c) \in Nat /\ LimitOf(c) \in Nat
           /\ PosOf(c) <= LimitOf(c)
           /\ ~c.isEof => c.ptrEnd <= start[c.blob + 1] /\ c.ptrEnd <= LimitOf(c)
<1>1. /\ c.blob \in Iterator /\ c.blobEnd \in Iterator /\ c.ptr \in Nat
      /\ c.ptrEnd \in Nat /\ c.lastOffset \in Nat
      /\ c.blob \in Nat /\ c.blobEnd \in Nat
  BY Bounds DEF CursorOK, Cursor, Iterator
<1>2. LimitOf(c) \in Nat
  <2>1. start[c.blobEnd] \in Nat
    BY <1>1, Bounds DEF Layout, Iterator
  <2>2. c.lastOffset # 0 => start[c.blobEnd - 1] \in Nat
    BY <1>1, Bounds DEF Layout, Iterator, CursorOK, EndOK
  <2>3. QED
    BY <1>1, <2>1, <2>2 DEF LimitOf
<1>3. CASE c.isEof
  BY <1>2, <1>3 DEF PosOf, CursorOK
<1>4. CASE ~c.isEof
  <2>1. c.blob < c.blobEnd /\ c.blob + 1 \in Iterator /\ c.blobEnd - 1 \in Iterator
    BY <1>1, <1>4, Bounds DEF CursorOK, Iterator
  <2>2. /\ start[c.blob] \in Nat /\ start[c.blob + 1] \in Nat
        /\ start[c.blobEnd] \in Nat /\ start[c.blobEnd - 1] \in Nat
    BY <1>1, <2>1, StartInNat
  <2>3. /\ start[c.blob + 1] <= start[c.blobEnd]
        /\ c.blob + 1 # c.blobEnd => start[c.blob + 1] <= start[c.blobEnd - 1]
    BY <1>1, <2>1, Monotone
  <2>4. c.lastOffset # 0 => start[c.blobEnd - 1] + c.lastOffset <= start[c.blobEnd]
    BY DEF CursorOK, EndOK
  <2>5. c.blob + 1 = c.blobEnd => c.blobEnd - 1 = c.blob
    BY <1>1
  <2>6. c.ptrEnd <= start[c.blob + 1] /\ c.ptrEnd <= LimitOf(c)
    BY <1>1, <1>4, <2>2, <2>3, <2>4, <2>5 DEF CursorOK, LimitOf
  <2>7. PosOf(c) = c.ptr /\ c.ptr <= c.ptrEnd
    BY <1>4 DEF CursorOK, PosOf
  <2>8. QED
    BY <1>1, <1>2, <2>6, <2>7
<1>5. QED
  BY <1>3, <1>4

-----------------------------------------------------------------------------
(* Moving a stream.                                                        *)

\* EndRead moves the position by what was read and leaves the end alone,
\* whether or not the end of a blob is reached.
LEMMA AdvanceFacts ==
    ASSUME Layout, NEW c, CursorOK(c), NEW n \in Nat, Fits(c, n)
    PROVE  LET d == Advance(c, n)
           IN  /\ CursorOK(d)
               /\ d.blobEnd = c.blobEnd /\ d.lastOffset = c.lastOffset
               /\ PosOf(d) = PosOf(c) + n
<1>1. /\ c.blob \in Iterator /\ c.blobEnd \in Iterator /\ c.ptr \in Nat
      /\ c.ptrEnd \in Nat /\ c.lastOffset \in Nat
      /\ c.blob \in Nat /\ c.blobEnd \in Nat
  BY Bounds DEF CursorOK, Cursor, Iterator
<1>2. c.blob < c.blobEnd /\ c.blob + 1 \in Iterator /\ ~c.isEof
      /\ c.ptr + n <= c.ptrEnd /\ PosOf(c) = c.ptr
  BY <1>1, Bounds DEF CursorOK, Iterator, Fits, PosOf
<1>3. CASE c.ptr + n # c.ptrEnd
  <2> DEFINE d == [c EXCEPT !.ptr = @ + n]
  <2>1. Advance(c, n) = d
    BY <1>3 DEF Advance
  <2>2. /\ d \in Cursor /\ d.blob = c.blob /\ d.blobEnd = c.blobEnd
        /\ d.ptr = c.ptr + n /\ d.ptrEnd = c.ptrEnd
        /\ d.isEof = c.isEof /\ d.lastOffset = c.lastOffset
    BY <1>1 DEF CursorOK, Cursor
  <2> HIDE DEF d
  <2>3. start[c.blob] \in Nat
    BY <1>1, StartInNat
  <2>4. CursorOK(d)
    BY <1>1, <1>2, <1>3, <2>2, <2>3 DEF CursorOK
  <2>5. PosOf(d) = PosOf(c) + n
    BY <1>1, <1>2, <2>2 DEF PosOf
  <2>6. QED
    BY <2>1, <2>2, <2>4, <2>5
<1>4. CASE c.ptr + n = c.ptrEnd
  <2> DEFINE d == At(c.blob + 1, c.blobEnd, c.lastOffset)
  <2>1. Advance(c, n) = d
    BY <1>4 DEF Advance
  <2>2. /\ CursorOK(d)
        /\ d.blobEnd = c.blobEnd /\ d.lastOffset = c.lastOffset
        /\ c.blob + 1 # c.blobEnd => PosOf(d) = start[c.blob + 1]
        /\ c.blob + 1 = c.blobEnd => PosOf(d) = LimitOf(d)
    BY <1>1, <1>2, AtFacts DEF CursorOK
  <2> HIDE DEF d
  <2>3. c.blob + 1 = c.blobEnd => c.blobEnd - 1 = c.blob
    BY <1>1
  <2>4. PosOf(d) = c.ptrEnd
    BY <1>2, <2>2, <2>3 DEF CursorOK, LimitOf
  <2>5. QED
    BY <1>2, <1>4, <2>1, <2>2, <2>4
<1>5. QED
  BY <1>3, <1>4

\* What Range has to say of two streams over the same bytes.
LEMMA RangeBounds ==
    ASSUME Layout, NEW b, NEW e, CursorOK(b), CursorOK(e),
           b.blobEnd = e.blobEnd, b.lastOffset = e.lastOffset,
           PosOf(b) <= PosOf(e), e.isEof \/ ~b.isEof
    PROVE  LET last == Offset(e)
               end  == IF last # 0 THEN e.blob + 1 ELSE e.blob
           IN  /\ last \in Nat /\ Offset(b) \in Nat
               /\ end \in Iterator /\ end \in Nat
               /\ b.blob <= e.blob /\ b.blob <= end /\ EndOK(end, last)
<1> DEFINE first == Offset(b)
           last  == Offset(e)
           end   == IF last # 0 THEN e.blob + 1 ELSE e.blob
<1>1. /\ b.blob \in Iterator /\ b.blobEnd \in Iterator /\ b.ptr \in Nat
      /\ b.ptrEnd \in Nat /\ b.blob \in Nat /\ start[b.blob] \in Nat
      /\ e.blob \in Iterator /\ e.blobEnd \in Iterator /\ e.ptr \in Nat
      /\ e.ptrEnd \in Nat /\ e.blob \in Nat /\ start[e.blob] \in Nat
      /\ e.blobEnd \in Nat
  BY StartInNat DEF CursorOK, Cursor
<1>2. /\ b.isEof => first = 0 /\ b.blob = e.blobEnd /\ PosOf(b) = LimitOf(b)
      /\ ~b.isEof => /\ first = b.ptr - start[b.blob] /\ first \in Nat
                     /\ PosOf(b) = b.ptr /\ b.blob < e.blobEnd
                     /\ b.blob + 1 \in Iterator /\ b.ptrEnd <= start[b.blob + 1]
  BY <1>1, CursorFacts, Bounds DEF CursorOK, Offset, PosOf, Iterator
<1>3. /\ e.isEof => last = 0 /\ e.blob = e.blobEnd
      /\ ~e.isEof => /\ last = e.ptr - start[e.blob] /\ last \in Nat
                     /\ PosOf(e) = e.ptr /\ e.blob < e.blobEnd
                     /\ e.blob + 1 \in Iterator /\ e.ptrEnd <= start[e.blob + 1]
  BY <1>1, CursorFacts, Bounds DEF CursorOK, Offset, PosOf, Iterator
<1> HIDE DEF first, last
<1>4. b.blob <= e.blob
  <2>1. CASE e.isEof
    BY <2>1, <1>1, <1>2, <1>3 DEF CursorOK
  <2>2. CASE ~e.isEof /\ e.blob < b.blob
    <3>1. ~b.isEof /\ e.blob + 1 <= b.blob
      BY <2>2, <1>1
    <3>2. start[e.blob + 1] <= start[b.blob]
      BY <3>1, <2>2, <1>1, <1>3, Monotone
    <3>3. start[e.blob + 1] \in Nat
      BY <2>2, <1>3, StartInNat
    <3>4. e.ptr = e.ptrEnd
      BY <3>1, <3>2, <3>3, <2>2, <1>1, <1>2, <1>3 DEF CursorOK
    <3>5. e.blob + 1 = e.blobEnd
      BY <3>4, <2>2, <1>1 DEF CursorOK
    <3>6. QED
      BY <3>1, <3>5, <1>1, <1>2
  <2>3. QED
    BY <2>1, <2>2, <1>1
<1>5. last \in Nat /\ first \in Nat /\ end \in Iterator /\ end \in Nat
      /\ b.blob <= end /\ EndOK(end, last)
  <2>1. CASE last = 0
    BY <2>1, <1>1, <1>2, <1>4 DEF EndOK
  <2>2. CASE last # 0
    <3>1. ~e.isEof /\ end = e.blob + 1 /\ end - 1 = e.blob /\ end > 1
      BY <2>2, <1>1, <1>3, Bounds DEF Iterator
    <3>2. start[end] \in Nat
      BY <3>1, <1>3, StartInNat
    <3>3. start[end - 1] + last <= start[end]
      BY <3>1, <3>2, <1>1, <1>3 DEF CursorOK
    <3>4. QED
      BY <3>1, <3>3, <1>1, <1>2, <1>3, <1>4 DEF EndOK
  <2>3. QED
    BY <2>1, <2>2
<1>6. QED
  BY <1>4, <1>5 DEF first, last

\* A stream over a range that ends between two streams over the same bytes.
LEMMA RangeFacts ==
    ASSUME Layout, NEW b, NEW e, CursorOK(b), CursorOK(e),
           b.blobEnd = e.blobEnd, b.lastOffset = e.lastOffset,
           PosOf(b) <= PosOf(e), e.isEof \/ ~b.isEof
    PROVE  CursorOK(FromRange(GetBufferRange(b, e)))
<1> DEFINE first == Offset(b)
           last  == Offset(e)
           end   == IF last # 0 THEN e.blob + 1 ELSE e.blob
           c     == At(b.blob, end, last)
<1>1. /\ b.blob \in Iterator /\ b.blobEnd \in Iterator /\ b.ptr \in Nat
      /\ b.ptrEnd \in Nat /\ b.blob \in Nat /\ start[b.blob] \in Nat
      /\ e.blob \in Iterator /\ e.blobEnd \in Iterator /\ e.ptr \in Nat
      /\ e.ptrEnd \in Nat /\ e.blob \in Nat /\ start[e.blob] \in Nat
      /\ e.blobEnd \in Nat
  BY StartInNat DEF CursorOK, Cursor
<1>2. /\ b.isEof => first = 0 /\ b.blob = e.blobEnd /\ PosOf(b) = LimitOf(b)
      /\ ~b.isEof => /\ first = b.ptr - start[b.blob] /\ first \in Nat
                     /\ PosOf(b) = b.ptr /\ b.blob < e.blobEnd
                     /\ b.blob + 1 \in Iterator /\ b.ptrEnd <= start[b.blob + 1]
  BY <1>1, CursorFacts, Bounds DEF CursorOK, Offset, PosOf, Iterator
<1>3. /\ e.isEof => last = 0 /\ e.blob = e.blobEnd
      /\ ~e.isEof => /\ last = e.ptr - start[e.blob] /\ last \in Nat
                     /\ PosOf(e) = e.ptr /\ e.blob < e.blobEnd
                     /\ e.blob + 1 \in Iterator /\ e.ptrEnd <= start[e.blob + 1]
  BY <1>1, CursorFacts, Bounds DEF CursorOK, Offset, PosOf, Iterator
<1> HIDE DEF first, last
<1>4. b.blob <= e.blob
  BY RangeBounds
<1>5. last \in Nat /\ first \in Nat /\ end \in Iterator /\ end \in Nat
      /\ b.blob <= end /\ EndOK(end, last)
  BY RangeBounds DEF first, last
<1>6. /\ CursorOK(c) /\ c.blobEnd = end /\ c.lastOffset = last
  BY <1>1, <1>5, AtFacts
<1>7. FromRange(GetBufferRange(b, e)) =
        IF c.isEof THEN c ELSE [c EXCEPT !.ptr = @ + first]
  BY DEF FromRange, GetBufferRange, first, last
<1>8. CASE c.isEof
  BY <1>6, <1>7, <1>8
<1>9. CASE ~c.isEof
  <2>1. b.blob # end
    <3>1. FirstWithBytes(b.blob, end) \in b.blob .. end
      BY <1>1, <1>5, FirstFacts
    <3>2. c.isEof <=> FirstWithBytes(b.blob, end) = end
      BY DEF At
    <3>3. QED
      BY <3>1, <3>2, <1>5, <1>1, <1>9
  <2>2. ~b.isEof
    BY <2>1, <1>1, <1>2, <1>3, <1>4
  <2>3. Size(b.blob) # 0
    BY <2>2, <1>1, <1>2, StartInNat DEF CursorOK, Size
  <2>4. c.blob = b.blob /\ c.ptr = start[b.blob]
    <3>1. FirstWithBytes(b.blob, end) = b.blob
      BY <1>1, <1>5, <2>3, FirstFacts
    <3>2. QED
      BY <3>1, <2>1 DEF At
  <2> DEFINE d == [c EXCEPT !.ptr = @ + first]
  <2>5. /\ d \in Cursor /\ d.blob = b.blob /\ d.blobEnd = end
        /\ d.ptr = b.ptr /\ d.ptrEnd = c.ptrEnd
        /\ d.isEof = FALSE /\ d.lastOffset = last
    <3>1. start[b.blob] + first = b.ptr
      BY <2>2, <1>1, <1>2
    <3>2. QED
      BY <3>1, <2>4, <1>1, <1>5, <1>6, <1>9 DEF CursorOK, Cursor
  <2> HIDE DEF c, d
  <2>6. c.ptrEnd = IF last # 0 /\ b.blob = e.blob
                   THEN e.ptr ELSE start[b.blob + 1]
    <3>1. c.ptrEnd = IF last # 0 /\ b.blob + 1 = end
                     THEN start[b.blob] + last ELSE start[b.blob + 1]
      BY <1>6, <1>9, <2>4 DEF CursorOK
    <3>2. last # 0 => ~e.isEof /\ start[e.blob] + last = e.ptr
      BY <1>1, <1>3
    <3>3. QED
      BY <3>1, <3>2, <1>1
  <2>7. d.ptr <= d.ptrEnd /\ start[b.blob] < d.ptrEnd
    BY <1>1, <1>2, <1>3, <1>6, <1>9, <2>2, <2>4, <2>5, <2>6, StartInNat DEF CursorOK
  <2>8. d.ptr < d.ptrEnd \/ b.blob + 1 = end
    BY <1>1, <1>2, <1>3, <1>4, <2>1, <2>2, <2>5, <2>6, StartInNat DEF CursorOK
  <2>9. CursorOK(d)
    BY <1>1, <1>2, <1>5, <1>6, <1>9, <2>1, <2>2, <2>4, <2>5, <2>7, <2>8 DEF CursorOK
  <2>10. QED
    BY <1>7, <1>9, <2>9 DEF d
<1>10. QED
  BY <1>8, <1>9

-----------------------------------------------------------------------------
(* The inductive invariant.                                                *)

\* CursorOK depends on the layout of the blobs, which never changes.
LEMMA Frame ==
    ASSUME start' = start
    PROVE  /\ Layout => Layout'
           /\ \A s \in Stream : CursorOK(cur'[s]) => CursorOK(cur[s])'
           /\ CursorOK(op'.before) => CursorOK(op.before)'
           /\ \A s \in Stream : PosOf(cur'[s]) = PosOf(cur[s])'
           /\ PosOf(op'.before) = PosOf(op.before)'
BY DEF Layout, CursorOK, EndOK, PosOf, LimitOf, Iterator

LEMMA NothingFacts == ASSUME Layout PROVE CursorOK(Nothing)
BY StartInNat, Bounds DEF CursorOK, EndOK, Cursor, Iterator, Nothing

LEMMA InitInv == Init => IndInv
<1> SUFFICES ASSUME Init PROVE IndInv
  OBVIOUS
<1>1. Layout
  BY DEF Init, Layout
<1>2. CursorOK(Nothing)
  BY <1>1, NothingFacts
<1>3. Nothing \in Cursor
  BY <1>2 DEF CursorOK
<1>4. QED
  BY <1>1, <1>2, <1>3 DEF Init, IndInv, LoopOK

\* Every operation that ends at once puts one stream where a stream may be.
LEMMA PutInv ==
    ASSUME IndInv, NEW s \in Stream, NEW c, CursorOK(c), Put(s, c)
    PROVE  IndInv'
<1>1. c \in Cursor
  BY DEF CursorOK
<1>2. start' = start /\ op' = NoOp /\ outcome' = "ok"
  BY DEF Put
<1>3. cur' = [cur EXCEPT ![s] = c]
  BY DEF Put
<1>4. cur' \in [Stream -> Cursor]
  BY <1>1, <1>3 DEF IndInv
<1>5. \A t \in Stream : cur'[t] = cur[t] \/ cur'[t] = c
  BY <1>3 DEF IndInv
<1>6. \A t \in Stream : CursorOK(cur'[t])
  BY <1>5 DEF IndInv
<1>7. QED
  BY <1>2, <1>4, <1>6, Frame DEF IndInv, LoopOK

\* An operation that fails at once, or that begins a loop, moves no stream.
LEMMA ThrowInv ==
    ASSUME IndInv, Throw, UNCHANGED cur
    PROVE  IndInv'
<1>1. start' = start /\ op' = NoOp /\ outcome' = "threw" /\ cur' = cur
  BY DEF Throw
<1>2. QED
  BY <1>1, Frame DEF IndInv, LoopOK

LEMMA BeginInv ==
    ASSUME IndInv, NEW k \in {"multiple", "variable"}, NEW s \in Stream,
           NEW n \in Nat, Begin(k, s, n)
    PROVE  IndInv'
<1>1. /\ start' = start /\ cur' = cur /\ outcome' = outcome
      /\ op' = [kind |-> k, stream |-> s, size |-> n, left |-> n,
                before |-> cur[s]]
  BY DEF Begin
<1>2. CursorOK(cur[s]) /\ cur[s] \in Cursor
  BY DEF IndInv
<1>3. op' \in Loop
  BY <1>1, <1>2 DEF Loop
<1>4. PosOf(cur[s]) \in Nat
  BY <1>2, CursorFacts DEF IndInv
<1>5. /\ op'.stream = s /\ op'.size = n /\ op'.left = n /\ op'.before = cur[s]
  BY <1>1
<1>6. LoopOK'
  BY <1>1, <1>2, <1>3, <1>4, <1>5, Frame DEF LoopOK
<1>7. QED
  BY <1>1, <1>3, <1>6, Frame DEF IndInv

\* An iteration of a loop: what is left and the position agree.
LEMMA StepInv ==
    ASSUME IndInv, op # NoOp, NEW n \in Nat, n <= op.left,
           Fits(cur[op.stream], n), Step(n)
    PROVE  IndInv' /\ op' # NoOp
<1> DEFINE s == op.stream
           d == Advance(cur[s], n)
<1>1. /\ op \in Loop /\ s \in Stream /\ op.left \in Nat /\ op.size \in Nat
      /\ op.left <= op.size
      /\ op.kind \in {"multiple", "variable"} /\ op.before \in Cursor
  BY DEF IndInv, LoopOK, Loop
<1>2. /\ start' = start /\ outcome' = outcome
      /\ cur' = [cur EXCEPT ![s] = d]
      /\ op' = [op EXCEPT !.left = @ - n]
  BY DEF Step
<1>3. /\ CursorOK(d)
      /\ d.blobEnd = cur[s].blobEnd /\ d.lastOffset = cur[s].lastOffset
      /\ PosOf(d) = PosOf(cur[s]) + n
  BY <1>1, AdvanceFacts DEF IndInv
<1> HIDE DEF d
<1>4. d \in Cursor
  BY <1>3 DEF CursorOK
<1>5. cur' \in [Stream -> Cursor] /\ cur'[s] = d
  BY <1>1, <1>2, <1>4 DEF IndInv
<1>6. \A t \in Stream : cur'[t] = cur[t] \/ cur'[t] = d
  BY <1>1, <1>2 DEF IndInv
<1>7. \A t \in Stream : CursorOK(cur'[t])
  BY <1>3, <1>6 DEF IndInv
<1>8. /\ op' \in Loop /\ op'.stream = s /\ op'.left = op.left - n
      /\ op'.size = op.size /\ op'.before = op.before /\ op'.kind = op.kind
  BY <1>1, <1>2 DEF Loop
<1>9. op' # NoOp
  BY <1>1, <1>8 DEF NoOp
<1>10. PosOf(cur[s]) \in Nat /\ PosOf(op.before) \in Nat
  BY <1>1, CursorFacts DEF IndInv, LoopOK
<1>11. /\ CursorOK(op.before)
       /\ cur[s].blobEnd = op.before.blobEnd
       /\ cur[s].lastOffset = op.before.lastOffset
       /\ PosOf(cur[s]) = PosOf(op.before) + (op.size - op.left)
  BY DEF IndInv, LoopOK
<1>12. LoopOK'
  <2>1. PosOf(cur'[s]) = PosOf(op'.before) + (op'.size - op'.left)
    <3>1. PosOf(cur'[s]) = PosOf(d) /\ PosOf(op'.before) = PosOf(op.before)
      BY <1>5, <1>8
    <3>2. QED
      BY <3>1, <1>1, <1>3, <1>8, <1>10, <1>11
  <2>2. op'.left <= op'.size
    BY <1>1, <1>8
  <2>3. CursorOK(op'.before)
    BY <1>8, <1>11
  <2>4. /\ cur'[op'.stream].blobEnd = op'.before.blobEnd
        /\ cur'[op'.stream].lastOffset = op'.before.lastOffset
    BY <1>3, <1>5, <1>8, <1>11
  <2>5. op'.stream \in Stream
    BY <1>1, <1>8
  <2>6. PosOf(cur[op.stream])' = PosOf(op.before)' + (op'.size - op'.left)
    BY <2>1, <2>5, <1>2, <1>8, Frame
  <2>7. CursorOK(op.before)'
    BY <2>3, <1>2, Frame
  <2>8. QED
    BY <2>2, <2>4, <2>6, <2>7, <1>8 DEF LoopOK
<1>13. QED
  BY <1>2, <1>5, <1>7, <1>8, <1>9, <1>12, Frame DEF IndInv

\* The fast path and EndRead deliver what fits.
LEMMA AdvanceInv ==
    ASSUME IndInv, NEW s \in Stream, NEW n \in Nat, Fits(cur[s], n),
           op = NoOp, cur' = [cur EXCEPT ![s] = Advance(@, n)],
           outcome' = "ok", UNCHANGED <<start, op>>
    PROVE  IndInv'
<1>1. CursorOK(Advance(cur[s], n))
  BY AdvanceFacts DEF IndInv
<1>2. Put(s, Advance(cur[s], n))
  BY DEF Put
<1>3. QED
  BY <1>1, <1>2, PutInv

\* The handler leaves the stream as the loop found it.
LEMMA RollBackFacts ==
    ASSUME IndInv, RollBack
    PROVE  /\ op \in Loop /\ op # NoOp
           /\ cur' = [cur EXCEPT ![op.stream] = op.before]
           /\ cur[op.stream].isEof
<1> DEFINE s == op.stream
           b == op.before
<1>1. op # NoOp
  BY DEF RollBack, NoOp
<1>2. /\ op \in Loop /\ s \in Stream /\ op.left \in Nat
      /\ CursorOK(b) /\ CursorOK(cur[s])
      /\ cur[s].blobEnd = b.blobEnd /\ cur[s].lastOffset = b.lastOffset
  BY <1>1 DEF IndInv, LoopOK, Loop
<1>3. b \in Cursor /\ cur[s] \in Cursor
  BY <1>2 DEF CursorOK
<1>4. [cur[s] EXCEPT !.ptr = b.ptr, !.ptrEnd = b.ptrEnd, !.blob = b.blob,
                     !.isEof = (b.blob = cur[s].blobEnd)] = b
  BY <1>2, <1>3 DEF CursorOK, Cursor
<1>5. cur' = [cur EXCEPT ![s].ptr = b.ptr, ![s].ptrEnd = b.ptrEnd,
                         ![s].blob = b.blob,
                         ![s].isEof = (b.blob = cur[s].blobEnd)]
  BY DEF RollBack
<1>6. cur' = [cur EXCEPT ![s] = b]
  BY <1>2, <1>4, <1>5 DEF IndInv
<1>7. cur[s].isEof
  <2>1. ~Fits(cur[s], Chunk(cur[s]))
    BY DEF RollBack
  <2>2. SUFFICES ASSUME ~cur[s].isEof PROVE FALSE
    BY <1>3 DEF Cursor
  <2>3. cur[s].ptr \in Nat /\ cur[s].ptrEnd \in Nat
    BY <1>3 DEF Cursor
  <2>4. cur[s].ptr + Chunk(cur[s]) <= cur[s].ptrEnd
    BY <1>2, <2>3 DEF Chunk
  <2>5. QED
    BY <2>1, <2>2, <2>4 DEF Fits
<1>8. QED
  BY <1>1, <1>2, <1>6, <1>7

LEMMA NextInv == IndInv /\ [Next]_vars => IndInv'
<1> SUFFICES ASSUME IndInv, [Next]_vars PROVE IndInv'
  OBVIOUS
<1>1. ASSUME NEW s \in Stream, Open(s) PROVE IndInv'
  <2>1. 1 \in Iterator /\ Blobs + 1 \in Iterator /\ 1 <= Blobs + 1
    BY Bounds DEF Iterator
  <2>2. CursorOK(At(1, Blobs + 1, 0))
    BY <2>1, AtFacts DEF IndInv, EndOK
  <2>3. QED
    BY <1>1, <2>2, PutInv DEF Open
<1>2. ASSUME NEW s \in Stream, NEW t \in Stream, GetCurrentBuffer(s, t)
      PROVE  IndInv'
  BY <1>2, PutInv DEF GetCurrentBuffer, IndInv
<1>3. ASSUME NEW s \in Stream, NEW b \in Stream, NEW e \in Stream,
             CreateInputBuffer(b, e, s)
      PROVE  IndInv'
  <2>1. CursorOK(FromRange(GetBufferRange(cur[b], cur[e])))
    BY <1>3, RangeFacts DEF CreateInputBuffer, IndInv
  <2>2. QED
    BY <1>3, <2>1, PutInv DEF CreateInputBuffer
<1>4. ASSUME NEW s \in Stream, NEW n \in 0 .. Bytes + 1, ReadSingle(s, n)
      PROVE  IndInv'
  <2>1. n \in Nat
    BY Bounds
  <2>2. QED
    BY <1>4, <2>1, AdvanceInv, ThrowInv DEF ReadSingle
<1>5. ASSUME NEW s \in Stream, NEW n \in 0 .. Bytes + 1, ReadMultiple(s, n)
      PROVE  IndInv'
  BY <1>5, BeginInv, Bounds DEF ReadMultiple
<1>6. ASSUME NEW s \in Stream, NEW n \in 1 .. FastPath + 1, ReadVariable(s, n)
      PROVE  IndInv'
  <2>1. n \in Nat /\ n <= FastPath + 1 /\ FastPath \in Nat
    BY Bounds
  <2>2. CASE cur[s].ptr + FastPath < cur[s].ptrEnd
    <3>1. CursorOK(cur[s]) /\ cur[s].ptr \in Nat /\ cur[s].ptrEnd \in Nat
      BY DEF IndInv, CursorOK, Cursor
    <3>2. Fits(cur[s], n)
      BY <2>1, <2>2, <3>1 DEF Fits, CursorOK
    <3>3. QED
      BY <1>6, <2>1, <2>2, <3>2, AdvanceInv DEF ReadVariable
  <2>3. CASE ~(cur[s].ptr + FastPath < cur[s].ptrEnd)
    BY <1>6, <2>1, <2>3, BeginInv DEF ReadVariable
  <2>4. QED
    BY <2>2, <2>3
<1>7. ASSUME Iterate PROVE IndInv'
  <2> DEFINE s == op.stream
  <2>1. op # NoOp
    BY <1>7 DEF Iterate, NoOp
  <2>2. /\ op.left \in Nat /\ s \in Stream /\ CursorOK(cur[s])
        /\ cur[s].ptr \in Nat /\ cur[s].ptrEnd \in Nat
    BY <2>1 DEF IndInv, LoopOK, Loop, CursorOK, Cursor
  <2>3. Chunk(cur[s]) \in Nat /\ Chunk(cur[s]) <= op.left
    BY <2>2 DEF CursorOK, Chunk
  <2>4. QED
    BY <1>7, <2>1, <2>3, StepInv DEF Iterate
<1>8. ASSUME RollBack PROVE IndInv'
  <2>1. /\ op \in Loop /\ op # NoOp
        /\ cur' = [cur EXCEPT ![op.stream] = op.before]
    BY <1>8, RollBackFacts
  <2>2. start' = start /\ op' = NoOp /\ outcome' = "threw"
    BY <1>8 DEF RollBack, Throw
  <2>3. op.stream \in Stream /\ op.before \in Cursor /\ CursorOK(op.before)
    BY <2>1 DEF IndInv, LoopOK, Loop
  <2>4. cur' \in [Stream -> Cursor]
    BY <2>1, <2>3 DEF IndInv
  <2>5. \A t \in Stream : cur'[t] = cur[t] \/ cur'[t] = op.before
    BY <2>1, <2>3 DEF IndInv
  <2>6. \A t \in Stream : CursorOK(cur'[t])
    BY <2>3, <2>5 DEF IndInv
  <2>7. QED
    BY <2>2, <2>4, <2>6, Frame DEF IndInv, LoopOK
<1>9. ASSUME NextByte PROVE IndInv'
  <2>1. op # NoOp
    BY <1>9 DEF NextByte, NoOp
  <2>2. op.left \in Nat /\ op.left # 0
    BY <1>9, <2>1 DEF NextByte, IndInv, LoopOK, Loop
  <2>3. QED
    BY <1>9, <2>1, <2>2, StepInv, ThrowInv DEF NextByte
<1>10. ASSUME Return PROVE IndInv'
  <2>1. start' = start /\ cur' = cur /\ op' = NoOp /\ outcome' = "ok"
    BY <1>10 DEF Return
  <2>2. QED
    BY <2>1, Frame DEF IndInv, LoopOK
<1>11. ASSUME UNCHANGED vars PROVE IndInv'
  <2>1. start' = start /\ cur' = cur /\ op' = op /\ outcome' = outcome
    BY <1>11 DEF vars
  <2>2. CursorOK(op.before) => CursorOK(op'.before)
    BY <2>1
  <2>3. QED
    BY <2>1, <2>2, Frame DEF IndInv, LoopOK, Loop
<1>12. QED
  BY <1>1, <1>2, <1>3, <1>4, <1>5, <1>6, <1>7, <1>8, <1>9, <1>10, <1>11
  DEF Next

-----------------------------------------------------------------------------
(* The theorems.                                                           *)

\* In every reachable state each stream stands where CursorOK says, and a
\* loop accounts for every byte between where it began and where it is.
THEOREM Invariance == Spec => []IndInv
<1>1. Init => IndInv
  BY InitInv
<1>2. IndInv /\ [Next]_vars => IndInv'
  BY NextInv
<1>3. QED
  BY <1>1, <1>2, PTL DEF Spec

\* Type correctness.
THEOREM TypeCorrect == Spec => []TypeOK
<1>1. IndInv => TypeOK
  BY DEF IndInv, Layout, TypeOK
<1>2. QED
  BY <1>1, Invariance, PTL

\* Whatever blobs the buffer has, empty ones included, and whatever ranges
\* of it are read in whatever order, no stream points outside the bytes that
\* it may deliver (m_ptr and m_ptrEnd of InputBuffer.h).
THEOREM CursorSound == Spec => []CursorInBlob
<1>1. IndInv => CursorInBlob
  <2> SUFFICES ASSUME IndInv PROVE CursorInBlob
    OBVIOUS
  <2>1. ASSUME NEW s \in Stream
        PROVE  /\ CursorOK(cur[s])
               /\ ~cur[s].isEof => /\ cur[s].ptrEnd <= start[cur[s].blob + 1]
                                  /\ cur[s].ptrEnd <= LimitOf(cur[s])
    <3>1. CursorOK(cur[s]) /\ Layout
      BY DEF IndInv
    <3>2. QED
      BY <3>1, CursorFacts
  <2>2. QED
    BY <2>1 DEF CursorOK, CursorInBlob
<1>2. QED
  BY <1>1, Invariance, PTL

\* A loop of ReadMultiple that throws leaves all members of the stream as it
\* found them, and throws only for want of bytes, however many blobs it had
\* passed before.
THEOREM RollBackRestores == Spec => ThrowRestores
<1> DEFINE A == op.kind = "multiple" /\ op' = NoOp /\ outcome' = "threw" =>
                  /\ cur'[op.stream] = op.before
                  /\ PosOf(op.before) + op.size > LimitOf(op.before)
<1>1. IndInv /\ [Next]_vars => [A]_vars
  <2> SUFFICES ASSUME IndInv, Next, op.kind = "multiple", op' = NoOp,
                      outcome' = "threw"
               PROVE  /\ cur'[op.stream] = op.before
                      /\ PosOf(op.before) + op.size > LimitOf(op.before)
    BY DEF A
  <2>1. op # NoOp
    BY DEF NoOp
  <2>2. ~Iterate
    <3>1. SUFFICES ASSUME Iterate PROVE FALSE
      OBVIOUS
    <3>2. op' = [op EXCEPT !.left = @ - Chunk(cur[op.stream])]
      BY <3>1 DEF Iterate, Step
    <3>3. op'.kind = "multiple"
      BY <2>1, <3>2 DEF IndInv, LoopOK, Loop
    <3>4. QED
      BY <3>3 DEF NoOp
  <2>3. RollBack
    BY <2>1, <2>2 DEF Next, Open, GetCurrentBuffer, CreateInputBuffer, Put,
       ReadSingle, ReadMultiple, ReadVariable, Begin, NextByte, Return
  <2>4. /\ op \in Loop
        /\ cur' = [cur EXCEPT ![op.stream] = op.before]
        /\ cur[op.stream].isEof
    BY <2>3, RollBackFacts
  <2>5. op.stream \in Stream /\ op.left \in Nat /\ op.size \in Nat /\ op.left # 0
    BY <2>3, <2>4 DEF Loop, RollBack
  <2>6. cur'[op.stream] = op.before
    BY <2>4, <2>5 DEF IndInv
  <2>7. CursorOK(cur[op.stream]) /\ CursorOK(op.before) /\ Layout
    BY <2>1, <2>5 DEF IndInv, LoopOK
  <2>8. PosOf(cur[op.stream]) = LimitOf(op.before)
    BY <2>1, <2>4, <2>7 DEF IndInv, LoopOK, PosOf, LimitOf, CursorOK
  <2>9. PosOf(cur[op.stream]) = PosOf(op.before) + (op.size - op.left)
    BY <2>1 DEF IndInv, LoopOK
  <2>10. PosOf(op.before) \in Nat /\ LimitOf(op.before) \in Nat
    BY <2>7, CursorFacts
  <2>11. QED
    BY <2>5, <2>6, <2>8, <2>9, <2>10
<1>2. QED
  BY <1>1, Invariance, PTL DEF Spec, ThrowRestores
-----------------------------------------------------------------------------
(* Loops end.  That each step of a loop is taken is fairness, which stays  *)
(* with TLC (LoopsEnd); that there are only so many of them is proved.     *)

\* A bound on the iterations that a loop may still take.
ToCome == op.left + (IF cur[op.stream].isEof THEN 0 ELSE 1)

\* An iteration reads something, or finds that the stream ended here.
LEMMA AdvanceProgresses ==
    ASSUME Layout, NEW c, CursorOK(c), NEW n \in Nat, Fits(c, n),
           n = 0 => c.ptr = c.ptrEnd
    PROVE  n # 0 \/ Advance(c, n).isEof
<1> SUFFICES ASSUME n = 0 PROVE Advance(c, n).isEof
  OBVIOUS
<1>1. /\ c.ptr = c.ptrEnd /\ ~c.isEof /\ c.ptr \in Nat
      /\ c.blobEnd \in Iterator /\ EndOK(c.blobEnd, c.lastOffset)
  BY DEF Fits, CursorOK, Cursor
<1>2. c.blob + 1 = c.blobEnd
  BY <1>1 DEF CursorOK, Cursor
<1>3. Advance(c, n) = At(c.blobEnd, c.blobEnd, c.lastOffset)
  BY <1>1, <1>2 DEF Advance
<1>4. c.blobEnd \in Nat /\ c.blobEnd <= c.blobEnd
  BY <1>1, Bounds DEF Iterator
<1>5. FirstWithBytes(c.blobEnd, c.blobEnd) \in c.blobEnd .. c.blobEnd
  BY <1>1, <1>4, FirstFacts
<1>6. FirstWithBytes(c.blobEnd, c.blobEnd) = c.blobEnd
  BY <1>4, <1>5
<1>7. At(c.blobEnd, c.blobEnd, c.lastOffset).isEof
      = (FirstWithBytes(c.blobEnd, c.blobEnd) = c.blobEnd)
  BY DEF At
<1>8. QED
  BY <1>3, <1>6, <1>7

LEMMA StepProgresses ==
    ASSUME IndInv, op # NoOp, NEW n \in Nat, n <= op.left,
           Fits(cur[op.stream], n), Step(n),
           n = 0 => cur[op.stream].ptr = cur[op.stream].ptrEnd
    PROVE  /\ op'.kind = op.kind /\ op'.stream = op.stream
           /\ ToCome \in Nat /\ ToCome' \in Nat /\ ToCome' < ToCome
<1> DEFINE s == op.stream
           c == cur[s]
           d == Advance(c, n)
<1>1. /\ op \in Loop /\ s \in Stream /\ op.left \in Nat
      /\ cur \in [Stream -> Cursor] /\ Layout /\ CursorOK(c)
  BY DEF IndInv, LoopOK, Loop
<1>2. op' = [op EXCEPT !.left = op.left - n] /\ cur' = [cur EXCEPT ![s] = d]
  BY DEF Step
<1>3. op'.kind = op.kind /\ op'.stream = s /\ op'.left = op.left - n
  BY <1>1, <1>2 DEF Loop
<1>4. cur'[op'.stream] = d
  BY <1>1, <1>2, <1>3
<1>5. n # 0 \/ d.isEof
  BY <1>1, AdvanceProgresses
<1>6. ~c.isEof
  BY DEF Fits
<1>7. ToCome = op.left + 1
  BY <1>6 DEF ToCome
<1>8. ToCome' = op.left - n + (IF d.isEof THEN 0 ELSE 1)
  BY <1>3, <1>4 DEF ToCome
<1>9. QED
  BY <1>1, <1>3, <1>5, <1>7, <1>8

\* A loop of ReadMultiple, or of bond over the bytes of a number, ends after at
\* most one iteration more than it has bytes to read: each of them reads a byte
\* or finds that the stream ended where it stands, and then nothing fits any
\* more (the iteration without a byte is that of a stream that stands at a
\* limit inside a blob, InputBuffer.h:128 and 209).
THEOREM LoopsProgress ==
    Spec => [][op # NoOp /\ op' # NoOp =>
                   /\ op'.kind = op.kind /\ op'.stream = op.stream
                   /\ ToCome \in Nat /\ ToCome' \in Nat
                   /\ ToCome' < ToCome]_vars
<1> DEFINE A == op # NoOp /\ op' # NoOp =>
                    /\ op'.kind = op.kind /\ op'.stream = op.stream
                    /\ ToCome \in Nat /\ ToCome' \in Nat
                    /\ ToCome' < ToCome
<1>1. IndInv /\ [Next]_vars => [A]_vars
  <2> SUFFICES ASSUME IndInv, Next, op # NoOp, op' # NoOp PROVE A
    OBVIOUS
  <2>1. op \in Loop /\ op.stream \in Stream /\ op.left \in Nat
    BY DEF IndInv, LoopOK, Loop
  <2>2. CursorOK(cur[op.stream])
    BY <2>1 DEF IndInv
  <2>3. CASE Iterate
    <3> DEFINE c == cur[op.stream]
               n == Chunk(c)
    <3>1. c.ptr \in Nat /\ c.ptrEnd \in Nat
      BY <2>2 DEF CursorOK, Cursor
    <3>2. op.left # 0 /\ Fits(c, n) /\ Step(n)
      BY <2>3 DEF Iterate
    <3>3. n \in Nat /\ n <= op.left
      BY <2>1, <2>2, <3>1, <3>2 DEF Chunk, CursorOK, Fits
    <3>4. n = 0 => c.ptr = c.ptrEnd
      BY <2>1, <3>1, <3>2 DEF Chunk
    <3> HIDE DEF n
    <3>5. QED
      BY <3>2, <3>3, <3>4, StepProgresses
  <2>4. CASE NextByte
    <3>1. op.left # 0 /\ Fits(cur[op.stream], 1) /\ Step(1)
      BY <2>4 DEF NextByte, Throw
    <3>2. 1 \in Nat /\ 1 <= op.left /\ 1 # 0
      BY <2>1, <3>1
    <3>3. QED
      BY <3>1, <3>2, StepProgresses
  <2>5. Iterate \/ NextByte
    BY DEF Next, Open, GetCurrentBuffer, CreateInputBuffer, Put, ReadSingle,
       ReadMultiple, ReadVariable, Begin, RollBack, Throw, Return
  <2>6. QED
    BY <2>3, <2>4, <2>5
<1>2. QED
  BY <1>1, Invariance, PTL DEF Spec
=============================================================================
