-------------------------- MODULE ByteStreamProofs --------------------------
(***************************************************************************)
(* Proofs that InputBuffer implements ByteStream, and that it notices its  *)
(* end at once, over any layout of any number of blobs.                    *)
(*                                                                         *)
(* A loop takes effect when it ends.  LoopOK, that a loop has moved its    *)
(* stream by just what it has read, makes the bytes that it delivers just  *)
(* those that it was asked for; and only the last blob of a stream can be  *)
(* read to its last byte without the stream moving on, so that a loop that *)
(* throws has found the end of the stream before it had all of them.       *)
(***************************************************************************)
EXTENDS InputBufferProofs

-----------------------------------------------------------------------------
(* Ends.                                                                   *)

\* Streams end within the bytes that there are.
LEMMA LimitInBytes ==
    ASSUME Layout, NEW c, CursorOK(c)
    PROVE  LimitOf(c) <= start[Blobs + 1] /\ LimitOf(c) <= start[c.blobEnd]
<1>1. /\ c.blobEnd \in Iterator /\ Blobs + 1 \in Iterator
      /\ c.blobEnd <= Blobs + 1 /\ c.lastOffset \in Nat
  BY Bounds DEF CursorOK, EndOK, Iterator
<1>2. start[c.blobEnd] <= start[Blobs + 1]
  BY <1>1, Monotone
<1>3. start[c.blobEnd] \in Nat /\ start[Blobs + 1] \in Nat
  BY <1>1, StartInNat
<1>4. c.lastOffset # 0 => /\ start[c.blobEnd - 1] + c.lastOffset <= start[c.blobEnd]
                          /\ c.blobEnd - 1 \in Iterator
  BY <1>1, Bounds DEF CursorOK, EndOK, Iterator
<1>5. c.lastOffset # 0 => start[c.blobEnd - 1] \in Nat
  BY <1>4, StartInNat
<1>6. QED
  BY <1>1, <1>2, <1>3, <1>4, <1>5 DEF LimitOf

\* Where bytes are wanted and there is none in the blob, there is none at all.
LEMMA DryFacts ==
    ASSUME Layout, NEW c, CursorOK(c), ~Fits(c, 1)
    PROVE  PosOf(c) = LimitOf(c)
<1>1. /\ c.blob \in Nat /\ c.blobEnd \in Nat /\ c.ptr \in Nat /\ c.ptrEnd \in Nat
      /\ c.isEof \in BOOLEAN
  BY Bounds DEF CursorOK, Cursor, Iterator
<1>2. CASE c.isEof
  BY <1>2 DEF CursorOK, PosOf
<1>3. CASE ~c.isEof
  <2>1. c.ptr = c.ptrEnd
    BY <1>1, <1>3 DEF CursorOK, Fits
  <2>2. c.blob + 1 = c.blobEnd /\ c.blobEnd - 1 = c.blob
    BY <1>1, <1>3, <2>1 DEF CursorOK
  <2>3. c.ptrEnd = LimitOf(c)
    BY <1>3, <2>2 DEF CursorOK, LimitOf
  <2>4. QED
    BY <1>3, <2>1, <2>3 DEF CursorOK, PosOf
<1>4. QED
  BY <1>1, <1>2, <1>3

\* EndRead reaches the limit at the end of the stream only.
LEMMA AdvanceToEnd ==
    ASSUME Layout, NEW c, CursorOK(c), NEW n \in Nat, Fits(c, n),
           PosOf(Advance(c, n)) = LimitOf(Advance(c, n))
    PROVE  Advance(c, n).isEof
<1> DEFINE d == Advance(c, n)
<1>1. /\ c.blob \in Iterator /\ c.blobEnd \in Iterator /\ c.ptr \in Nat
      /\ c.ptrEnd \in Nat /\ c.blob \in Nat /\ c.blobEnd \in Nat
      /\ c.lastOffset \in Nat
  BY Bounds DEF CursorOK, Cursor, Iterator
<1>2. /\ CursorOK(d) /\ d.blobEnd = c.blobEnd /\ d.lastOffset = c.lastOffset
      /\ PosOf(d) = PosOf(c) + n /\ PosOf(d) = LimitOf(d)
  BY AdvanceFacts
<1>3. /\ c.blob < c.blobEnd /\ c.blob + 1 \in Iterator /\ ~c.isEof
      /\ c.ptr + n <= c.ptrEnd /\ PosOf(c) = c.ptr
  BY <1>1, Bounds DEF CursorOK, Iterator, Fits, PosOf
<1>4. c.ptr + n # c.ptrEnd => d = [c EXCEPT !.ptr = @ + n]
  BY DEF Advance
<1>5. c.ptr + n = c.ptrEnd => d = At(c.blob + 1, c.blobEnd, c.lastOffset)
  BY DEF Advance
<1> HIDE DEF d
<1>6. LimitOf(d) = LimitOf(c)
  BY <1>2 DEF LimitOf
<1>7. c.ptrEnd <= LimitOf(c) /\ LimitOf(c) \in Nat
  BY <1>3, CursorFacts
<1>8. c.ptr + n = c.ptrEnd /\ LimitOf(c) = c.ptrEnd
  BY <1>1, <1>2, <1>3, <1>6, <1>7
<1> DEFINE f == FirstWithBytes(c.blob + 1, c.blobEnd)
<1>9. /\ d.isEof <=> f = c.blobEnd
      /\ d.blob = f
      /\ f # c.blobEnd => d.ptr = start[f]
  <2> DEFINE a == At(c.blob + 1, c.blobEnd, c.lastOffset)
  <2>1. /\ a.isEof <=> f = c.blobEnd
        /\ a.blob = f
        /\ f # c.blobEnd => a.ptr = start[f]
    BY DEF At
  <2>2. d = a
    BY <1>5, <1>8
  <2>3. QED
    BY <2>1, <2>2
<1> HIDE DEF f
<1>10. d.isEof \in BOOLEAN /\ f \in Iterator /\ d.ptrEnd \in Nat
  BY <1>2, <1>9 DEF CursorOK, Cursor
<1>11. ASSUME ~d.isEof PROVE FALSE
  <2>1. d.ptrEnd <= LimitOf(d) /\ PosOf(d) = d.ptr /\ start[f] < d.ptrEnd
    BY <1>2, <1>9, <1>11, CursorFacts DEF CursorOK, PosOf
  <2>2. start[f] \in Nat
    BY <1>10, StartInNat
  <2>3. QED
    BY <1>2, <1>9, <1>10, <1>11, <2>1, <2>2
<1>12. QED
  BY <1>10, <1>11 DEF d

-----------------------------------------------------------------------------
(* Noticing the end.                                                       *)

\* What a single read or an iteration of a loop does to a stream.
LEMMA MovesBy ==
    ASSUME IndInv, IndInv', NEW s \in Stream,
           \/ Iterate \/ NextByte
           \/ \E n \in 0 .. Bytes + 1 : ReadSingle(s, n) \/ ReadVariable(s, n),
           PosOf(cur[s]) < PosOf(cur'[s])
    PROVE  \E n \in Nat : Fits(cur[s], n) /\ cur'[s] = Advance(cur[s], n)
<1>1. cur \in [Stream -> Cursor] /\ CursorOK(cur[s]) /\ Layout
  BY DEF IndInv
<1>2. PosOf(cur[s]) \in Nat
  BY <1>1, CursorFacts
<1>3. cur'[s] # cur[s]
  BY <1>2
<1>4. ASSUME op # NoOp, NEW n, Step(n), Fits(cur[op.stream], n), n \in Nat
      PROVE  Fits(cur[s], n) /\ cur'[s] = Advance(cur[s], n)
  <2>1. op.stream \in Stream
    BY <1>4 DEF IndInv, LoopOK, Loop
  <2>2. cur' = [cur EXCEPT ![op.stream] = Advance(cur[op.stream], n)]
    BY <1>4 DEF Step
  <2>3. op.stream = s
    BY <1>1, <1>3, <2>1, <2>2
  <2>4. QED
    BY <1>1, <1>4, <2>2, <2>3
<1>5. CASE Iterate
  <2>1. op # NoOp
    BY <1>5 DEF Iterate, NoOp
  <2>2. op.stream \in Stream /\ op.left \in Nat
    BY <2>1 DEF IndInv, LoopOK, Loop
  <2>3. Chunk(cur[op.stream]) \in Nat
    <3>1. CursorOK(cur[op.stream])
      BY <2>2 DEF IndInv
    <3>2. QED
      BY <2>2, <3>1 DEF Chunk, CursorOK, Cursor
  <2>4. QED
    BY <1>4, <1>5, <2>1, <2>3 DEF Iterate
<1>6. CASE NextByte
  <2>1. op # NoOp
    BY <1>6 DEF NextByte, NoOp
  <2>2. Step(1) /\ Fits(cur[op.stream], 1)
    BY <1>3, <1>6 DEF NextByte
  <2>3. QED
    BY <1>4, <2>1, <2>2
<1>7. ASSUME NEW n \in 0 .. Bytes + 1, ReadSingle(s, n)
      PROVE  n \in Nat /\ Fits(cur[s], n) /\ cur'[s] = Advance(cur[s], n)
  BY <1>1, <1>3, <1>7, Bounds DEF ReadSingle
<1>8. ASSUME NEW n \in 0 .. Bytes + 1, ReadVariable(s, n)
      PROVE  n \in Nat /\ Fits(cur[s], n) /\ cur'[s] = Advance(cur[s], n)
  <2> DEFINE c == cur[s]
             d == [c EXCEPT !.ptr = @ + n]
  <2>1. CASE ~(c.ptr + FastPath < c.ptrEnd)
    <3>1. cur' = cur
      BY <1>8, <2>1 DEF ReadVariable, Begin
    <3>2. QED
      BY <1>3, <3>1
  <2>2. CASE c.ptr + FastPath < c.ptrEnd
    <3>1. start' = start /\ cur'[s] = Advance(c, n)
      BY <1>1, <1>8, <2>2 DEF ReadVariable
    <3>2. /\ c \in Cursor /\ c.ptr \in Nat /\ c.ptrEnd \in Nat /\ n \in Nat
          /\ ~c.isEof
      BY <1>1, <2>2, Bounds DEF CursorOK, Cursor
    <3>3. CursorOK(cur[s])' /\ cur'[s] \in Cursor
      BY DEF IndInv
    <3>4. ~cur'[s].isEof => cur'[s].ptr <= cur'[s].ptrEnd
      BY <3>3 DEF CursorOK
    <3>5. SUFFICES ASSUME ~Fits(c, n) PROVE FALSE
      BY <3>1, <3>2
    <3>6. ~(c.ptr + n <= c.ptrEnd)
      BY <3>2, <3>5 DEF Fits
    <3>7. cur'[s] = d
      BY <3>1, <3>2, <3>6 DEF Advance
    <3>8. d.ptr = c.ptr + n /\ d.ptrEnd = c.ptrEnd /\ d.isEof = c.isEof
      BY <3>2 DEF Cursor
    <3>9. QED
      BY <3>2, <3>4, <3>6, <3>7, <3>8
  <2>3. QED
    BY <2>1, <2>2
<1>9. QED
  BY <1>5, <1>6, <1>7, <1>8

\* Whichever operation reads the last byte of a stream, IsEof is true then,
\* even if empty blobs or the rest of a blob follow (InputBuffer.h:164-216).
THEOREM EndsAreNoticed == Spec => EofWhenDone
<1>1. IndInv /\ [Next]_vars => [NoticesEnd]_vars
  <2> SUFFICES ASSUME IndInv, IndInv', NEW s \in Stream, ReadsToEnd(s)
               PROVE  cur'[s].isEof
    BY NextInv DEF NoticesEnd
  <2>1. PICK n \in Nat : Fits(cur[s], n) /\ cur'[s] = Advance(cur[s], n)
    BY MovesBy DEF ReadsToEnd
  <2>2. CursorOK(cur[s]) /\ Layout
    BY DEF IndInv
  <2>3. PosOf(Advance(cur[s], n)) = LimitOf(Advance(cur[s], n))
    BY <2>1 DEF ReadsToEnd
  <2>4. QED
    BY <2>1, <2>2, <2>3, AdvanceToEnd
<1>2. QED
  BY <1>1, Invariance, PTL DEF Spec, EofWhenDone

-----------------------------------------------------------------------------
(* InputBuffer implements ByteStream.                                      *)

total == start[Blobs + 1]
pos   == [s \in Stream |-> PosOf(Seen(s))]
limit == [s \in Stream |-> LimitOf(Seen(s))]
cuts  == {start[b] : b \in Iterator}

\* What both specifications know of the streams.
LEMMA SeenFacts ==
    ASSUME IndInv, NEW s \in Stream
    PROVE  /\ CursorOK(Seen(s)) /\ CursorOK(cur[s])
           /\ PosOf(Seen(s)) \in Nat /\ LimitOf(Seen(s)) \in Nat /\ total \in Nat
           /\ PosOf(Seen(s)) <= LimitOf(Seen(s)) /\ LimitOf(Seen(s)) <= total
           /\ LimitOf(cur[s]) = LimitOf(Seen(s))
           /\ PosOf(cur[s]) \in Nat /\ PosOf(cur[s]) <= LimitOf(cur[s])
<1>1. Layout /\ CursorOK(cur[s])
  BY DEF IndInv
<1>2. /\ CursorOK(Seen(s))
      /\ cur[s].blobEnd = Seen(s).blobEnd
      /\ cur[s].lastOffset = Seen(s).lastOffset
  BY <1>1 DEF IndInv, LoopOK, Seen
<1>3. Blobs + 1 \in Iterator
  BY Bounds DEF Iterator
<1>4. LimitOf(cur[s]) = LimitOf(Seen(s))
  BY <1>2 DEF LimitOf
<1>5. QED
  BY <1>1, <1>2, <1>3, <1>4, CursorFacts, LimitInBytes, StartInNat DEF total

LEMMA InitRefines == Init => Abstract!Init
<1> SUFFICES ASSUME Init PROVE Abstract!Init
  OBVIOUS
<1>1. \A s \in Stream : Seen(s) = Nothing
  BY DEF Init, Seen
<1>2. PosOf(Nothing) = start[Blobs + 1] /\ LimitOf(Nothing) = start[Blobs + 1]
  BY DEF Nothing, PosOf, LimitOf
<1>3. start[Blobs + 1] \in Nat
  BY InitInv, StartInNat, Bounds DEF IndInv, Iterator
<1>4. cuts \subseteq 0 .. start[Blobs + 1]
  <2>1. ASSUME NEW b \in Iterator PROVE start[b] \in 0 .. start[Blobs + 1]
    <3>1. Blobs + 1 \in Iterator /\ b <= Blobs + 1
      BY Bounds DEF Iterator
    <3>2. start[b] <= start[Blobs + 1]
      BY <3>1, InitInv, Monotone DEF IndInv
    <3>3. QED
      BY <1>3, <3>2, InitInv, StartInNat DEF IndInv
  <2>2. QED
    BY <2>1 DEF cuts
<1>5. QED
  BY <1>1, <1>2, <1>3, <1>4 DEF Init, Abstract!Init, cuts

\* A step that shows in the position of one stream only.
LEMMA OneMoves ==
    ASSUME IndInv, NEW s \in Stream, start' = start,
           \A t \in Stream \ {s} : Seen(t)' = Seen(t)
    PROVE  /\ total' = total /\ cuts' = cuts
           /\ pos' = [pos EXCEPT ![s] = PosOf(Seen(s)')]
           /\ limit' = [limit EXCEPT ![s] = LimitOf(Seen(s)')]
<1>1. \A t \in Stream : /\ PosOf(Seen(t))' = PosOf(Seen(t)')
                        /\ LimitOf(Seen(t))' = LimitOf(Seen(t)')
  BY DEF PosOf, LimitOf
<1>2. QED
  BY <1>1 DEF pos, limit, total, cuts

LEMMA NothingMoves ==
    ASSUME IndInv, start' = start, \A t \in Stream : Seen(t)' = Seen(t)
    PROVE  total' = total /\ cuts' = cuts /\ pos' = pos /\ limit' = limit
<1>1. \A t \in Stream : /\ PosOf(Seen(t))' = PosOf(Seen(t)')
                        /\ LimitOf(Seen(t))' = LimitOf(Seen(t)')
  BY DEF PosOf, LimitOf
<1>2. QED
  BY <1>1 DEF pos, limit, total, cuts

\* What ends at once places one stream.
LEMMA PutPlaces ==
    ASSUME IndInv, NEW s \in Stream, NEW c, Put(s, c)
    PROVE  /\ outcome' = "ok"
           /\ pos' = [pos EXCEPT ![s] = PosOf(c)]
           /\ limit' = [limit EXCEPT ![s] = LimitOf(c)]
<1>1. /\ op = NoOp /\ op' = NoOp /\ start' = start /\ outcome' = "ok"
      /\ cur' = [cur EXCEPT ![s] = c] /\ cur \in [Stream -> Cursor]
  BY DEF Put, IndInv
<1>2. Seen(s)' = c /\ \A t \in Stream \ {s} : Seen(t)' = Seen(t)
  BY <1>1 DEF Seen
<1>3. QED
  BY <1>1, <1>2, OneMoves

\* A range begins where its first stream stands, and ends where its second
\* one does; unless that stands at a limit inside a blob, where the range
\* goes on to the end of the blob.
LEMMA RangeEnds ==
    ASSUME Layout, NEW b, NEW e, CursorOK(b), CursorOK(e),
           b.blobEnd = e.blobEnd, b.lastOffset = e.lastOffset,
           PosOf(b) <= PosOf(e), e.isEof \/ ~b.isEof
    PROVE  LET r == FromRange(GetBufferRange(b, e))
           IN  /\ LimitOf(r) \in PosOf(e) .. start[Blobs + 1]
               /\ \/ LimitOf(r) = PosOf(e)
                  \/ PosOf(e) = LimitOf(e) /\ LimitOf(e) < start[Blobs + 1]
               /\ ~b.isEof => PosOf(r) = PosOf(b)
               /\ b.isEof => PosOf(r) = LimitOf(r)
<1> DEFINE first == Offset(b)
           last  == Offset(e)
           end   == IF last # 0 THEN e.blob + 1 ELSE e.blob
           c     == At(b.blob, end, last)
           r     == FromRange(GetBufferRange(b, e))
<1>1. /\ b.blob \in Iterator /\ b.blob \in Nat /\ start[b.blob] \in Nat
      /\ b.blobEnd \in Nat /\ b.ptr \in Nat /\ b.isEof \in BOOLEAN
      /\ e.blob \in Iterator /\ e.blob \in Nat /\ start[e.blob] \in Nat
      /\ e.blobEnd \in Nat /\ e.ptr \in Nat /\ e.isEof \in BOOLEAN
      /\ e.blobEnd \in Iterator /\ start[e.blobEnd] \in Nat
  BY StartInNat DEF CursorOK, Cursor
<1>2. /\ PosOf(e) \in Nat /\ LimitOf(e) \in Nat /\ PosOf(e) <= LimitOf(e)
      /\ LimitOf(e) <= start[e.blobEnd] /\ LimitOf(e) <= start[Blobs + 1]
      /\ start[Blobs + 1] \in Nat /\ start[e.blobEnd] <= start[Blobs + 1]
  <2>1. Blobs + 1 \in Iterator /\ e.blobEnd <= Blobs + 1
    BY <1>1, Bounds DEF Iterator
  <2>2. QED
    BY <1>1, <2>1, CursorFacts, LimitInBytes, StartInNat, Monotone
<1>3. /\ b.isEof => first = 0 /\ b.blob = e.blobEnd
      /\ ~b.isEof => /\ first = b.ptr - start[b.blob] /\ first \in Nat
                     /\ PosOf(b) = b.ptr /\ b.blob < e.blobEnd
                     /\ start[b.blob] < b.ptrEnd /\ b.ptrEnd <= start[b.blob + 1]
                     /\ b.blob + 1 \in Iterator
  BY <1>1, CursorFacts, Bounds DEF CursorOK, Offset, PosOf, Iterator
<1>4. /\ e.isEof => last = 0 /\ e.blob = e.blobEnd /\ PosOf(e) = LimitOf(e)
      /\ ~e.isEof => /\ last = e.ptr - start[e.blob] /\ last \in Nat
                     /\ PosOf(e) = e.ptr
  BY <1>1 DEF CursorOK, Offset, PosOf
<1>5. CursorOK(r)
  BY RangeFacts
<1>6. r = IF c.isEof THEN c ELSE [c EXCEPT !.ptr = @ + first]
  BY DEF FromRange, GetBufferRange
<1>7. /\ c.blobEnd = end /\ c.lastOffset = last
      /\ c.blob = FirstWithBytes(b.blob, end)
      /\ c.isEof <=> c.blob = end
      /\ c.blob # end => c.ptr = start[c.blob]
      /\ c.isEof \in BOOLEAN
  BY DEF At
<1>8. /\ r.blobEnd = end /\ r.lastOffset = last /\ r.blob = c.blob
      /\ r.isEof = c.isEof
      /\ ~c.isEof => r.ptr = c.ptr + first
  <2>1. c = [blob |-> c.blob, blobEnd |-> c.blobEnd, ptr |-> c.ptr,
             ptrEnd |-> c.ptrEnd, isEof |-> c.isEof, lastOffset |-> c.lastOffset]
    BY DEF At
  <2> HIDE DEF c, r
  <2>2. QED
    BY <1>6, <1>7, <2>1
<1>9. /\ last \in Nat /\ end \in Iterator /\ end \in Nat /\ b.blob <= end
      /\ b.blob <= e.blob
  BY RangeBounds
<1> HIDE DEF first, last, c, r, end
<1>10. /\ c.blob \in b.blob .. end
       /\ b.blob # end /\ Size(b.blob) # 0 => c.blob = b.blob
  <2>1. /\ c.blob \in b.blob .. end
        /\ \A x \in b.blob .. c.blob - 1 : Size(x) = 0
    BY <1>1, <1>7, <1>9, FirstFacts
  <2>2. c.blob # b.blob => b.blob \in b.blob .. c.blob - 1
    BY <1>1, <1>9, <2>1
  <2>3. QED
    BY <2>1, <2>2
<1>11. LimitOf(r) = IF last # 0 THEN start[e.blob] + last ELSE start[e.blob]
  <2>1. last # 0 => end = e.blob + 1 /\ end - 1 = e.blob
    BY <1>1 DEF end
  <2>2. last = 0 => end = e.blob
    BY DEF end
  <2>3. QED
    BY <1>8, <2>1, <2>2 DEF LimitOf
<1>12. /\ ~e.isEof => LimitOf(r) = PosOf(e)
       /\ e.isEof => LimitOf(r) = start[e.blobEnd]
  BY <1>1, <1>4, <1>11
<1>13. /\ LimitOf(r) \in PosOf(e) .. start[Blobs + 1]
       /\ \/ LimitOf(r) = PosOf(e)
          \/ PosOf(e) = LimitOf(e) /\ LimitOf(e) < start[Blobs + 1]
  BY <1>1, <1>2, <1>4, <1>12
<1>14. ASSUME b.isEof PROVE PosOf(r) = LimitOf(r)
  <2>1. e.isEof /\ b.blob = end
    BY <1>3, <1>4, <1>14 DEF end
  <2>2. r.blob = r.blobEnd
    BY <1>8, <1>9, <1>10, <2>1
  <2>3. QED
    BY <2>2 DEF PosOf
<1>15. ASSUME ~b.isEof PROVE PosOf(r) = PosOf(b)
  <2>1. CASE b.blob = end
    <3>1. last = 0 /\ ~e.isEof /\ e.blob = b.blob
      BY <1>1, <1>3, <1>4, <1>9, <1>15, <2>1 DEF end
    <3>2. PosOf(r) = LimitOf(r)
      BY <1>8, <1>9, <1>10, <2>1 DEF PosOf
    <3>3. QED
      BY <1>1, <1>3, <1>4, <1>12, <1>15, <3>1, <3>2
  <2>2. CASE b.blob # end
    <3>1. start[b.blob + 1] \in Nat
      BY <1>3, <1>15, StartInNat
    <3>2. Size(b.blob) # 0
      <4>1. b.ptrEnd \in Nat
        BY DEF CursorOK, Cursor
      <4>2. QED
        BY <1>1, <1>3, <1>15, <3>1, <4>1 DEF Size
    <3>3. c.blob = b.blob /\ ~c.isEof
      BY <1>7, <1>10, <2>2, <3>2
    <3>4. r.ptr = b.ptr /\ r.blob # r.blobEnd
      BY <1>1, <1>3, <1>7, <1>8, <1>15, <2>2, <3>3
    <3>5. QED
      BY <1>3, <1>15, <3>4 DEF PosOf
  <2>3. QED
    BY <2>1, <2>2
<1>16. QED
  BY <1>13, <1>14, <1>15 DEF r

\* The next bytes are delivered: by an operation that ends at once, or by a
\* loop that returns.
LEMMA DeliverRefines ==
    ASSUME IndInv, NEW s \in Stream, NEW n \in Nat, start' = start,
           PosOf(Seen(s)) + n <= LimitOf(Seen(s)),
           \A t \in Stream \ {s} : Seen(t)' = Seen(t),
           PosOf(Seen(s)') = PosOf(Seen(s)) + n,
           LimitOf(Seen(s)') = LimitOf(Seen(s)), outcome' = "ok"
    PROVE  Abstract!Enough(s, n) /\ Abstract!Deliver(s, n)
<1>1. /\ pos' = [pos EXCEPT ![s] = PosOf(Seen(s)')]
      /\ limit' = [limit EXCEPT ![s] = LimitOf(Seen(s)')]
  BY OneMoves
<1>2. pos[s] = PosOf(Seen(s)) /\ limit[s] = LimitOf(Seen(s))
  BY DEF pos, limit
<1>3. limit' = limit /\ pos' = [pos EXCEPT ![s] = pos[s] + n]
  BY <1>1, <1>2 DEF limit
<1>4. pos[s] + n <= limit[s]
  BY <1>2
<1> USE DEF pos, limit
<1>5. QED
  BY <1>3, <1>4 DEF Abstract!Deliver, Abstract!Enough

\* A read that fits is delivered at once.
LEMMA ReadRefines ==
    ASSUME IndInv, NEW s \in Stream, NEW n \in Nat, Fits(cur[s], n),
           op = NoOp, cur' = [cur EXCEPT ![s] = Advance(@, n)],
           outcome' = "ok", UNCHANGED <<start, op>>
    PROVE  Abstract!Enough(s, n) /\ Abstract!Deliver(s, n)
<1> DEFINE d == Advance(cur[s], n)
<1>1. /\ Layout /\ CursorOK(cur[s]) /\ cur \in [Stream -> Cursor]
  BY DEF IndInv
<1>2. /\ CursorOK(d) /\ PosOf(d) = PosOf(cur[s]) + n
      /\ d.blobEnd = cur[s].blobEnd /\ d.lastOffset = cur[s].lastOffset
  BY <1>1, AdvanceFacts
<1>3. /\ Seen(s) = cur[s] /\ Seen(s)' = d
      /\ \A t \in Stream \ {s} : Seen(t)' = Seen(t)
  BY <1>1 DEF Seen
<1> HIDE DEF d
<1>4. LimitOf(d) = LimitOf(cur[s]) /\ PosOf(d) <= LimitOf(d)
  BY <1>1, <1>2, CursorFacts DEF LimitOf
<1>5. QED
  BY <1>2, <1>3, <1>4, DeliverRefines

\* What fails delivers nothing.
LEMMA FailRefines ==
    ASSUME IndInv, NEW s \in Stream, start' = start, outcome' = "threw",
           \A t \in Stream \ {s} : Seen(t)' = Seen(t),
           LimitOf(Seen(s)') = LimitOf(Seen(s))
    PROVE  Abstract!Fail(s, PosOf(Seen(s)'))
<1>1. /\ pos' = [pos EXCEPT ![s] = PosOf(Seen(s)')]
      /\ limit' = [limit EXCEPT ![s] = LimitOf(Seen(s)')]
  BY OneMoves
<1>2. limit' = limit
  BY <1>1 DEF limit
<1> USE DEF pos, limit
<1>3. QED
  BY <1>1, <1>2 DEF Abstract!Fail

\* BeginRead lets pass just what lies in one blob, before the limit.
LEMMA FitsIfWhole ==
    ASSUME Layout, NEW c, CursorOK(c), NEW n \in Nat, n # 0
    PROVE  Fits(c, n) <=>
               /\ PosOf(c) + n <= LimitOf(c)
               /\ \A k \in cuts : k <= PosOf(c) \/ PosOf(c) + n <= k
<1>1. /\ c.blob \in Iterator /\ c.blobEnd \in Iterator /\ c.ptr \in Nat
      /\ c.ptrEnd \in Nat /\ c.isEof \in BOOLEAN
      /\ c.blob \in Nat /\ c.blobEnd \in Nat
  BY Bounds DEF CursorOK, Cursor, Iterator
<1>2. PosOf(c) \in Nat /\ LimitOf(c) \in Nat
  BY CursorFacts
<1>3. CASE c.isEof
  <2>1. PosOf(c) = LimitOf(c)
    BY <1>3 DEF CursorOK, PosOf
  <2>2. QED
    BY <1>2, <1>3, <2>1 DEF Fits
<1>4. CASE ~c.isEof
  <2>1. /\ PosOf(c) = c.ptr /\ start[c.blob] <= c.ptr /\ c.ptr <= c.ptrEnd
        /\ c.blob < c.blobEnd /\ c.blob + 1 \in Iterator
    BY <1>1, <1>4, Bounds DEF CursorOK, PosOf, Iterator
  <2>2. c.ptrEnd <= start[c.blob + 1] /\ c.ptrEnd <= LimitOf(c)
    BY <1>4, CursorFacts
  <2>3. start[c.blob] \in Nat /\ start[c.blob + 1] \in Nat
    BY <1>1, <2>1, StartInNat
  <2>4. ASSUME Fits(c, n), NEW k \in cuts
        PROVE  k <= c.ptr \/ c.ptr + n <= k
    <3>1. PICK b \in Iterator : k = start[b]
      BY <2>4 DEF cuts
    <3>2. b \in Nat /\ k \in Nat
      BY <3>1, StartInNat
    <3>3. CASE b <= c.blob
      BY <1>1, <2>1, <2>3, <3>1, <3>2, <3>3, Monotone
    <3>4. CASE c.blob + 1 <= b
      <4>1. start[c.blob + 1] <= k
        BY <2>1, <3>1, <3>4, Monotone
      <4>2. c.ptr + n <= c.ptrEnd
        BY <2>4 DEF Fits
      <4>3. QED
        BY <1>1, <2>2, <2>3, <3>2, <4>1, <4>2
    <3>5. QED
      BY <1>1, <3>2, <3>3, <3>4
  <2>5. Fits(c, n) => c.ptr + n <= LimitOf(c)
    BY <1>1, <1>2, <2>2 DEF Fits
  <2>6. ASSUME c.ptr + n <= LimitOf(c),
               \A k \in cuts : k <= c.ptr \/ c.ptr + n <= k
        PROVE  Fits(c, n)
    <3>1. CASE c.blob + 1 = c.blobEnd
      <4>1. c.blobEnd - 1 = c.blob
        BY <1>1, <3>1
      <4>2. c.ptrEnd = LimitOf(c)
        BY <1>4, <3>1, <4>1 DEF CursorOK, LimitOf
      <4>3. QED
        BY <1>4, <2>6, <4>2 DEF Fits
    <3>2. CASE c.blob + 1 # c.blobEnd
      <4>1. c.ptrEnd = start[c.blob + 1] /\ c.ptr < c.ptrEnd
        BY <1>4, <3>2 DEF CursorOK
      <4>2. c.ptrEnd \in cuts
        BY <2>1, <4>1 DEF cuts
      <4>3. c.ptr + n <= c.ptrEnd
        BY <1>1, <2>6, <4>1, <4>2
      <4>4. QED
        BY <1>4, <4>3 DEF Fits
    <3>3. QED
      BY <3>1, <3>2
  <2>7. QED
    BY <2>1, <2>4, <2>5, <2>6
<1>5. QED
  BY <1>1, <1>3, <1>4

\* ReadSingle delivers an item just if it lies in one blob.
LEMMA SingleRefines ==
    ASSUME IndInv, NEW s \in Stream, NEW n \in Nat, ReadSingle(s, n)
    PROVE  Abstract!ReadWhole(s, n)
<1>1. CursorOK(cur[s]) /\ Layout /\ op = NoOp /\ Seen(s) = cur[s]
  BY DEF IndInv, ReadSingle, Seen
<1>2. PosOf(cur[s]) \in Nat /\ LimitOf(cur[s]) \in Nat
  BY <1>1, CursorFacts
<1>3. /\ pos[s] = PosOf(cur[s]) /\ limit[s] = LimitOf(cur[s])
  BY <1>1 DEF pos, limit
<1>4. \A k \in cuts : k \in Nat
  BY <1>1, StartInNat DEF cuts
<1>5. CASE Fits(cur[s], n)
  <2>1. Abstract!Enough(s, n) /\ Abstract!Deliver(s, n)
    BY <1>5, ReadRefines DEF ReadSingle
  <2>2. \A k \in cuts : k <= pos[s] \/ pos[s] + n <= k
    <3>1. CASE n = 0
      BY <1>2, <1>3, <1>4, <3>1
    <3>2. CASE n # 0
      BY <1>1, <1>3, <1>5, <3>2, FitsIfWhole
    <3>3. QED
      BY <3>1, <3>2
  <2> USE DEF pos, cuts
  <2>3. QED
    BY <2>1, <2>2 DEF Abstract!ReadWhole, Abstract!Whole
<1>6. CASE ~Fits(cur[s], n)
  <2>1. /\ op' = NoOp /\ cur' = cur /\ start' = start /\ outcome' = "threw"
    BY <1>6 DEF ReadSingle, Throw
  <2>2. \A t \in Stream : Seen(t)' = Seen(t)
    BY <1>1, <2>1 DEF Seen
  <2>3. Seen(s)' = cur[s]
    BY <1>1, <2>2
  <2>4. Abstract!Fail(s, PosOf(Seen(s)'))
    BY <1>1, <2>1, <2>2, FailRefines
  <2>5. Abstract!Fail(s, pos[s])
    BY <1>3, <2>3, <2>4
  <2>6. \/ n = 0 /\ pos[s] = limit[s]
        \/ ~(/\ pos[s] + n <= limit[s]
             /\ \A k \in cuts : k <= pos[s] \/ pos[s] + n <= k)
    <3>1. CASE n = 0
      <4>1. cur[s].isEof
        BY <1>1, <1>6, <3>1 DEF CursorOK, Cursor, Fits
      <4>2. PosOf(cur[s]) = LimitOf(cur[s])
        BY <1>1, <4>1 DEF CursorOK, PosOf
      <4>3. QED
        BY <1>3, <3>1, <4>2
    <3>2. CASE n # 0
      BY <1>1, <1>3, <1>6, <3>2, FitsIfWhole
    <3>3. QED
      BY <3>1, <3>2
  <2> USE DEF pos, limit, cuts
  <2>7. QED
    BY <2>5, <2>6 DEF Abstract!ReadWhole, Abstract!Whole, Abstract!Enough
<1>7. QED
  BY <1>5, <1>6

\* A number of variable length is read at once from a blob that has more
\* bytes left than it can be long.
LEMMA QuickRefines ==
    ASSUME IndInv, NEW s \in Stream, NEW n \in 1 .. FastPath + 1,
           ReadVariable(s, n), op' = NoOp
    PROVE  n \in Nat /\ Abstract!ReadNumber(s, n)
<1>1. n \in Nat /\ n <= FastPath + 1 /\ FastPath \in Nat
  BY Bounds
<1>2. cur[s].ptr + FastPath < cur[s].ptrEnd
  <2>1. Begin("variable", s, n) => op'.kind = "variable"
    BY DEF Begin
  <2>2. QED
    BY <2>1 DEF ReadVariable, NoOp
<1>3. CursorOK(cur[s]) /\ cur[s].ptr \in Nat /\ cur[s].ptrEnd \in Nat
  BY DEF IndInv, CursorOK, Cursor
<1>4. Fits(cur[s], n)
  BY <1>1, <1>2, <1>3 DEF Fits, CursorOK
<1>5. Abstract!Enough(s, n) /\ Abstract!Deliver(s, n)
  BY <1>1, <1>2, <1>4, ReadRefines DEF ReadVariable
<1>6. QED
  BY <1>1, <1>5 DEF Abstract!ReadNumber

\* A loop under way does not show.
LEMMA LoopStutters ==
    ASSUME IndInv, start' = start, outcome' = outcome,
           \A t \in Stream : Seen(t)' = Seen(t)
    PROVE  UNCHANGED Abstract!vars
<1>1. total' = total /\ cuts' = cuts /\ pos' = pos /\ limit' = limit
  BY NothingMoves
<1>2. QED
  BY <1>1 DEF Abstract!vars, total, cuts, pos, limit

LEMMA BeginStutters ==
    ASSUME IndInv, NEW k, NEW s \in Stream, NEW n, Begin(k, s, n)
    PROVE  UNCHANGED Abstract!vars
<1>1. /\ start' = start /\ outcome' = outcome /\ cur' = cur /\ op = NoOp
      /\ op'.stream = s /\ op'.before = cur[s]
  BY DEF Begin
<1>2. \A t \in Stream : Seen(t)' = Seen(t)
  BY <1>1 DEF Seen
<1>3. QED
  BY <1>1, <1>2, LoopStutters

LEMMA StepStutters ==
    ASSUME IndInv, op # NoOp, NEW n \in Nat, n <= op.left,
           Fits(cur[op.stream], n), Step(n)
    PROVE  UNCHANGED Abstract!vars
<1>1. op \in Loop /\ op.stream \in Stream
  BY DEF IndInv, LoopOK, Loop
<1>2. /\ start' = start /\ outcome' = outcome
      /\ cur' = [cur EXCEPT ![op.stream] = Advance(@, n)]
      /\ op' = [op EXCEPT !.left = @ - n]
  BY DEF Step
<1>3. op' # NoOp
  BY StepInv
<1>4. op'.stream = op.stream /\ op'.before = op.before
  BY <1>1, <1>2 DEF Loop
<1>5. \A t \in Stream : Seen(t)' = Seen(t)
  BY <1>1, <1>2, <1>3, <1>4 DEF Seen, IndInv
<1>6. QED
  BY <1>2, <1>5, LoopStutters

LEMMA OpenRefines ==
    ASSUME IndInv, NEW s \in Stream, Open(s)
    PROVE  Abstract!Open(s)
<1> DEFINE c == At(1, Blobs + 1, 0)
<1>1. 1 \in Iterator /\ Blobs + 1 \in Iterator /\ 1 <= Blobs + 1
  BY Bounds DEF Iterator
<1>2. Layout /\ start[1] = 0
  BY DEF IndInv, Layout
<1>3. /\ c.blobEnd = Blobs + 1 /\ c.lastOffset = 0
      /\ 1 # Blobs + 1 => PosOf(c) = start[1]
      /\ 1 = Blobs + 1 => PosOf(c) = LimitOf(c)
  BY <1>1, <1>2, AtFacts DEF EndOK
<1>4. PosOf(c) = 0 /\ LimitOf(c) = total
  BY <1>1, <1>2, <1>3, Bounds DEF LimitOf, total
<1> HIDE DEF c
<1>5. /\ outcome' = "ok"
      /\ pos' = [pos EXCEPT ![s] = 0] /\ limit' = [limit EXCEPT ![s] = total]
  BY <1>4, PutPlaces DEF Open, c
<1> USE DEF total, pos, limit
<1>6. QED
  BY <1>5 DEF Abstract!Open, Abstract!Place

LEMMA CopyRefines ==
    ASSUME IndInv, NEW s \in Stream, NEW t \in Stream, GetCurrentBuffer(s, t)
    PROVE  Abstract!Copy(s, t)
<1>1. op = NoOp
  BY DEF GetCurrentBuffer, Put
<1>2. PosOf(cur[s]) = pos[s] /\ LimitOf(cur[s]) = limit[s]
  BY <1>1 DEF pos, limit, Seen
<1>3. /\ outcome' = "ok"
      /\ pos' = [pos EXCEPT ![t] = pos[s]]
      /\ limit' = [limit EXCEPT ![t] = limit[s]]
  BY <1>2, PutPlaces DEF GetCurrentBuffer
<1> USE DEF total, pos, limit
<1>4. QED
  BY <1>3 DEF Abstract!Copy, Abstract!Place

LEMMA RangeRefines ==
    ASSUME IndInv, NEW b \in Stream, NEW e \in Stream, NEW s \in Stream,
           CreateInputBuffer(b, e, s)
    PROVE  Abstract!Slice(b, e, s) \/ Abstract!SliceOfNothing(b, s)
<1> DEFINE r == FromRange(GetBufferRange(cur[b], cur[e]))
<1>1. /\ Layout /\ CursorOK(cur[b]) /\ CursorOK(cur[e])
      /\ cur[b].isEof \in BOOLEAN
  BY DEF IndInv, Cursor
<1>2. /\ op = NoOp /\ Put(s, r)
      /\ cur[b].blobEnd = cur[e].blobEnd /\ cur[b].lastOffset = cur[e].lastOffset
      /\ PosOf(cur[b]) <= PosOf(cur[e]) /\ (cur[e].isEof \/ ~cur[b].isEof)
  BY DEF CreateInputBuffer, Put
<1>3. /\ pos[b] = PosOf(cur[b]) /\ limit[b] = LimitOf(cur[b])
      /\ pos[e] = PosOf(cur[e]) /\ limit[e] = LimitOf(cur[e])
      /\ limit[b] = limit[e]
  BY <1>2 DEF pos, limit, Seen, LimitOf
<1>4. /\ LimitOf(r) \in pos[e] .. total
      /\ \/ LimitOf(r) = pos[e]
         \/ pos[e] = limit[e] /\ limit[e] < total
      /\ ~cur[b].isEof => PosOf(r) = pos[b]
      /\ cur[b].isEof => PosOf(r) = LimitOf(r)
  BY <1>1, <1>2, <1>3, RangeEnds DEF total
<1>5. /\ outcome' = "ok"
      /\ pos' = [pos EXCEPT ![s] = PosOf(r)]
      /\ limit' = [limit EXCEPT ![s] = LimitOf(r)]
  BY <1>2, PutPlaces
<1> HIDE DEF r
<1>6. CASE ~cur[b].isEof
  <2> USE DEF total, pos, limit
  <2>1. QED
    BY <1>2, <1>3, <1>4, <1>5, <1>6 DEF Abstract!Slice, Abstract!Place
<1>7. CASE cur[b].isEof
  <2>1. pos[b] = limit[b]
    BY <1>1, <1>3, <1>7 DEF CursorOK, PosOf
  <2>2. LimitOf(r) \in 0 .. total
    BY <1>1, <1>3, <1>4, CursorFacts
  <2> USE DEF total, pos, limit
  <2>3. QED
    BY <1>4, <1>5, <1>7, <2>1, <2>2 DEF Abstract!SliceOfNothing, Abstract!Place
<1>8. QED
  BY <1>1, <1>6, <1>7

\* A loop stands as much further as it has read.
LEMMA LoopFacts ==
    ASSUME IndInv, op # NoOp
    PROVE  /\ op.stream \in Stream /\ op.size \in Nat /\ op.left \in Nat
           /\ op.left <= op.size /\ Seen(op.stream) = op.before
           /\ pos[op.stream] = PosOf(op.before)
           /\ limit[op.stream] = LimitOf(op.before)
           /\ LimitOf(cur[op.stream]) = LimitOf(op.before)
           /\ pos[op.stream] \in Nat /\ limit[op.stream] \in Nat
           /\ PosOf(cur[op.stream]) = pos[op.stream] + (op.size - op.left)
           /\ PosOf(cur[op.stream]) <= limit[op.stream]
<1>1. /\ op.stream \in Stream /\ op.size \in Nat /\ op.left \in Nat
      /\ op.left <= op.size
      /\ PosOf(cur[op.stream]) = PosOf(op.before) + (op.size - op.left)
  BY DEF IndInv, LoopOK, Loop
<1>2. Seen(op.stream) = op.before
  BY <1>1 DEF Seen
<1>3. /\ pos[op.stream] = PosOf(op.before)
      /\ limit[op.stream] = LimitOf(op.before)
  BY <1>1, <1>2 DEF pos, limit
<1>4. QED
  BY <1>1, <1>2, <1>3, SeenFacts

\* A loop that throws has found the end before it had all bytes.
LEMMA TooFew ==
    ASSUME IndInv, op # NoOp, op.left # 0,
           PosOf(cur[op.stream]) = LimitOf(cur[op.stream])
    PROVE  ~Abstract!Enough(op.stream, op.size)
<1>1. ~(pos[op.stream] + op.size <= limit[op.stream])
  BY LoopFacts
<1> USE DEF pos, limit
<1>2. QED
  BY <1>1 DEF Abstract!Enough

LEMMA RollBackRefines ==
    ASSUME IndInv, RollBack
    PROVE  Abstract!ReadPieces(op.stream, op.size)
<1>1. /\ op \in Loop /\ op # NoOp /\ cur[op.stream].isEof
      /\ cur' = [cur EXCEPT ![op.stream] = op.before]
  BY RollBackFacts
<1>2. /\ op.stream \in Stream /\ start' = start /\ op' = NoOp
      /\ outcome' = "threw" /\ op.left # 0
  BY <1>1 DEF RollBack, Throw, Loop
<1>3. \A t \in Stream : Seen(t)' = Seen(t)
  BY <1>1, <1>2 DEF Seen, IndInv
<1>4. Abstract!Fail(op.stream, pos[op.stream])
  <2>1. PICK s \in Stream : s = op.stream
    BY <1>2
  <2>2. Seen(s)' = Seen(s) /\ pos[s] = PosOf(Seen(s))
    BY <1>3 DEF pos
  <2>3. Abstract!Fail(s, PosOf(Seen(s)'))
    BY <1>2, <1>3, <2>2, FailRefines
  <2>4. QED
    BY <2>1, <2>2, <2>3
<1>5. PosOf(cur[op.stream]) = LimitOf(cur[op.stream])
  <2>1. CursorOK(cur[op.stream])
    BY <1>2 DEF IndInv
  <2>2. QED
    BY <1>1, <2>1 DEF CursorOK, PosOf
<1>6. ~Abstract!Enough(op.stream, op.size)
  BY <1>1, <1>2, <1>5, TooFew
<1> USE DEF pos
<1>7. QED
  BY <1>4, <1>6 DEF Abstract!ReadPieces

\* A number that is cut off has used up the stream.
LEMMA CutOffRefines ==
    ASSUME IndInv, op # NoOp, op.left # 0, ~Fits(cur[op.stream], 1), Throw,
           UNCHANGED cur
    PROVE  Abstract!ReadNumber(op.stream, op.size)
<1>1. PICK s \in Stream : s = op.stream
  BY LoopFacts
<1>2. op' = NoOp /\ outcome' = "threw" /\ start' = start
  BY DEF Throw
<1>3. Seen(s)' = cur[s] /\ \A t \in Stream \ {s} : Seen(t)' = Seen(t)
  BY <1>1, <1>2 DEF Seen
<1>4. PosOf(cur[s]) = LimitOf(cur[s]) /\ LimitOf(cur[s]) = LimitOf(Seen(s))
  BY <1>1, SeenFacts, DryFacts DEF IndInv
<1>5. Abstract!Fail(s, limit[s])
  <2>1. PosOf(Seen(s)') = limit[s]
    BY <1>3, <1>4 DEF limit
  <2>2. Abstract!Fail(s, PosOf(Seen(s)'))
    BY <1>2, <1>3, <1>4, FailRefines
  <2>3. QED
    BY <2>1, <2>2
<1>6. ~Abstract!Enough(s, op.size)
  BY <1>1, <1>4, TooFew
<1> USE DEF limit
<1>7. QED
  BY <1>1, <1>5, <1>6 DEF Abstract!ReadNumber

\* A loop that returns has read what it was asked for.
LEMMA ReturnRefines ==
    ASSUME IndInv, Return
    PROVE  /\ Abstract!ReadPieces(op.stream, op.size)
           /\ Abstract!ReadNumber(op.stream, op.size)
<1>1. /\ op # NoOp /\ op.left = 0 /\ op' = NoOp /\ outcome' = "ok"
      /\ start' = start /\ cur' = cur
  BY DEF Return
<1>2. PICK s \in Stream : s = op.stream /\ op.size \in Nat
  BY <1>1, LoopFacts
<1>3. /\ Seen(s) = op.before /\ Seen(s)' = cur[s]
      /\ \A t \in Stream \ {s} : Seen(t)' = Seen(t)
  BY <1>1, <1>2 DEF Seen
<1>4. /\ PosOf(cur[s]) = PosOf(Seen(s)) + op.size
      /\ PosOf(cur[s]) <= LimitOf(Seen(s)) /\ LimitOf(cur[s]) = LimitOf(Seen(s))
  BY <1>1, <1>2, <1>3, LoopFacts
<1>5. Abstract!Enough(s, op.size) /\ Abstract!Deliver(s, op.size)
  BY <1>1, <1>2, <1>3, <1>4, DeliverRefines
<1>6. QED
  BY <1>2, <1>5 DEF Abstract!ReadPieces, Abstract!ReadNumber

\* What leaves a loop under way does not show.
LEMMA LoopsHide ==
    ASSUME IndInv, Next, op' # NoOp
    PROVE  UNCHANGED Abstract!vars
<1>1. ASSUME NEW s \in Stream, NEW n, ReadMultiple(s, n)
      PROVE  UNCHANGED Abstract!vars
  BY <1>1, BeginStutters DEF ReadMultiple
<1>2. ASSUME NEW s \in Stream, NEW n, ReadVariable(s, n)
      PROVE  UNCHANGED Abstract!vars
  <2>1. CASE cur[s].ptr + FastPath < cur[s].ptrEnd
    BY <1>2, <2>1 DEF ReadVariable
  <2>2. CASE ~(cur[s].ptr + FastPath < cur[s].ptrEnd)
    BY <1>2, <2>2, BeginStutters DEF ReadVariable
  <2>3. QED
    BY <2>1, <2>2
<1>3. ASSUME Iterate PROVE UNCHANGED Abstract!vars
  <2> DEFINE s == op.stream
  <2>1. op # NoOp
    BY <1>3 DEF Iterate, NoOp
  <2>2. /\ op.left \in Nat /\ s \in Stream /\ CursorOK(cur[s])
        /\ cur[s].ptr \in Nat /\ cur[s].ptrEnd \in Nat
    BY <2>1 DEF IndInv, LoopOK, Loop, CursorOK, Cursor
  <2>3. Chunk(cur[s]) \in Nat /\ Chunk(cur[s]) <= op.left
    BY <2>2 DEF CursorOK, Chunk
  <2>4. QED
    BY <1>3, <2>1, <2>3, StepStutters DEF Iterate
<1>4. ASSUME NextByte PROVE UNCHANGED Abstract!vars
  <2>1. op # NoOp
    BY <1>4 DEF NextByte, NoOp
  <2>2. op.left \in Nat /\ op.left # 0
    BY <1>4, <2>1 DEF NextByte, IndInv, LoopOK, Loop
  <2>3. QED
    BY <1>4, <2>1, <2>2, StepStutters DEF NextByte, Throw
<1>5. QED
  BY <1>1, <1>2, <1>3, <1>4 DEF Next, Open, GetCurrentBuffer,
     CreateInputBuffer, Put, ReadSingle, Throw, RollBack, Return

\* What ends a loop has read what it was asked for, or restores the stream,
\* or has used it up.
LEMMA LoopsRefine ==
    ASSUME IndInv, Next, op' = NoOp, op # NoOp
    PROVE  \/ op.kind = "multiple" /\ Abstract!ReadPieces(op.stream, op.size)
           \/ op.kind = "variable" /\ Abstract!ReadNumber(op.stream, op.size)
<1>1. op.kind \in {"multiple", "variable"} /\ op.left \in Nat
  BY DEF IndInv, LoopOK, Loop
<1>2. ~Iterate
  <2>1. Iterate => op'.kind = op.kind
    BY DEF Iterate, Step, IndInv, LoopOK, Loop
  <2>2. QED
    BY <1>1, <2>1 DEF NoOp
<1>3. CASE RollBack
  BY <1>3, RollBackRefines DEF RollBack
<1>4. CASE Return
  BY <1>1, <1>4, ReturnRefines
<1>5. CASE NextByte
  <2>1. ~Step(1)
    <3>1. Step(1) => op'.kind = op.kind
      BY DEF Step, IndInv, LoopOK, Loop
    <3>2. QED
      BY <1>1, <3>1 DEF NoOp
  <2>2. QED
    BY <1>5, <2>1, CutOffRefines DEF NextByte
<1>6. QED
  BY <1>2, <1>3, <1>4, <1>5 DEF Next, Open, GetCurrentBuffer,
     CreateInputBuffer, Put, ReadSingle, ReadMultiple, ReadVariable, Begin

\* Every operation does what ByteStream does when it is asked for the same.
LEMMA AsAskedHolds ==
    ASSUME IndInv, Next
    PROVE  AsAsked
<1>1. CASE op' # NoOp
  BY <1>1, LoopsHide DEF AsAsked
<1>2. CASE op' = NoOp
  <2>1. op.kind = "multiple" => Abstract!ReadPieces(op.stream, op.size)
    BY <1>2, LoopsRefine DEF NoOp
  <2>2. op.kind = "variable" => Abstract!ReadNumber(op.stream, op.size)
    BY <1>2, LoopsRefine DEF NoOp
  <2>3. ASSUME NEW s \in Stream, NEW n \in 0 .. Bytes + 1, ReadSingle(s, n)
        PROVE  Abstract!ReadWhole(s, n)
    BY <2>3, SingleRefines, Bounds
  <2>4. ASSUME NEW s \in Stream, NEW n \in 1 .. FastPath + 1, ReadVariable(s, n)
        PROVE  Abstract!ReadNumber(s, n)
    BY <1>2, <2>4, QuickRefines
  <2>5. QED
    BY <1>2, <2>1, <2>2, <2>3, <2>4, OpenRefines, CopyRefines, RangeRefines
       DEF AsAsked
<1>3. QED
  BY <1>1, <1>2

\* What is asked for in bytes is a step of ByteStream, however much it is.
LEMMA AnyAmount ==
    ASSUME IndInv, NEW s \in Stream, NEW n \in Nat, start' = start,
           \/ Abstract!ReadWhole(s, n)
           \/ Abstract!ReadPieces(s, n)
           \/ Abstract!ReadNumber(s, n)
    PROVE  Abstract!Next
<1>1. total' = total /\ cuts' = cuts
  BY DEF total, cuts
<1>2. /\ pos[s] \in Nat /\ limit[s] \in Nat /\ total \in Nat
      /\ limit[s] <= total
  BY SeenFacts DEF pos, limit
<1>3. PICK m \in 0 .. total + 1 :
          \/ Abstract!ReadWhole(s, m)
          \/ Abstract!ReadPieces(s, m)
          \/ Abstract!ReadNumber(s, m)
  <2>1. CASE n <= total + 1
    BY <1>2, <2>1
  <2>2. CASE total + 1 < n
    <3>1. ~(pos[s] + n <= limit[s]) /\ ~(pos[s] + (total + 1) <= limit[s]) /\ n # 0
      BY <1>2, <2>2
    <3>2. total + 1 \in 0 .. total + 1
      BY <1>2
    <3>3. ~Abstract!Enough(s, n) /\ ~Abstract!Enough(s, total + 1)
      BY <3>1 DEF Abstract!Enough, pos, limit
    <3>4. \/ Abstract!ReadWhole(s, total + 1)
          \/ Abstract!ReadPieces(s, total + 1)
          \/ Abstract!ReadNumber(s, total + 1)
      BY <3>1, <3>3 DEF Abstract!ReadWhole, Abstract!ReadPieces,
         Abstract!ReadNumber, Abstract!Whole
    <3>5. QED
      BY <3>2, <3>4
  <2>3. QED
    BY <1>2, <2>1, <2>2
<1> USE DEF total, cuts
<1>4. QED
  BY <1>1, <1>3 DEF Abstract!Next

LEMMA NextRefines == IndInv /\ [Next]_vars => [Abstract!Next]_(Abstract!vars)
<1> SUFFICES ASSUME IndInv, [Next]_vars
             PROVE  [Abstract!Next]_(Abstract!vars)
  OBVIOUS
<1>1. CASE UNCHANGED vars
  <2>1. start' = start /\ cur' = cur /\ op' = op /\ outcome' = outcome
    BY <1>1 DEF vars
  <2>2. \A t \in Stream : Seen(t)' = Seen(t)
    BY <2>1 DEF Seen
  <2>3. QED
    BY <2>1, <2>2, LoopStutters
<1>2. CASE Next /\ op' # NoOp
  BY <1>2, LoopsHide
<1>3. CASE Next /\ op' = NoOp /\ op # NoOp
  <2>1. op.stream \in Stream /\ op.size \in Nat
    BY <1>3, LoopFacts
  <2>2. start' = start
    BY <1>3 DEF Next, Open, GetCurrentBuffer, CreateInputBuffer, Put,
       ReadSingle, ReadMultiple, ReadVariable, Begin, Iterate, RollBack,
       NextByte, Return, Step, Throw
  <2>3. QED
    BY <1>3, <2>1, <2>2, LoopsRefine, AnyAmount
<1>4. CASE Next /\ op' = NoOp /\ op = NoOp
  <2>1. ASSUME NEW s \in Stream, NEW n \in 0 .. Bytes + 1, ReadSingle(s, n)
        PROVE  Abstract!Next
    <3>1. n \in Nat /\ start' = start
      BY <2>1, Bounds DEF ReadSingle, Throw
    <3>2. QED
      BY <2>1, <3>1, SingleRefines, AnyAmount
  <2>2. ASSUME NEW s \in Stream, NEW n \in 1 .. FastPath + 1, ReadVariable(s, n)
        PROVE  Abstract!Next
    <3>1. start' = start
      BY <2>2 DEF ReadVariable, Begin
    <3>2. QED
      BY <1>4, <2>2, <3>1, QuickRefines, AnyAmount
  <2>3. ASSUME NEW s \in Stream, NEW c, Put(s, c)
        PROVE  total' = total /\ cuts' = cuts
    BY <2>3 DEF Put, total, cuts
  <2>4. ASSUME NEW s \in Stream, Open(s) PROVE Abstract!Next
    <3>1. total' = total /\ cuts' = cuts
      BY <2>3, <2>4 DEF Open
    <3>2. QED
      BY <2>4, <3>1, OpenRefines DEF Abstract!Next, total, cuts
  <2>5. ASSUME NEW s \in Stream, NEW t \in Stream, GetCurrentBuffer(s, t)
        PROVE  Abstract!Next
    <3>1. total' = total /\ cuts' = cuts
      BY <2>3, <2>5 DEF GetCurrentBuffer
    <3>2. QED
      BY <2>5, <3>1, CopyRefines DEF Abstract!Next, total, cuts
  <2>6. ASSUME NEW s \in Stream, NEW b \in Stream, NEW e \in Stream,
               CreateInputBuffer(b, e, s)
        PROVE  Abstract!Next
    <3>1. total' = total /\ cuts' = cuts
      BY <2>3, <2>6 DEF CreateInputBuffer
    <3>2. QED
      BY <2>6, <3>1, RangeRefines DEF Abstract!Next, total, cuts
  <2>7. ASSUME NEW s \in Stream, NEW n, ReadMultiple(s, n) PROVE FALSE
    <3>1. op'.kind = "multiple"
      BY <2>7 DEF ReadMultiple, Begin
    <3>2. QED
      BY <1>4, <3>1 DEF NoOp
  <2>8. ~Iterate /\ ~RollBack /\ ~NextByte /\ ~Return
    BY <1>4 DEF Iterate, RollBack, NextByte, Return, NoOp
  <2>9. QED
    BY <1>4, <2>1, <2>2, <2>4, <2>5, <2>6, <2>7, <2>8 DEF Next
<1>5. QED
  BY <1>1, <1>2, <1>3, <1>4

\* Whatever blobs a buffer has, and whatever is read of it, alone or through
\* ranges: whoever asks for n bytes gets exactly the next n of that stream,
\* and an exception just if they are not there, or not in one blob where
\* they have to be (InputBuffer.h:24-160).
THEOREM BytesInOrder == Spec => DeliversInOrder
<1>1. Spec => Abstract!Init /\ [][Abstract!Next]_(Abstract!vars)
  BY Invariance, InitRefines, NextRefines, PTL DEF Spec
<1>2. IndInv /\ [Next]_vars => [AsAsked]_vars
  BY AsAskedHolds
<1>3. Spec => [][AsAsked]_vars
  BY <1>2, Invariance, PTL DEF Spec
<1>4. QED
  BY <1>1, <1>3 DEF DeliversInOrder, Abstract!Spec
=============================================================================
