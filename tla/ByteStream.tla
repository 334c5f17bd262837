----------------------------- MODULE ByteStream -----------------------------
(***************************************************************************)
(* What InputBuffer (Inc/IPC/Bond/InputBuffer.h) promises to those who     *)
(* read: streams over the same bytes, each with a position and a limit.    *)
(* Empty blobs, offsets and rollback do not show; of the blobs all that    *)
(* shows is where they meet, as some items must lie within one.            *)
(***************************************************************************)
EXTENDS Naturals

CONSTANT Stream

VARIABLES
    total,      \* how many bytes there are
    cuts,       \* where a blob ends and the next one begins
    pos,        \* the next byte that a stream delivers
    limit,      \* the end of a stream
    outcome     \* of the last operation that ended: "ok" or "threw"

vars == <<total, cuts, pos, limit, outcome>>

Init ==
    /\ total \in Nat /\ cuts \subseteq 0 .. total
    /\ pos = [s \in Stream |-> total] /\ limit = pos
    /\ outcome = "ok"

Place(s, from, to) ==
    /\ pos' = [pos EXCEPT ![s] = from]
    /\ limit' = [limit EXCEPT ![s] = to]
    /\ outcome' = "ok"

Open(s) == Place(s, 0, total)

Copy(s, t) == Place(t, pos[s], limit[s])

\* A stream over what lies between b and e, which share their limit.  When e
\* is at the end of a stream that is itself a part of the bytes, the new
\* stream may reach further than e.
Slice(b, e, s) ==
    /\ limit[b] = limit[e] /\ pos[b] <= pos[e]
    /\ \E to \in pos[e] .. total :
        /\ to = pos[e] \/ (pos[e] = limit[e] /\ limit[e] < total)
        /\ Place(s, pos[b], to)

\* What lies between two streams at their end is nothing, wherever it is.
SliceOfNothing(b, s) ==
    /\ pos[b] = limit[b]
    /\ \E at \in 0 .. total : Place(s, at, at)

\* The next n bytes are there, and are there in one blob.
Enough(s, n) == pos[s] + n <= limit[s]
Whole(s, n) ==
    Enough(s, n) /\ \A k \in cuts : k <= pos[s] \/ pos[s] + n <= k

\* The next n bytes are delivered, none twice and none left out.
Deliver(s, n) ==
    /\ pos' = [pos EXCEPT ![s] = @ + n]
    /\ limit' = limit
    /\ outcome' = "ok"

\* Nothing is delivered, and the stream is left standing at p.
Fail(s, p) ==
    /\ pos' = [pos EXCEPT ![s] = p]
    /\ limit' = limit
    /\ outcome' = "threw"

\* An item of n bytes that is read from one blob: it is delivered just if it
\* lies in one.  Nothing may be refused as well where there is nothing left.
ReadWhole(s, n) ==
    \/ Whole(s, n) /\ Deliver(s, n)
    \/ (~Whole(s, n) \/ (n = 0 /\ pos[s] = limit[s])) /\ Fail(s, pos[s])

\* Bytes that may lie in several blobs: all of them, or none.
ReadPieces(s, n) ==
    \/ Enough(s, n) /\ Deliver(s, n)
    \/ ~Enough(s, n) /\ Fail(s, pos[s])

\* A number of variable length: one that is cut off uses up the stream.
ReadNumber(s, n) ==
    \/ Enough(s, n) /\ Deliver(s, n)
    \/ ~Enough(s, n) /\ Fail(s, limit[s])

\* To ask for more than total + 1 bytes is no different from asking for that.
Next ==
    /\ total' = total /\ cuts' = cuts
    /\ \E s \in Stream :
        \/ Open(s)
        \/ \E n \in 0 .. total + 1 :
            ReadWhole(s, n) \/ ReadPieces(s, n) \/ ReadNumber(s, n)
        \/ \E t \in Stream :
            \/ Copy(s, t)
            \/ SliceOfNothing(t, s)
            \/ \E e \in Stream : Slice(t, e, s)

Spec == Init /\ [][Next]_vars
=============================================================================
