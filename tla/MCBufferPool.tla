---------------------------- MODULE MCBufferPool ----------------------------
(* Instances of BufferPool for TLC.                                        *)
EXTENDS BufferPool, TLC

CONSTANTS p1, p2, q2, i1, d1

\* Every pool belongs to p1; p2 gets ConstBuffers only.
OneHost == [q \in Pool |-> p1]

\* Each process has a pool.
TwoHosts == [q \in Pool |-> IF q = q2 THEN p2 ELSE p1]

\* One item and one Data stand for all of them: nothing in the specification
\* tells one from another.
DestructorsEnd == DestructorEnds(i1) /\ DestructionEnds(d1)

\* The liveness run leaves aside the contents of the blobs, what is sent to
\* other processes and the end of the pools: no destructor waits for them.
EmptyBlobs ==
    /\ Init
    /\ [][/\ Next
          /\ UNCHANGED <<bytes, open>>
          /\ \A i \in Item : kind'[i] # "ConstBuffer"]_vars
    /\ Fairness

Symmetric == Permutations(Item) \cup Permutations(Data)
=============================================================================
