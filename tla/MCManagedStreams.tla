-------------------------- MODULE MCManagedStreams --------------------------
(* ManagedStreams on a small pool.  Data of a pool and readers of a buffer *)
(* are interchangeable.                                                    *)
EXTENDS ManagedStreams, TLC

Symmetric == Permutations(Data) \cup Permutations(Reader)
=============================================================================
