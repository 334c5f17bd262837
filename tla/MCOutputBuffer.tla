--------------------------- MODULE MCOutputBuffer ---------------------------
(* An OutputBuffer on a small pool.  Data of a pool are interchangeable.   *)
EXTENDS OutputBuffer

Symmetric == Permutations(Data)
=============================================================================
