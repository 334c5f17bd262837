----------------------------- MODULE SharedData -----------------------------
(***************************************************************************)
(* What the pool promises to those who share its buffers, without counts,  *)
(* destructors, queues or processes (Inc/IPC/Bond/BufferPool.h).           *)
(*                                                                         *)
(* A Data is free (not constructed), in use, or idle in a pool.  A reader  *)
(* joins a Data that is in use through another reader, or alone when it    *)
(* takes the Data.  The bytes of a Data stay while it has a reader, and a  *)
(* Data that is taken is empty.                                            *)
(***************************************************************************)
CONSTANTS Data, Reader

VARIABLES
    status,     \* "free", "used" or "idle", of each Data
    readers,    \* who may look at the contents of a Data
    full        \* whether a Data has contents

vars == <<status, readers, full>>

Init ==
    /\ status = [d \in Data |-> "free"]
    /\ readers = [d \in Data |-> {}]
    /\ full = [d \in Data |-> FALSE]

\* A Data that nobody uses is taken by one reader, who finds it empty.
Take(d) ==
    /\ status[d] \in {"free", "idle"} /\ status'[d] = "used"
    /\ \E r \in Reader : readers'[d] = {r}
    /\ ~full'[d]

\* A reader gives another one access.
Share(d) ==
    /\ readers[d] # {} /\ status'[d] = status[d]
    /\ \E r \in Reader : readers'[d] = readers[d] \cup {r}
    /\ full'[d] = full[d]

Fill(d) ==
    /\ readers[d] # {} /\ readers'[d] = readers[d]
    /\ status'[d] = status[d] /\ full'[d]

Leave(d) ==
    /\ \E r \in readers[d] : readers'[d] = readers[d] \ {r}
    /\ status'[d] = status[d] /\ full'[d] = full[d]

\* The last reader may drop the Data for good.
Discard(d) ==
    /\ readers'[d] = {} /\ status'[d] = "free" /\ ~full'[d]
    /\ \A r, s \in readers[d] : r = s

\* A Data without readers is emptied, and goes to a pool when it is empty.
Empty(d) ==
    /\ readers[d] = {} /\ readers'[d] = {}
    /\ status[d] = "used" /\ status'[d] = "used"
    /\ ~full'[d]

Recycle(d) ==
    /\ readers[d] = {} /\ readers'[d] = {}
    /\ status[d] = "used" /\ ~full[d]
    /\ status'[d] = "idle" /\ ~full'[d]

Stay(d) ==
    /\ readers'[d] = readers[d] /\ status'[d] = status[d]
    /\ full'[d] = full[d]

Step(d) ==
    \/ Take(d)
    \/ Share(d)
    \/ Fill(d)
    \/ Leave(d)
    \/ Discard(d)
    \/ Empty(d)
    \/ Recycle(d)
    \/ Stay(d)

\* One step of a program may concern several Data.
Next == \A d \in Data : Step(d)

Spec == Init /\ [][Next]_vars
=============================================================================
