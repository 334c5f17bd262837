----------------------------- MODULE CallTable -----------------------------
(***************************************************************************)
(* What a caller and a service may rely on (Inc/IPC/Bond/Client.h and      *)
(* Server.h), without buffers, pools, serializers or connections.          *)
(*                                                                         *)
(* A call is under way until it ends once and for all: with the answer of  *)
(* the service, with an error in place of it, without an answer, or        *)
(* because it was never sent.  The service sees a call at most once, and   *)
(* only while it knows of it can there be an answer.                       *)
(***************************************************************************)
CONSTANT Call

VARIABLES
    status,     \* of each call, what its caller knows
    seen        \* the calls that the service was given

vars == <<status, seen>>

Init ==
    /\ status = [c \in Call |-> "none"]
    /\ seen = {}

Begin(c) ==
    /\ status[c] = "none"
    /\ status' = [status EXCEPT ![c] = "pending"]
    /\ UNCHANGED seen

\* Neither a service nor a memory to serialize to is needed to fail early.
Refuse(c) ==
    /\ status[c] \in {"none", "pending"} /\ c \notin seen
    /\ status' = [status EXCEPT ![c] = "threw"]
    /\ UNCHANGED seen

Serve(c) ==
    /\ status[c] \notin {"none", "threw"} /\ c \notin seen
    /\ seen' = seen \cup {c}
    /\ UNCHANGED status

Answer(c) ==
    /\ status[c] = "pending" /\ c \in seen
    /\ \E s \in {"value", "error"} : status' = [status EXCEPT ![c] = s]
    /\ UNCHANGED seen

\* Calls may end together, when their connection does.
Abandon ==
    /\ \E C \in SUBSET Call :
           /\ \A c \in C : status[c] = "pending"
           /\ status' = [c \in Call |-> IF c \in C THEN "unanswered"
                                        ELSE status[c]]
    /\ UNCHANGED seen

Next ==
    \/ \E c \in Call : Begin(c) \/ Refuse(c) \/ Serve(c) \/ Answer(c)
    \/ Abandon

Spec == Init /\ [][Next]_vars
=============================================================================
