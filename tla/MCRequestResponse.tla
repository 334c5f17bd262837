------------------------- MODULE MCRequestResponse -------------------------
(* A RequestResponse with the settings that differ in what is understood:  *)
(* the client's protocol stands for either, ends in C# are tried with one  *)
(* form of payload at both ends.  One call has no timeout; the other has   *)
(* one, and passes a callback if it can and its requests are not marshaled.*)
EXTENDS RequestResponse

CONSTANTS c1, p1

\* One handler may call its callback twice.
OnceTwice == [c \in Call |-> IF c = c1 THEN 1 ELSE 2]

MCInit ==
    /\ Init
    /\ asked["client"].protocol = p1
    /\ asked["client"].marshal => asked["server"].protocol # p1
    /\ asked["server"].marshal =>
            asked["client"].marshal \/ asked["server"].protocol = p1
    /\ (\E e \in End : asked[e].managed) =>
            asked["client"].marshal = asked["server"].marshal
    /\ how = [c \in Call |->
                 [future |-> \/ c = c1
                             \/ asked["client"].marshal
                             \/ asked["client"].managed,
                  timed  |-> c # c1]]

MCSpec == MCInit /\ [][Next]_vars /\ Fairness
=============================================================================
