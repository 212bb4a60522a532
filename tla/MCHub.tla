-------------------------------- MODULE MCHub --------------------------------
(* Instances of Hub for TLC.                                               *)
EXTENDS Hub

CONSTANTS c1, u1, u2

\* Two tabs of the same user, one of which may also present the token of another.
TwoTabs == [c \in Conns |-> IF c = c1 THEN {u1, u2} ELSE {u1}]
=============================================================================
