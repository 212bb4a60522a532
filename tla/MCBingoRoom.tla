---------------------------- MODULE MCBingoRoom ----------------------------
(* Instances of BingoRoom for TLC.                                         *)
EXTENDS BingoRoomRefines

CONSTANTS g1, c1, c2, c3, u1, u2, u3, k1

\* Each user on a connection of its own.
OneEach == [c \in Conns |-> CASE c = c1 -> {u1} [] c = c2 -> {u2} [] OTHER -> {u3}]

\* Two users, the second connection for either of them.
SharedConn == [c \in Conns |-> IF c = c1 THEN {u1} ELSE {u1, u2}]

\* Boards that win with ball 1, whenever it is drawn.
MCLines == [k \in Cards |-> {{1}}]

\* Boards that win with the last ball only, whatever the order.
LastBallLines == [k \in Cards |-> {Balls}]

OneStake == [g \in Games |-> 1]

\* Everyone can pay one stake.
Solvent1 == [u \in Users |-> 100]
Rich == [u \in Users |-> 1000]

\* Everyone can pay a stake twice but u2, who can pay once.
OnceForU2 == [u \in Users |-> IF u = u2 THEN 100 ELSE 250]
=============================================================================
