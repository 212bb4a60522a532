------------------------------ MODULE MCWallet ------------------------------
(* An instance of Wallet for TLC.                                          *)
EXTENDS WalletInv

CONSTANTS s1, s2, s3, w1, u1, u2, u3

\* Any two of the starts share one user, and so may wait in a circle of three.
SharedBatch == [s \in Starts |-> CASE s = s1 -> {u1, u2} [] s = s2 -> {u2, u3} [] OTHER -> {u1, u3}]
Stakes == [s \in Starts |-> IF s = s1 THEN 2 ELSE 3]
\* u1 wins what it lacks for its two stakes.
FirstUser == [w \in Wins |-> u1]
Prizes == [w \in Wins |-> 2]

\* u1 can pay one of its two stakes, u2 just both, u3 just one, from both balances.
MainMC == [u \in Users |-> IF u = u3 THEN 1 ELSE 3]
PlayMC == [u \in Users |-> IF u = u1 THEN 1 ELSE 2]
=============================================================================
