---------------------------- MODULE GameContract ----------------------------
(***************************************************************************)
(* What a game promises its players, whoever runs it: cards are taken, the *)
(* stakes of enough players are taken at once and for the same pool, balls *)
(* are drawn, a complete line ends the game, and one prize is paid.  It    *)
(* admits one thing that goes wrong: stakes that are taken for a start of  *)
(* which the game does not know.  Sessions, rooms, goroutines, connections *)
(* and other failing calls are not here: module BingoRoomRefines says what *)
(* becomes of them.                                                        *)
(***************************************************************************)
EXTENDS Integers, Sequences, FiniteSets

CONSTANTS
    Games, Users, Balls, Cards,
    Lines,        \* Lines[k]: the sets of balls that complete board k
    Stake,        \* Stake[g]: the stake of game g
    MinPlayers,   \* the least number of stakes a game is played for
    Deposit,      \* Deposit[u]: what user u has at the start, in cents
    LostReply     \* may a start be reported as failed that was not?

VARIABLES
    phase,        \* of each game: "lobby", "playing" or "over"
    players,      \* who has a card
    paid,         \* the stakes taken from each user
    pool,         \* 85 per cent of the stakes of the last start, in cents
    drawn,        \* the balls drawn
    counted,      \* the players the prize is for, or 0
    prizes,       \* the prizes paid
    wallet        \* what each user has

vars == <<phase, players, paid, pool, drawn, counted, prizes, wallet>>

Share(g, n) == 85 * n * Stake[g]

\* A card is taken: in the lobby, or too late to be charged for it.
TakeCard(g, u) ==
    /\ players' = [players EXCEPT ![g] = @ \cup {u}]
    /\ UNCHANGED <<phase, paid, pool, drawn, counted, prizes, wallet>>

\* The stakes of the players of P, each of whom can pay: all of them are taken, or none.
TakeStakes(g, P) ==
    /\ phase[g] = "lobby"
    /\ P \subseteq players[g] /\ Cardinality(P) >= MinPlayers
    /\ \A u \in P : wallet[u] >= 100 * Stake[g]
    /\ paid' = [paid EXCEPT ![g] = [u \in Users |-> IF u \in P THEN @[u] + 1 ELSE @[u]]]
    /\ pool' = [pool EXCEPT ![g] = Share(g, Cardinality(P))]
    /\ wallet' = [u \in Users |-> IF u \in P THEN wallet[u] - 100 * Stake[g] ELSE wallet[u]]
    /\ UNCHANGED <<players, drawn, counted, prizes>>

\* The game starts for the players of P.
Start(g, P) ==
    /\ TakeStakes(g, P)
    /\ phase' = [phase EXCEPT ![g] = "playing"]

\* It does not, although their stakes are gone: it will start again, and take them again.
StartUnnoticed(g, P) ==
    /\ LostReply
    /\ TakeStakes(g, P)
    /\ UNCHANGED phase

Draw(g, b) ==
    /\ phase[g] = "playing" /\ b \notin drawn[g]
    /\ drawn' = [drawn EXCEPT ![g] = @ \cup {b}]
    /\ UNCHANGED <<phase, players, paid, pool, counted, prizes, wallet>>

\* Some board is complete.
Finish(g) ==
    /\ phase[g] = "playing"
    /\ \E k \in Cards : \E line \in Lines[k] : line \subseteq drawn[g]
    /\ phase' = [phase EXCEPT ![g] = "over"]
    /\ UNCHANGED <<players, paid, pool, drawn, counted, prizes, wallet>>

\* The prize is for those who have a card by now ...
Count(g) ==
    /\ phase[g] = "over" /\ counted[g] = 0
    /\ counted' = [counted EXCEPT ![g] = Cardinality(players[g])]
    /\ UNCHANGED <<phase, players, paid, pool, drawn, prizes, wallet>>

\* ... and is paid to one user, once.
Pay(g, u) ==
    /\ counted[g] > 0 /\ prizes[g] = <<>>
    /\ LET amount == Share(g, counted[g]) IN
       /\ prizes' = [prizes EXCEPT ![g] = <<[user |-> u, amount |-> amount]>>]
       /\ wallet' = [wallet EXCEPT ![u] = @ + amount]
    /\ UNCHANGED <<phase, players, paid, pool, drawn, counted>>

Init ==
    /\ phase = [g \in Games |-> "lobby"]
    /\ players = [g \in Games |-> {}]
    /\ paid = [g \in Games |-> [u \in Users |-> 0]]
    /\ pool = [g \in Games |-> 0]
    /\ drawn = [g \in Games |-> {}]
    /\ counted = [g \in Games |-> 0]
    /\ prizes = [g \in Games |-> <<>>]
    /\ wallet = Deposit

Next ==
    \E g \in Games :
        \/ \E u \in Users : TakeCard(g, u) \/ Pay(g, u)
        \/ \E P \in SUBSET Users : Start(g, P) \/ StartUnnoticed(g, P)
        \/ \E b \in Balls : Draw(g, b)
        \/ Finish(g) \/ Count(g)

Spec == Init /\ [][Next]_vars
=============================================================================
