---------------------------- MODULE BingoRoomInv ----------------------------
(***************************************************************************)
(* The inductive invariants behind the theorems of BingoRoomProofs, kept   *)
(* apart from the proofs so that TLC can check them too.                   *)
(***************************************************************************)
EXTENDS BingoRoom

\* What a goroutine relies on when it uses a reference: the reader's room, the board it
\* has just been given, the room of the client the hub handles, the winner's board.
Assigned ==
    /\ \A c \in Conns : /\ pc[c] \notin {"idle", "closed", "lookup"} => gameID[c] # Nil
                        /\ pc[c] = "taken" => cartela[c] # Nil
                        /\ pc[c] = "lookup" \/ gameID[c] # Nil \/ cartela[c] # Nil
                              => userID[c] # Nil
    /\ hub # Nil => gameID[hub.client] # Nil
    /\ \A g \in Games : drops[g] \in {"settle", "record", "count", "credit"}
                           => winner[g] # Nil /\ cartela[winner[g]] # Nil

Typed == TypeOK /\ Assigned

\* Balls drop only after the room has left the lobby for good.
Exclusive == StartExclusive /\ \A g \in Games : status[g] = "lobby" => drops[g] = "none"

\* Who is in a startGame call is ready, and so is who has paid.
Charged ==
    /\ \A p \in Procs : pc[p] = "deduct" => batch[p] \subseteq Ready(RoomOf(p))
    /\ ChargedHadCard

\* Is a goroutine of the room at one of these points of startGame?
StartAt(g, labels) == \E p \in Procs : pc[p] \in labels /\ RoomOf(p) = g

\* No start of the game has committed that startGame knows of.
Unstarted(g) == status[g] = "lobby" \/ StartAt(g, {"collect", "deduct", "revert"})

\* Before a start commits that startGame knows of, each stake already taken is one whose
\* commit was reported as a failure.
Repeats ==
    \A g \in Games, u \in Users :
        stakes[g][u] <= IF Unstarted(g) THEN lost[g] ELSE 1 + lost[g]

\* A start takes the stakes of everyone who has paid before and of the others in its batch,
\* so that what it writes is the pool of one stake of each of them.
Pooled ==
    /\ \A p \in Procs : /\ pc[p] = "deduct" => Payers(RoomOf(p)) \subseteq batch[p]
                        /\ pc[p] = "launch" => dbStatus[RoomOf(p)] # "lobby"
    /\ \A g \in Games : /\ drops[g] # "none" => dbStatus[g] # "lobby"
                        /\ dbStatus[g] # "lobby"
                              => dbPrize[g] = PrizePool(g, Cardinality(Payers(g)))

\* The session row leaves the lobby with the first commit, and is resolved after the room.
Rows ==
    \A g \in Games : /\ Unstarted(g) /\ lost[g] = 0 => dbStatus[g] = "lobby"
                     /\ dbStatus[g] = "resolution" => status[g] = "resolution"

\* The quorum that took the room out of the lobby is still there at every later step.
Quorate ==
    /\ \A p \in Procs : /\ pc[p] = "collect" => Enough(RoomOf(p))
                        /\ pc[p] = "deduct" => Cardinality(batch[p]) >= MinPlayers
                        /\ pc[p] = "launch" => Cardinality(Payers(RoomOf(p))) >= MinPlayers
    /\ \A g \in Games : /\ drops[g] # "none" => Cardinality(Payers(g)) >= MinPlayers
                        /\ drops[g] = "none" => called[g] = {}

\* The only goroutine on its way to a payment has found the room unresolved.
Prizes ==
    \A g \in Games :
        /\ status[g] # "resolution" => wins[g] = <<>> /\ counted[g] = 0
        /\ drops[g] \in {"record", "count", "credit"}
              => status[g] = "resolution" /\ wins[g] = <<>>
        /\ drops[g] \in {"record", "count"} => counted[g] = 0
        /\ drops[g] = "credit" => counted[g] > 0
        /\ Len(wins[g]) <= 1

\* What is settled is a game that some board has won with the balls called so far, also
\* when the winner's client has another board by now.
Judged == \A g \in Games : drops[g] = "settle" => \E k \in Cards : Wins(k, called[g])

\* A room is removed after its prize, and it stays resolved.
Removed == \A g \in Games : open[g] \/ (status[g] = "resolution" /\ drops[g] \in {"drop", "done"})

\* All of them together: what every reachable state satisfies, and what each step of the
\* theorems is proved from.
IInv == /\ Typed /\ Exclusive /\ Charged /\ Quorate
        /\ Repeats /\ Pooled /\ Rows /\ Prizes /\ Judged
=============================================================================
