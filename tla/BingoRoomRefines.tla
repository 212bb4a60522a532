-------------------------- MODULE BingoRoomRefines --------------------------
(***************************************************************************)
(* BingoRoom implements GameContract: what each variable of the contract   *)
(* is in the rooms and rows of the backend.                                *)
(***************************************************************************)
EXTENDS BingoRoomInv

\* A game is being played from the commit that startGame knows of, whatever Room.Status
\* says before and after it, until its room goes into resolution.
phaseOf == [g \in Games |-> IF status[g] = "resolution" THEN "over"
                            ELSE IF Unstarted(g) THEN "lobby" ELSE "playing"]
playersOf == [g \in Games |-> Ready(g)]

Contract == INSTANCE GameContract
    WITH phase <- phaseOf, players <- playersOf, paid <- stakes, pool <- dbPrize,
         drawn <- called, prizes <- wins, wallet <- balance

\* What the goroutines of startGame, runBallDrops and resolveGame and the transactions of
\* the services do together looks like the operations of the contract, one at a time and
\* each as a whole.  A commit whose reply is lost is a start that goes unnoticed.
ImplementsContract == Contract!Spec

-----------------------------------------------------------------------------
(* What the rooms of module RoomLife are here: one for each game.          *)

\* A start has failed when DeductStakesAndStart has returned an error, and a room is
\* resolved when its row has been updated, or the update was lost.
lifeOf(g) ==
    IF ~open[g] THEN "removed"
    ELSE IF status[g] = "lobby" \/ StartAt(g, {"revert"}) THEN "lobby"
    ELSE IF StartAt(g, {"collect"}) THEN "taken"
    ELSE IF StartAt(g, {"deduct"}) THEN "starting"
    ELSE IF status[g] = "resolution" /\ drops[g] # "record" THEN "resolution" ELSE "active"

Collected(g) == UNION {batch[p] : p \in {q \in Procs : pc[q] = "deduct" /\ RoomOf(q) = g}}

\* From the commit on, those whose stakes it has taken are those who have paid.
takenOf(g) == IF StartAt(g, {"deduct"}) THEN Collected(g)
              ELSE IF Unstarted(g) THEN {} ELSE Payers(g)

Life == INSTANCE RoomLife
    WITH Rooms <- Games, None <- Nil, phase <- [g \in Games |-> lifeOf(g)],
         game <- [g \in Games |-> g], ready <- playersOf,
         batch <- [g \in Games |-> takenOf(g)], row <- dbStatus, paid <- stakes

\* The rooms live the life that module RoomLookup has of them, with the same effects on
\* session rows and stakes, whatever replies are lost.
ImplementsLife == Life!Spec
=============================================================================
