------------------------------ MODULE RoomLife ------------------------------
(***************************************************************************)
(* What becomes of a Room object and of the row and stakes of its game,    *)
(* whoever runs it: it is made for a game, seats players, leaves the lobby *)
(* when there are enough of them, takes the stakes of those it collects or *)
(* goes back, ends, and is removed.  Several rooms may be made for a game. *)
(* BingoRoom implements this with goroutines that interleave, RoomLookup   *)
(* with rooms that are looked up: so the two have the same rooms.          *)
(***************************************************************************)
EXTENDS Integers, FiniteSets

CONSTANTS
    Rooms, Games, Users,
    MinPlayers,   \* the least number of seated players with which a room leaves the lobby
    LostReply,    \* may a commit be reported as failed that was not?
    None          \* no game

VARIABLES
    phase,        \* of each room
    game,         \* the game it was made for, or None
    ready,        \* its seated players
    batch,        \* whose stakes it is taking, or has taken
    row,          \* the status of the row of each game
    paid          \* paid[g][u]: the stakes taken from u for game g

vars == <<phase, game, ready, batch, row, paid>>

MoveTo(i, p) == phase' = [phase EXCEPT ![i] = p]

Make(i, g) ==
    /\ phase[i] = "unmade"
    /\ MoveTo(i, "lobby")
    /\ game' = [game EXCEPT ![i] = g]
    /\ UNCHANGED <<ready, batch, row, paid>>

\* Players sit down in the lobby, and also later.
Seat(i, u) ==
    /\ phase[i] \notin {"unmade", "removed"}
    /\ ready' = [ready EXCEPT ![i] = @ \cup {u}]
    /\ UNCHANGED <<phase, game, batch, row, paid>>

TakeOut(i) ==
    /\ phase[i] = "lobby" /\ Cardinality(ready[i]) >= MinPlayers
    /\ MoveTo(i, "taken")
    /\ UNCHANGED <<game, ready, batch, row, paid>>

Collect(i) ==
    /\ phase[i] = "taken"
    /\ MoveTo(i, "starting")
    /\ batch' = [batch EXCEPT ![i] = ready[i]]
    /\ UNCHANGED <<game, ready, row, paid>>

\* One stake of everyone who was collected, for the room's game.
Take(i) ==
    /\ row' = [row EXCEPT ![game[i]] = "active"]
    /\ paid' = [paid EXCEPT ![game[i]] = [u \in Users |-> IF u \in batch[i] THEN @[u] + 1 ELSE @[u]]]

\* The stakes of all who were collected are taken at once ...
Commit(i) ==
    /\ phase[i] = "starting"
    /\ MoveTo(i, "active")
    /\ Take(i)
    /\ UNCHANGED <<game, ready, batch>>

\* ... or none is, and the room is in the lobby again.  It is so, too, when they were taken
\* and the reply is lost.
Fail(i) ==
    /\ phase[i] = "starting"
    /\ MoveTo(i, "lobby")
    /\ batch' = [batch EXCEPT ![i] = {}]
    /\ UNCHANGED <<row, paid>> \/ (LostReply /\ Take(i))
    /\ UNCHANGED <<game, ready>>

\* The update of the row may be lost.
Resolve(i) ==
    /\ phase[i] = "active"
    /\ MoveTo(i, "resolution")
    /\ row' \in {row, [row EXCEPT ![game[i]] = "resolution"]}
    /\ UNCHANGED <<game, ready, batch, paid>>

Remove(i) ==
    /\ phase[i] = "resolution"
    /\ MoveTo(i, "removed")
    /\ UNCHANGED <<game, ready, batch, row, paid>>

\* The server stops.
Stop ==
    /\ phase' = [i \in Rooms |-> IF phase[i] = "unmade" THEN "unmade" ELSE "removed"]
    /\ UNCHANGED <<game, ready, batch, row, paid>>

\* Rooms that are there from the start have a game and nobody in them.
Init ==
    /\ phase \in [Rooms -> {"unmade", "lobby"}]
    /\ game \in [Rooms -> Games \cup {None}]
    /\ \A i \in Rooms : game[i] = None <=> phase[i] = "unmade"
    /\ ready = [i \in Rooms |-> {}]
    /\ batch = [i \in Rooms |-> {}]
    /\ row = [g \in Games |-> "lobby"]
    /\ paid = [g \in Games |-> [u \in Users |-> 0]]

Next ==
    \/ \E i \in Rooms : \/ \E g \in Games : Make(i, g)
                        \/ \E u \in Users : Seat(i, u)
                        \/ TakeOut(i) \/ Collect(i) \/ Commit(i) \/ Fail(i)
                        \/ Resolve(i) \/ Remove(i)
    \/ Stop

Spec == Init /\ [][Next]_vars
=============================================================================
