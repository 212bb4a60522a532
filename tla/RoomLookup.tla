----------------------------- MODULE RoomLookup -----------------------------
(***************************************************************************)
(* How readers find or make the room they join: GetOrCreateRoomForTier of  *)
(* internal/websocket/hub.go and the game_sessions rows behind it.  The    *)
(* lookup is a scan of Hub.rooms, a query, an insert and a new Room, and   *)
(* nothing is locked between them, so that one session may end up with two *)
(* Room objects.  Rooms are only in memory: a restart of the server leaves *)
(* the rows and nobody who goes on with them.  A room's own life is the    *)
(* outline of module BingoRoom.                                            *)
(***************************************************************************)
EXTENDS Integers, Sequences, FiniteSets

CONSTANTS
    Readers,        \* the reader goroutines, each with a user of its own
    Tiers,          \* stake amounts
    MinPlayers,     \* 2 in handleRoomJoin
    MaxSessions,    \* bound on the rows of game_sessions
    MaxRooms,       \* bound on the Room objects
    MaxFaults       \* bound on restarts and lost updates of a resolved game

ASSUME LookupAssumption ==
    /\ IsFiniteSet(Readers)
    /\ MinPlayers \in Nat \ {0}
    /\ MaxSessions \in Nat
    /\ MaxRooms \in Nat
    /\ MaxFaults \in Nat

VARIABLES
    session,    \* game_sessions, in the order of created_at
    room,       \* the Room objects, in the order they were made
    rooms,      \* Hub.rooms: the room of each game, or 0
    cards,      \* user_cartelas: the readers with a board in each game
    paid,       \* transactions of type 'stake': how many per game and reader
    pc,         \* where each reader is in the lookup or in SelectCard
    tier,       \* the tier of its last room:join, or 0
    found,      \* the session its lookup has found or inserted, or 0
    gameID,     \* Client.GameID, or 0
    faults      \* restarts and lost updates so far

readerVars == <<pc, tier, found, gameID>>
vars == <<session, room, rooms, cards, paid, readerVars, faults>>

\* A game is named by the place of its row.
Games == 1 .. MaxSessions

-----------------------------------------------------------------------------
(* GetOrCreateRoomForTier *)

LobbyRooms(t) ==
    {g \in Games : rooms[g] # 0 /\ session[g].tier = t /\ room[rooms[g]].status = "lobby"}

\* room:join: the scan of Hub.rooms; a map is ranged over in any order.
Scan(c, t) ==
    /\ pc[c] = "idle"
    /\ tier' = [tier EXCEPT ![c] = t]
    /\ \/ \E g \in LobbyRooms(t) : gameID' = [gameID EXCEPT ![c] = g] /\ UNCHANGED pc
       \/ /\ LobbyRooms(t) = {}
          /\ pc' = [pc EXCEPT ![c] = "query"]
          /\ UNCHANGED gameID
    /\ UNCHANGED <<session, room, rooms, cards, paid, found, faults>>

\* GetActiveGameByTier looks at the latest game of the tier that is not resolved.
Unresolved(t) ==
    {g \in DOMAIN session : session[g].tier = t /\ session[g].status \in {"lobby", "active"}}

\* It is of use if it is still in the lobby.
Adoptable(t) ==
    {g \in Unresolved(t) : session[g].status = "lobby" /\ \A h \in Unresolved(t) : h <= g}

Query(c) ==
    /\ pc[c] = "query"
    /\ \/ \E g \in Adoptable(tier[c]) : /\ found' = [found EXCEPT ![c] = g]
                                       /\ pc' = [pc EXCEPT ![c] = "make"]
       \/ /\ Adoptable(tier[c]) = {}
          /\ pc' = [pc EXCEPT ![c] = "insert"]
          /\ UNCHANGED found
    /\ UNCHANGED <<session, room, rooms, cards, paid, tier, gameID, faults>>

\* CreateGameSession.
Insert(c) ==
    /\ pc[c] = "insert" /\ Len(session) < MaxSessions
    /\ session' = Append(session, [tier |-> tier[c], status |-> "lobby", pool |-> 0])
    /\ found' = [found EXCEPT ![c] = Len(session')]
    /\ pc' = [pc EXCEPT ![c] = "make"]
    /\ UNCHANGED <<room, rooms, cards, paid, tier, gameID, faults>>

\* The query or the insert fails: "failed to join room".
LookupFails(c) ==
    /\ pc[c] \in {"query", "insert"}
    /\ pc' = [pc EXCEPT ![c] = "idle"]
    /\ UNCHANGED <<session, room, rooms, cards, paid, tier, found, gameID, faults>>

\* CreateRoom puts its room in the place of any other of the same game.
Make(c) ==
    LET g == found[c] IN
    /\ pc[c] = "make" /\ Len(room) < MaxRooms
    /\ room' = Append(room, [game |-> g, status |-> "lobby", ready |-> {}, batch |-> {}])
    /\ rooms' = [rooms EXCEPT ![g] = Len(room')]
    /\ gameID' = [gameID EXCEPT ![c] = g]
    /\ found' = [found EXCEPT ![c] = 0]
    /\ pc' = [pc EXCEPT ![c] = "idle"]
    /\ UNCHANGED <<session, cards, paid, tier, faults>>

-----------------------------------------------------------------------------
(* card:select *)

\* SelectCard: the session must be in the lobby.
CheckLobby(c) ==
    /\ pc[c] = "idle" /\ gameID[c] # 0
    /\ session[gameID[c]].status = "lobby"
    /\ pc' = [pc EXCEPT ![c] = "checked"]
    /\ UNCHANGED <<session, room, rooms, cards, paid, tier, found, gameID, faults>>

\* The player is ready in whatever room the game has in Hub.rooms by now.
MakeReady(c, g) ==
    IF rooms[g] = 0 THEN UNCHANGED room
                    ELSE room' = [room EXCEPT ![rooms[g]].ready = @ \cup {c}]

\* Mutated form: without UNIQUE(user_id, game_id).
SelectCardAgain(c) ==
    LET g == gameID[c] IN
    /\ pc[c] = "checked"
    /\ cards' = [cards EXCEPT ![g] = @ \cup {c}]
    /\ MakeReady(c, g)
    /\ pc' = [pc EXCEPT ![c] = "idle"]
    /\ UNCHANGED <<session, rooms, paid, tier, found, gameID, faults>>
\* The insert, and SelectedCards after it: only this reader writes boards of its user.
SelectCard(c) ==
    LET g == gameID[c] IN
    /\ pc[c] = "checked"
    /\ \/ /\ c \notin cards[g]
          /\ cards' = [cards EXCEPT ![g] = @ \cup {c}]
          /\ MakeReady(c, g)
       \/ c \in cards[g] /\ UNCHANGED <<cards, room>>
    /\ pc' = [pc EXCEPT ![c] = "idle"]
    /\ UNCHANGED <<session, rooms, paid, tier, found, gameID, faults>>

-----------------------------------------------------------------------------
(* The life of room object i, in outline. *)

SetStatus(i, s) == room' = [room EXCEPT ![i].status = s]

\* Mutated form: off by one on the minimum.
TakeOutOffByOne(i) ==
    /\ room[i].status = "lobby" /\ Cardinality(room[i].ready) + 1 >= MinPlayers
    /\ SetStatus(i, "taken")
    /\ UNCHANGED <<session, rooms, cards, paid, readerVars, faults>>
\* The timer or a reader takes the room out of the lobby; Room.Status is "active" from here.
TakeOut(i) ==
    /\ room[i].status = "lobby" /\ Cardinality(room[i].ready) >= MinPlayers
    /\ SetStatus(i, "taken")
    /\ UNCHANGED <<session, rooms, cards, paid, readerVars, faults>>

\* startGame takes the ready players, more of whom may have come.
Collect(i) ==
    /\ room[i].status = "taken"
    /\ room' = [room EXCEPT ![i].status = "starting", ![i].batch = room[i].ready]
    /\ UNCHANGED <<session, rooms, cards, paid, readerVars, faults>>

\* Mutated form: the pool counts who is ready by now.
CommitStartReady(i) ==
    LET g == room[i].game IN
    /\ room[i].status = "starting"
    /\ SetStatus(i, "active")
    /\ paid' = [paid EXCEPT ![g] = [c \in Readers |-> IF c \in room[i].batch
                                                       THEN paid[g][c] + 1 ELSE paid[g][c]]]
    /\ session' = [session EXCEPT ![g].status = "active", ![g].pool = Cardinality(room[i].ready)]
    /\ UNCHANGED <<rooms, cards, readerVars, faults>>
\* DeductStakesAndStart commits; the session may be in any status.
CommitStart(i) ==
    LET g == room[i].game IN
    /\ room[i].status = "starting"
    /\ SetStatus(i, "active")
    /\ paid' = [paid EXCEPT ![g] = [c \in Readers |-> IF c \in room[i].batch
                                                       THEN paid[g][c] + 1 ELSE paid[g][c]]]
    /\ session' = [session EXCEPT ![g].status = "active", ![g].pool = Cardinality(room[i].batch)]
    /\ UNCHANGED <<rooms, cards, readerVars, faults>>

\* It does not, and the room is back in the lobby.  (A commit whose reply is lost is a step of
\* module BingoRoom.)
StartFails(i) ==
    /\ room[i].status = "starting"
    /\ room' = [room EXCEPT ![i].status = "lobby", ![i].batch = {}]
    /\ UNCHANGED <<session, rooms, cards, paid, readerVars, faults>>

Fault == faults < MaxFaults /\ faults' = faults + 1

\* Mutated form: the row is left as it is.
ResolveInMemory(i) ==
    /\ room[i].status = "active"
    /\ SetStatus(i, "resolution")
    /\ UNCHANGED <<session, rooms, cards, paid, readerVars, faults>>
\* Mutated form: the room is used for another round.
ResolveReopens(i) ==
    /\ room[i].status = "active"
    /\ SetStatus(i, "lobby")
    /\ \/ /\ session' = [session EXCEPT ![room[i].game].status = "resolution"]
          /\ UNCHANGED faults
       \/ Fault /\ UNCHANGED session
    /\ UNCHANGED <<rooms, cards, paid, readerVars>>
\* resolveGame; the error of ResolveGame is dropped.
Resolve(i) ==
    /\ room[i].status = "active"
    /\ SetStatus(i, "resolution")
    /\ \/ /\ session' = [session EXCEPT ![room[i].game].status = "resolution"]
          /\ UNCHANGED faults
       \/ Fault /\ UNCHANGED session
    /\ UNCHANGED <<rooms, cards, paid, readerVars>>

\* Five seconds later the game's entry of Hub.rooms goes, whichever room it holds.
RemoveRoom(i) ==
    /\ room[i].status = "resolution"
    /\ SetStatus(i, "removed")
    /\ rooms' = [rooms EXCEPT ![room[i].game] = 0]
    /\ UNCHANGED <<session, cards, paid, readerVars, faults>>

\* The server stops, at any point, and another one starts with an empty hub.  Goroutines
\* and connections are gone; what they had committed is not.
Restart ==
    /\ Fault
    /\ room' = [i \in DOMAIN room |-> [room[i] EXCEPT !.status = "removed"]]
    /\ rooms' = [g \in Games |-> 0]
    /\ pc' = [c \in Readers |-> "idle"]
    /\ tier' = [c \in Readers |-> 0]
    /\ found' = [c \in Readers |-> 0]
    /\ gameID' = [c \in Readers |-> 0]
    /\ UNCHANGED <<session, cards, paid>>

-----------------------------------------------------------------------------
Init ==
    /\ session = <<>>
    /\ room = <<>>
    /\ rooms = [g \in Games |-> 0]
    /\ cards = [g \in Games |-> {}]
    /\ paid = [g \in Games |-> [c \in Readers |-> 0]]
    /\ pc = [c \in Readers |-> "idle"]
    /\ tier = [c \in Readers |-> 0]
    /\ found = [c \in Readers |-> 0]
    /\ gameID = [c \in Readers |-> 0]
    /\ faults = 0

Next ==
    \/ \E c \in Readers : \/ \E t \in Tiers : Scan(c, t)
                          \/ Query(c) \/ Insert(c) \/ LookupFails(c) \/ Make(c)
                          \/ CheckLobby(c) \/ SelectCard(c)
    \/ \E i \in DOMAIN room : \/ TakeOut(i) \/ Collect(i) \/ CommitStart(i)
                              \/ StartFails(i) \/ Resolve(i) \/ RemoveRoom(i)
    \/ Restart

Spec == Init /\ [][Next]_vars

-----------------------------------------------------------------------------
(* Properties. *)

GameSession == [tier : Tiers, status : {"lobby", "active", "resolution"}, pool : Nat]

Room == [game : DOMAIN session,
         status : {"lobby", "taken", "starting", "active", "resolution", "removed"},
         ready : SUBSET Readers, batch : SUBSET Readers]

\* Every variable keeps its range, and Hub.rooms names rooms that exist.
TypeOK ==
    /\ session \in Seq(GameSession)
    /\ room \in Seq(Room)
    /\ rooms \in [Games -> {0} \cup DOMAIN room]
    /\ cards \in [Games -> SUBSET Readers]
    /\ paid \in [Games -> [Readers -> Nat]]
    /\ pc \in [Readers -> {"idle", "query", "insert", "make", "checked"}]
    /\ tier \in [Readers -> Tiers \cup {0}]
    /\ found \in [Readers -> {0} \cup DOMAIN session]
    /\ gameID \in [Readers -> {0} \cup DOMAIN session]
    /\ faults \in 0 .. MaxFaults

\* Two rooms of the same game that both start it, and a game in the lobby that is adopted after
\* a restart, take nobody's stake twice: the UNIQUE of user_cartelas lets a player be ready in
\* one of them only.  (A start that is repeated because a reply was lost is one room's, and
\* BingoRoom's StakesExplained says what it takes.)
StakeOncePerGame == \A g \in Games, c \in Readers : paid[g][c] <= 1

RoomsOf(g) == {i \in DOMAIN room : room[i].game = g}

\* A game that has taken its stakes has a room that will resolve it, even when two rooms
\* have started it, unless the server was restarted or an update was lost.
ActiveHasRoom ==
    \A g \in DOMAIN session :
        session[g].status = "active" => faults > 0 \/ \E i \in RoomsOf(g) : room[i].status = "active"

\* A game that is resolved is not started again, although a start asks for no status of the
\* session, unless two Room objects were made for it.
ResolvedForGood ==
    [][\A g \in DOMAIN session :
          session[g].status = "resolution" /\ session'[g].status # "resolution"
              => Cardinality(RoomsOf(g)) > 1]_vars

\* The 'stake' transactions recorded for a game.
Stakes(g) == UNION {{c} \X (1 .. paid[g][c]) : c \in Readers}

\* The pool of a game is the pool of the stakes recorded for it, unless two Room objects
\* were made for the game.
PoolExplained ==
    \A g \in DOMAIN session :
        session[g].status # "lobby" /\ Cardinality(RoomsOf(g)) <= 1
            => session[g].pool = Cardinality(Stakes(g))

\* "DeductStakesAndStart deducts the stake from every ready player's wallet, records
\* transactions, and updates the game session prize pool" (game_service.go:354): the
\* pool of a game is the pool of the stakes recorded for it.
PoolOfAllStakes ==
    \A g \in DOMAIN session :
        session[g].status # "lobby" => session[g].pool = Cardinality(Stakes(g))

-----------------------------------------------------------------------------
(* The life of a room is that of module RoomLife: what its variables are here. *)

phaseOf == [i \in 1 .. MaxRooms |-> IF i \in DOMAIN room THEN room[i].status ELSE "unmade"]
gameOf == [i \in 1 .. MaxRooms |-> IF i \in DOMAIN room THEN room[i].game ELSE 0]
readyOf == [i \in 1 .. MaxRooms |-> IF i \in DOMAIN room THEN room[i].ready ELSE {}]
batchOf == [i \in 1 .. MaxRooms |-> IF i \in DOMAIN room THEN room[i].batch ELSE {}]
rowOf == [g \in Games |-> IF g \in DOMAIN session THEN session[g].status ELSE "lobby"]

Life == INSTANCE RoomLife
    WITH Rooms <- 1 .. MaxRooms, Users <- Readers, None <- 0, LostReply <- FALSE,
         phase <- phaseOf, game <- gameOf, ready <- readyOf, batch <- batchOf, row <- rowOf

\* Each room, however it was found and whatever other rooms its game has, lives the life
\* that the rooms of BingoRoom live, until the server stops.
ImplementsLife == Life!Spec

-----------------------------------------------------------------------------
(* The inductive invariants of RoomLookupProofs.                           *)

\* The statuses of a room that has not started yet.
ToStart == {"lobby", "taken", "starting"}

\* What a reader and an entry of Hub.rooms rely on.
Referenced ==
    /\ Len(session) <= MaxSessions
    /\ \A c \in Readers : /\ pc[c] \in {"query", "insert"} => tier[c] \in Tiers
                          /\ pc[c] = "make" => found[c] # 0
                          /\ pc[c] = "checked" => gameID[c] # 0
    /\ \A g \in Games : rooms[g] # 0 => room[rooms[g]].game = g

\* A player is ready in one room of a game at most, and has a card in the game then.
OneSeat ==
    /\ \A i \in DOMAIN room : /\ room[i].batch \subseteq room[i].ready
                              /\ room[i].ready \subseteq cards[room[i].game]
    /\ \A i, j \in DOMAIN room :
          i # j /\ room[i].game = room[j].game => room[i].ready \cap room[j].ready = {}

\* Who has paid for a game is not ready in a room that is still to start.
PaidIsOver ==
    \A g \in Games, c \in Readers :
        paid[g][c] # 0 =>
            /\ paid[g][c] = 1 /\ c \in cards[g]
            /\ \A i \in RoomsOf(g) : room[i].status \in ToStart => c \notin room[i].ready

\* A game whose only room is still to start, or which never had one, is in the lobby and has
\* taken nothing; one whose only room has started has the pool of that start.
Pools ==
    /\ \A g \in Games : RoomsOf(g) = {} => /\ \A c \in Readers : paid[g][c] = 0
                                           /\ g \in DOMAIN session => session[g].status = "lobby"
    /\ \A g \in DOMAIN session : \A i \in RoomsOf(g) :
          /\ room[i].status = "active" => session[g].status # "lobby"
          /\ RoomsOf(g) = {i} =>
                /\ room[i].status \in ToStart => /\ \A c \in Readers : paid[g][c] = 0
                                                 /\ session[g].status = "lobby"
                /\ session[g].status # "lobby" => session[g].pool = Cardinality(Stakes(g))

\* Hub.rooms forgets a room when it is removed.
Entered ==
    /\ Len(room) <= MaxRooms
    /\ \A g \in Games : rooms[g] # 0 => room[rooms[g]].status # "removed"

\* The parts about rows, cards and stakes, which every step preserves.
LInv == TypeOK /\ Referenced /\ OneSeat /\ PaidIsOver
=============================================================================
