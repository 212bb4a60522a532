------------------------------ MODULE BingoRoom ------------------------------
(***************************************************************************)
(* The life of the game rooms of internal/websocket/hub.go: the goroutines *)
(* that may start a game (the lobby timer of each room and the reader of   *)
(* each connection), the goroutine that drops balls and resolves the game, *)
(* the part of the hub that puts connections into rooms and takes them     *)
(* out, and the database rows they write (internal/services).              *)
(*                                                                         *)
(* A step is what a goroutine does between two points where another one    *)
(* can run: one critical section of Room.Mutex, one SQL statement, or one  *)
(* transaction (its wallet rows are locked until it commits).              *)
(* Messages to clients change nothing here and are left to module Hub.     *)
(***************************************************************************)
EXTENDS Integers, Sequences, FiniteSets

CONSTANTS
    Games,        \* rooms made by CreateRoom, one per game_sessions row (two Room
                  \* objects for one row are what module RoomLookup is about)
    Users,        \* users with a users row and a wallets row
    Conns,        \* WebSocket connections, each with its own *Client
    TokensOf,     \* TokensOf[c]: the users whose tokens connection c may present
    Droppable,    \* the connections that may break
    Balls,        \* 1..75 in the code
    Cards,        \* the boards GenerateCartelaMatrix may return
    Lines,        \* Lines[k]: the rows, columns and diagonals of board k
    Stake,        \* Stake[g]: StakeAmount of the room
    MinPlayers,   \* 2 in handleRoomJoin
    Deposit,      \* Deposit[u]: main_balance + play_balance at the start, in cents
    MaxFaults,    \* bound on the database calls that fail
    LostReply,    \* may a failed call have taken effect (commit sent, context expired)?
    Nil           \* absent

\* models.UserCartela: a board and the game whose row it is.
Cartela == [game : Games, card : Cards]

ASSUME RoomAssumption ==
    /\ Games \cap Conns = {}
    /\ Nil \notin Games \cup Users \cup Conns \cup Cards \cup Cartela
    /\ IsFiniteSet(Users)
    /\ TokensOf \in [Conns -> SUBSET Users]
    /\ Droppable \subseteq Conns
    /\ Lines \in [Cards -> SUBSET ((SUBSET Balls) \ {{}})]
    /\ Stake \in [Games -> Nat \ {0}]
    /\ MinPlayers \in Nat \ {0}
    /\ Deposit \in [Users -> Nat]
    /\ MaxFaults \in Nat
    /\ LostReply \in BOOLEAN

VARIABLES
    \* Room and Hub.rooms
    open,         \* open[g]: is the room still in Hub.rooms?
    status,       \* Room.Status
    clients,      \* Room.Clients: user -> connection or Nil
    selected,     \* Room.SelectedCards: user -> board or Nil
    called,       \* Room.CalledSet
    \* goroutines
    pc,           \* where each lobby timer (named by its room) and reader is
    batch,        \* userIDs of the startGame call the goroutine is in
    hub,          \* the request the hub goroutine is handling, or Nil
    drops,        \* where runBallDrops of the room is
    snapshot,     \* the clients slice of checkWinners
    winner,       \* the winner argument of resolveGame
    counted,      \* its playerCount, 0 before it has counted
    \* Client
    userID,       \* Client.UserID
    gameID,       \* Client.GameID
    cartela,      \* Client.Cartela: the board and the game it was made for
    \* database
    dbStatus,     \* game_sessions.status
    dbPrize,      \* game_sessions.prize_pool, in cents
    dbBalls,      \* game_sessions.balls_called
    dbWinner,     \* game_sessions.winner_id and the board winning_cartela is of
    dbCards,      \* user_cartelas: the board of each user in each game, or Nil
    balance,      \* wallets: main_balance + play_balance, in cents
    stakes,       \* transactions of type 'stake': how many per game and user
    wins,         \* transactions of type 'win' of each game
    faults,       \* database calls that have failed so far
    \* history: no goroutine reads it
    lost          \* starts of each game that were committed and reported as failed

roomVars == <<open, status, clients, selected, called>>
dropVars == <<drops, snapshot, winner, counted>>
clientVars == <<userID, gameID, cartela>>
moneyVars == <<balance, stakes, wins, lost>>
sessionVars == <<dbStatus, dbPrize, dbBalls, dbWinner>>
dbVars == <<sessionVars, dbCards, moneyVars, faults>>
vars == <<roomVars, pc, batch, hub, dropVars, clientVars, dbVars>>

-----------------------------------------------------------------------------
Procs == Games \cup Conns

\* The room a goroutine works for: a timer has its own, a reader the client's.
RoomOf(p) == IF p \in Games THEN p ELSE gameID[p]

Goto(p, label) == pc' = [pc EXCEPT ![p] = label]

\* Where a goroutine goes when startGame returns to it.
Exit(p) == IF p \in Games THEN "done" ELSE "idle"

Ready(g) == {u \in Users : selected[g][u] # Nil}
\* Mutated form: off by one on the minimum.
EnoughOffByOne(g) == Cardinality(Ready(g)) + 1 >= MinPlayers
\* Mutated form: a strict comparison.
EnoughStrict(g) == Cardinality(Ready(g)) > MinPlayers
Enough(g) == Cardinality(Ready(g)) >= MinPlayers

\* Amounts in cents: the stake is a whole number, the pool 85 per cent of the stakes.
StakeCents(g) == 100 * Stake[g]
PrizePool(g, n) == 85 * n * Stake[g]

Wins(k, balls) == \E line \in Lines[k] : line \subseteq balls

\* A database call fails: the caller gets an error.
Fault == faults < MaxFaults /\ faults' = faults + 1

-----------------------------------------------------------------------------
(* Readers: the messages room:join and card:select, and the end of a connection. *)

\* handleRoomJoin: the client is whoever its token names, from here on ...
Authenticate(c) ==
    /\ pc[c] = "idle"
    /\ \E u \in TokensOf[c] : userID' = [userID EXCEPT ![c] = u]
    /\ Goto(c, "lookup")
    /\ UNCHANGED <<roomVars, batch, hub, dropVars, gameID, cartela, dbVars>>

\* ... and once the lookup (module RoomLookup) has returned a room that is in the lobby, the
\* reader waits to hand it to the hub.  The lookup may fail.
JoinRoom(c) ==
    /\ pc[c] = "lookup"
    /\ \/ \E g \in Games : /\ open[g] /\ status[g] = "lobby"
                            /\ gameID' = [gameID EXCEPT ![c] = g]
                            /\ Goto(c, "register")
       \/ Goto(c, "idle") /\ UNCHANGED gameID
    /\ UNCHANGED <<roomVars, batch, hub, dropVars, userID, cartela, dbVars>>

\* ReadMessage fails: the reader returns, through the hub if it ever joined a room.
Disconnect(c) ==
    /\ c \in Droppable /\ pc[c] = "idle"
    /\ Goto(c, IF gameID[c] = Nil THEN "closed" ELSE "unregister")
    /\ UNCHANGED <<roomVars, batch, hub, dropVars, clientVars, dbVars>>

\* SelectCard, first query: the session must be in the lobby.
CheckLobby(c) ==
    /\ pc[c] = "idle" /\ gameID[c] # Nil
    /\ dbStatus[gameID[c]] = "lobby"
    /\ Goto(c, "checked")
    /\ UNCHANGED <<roomVars, batch, hub, dropVars, clientVars, dbVars>>

\* SelectCard, the insert: UNIQUE(user_id, game_id) admits one board per user and game.
\* The error path leaves Client.Cartela as it was, also when the row was written.
InsertCard(c) ==
    LET g == gameID[c]  u == userID[c] IN
    /\ pc[c] = "checked"
    /\ \/ /\ dbCards[g][u] = Nil
          /\ \E k \in Cards :
                /\ dbCards' = [dbCards EXCEPT ![g][u] = k]
                /\ \/ /\ cartela' = [cartela EXCEPT ![c] = [game |-> g, card |-> k]]
                      /\ Goto(c, "taken")
                      /\ UNCHANGED faults
                   \/ /\ LostReply /\ Fault
                      /\ Goto(c, "idle")
                      /\ UNCHANGED cartela
       \/ /\ (dbCards[g][u] # Nil /\ UNCHANGED faults) \/ Fault
          /\ Goto(c, "idle")
          /\ UNCHANGED <<dbCards, cartela>>
    /\ UNCHANGED <<roomVars, batch, hub, dropVars, userID, gameID, sessionVars, moneyVars>>

\* handleCardSelect after SelectCard: the user becomes a ready player of the room.
RecordCard(c) ==
    LET g == gameID[c] IN
    /\ pc[c] = "taken"
    /\ IF open[g]
       THEN /\ selected' = [selected EXCEPT ![g][userID[c]] = cartela[c].card]
            /\ Goto(c, "try")
       ELSE Goto(c, "idle") /\ UNCHANGED selected
    /\ UNCHANGED <<open, status, clients, called, batch, hub, dropVars, clientVars, dbVars>>

-----------------------------------------------------------------------------
(* The hub goroutine: register and unregister are unbuffered channels.     *)

\* The rendezvous: a registering reader goes on, an unregistering one returns.
HubReceive(c) ==
    /\ hub = Nil /\ pc[c] \in {"register", "unregister"}
    /\ hub' = [op |-> pc[c], client |-> c]
    /\ Goto(c, IF pc[c] = "register" THEN "idle" ELSE "closed")
    /\ UNCHANGED <<roomVars, batch, dropVars, clientVars, dbVars>>

\* handleRegister and handleUnregister; both read Client.GameID and UserID when they
\* run, and unregistering removes whatever connection the user has in the room.
HubHandle ==
    /\ hub # Nil
    /\ LET g == gameID[hub.client]
           entry == IF hub.op = "register" THEN hub.client ELSE Nil
       IN  clients' = IF open[g] THEN [clients EXCEPT ![g][userID[hub.client]] = entry]
                                 ELSE clients
    /\ hub' = Nil
    /\ UNCHANGED <<open, status, selected, called, pc, batch, dropVars, clientVars, dbVars>>

-----------------------------------------------------------------------------
(* Starting a game: scheduleGameStart, tryStartGame and startGame.         *)

\* Mutated form: the room is not taken out of the lobby before startGame.
BeginStartInLobby(p) == Goto(p, "collect") /\ UNCHANGED status
BeginStart(p) ==
    /\ status' = [status EXCEPT ![RoomOf(p)] = "active"]
    /\ Goto(p, "collect")

\* tryStartGame, by the reader that recorded a card.
TryStart(c) ==
    /\ pc[c] = "try"
    /\ IF status[gameID[c]] = "lobby" /\ Enough(gameID[c])
       THEN BeginStart(c)
       ELSE Goto(c, "idle") /\ UNCHANGED status
    /\ UNCHANGED <<open, clients, selected, called, batch, hub, dropVars, clientVars, dbVars>>

\* scheduleGameStart, top of the loop.
TimerArm(g) ==
    /\ pc[g] = "arm"
    /\ Goto(g, IF status[g] = "lobby" THEN "wait" ELSE "done")
    /\ UNCHANGED <<roomVars, batch, hub, dropVars, clientVars, dbVars>>

\* Mutated form: the status is not looked at again after the wait.
TimerFireBlindly(g) ==
    /\ pc[g] = "wait"
    /\ IF Enough(g) THEN BeginStart(g) ELSE Goto(g, "arm") /\ UNCHANGED status
    /\ UNCHANGED <<open, clients, selected, called, batch, hub, dropVars, clientVars, dbVars>>
\* scheduleGameStart, after LobbyDuration.
TimerFire(g) ==
    /\ pc[g] = "wait"
    /\ \/ status[g] # "lobby" /\ Goto(g, "done") /\ UNCHANGED status
       \/ status[g] = "lobby" /\ Enough(g) /\ BeginStart(g)
       \/ status[g] = "lobby" /\ ~Enough(g) /\ Goto(g, "arm") /\ UNCHANGED status
    /\ UNCHANGED <<open, clients, selected, called, batch, hub, dropVars, clientVars, dbVars>>

\* Mutated form: the stakes are taken from everyone connected to the room.
CollectConnected(p) ==
    /\ pc[p] = "collect"
    /\ batch' = [batch EXCEPT ![p] = {u \in Users : clients[RoomOf(p)][u] # Nil}]
    /\ Goto(p, "deduct")
    /\ UNCHANGED <<roomVars, hub, dropVars, clientVars, dbVars>>
\* startGame takes the ready players once; players may still become ready after it.
Collect(p) ==
    /\ pc[p] = "collect"
    /\ batch' = [batch EXCEPT ![p] = Ready(RoomOf(p))]
    /\ Goto(p, "deduct")
    /\ UNCHANGED <<roomVars, hub, dropVars, clientVars, dbVars>>

\* Whose balance covers the stake.
Solvent(g) == {u \in Users : balance[u] >= StakeCents(g)}

\* One 'stake' transaction and one wallet update for every user of P.
Charge(g, P) ==
    /\ balance' = [u \in Users |-> IF u \in P THEN balance[u] - StakeCents(g) ELSE balance[u]]
    /\ stakes' = [stakes EXCEPT ![g] =
                      [u \in Users |-> IF u \in P THEN stakes[g][u] + 1 ELSE stakes[g][u]]]
    /\ UNCHANGED wins

\* Mutated form: the pool counts who is ready when the transaction commits.
CommitStartReady(p) ==
    LET g == RoomOf(p) IN
    /\ Charge(g, batch[p])
    /\ dbPrize' = [dbPrize EXCEPT ![g] = PrizePool(g, Cardinality(Ready(g)))]
    /\ dbStatus' = [dbStatus EXCEPT ![g] = "active"]
    /\ UNCHANGED <<dbBalls, dbWinner>>
\* DeductStakesAndStart commits.
CommitStart(p) ==
    LET g == RoomOf(p) IN
    /\ Charge(g, batch[p])
    /\ dbPrize' = [dbPrize EXCEPT ![g] = PrizePool(g, Cardinality(batch[p]))]
    /\ dbStatus' = [dbStatus EXCEPT ![g] = "active"]
    /\ UNCHANGED <<dbBalls, dbWinner>>

\* Mutated form: without the transaction, who could pay has paid.
RollBackNothing(p) ==
    /\ Charge(RoomOf(p), batch[p] \cap Solvent(RoomOf(p)))
    /\ UNCHANGED <<sessionVars, lost>>
\* DeductStakesAndStart returns before it commits.
RollBack(p) == UNCHANGED <<sessionVars, moneyVars>>

\* startGame calls DeductStakesAndStart.
Deduct(p) ==
    LET canPay == batch[p] # {} /\ batch[p] \subseteq Solvent(RoomOf(p)) IN
    /\ pc[p] = "deduct"
    /\ \/ canPay /\ CommitStart(p) /\ Goto(p, "launch") /\ UNCHANGED <<faults, lost>>
       \/ ~canPay /\ RollBack(p) /\ Goto(p, "revert") /\ UNCHANGED faults
       \/ Fault /\ RollBack(p) /\ Goto(p, "revert")
       \/ /\ LostReply /\ Fault /\ canPay /\ CommitStart(p) /\ Goto(p, "revert")
          /\ lost' = [lost EXCEPT ![RoomOf(p)] = @ + 1]
    /\ UNCHANGED <<roomVars, batch, hub, dropVars, clientVars, dbCards>>

\* startGame after an error: back to the lobby, and the goroutine is done with it.
Revert(p) ==
    /\ pc[p] = "revert"
    /\ status' = [status EXCEPT ![RoomOf(p)] = "lobby"]
    /\ Goto(p, Exit(p))
    /\ UNCHANGED <<open, clients, selected, called, batch, hub, dropVars, clientVars, dbVars>>

\* startGame after success: go h.runBallDrops(room).
Launch(p) ==
    /\ pc[p] = "launch"
    /\ drops' = [drops EXCEPT ![RoomOf(p)] = "drop"]
    /\ Goto(p, Exit(p))
    /\ UNCHANGED <<roomVars, batch, hub, snapshot, winner, counted, clientVars, dbVars>>

-----------------------------------------------------------------------------
(* runBallDrops, checkWinners and resolveGame, run by one goroutine.       *)

DropTo(g, label) == drops' = [drops EXCEPT ![g] = label]

\* Mutated form: the last ball is never drawn.
DropBallShort(g) ==
    /\ drops[g] = "drop"
    /\ \/ /\ Cardinality(Balls \ called[g]) = 1 \/ status[g] # "active"
          /\ DropTo(g, "done")
          /\ UNCHANGED <<called, dbBalls>>
       \/ /\ status[g] = "active"
          /\ \E b \in Balls \ called[g] :
                /\ called' = [called EXCEPT ![g] = @ \cup {b}]
                /\ dbBalls' = [dbBalls EXCEPT ![g] = @ \cup {b}]
          /\ DropTo(g, "scan")
    /\ UNCHANGED <<open, status, clients, selected, pc, batch, hub, snapshot, winner, counted,
                   clientVars, dbStatus, dbPrize, dbWinner, dbCards, moneyVars, faults>>
\* The next ball; AddBallCalled may fail without notice.  Both are one step: nothing
\* but this goroutine touches balls_called.
DropBall(g) ==
    /\ drops[g] = "drop"
    /\ \/ /\ called[g] = Balls \/ status[g] # "active"
          /\ DropTo(g, "done")
          /\ UNCHANGED <<called, dbBalls, faults>>
       \/ /\ status[g] = "active"
          /\ \E b \in Balls \ called[g] :
                /\ called' = [called EXCEPT ![g] = @ \cup {b}]
                /\ \/ dbBalls' = [dbBalls EXCEPT ![g] = @ \cup {b}] /\ UNCHANGED faults
                   \/ Fault /\ UNCHANGED dbBalls
          /\ DropTo(g, "scan")
    /\ UNCHANGED <<open, status, clients, selected, pc, batch, hub, snapshot, winner, counted,
                   clientVars, dbStatus, dbPrize, dbWinner, dbCards, moneyVars>>

\* checkWinners copies the clients under the lock ...
ScanClients(g) ==
    /\ drops[g] = "scan"
    /\ snapshot' = [snapshot EXCEPT ![g] = {clients[g][u] : u \in Users} \ {Nil}]
    /\ DropTo(g, "judge")
    /\ UNCHANGED <<roomVars, pc, batch, hub, winner, counted, clientVars, dbVars>>

\* The connections whose client holds a complete board.
Complete(g) == {c \in snapshot[g] : cartela[c] # Nil /\ Wins(cartela[c].card, called[g])}

\* ... and reads Client.Cartela without it; any complete board may come first.
Judge(g) ==
    /\ drops[g] = "judge"
    /\ \/ \E c \in Complete(g) : winner' = [winner EXCEPT ![g] = c] /\ DropTo(g, "settle")
       \/ Complete(g) = {} /\ DropTo(g, "drop") /\ UNCHANGED winner
    /\ UNCHANGED <<roomVars, pc, batch, hub, snapshot, counted, clientVars, dbVars>>

\* Mutated form: the status is tested but not set.
SettleWithoutMark(g) ==
    /\ drops[g] = "settle"
    /\ DropTo(g, IF status[g] = "resolution" THEN "drop" ELSE "record")
    /\ UNCHANGED <<roomVars, pc, batch, hub, snapshot, winner, counted, clientVars, dbVars>>
\* resolveGame, the critical section.
Settle(g) ==
    /\ drops[g] = "settle"
    /\ DropTo(g, IF status[g] = "resolution" THEN "drop" ELSE "record")
    /\ status' = [status EXCEPT ![g] = "resolution"]
    /\ UNCHANGED <<open, clients, selected, called, pc, batch, hub, snapshot, winner, counted,
                   clientVars, dbVars>>

\* GameService.ResolveGame; its error is dropped.
RecordWinner(g) ==
    /\ drops[g] = "record"
    /\ \/ /\ dbStatus' = [dbStatus EXCEPT ![g] = "resolution"]
          /\ dbWinner' = [dbWinner EXCEPT ![g] =
                            [user |-> userID[winner[g]], board |-> cartela[winner[g]]]]
          /\ UNCHANGED faults
       \/ Fault /\ UNCHANGED <<dbStatus, dbWinner>>
    /\ DropTo(g, "count")
    /\ UNCHANGED <<roomVars, pc, batch, hub, snapshot, winner, counted, clientVars,
                   dbPrize, dbBalls, dbCards, moneyVars>>

\* Mutated form: the players who have paid.
CountPayers(g) ==
    /\ drops[g] = "count"
    /\ counted' = [counted EXCEPT ![g] = Cardinality({u \in Users : stakes[g][u] > 0})]
    /\ DropTo(g, "credit")
    /\ UNCHANGED <<roomVars, pc, batch, hub, snapshot, winner, clientVars, dbVars>>
\* resolveGame counts the players who are ready now ...
CountPlayers(g) ==
    /\ drops[g] = "count"
    /\ counted' = [counted EXCEPT ![g] = Cardinality(Ready(g))]
    /\ DropTo(g, "credit")
    /\ UNCHANGED <<roomVars, pc, batch, hub, snapshot, winner, clientVars, dbVars>>

\* ... and WalletService.CreditWin pays the pool of that many; its error is dropped.
CreditWin(g) ==
    LET u == userID[winner[g]]  prize == PrizePool(g, counted[g]) IN
    /\ drops[g] = "credit"
    /\ \/ /\ balance' = [balance EXCEPT ![u] = @ + prize]
          /\ wins' = [wins EXCEPT ![g] = Append(@, [user |-> u, amount |-> prize])]
          /\ UNCHANGED <<stakes, lost, faults>>
       \/ Fault /\ UNCHANGED moneyVars
    /\ DropTo(g, "drop")
    /\ UNCHANGED <<roomVars, pc, batch, hub, snapshot, winner, counted, clientVars,
                   sessionVars, dbCards>>

\* The goroutine resolveGame leaves behind removes the room after five seconds.
RemoveRoom(g) ==
    /\ open[g] /\ status[g] = "resolution" /\ drops[g] \in {"drop", "done"}
    /\ open' = [open EXCEPT ![g] = FALSE]
    /\ UNCHANGED <<status, clients, selected, called, pc, batch, hub, dropVars, clientVars, dbVars>>

-----------------------------------------------------------------------------
Init ==
    /\ open = [g \in Games |-> TRUE]
    /\ status = [g \in Games |-> "lobby"]
    /\ clients = [g \in Games |-> [u \in Users |-> Nil]]
    /\ selected = [g \in Games |-> [u \in Users |-> Nil]]
    /\ called = [g \in Games |-> {}]
    /\ pc = [p \in Procs |-> IF p \in Games THEN "arm" ELSE "idle"]
    /\ batch = [p \in Procs |-> {}]
    /\ hub = Nil
    /\ drops = [g \in Games |-> "none"]
    /\ snapshot = [g \in Games |-> {}]
    /\ winner = [g \in Games |-> Nil]
    /\ counted = [g \in Games |-> 0]
    /\ userID = [c \in Conns |-> Nil]
    /\ gameID = [c \in Conns |-> Nil]
    /\ cartela = [c \in Conns |-> Nil]
    /\ dbStatus = [g \in Games |-> "lobby"]
    /\ dbPrize = [g \in Games |-> 0]
    /\ dbBalls = [g \in Games |-> {}]
    /\ dbWinner = [g \in Games |-> Nil]
    /\ dbCards = [g \in Games |-> [u \in Users |-> Nil]]
    /\ balance = Deposit
    /\ stakes = [g \in Games |-> [u \in Users |-> 0]]
    /\ wins = [g \in Games |-> <<>>]
    /\ faults = 0
    /\ lost = [g \in Games |-> 0]

\* What a reader does with a message it has taken up.
Reader(c) == JoinRoom(c) \/ InsertCard(c) \/ RecordCard(c) \/ TryStart(c)
StartGame(p) == Collect(p) \/ Deduct(p) \/ Revert(p) \/ Launch(p)
Timer(g) == TimerArm(g) \/ TimerFire(g)
BallDrops(g) == \/ DropBall(g) \/ ScanClients(g) \/ Judge(g)
                \/ Settle(g) \/ RecordWinner(g) \/ CountPlayers(g) \/ CreditWin(g)

Next ==
    \/ \E c \in Conns : \/ Authenticate(c) \/ Disconnect(c) \/ CheckLobby(c)
                        \/ Reader(c) \/ HubReceive(c)
    \/ HubHandle
    \/ \E p \in Procs : StartGame(p)
    \/ \E g \in Games : Timer(g) \/ BallDrops(g) \/ RemoveRoom(g)

Spec == Init /\ [][Next]_vars

(***************************************************************************)
(* Goroutines that can run do run, and sleeps end.  Nothing makes a client *)
(* send a message or keeps it connected, so Authenticate, CheckLobby and   *)
(* Disconnect are not fair.  A goroutine blocked on one of the hub's       *)
(* channels queues first come, first served and the hub's select picks     *)
(* among ready channels at random: strong fairness.                        *)
(***************************************************************************)
Fairness ==
    /\ \A c \in Conns : WF_vars(Reader(c)) /\ SF_vars(HubReceive(c))
    /\ WF_vars(HubHandle)
    /\ \A p \in Procs : WF_vars(StartGame(p))
    /\ \A g \in Games : WF_vars(Timer(g)) /\ WF_vars(BallDrops(g)) /\ WF_vars(RemoveRoom(g))

FairSpec == Spec /\ Fairness

-----------------------------------------------------------------------------
(* Properties. *)

StartPC == {"collect", "deduct", "revert", "launch"}
TimerPC == {"arm", "wait", "done"} \cup StartPC
ReaderPC == {"idle", "lookup", "register", "unregister", "checked", "taken", "try", "closed"} \cup StartPC

RoomTypeOK ==
    /\ open \in [Games -> BOOLEAN]
    /\ status \in [Games -> {"lobby", "active", "resolution"}]
    /\ clients \in [Games -> [Users -> Conns \cup {Nil}]]
    /\ selected \in [Games -> [Users -> Cards \cup {Nil}]]
    /\ called \in [Games -> SUBSET Balls]

ProcTypeOK ==
    /\ pc \in [Procs -> TimerPC \cup ReaderPC]
    /\ \A g \in Games : pc[g] \in TimerPC
    /\ \A c \in Conns : pc[c] \in ReaderPC
    /\ batch \in [Procs -> SUBSET Users]
    /\ hub \in [op : {"register", "unregister"}, client : Conns] \cup {Nil}

DropTypeOK ==
    /\ drops \in [Games -> {"none", "drop", "scan", "judge", "settle", "record", "count", "credit",
                         "done"}]
    /\ snapshot \in [Games -> SUBSET Conns]
    /\ winner \in [Games -> Conns \cup {Nil}]
    /\ counted \in [Games -> Nat]

ClientTypeOK ==
    /\ userID \in [Conns -> Users \cup {Nil}]
    /\ gameID \in [Conns -> Games \cup {Nil}]
    /\ cartela \in [Conns -> Cartela \cup {Nil}]

SessionTypeOK ==
    /\ dbStatus \in [Games -> {"lobby", "active", "resolution"}]
    /\ dbPrize \in [Games -> Nat]
    /\ dbBalls \in [Games -> SUBSET Balls]
    /\ dbWinner \in [Games -> [user : Users, board : Cartela] \cup {Nil}]
    /\ dbCards \in [Games -> [Users -> Cards \cup {Nil}]]

\* A balance is an integer here: that it is never negative is what module Wallet shows.
MoneyTypeOK ==
    /\ balance \in [Users -> Int]
    /\ stakes \in [Games -> [Users -> Nat]]
    /\ wins \in [Games -> Seq([user : Users, amount : Nat])]
    /\ faults \in 0 .. MaxFaults
    /\ lost \in [Games -> Nat]

\* Every variable keeps its range; in particular a timer is never where only a reader
\* can be, nor a reader where only a timer can.
TypeOK ==
    /\ RoomTypeOK
    /\ ProcTypeOK
    /\ DropTypeOK
    /\ ClientTypeOK
    /\ SessionTypeOK
    /\ MoneyTypeOK

\* The goroutines that are between taking room g out of the lobby and leaving startGame.
Starters(g) == {p \in Procs : RoomOf(p) = g /\ pc[p] \in StartPC}

Payers(g) == {u \in Users : stakes[g][u] > 0}

\* The 'stake' transactions recorded for a game.
Stakes(g) == UNION {{u} \X (1 .. stakes[g][u]) : u \in Users}

\* The timer and the readers of a room may all reach startGame (hub.go:380, 413): at
\* most one is ever in it, and then the room is active and no balls are dropping yet.
StartExclusive ==
    \A g \in Games :
        /\ \A p, q \in Starters(g) : p = q
        /\ Starters(g) # {} => status[g] = "active" /\ drops[g] = "none"

\* Nobody pays for a game without having selected a card in it, whoever connects, reconnects or
\* leaves meanwhile (hub.go:426-435).
ChargedHadCard == \A g \in Games : Payers(g) \subseteq Ready(g)

\* A room in the lobby has taken nobody's stake: "Stake is deducted later when the game
\* actually starts" (game_service.go:312), also after a failed start.  The exception is a
\* start whose commit was reported as a failure (hub.go:435): it goes back to the lobby
\* with its stakes taken, one of each player for each such start.
LobbyUncharged ==
    \A g \in Games, u \in Users : status[g] = "lobby" => stakes[g][u] <= lost[g]

\* Nobody pays twice for a game, however often its start is tried and retried, but for one
\* more stake for each start whose commit was reported as a failure.
StakesExplained == \A g \in Games, u \in Users : stakes[g][u] <= 1 + lost[g]

\* The pool of the session row is the pool of the stakes that were taken, even if players
\* become ready while they are being taken, unless a start was reported as a failure and
\* is repeated: the row then has the pool of the last one.
PoolMatchesStakes ==
    \A g \in Games : dbStatus[g] # "lobby" /\ lost[g] = 0
                       => dbPrize[g] = PrizePool(g, Cardinality(Stakes(g)))

\* A ball falls only in a game that at least MinPlayers have paid for.
PlayNeedsQuorum ==
    \A g \in Games : called[g] # {} => Cardinality(Payers(g)) >= MinPlayers

\* A game pays one prize at most, and its room is in resolution by then.
PrizeOnce ==
    \A g \in Games : /\ Len(wins[g]) <= 1
                     /\ wins[g] # <<>> => status[g] = "resolution"

\* The room's status only moves lobby -> active -> resolution, but for a failed start, which
\* goes back to the lobby before any ball fell and with its row still in the lobby, unless
\* the failure was reported for a start that was committed.  Balls fall only while room and
\* row are active.  The row never runs ahead of the room: it turns active only while the
\* room is and before the first ball, is resolved only after it, and never goes back.
StatusDiscipline ==
    [][\A g \in Games :
         /\ status[g] = "resolution" => status'[g] = "resolution"
         /\ status[g] = "lobby" => status'[g] # "resolution"
         /\ status[g] = "active" /\ status'[g] = "lobby"
               => /\ called[g] = {} /\ drops'[g] = "none"
                  /\ dbStatus'[g] = "lobby" \/ lost'[g] > 0
         /\ called'[g] # called[g] => status[g] = "active" /\ dbStatus[g] = "active"
         /\ dbStatus'[g] # dbStatus[g]
               => \/ dbStatus'[g] = "active" /\ status[g] = "active" /\ called[g] = {}
                  \/ /\ dbStatus'[g] = "resolution" /\ status[g] = "resolution"
                     /\ dbStatus[g] = "active"]_vars

\* A room with enough solvent ready players gets started.
ReadyGameStarts ==
    \A g \in Games :
        status[g] = "lobby" /\ Cardinality(Ready(g)) >= MinPlayers ~> status[g] # "lobby"

\* A game that has started is resolved and its room removed.
StartedGameResolves ==
    \A g \in Games : dbStatus[g] = "active" ~> status[g] = "resolution" /\ ~open[g]

-----------------------------------------------------------------------------
(* What comments of the source say and the code does not do.               *)

\* "Deduct stakes from everyone who selected a card" (hub.go:434): in a game whose
\* stakes have been taken, every ready player has paid.
ReadyPlayersCharged ==
    \A g \in Games : drops[g] # "none" => Ready(g) = Payers(g)
=============================================================================
