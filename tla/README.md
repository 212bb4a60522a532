# TLA+ models of the Jambo Bingo backend

The backend runs bingo rooms over WebSockets: players join a room of a stake tier, select a
board, and when enough of them are ready their stakes are taken, balls are drawn, and the
first complete board wins 85 per cent of the stakes. This directory holds TLA+ models of
that code, the TLC runs that check them, and theorems about them with proofs for TLAPS.

Run `tlc -config X.cfg M.tla` for the runs listed below and `tlapm M.tla` for the eight
modules of proofs.

## 1. The system

| Component | State | Operations | Interacts with |
|---|---|---|---|
| **Hub** (`internal/websocket/hub.go`) | `rooms`; the unbuffered channels `register`, `unregister`, `broadcast` | `Run`: `handleRegister`, `handleUnregister`, `handleBroadcast` | every other goroutine sends to it; it sends to `Client.Send` |
| **Room** (same file) | `Status`, `Clients`, `SelectedCards`, `CalledBalls`, `StartTime` under one `RWMutex` | `CreateRoom`, `scheduleGameStart`, `tryStartGame`, `startGame`, `runBallDrops`, `checkWinners`, `resolveGame` | game and wallet services; hub |
| **Connection** (same file) | `Client`: `UserID`, `GameID`, `Cartela`, `Send` (256 slots) | read pump: `handleRoomJoin`, `handleCardSelect`; write pump | hub, room lookup, game service |
| **Room lookup** (same file) | `Hub.rooms`, `game_sessions` | `GetOrCreateRoomForTier` | game service |
| **Lobby countdown** (same file) | `time.Ticker`, `StartTime` | `runLobbyTicker` | hub |
| **Game service** (`internal/services/game_service.go`) | `game_sessions`, `user_cartelas` | `CreateGameSession`, `GetActiveGameByTier`, `SelectCard`, `DeductStakesAndStart`, `AddBallCalled`, `ResolveGame`, queries; `JoinGame` and `UpdateGameStatus` have no caller | PostgreSQL |
| **Wallet service** (`wallet_service.go`) | `wallets`, `transactions` | `CreditWin`, `GetWallet`, history; `DeductStake` has no caller | PostgreSQL |
| **Accounts** (`user_service.go`, `user_handler.go`) | `users`, `wallets` | `GetOrCreateUser`, `UpdatePhoneNumber` | PostgreSQL |
| **Boards** (`internal/utils/game_id.go`) | none | `GenerateCartelaMatrix`, `CheckBingoWin`, `FormatBall`, `GenerateGameID` | called by the above |
| **Identity** (`internal/middleware`) | none | initData and JWT validation, bot token | HTTP handlers, `room:join` |
| **Process** (`cmd/server`, `internal/config`, `internal/database`) | pools, settings | wiring | everything |

Goroutines that matter: one hub; for each room a lobby timer, a countdown and, once started,
one that drops balls; for each connection a read pump and a write pump. The hard behaviour
is in their interleavings:

* A start has three possible initiators (the timer, each reader that recorded a card) and is
  a sequence of steps with the room unlocked in between: leave the lobby, collect the ready
  players, one transaction for all stakes, then either drop balls or go back to the lobby.
* What a goroutine has read is used after others ran: `userIDs`, the clients that
  `checkWinners` copied, the session status `SelectCard` has seen, the rooms the lookup
  scanned.
* Database calls run under timeouts and fail; the errors of `AddBallCalled`, `ResolveGame` and
  `CreditWin` are dropped; a commit may take effect although its caller sees an error.
* Rooms are only in memory: a restart leaves sessions, cards and stakes without goroutines.
* Both money transactions lock wallet rows one by one, in the order of a Go map.
* The ticker and the timer of a lobby share `StartTime`, and only one of them starts over.
* Connections break, come back as a second connection of the same user, move between rooms,
  and become another user with each token, while `Client.UserID`, `Client.GameID` and
  `Client.Cartela` are read by other goroutines.

What makes each component correct:

* Room: one start at a time; nobody pays without a board, and unless a reply is lost nobody
  pays twice, or for a game that is not started; pool and stakes agree; one prize; the status
  moves forward; a ready room starts and a started game ends.
* Room lookup: joiners of a tier meet in one room; a game is played in one room.
* Hub: goes on however many clients are slow, sends on no closed channel, closes the channel of
  every client that leaves.
* Lobby countdown: what clients are told is the timer's time; a lobby with a timer moves on.
* Wallets: never negative, every change has its transaction, each call happens as a whole or
  not at all and its caller is told which; a start never refuses a prize, and never gets it
  picked in a deadlock.
* Accounts: one user and one wallet for each Telegram id, however many first requests come.
* Boards: 24 different numbers in their columns; a win is a complete line.

## 2. Modules

| Module | What it is |
|---|---|
| `BingoRoom` | Rooms, readers, lobby timers, ball goroutines, the hub's part in `Room.Clients`, and the rows they write; all properties of a room |
| `GameContract` | Abstract: what a game promises its players |
| `RoomLife` | Abstract: what becomes of a `Room` object and of the row and stakes of its game; implemented by `BingoRoom` and by `RoomLookup` |
| `BingoRoomRefines` | What the variables of `GameContract` and `RoomLife` are in `BingoRoom` |
| `BingoRoomInv` | The inductive invariants of the theorems, apart from the proofs so that TLC can check them |
| `BingoRoomProofs`, `BingoRoomRefinesProofs` | Theorems about `BingoRoom`; the two refinements |
| `MCBingoRoom` | Values for the constants of `BingoRoom` |
| `Wallet` | The two transactions that move money, one statement at a time, with row locks and failures |
| `Ledger` | Abstract: changes of money that are atomic and leave an audit trail |
| `WalletInv`, `WalletProofs`, `MCWallet` | The inductive invariant, the theorems, the instance |
| `RoomLookup`, `RoomLookupProofs` | `GetOrCreateRoomForTier` with nothing locked between its steps, what comes of two rooms for one game, and what a restart leaves; theorems |
| `LobbyClock`, `LobbyClockProofs` | The countdown: `runLobbyTicker` and `scheduleGameStart` over `StartTime`, in seconds; theorems |
| `Accounts`, `AccountsProofs`, `MCAccounts` | `GetOrCreateUser` of concurrent requests, and what a token is worth; theorems, instances |
| `Hub`, `HubProofs`, `MCHub` | The hub's channels, `Client.Send`, read and write pumps, closing; theorems, instance |
| `Cartela`, `CartelaProofs` | Boards: how they are generated, when they win, how balls are named; theorems for boards of every size |

How they meet: `Wallet` has the statements of the steps `Deduct` and `CreditWin` of
`BingoRoom`; `RoomLookup` is what `JoinRoom` asks for a room, and its rooms are those of
`BingoRoom`, since both implement `RoomLife`; `LobbyClock` is the time that
`TimerFire` waits; `Hub` has the channels behind `HubReceive` and `HubHandle`; `Cartela` has the
boards behind `Cards` and `Lines`; `Accounts` makes the `Users`.

### 2.1 BingoRoom

A step is what a goroutine does between two points where another one can run: a critical
section of `Room.Mutex`, one SQL statement, or one transaction (its wallet rows are locked
`FOR UPDATE` until it commits, so that what it read still holds when it commits).

| Code | Action |
|---|---|
| `handleRoomJoin`: `client.UserID`; the lookup and `client.GameID`; `h.register <- client` | `Authenticate`; `JoinRoom`; `HubReceive` (the rendezvous) and `HubHandle` (`handleRegister`) |
| a failing `ReadMessage`, `h.unregister <- client` | `Disconnect`, `HubReceive`, `HubHandle` (`handleUnregister`) |
| `SelectCard`: status query; then the query for an existing row and the insert | `CheckLobby`; `InsertCard` (the UNIQUE makes the two agree) |
| `handleCardSelect` after it | `RecordCard`, `TryStart` |
| `scheduleGameStart` before and after the wait | `TimerArm`, `TimerFire` |
| `startGame` | `Collect`, `Deduct` (commit, roll back, fail, or commit with the reply lost), `Revert` or `Launch` |
| `runBallDrops` | `DropBall` |
| `checkWinners` | `ScanClients` (copy under the lock), `Judge` (reads `Client.Cartela` without it) |
| `resolveGame` | `Settle`, `RecordWinner`, `CountPlayers` (under the lock), `CreditWin`, `RemoveRoom` |

`pc[p]` says where goroutine `p` is: a timer is named by its room and a reader by its
connection. `drops[g]` is the same for the ball goroutine of room `g`, `hub` for the hub.

Abstractions. Boards are model values with a set of winning lines each: module `Cartela` says
what these are and proves that `CheckBingoWin` is `Wins` of them. A wallet is the sum of its
two balances in cents, since stakes use both and the 85 per cent of whole stakes are whole
cents. A connection is another user with each token of `room:join` (`TokensOf`: the users whose
tokens it may present); `Users` are those for whom that works, the ones whose Telegram id is
also their `users.id` (see `can_play` in section 3). `RemoveRoom` may come any time after a
resolution, not after five seconds. Messages to clients are left out, and with them blocking on
`broadcast` and `Send`: the liveness results hold as long as the hub goroutine is not blocked
by a client, which is what module `Hub` is about.

`GameContract` is what all this promises the players: cards are taken, the stakes of enough
players who can pay are taken at once, balls are drawn, a complete line ends the game, the
players of that moment are counted, and one prize of their share is paid. It has one thing that
goes wrong: a start that took the stakes goes unnoticed (`StartUnnoticed`) and is repeated.
`BingoRoomRefines` says what its variables are in the rooms and rows: a game is `"playing"`
from the commit that `startGame` knows of on, whatever `Room.Status` says before and after it,
and `"over"` from the critical section of `resolveGame`. Goroutines, connections, other failed
calls and retries are steps in which the contract stutters.

| Contract | Step of the rooms |
|---|---|
| `TakeCard` | `RecordCard` of a player who was not ready |
| `Start`, `StartUnnoticed` | `Deduct` that commits; `Deduct` that commits and whose reply is lost |
| `Draw` | `DropBall` |
| `Finish` | `Settle` of an active room |
| `Count` | `CountPlayers` |
| `Pay` | `CreditWin` that commits |

`Games` has one room for each session row. That this can fail is what `RoomLookup` is about;
what `BingoRoom` says holds of rooms that do not share their row.

`RoomLife` says less of each game and more of its row: a room is made for a game, players sit
down in it, it leaves the lobby when there are enough of them, collects whom it will charge,
takes the stakes of all of them and makes the row `active`, or goes back to the lobby (with the
stakes taken and the row `active`, if a reply was lost), is resolved with or without its row,
and is removed. It allows any number of rooms for a game, and a stop of the server. `BingoRoom`
implements it with goroutines that interleave: a room's phase is read off `Room.Status`, the
goroutine in `startGame` and the one that drops balls (`lifeOf`), and until the commit its
batch is the one that goroutine has collected (`takenOf`).

| `RoomLife` | Step of `BingoRoom` | Step of `RoomLookup` |
|---|---|---|
| `Make` | (rooms are there from the start) | `Make` |
| `Seat` | `RecordCard` while the room is in `Hub.rooms` | `SelectCard` with a room in `Hub.rooms` |
| `TakeOut` | `TimerFire` or `TryStart` that begins a start | `TakeOut` |
| `Collect` | `Collect` | `Collect` |
| `Commit`, `Fail` | `Deduct` that succeeds; `Deduct` that does not | `CommitStart`, `StartFails` |
| `Resolve` | `RecordWinner`, whether its update succeeds or not | `Resolve` |
| `Remove` | `RemoveRoom` | `RemoveRoom` |
| `Stop` | | `Restart` |

### 2.2 RoomLookup

Readers go through the scan (`Scan`), the query (`Query`), the insert (`Insert`) and
`CreateRoom` (`Make`) one step at a time. Rooms and sessions are numbered in the order they
are made, so that `ORDER BY created_at DESC` is the largest number; a session is adopted
(`Adoptable`) if it is the latest unresolved one and still in the lobby. A room's life is an
outline of `BingoRoom`, the one that `RoomLife` states: `TakeOut` (leave the lobby),
`Collect` (take the ready players, of whom there may be more by then), `CommitStart` or
`StartFails` (which took nothing; that a lost reply breaks this is in `BingoRoom`), `Resolve`
(whose update of the row may be lost: the code drops the error), `RemoveRoom` (which deletes
by game id, whichever room is there). A room keeps its batch after the commit, to say whose
stakes it took.

`Restart` may come at any point: rooms, connections and goroutines are gone, rows stay. The
server runs nothing at its start that looks for them; a session in the lobby is found by the
next lookup of its tier, without its ready players, and an active one is left as it is.

### 2.3 Cartela

`GenerateCartelaMatrix` is a process that fills an `N` x `N` board column by column from `K`
numbers each (5 and 15 in the code); the draws that its inner loop throws away change nothing
and are left out. `CheckBingoWin` and `FormatBall` (`Letter`) are operators.

### 2.4 Hub

The same hub goroutine as in `BingoRoom`, seen from its channels: messages are counted, and
rooms are senders (`Announce`, whatever it is they broadcast) that may be removed.

| Code | Action |
|---|---|
| a sender of `register`, `unregister`, `broadcast` meets the hub | `ReceiveFrom`, `ReceiveFromRoom` |
| `handleRegister`: the entry, then each of its up to three sends | `HandleRegister`, `Greet` |
| `handleUnregister`, `handleBroadcast` | `HandleUnregister`, `HandleBroadcast` |
| read pump | `Authenticate`, `JoinRoom`, `SelectCard`, `Refuse`, `Reply` (its own sends on `Client.Send`), `Disconnect` |
| write pump | `Write` (which on a connection that may break may fail at any time, and ends the pump), `End` (the channel is closed and empty) |

Sends on `Client.Send` block, except those of `handleBroadcast`. A send on a closed channel
panics and ends the process (`down`). How many messages a registration brings depends on the
state of the room and is left open.

### 2.5 Wallet

`DeductStakesAndStart` and `CreditWin` differ in their rows (`Rows`), the check (`Covers`), the
new balances (`Afterwards`) and what they put into `balance_after` (`BalanceAfter`), and share
their statements:

| Code | Action |
|---|---|
| `Pool.Begin` | `Begin`, if a connection is free |
| the next of `userIDs` (made from a map) | `Ask` |
| `SELECT ... FOR UPDATE` | `Select`, once the row is free |
| `totalAvailable < stake` | `Refuse` |
| `UPDATE wallets`, `INSERT INTO transactions` | `Update` |
| `UPDATE game_sessions`, `Commit` | `Commit`, whose reply may be lost |
| an error, or the context expires | `Fail`, `Deadlock`, then `Rollback` (deferred) |

What the database does is modelled from how the code uses it: row locks, visibility of
committed rows only, and detection of deadlocks, which fails one of the statements that wait
for each other in a circle (`Circle`). Amounts are cents. `DeductStake`, which nothing calls,
is a start of one user without the session row.

`Ledger` is the abstract specification: `Take` and `Give` change everything at once, never
twice, never below zero. Its `balance` is the sum of the two columns.

### 2.6 LobbyClock

| Code | Action |
|---|---|
| a second of `time.After` and of `time.Ticker` | `Second` |
| `runLobbyTicker`: the status under the lock; `StartTime` without it; the broadcast | `Look`, `Compute`, `Announce` |
| `scheduleGameStart`: `StartTime` under the lock; after the wait; the broadcast of a restart | `Arm`, `Expire`, `AnnounceRestart` |
| `handleRoomJoin`, `handleRegister`, `handleUnregister` | `Join`, `Register`, `Leave` |
| `handleCardSelect`, `tryStartGame` | `Select`, `TryStart` |
| `startGame` | `StartSucceeds`, `StartFails` |

`view[c]` is the last that client `c` was told: a number of seconds, or a restart. Time is in
whole seconds, and passes only when ticker and timer wait for it; within a second they
interleave with everything else, and starts and readers take any number of seconds. As
`elapsed` is a little more or less than whole seconds, `int(...)` may give either of two
values (`Remaining`). `restarted` and `failed` are history variables of the properties.

### 2.7 Accounts

| Code | Action |
|---|---|
| `SELECT ... FROM users` | `Select`: found, or to be inserted |
| `INSERT INTO users` | `InsertUser` (the serial id, and the index of `telegram_id`), `EnterPhone` (the index of `phone_number`), or `Conflict` |
| `INSERT INTO wallets`, `Commit` | `InsertWallet`, `Commit`, whose reply may be lost |
| an error, the deferred `Rollback` | `Fail`, `Rollback` |
| `card:select` with a token of `/auth/verify` | `SelectCard` |

An insert waits for an uncommitted row with the same key (`keys`), as PostgreSQL has it.
Requests of `Register` bring a phone number, those of `VerifyInitData` the empty string.

## 3. Runs

All passing runs but `cartela` and `lobby_clock` have `CHECK_DEADLOCK FALSE`: games end, rooms
are removed, calls and requests come to their end and clients send nothing more, so the system
may rightly stop. `cartela` ends in the step `Return`, and in `lobby_clock` time goes on.

| Run | Instance | Shows |
|---|---|---|
| `room_core` | 1 room, 2 users, 2 connections (one may break, the other may be either user), 2 balls, 1 failing call that may have taken effect | `StartExclusive`, `LobbyUncharged`, `PlayNeedsQuorum`, `PrizeOnce`, `StatusDiscipline` |
| `room_late` | 1 room with a minimum of 1 player, 2 users of whom one can pay once and one may break its connection, 2 balls, 1 failing call that may have taken effect | `ChargedHadCard`, `PoolMatchesStakes`, `StakesExplained`, `ImplementsContract`, `ImplementsLife` |
| `room_live` | 1 room, 2 solvent users who stay, boards that only the last ball completes | `ReadyGameStarts`, `StartedGameResolves` |
| `room_lookup` | 2 readers, 1 tier, 2 sessions, 2 rooms, a minimum of 1 player, 1 restart or lost update | `StakeOncePerGame`, `ActiveHasRoom`, `PoolExplained`, `ResolvedForGood`, `ImplementsLife` |
| `wallet` | 3 starts of 2 users each, any two of which share one, a prize for one user, 3 connections, 1 failing statement | `BalancesMatchTrail`, `SomeoneGoesOn`, `PayoutsSucceed`, `AnswersHold`, `EveryCallEnds`, `ImplementsLedger` |
| `accounts` | 5 requests of 3 Telegram ids, with one phone number and without, 1 failing statement | `SomeoneGoesOn`, `OneAccount`, `RefusalsExplained`, `EveryRequestEnds` |
| `lobby_clock` | 2 clients, rounds of 4 seconds, a minimum of 2 | `CountdownAccurate`, `SilenceExplained`, `LobbyMovesOn` |
| `hub` | 1 room that broadcasts and ends, 2 connections of one user that may both break and one of which may become another user, 1 slot each | `ClosedHasMoved`, `SendersServed`, `LeaksExplained`, `RoomsGoOn` |
| `cartela` | 3 x 3 boards of 3 numbers a column, all sets of called balls | `GeneratesBoards`, `DrawPossible`, `WinIsALine` |

The runs list what is about the system. The type and inductive invariants of section 4
(`TypeOK`, `IInv`, `Removed`, `WInv`, `LInv`, `Pools`, `Entered`, `CInv`, `AInv`, `HInv`) and
`LetterNamesColumn` hold in the same instances and are proved; put them under `INVARIANTS` when
a model changes.

Bounds. Two users with a minimum of two (2 in `handleRoomJoin`) are the least that a start
needs. In `room_core` a user whose connection has broken comes back on the other one, or is on
both; a reader starts beside another; and a connection with two tokens changes its user between
a board and a win. In `room_late` a minimum of one makes the second user the late one, whose
card may come before, during or after the start of the first, and in time to be counted for the
prize or not, and whose money is just enough for one of two charges. Two balls are enough for a
game that goes on after a ball and for a last ball. One failing call reaches every error path,
and a start that is tried again after it. In `room_lookup` a minimum of one player lets two
readers make, fill and start two rooms of one game, and two sessions let a tier go on after its
first game. In `wallet` three starts make a circle of three, and any two of them queue for a
row; the balances are such that each order of the calls refuses somebody else, and that the
prize decides whether its winner can pay. In `accounts` two requests share a Telegram id, two a
phone number, and three have none. In `lobby_clock` four seconds have a first, a last and two
seconds between; two clients are one who is told by the ticker and one who joins. In `hub` the
two connections of one user make one unregister the other, the second token leaves an entry
behind under the former user, and one slot is both empty and full, all that the hub tells apart
of the code's 256. A second room, to which a client moves, makes that instance too large: the
theorems have any number of rooms, and so the exception of `ClosedHasMoved` for a move
(`gameID[c] # g`) is in the proofs only. `N = K = 3` is the smallest board whose free middle is
not on the edge, and leaves no number to spare, the hardest case for the draw. Bounds that only
keep the state space finite: `MaxFaults`, `MaxSessions`, `MaxRooms`.

Exceptions. Several properties say how far the code goes and name what it does not do; each
exception is reachable.

* `ClosedHasMoved`, `LeaksExplained`: a client that joins a second room, or the same one with
  another user's token, and disconnects is closed but stays in `Clients` where it was before,
  and the next broadcast there ends the process; a client whose room was removed is never
  closed.
* `SendersServed` and `RoomsGoOn` except a client of which a write has failed, which its reader
  may not have noticed: nothing empties its channel any more. A reader that waits for a slot of
  its own never returns, and when the hub waits for one, every room stands still.
* `LobbyUncharged`, `StakesExplained`, `PoolMatchesStakes`, `StatusDiscipline`: a start whose
  commit took effect and was reported as a failure (the call has 15 seconds, `hub.go:423`, and
  the reply to `tx.Commit` may be late, `game_service.go:419`) is taken for a failed one. The
  room is in the lobby with its stakes taken and its row `active`, against "Stake is deducted
  later when the game actually starts" (`game_service.go:312`), and the next start takes the
  stakes again and writes the pool of the last batch over that of the first. `lost[g]` counts
  such starts: the properties say that nothing else does this, and each of them once. Where no
  reply is lost (`LostReply = FALSE`), they hold without the exception.
* `PayoutsSucceed`: a prize has 10 seconds (`hub.go:577`) and a start 15, so that a prize that
  waits for a row of a start may run out of time. This is a fault like others; what is
  excluded is that the start refuses it, or that the database picks it in a deadlock.
* `ActiveHasRoom` excepts a restart and a lost update of a resolved game: the session stays
  `active` in the database for good.
* `PoolExplained` and `ResolvedForGood` except a game with two rooms, whose second start counts
  its own stakes only (`two_rooms` below) and may come after the first room was resolved:
  `DeductStakesAndStart` asks for no status of the session.
* `SilenceExplained`: after the first round, or a failed start, the ticker may be gone, and
  clients hear no more of the countdown than `room:timer_restart`.
* `LobbyMovesOn` speaks of a lobby whose timer runs. After a start that failed it does not
  ("Revert to lobby so timer can restart", `hub.go:438`; but `scheduleGameStart` returns after
  `startGame`, line 383): the room waits for another card.
* `RefusalsExplained`: the empty phone number counts as one, so that of all users who come
  through `/auth/verify` without having registered only the first gets an account.

Fairness (`FairSpec`, used by the runs with liveness). Goroutines that can run do run,
and sleeps end: weak fairness for the timers, the ball goroutines, `startGame`, the hub, and
what a reader does with a message it has taken up. A blocked sender of one of the hub's
channels queues first come, first served, and `select` picks at random among ready channels:
strong fairness of `HubReceive`. In `Hub` the same goes for the hub as a sender on
`Client.Send`, and a write to a connection ends, with success or an error. The code sets no
write deadline, so the last is an assumption about clients: they read what they are sent, or
break. Clients owe nothing: joining, selecting, leaving and disconnecting are not fair. In
`LobbyClock` time passes, and a start ends because its context does after 15 seconds. In
`Wallet` and `Accounts` a call whose statement can be executed goes on, one step at a time and
weakly fair: the database answers, hands on its locks, and looks for deadlocks. Failures are
never fair.

### What the code does not do

Each of these runs checks one statement of a comment and finds it violated.

* `late_card`: "Deduct stakes from everyone who selected a card" (`hub.go:434`). A player
  whose `SelectCard` saw the lobby just before the start is recorded after `userIDs` was
  collected: ready, able to win, counted in the prize (`hub.go:583`), and not charged.
* `two_rooms`: "updates the game session prize pool" (`game_service.go:354`). Nothing is locked
  between the scan, the query and `CreateRoom` of a lookup (`hub.go:623-649`): two readers both
  scan before there is a room, one adopts the session that the other has inserted, and each
  makes a `Room` for the game. When the second starts too, `prize_pool` and `total_players` are
  those of the second only. (A joiner during a start may get a second room as well: the room
  has left the lobby then, and its row has not.)
* `can_play`: "SelectCard creates a cartela for a user" (`game_service.go:311`). A token
  carries the Telegram id (`user_handler.go:122`), `handleRoomJoin` makes it `Client.UserID`
  (`hub.go:711`), and `user_cartelas.user_id` refers to `users.id`, a serial: the insert is
  refused, or made for whoever has that id.

Besides these, without a run: a board made for one game wins another after its client has
moved there (`Client.Cartela` survives `handleRoomJoin`, and `checkWinners` asks for nothing
else); `user_cartelas.outcome` is never set to `won`, so that the statistics of
`game_service.go:291` count no wins; `handleCardSelect` reads the map `h.rooms` without its
lock (`hub.go:743`).

## 4. Theorems

All theorems are about `Spec`, without fairness, for every value of the constants that
satisfies the module's assumption.

| Module | Theorem | Property |
|---|---|---|
| `BingoRoomProofs` | `TypeCorrect` | `TypeOK` |
| | `StartIsExclusive` | `StartExclusive` |
| | `OnlyReadyPlayersPay` | `ChargedHadCard` |
| | `PlayHasQuorum` | `PlayNeedsQuorum` |
| | `OnePrize` | `PrizeOnce` |
| | `OnlyFailedCallsRepeat` | `StakesExplained` |
| | `BooksAgree` | `PoolMatchesStakes` |
| | `Invariant` | `IInv` |
| | `LobbyTakesNothing` | `LobbyUncharged` |
| | `StatusInOrder` | `StatusDiscipline` |
| `BingoRoomRefinesProofs` | `Implements` | `ImplementsContract` |
| | `RoomsLive` | `ImplementsLife` |
| `RoomLookupProofs` | `Invariant`, `TypeCorrect` | `LInv`, `TypeOK` |
| | `OneStakePerGame` | `StakeOncePerGame` |
| | `OneRoomPool` | `PoolExplained` |
| | `ActiveGameHasRoom` | `ActiveHasRoom` |
| | `ResolvedStays` | `ResolvedForGood` |
| | `RoomsLive` | `ImplementsLife` |
| `WalletProofs` | `Invariant`, `TypeCorrect` | `WInv`, `TypeOK` |
| | `TrailAddsUp` | `BalancesMatchTrail` |
| | `AnswersAreTrue` | `AnswersHold` |
| | `PayoutsGoThrough` | `PayoutsSucceed` |
| | `NeverAllWait` | `SomeoneGoesOn` |
| | `Implements` | `ImplementsLedger` |
| `AccountsProofs` | `Invariant` | `AInv` |
| | `AccountIsOne` | `OneAccount` |
| | `NeverAllWait` | `SomeoneGoesOn` |
| | `RefusalHasReason` | `RefusalsExplained` |
| `LobbyClockProofs` | `Invariant`, `TypeCorrect` | `CInv`, `TypeOK` |
| | `CountdownIsAccurate` | `CountdownAccurate` |
| | `SilenceHasReason` | `SilenceExplained` |
| `HubProofs` | `Invariant`, `TypeCorrect` | `HInv`, `TypeOK` |
| | `ClosedOnlyIfMoved` | `ClosedHasMoved` |
| | `SendersAreServed` | `SendersServed` |
| | `OnlyTheseLeak` | `LeaksExplained` |
| `CartelaProofs` | `TypeCorrect` | `TypeOK` |
| | `BoardsGenerated` | `GeneratesBoards` |
| | `DrawAlwaysPossible` | `DrawPossible` |
| | `LettersNameColumns` | `LetterNamesColumn` |
| | `WinsFound`, `WinsAreLines` | `WinIsALine`; the same for any board at all |
| | `LinesOfBoards` | what `BingoRoom` assumes of `Lines` |

The arguments.

*Rooms.* `Typed` adds to the types that the references a goroutine uses are there (its
room, its board, the winner's board). On it rests `Exclusive`: whoever is in `startGame` is
alone there, the room is active, and no ball goroutine runs; as a room in the lobby has no
ball goroutine either, the one place that lets a goroutine in, a room in the lobby, is free.
From then on each invariant follows its room through the single start: `Charged` (the batch
is among the ready, and players never stop being ready), `Quorate` (what was enough players
in the lobby is at least as many in the batch, and then among the payers, who never get
fewer), `Rows` (the row leaves the lobby with the first commit), `Prizes` (only the ball
goroutine pays, and only after it found the room unresolved and marked it). `Exclusive` is needed by
all of them: without it a second start could take the stakes that the invariant of the first
speaks of. The proofs sort the steps
first: the lemma `Steps` says that every step is quiet (it moves nobody in or out of a start,
and touches no status, stake, prize or ball) or one of the eleven that matter, so that each
invariant is proved over those.

*The contract.* With `IInv` (and `Judged`: what is being settled has been won with the balls
called so far, also if the winner's client has another board by now) each of those eleven steps
is one operation of `GameContract` or leaves all its variables alone, one lemma for each.

*Lost replies.* A start that has taken effect and is reported as failed leaves its stakes
behind with the room in the lobby. `Repeats` counts them: before a commit that `startGame`
knows of (`Unstarted`), each stake already taken is one of the failed calls. `Pooled` carries
the pool over such a start: players never stop being ready, so whoever paid before is in the
next batch, and the number of users in the batch is the number of all who have paid. That the
row is in the lobby before the commit (`Rows`) is then so only if no reply was lost.

*The life of a room.* Whoever is in `startGame` is the only one there (`Exclusive`), so where
it is is where its room is (`LifeWithStarter`); a step of one goroutine is seen by its own
room only (`Elsewhere`). `Pooled` makes the batch before the commit the payers after it.
`Removed` is the one new fact: a room out of `Hub.rooms` is resolved and has nothing left to pay,
so that no step of a goroutine brings it back. In `RoomLookup` each action is one of
`RoomLife`, or none; `Entered` (no entry of `Hub.rooms` leads to a removed room) keeps players
from sitting down in a room that is gone, whichever room of its game the entry was for.

*Wallets.* `CallInv` follows a call through its statements: what it has scanned still stands
because it holds the row's lock, what it has written follows from what stands, and it holds
locks on just the rows it has been at. So a commit is one step of `Ledger`: `Posted` says it
has not been one before. Payouts hold one lock at most and wait while holding none, so they
are in no circle, and nothing refuses them. `BalancesMatchTrail` sums entries with a fold of
the library, whose value is a `CHOOSE` among functions on the parts of a set: `SumExists` and
`SumUnique` show that there is one and only one on each finite set, by looking at a smallest
set without, and `MovedEither` that it does not matter which entry is counted first; then a
commit adds one entry for each of its users. `NeverAllWait`: only finitely many calls have a
connection; if all of them are stuck, each waits for a row of another, and a smallest set of
stuck calls that is closed under waiting is a circle, one call of which the database ends.

*Lookup.* `OneSeat` is the heart: the UNIQUE of `user_cartelas` makes the ready players of two
rooms of a game disjoint, and the batches are among them; `PaidIsOver` says who has paid is not
ready in a room still to start. A restart empties neither the cards nor the stakes, so a game
that is adopted again finds its old players with their cards and cannot seat them. `Pools`
follows a game through its rooms: as long as its only room is still to start, the row is in the
lobby and nothing is paid; the commit of that room writes the pool of its own batch, which is
all that is paid then. A second room, looked up while the row was in the lobby but perhaps made
later, takes a game out of what `PoolExplained` and `ResolvedForGood` promise. `ActiveHasRoom`
is among the parts that hold with two rooms as well: whichever resolves first takes the row
along.

*Countdown.* `TimerInStep`: `StartTime` and the timer's sleep tell the same time.
`MessageInStep`: what the ticker is about to send is true, or is the zero of the round before,
which is also its last message. `WaitInStep`: when the ticker waits, everybody has been told
the truth of this second.

*Accounts.* Every index entry, committed or not, has a key of its own (`KeysUnique`,
`UsersUnique`), and the serial makes the ids different, also after rollbacks. The keys are
taken in one order, the Telegram id and then the phone number, and whoever has both waits for
nobody: so no requests wait in a circle (`NeverAllWait`).

*Hub.* `Served` and `ClosedIsGone`: a client that the hub registers or greets has a room and a
reader that is still there, one that it unregisters has a room and a reader that has returned,
and only the latter is ever closed. So nobody is registered after being closed, and whoever is
being sent to has a write pump that runs (`PumpsRun`): it ends only after the close, or with a
failed write (`SendersServed`).

*Boards.* `Filling`: cells passed are drawn from their column, the others are 0, and `used` is
what is on the board.

Only model-checked are the six liveness properties, `ReadyGameStarts`, `StartedGameResolves`,
`EveryCallEnds`, `EveryRequestEnds`, `RoomsGoOn` and `LobbyMovesOn`: fairness and `ENABLED` are
beyond the prover. (`SomeoneGoesOn` spells out the guards of the statements, `CanGoOn`, where
it might say `ENABLED`.) Every other property of a passing run is a theorem.
The correctness of the abstract database (locks, visibility, UNIQUE, deadlock detection) is
assumed.

## 5. Plan

| Module | Models | Promises | State |
|---|---|---|---|
| `BingoRoom`, `GameContract` | rooms, readers, stakes, prizes | the contract | checked; all but liveness proved |
| `RoomLife` | a room from its making to its end | the rooms of `BingoRoom` and `RoomLookup` are the same | checked, proved of both |
| `Cartela` | boards and lines | section 3 | checked, proved |
| `RoomLookup` | lookup, restart | section 3 | checked, proved |
| `Hub` | channels, pumps, closing | section 3 | checked; safety proved |
| `Wallet`, `Ledger` | money transactions by statement | the ledger | checked; safety proved |
| `LobbyClock` | countdown against timer | the countdown is true | checked; safety proved |
| `Accounts` | concurrent first requests | one account each | checked; safety proved |

Left: that `Wallet` with the calls of two rooms implements the steps `Deduct` and `CreditWin`
of `BingoRoom` (the two meet in prose here), and that the lobby of `LobbyClock` is that of
`RoomLife`; that what all users have in `BingoRoom` is what they had, less the stakes and with
the prizes, with the sums of `WalletProofs`; a client's move between two rooms in one run with
the boards (`BingoRoom` models it, its runs have one room).

## 6. Not modelled

* Validation of initData and tokens (`internal/middleware`): cryptographic checks of single
  requests, without state. Whose token it is, is in `Accounts`.
* HTTP handlers of wallets and games, `GetProfile`: one query each, no change.
* Configuration, the making of pools, and Redis, whose helpers have no caller.
* `cmd/server`: wiring; a stop and a start of the process are `Restart` in `RoomLookup`.
* Functions without a caller: `JoinGame`, `UpdateGameStatus`, `UpdatePhoneNumber`, and
  `DeductStake`.
* Message formats, and how the driver hands a JSON matrix to `Matrix5x5.Scan`, which is not in
  this repository; the models take a board as it was generated.
* `GenerateGameID`'s random names: a collision is an insert that fails.
