----------------------------- MODULE LobbyClock -----------------------------
(***************************************************************************)
(* The countdown of one room's lobby: the ticker goroutine (runLobbyTicker)*)
(* and the timer goroutine (scheduleGameStart) work on one StartTime, which*)
(* the timer sets under the lock and the ticker reads without it, and the  *)
(* clients see what the two broadcast and what registering sends them.     *)
(*                                                                         *)
(* Time is counted in whole seconds.  A second passes only when the ticker *)
(* and the timer wait for one: they may run in any order within a second,  *)
(* and readers and starts may take any number of seconds.  That a little   *)
(* more, or less, than a whole second has passed is left open by Remaining.*)
(***************************************************************************)
EXTENDS Integers, FiniteSets

CONSTANTS
    Clients,        \* the connections that may join the room, of one user each
    LobbyDuration,  \* in seconds; 30 in handleRoomJoin
    MinPlayers,     \* 2 in handleRoomJoin
    Timer,          \* the goroutine of scheduleGameStart
    Restart,        \* the announcement of a restart
    Nothing         \* what a client that is not in the room sees of its countdown

ASSUME LobbyClockAssumption ==
    /\ Timer \notin Clients
    /\ LobbyDuration \in Nat \ {0}
    /\ MinPlayers \in Nat
    /\ {Restart, Nothing} \cap Nat = {} /\ Restart # Nothing

VARIABLES
    status,     \* Room.Status
    ready,      \* the clients whose users are in Room.SelectedCards
    played,     \* have the stakes been taken and the session been made active?
    age,        \* seconds since StartTime, up to LobbyDuration
    left,       \* seconds until the timer's time.After fires
    pc,         \* where the timer and the reader of each client are
    tick,       \* does Ticker.C hold a tick?
    ticker,     \* where runLobbyTicker is
    message,    \* the TimeRemainingS it is about to broadcast
    view,       \* view[c]: the last that client c has heard of the countdown
    restarted,  \* has the timer ever announced a restart? (read by no goroutine)
    failed      \* has a start ever failed? (read by no goroutine)

clockVars == <<age, left, tick>>
tickerVars == <<ticker, message>>
history == <<restarted, failed>>
vars == <<status, ready, played, clockVars, pc, tickerVars, view, history>>

Goto(p, label) == pc' = [pc EXCEPT ![p] = label]

Present == {c \in Clients : view[c] # Nothing}

\* handleBroadcast, to every client of the room.
Tell(v) == view' = [c \in Clients |-> IF c \in Present THEN v ELSE Nothing]

\* What int(LobbyDuration - elapsed) may be, but never less than zero: elapsed is some
\* nanoseconds less or more than a whole number of seconds.
Remaining ==
    {LobbyDuration - age, IF age < LobbyDuration THEN LobbyDuration - age - 1 ELSE 0}

-----------------------------------------------------------------------------
(* Time *)

\* The timer and the ticker have done what there is to do in this second.
AtRest ==
    /\ pc[Timer] \in {"sleep", "start", "done"}
    /\ pc[Timer] = "sleep" => left > 0
    /\ ticker = "done" \/ (ticker = "wait" /\ ~tick)

\* A second passes.  Ticker.C holds one tick, and is never stopped.
Second ==
    /\ AtRest
    /\ age' = IF age < LobbyDuration THEN age + 1 ELSE age
    /\ left' = IF pc[Timer] = "sleep" THEN left - 1 ELSE left
    /\ tick' = TRUE
    /\ UNCHANGED <<status, ready, played, pc, tickerVars, view, history>>

-----------------------------------------------------------------------------
(* runLobbyTicker *)

\* The tick, and the status under the lock.
Look ==
    /\ ticker = "wait" /\ tick
    /\ tick' = FALSE
    /\ ticker' = IF status = "lobby" THEN "compute" ELSE "done"
    /\ UNCHANGED <<status, ready, played, age, left, pc, message, view, history>>

\* StartTime, after the lock is released.
Compute ==
    /\ ticker = "compute"
    /\ message' \in Remaining
    /\ ticker' = "send"
    /\ UNCHANGED <<status, ready, played, clockVars, pc, view, history>>

\* Mutated form: the last second is taken for the end.
IsLastEarly(n) == n <= 1
IsLast(n) == n <= 0

\* The broadcast, and the end of the goroutine.
Announce ==
    /\ ticker = "send"
    /\ Tell(message)
    /\ ticker' = IF IsLast(message) THEN "done" ELSE "wait"
    /\ UNCHANGED <<status, ready, played, clockVars, pc, message, history>>

-----------------------------------------------------------------------------
(* scheduleGameStart *)

Enough == Cardinality(ready) >= MinPlayers

\* The top of the loop: StartTime is now.
Arm ==
    /\ pc[Timer] = "arm"
    /\ IF status = "lobby"
       THEN /\ age' = 0 /\ left' = LobbyDuration
            /\ Goto(Timer, "sleep")
       ELSE Goto(Timer, "done") /\ UNCHANGED <<age, left>>
    /\ UNCHANGED <<status, ready, played, tick, tickerVars, view, history>>

\* Mutated form: the goroutine ends when too few are ready.
ExpireForGood ==
    /\ pc[Timer] = "sleep" /\ left = 0
    /\ IF status = "lobby" /\ Enough
       THEN status' = "active" /\ Goto(Timer, "start")
       ELSE UNCHANGED status /\ Goto(Timer, "done")
    /\ UNCHANGED <<ready, played, clockVars, tickerVars, view, history>>
\* After LobbyDuration.
Expire ==
    /\ pc[Timer] = "sleep" /\ left = 0
    /\ \/ status # "lobby" /\ UNCHANGED status /\ Goto(Timer, "done")
       \/ status = "lobby" /\ Enough /\ status' = "active" /\ Goto(Timer, "start")
       \/ status = "lobby" /\ ~Enough /\ UNCHANGED status /\ Goto(Timer, "restart")
    /\ UNCHANGED <<ready, played, clockVars, tickerVars, view, history>>

\* room:timer_restart.
AnnounceRestart ==
    /\ pc[Timer] = "restart"
    /\ Tell(Restart)
    /\ restarted' = TRUE
    /\ Goto(Timer, "arm")
    /\ UNCHANGED <<status, ready, played, clockVars, tickerVars, failed>>

-----------------------------------------------------------------------------
(* Readers, and the hub for them *)

\* handleRoomJoin: the lookup finds the room in the lobby.
Join(c) ==
    /\ pc[c] = "away" /\ status = "lobby"
    /\ Goto(c, "register")
    /\ UNCHANGED <<status, ready, played, clockVars, tickerVars, view, history>>

\* Mutated form: whoever joins is told of a whole round.
RegisterWhole(c) ==
    /\ pc[c] = "register"
    /\ view' = [view EXCEPT ![c] = LobbyDuration]
    /\ Goto(c, "idle")
    /\ UNCHANGED <<status, ready, played, clockVars, tickerVars, history>>
\* handleRegister, which tells the client of the countdown whatever the status is.
Register(c) ==
    /\ pc[c] = "register"
    /\ \E n \in Remaining : view' = [view EXCEPT ![c] = n]
    /\ Goto(c, "idle")
    /\ UNCHANGED <<status, ready, played, clockVars, tickerVars, history>>

\* The connection ends and handleUnregister takes it out of the room; its user may
\* come back.
Leave(c) ==
    /\ pc[c] = "idle"
    /\ view' = [view EXCEPT ![c] = Nothing]
    /\ Goto(c, "away")
    /\ UNCHANGED <<status, ready, played, clockVars, tickerVars, history>>

\* handleCardSelect, of a session that is still in the lobby.
Select(c) ==
    /\ pc[c] = "idle" /\ c \notin ready /\ ~played
    /\ ready' = ready \cup {c}
    /\ Goto(c, "try")
    /\ UNCHANGED <<status, played, clockVars, tickerVars, view, history>>

\* tryStartGame.
TryStart(c) ==
    /\ pc[c] = "try"
    /\ IF status = "lobby" /\ Enough
       THEN status' = "active" /\ Goto(c, "start")
       ELSE UNCHANGED status /\ Goto(c, "idle")
    /\ UNCHANGED <<ready, played, clockVars, tickerVars, view, history>>

-----------------------------------------------------------------------------
(* startGame, by the timer or by a reader: it waits for the database. *)

\* Where a goroutine goes on when startGame returns.
AfterStart(p) == Goto(p, IF p = Timer THEN "done" ELSE "idle")

StartSucceeds(p) ==
    /\ pc[p] = "start"
    /\ played' = TRUE
    /\ AfterStart(p)
    /\ UNCHANGED <<status, ready, clockVars, tickerVars, view, history>>

StartFails(p) ==
    /\ pc[p] = "start"
    /\ status' = "lobby" /\ failed' = TRUE
    /\ AfterStart(p)
    /\ UNCHANGED <<ready, played, clockVars, tickerVars, view, restarted>>

-----------------------------------------------------------------------------
\* CreateRoom.
Init ==
    /\ status = "lobby"
    /\ ready = {}
    /\ played = FALSE
    /\ age = 0 /\ left = LobbyDuration
    /\ pc = [p \in Clients \cup {Timer} |-> IF p = Timer THEN "arm" ELSE "away"]
    /\ tick = FALSE
    /\ ticker = "wait" /\ message = LobbyDuration
    /\ view = [c \in Clients |-> Nothing]
    /\ restarted = FALSE /\ failed = FALSE

Ticker == Look \/ Compute \/ Announce
Schedule == Arm \/ Expire \/ AnnounceRestart
Handle(c) == Register(c) \/ TryStart(c)
StartGame(p) == StartSucceeds(p) \/ StartFails(p)

Next ==
    \/ Second
    \/ Ticker
    \/ Schedule
    \/ \E c \in Clients : Handle(c) \/ Join(c) \/ Leave(c) \/ Select(c)
    \/ \E p \in Clients \cup {Timer} : StartGame(p)

Spec == Init /\ [][Next]_vars

\* Goroutines that can run do run, time passes, and a start ends (its context does, after
\* 15 seconds); nothing makes a client join, leave or select.
Fairness ==
    /\ WF_vars(Second)
    /\ WF_vars(Ticker)
    /\ WF_vars(Schedule)
    /\ \A c \in Clients : WF_vars(Handle(c))
    /\ \A p \in Clients \cup {Timer} : WF_vars(StartGame(p))

FairSpec == Spec /\ Fairness

-----------------------------------------------------------------------------
(* Properties. *)

\* Every variable keeps its range: in particular no countdown below zero is shown, nor
\* one above LobbyDuration (hub.go:326, 179).
TypeOK ==
    /\ status \in {"lobby", "active"}
    /\ ready \subseteq Clients
    /\ played \in BOOLEAN
    /\ age \in 0 .. LobbyDuration
    /\ left \in 0 .. LobbyDuration
    /\ pc \in [Clients \cup {Timer} -> {"arm", "sleep", "restart", "done",
                                        "away", "register", "idle", "try", "start"}]
    /\ pc[Timer] \in {"arm", "sleep", "restart", "start", "done"}
    /\ \A c \in Clients : pc[c] \in {"away", "register", "idle", "try", "start"}
    /\ tick \in BOOLEAN
    /\ ticker \in {"wait", "compute", "send", "done"}
    /\ message \in 0 .. LobbyDuration
    /\ view \in [Clients -> (0 .. LobbyDuration) \cup {Restart, Nothing}]
    /\ restarted \in BOOLEAN
    /\ failed \in BOOLEAN

\* As long as the ticker of a room in the lobby runs, what every client of the room last
\* heard of the countdown is true to the second: the value it was sent when it joined,
\* or by the ticker, or the restart of this very second, although StartTime is moved
\* between the ticker's reads and joins and restarts come in any order (hub.go:324, 367).
CountdownAccurate ==
    AtRest /\ status = "lobby" /\ ticker # "done" =>
        \A c \in Present : view[c] \in Remaining \/ (view[c] = Restart /\ age = 0)

\* The ticker gives up on a lobby only because a round or a start has come to its end:
\* before the first restart and the first failed start it is silent in the last second
\* only, and whoever is in the room has by then been told of that second (hub.go:352).
SilenceExplained ==
    ticker = "done" /\ status = "lobby" /\ ~restarted /\ ~failed =>
        /\ age + 1 >= LobbyDuration
        /\ \A c \in Present : view[c] \in {0, 1}

\* "If the timer expires and ready < min, it restarts automatically" (hub.go:359): while
\* its timer runs, a lobby ends or its clients are told of a restart, however often
\* players join and leave.
LobbyMovesOn ==
    status = "lobby" /\ pc[Timer] # "done" ~> status # "lobby" \/ pc[Timer] = "restart"

-----------------------------------------------------------------------------
(* The inductive invariant. *)

\* The timer's sleep and StartTime tell the same time; a round that has been armed again
\* is one after a restart.
TimerInStep ==
    /\ pc[Timer] = "sleep" => age + left = LobbyDuration
    /\ pc[Timer] = "restart" => age = LobbyDuration
    /\ pc[Timer] = "arm" => age = 0 \/ (age = LobbyDuration /\ restarted)

\* What is about to be announced is true, but for the zero of the round before.
MessageInStep == ticker = "send" => message \in Remaining \/ (message = 0 /\ restarted)

\* A ticker that waits for its tick has told the truth; it does not wait at zero.
WaitInStep ==
    ticker = "wait" /\ ~tick =>
        /\ age < LobbyDuration
        /\ \A c \in Present : view[c] \in Remaining \/ (view[c] = Restart /\ age = 0)

CInv == TypeOK /\ TimerInStep /\ MessageInStep /\ WaitInStep /\ SilenceExplained
=============================================================================
