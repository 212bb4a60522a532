--------------------------------- MODULE Hub ---------------------------------
(***************************************************************************)
(* The hub of internal/websocket/hub.go as a switchboard: its unbuffered   *)
(* channels register, unregister and broadcast, the Send channel and the   *)
(* two pumps of each connection, and who is in Room.Clients.  Messages are *)
(* counted, not read.  What rooms do between broadcasts is module          *)
(* BingoRoom; that their broadcasts get through is shown here.             *)
(***************************************************************************)
EXTENDS Integers, FiniteSets

CONSTANTS
    Games,      \* the rooms
    Ending,     \* those that may end, and be removed
    Talking,    \* those whose goroutines broadcast
    Conns,      \* the connections
    Users,
    TokensOf,   \* TokensOf[c]: the users whose tokens connection c may present
    Droppable,  \* the connections that may break
    Cap,        \* slots of Client.Send: 256 in the code
    Nil

\* What the hub goroutine may be doing: the message of one of its channels, or a client
\* that it registers and still owes some messages.
Request == [op : {"register", "unregister"}, client : Conns]
           \cup [op : {"greet"}, client : Conns, left : 1 .. 3]
           \cup [op : {"broadcast"}, game : Games]

ASSUME HubAssumption ==
    /\ Games \cap Conns = {} /\ Ending \subseteq Games /\ Talking \subseteq Games
    /\ Nil \notin Games \cup Conns \cup Request
    /\ Nil \notin Users
    /\ TokensOf \in [Conns -> SUBSET Users]
    /\ Droppable \subseteq Conns
    /\ Cap \in Nat \ {0}

VARIABLES
    open,       \* is the room in Hub.rooms?
    clients,    \* Room.Clients: user -> connection or Nil
    hub,        \* what the hub goroutine is doing, or Nil
    sender,     \* a room's goroutine: running, or waiting to broadcast
    reader,     \* where the reader of each connection is
    userID,     \* Client.UserID
    gameID,     \* Client.GameID
    queue,      \* messages in Client.Send
    closed,     \* has Client.Send been closed?
    pump,       \* the write pump: "run", "failed" after a failed write, or "ended"
    down        \* has the process ended in a panic?

clientVars == <<userID, gameID>>
connVars == <<queue, closed, pump>>
vars == <<open, clients, hub, sender, reader, clientVars, connVars, down>>

-----------------------------------------------------------------------------
(* Readers. *)

\* handleRoomJoin: the client is whoever its token names, in whatever room it is ...
Authenticate(c) ==
    /\ reader[c] = "idle"
    /\ \E u \in TokensOf[c] : userID' = [userID EXCEPT ![c] = u]
    /\ reader' = [reader EXCEPT ![c] = "lookup"]
    /\ UNCHANGED <<open, clients, hub, sender, gameID, connVars, down>>

\* ... and the lookup returns room g.
JoinRoom(c, g) ==
    /\ reader[c] = "lookup" /\ open[g]
    /\ gameID' = [gameID EXCEPT ![c] = g]
    /\ reader' = [reader EXCEPT ![c] = "register"]
    /\ UNCHANGED <<open, clients, hub, sender, userID, connVars, down>>

\* handleCardSelect has got a card; the acknowledgement follows the broadcast.  It sends
\* neither when it finds the room removed.
SelectCard(c) ==
    /\ reader[c] = "idle" /\ gameID[c] # Nil /\ open[gameID[c]]
    /\ reader' = [reader EXCEPT ![c] = "broadcast"]
    /\ UNCHANGED <<open, clients, hub, sender, clientVars, connVars, down>>

\* A token or a card is refused, or the lookup fails: an error to the client.
Refuse(c) ==
    /\ reader[c] \in {"idle", "lookup"}
    /\ reader' = [reader EXCEPT ![c] = "reply"]
    /\ UNCHANGED <<open, clients, hub, sender, clientVars, connVars, down>>

\* client.Send <- by its own reader blocks while the channel is full.
Reply(c) ==
    /\ reader[c] = "reply" /\ queue[c] < Cap
    /\ queue' = [queue EXCEPT ![c] = @ + 1]
    /\ reader' = [reader EXCEPT ![c] = "idle"]
    /\ UNCHANGED <<open, clients, hub, sender, clientVars, closed, pump, down>>

\* ReadMessage fails: only a client that has joined a room is unregistered.
Disconnect(c) ==
    /\ c \in Droppable /\ reader[c] = "idle"
    /\ reader' = [reader EXCEPT ![c] = IF gameID[c] = Nil THEN "gone" ELSE "unregister"]
    /\ UNCHANGED <<open, clients, hub, sender, clientVars, connVars, down>>

-----------------------------------------------------------------------------
(* Write pumps: range client.Send. *)

\* A write fails when the connection has broken, which its reader may not have noticed, or
\* be too busy to notice; the pump returns and leaves Send as it is.
Write(c) ==
    /\ pump[c] = "run" /\ queue[c] > 0
    /\ queue' = [queue EXCEPT ![c] = @ - 1]
    /\ UNCHANGED pump \/ (c \in Droppable /\ pump' = [pump EXCEPT ![c] = "failed"])
    /\ UNCHANGED <<open, clients, hub, sender, reader, clientVars, closed, down>>

\* Mutated form: the pump ends when it finds nothing to write.
EndWhenIdle(c) ==
    /\ pump[c] = "run" /\ queue[c] = 0
    /\ pump' = [pump EXCEPT ![c] = "ended"]
    /\ UNCHANGED <<open, clients, hub, sender, reader, clientVars, queue, closed, down>>
End(c) ==
    /\ pump[c] = "run" /\ queue[c] = 0 /\ closed[c]
    /\ pump' = [pump EXCEPT ![c] = "ended"]
    /\ UNCHANGED <<open, clients, hub, sender, reader, clientVars, queue, closed, down>>

-----------------------------------------------------------------------------
(* Rooms. *)

\* A goroutine of the room has something to broadcast, and waits for the hub.
Announce(g) ==
    /\ g \in Talking /\ sender[g] = "run"
    /\ sender' = [sender EXCEPT ![g] = "broadcast"]
    /\ UNCHANGED <<open, clients, hub, reader, clientVars, connVars, down>>

\* The goroutine that resolveGame leaves behind.
RemoveRoom(g) ==
    /\ g \in Ending /\ open[g]
    /\ open' = [open EXCEPT ![g] = FALSE]
    /\ UNCHANGED <<clients, hub, sender, reader, clientVars, connVars, down>>

-----------------------------------------------------------------------------
(* The hub goroutine. *)

\* The rendezvous with a reader; one that has broadcast goes on to its acknowledgement.
ReceiveFrom(c) ==
    /\ hub = Nil /\ reader[c] \in {"register", "unregister", "broadcast"}
    /\ hub' = IF reader[c] = "broadcast" THEN [op |-> "broadcast", game |-> gameID[c]]
                                         ELSE [op |-> reader[c], client |-> c]
    /\ reader' = [reader EXCEPT ![c] = CASE @ = "register" -> "idle"
                                         [] @ = "unregister" -> "gone"
                                         [] @ = "broadcast" -> "reply"]
    /\ UNCHANGED <<open, clients, sender, clientVars, connVars, down>>

\* The rendezvous with a goroutine of a room.
ReceiveFromRoom(g) ==
    /\ hub = Nil /\ sender[g] = "broadcast"
    /\ hub' = [op |-> "broadcast", game |-> g]
    /\ sender' = [sender EXCEPT ![g] = "run"]
    /\ UNCHANGED <<open, clients, reader, clientVars, connVars, down>>

Doing(op) == hub # Nil /\ hub.op = op

\* handleRegister reads Client.GameID when it runs; then come one to three messages:
\* the countdown, the selected cards if any, and the last ball of an active game.
HandleRegister ==
    /\ Doing("register")
    /\ LET c == hub.client  g == gameID[c] IN
       IF open[g]
       THEN /\ clients' = [clients EXCEPT ![g][userID[c]] = c]
            /\ \E n \in 1 .. 3 : hub' = [op |-> "greet", client |-> c, left |-> n]
       ELSE hub' = Nil /\ UNCHANGED clients
    /\ UNCHANGED <<open, sender, reader, clientVars, connVars, down>>

\* Its sends have no default: the hub waits for a slot.
Greet ==
    /\ Doing("greet") /\ queue[hub.client] < Cap
    /\ queue' = [queue EXCEPT ![hub.client] = @ + 1]
    /\ hub' = IF hub.left = 1 THEN Nil ELSE [hub EXCEPT !.left = @ - 1]
    /\ UNCHANGED <<open, clients, sender, reader, clientVars, closed, pump, down>>

\* Mutated form: the channel is closed, the client stays in the room.
HandleUnregisterKeep ==
    /\ Doing("unregister")
    /\ closed' = [closed EXCEPT ![hub.client] = open[gameID[hub.client]]]
    /\ hub' = Nil
    /\ UNCHANGED <<open, clients, sender, reader, clientVars, queue, pump, down>>
\* Mutated form: the client is taken out, the channel stays open.
HandleUnregisterLeak ==
    LET c == hub.client  g == gameID[c] IN
    /\ Doing("unregister")
    /\ IF open[g] THEN clients' = [clients EXCEPT ![g][userID[c]] = Nil] ELSE UNCHANGED clients
    /\ hub' = Nil
    /\ UNCHANGED <<open, sender, reader, clientVars, connVars, down>>
\* handleUnregister takes out the user's entry, whichever connection it holds, and
\* closes this one's channel; it does neither if the room is gone.
HandleUnregister ==
    LET c == hub.client  g == gameID[c] IN
    /\ Doing("unregister")
    /\ IF open[g]
       THEN /\ clients' = [clients EXCEPT ![g][userID[c]] = Nil]
            /\ closed' = [closed EXCEPT ![c] = TRUE]
       ELSE UNCHANGED <<clients, closed>>
    /\ hub' = Nil
    /\ UNCHANGED <<open, sender, reader, clientVars, queue, pump, down>>

Audience(g) == IF open[g] THEN {clients[g][u] : u \in Users} \ {Nil} ELSE {}

\* handleBroadcast: a full channel is passed over, a closed one is a panic.  One step,
\* since only this goroutine closes channels and each queue is a matter of its own.
HandleBroadcast ==
    /\ Doing("broadcast")
    /\ LET audience == Audience(hub.game) IN
       IF \E c \in audience : closed[c]
       THEN down' = TRUE /\ UNCHANGED queue
       ELSE /\ queue' = [c \in Conns |-> IF c \in audience /\ queue[c] < Cap
                                         THEN queue[c] + 1 ELSE queue[c]]
            /\ UNCHANGED down
    /\ hub' = Nil
    /\ UNCHANGED <<open, clients, sender, reader, clientVars, closed, pump>>

-----------------------------------------------------------------------------
Init ==
    /\ open = [g \in Games |-> TRUE]
    /\ clients = [g \in Games |-> [u \in Users |-> Nil]]
    /\ hub = Nil
    /\ sender = [g \in Games |-> "run"]
    /\ reader = [c \in Conns |-> "idle"]
    /\ userID = [c \in Conns |-> Nil]
    /\ gameID = [c \in Conns |-> Nil]
    /\ queue = [c \in Conns |-> 0]
    /\ closed = [c \in Conns |-> FALSE]
    /\ pump = [c \in Conns |-> "run"]
    /\ down = FALSE

Reader(c) == \/ Authenticate(c) \/ \E g \in Games : JoinRoom(c, g)
             \/ SelectCard(c) \/ Refuse(c) \/ Disconnect(c)
WritePump(c) == Write(c) \/ End(c)
Handle == HandleRegister \/ Greet \/ HandleUnregister \/ HandleBroadcast

Next ==
    /\ ~down
    /\ \/ \E c \in Conns : Reader(c) \/ Reply(c) \/ WritePump(c) \/ ReceiveFrom(c)
       \/ \E g \in Games : Announce(g) \/ RemoveRoom(g) \/ ReceiveFromRoom(g)
       \/ Handle

Spec == Init /\ [][Next]_vars

(***************************************************************************)
(* The hub and the write pumps go on when they can.  Senders blocked on a  *)
(* channel, the hub on Client.Send among them, are served first come,      *)
(* first served, and select picks at random among ready channels: strong   *)
(* fairness.  Nobody owes a message, and what is shown here does not need  *)
(* the readers' turn.                                                      *)
(***************************************************************************)
Fairness ==
    /\ WF_vars(~down /\ Handle) /\ SF_vars(~down /\ Greet)
    /\ \A c \in Conns : WF_vars(~down /\ WritePump(c))
    /\ \A g \in Talking : SF_vars(~down /\ ReceiveFromRoom(g))

FairSpec == Spec /\ Fairness

-----------------------------------------------------------------------------
(* Properties. *)

\* Every variable keeps its range: in particular no channel holds more than Cap.
TypeOK ==
    /\ open \in [Games -> BOOLEAN]
    /\ clients \in [Games -> [Users -> Conns \cup {Nil}]]
    /\ hub \in Request \cup {Nil}
    /\ sender \in [Games -> {"run", "broadcast"}]
    /\ reader \in [Conns -> {"idle", "lookup", "register", "unregister", "broadcast", "reply", "gone"}]
    /\ userID \in [Conns -> Users \cup {Nil}]
    /\ gameID \in [Conns -> Games \cup {Nil}]
    /\ queue \in [Conns -> 0 .. Cap]
    /\ closed \in [Conns -> BOOLEAN]
    /\ pump \in [Conns -> {"run", "failed", "ended"}]
    /\ down \in BOOLEAN

\* What a send on a closed channel takes (hub.go:252, 279): the hub never greets a closed
\* client, and a closed client is in no room but one it had moved away from, or under a
\* user it was before its last token (hub.go:711).
ClosedHasMoved ==
    \A c \in Conns : closed[c] =>
        /\ Doing("greet") => hub.client # c
        /\ \A g \in Games, u \in Users : clients[g][u] = c => gameID[c] # g \/ userID[c] # u

\* A client whose reader has returned is closed, so that its write pump ends, unless it
\* never joined a room (hub.go:677) or its room had been removed (hub.go:244).  (A reader
\* that waits for a slot of a pump whose write has failed does not return at all.)
LeaksExplained ==
    \A c \in Conns :
        reader[c] = "gone" /\ ~(Doing("unregister") /\ hub.client = c)
            => closed[c] \/ gameID[c] = Nil \/ ~open[gameID[c]]

\* Whoever sends to a client and waits for a slot, the hub that greets it or its own
\* reader, has a write pump of the client that frees one, or one of which a write has
\* failed (hub.go:666): no pump ends well while someone may still send to it.
SendersServed ==
    \A c \in Conns :
        (Doing("greet") /\ hub.client = c) \/ reader[c] = "reply" => pump[c] # "ended"

\* A goroutine of a room that broadcasts gets on, however full the channels of its clients are,
\* unless the hub waits for a slot of a client of which a write has failed (hub.go:208),
\* or the process is down.
RoomsGoOn ==
    \A g \in Talking :
        sender[g] = "broadcast" ~>
            \/ sender[g] = "run"
            \/ Doing("greet") /\ queue[hub.client] = Cap /\ pump[hub.client] = "failed"
            \/ down

-----------------------------------------------------------------------------
(* The inductive invariant of the safety properties. *)

\* Who the hub is serving: a reader that it unregisters has returned, one that it registers
\* has not, and both have joined a room.
Served ==
    /\ \A c \in Conns : /\ reader[c] \in {"register", "unregister", "broadcast"} => gameID[c] # Nil
                        /\ reader[c] = "lookup" \/ gameID[c] # Nil => userID[c] # Nil
    /\ Doing("register") \/ Doing("greet") =>
           gameID[hub.client] # Nil /\ reader[hub.client] # "gone"
    /\ Doing("unregister") => gameID[hub.client] # Nil /\ reader[hub.client] = "gone"

\* Only a client whose reader has returned is closed.
ClosedIsGone == \A c \in Conns : closed[c] => reader[c] = "gone"

\* A write pump ends well for a closed client only.
PumpsRun == \A c \in Conns : pump[c] = "ended" => closed[c]

HInv == TypeOK /\ Served /\ ClosedIsGone /\ PumpsRun /\ ClosedHasMoved /\ LeaksExplained
=============================================================================
