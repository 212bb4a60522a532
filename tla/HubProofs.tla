------------------------------ MODULE HubProofs ------------------------------
(* Proofs about Hub, for any number of rooms, connections and slots.         *)
EXTENDS Hub, TLAPS

\* What the hub is doing, taken apart by its type.
LEMMA HubType ==
  ASSUME TypeOK
  PROVE  /\ Doing("register") \/ Doing("unregister") \/ Doing("greet") => hub.client \in Conns
         /\ Doing("greet") => hub.left \in 1 .. 3
         /\ Doing("broadcast") => hub.game \in Games
  BY HubAssumption DEF TypeOK, Doing, Request

\* The requests that readers hand to the hub.
LEMMA ReaderRequest ==
  ASSUME NEW c \in Conns, NEW op \in {"register", "unregister"}
  PROVE  LET h == [op |-> op, client |-> c] IN h \in Request /\ h # Nil /\ h.op = op /\ h.client = c
  BY HubAssumption DEF Request

LEMMA GreetRequest ==
  ASSUME NEW c \in Conns, NEW n \in 1 .. 3
  PROVE  LET h == [op |-> "greet", client |-> c, left |-> n]
         IN  h \in Request /\ h # Nil /\ h.op = "greet" /\ h.client = c /\ h.left = n
  BY HubAssumption DEF Request

LEMMA BroadcastRequest ==
  ASSUME NEW g \in Games
  PROVE  LET h == [op |-> "broadcast", game |-> g] IN h \in Request /\ h # Nil /\ h.op = "broadcast"
  BY HubAssumption DEF Request

\* A reader that has not returned and moves on, as another user or in another room or not.
LEMMA ReaderMoves ==
  ASSUME HInv, NEW c \in Conns, NEW l \in {"idle", "lookup", "register", "broadcast", "reply"},
         reader[c] # "gone", reader' = [reader EXCEPT ![c] = l],
         userID' \in [Conns -> Users \cup {Nil}], gameID' \in [Conns -> Games \cup {Nil}],
         \A d \in Conns : d # c => userID'[d] = userID[d] /\ gameID'[d] = gameID[d],
         gameID[c] # Nil => gameID'[c] # Nil,
         l \in {"register", "broadcast"} => gameID'[c] # Nil,
         l = "lookup" \/ gameID'[c] # Nil => userID'[c] # Nil,
         UNCHANGED <<open, clients, hub, sender, closed, pump, down>>, queue' \in [Conns -> 0 .. Cap]
  PROVE  HInv'
<1>. USE DEF HInv
<1>1. TypeOK'
  BY DEF TypeOK
<1>2. \A d \in Conns : d # c => reader'[d] = reader[d]
  BY DEF TypeOK
<1>3. reader'[c] = l /\ l # "gone" /\ l # "unregister"
  BY DEF TypeOK
<1>4. Served'
  <2>1. Doing("register") \/ Doing("unregister") \/ Doing("greet") => hub.client \in Conns
    BY HubType
  <2>2. Doing("unregister") => hub.client # c
    BY DEF Served
  <2>. QED
    BY <1>2, <1>3, <2>1, <2>2 DEF Served, Doing
<1>5. ClosedIsGone' /\ PumpsRun'
  BY <1>2, <1>3 DEF ClosedIsGone, PumpsRun
<1>6. ClosedHasMoved'
  BY <1>2 DEF ClosedHasMoved, ClosedIsGone, Doing
<1>7. LeaksExplained'
  BY <1>2, <1>3 DEF LeaksExplained, Doing
<1>. QED
  BY <1>1, <1>4, <1>5, <1>6, <1>7

\* Authenticate, JoinRoom, SelectCard, Refuse and Reply.
LEMMA ReaderSteps ==
  ASSUME HInv, NEW c \in Conns,
         \/ Authenticate(c) \/ \E g \in Games : JoinRoom(c, g)
         \/ SelectCard(c) \/ Refuse(c) \/ Reply(c)
  PROVE  HInv'
<1>0. /\ queue \in [Conns -> 0 .. Cap]
      /\ userID \in [Conns -> Users \cup {Nil}] /\ gameID \in [Conns -> Games \cup {Nil}]
      /\ reader[c] = "lookup" \/ gameID[c] # Nil => userID[c] # Nil
  BY DEF HInv, TypeOK, Served
<1>1. CASE Authenticate(c)
  <2>1. PICK u \in TokensOf[c] : userID' = [userID EXCEPT ![c] = u]
    BY <1>1 DEF Authenticate
  <2>2. u \in Users /\ u # Nil
    BY HubAssumption
  <2>3. userID' \in [Conns -> Users \cup {Nil}] /\ userID'[c] = u
    BY <1>0, <2>1, <2>2
  <2>4. \A d \in Conns : d # c => userID'[d] = userID[d]
    BY <1>0, <2>1
  <2>. QED
    BY <1>0, <1>1, <2>2, <2>3, <2>4, ReaderMoves DEF Authenticate, connVars
<1>2. ASSUME NEW g \in Games, JoinRoom(c, g) PROVE HInv'
  <2>1. /\ gameID' \in [Conns -> Games \cup {Nil}] /\ gameID'[c] = g /\ g # Nil
        /\ \A d \in Conns : d # c => gameID'[d] = gameID[d]
    BY <1>0, <1>2, HubAssumption DEF JoinRoom
  <2>. QED
    BY <1>0, <1>2, <2>1, ReaderMoves DEF JoinRoom, connVars
<1>3. CASE SelectCard(c)
  BY <1>0, <1>3, ReaderMoves DEF SelectCard, clientVars, connVars
<1>4. CASE Refuse(c)
  BY <1>0, <1>4, ReaderMoves DEF Refuse, clientVars, connVars
<1>5. CASE Reply(c)
  <2>1. queue' \in [Conns -> 0 .. Cap]
    BY <1>0, <1>5, HubAssumption DEF Reply
  <2>. QED
    BY <1>0, <1>5, <2>1, ReaderMoves DEF Reply, clientVars
<1>. QED
  BY <1>1, <1>2, <1>3, <1>4, <1>5

LEMMA DisconnectStep ==
  ASSUME HInv, NEW c \in Conns, Disconnect(c)
  PROVE  HInv'
<1>. USE DEF HInv, Disconnect, clientVars, connVars
<1>1. TypeOK'
  BY DEF TypeOK
<1>2. \A d \in Conns : d # c => reader'[d] = reader[d]
  BY DEF TypeOK
<1>3. /\ reader'[c] \in {"gone", "unregister"}
      /\ reader'[c] = "gone" => gameID[c] = Nil
      /\ reader'[c] = "unregister" => gameID[c] # Nil
  BY DEF TypeOK
<1>4. Served'
  BY <1>2, <1>3, HubType DEF Served, Doing
<1>5. ClosedIsGone' /\ PumpsRun'
  BY <1>2 DEF ClosedIsGone, PumpsRun
<1>6. ClosedHasMoved' /\ LeaksExplained'
  BY <1>2, <1>3 DEF ClosedHasMoved, LeaksExplained, Doing
<1>. QED
  BY <1>1, <1>4, <1>5, <1>6

\* Write pumps, rooms that announce, and broadcasts concern nobody's membership.
LEMMA OutsideSteps ==
  ASSUME HInv, TypeOK', PumpsRun', UNCHANGED <<clients, reader, clientVars, closed>>,
         \A g \in Games : open'[g] => open[g],
         hub' \in {hub, Nil} \/ (hub = Nil /\ hub'.op = "broadcast"),
         Doing("broadcast") \/ hub' # Nil \/ hub = Nil
  PROVE  HInv'
<1>1. \A op \in {"register", "unregister", "greet"} :
          (hub' # Nil /\ hub'.op = op) <=> Doing(op)
  BY DEF Doing
<1>2. \A op \in {"register", "unregister", "greet"} : Doing(op) => hub' = hub
  BY DEF Doing
<1>. QED
  BY <1>1, <1>2, HubType
  DEF HInv, TypeOK, Served, ClosedIsGone, PumpsRun, ClosedHasMoved, LeaksExplained, Doing, clientVars

LEMMA RoomSteps ==
  ASSUME HInv, \/ \E c \in Conns : WritePump(c)
               \/ \E g \in Games : Announce(g) \/ RemoveRoom(g) \/ ReceiveFromRoom(g)
               \/ HandleBroadcast
  PROVE  HInv'
<1>. USE DEF HInv, clientVars, connVars
<1>1. ASSUME NEW c \in Conns, WritePump(c) PROVE HInv'
  <2>1. TypeOK'
    <3>1. queue' \in [Conns -> 0 .. Cap]
      BY <1>1, HubAssumption DEF TypeOK, WritePump, Write, End
    <3>2. pump' \in [Conns -> {"run", "failed", "ended"}]
      BY <1>1 DEF TypeOK, WritePump, Write, End
    <3>. QED
      BY <1>1, <3>1, <3>2 DEF TypeOK, WritePump, Write, End
  <2>2. \/ UNCHANGED pump
        \/ pump' = [pump EXCEPT ![c] = "failed"]
        \/ pump' = [pump EXCEPT ![c] = "ended"] /\ closed[c]
    BY <1>1 DEF WritePump, Write, End
  <2>3. UNCHANGED closed
    BY <1>1 DEF WritePump, Write, End
  <2>4. PumpsRun'
    BY <2>2, <2>3 DEF PumpsRun, TypeOK
  <2>. QED
    BY <1>1, <2>1, <2>4, OutsideSteps DEF WritePump, Write, End
<1>2. ASSUME NEW g \in Games, Announce(g) PROVE HInv'
  <2>1. TypeOK'
    BY <1>2 DEF TypeOK, Announce
  <2>. QED
    BY <1>2, <2>1, OutsideSteps DEF Announce, PumpsRun
<1>3. ASSUME NEW g \in Games, RemoveRoom(g) PROVE HInv'
  <2>1. TypeOK' /\ \A h \in Games : open'[h] => open[h]
    BY <1>3 DEF TypeOK, RemoveRoom
  <2>. QED
    BY <1>3, <2>1, OutsideSteps DEF RemoveRoom, PumpsRun
<1>4. ASSUME NEW g \in Games, ReceiveFromRoom(g) PROVE HInv'
  <2>1. hub = Nil /\ hub' \in Request /\ hub' # Nil /\ hub'.op = "broadcast"
    BY <1>4, BroadcastRequest DEF ReceiveFromRoom
  <2>2. TypeOK'
    BY <1>4, <2>1 DEF TypeOK, ReceiveFromRoom
  <2>. QED
    BY <1>4, <2>1, <2>2, OutsideSteps DEF ReceiveFromRoom, Doing, PumpsRun
<1>5. CASE HandleBroadcast
  <2>1. queue' \in [Conns -> 0 .. Cap]
    BY <1>5, HubAssumption DEF HandleBroadcast, TypeOK
  <2>2. TypeOK'
    BY <1>5, <2>1 DEF HandleBroadcast, TypeOK
  <2>. QED
    BY <1>5, <2>2, OutsideSteps DEF HandleBroadcast, PumpsRun
<1>. QED
  BY <1>1, <1>2, <1>3, <1>4, <1>5

LEMMA ReceiveStep ==
  ASSUME HInv, NEW c \in Conns, ReceiveFrom(c)
  PROVE  HInv'
<1>. USE DEF HInv, ReceiveFrom, clientVars, connVars
<1>1. hub = Nil /\ gameID[c] \in Games /\ \A op : ~Doing(op)
  BY DEF TypeOK, Served, Doing
<1>2. \A d \in Conns : d # c => reader'[d] = reader[d]
  BY DEF TypeOK
<1>3. CASE reader[c] = "broadcast"
  <2>1. hub' \in Request /\ hub' # Nil /\ hub'.op = "broadcast" /\ reader'[c] = "reply"
    BY <1>1, <1>3, BroadcastRequest DEF TypeOK
  <2>2. TypeOK'
    BY <1>3, <2>1 DEF TypeOK
  <2>3. Served' /\ ClosedIsGone' /\ PumpsRun'
    BY <1>2, <1>3, <2>1 DEF Served, ClosedIsGone, PumpsRun, Doing
  <2>4. ClosedHasMoved' /\ LeaksExplained'
    BY <1>1, <1>2, <2>1 DEF ClosedHasMoved, LeaksExplained, Doing
  <2>. QED
    BY <2>2, <2>3, <2>4
<1>4. CASE reader[c] \in {"register", "unregister"}
  <2>1. /\ hub' \in Request /\ hub' # Nil /\ hub'.op = reader[c] /\ hub'.client = c
        /\ reader[c] = "register" => reader'[c] = "idle"
        /\ reader[c] = "unregister" => reader'[c] = "gone"
    BY <1>4, ReaderRequest DEF TypeOK
  <2>2. TypeOK'
    BY <1>4, <2>1 DEF TypeOK
  <2>3. Served' /\ ClosedIsGone' /\ PumpsRun'
    BY <1>1, <1>2, <1>4, <2>1, HubAssumption DEF Served, ClosedIsGone, PumpsRun, Doing
  <2>4. ClosedHasMoved' /\ LeaksExplained'
    BY <1>1, <1>2, <1>4, <2>1 DEF ClosedHasMoved, LeaksExplained, Doing
  <2>. QED
    BY <2>2, <2>3, <2>4
<1>. QED
  BY <1>3, <1>4

LEMMA RegisterStep ==
  ASSUME HInv, HandleRegister
  PROVE  HInv'
<1>. DEFINE c == hub.client
            g == gameID[c]
<1>. USE DEF HInv, clientVars, connVars
<1>1. c \in Conns /\ g \in Games /\ userID[c] \in Users /\ reader[c] # "gone" /\ Doing("register")
  BY HubType DEF HandleRegister, TypeOK, Served
<1>2. ~Doing("unregister") /\ ~Doing("greet")
  BY <1>1 DEF Doing
<1>3. CASE open[g]
  <2>1. clients' = [clients EXCEPT ![g][userID[c]] = c]
    BY <1>3 DEF HandleRegister
  <2>2. hub' \in Request /\ hub' # Nil /\ hub'.op = "greet" /\ hub'.client = c
    <3>1. PICK n \in 1 .. 3 : hub' = [op |-> "greet", client |-> c, left |-> n]
      BY <1>3 DEF HandleRegister
    <3>. HIDE DEF c
    <3>. QED
      BY <1>1, <3>1, GreetRequest
  <2>3. TypeOK'
    BY <1>1, <2>1, <2>2, HubAssumption DEF HandleRegister, TypeOK
  <2>4. Served' /\ ClosedIsGone' /\ PumpsRun'
    BY <1>1, <2>2 DEF HandleRegister, Served, ClosedIsGone, PumpsRun, Doing
  <2>5. \A d \in Conns, h \in Games, u \in Users : clients'[h][u] = d => d = c \/ clients[h][u] = d
    BY <1>1, <2>1, HubAssumption DEF TypeOK
  <2>6. ~closed[c]
    BY <1>1 DEF ClosedIsGone
  <2>7. ClosedHasMoved'
    BY <2>2, <2>5, <2>6 DEF HandleRegister, ClosedHasMoved
  <2>8. LeaksExplained'
    BY <1>2 DEF HandleRegister, LeaksExplained, Doing
  <2>. QED
    BY <2>3, <2>4, <2>7, <2>8
<1>4. CASE ~open[g]
  <2>1. hub' = Nil /\ UNCHANGED clients
    BY <1>4 DEF HandleRegister
  <2>2. TypeOK'
    BY <2>1 DEF HandleRegister, TypeOK
  <2>. QED
    BY <1>2, <2>1, <2>2
    DEF HandleRegister, Served, ClosedIsGone, PumpsRun, ClosedHasMoved, LeaksExplained, Doing
<1>. QED
  BY <1>3, <1>4

LEMMA GreetStep ==
  ASSUME HInv, Greet
  PROVE  HInv'
<1>. USE DEF HInv, Greet, clientVars
<1>1. hub.client \in Conns /\ hub.left \in 1 .. 3 /\ ~Doing("unregister")
  BY HubType DEF Doing
<1>2. \/ hub' = Nil
      \/ hub' \in Request /\ hub' # Nil /\ hub'.op = "greet" /\ hub'.client = hub.client
  <2>1. CASE hub.left = 1
    BY <2>1
  <2>2. CASE hub.left # 1
    <3>1. hub' = [hub EXCEPT !.left = @ - 1] /\ hub.left - 1 \in 1 .. 3
      BY <1>1, <2>2
    <3>2. hub \in [op : {"greet"}, client : Conns, left : 1 .. 3]
      BY DEF TypeOK, Doing, Request
    <3>3. /\ hub' \in [op : {"greet"}, client : Conns, left : 1 .. 3]
          /\ hub'.op = "greet" /\ hub'.client = hub.client
      BY <3>1, <3>2
    <3>. QED
      BY <3>3, HubAssumption DEF Request
  <2>. QED
    BY <2>1, <2>2
<1>3. queue' \in [Conns -> 0 .. Cap]
  BY <1>1, HubAssumption DEF TypeOK
<1>4. TypeOK'
  BY <1>2, <1>3 DEF TypeOK
<1>5. Served' /\ ClosedIsGone' /\ PumpsRun'
  BY <1>2 DEF Served, ClosedIsGone, PumpsRun, Doing
<1>6. ClosedHasMoved' /\ LeaksExplained'
  BY <1>1, <1>2 DEF ClosedHasMoved, LeaksExplained, Doing
<1>. QED
  BY <1>4, <1>5, <1>6

LEMMA UnregisterStep ==
  ASSUME HInv, HandleUnregister
  PROVE  HInv'
<1>. DEFINE c == hub.client
            g == gameID[c]
<1>. USE DEF HInv, clientVars
<1>1. c \in Conns /\ g \in Games /\ userID[c] \in Users /\ reader[c] = "gone" /\ hub' = Nil
  BY HubType DEF HandleUnregister, TypeOK, Served
<1>2. ~Doing("greet") /\ ~Doing("register")
  BY DEF HandleUnregister, Doing
<1>3. CASE open[g]
  <2>1. /\ clients' = [clients EXCEPT ![g][userID[c]] = Nil]
        /\ closed' = [closed EXCEPT ![c] = TRUE]
    BY <1>3 DEF HandleUnregister
  <2>2. TypeOK'
    BY <1>1, <2>1 DEF HandleUnregister, TypeOK
  <2>3. Served' /\ ClosedIsGone' /\ PumpsRun'
    BY <1>1, <2>1 DEF HandleUnregister, TypeOK, Served, ClosedIsGone, PumpsRun, Doing
  <2>4. \A d \in Conns, h \in Games, u \in Users :
            clients'[h][u] = d => clients[h][u] = d /\ ~(h = g /\ u = userID[c])
    BY <1>1, <2>1, HubAssumption DEF TypeOK
  <2>5. ClosedHasMoved'
    BY <1>1, <2>1, <2>4 DEF HandleUnregister, TypeOK, ClosedHasMoved, Doing
  <2>6. LeaksExplained'
    BY <1>1, <2>1 DEF HandleUnregister, TypeOK, LeaksExplained, Doing
  <2>. QED
    BY <2>2, <2>3, <2>5, <2>6
<1>4. CASE ~open[g]
  <2>1. UNCHANGED <<clients, closed>>
    BY <1>4 DEF HandleUnregister
  <2>2. TypeOK'
    BY <1>1, <2>1 DEF HandleUnregister, TypeOK
  <2>3. Served' /\ ClosedIsGone' /\ PumpsRun' /\ ClosedHasMoved'
    BY <1>1, <2>1 DEF HandleUnregister, Served, ClosedIsGone, PumpsRun, ClosedHasMoved, Doing
  <2>4. LeaksExplained'
    BY <1>1, <1>4, <2>1 DEF HandleUnregister, LeaksExplained, Doing
  <2>. QED
    BY <2>2, <2>3, <2>4
<1>. QED
  BY <1>3, <1>4

-----------------------------------------------------------------------------
(* Theorems. *)

\* Whoever the hub serves, and whatever it closes, is where it was thought to be.
THEOREM Invariant == Spec => []HInv
<1>1. Init => HInv
  <2>. SUFFICES ASSUME Init PROVE HInv
    OBVIOUS
  <2>1. TypeOK
    <3>1. open \in [Games -> BOOLEAN] /\ closed \in [Conns -> BOOLEAN]
      BY DEF Init
    <3>2. /\ clients \in [Games -> [Users -> Conns \cup {Nil}]] 
          /\ userID \in [Conns -> Users \cup {Nil}] /\ gameID \in [Conns -> Games \cup {Nil}]
      BY DEF Init
    <3>3. queue \in [Conns -> 0 .. Cap]
      BY HubAssumption DEF Init
    <3>4. /\ sender \in [Games -> {"run", "broadcast"}]
          /\ reader \in [Conns -> {"idle", "lookup", "register", "unregister", "broadcast", "reply", "gone"}]
          /\ pump \in [Conns -> {"run", "failed", "ended"}]
      BY DEF Init
    <3>. QED
      BY <3>1, <3>2, <3>3, <3>4 DEF Init, TypeOK
  <2>2. /\ reader = [c \in Conns |-> "idle"] /\ closed = [c \in Conns |-> FALSE]
        /\ pump = [c \in Conns |-> "run"] /\ gameID = [c \in Conns |-> Nil]
    BY DEF Init
  <2>3. \A op : ~Doing(op)
    BY DEF Init, Doing
  <2>. QED
    BY <2>1, <2>2, <2>3 DEF HInv, Served, ClosedIsGone, PumpsRun, ClosedHasMoved, LeaksExplained
<1>2. HInv /\ [Next]_vars => HInv'
  <2>. SUFFICES ASSUME HInv, [Next]_vars PROVE HInv'
    OBVIOUS
  <2>1. CASE UNCHANGED vars
    BY <2>1
    DEF vars, clientVars, connVars, HInv, TypeOK, Served, ClosedIsGone, PumpsRun, ClosedHasMoved, LeaksExplained, Doing
  <2>. QED
    BY <2>1, ReaderSteps, DisconnectStep, RoomSteps, ReceiveStep, RegisterStep, GreetStep,
       UnregisterStep
    DEF Next, Reader, Handle
<1>. QED
  BY <1>1, <1>2, PTL DEF Spec

\* Every variable keeps its range: in particular no Send channel holds more than Cap.
THEOREM TypeCorrect == Spec => []TypeOK
<1>1. HInv => TypeOK
  BY DEF HInv
<1>. QED
  BY <1>1, Invariant, PTL

\* A closed client is greeted by nobody, and is in no room but one it moved away from, or
\* under a user it was before its last token.
THEOREM ClosedOnlyIfMoved == Spec => []ClosedHasMoved
<1>1. HInv => ClosedHasMoved
  BY DEF HInv
<1>. QED
  BY <1>1, Invariant, PTL

\* A write pump that never ends is one of a client that joined no room, or whose room had
\* been removed.
THEOREM OnlyTheseLeak == Spec => []LeaksExplained
<1>1. HInv => LeaksExplained
  BY DEF HInv
<1>. QED
  BY <1>1, Invariant, PTL

\* Nobody waits for a slot of a write pump that has ended well.
THEOREM SendersAreServed == Spec => []SendersServed
<1>1. HInv => SendersServed
  BY HubType DEF HInv, Served, ClosedIsGone, PumpsRun, SendersServed
<1>. QED
  BY <1>1, Invariant, PTL
=============================================================================
