-------------------------- MODULE RoomLookupProofs --------------------------
(***************************************************************************)
(* Theorems of RoomLookup, for any number of readers, tiers, sessions,     *)
(* rooms and restarts.                                                     *)
(***************************************************************************)
EXTENDS RoomLookup, TLAPS, FiniteSetTheorems, SequenceTheorems

-----------------------------------------------------------------------------
(* Facts the proofs share. *)

\* Places of rows and of rooms.
LEMMA Places ==
  ASSUME TypeOK, Len(session) <= MaxSessions
  PROVE  /\ DOMAIN session = 1 .. Len(session) /\ Len(session) \in Nat
         /\ DOMAIN room = 1 .. Len(room) /\ Len(room) \in Nat
         /\ \A g \in DOMAIN session : g \in Games /\ session[g] \in GameSession
         /\ \A i \in DOMAIN room : room[i] \in Room
  BY LookupAssumption DEF TypeOK, Games

\* Replacing one room object keeps the others.
LEMMA RoomReplaced ==
  ASSUME room \in Seq(Room), NEW i \in DOMAIN room, NEW r \in Room, room' = [room EXCEPT ![i] = r]
  PROVE  /\ room' \in Seq(Room) /\ DOMAIN room' = DOMAIN room
         /\ \A j \in DOMAIN room : room'[j] = IF j = i THEN r ELSE room[j]
<1>1. i \in 1 .. Len(room)
  OBVIOUS
<1>. QED
  BY <1>1, ExceptSeq

\* So does replacing one row.
LEMMA RowReplaced ==
  ASSUME session \in Seq(GameSession), NEW g \in DOMAIN session, NEW r \in GameSession,
         session' = [session EXCEPT ![g] = r]
  PROVE  session' \in Seq(GameSession) /\ DOMAIN session' = DOMAIN session /\ Len(session') = Len(session)
<1>1. g \in 1 .. Len(session)
  OBVIOUS
<1>. QED
  BY <1>1, ExceptSeq

\* The number of players of a start is a number.
LEMMA Counted ==
  ASSUME NEW S \in SUBSET Readers
  PROVE  Cardinality(S) \in Nat
  BY LookupAssumption, FS_Subset, FS_CardinalityType

\* A room's players stay within its game's cards, apart from those of other rooms.
LEMMA RoomKeeps ==
  ASSUME LInv, NEW i \in DOMAIN room, NEW r \in Room, room' = [room EXCEPT ![i] = r],
         r.game = room[i].game, r.ready = room[i].ready, r.batch \subseteq r.ready,
         UNCHANGED <<rooms, cards>>
  PROVE  /\ room' \in Seq(Room) /\ DOMAIN room' = DOMAIN room
         /\ \A j \in DOMAIN room : room'[j] = IF j = i THEN r ELSE room[j]
         /\ OneSeat'
         /\ \A g \in Games : rooms'[g] # 0 => room'[rooms'[g]].game = g
<1>1. room \in Seq(Room)
  BY DEF LInv, TypeOK
<1>2. /\ room' \in Seq(Room) /\ DOMAIN room' = DOMAIN room
      /\ \A j \in DOMAIN room : room'[j] = IF j = i THEN r ELSE room[j]
  BY <1>1, RoomReplaced
<1>3. \A j \in DOMAIN room : room'[j].game = room[j].game /\ room'[j].ready = room[j].ready
  BY <1>2
<1>4. OneSeat'
  BY <1>2, <1>3 DEF LInv, OneSeat
<1>5. \A g \in Games : rooms'[g] # 0 => room'[rooms'[g]].game = g
  BY <1>3 DEF LInv, Referenced, TypeOK
<1>. QED
  BY <1>2, <1>4, <1>5

\* A room that has left the lobby, or goes back to it, changes nothing for those who have paid.
LEMMA PaidKeeps ==
  ASSUME LInv, UNCHANGED <<cards, paid>>, DOMAIN room' = DOMAIN room,
         \A j \in DOMAIN room : /\ room'[j].game = room[j].game /\ room'[j].ready = room[j].ready
                                /\ room'[j].status \in ToStart
                                      => room[j].status \in ToStart
  PROVE  PaidIsOver'
  BY DEF LInv, PaidIsOver, RoomsOf

-----------------------------------------------------------------------------
(* The inductive invariant, action by action. *)

\* A reader's own steps.
LEMMA ReaderStep ==
  ASSUME LInv, NEW c \in Readers,
         (\E t \in Tiers : Scan(c, t)) \/ Query(c) \/ LookupFails(c) \/ CheckLobby(c)
  PROVE  LInv'
<1>. USE DEF LInv
<1>1. UNCHANGED <<session, room, rooms, cards, paid, faults>>
  BY DEF Scan, Query, LookupFails, CheckLobby
<1>2. OneSeat' /\ PaidIsOver'
  BY <1>1 DEF OneSeat, PaidIsOver, RoomsOf
<1>3. DOMAIN session = 1 .. Len(session) /\ Len(session) \in Nat
  BY DEF TypeOK
<1>4. ASSUME NEW t \in Tiers, Scan(c, t) PROVE TypeOK' /\ Referenced'
  <2>1. LobbyRooms(t) \subseteq DOMAIN session
    <3>. SUFFICES ASSUME NEW g \in LobbyRooms(t) PROVE g \in DOMAIN session
      OBVIOUS
    <3>1. rooms[g] \in DOMAIN room /\ room[rooms[g]].game = g
      BY DEF LobbyRooms, Referenced, TypeOK
    <3>2. room[rooms[g]] \in Room
      BY <3>1, Places DEF Referenced
    <3>. QED
      BY <3>1, <3>2 DEF Room
  <2>2. tier' \in [Readers -> Tiers \cup {0}] /\ gameID' \in [Readers -> {0} \cup DOMAIN session]
        /\ pc' \in [Readers -> {"idle", "query", "insert", "make", "checked"}] /\ UNCHANGED found
    BY <1>4, <2>1 DEF Scan, TypeOK
  <2>3. TypeOK'
    BY <1>1, <2>2 DEF TypeOK, Room
  <2>4. \A d \in Readers : IF d = c THEN pc'[d] \in {"idle", "query"} /\ tier'[d] = t
                                   ELSE pc'[d] = pc[d] /\ tier'[d] = tier[d] /\ gameID'[d] = gameID[d]
    BY <1>4 DEF Scan, TypeOK
  <2>. QED
    BY <1>1, <2>2, <2>3, <2>4 DEF Referenced
<1>5. ASSUME Query(c) PROVE TypeOK' /\ Referenced'
  <2>1. \A g \in Adoptable(tier[c]) : g \in DOMAIN session /\ g # 0
    BY <1>3 DEF Adoptable, Unresolved
  <2>. QED
    <3>1. PICK f \in {0} \cup DOMAIN session, l \in {"make", "insert"} :
             /\ pc' = [pc EXCEPT ![c] = l] /\ (found' = [found EXCEPT ![c] = f] \/ UNCHANGED found)
             /\ l = "make" => found' = [found EXCEPT ![c] = f] /\ f # 0
      BY <1>5, <2>1 DEF Query
    <3>2. UNCHANGED <<tier, gameID>> /\ pc[c] = "query"
      BY <1>5 DEF Query
    <3>3. TypeOK'
      BY <1>1, <3>1, <3>2 DEF TypeOK, Room
    <3>4. Referenced'
      BY <1>1, <3>1, <3>2 DEF TypeOK, Referenced
    <3>. QED
      BY <3>3, <3>4
<1>6. ASSUME LookupFails(c) \/ CheckLobby(c) PROVE TypeOK' /\ Referenced'
  BY <1>1, <1>6 DEF LookupFails, CheckLobby, TypeOK, Referenced, Room
<1>. QED
  BY <1>2, <1>4, <1>5, <1>6

\* A new row.
LEMMA InsertStep ==
  ASSUME LInv, NEW c \in Readers, Insert(c)
  PROVE  LInv'
<1>. USE DEF LInv, Insert
<1>. DEFINE row == [tier |-> tier[c], status |-> "lobby", pool |-> 0]
<1>1. row \in GameSession
  BY DEF Referenced, GameSession
<1>2. /\ session' \in Seq(GameSession) /\ Len(session') = Len(session) + 1
      /\ Len(session) \in Nat /\ DOMAIN session = 1 .. Len(session)
      /\ DOMAIN session' = 1 .. Len(session')
  BY <1>1, AppendProperties DEF TypeOK
<1>3. DOMAIN session \subseteq DOMAIN session' /\ Len(session') \in DOMAIN session'
  BY <1>2
<1>4. Room \subseteq Room'
  BY <1>3 DEF Room
<1>5. room' \in Seq(Room')
  BY <1>4 DEF TypeOK
<1>6. TypeOK'
  BY <1>2, <1>3, <1>5 DEF TypeOK
<1>7. Len(session') <= MaxSessions
  BY <1>2, LookupAssumption
<1>8. Referenced'
  BY <1>2, <1>7 DEF Referenced, TypeOK
<1>9. OneSeat' /\ PaidIsOver'
  BY DEF OneSeat, PaidIsOver, RoomsOf
<1>. QED
  BY <1>6, <1>8, <1>9

\* A new room, with nobody in it.
LEMMA MakeStep ==
  ASSUME LInv, NEW c \in Readers, Make(c)
  PROVE  LInv'
<1>. USE DEF LInv, Make
<1>. DEFINE g == found[c]
            new == [game |-> g, status |-> "lobby", ready |-> {}, batch |-> {}]
<1>1. g \in DOMAIN session /\ g \in Games
  BY Places DEF Referenced, TypeOK
<1>2. new \in Room
  BY <1>1 DEF Room
<1>3. /\ room' \in Seq(Room) /\ Len(room') = Len(room) + 1
      /\ Len(room) \in Nat /\ DOMAIN room = 1 .. Len(room)
      /\ \A i \in 1 .. Len(room) : room'[i] = room[i]
      /\ room'[Len(room) + 1] = new
  BY <1>2, AppendProperties DEF TypeOK
<1>4. DOMAIN room' = DOMAIN room \cup {Len(room')} /\ Len(room') \notin DOMAIN room
  BY <1>3
<1>5. \A i \in DOMAIN room' : IF i = Len(room') THEN room'[i] = new ELSE i \in DOMAIN room /\ room'[i] = room[i]
  BY <1>3, <1>4
<1>6. TypeOK'
  <2>1. Room' = Room
    BY DEF Room
  <2>2. rooms' \in [Games -> {0} \cup DOMAIN room']
    BY <1>4 DEF TypeOK
  <2>. QED
    BY <1>1, <1>3, <2>1, <2>2 DEF TypeOK
<1>7. Referenced'
  <2>1. \A h \in Games : rooms'[h] # 0 => room'[rooms'[h]].game = h
    <3>. SUFFICES ASSUME NEW h \in Games, rooms'[h] # 0 PROVE room'[rooms'[h]].game = h
      OBVIOUS
    <3>1. CASE h = g
      BY <1>3, <3>1 DEF TypeOK
    <3>2. CASE h # g
      BY <1>3, <3>2 DEF TypeOK, Referenced
    <3>. QED
      BY <3>1, <3>2
  <2>. QED
    BY <2>1 DEF Referenced, TypeOK
<1>8. OneSeat'
  BY <1>5 DEF OneSeat
<1>9. PaidIsOver'
  BY <1>5 DEF PaidIsOver, RoomsOf
<1>. QED
  BY <1>6, <1>7, <1>8, <1>9

\* A card, which is the first of its player in the game, and a seat in one room.
LEMMA SelectCardStep ==
  ASSUME LInv, NEW c \in Readers, SelectCard(c)
  PROVE  LInv'
<1>. USE DEF LInv, SelectCard
<1>. DEFINE g == gameID[c]
<1>1. g \in DOMAIN session /\ g \in Games
  BY Places DEF Referenced, TypeOK
<1>2. CASE UNCHANGED <<cards, room>>
  <2>1. TypeOK' /\ Referenced'
    BY <1>2 DEF TypeOK, Referenced, Room
  <2>. QED
    BY <1>2, <2>1 DEF OneSeat, PaidIsOver, RoomsOf
<1>3. CASE c \notin cards[g] /\ cards' = [cards EXCEPT ![g] = @ \cup {c}] /\ MakeReady(c, g)
  <2>1. /\ cards' \in [Games -> SUBSET Readers]
        /\ \A h \in Games : cards'[h] = IF h = g THEN cards[h] \cup {c} ELSE cards[h]
    BY <1>1, <1>3 DEF TypeOK
  <2>2. paid[g][c] = 0
    BY <1>1, <1>3 DEF PaidIsOver
  <2>3. \A i \in RoomsOf(g) : c \notin room[i].ready
    BY <1>3 DEF OneSeat, RoomsOf
  <2>4. \A i \in DOMAIN room : room[i].game \in Games
    BY Places DEF Referenced, Room
  <2>5. CASE UNCHANGED room
    <3>1. TypeOK' /\ Referenced'
      BY <2>1, <2>5 DEF TypeOK, Referenced, Room
    <3>. QED
      BY <2>1, <2>2, <2>4, <2>5, <3>1 DEF OneSeat, PaidIsOver, RoomsOf
  <2>6. CASE rooms[g] # 0 /\ room' = [room EXCEPT ![rooms[g]].ready = @ \cup {c}]
    <3>. DEFINE i == rooms[g]
                r == [room[i] EXCEPT !.ready = @ \cup {c}]
    <3>1. i \in DOMAIN room /\ room[i].game = g /\ room[i] \in Room
      BY <1>1, <2>6, Places DEF Referenced, TypeOK
    <3>2. r \in Room /\ r.game = g /\ r.ready = room[i].ready \cup {c} /\ r.batch = room[i].batch
          /\ r.status = room[i].status
      BY <3>1 DEF Room
    <3>3. /\ room' \in Seq(Room) /\ DOMAIN room' = DOMAIN room
          /\ \A j \in DOMAIN room : room'[j] = IF j = i THEN r ELSE room[j]
      BY <2>6, <3>1, <3>2, RoomReplaced DEF TypeOK
    <3>. HIDE DEF r, i
    <3>4. \A j \in DOMAIN room : /\ room'[j].game = room[j].game /\ room'[j].batch = room[j].batch
                                 /\ room'[j].status = room[j].status
                                 /\ room'[j].ready = IF j = i THEN room[j].ready \cup {c} ELSE room[j].ready
      BY <3>1, <3>2, <3>3
    <3>5. TypeOK'
      <4>1. Room' = Room
        BY DEF Room
      <4>. QED
        BY <2>1, <3>3, <4>1 DEF TypeOK
    <3>6. Referenced'
      BY <3>4 DEF Referenced, TypeOK
    <3>7. OneSeat'
      <4>1. \A j \in DOMAIN room : /\ room'[j].batch \subseteq room'[j].ready
                                   /\ room'[j].ready \subseteq cards'[room'[j].game]
        <5>. SUFFICES ASSUME NEW j \in DOMAIN room
                      PROVE  /\ room'[j].batch \subseteq room'[j].ready
                             /\ room'[j].ready \subseteq cards'[room'[j].game]
          OBVIOUS
        <5>1. room[j].batch \subseteq room[j].ready /\ room[j].ready \subseteq cards[room[j].game]
          BY DEF OneSeat
        <5>2. cards[room[j].game] \subseteq cards'[room[j].game]
          BY <2>1, <2>4
        <5>3. c \in cards'[g]
          BY <1>1, <2>1
        <5>4. room'[j].game = room[j].game /\ room'[j].batch = room[j].batch
              /\ room'[j].ready = IF j = i THEN room[j].ready \cup {c} ELSE room[j].ready
          BY <3>4
        <5>. QED
          BY <3>1, <5>1, <5>2, <5>3, <5>4
      <4>2. \A j, k \in DOMAIN room :
              j # k /\ room'[j].game = room'[k].game => room'[j].ready \cap room'[k].ready = {}
        <5>. SUFFICES ASSUME NEW j \in DOMAIN room, NEW k \in DOMAIN room, j # k,
                             room'[j].game = room'[k].game
                      PROVE  room'[j].ready \cap room'[k].ready = {}
          OBVIOUS
        <5>1. room[j].game = room[k].game
          BY <3>4
        <5>4. room[j].ready \cap room[k].ready = {}
          BY <5>1 DEF OneSeat
        <5>2. room[j].game = g => c \notin room[j].ready /\ c \notin room[k].ready
          BY <2>3, <5>1 DEF RoomsOf
        <5>3. /\ room'[j].ready = IF j = i THEN room[j].ready \cup {c} ELSE room[j].ready
              /\ room'[k].ready = IF k = i THEN room[k].ready \cup {c} ELSE room[k].ready
          BY <3>4
        <5>. QED
          BY <3>1, <5>1, <5>2, <5>3, <5>4
      <4>. QED
        BY <3>3, <4>1, <4>2 DEF OneSeat
    <3>8. PaidIsOver'
      <4>. SUFFICES ASSUME NEW h \in Games, NEW d \in Readers, paid[h][d] # 0
                    PROVE  /\ paid[h][d] = 1 /\ d \in cards'[h]
                           /\ \A j \in RoomsOf(h)' :
                                room'[j].status \in ToStart => d \notin room'[j].ready
        BY DEF PaidIsOver
      <4>1. paid[h][d] = 1 /\ d \in cards[h]
            /\ \A j \in RoomsOf(h) : room[j].status \in ToStart => d \notin room[j].ready
        BY DEF PaidIsOver
      <4>2. RoomsOf(h)' = RoomsOf(h)
        BY <3>3, <3>4 DEF RoomsOf
      <4>3. i \in RoomsOf(h) => d # c
        BY <2>2, <3>1 DEF RoomsOf
      <4>4. d \in cards'[h]
        BY <2>1, <4>1
      <4>5. ASSUME NEW j \in RoomsOf(h), room'[j].status \in ToStart PROVE d \notin room'[j].ready
        <5>1. j \in DOMAIN room
          BY DEF RoomsOf
        <5>2. room'[j].status = room[j].status
          BY <3>4, <5>1
        <5>3. d \notin room[j].ready
          BY <4>1, <4>5, <5>2
        <5>4. room'[j].ready = IF j = i THEN room[j].ready \cup {c} ELSE room[j].ready
          BY <3>4, <5>1
        <5>. QED
          BY <4>3, <4>5, <5>3, <5>4
      <4>. QED
        BY <4>1, <4>2, <4>4, <4>5
    <3>. QED
      BY <3>5, <3>6, <3>7, <3>8
  <2>. QED
    BY <1>3, <2>5, <2>6 DEF MakeReady
<1>. QED
  BY <1>2, <1>3

\* The stakes of a start are the first of its players, none of whom sits in another room.
LEMMA CommitStep ==
  ASSUME LInv, NEW i \in DOMAIN room, CommitStart(i)
  PROVE  LInv'
<1>. USE DEF LInv, CommitStart, SetStatus
<1>. DEFINE g == room[i].game
            r == [room[i] EXCEPT !.status = "active"]
            row == [session[g] EXCEPT !.status = "active", !.pool = Cardinality(room[i].batch)]
<1>1. room[i] \in Room /\ g \in DOMAIN session /\ g \in Games /\ session[g] \in GameSession
  BY Places DEF Referenced, Room
<1>2. r \in Room /\ r.game = g /\ r.ready = room[i].ready /\ r.batch = room[i].batch /\ r.status = "active"
  BY <1>1 DEF Room
<1>3. row \in GameSession
  BY <1>1, Counted DEF GameSession, Room
<1>4. /\ session' \in Seq(GameSession) /\ DOMAIN session' = DOMAIN session
      /\ Len(session') = Len(session)
  BY <1>1, <1>3, RowReplaced DEF TypeOK
<1>5. /\ room' \in Seq(Room) /\ DOMAIN room' = DOMAIN room
      /\ \A j \in DOMAIN room : room'[j] = IF j = i THEN r ELSE room[j]
      /\ OneSeat'
      /\ \A h \in Games : rooms'[h] # 0 => room'[rooms'[h]].game = h
  <2>1. room' = [room EXCEPT ![i] = r] /\ UNCHANGED <<rooms, cards>>
    OBVIOUS
  <2>2. r.batch \subseteq r.ready
    BY <1>2 DEF OneSeat
  <2>. HIDE DEF r, CommitStart, LInv
  <2>. QED
    BY <1>2, <2>1, <2>2, RoomKeeps
<1>6. /\ paid' \in [Games -> [Readers -> Nat]]
      /\ \A h \in Games, c \in Readers :
           paid'[h][c] = IF h = g /\ c \in room[i].batch THEN paid[h][c] + 1 ELSE paid[h][c]
  BY <1>1 DEF TypeOK
<1>7. TypeOK'
  <2>1. Room' = Room
    BY <1>4 DEF Room
  <2>. QED
    BY <1>4, <1>5, <1>6, <2>1 DEF TypeOK, readerVars
<1>8. Referenced'
  BY <1>4, <1>5 DEF Referenced, readerVars
<1>9. PaidIsOver'
  <2>. SUFFICES ASSUME NEW h \in Games, NEW c \in Readers, paid'[h][c] # 0
                PROVE  /\ paid'[h][c] = 1 /\ c \in cards[h]
                       /\ \A j \in RoomsOf(h)' :
                            room'[j].status \in ToStart => c \notin room'[j].ready
    BY DEF PaidIsOver
  <2>1. \A j \in DOMAIN room : room'[j].game = room[j].game /\ room'[j].ready = room[j].ready
                               /\ (room'[j].status \in ToStart
                                     => j # i /\ room[j].status = room'[j].status)
    BY <1>2, <1>5 DEF ToStart
  <2>2. RoomsOf(h)' = RoomsOf(h)
    BY <1>5, <2>1 DEF RoomsOf
  <2>3. CASE h = g /\ c \in room[i].batch
    <3>1. c \in room[i].ready /\ i \in RoomsOf(g)
      BY <2>3 DEF OneSeat, RoomsOf
    <3>2. paid[g][c] = 0
      BY <1>1, <3>1 DEF PaidIsOver, ToStart
    <3>3. c \in cards[g]
      BY <3>1 DEF OneSeat
    <3>4. \A j \in RoomsOf(g) : j # i => c \notin room[j].ready
      BY <3>1 DEF OneSeat, RoomsOf
    <3>. QED
      BY <1>6, <2>1, <2>2, <2>3, <3>2, <3>3, <3>4 DEF RoomsOf
  <2>4. CASE ~(h = g /\ c \in room[i].batch)
    <3>1. paid'[h][c] = paid[h][c]
      BY <1>6, <2>4
    <3>. QED
      BY <2>1, <2>2, <3>1 DEF PaidIsOver, RoomsOf
  <2>. QED
    BY <2>3, <2>4
<1>. QED
  BY <1>5, <1>7, <1>8, <1>9

\* What the other steps of a room do to rooms.
LEMMA RoomMoves ==
  ASSUME LInv, NEW i \in DOMAIN room,
         TakeOut(i) \/ Collect(i) \/ StartFails(i) \/ Resolve(i) \/ RemoveRoom(i)
  PROVE  /\ room' \in Seq(Room) /\ DOMAIN room' = DOMAIN room
         /\ \A j \in DOMAIN room \ {i} : room'[j] = room[j]
         /\ room'[i].game = room[i].game /\ room'[i].ready = room[i].ready
         /\ TakeOut(i) => /\ room[i].status = "lobby" /\ room'[i].status = "taken"
                          /\ room'[i].batch = room[i].batch
         /\ Collect(i) => /\ room[i].status = "taken" /\ room'[i].status = "starting"
                          /\ room'[i].batch = room[i].ready
         /\ StartFails(i) => /\ room[i].status = "starting" /\ room'[i].status = "lobby"
                             /\ room'[i].batch = {}
         /\ Resolve(i) => /\ room[i].status = "active" /\ room'[i].status = "resolution"
                          /\ room'[i].batch = room[i].batch
         /\ RemoveRoom(i) => /\ room[i].status = "resolution" /\ room'[i].status = "removed"
                             /\ room'[i].batch = room[i].batch
<1>1. room[i] \in Room /\ room \in Seq(Room)
  BY Places DEF LInv, Referenced, TypeOK
<1>2. ASSUME NEW r \in Room, room' = [room EXCEPT ![i] = r]
      PROVE  /\ room' \in Seq(Room) /\ DOMAIN room' = DOMAIN room /\ room'[i] = r
             /\ \A j \in DOMAIN room \ {i} : room'[j] = room[j]
  BY <1>1, <1>2, RoomReplaced
<1>3. CASE Collect(i)
  <2>. DEFINE r == [room[i] EXCEPT !.status = "starting", !.batch = room[i].ready]
  <2>1. /\ r \in Room /\ r.game = room[i].game /\ r.status = "starting"
        /\ r.ready = room[i].ready /\ r.batch = room[i].ready
    BY <1>1 DEF Room
  <2>2. room' = [room EXCEPT ![i] = r] /\ room[i].status = "taken"
    BY <1>3 DEF Collect
  <2>. HIDE DEF r
  <2>. QED
    BY <1>2, <2>1, <2>2 DEF TakeOut, Collect, StartFails, Resolve, RemoveRoom
<1>4. CASE StartFails(i)
  <2>. DEFINE r == [room[i] EXCEPT !.status = "lobby", !.batch = {}]
  <2>1. /\ r \in Room /\ r.game = room[i].game /\ r.status = "lobby"
        /\ r.ready = room[i].ready /\ r.batch = {}
    BY <1>1 DEF Room
  <2>2. room' = [room EXCEPT ![i] = r] /\ room[i].status = "starting"
    BY <1>4 DEF StartFails
  <2>. HIDE DEF r
  <2>. QED
    BY <1>2, <2>1, <2>2 DEF TakeOut, Collect, Resolve, RemoveRoom
<1>5. ASSUME NEW s \in {"taken", "resolution", "removed"}, SetStatus(i, s)
      PROVE  /\ room' \in Seq(Room) /\ DOMAIN room' = DOMAIN room
             /\ \A j \in DOMAIN room \ {i} : room'[j] = room[j]
             /\ room'[i].game = room[i].game /\ room'[i].ready = room[i].ready
             /\ room'[i].batch = room[i].batch /\ room'[i].status = s
  <2>. DEFINE r == [room[i] EXCEPT !.status = s]
  <2>1. /\ r \in Room /\ r.game = room[i].game /\ r.status = s
        /\ r.ready = room[i].ready /\ r.batch = room[i].batch
    BY <1>1 DEF Room
  <2>2. room' = [room EXCEPT ![i] = r]
    BY <1>5 DEF SetStatus
  <2>. HIDE DEF r
  <2>. QED
    BY <1>2, <2>1, <2>2
<1>6. CASE TakeOut(i)
  BY <1>5, <1>6 DEF TakeOut, Collect, StartFails, Resolve, RemoveRoom
<1>7. CASE Resolve(i)
  BY <1>5, <1>7 DEF TakeOut, Collect, StartFails, Resolve, RemoveRoom
<1>8. CASE RemoveRoom(i)
  BY <1>5, <1>8 DEF TakeOut, Collect, StartFails, Resolve, RemoveRoom
<1>. QED
  BY <1>3, <1>4, <1>6, <1>7, <1>8

\* They keep the invariant.
LEMMA RoomStep ==
  ASSUME LInv, NEW i \in DOMAIN room,
         TakeOut(i) \/ Collect(i) \/ StartFails(i) \/ Resolve(i) \/ RemoveRoom(i)
  PROVE  LInv'
<1>. USE DEF LInv
<1>1. room[i] \in Room /\ room[i].game \in DOMAIN session /\ room[i].game \in Games
      /\ session[room[i].game] \in GameSession
  BY Places DEF Referenced, Room
<1>2. Room' = Room /\ session' \in Seq(GameSession) /\ DOMAIN session' = DOMAIN session
      /\ Len(session') = Len(session)
  <2>1. CASE UNCHANGED session
    BY <2>1 DEF TypeOK, Room
  <2>2. CASE session' = [session EXCEPT ![room[i].game].status = "resolution"]
    <3>. DEFINE row == [session[room[i].game] EXCEPT !.status = "resolution"]
    <3>1. row \in GameSession
      BY <1>1 DEF GameSession
    <3>. QED
      BY <1>1, <2>2, <3>1, RowReplaced DEF TypeOK, Room
  <2>. QED
    BY <2>1, <2>2 DEF TakeOut, Collect, StartFails, Resolve, RemoveRoom
<1>3. /\ room' \in Seq(Room) /\ DOMAIN room' = DOMAIN room
      /\ \A j \in DOMAIN room \ {i} : room'[j] = room[j]
  BY RoomMoves
<1>4. /\ rooms' \in [Games -> {0} \cup DOMAIN room]
      /\ UNCHANGED <<cards, paid, pc, tier, found, gameID>>
      /\ \A g \in Games : rooms'[g] # 0 => rooms'[g] = rooms[g]
      /\ faults' \in 0 .. MaxFaults
  <2>1. CASE TakeOut(i) \/ Collect(i) \/ StartFails(i)
    BY <2>1 DEF TypeOK, TakeOut, Collect, StartFails, readerVars
  <2>2. CASE Resolve(i)
    BY <2>2, LookupAssumption DEF TypeOK, Resolve, Fault, readerVars
  <2>3. CASE RemoveRoom(i)
    BY <2>3 DEF TypeOK, RemoveRoom, readerVars
  <2>. QED
    BY <2>1, <2>2, <2>3
<1>5. /\ room'[i].game = room[i].game /\ room'[i].ready = room[i].ready
      /\ room'[i].batch \subseteq room'[i].ready
      /\ room'[i].status \in ToStart => room[i].status \in ToStart
  BY RoomMoves DEF OneSeat, ToStart
<1>6. \A j \in DOMAIN room : /\ room'[j].game = room[j].game /\ room'[j].ready = room[j].ready
                             /\ room'[j].batch \subseteq room'[j].ready
                             /\ room'[j].status \in ToStart => room[j].status \in ToStart
  <2>. SUFFICES ASSUME NEW j \in DOMAIN room
                PROVE  /\ room'[j].game = room[j].game /\ room'[j].ready = room[j].ready
                       /\ room'[j].batch \subseteq room'[j].ready
                       /\ room'[j].status \in ToStart => room[j].status \in ToStart
    OBVIOUS
  <2>1. CASE j = i
    BY <1>5, <2>1
  <2>2. CASE j # i
    BY <1>3, <2>2 DEF OneSeat
  <2>. QED
    BY <2>1, <2>2
<1>7. TypeOK'
  <2>1. room' \in Seq(Room') /\ rooms' \in [Games -> {0} \cup DOMAIN room']
    BY <1>2, <1>3, <1>4
  <2>. QED
    BY <1>2, <1>4, <2>1 DEF TypeOK
<1>8. Referenced'
  BY <1>2, <1>4, <1>6 DEF Referenced, TypeOK
<1>9. OneSeat'
  BY <1>3, <1>4, <1>6 DEF OneSeat
<1>10. PaidIsOver'
  BY <1>3, <1>4, <1>6, PaidKeeps
<1>. QED
  BY <1>7, <1>8, <1>9, <1>10

\* A restart leaves rooms nobody is in any more.
LEMMA RestartStep ==
  ASSUME LInv, Restart
  PROVE  LInv'
<1>. USE DEF LInv, Restart
<1>1. DOMAIN room = 1 .. Len(room) /\ Len(room) \in Nat /\ \A i \in DOMAIN room : room[i] \in Room
  BY DEF TypeOK
<1>2. DOMAIN room' = DOMAIN room
      /\ \A i \in DOMAIN room : room'[i] = [room[i] EXCEPT !.status = "removed"]
  OBVIOUS
<1>3. \A i \in DOMAIN room : /\ room'[i] \in Room /\ room'[i].game = room[i].game
                             /\ room'[i].ready = room[i].ready /\ room'[i].batch = room[i].batch
                             /\ room'[i].status = "removed"
  BY <1>1, <1>2 DEF Room
<1>4. room' \in Seq(Room)
  BY <1>1, <1>2, <1>3
<1>5. TypeOK'
  BY <1>4, LookupAssumption DEF TypeOK, Room, Fault
<1>6. Referenced'
  BY DEF Referenced
<1>7. OneSeat'
  BY <1>2, <1>3 DEF OneSeat
<1>8. PaidIsOver'
  BY <1>2, <1>3, PaidKeeps DEF ToStart
<1>. QED
  BY <1>5, <1>6, <1>7, <1>8

\* What holds of rows, rooms, cards and stakes at every moment, restarts included.
THEOREM Invariant == Spec => []LInv
<1>1. Init => LInv
  BY LookupAssumption DEF Init, LInv, TypeOK, Referenced, OneSeat, PaidIsOver, RoomsOf
<1>2. LInv /\ [Next]_vars => LInv'
  <2>. SUFFICES ASSUME LInv, [Next]_vars PROVE LInv'
    OBVIOUS
  <2>1. CASE UNCHANGED vars
    BY <2>1 DEF vars, readerVars, LInv, TypeOK, Room, Referenced, OneSeat, PaidIsOver, RoomsOf
  <2>. QED
    BY <2>1, ReaderStep, InsertStep, MakeStep, SelectCardStep, CommitStep, RoomStep, RestartStep
    DEF Next
<1>. QED
  BY <1>1, <1>2, PTL DEF Spec

\* Every variable keeps its range, whatever lookups interleave and whenever the server stops.
THEOREM TypeCorrect == Spec => []TypeOK
<1>1. LInv => TypeOK
  BY DEF LInv
<1>. QED
  BY <1>1, Invariant, PTL

\* However many rooms are made for a game, and however often the server is restarted, no
\* player pays twice for it, as long as a start that fails is one that took nothing.
THEOREM OneStakePerGame == Spec => []StakeOncePerGame
<1>1. LInv => StakeOncePerGame
  <2>. SUFFICES ASSUME LInv, NEW g \in Games, NEW c \in Readers PROVE paid[g][c] <= 1
    BY DEF StakeOncePerGame
  <2>1. paid[g][c] = 0 \/ paid[g][c] = 1
    BY DEF LInv, PaidIsOver
  <2>. QED
    BY <2>1
<1>. QED
  BY <1>1, Invariant, PTL
-----------------------------------------------------------------------------
(* Pools, and who resolves a game. *)

\* A step that makes no row, no room and no commit: rows and rooms stay what they are but
\* for their status, nothing is paid, and no status is set that is news to Pools.
Frame ==
  /\ UNCHANGED paid
  /\ DOMAIN session' = DOMAIN session /\ DOMAIN room' = DOMAIN room
  /\ \A g \in DOMAIN session : /\ session'[g].pool = session[g].pool
                               /\ session'[g].status = "lobby" <=> session[g].status = "lobby"
  /\ \A i \in DOMAIN room :
        /\ room'[i].game = room[i].game
        /\ room'[i].status = "active" => room[i].status = "active"
        /\ room'[i].status \in ToStart => room[i].status \in ToStart

\* A commit writes one row and one room.
LEMMA CommitMoves ==
  ASSUME LInv, NEW i \in DOMAIN room, CommitStart(i)
  PROVE  /\ room[i].game \in DOMAIN session /\ room[i].game \in Games
         /\ room[i].batch \in SUBSET Readers /\ room[i].status = "starting"
         /\ DOMAIN room' = DOMAIN room /\ \A j \in DOMAIN room \ {i} : room'[j] = room[j]
         /\ room'[i].game = room[i].game /\ room'[i].status = "active"
         /\ DOMAIN session' = DOMAIN session
         /\ \A g \in DOMAIN session \ {room[i].game} : session'[g] = session[g]
         /\ session'[room[i].game].status = "active"
         /\ session'[room[i].game].pool = Cardinality(room[i].batch)
         /\ \A g \in Games \ {room[i].game} : paid'[g] = paid[g]
         /\ \A c \in Readers : paid'[room[i].game][c] =
                IF c \in room[i].batch THEN paid[room[i].game][c] + 1 ELSE paid[room[i].game][c]
<1>. USE DEF CommitStart, SetStatus
<1>1. /\ room[i] \in Room /\ room[i].game \in DOMAIN session /\ room[i].game \in Games
      /\ session[room[i].game] \in GameSession /\ room \in Seq(Room) /\ session \in Seq(GameSession)
  BY Places DEF LInv, Referenced, TypeOK, Room
<1>2. DOMAIN room' = DOMAIN room /\ (\A j \in DOMAIN room \ {i} : room'[j] = room[j])
      /\ room'[i] = [room[i] EXCEPT !.status = "active"]
  BY <1>1
<1>3. DOMAIN session' = DOMAIN session
      /\ (\A g \in DOMAIN session \ {room[i].game} : session'[g] = session[g])
      /\ session'[room[i].game] =
            [session[room[i].game] EXCEPT !.status = "active", !.pool = Cardinality(room[i].batch)]
  BY <1>1
<1>4. \A g \in Games \ {room[i].game} : paid'[g] = paid[g]
  BY <1>1 DEF LInv, TypeOK
<1>5. \A c \in Readers : paid'[room[i].game][c] =
                IF c \in room[i].batch THEN paid[room[i].game][c] + 1 ELSE paid[room[i].game][c]
  BY <1>1 DEF LInv, TypeOK
<1>. QED
  BY <1>1, <1>2, <1>3, <1>4, <1>5 DEF Room, GameSession

\* A seat changes nothing of a room but who is ready in it.
LEMMA SeatMoves ==
  ASSUME LInv, NEW c \in Readers, SelectCard(c)
  PROVE  /\ UNCHANGED <<session, paid>> /\ DOMAIN room' = DOMAIN room
         /\ \A j \in DOMAIN room : room'[j].game = room[j].game /\ room'[j].status = room[j].status
<1>1. CASE UNCHANGED room
  BY <1>1 DEF SelectCard
<1>2. CASE ~UNCHANGED room
  <2>. DEFINE i == rooms[gameID[c]]
              r == [room[i] EXCEPT !.ready = @ \cup {c}]
  <2>1. gameID[c] \in Games
    BY Places DEF SelectCard, LInv, Referenced, TypeOK
  <2>2. rooms[gameID[c]] # 0 /\ room' = [room EXCEPT ![i] = r]
    BY <1>2 DEF SelectCard, MakeReady
  <2>3. i \in DOMAIN room /\ room[i] \in Room /\ room \in Seq(Room)
    BY <2>1, <2>2, Places DEF LInv, Referenced, TypeOK
  <2>4. r \in Room /\ r.game = room[i].game /\ r.status = room[i].status
    BY <2>3 DEF Room
  <2>. HIDE DEF r, i
  <2>5. DOMAIN room' = DOMAIN room /\ \A j \in DOMAIN room : room'[j] = IF j = i THEN r ELSE room[j]
    BY <2>2, <2>3, <2>4, RoomReplaced
  <2>. QED
    BY <2>4, <2>5 DEF SelectCard
<1>. QED
  BY <1>1, <1>2

\* Every step makes a row, makes a room, commits a start, or makes a frame step.
LEMMA Steps ==
  ASSUME LInv, Pools, [Next]_vars
  PROVE  \/ Frame
         \/ \E c \in Readers : Insert(c) \/ Make(c)
         \/ \E i \in DOMAIN room : CommitStart(i)
<1>1. CASE UNCHANGED <<session, room, paid>>
  BY <1>1 DEF Frame
<1>2. ASSUME NEW c \in Readers, SelectCard(c) PROVE Frame
  BY <1>2, SeatMoves DEF Frame
<1>3. ASSUME NEW i \in DOMAIN room, TakeOut(i) \/ Collect(i) \/ StartFails(i) \/ RemoveRoom(i) PROVE Frame
  BY <1>3, RoomMoves DEF Frame, ToStart, TakeOut, Collect, StartFails, RemoveRoom
<1>4. ASSUME NEW i \in DOMAIN room, Resolve(i) PROVE Frame
  <2>1. room[i].game \in DOMAIN session /\ \A g \in DOMAIN session : session[g] \in GameSession
    BY Places DEF LInv, Referenced, Room
  <2>2. session[room[i].game].status # "lobby"
    BY <1>4, <2>1 DEF Resolve, Pools, RoomsOf
  <2>3. /\ DOMAIN session' = DOMAIN session
        /\ \A g \in DOMAIN session : /\ session'[g].pool = session[g].pool
                                     /\ session'[g].status = "lobby" <=> session[g].status = "lobby"
    <3>1. CASE UNCHANGED session
      BY <3>1
    <3>2. CASE session' = [session EXCEPT ![room[i].game].status = "resolution"]
      <4>1. DOMAIN session' = DOMAIN session
        BY <3>2
      <4>2. ASSUME NEW g \in DOMAIN session, g # room[i].game PROVE session'[g] = session[g]
        BY <3>2, <4>2
      <4>3. session'[room[i].game] = [session[room[i].game] EXCEPT !.status = "resolution"]
        BY <2>1, <3>2
      <4>4. /\ session'[room[i].game].pool = session[room[i].game].pool
            /\ session'[room[i].game].status = "resolution"
        BY <2>1, <4>3 DEF GameSession
      <4>. QED
        BY <2>2, <4>1, <4>2, <4>4
    <3>. QED
      BY <1>4, <3>1, <3>2 DEF Resolve
  <2>4. /\ DOMAIN room' = DOMAIN room
        /\ \A j \in DOMAIN room \ {i} : room'[j] = room[j]
        /\ room'[i].game = room[i].game /\ room'[i].status = "resolution"
    BY <1>4, RoomMoves
  <2>5. UNCHANGED paid
    BY <1>4 DEF Resolve
  <2>6. \A j \in DOMAIN room : /\ room'[j].game = room[j].game
                               /\ room'[j].status = room[j].status \/ room'[j].status = "resolution"
    BY <2>4
  <2>. QED
    BY <2>3, <2>4, <2>5, <2>6 DEF Frame, ToStart
<1>5. CASE Restart
  <2>1. \A i \in DOMAIN room : room[i] \in Room
    BY Places DEF LInv, Referenced
  <2>. QED
    BY <1>5, <2>1 DEF Frame, ToStart, Restart, Room
<1>. QED
  BY <1>1, <1>2, <1>3, <1>4, <1>5
  DEF Next, vars, Scan, Query, LookupFails, CheckLobby, SelectCard

\* With no stakes before it, a commit takes one stake from each player of its batch.
LEMMA FirstStakes ==
  ASSUME NEW g \in Games, NEW B \in SUBSET Readers,
         \A c \in Readers : paid'[g][c] = IF c \in B THEN 1 ELSE 0
  PROVE  Cardinality(Stakes(g)') = Cardinality(B)
<1>. DEFINE one == [c \in B |-> <<c, 1>>]
<1>1. \A c \in Readers : {c} \X (1 .. paid'[g][c]) = IF c \in B THEN {<<c, 1>>} ELSE {}
  <2>. SUFFICES ASSUME NEW c \in Readers
                PROVE  {c} \X (1 .. paid'[g][c]) = IF c \in B THEN {<<c, 1>>} ELSE {}
    OBVIOUS
  <2>1. CASE c \in B
    <3>1. 1 .. paid'[g][c] = {1}
      BY <2>1
    <3>. QED
      BY <2>1, <3>1
  <2>2. CASE c \notin B
    <3>1. 1 .. paid'[g][c] = {}
      BY <2>2
    <3>. QED
      BY <2>2, <3>1
  <2>. QED
    BY <2>1, <2>2
<1>2. Stakes(g)' = {<<c, 1>> : c \in B}
  BY <1>1 DEF Stakes
<1>3. one \in Bijection(B, Stakes(g)')
  <2>1. one \in Injection(B, Stakes(g)')
    BY <1>2 DEF Injection, IsInjective
  <2>2. one \in Surjection(B, Stakes(g)')
    BY <1>2 DEF Surjection
  <2>. QED
    BY <2>1, <2>2 DEF Bijection
<1>4. IsFiniteSet(B)
  BY LookupAssumption, FS_Subset
<1>. QED
  BY <1>3, <1>4, FS_Bijection DEF ExistsBijection

\* A frame step keeps the pools.
LEMMA FrameKeeps ==
  ASSUME LInv, Pools, Frame
  PROVE  Pools'
<1>1. DOMAIN session' = DOMAIN session /\ UNCHANGED paid
  BY DEF Frame
<1>2. ASSUME NEW g PROVE RoomsOf(g)' = RoomsOf(g) /\ Stakes(g)' = Stakes(g)
  BY DEF Frame, RoomsOf, Stakes
<1>3. ASSUME NEW g \in Games, RoomsOf(g)' = {}
      PROVE  /\ \A c \in Readers : paid'[g][c] = 0
             /\ g \in DOMAIN session' => session'[g].status = "lobby"
  BY <1>2, <1>3 DEF Frame, Pools
<1>4. ASSUME NEW g \in DOMAIN session, NEW i \in RoomsOf(g)
      PROVE  /\ room'[i].status = "active" => session'[g].status # "lobby"
             /\ RoomsOf(g)' = {i} =>
                  /\ room'[i].status \in ToStart => /\ \A c \in Readers : paid'[g][c] = 0
                                                    /\ session'[g].status = "lobby"
                  /\ session'[g].status # "lobby" => session'[g].pool = Cardinality(Stakes(g)')
  <2>1. /\ session'[g].pool = session[g].pool
        /\ session'[g].status = "lobby" <=> session[g].status = "lobby"
        /\ room'[i].status = "active" => room[i].status = "active"
        /\ room'[i].status \in ToStart => room[i].status \in ToStart
    BY DEF Frame, RoomsOf
  <2>. QED
    BY <1>1, <1>2, <2>1 DEF Pools
<1>. QED
  BY <1>1, <1>2, <1>3, <1>4 DEF Pools

\* A new row has no room yet.
LEMMA InsertKeeps ==
  ASSUME LInv, Pools, NEW c \in Readers, Insert(c)
  PROVE  Pools'
<1>1. /\ DOMAIN session = 1 .. Len(session) /\ Len(session) \in Nat
      /\ DOMAIN session' = 1 .. (Len(session) + 1)
      /\ \A g \in DOMAIN session : session'[g] = session[g]
      /\ session'[Len(session) + 1].status = "lobby"
  BY Places DEF LInv, Referenced, TypeOK, Insert
<1>2. UNCHANGED <<room, paid>>
  BY DEF Insert
<1>3. ASSUME NEW g PROVE RoomsOf(g)' = RoomsOf(g) /\ Stakes(g)' = Stakes(g)
  BY <1>2 DEF RoomsOf, Stakes
<1>4. RoomsOf(Len(session) + 1) = {}
  <2>1. \A i \in DOMAIN room : room[i].game \in DOMAIN session
    BY Places DEF LInv, Referenced, Room
  <2>2. Len(session) + 1 \notin DOMAIN session
    BY <1>1
  <2>. QED
    BY <2>1, <2>2 DEF RoomsOf
<1>5. ASSUME NEW g \in Games, RoomsOf(g)' = {}
      PROVE  /\ \A d \in Readers : paid'[g][d] = 0
             /\ g \in DOMAIN session' => session'[g].status = "lobby"
  <2>1. (\A d \in Readers : paid[g][d] = 0) /\ (g \in DOMAIN session => session[g].status = "lobby")
    BY <1>3, <1>5 DEF Pools
  <2>. QED
    BY <1>1, <1>2, <2>1
<1>6. ASSUME NEW g \in DOMAIN session', NEW i \in RoomsOf(g)
      PROVE  /\ room[i].status = "active" => session'[g].status # "lobby"
             /\ RoomsOf(g) = {i} =>
                  /\ room[i].status \in ToStart => /\ \A d \in Readers : paid[g][d] = 0
                                                   /\ session'[g].status = "lobby"
                  /\ session'[g].status # "lobby" => session'[g].pool = Cardinality(Stakes(g))
  <2>1. g \in DOMAIN session
    BY <1>1, <1>4, <1>6
  <2>. QED
    BY <1>1, <2>1 DEF Pools
<1>. QED
  BY <1>2, <1>3, <1>5, <1>6 DEF Pools

\* A new room is the first of its game, which has taken nothing then, or not its only one.
LEMMA MakeKeeps ==
  ASSUME LInv, Pools, NEW c \in Readers, Make(c)
  PROVE  Pools'
<1>. DEFINE h == found[c]
            n == Len(room) + 1
<1>1. h \in DOMAIN session /\ h \in Games
  BY Places DEF LInv, Referenced, TypeOK, Make
<1>2. [game |-> h, status |-> "lobby", ready |-> {}, batch |-> {}] \in Room
  BY <1>1 DEF Room
<1>3. /\ Len(room) \in Nat /\ DOMAIN room = 1 .. Len(room) /\ DOMAIN room' = 1 .. n
      /\ \A i \in DOMAIN room : room'[i] = room[i]
      /\ room'[n].game = h /\ room'[n].status = "lobby"
  BY <1>2, Places DEF LInv, Referenced, TypeOK, Make
<1>4. UNCHANGED <<session, paid>>
  BY DEF Make
<1>. HIDE DEF h, n
<1>5. n \notin DOMAIN room /\ DOMAIN room' = DOMAIN room \cup {n}
  BY <1>3 DEF n
<1>6. ASSUME NEW g
      PROVE  RoomsOf(g)' = (IF g = h THEN RoomsOf(g) \cup {n} ELSE RoomsOf(g)) /\ Stakes(g)' = Stakes(g)
  BY <1>3, <1>4, <1>5 DEF RoomsOf, Stakes
<1>7. ASSUME NEW g \in Games, RoomsOf(g)' = {}
      PROVE  /\ \A d \in Readers : paid'[g][d] = 0
             /\ g \in DOMAIN session' => session'[g].status = "lobby"
  BY <1>4, <1>6, <1>7 DEF Pools
<1>8. ASSUME NEW g \in DOMAIN session, NEW i \in RoomsOf(g)'
      PROVE  /\ room'[i].status = "active" => session[g].status # "lobby"
             /\ RoomsOf(g)' = {i} =>
                  /\ room'[i].status \in ToStart => /\ \A d \in Readers : paid[g][d] = 0
                                                    /\ session[g].status = "lobby"
                  /\ session[g].status # "lobby" => session[g].pool = Cardinality(Stakes(g))
  <2>1. CASE i # n
    <3>1. i \in RoomsOf(g) /\ room'[i] = room[i]
      BY <1>3, <1>6, <1>8, <2>1 DEF RoomsOf
    <3>2. RoomsOf(g)' = {i} => RoomsOf(g) = {i}
      BY <1>6, <3>1
    <3>. QED
      BY <3>1, <3>2 DEF Pools
  <2>2. CASE i = n
    <3>1. room'[i].status = "lobby"
      BY <1>3, <2>2
    <3>2. RoomsOf(g)' = {i} => RoomsOf(g) = {}
      <4>1. n \notin RoomsOf(g)
        BY <1>5 DEF RoomsOf
      <4>. QED
        BY <1>6, <2>2, <4>1
    <3>3. g \in Games
      BY Places DEF LInv, Referenced
    <3>. QED
      BY <3>1, <3>2, <3>3 DEF Pools
  <2>. QED
    BY <2>1, <2>2
<1>. QED
  BY <1>4, <1>6, <1>7, <1>8 DEF Pools

\* A commit for the only room of a game takes the first stakes of the game.
LEMMA CommitKeeps ==
  ASSUME LInv, Pools, NEW i \in DOMAIN room, CommitStart(i)
  PROVE  Pools'
<1>. DEFINE h == room[i].game
<1>1. /\ h \in DOMAIN session /\ h \in Games
      /\ room[i].batch \in SUBSET Readers /\ room[i].status = "starting"
      /\ DOMAIN room' = DOMAIN room /\ \A j \in DOMAIN room \ {i} : room'[j] = room[j]
      /\ room'[i].game = h /\ room'[i].status = "active"
      /\ DOMAIN session' = DOMAIN session
      /\ \A g \in DOMAIN session \ {h} : session'[g] = session[g]
      /\ session'[h].status = "active"
      /\ session'[h].pool = Cardinality(room[i].batch)
      /\ \A g \in Games \ {h} : paid'[g] = paid[g]
      /\ \A c \in Readers : paid'[h][c] = IF c \in room[i].batch THEN paid[h][c] + 1 ELSE paid[h][c]
  BY CommitMoves
<1>2. i \in RoomsOf(h)
  BY DEF RoomsOf
<1>. HIDE DEF h
<1>3. ASSUME NEW g PROVE RoomsOf(g)' = RoomsOf(g)
  BY <1>1, <1>2 DEF RoomsOf
<1>4. DOMAIN session \subseteq Games
  BY Places DEF LInv, Referenced
<1>5. ASSUME NEW g \in Games, RoomsOf(g) = {}
      PROVE  /\ \A d \in Readers : paid'[g][d] = 0
             /\ g \in DOMAIN session => session'[g].status = "lobby"
  <2>1. g # h
    BY <1>2, <1>5
  <2>. QED
    BY <1>1, <1>5, <2>1 DEF Pools
<1>6. ASSUME NEW g \in DOMAIN session, NEW j \in RoomsOf(g)
      PROVE  /\ room'[j].status = "active" => session'[g].status # "lobby"
             /\ RoomsOf(g) = {j} =>
                  /\ room'[j].status \in ToStart => /\ \A d \in Readers : paid'[g][d] = 0
                                                    /\ session'[g].status = "lobby"
                  /\ session'[g].status # "lobby" => session'[g].pool = Cardinality(Stakes(g)')
  <2>1. CASE g # h
    <3>1. j \in DOMAIN room /\ room[j].game = g /\ room[i].game = h
      BY DEF RoomsOf, h
    <3>2. room'[j] = room[j] /\ session'[g] = session[g] /\ paid'[g] = paid[g]
      BY <1>1, <1>4, <2>1, <3>1
    <3>3. Stakes(g)' = Stakes(g)
      BY <3>2 DEF Stakes
    <3>. QED
      BY <3>2, <3>3 DEF Pools
  <2>2. CASE g = h
    <3>1. session'[g].status = "active"
      BY <1>1, <2>2
    <3>2. ASSUME RoomsOf(g) = {j}
          PROVE  /\ room'[j].status = "active"
                 /\ session'[g].pool = Cardinality(Stakes(g)')
      <4>1. j = i
        BY <1>2, <2>2, <3>2
      <4>2. \A d \in Readers : paid[g][d] = 0
        BY <1>1, <3>2, <4>1 DEF Pools, ToStart
      <4>3. \A d \in Readers : paid'[g][d] = IF d \in room[i].batch THEN 1 ELSE 0
        BY <1>1, <2>2, <4>2
      <4>4. Cardinality(Stakes(g)') = Cardinality(room[i].batch)
        BY <1>1, <1>4, <4>3, FirstStakes
      <4>. QED
        BY <1>1, <2>2, <4>1, <4>4
    <3>. QED
      BY <3>1, <3>2 DEF ToStart
  <2>. QED
    BY <2>1, <2>2
<1>. QED
  BY <1>1, <1>3, <1>5, <1>6 DEF Pools

\* What holds of pools and rooms at every moment.
LEMMA PoolsInv == Spec => []Pools
<1>1. Init => Pools
  BY DEF Init, Pools, RoomsOf
<1>2. LInv /\ Pools /\ [Next]_vars => Pools'
  BY Steps, FrameKeeps, InsertKeeps, MakeKeeps, CommitKeeps
<1>. QED
  BY <1>1, <1>2, Invariant, PTL DEF Spec

\* A game has a number of rooms.
LEMMA FewRooms ==
  ASSUME LInv, NEW g
  PROVE  IsFiniteSet(RoomsOf(g)) /\ Cardinality(RoomsOf(g)) \in Nat
<1>1. DOMAIN room = 1 .. Len(room) /\ Len(room) \in Nat
  BY Places DEF LInv, Referenced
<1>2. IsFiniteSet(DOMAIN room)
  BY <1>1, FS_Interval
<1>. QED
  BY <1>2, FS_Subset, FS_CardinalityType DEF RoomsOf

\* The pool of a game that only one room was made for is that of its stakes.
THEOREM OneRoomPool == Spec => []PoolExplained
<1>1. LInv /\ Pools => PoolExplained
  <2>. SUFFICES ASSUME LInv, Pools, NEW g \in DOMAIN session, session[g].status # "lobby",
                       Cardinality(RoomsOf(g)) <= 1
                PROVE  session[g].pool = Cardinality(Stakes(g))
    BY DEF PoolExplained
  <2>1. g \in Games /\ RoomsOf(g) # {}
    BY Places DEF LInv, Referenced, Pools
  <2>2. IsFiniteSet(RoomsOf(g)) /\ Cardinality(RoomsOf(g)) \in Nat
    BY FewRooms
  <2>3. Cardinality(RoomsOf(g)) = 1
    BY <2>1, <2>2, FS_EmptySet
  <2>4. PICK i : RoomsOf(g) = {i}
    BY <2>2, <2>3, FS_Singleton
  <2>. QED
    BY <2>4 DEF Pools
<1>. QED
  BY <1>1, Invariant, PoolsInv, PTL

\* A resolved game stays resolved unless two rooms were made for it: only a commit could
\* take it up again, and the only room of a resolved game has started before.
THEOREM ResolvedStays == Spec => ResolvedForGood
<1>1. ASSUME LInv, Pools, [Next]_vars, NEW g \in DOMAIN session,
             session[g].status = "resolution", session'[g].status # "resolution"
      PROVE  Cardinality(RoomsOf(g)) > 1
  <2>1. session[g] \in GameSession /\ DOMAIN session = 1 .. Len(session) /\ Len(session) \in Nat
    BY <1>1, Places DEF LInv, Referenced
  <2>2. ~UNCHANGED session
    BY <1>1
  <2>3. ASSUME NEW c \in Readers, Insert(c) PROVE FALSE
    BY <1>1, <2>1, <2>3 DEF Insert, LInv, TypeOK
  <2>4. ASSUME NEW i \in DOMAIN room, Resolve(i) PROVE FALSE
    BY <1>1, <2>1, <2>2, <2>4, Places DEF Resolve, LInv, Referenced, Room, GameSession
  <2>5. PICK i \in DOMAIN room : CommitStart(i)
    BY <1>1, <2>2, <2>3, <2>4
    DEF Next, vars, Scan, Query, LookupFails, Make, CheckLobby, SelectCard, TakeOut, Collect,
        StartFails, RemoveRoom, Restart
  <2>6. room[i].game = g /\ room[i].status = "starting"
    BY <1>1, <2>5, CommitMoves
  <2>7. i \in RoomsOf(g) /\ RoomsOf(g) # {i}
    BY <1>1, <2>6 DEF RoomsOf, Pools, ToStart
  <2>8. IsFiniteSet(RoomsOf(g)) /\ Cardinality(RoomsOf(g)) \in Nat
    BY <1>1, FewRooms
  <2>9. Cardinality(RoomsOf(g)) # 0 /\ Cardinality(RoomsOf(g)) # 1
    BY <2>7, <2>8, FS_EmptySet, FS_Singleton
  <2>. QED
    BY <2>8, <2>9
<1>2. LInv /\ Pools /\ [Next]_vars
        => [\A g \in DOMAIN session :
              session[g].status = "resolution" /\ session'[g].status # "resolution"
                  => Cardinality(RoomsOf(g)) > 1]_vars
  BY <1>1
<1>. QED
  BY <1>2, Invariant, PoolsInv, PTL DEF Spec, ResolvedForGood

\* A game that has taken its stakes has a room that will resolve it, whatever rooms were made
\* for it, until the server is restarted or an update is lost.
THEOREM ActiveGameHasRoom == Spec => []ActiveHasRoom
<1>1. Init => ActiveHasRoom
  BY DEF Init, ActiveHasRoom
<1>2. ASSUME LInv, Pools, ActiveHasRoom, [Next]_vars PROVE ActiveHasRoom'
  <2>1. faults \in Nat /\ faults' \in {faults, faults + 1}
    <3>1. UNCHANGED faults \/ Fault
      BY <1>2 DEF Next, vars, Scan, Query, Insert, LookupFails, Make, CheckLobby, SelectCard, TakeOut, Collect,
                  CommitStart, StartFails, Resolve, RemoveRoom, Restart
    <3>. QED
      BY <1>2, <3>1, LookupAssumption DEF LInv, TypeOK, Fault
  <2>. SUFFICES ASSUME NEW g \in DOMAIN session', session'[g].status = "active", faults' = 0
                PROVE  \E i \in RoomsOf(g)' : room'[i].status = "active"
    BY <2>1 DEF ActiveHasRoom
  <2>2. UNCHANGED faults /\ faults = 0
    BY <2>1
  <2>3. ASSUME g \in DOMAIN session, session[g].status = "active",
               \A i \in RoomsOf(g) : room[i].status = "active"
                                        => i \in RoomsOf(g)' /\ room'[i].status = "active"
        PROVE  \E i \in RoomsOf(g)' : room'[i].status = "active"
    BY <1>2, <2>2, <2>3 DEF ActiveHasRoom
  <2>4. CASE UNCHANGED <<session, room>>
    BY <2>3, <2>4 DEF RoomsOf
  <2>5. ASSUME NEW c \in Readers, SelectCard(c)
        PROVE  \E i \in RoomsOf(g)' : room'[i].status = "active"
    BY <1>2, <2>3, <2>5, SeatMoves DEF RoomsOf
  <2>6. ASSUME NEW c \in Readers, Insert(c)
        PROVE  \E i \in RoomsOf(g)' : room'[i].status = "active"
    <3>1. g \in DOMAIN session /\ session'[g] = session[g]
      BY <1>2, <2>6, Places DEF LInv, Referenced, TypeOK, Insert
    <3>. QED
      BY <2>3, <2>6, <3>1 DEF Insert, RoomsOf
  <2>7. ASSUME NEW c \in Readers, Make(c)
        PROVE  \E i \in RoomsOf(g)' : room'[i].status = "active"
    <3>1. DOMAIN room \subseteq DOMAIN room' /\ \A i \in DOMAIN room : room'[i] = room[i]
      BY <1>2, <2>7, Places DEF LInv, Referenced, TypeOK, Make
    <3>. QED
      BY <2>3, <2>7, <3>1 DEF Make, RoomsOf
  <2>8. ASSUME NEW i \in DOMAIN room, TakeOut(i) \/ Collect(i) \/ StartFails(i) \/ RemoveRoom(i)
        PROVE  \E j \in RoomsOf(g)' : room'[j].status = "active"
    BY <1>2, <2>3, <2>8, RoomMoves DEF RoomsOf, TakeOut, Collect, StartFails, RemoveRoom
  <2>9. ASSUME NEW i \in DOMAIN room, Resolve(i)
        PROVE  \E j \in RoomsOf(g)' : room'[j].status = "active"
    <3>1. room[i].game \in DOMAIN session /\ \A h \in DOMAIN session : session[h] \in GameSession
      BY <1>2, Places DEF LInv, Referenced, Room
    <3>2. session' = [session EXCEPT ![room[i].game].status = "resolution"]
      BY <2>1, <2>2, <2>9 DEF Resolve, Fault
    <3>3. g # room[i].game /\ g \in DOMAIN session /\ session'[g] = session[g]
      BY <3>1, <3>2 DEF GameSession
    <3>. QED
      BY <1>2, <2>3, <2>9, <3>3, RoomMoves DEF RoomsOf
  <2>10. ASSUME NEW i \in DOMAIN room, CommitStart(i)
         PROVE  \E j \in RoomsOf(g)' : room'[j].status = "active"
    <3>1. CASE g = room[i].game
      BY <1>2, <2>10, <3>1, CommitMoves DEF RoomsOf
    <3>2. CASE g # room[i].game
      <4>1. g \in DOMAIN session /\ session'[g] = session[g]
        BY <1>2, <2>10, <3>2, CommitMoves
      <4>. QED
        BY <1>2, <2>3, <2>10, <3>2, <4>1, CommitMoves DEF RoomsOf
    <3>. QED
      BY <3>1, <3>2
  <2>11. ~Restart
    BY <2>1, <2>2 DEF Restart, Fault
  <2>. QED
    BY <1>2, <2>4, <2>5, <2>6, <2>7, <2>8, <2>9, <2>10, <2>11
    DEF Next, vars, Scan, Query, LookupFails, CheckLobby
<1>. QED
  BY <1>1, <1>2, Invariant, PoolsInv, PTL DEF Spec

-----------------------------------------------------------------------------
(* The life of a room. *)

\* Hub.rooms holds no room that has been removed.
LEMMA EnteredInv == Spec => []Entered
<1>1. Init => Entered
  BY LookupAssumption DEF Init, Entered
<1>2. ASSUME LInv, Entered, [Next]_vars PROVE Entered'
  <2>1. /\ DOMAIN room = 1 .. Len(room) /\ Len(room) \in Nat /\ MaxRooms \in Nat
        /\ \A g \in Games : rooms[g] # 0 => rooms[g] \in DOMAIN room /\ room[rooms[g]].game = g
    BY <1>2, Places, LookupAssumption DEF LInv, Referenced, TypeOK
  <2>2. CASE UNCHANGED <<room, rooms>>
    BY <1>2, <2>2 DEF Entered
  <2>3. ASSUME NEW c \in Readers, SelectCard(c) PROVE Entered'
    <3>1. UNCHANGED rooms /\ room' \in Seq(Room')
      BY <1>2, <2>3, SelectCardStep DEF SelectCard, LInv, TypeOK
    <3>2. Len(room') = Len(room)
      BY <1>2, <2>1, <2>3, <3>1, SeatMoves
    <3>. QED
      BY <1>2, <2>1, <2>3, <3>1, <3>2, SeatMoves DEF Entered
  <2>4. ASSUME NEW c \in Readers, Make(c) PROVE Entered'
    <3>1. /\ Len(room') = Len(room) + 1 /\ found[c] \in Games /\ rooms \in [Games -> {0} \cup DOMAIN room]
          /\ \A i \in DOMAIN room : room'[i] = room[i]
          /\ room'[Len(room')].status = "lobby"
      BY <1>2, <2>1, <2>4, Places DEF LInv, Referenced, TypeOK, Make
    <3>2. Len(room') <= MaxRooms
      BY <2>1, <2>4, <3>1 DEF Make
    <3>3. \A g \in Games : rooms'[g] = IF g = found[c] THEN Len(room') ELSE rooms[g]
      BY <2>4, <3>1 DEF Make
    <3>. QED
      BY <1>2, <2>1, <3>1, <3>2, <3>3 DEF Entered
  <2>5. ASSUME NEW i \in DOMAIN room, TakeOut(i) \/ Collect(i) \/ StartFails(i) \/ Resolve(i) PROVE Entered'
    <3>1. UNCHANGED rooms /\ room'[i].status # "removed"
      BY <1>2, <2>5, RoomMoves DEF TakeOut, Collect, StartFails, Resolve
    <3>2. room' \in Seq(Room) /\ DOMAIN room' = DOMAIN room /\ \A j \in DOMAIN room \ {i} : room'[j] = room[j]
      BY <1>2, <2>5, RoomMoves
    <3>3. Len(room') = Len(room)
      BY <2>1, <3>2
    <3>. QED
      BY <1>2, <2>1, <3>1, <3>2, <3>3 DEF Entered
  <2>6. ASSUME NEW i \in DOMAIN room, RemoveRoom(i) PROVE Entered'
    <3>1. room' \in Seq(Room) /\ DOMAIN room' = DOMAIN room /\ \A j \in DOMAIN room \ {i} : room'[j] = room[j]
      BY <1>2, <2>6, RoomMoves
    <3>2. Len(room') = Len(room)
      BY <2>1, <3>1
    <3>3. \A g \in Games : rooms'[g] # 0 => g # room[i].game /\ rooms'[g] = rooms[g]
      BY <1>2, <2>6 DEF RemoveRoom, LInv, TypeOK
    <3>. QED
      BY <1>2, <2>1, <3>1, <3>2, <3>3 DEF Entered
  <2>7. ASSUME NEW i \in DOMAIN room, CommitStart(i) PROVE Entered'
    <3>1. /\ room' \in Seq(Room') /\ DOMAIN room' = DOMAIN room
          /\ \A j \in DOMAIN room \ {i} : room'[j] = room[j]
          /\ room'[i].status = "active" /\ UNCHANGED rooms
      BY <1>2, <2>7, CommitMoves, CommitStep DEF CommitStart, LInv, TypeOK
    <3>2. Len(room') = Len(room)
      BY <2>1, <3>1
    <3>. QED
      BY <1>2, <2>1, <3>1, <3>2 DEF Entered
  <2>8. CASE Restart
    <3>1. Len(room') = Len(room) /\ \A g \in Games : rooms'[g] = 0
      BY <2>1, <2>8 DEF Restart
    <3>. QED
      BY <1>2, <3>1 DEF Entered
  <2>. QED
    BY <1>2, <2>2, <2>3, <2>4, <2>5, <2>6, <2>7, <2>8
    DEF Next, vars, Scan, Query, Insert, LookupFails, CheckLobby
<1>. QED
  BY <1>1, <1>2, Invariant, PTL DEF Spec

\* A step of one room moves that room only.
LEMMA OneRoomMoves ==
  ASSUME LInv, Entered, NEW i \in DOMAIN room, DOMAIN room' = DOMAIN room,
         \A j \in DOMAIN room \ {i} : room'[j] = room[j], room'[i].game = room[i].game
  PROVE  /\ i \in 1 .. MaxRooms /\ phaseOf[i] = room[i].status /\ gameOf[i] = room[i].game
         /\ readyOf[i] = room[i].ready /\ batchOf[i] = room[i].batch
         /\ UNCHANGED gameOf
         /\ phaseOf' = [phaseOf EXCEPT ![i] = room'[i].status]
         /\ readyOf' = [readyOf EXCEPT ![i] = room'[i].ready]
         /\ batchOf' = [batchOf EXCEPT ![i] = room'[i].batch]
<1>1. i \in 1 .. MaxRooms
  BY Places, LookupAssumption DEF LInv, Referenced, Entered
<1>2. phaseOf[i] = room[i].status /\ phaseOf' = [phaseOf EXCEPT ![i] = room'[i].status]
  BY <1>1 DEF phaseOf
<1>3. gameOf[i] = room[i].game /\ UNCHANGED gameOf
  BY <1>1 DEF gameOf
<1>4. readyOf[i] = room[i].ready /\ readyOf' = [readyOf EXCEPT ![i] = room'[i].ready]
  BY <1>1 DEF readyOf
<1>5. batchOf[i] = room[i].batch /\ batchOf' = [batchOf EXCEPT ![i] = room'[i].batch]
  BY <1>1 DEF batchOf
<1>. QED
  BY <1>1, <1>2, <1>3, <1>4, <1>5

\* What does not change is not seen to change.
LEMMA Unseen ==
  /\ UNCHANGED room => UNCHANGED <<phaseOf, gameOf, readyOf, batchOf>>
  /\ UNCHANGED session => UNCHANGED rowOf
<1>1. UNCHANGED room => UNCHANGED <<phaseOf, gameOf, readyOf, batchOf>>
  BY DEF phaseOf, gameOf, readyOf, batchOf
<1>2. UNCHANGED session => UNCHANGED rowOf
  BY DEF rowOf
<1>. QED
  BY <1>1, <1>2

\* A row that is inserted was in the lobby before it was there.
LEMMA InsertUnseen ==
  ASSUME LInv, NEW c \in Readers, Insert(c)
  PROVE  UNCHANGED <<rowOf, phaseOf, gameOf, readyOf, batchOf, paid>>
<1>1. /\ DOMAIN session = 1 .. Len(session) /\ Len(session) \in Nat
      /\ DOMAIN session' = 1 .. (Len(session) + 1)
      /\ \A g \in DOMAIN session : session'[g] = session[g]
      /\ session'[Len(session) + 1].status = "lobby"
  BY Places DEF LInv, Referenced, TypeOK, Insert
<1>2. \A g \in Games : (IF g \in DOMAIN session' THEN session'[g].status ELSE "lobby")
                        = IF g \in DOMAIN session THEN session[g].status ELSE "lobby"
  BY <1>1 DEF Games
<1>3. UNCHANGED rowOf
  BY <1>2 DEF rowOf
<1>. QED
  BY <1>3, Unseen DEF Insert

\* RoomLife counts as the rooms do.
LEMMA SameCount ==
  ASSUME NEW S
  PROVE  Life!Cardinality(S) = Cardinality(S)
  BY DEF Life!Cardinality, Cardinality, Life!IsFiniteSet, IsFiniteSet

\* CreateRoom.
LEMMA MakeLife ==
  ASSUME LInv, Entered, NEW c \in Readers, Make(c)
  PROVE  Life!Next
<1>. DEFINE n == Len(room) + 1
            g == found[c]
<1>1. g \in DOMAIN session /\ g \in Games
  BY Places DEF LInv, Referenced, TypeOK, Make
<1>2. [game |-> g, status |-> "lobby", ready |-> {}, batch |-> {}] \in Room
  BY <1>1 DEF Room
<1>3. /\ n \notin DOMAIN room /\ DOMAIN room' = DOMAIN room \cup {n}
      /\ \A i \in DOMAIN room : room'[i] = room[i]
      /\ room'[n] = [game |-> g, status |-> "lobby", ready |-> {}, batch |-> {}]
  BY <1>2, Places DEF LInv, Referenced, TypeOK, Make
<1>4. n \in 1 .. MaxRooms
  BY Places, LookupAssumption DEF Make, LInv, TypeOK
<1>. HIDE DEF n, g
<1>4a. /\ n \in DOMAIN room' /\ room'[n].status = "lobby" /\ room'[n].game = g
       /\ room'[n].ready = {} /\ room'[n].batch = {}
       /\ \A i \in (1 .. MaxRooms) \ {n} : i \in DOMAIN room' <=> i \in DOMAIN room
  BY <1>3
<1>5. phaseOf[n] = "unmade" /\ phaseOf' = [phaseOf EXCEPT ![n] = "lobby"]
  <2>1. \A i \in 1 .. MaxRooms : phaseOf'[i] = IF i = n THEN "lobby" ELSE phaseOf[i]
    BY <1>3, <1>4, <1>4a DEF phaseOf
  <2>. QED
    BY <1>3, <1>4, <2>1 DEF phaseOf
<1>6. gameOf' = [gameOf EXCEPT ![n] = g]
  <2>1. \A i \in 1 .. MaxRooms : gameOf'[i] = IF i = n THEN g ELSE gameOf[i]
    BY <1>3, <1>4, <1>4a DEF gameOf
  <2>. QED
    BY <1>4, <2>1 DEF gameOf
<1>7. UNCHANGED readyOf
  BY <1>3, <1>4 DEF readyOf
<1>8. UNCHANGED batchOf
  BY <1>3, <1>4 DEF batchOf
<1>9. UNCHANGED <<rowOf, paid>>
  BY Unseen DEF Make
<1>10. Life!Make(n, g)
  BY <1>5, <1>6, <1>7, <1>8, <1>9 DEF Life!Make, Life!MoveTo
<1>. QED
  BY <1>1, <1>4, <1>10 DEF Life!Next

\* A player who takes a card sits down in the room that Hub.rooms holds, if there is one.
LEMMA SelectCardLife ==
  ASSUME LInv, Entered, NEW c \in Readers, SelectCard(c)
  PROVE  [Life!Next]_Life!vars
<1>1. CASE UNCHANGED room
  BY <1>1, Unseen DEF SelectCard, Life!vars
<1>2. CASE ~UNCHANGED room
  <2>. DEFINE i == rooms[gameID[c]]
              r == [room[i] EXCEPT !.ready = @ \cup {c}]
  <2>1. gameID[c] \in Games
    BY Places DEF SelectCard, LInv, Referenced, TypeOK
  <2>2. rooms[gameID[c]] # 0 /\ room' = [room EXCEPT ![i] = r]
    BY <1>2 DEF SelectCard, MakeReady
  <2>3. i \in DOMAIN room /\ room[i] \in Room /\ room \in Seq(Room) /\ room[i].status # "removed"
    BY <2>1, <2>2, Places DEF LInv, Referenced, TypeOK, Entered
  <2>4. /\ r \in Room /\ r.game = room[i].game /\ r.status = room[i].status
        /\ r.batch = room[i].batch /\ r.ready = room[i].ready \cup {c}
    BY <2>3 DEF Room
  <2>. HIDE DEF r, i
  <2>5. DOMAIN room' = DOMAIN room /\ \A j \in DOMAIN room : room'[j] = IF j = i THEN r ELSE room[j]
    BY <2>2, <2>3, <2>4, RoomReplaced
  <2>6. /\ i \in 1 .. MaxRooms /\ phaseOf[i] = room[i].status /\ UNCHANGED gameOf
        /\ phaseOf' = [phaseOf EXCEPT ![i] = room[i].status]
        /\ readyOf[i] = room[i].ready
        /\ readyOf' = [readyOf EXCEPT ![i] = room[i].ready \cup {c}]
        /\ batchOf[i] = room[i].batch
        /\ batchOf' = [batchOf EXCEPT ![i] = room[i].batch]
    BY <2>3, <2>4, <2>5, OneRoomMoves
  <2>7. UNCHANGED <<phaseOf, batchOf>>
    BY <2>6 DEF phaseOf, batchOf
  <2>8. phaseOf[i] \notin {"unmade", "removed"}
    BY <2>3, <2>6 DEF Room
  <2>9. UNCHANGED <<rowOf, paid>>
    BY Unseen DEF SelectCard
  <2>10. Life!Seat(i, c)
    BY <2>6, <2>7, <2>8, <2>9 DEF Life!Seat
  <2>. QED
    BY <2>6, <2>10 DEF Life!Next
<1>. QED
  BY <1>1, <1>2

\* The steps of a room that has been made are those of RoomLife.
LEMMA RoomLives ==
  ASSUME LInv, Entered, NEW i \in DOMAIN room,
         TakeOut(i) \/ Collect(i) \/ StartFails(i) \/ Resolve(i) \/ RemoveRoom(i)
  PROVE  Life!Next
<1>1. /\ i \in 1 .. MaxRooms /\ phaseOf[i] = room[i].status /\ gameOf[i] = room[i].game
      /\ readyOf[i] = room[i].ready /\ batchOf[i] = room[i].batch
      /\ UNCHANGED gameOf
      /\ phaseOf' = [phaseOf EXCEPT ![i] = room'[i].status]
      /\ readyOf' = [readyOf EXCEPT ![i] = room[i].ready]
      /\ batchOf' = [batchOf EXCEPT ![i] = room'[i].batch]
  BY RoomMoves, OneRoomMoves
<1>2. UNCHANGED readyOf /\ (room'[i].batch = room[i].batch => UNCHANGED batchOf)
  BY <1>1 DEF readyOf, batchOf
<1>3. UNCHANGED paid /\ (~Resolve(i) => UNCHANGED rowOf)
  BY Unseen DEF TakeOut, Collect, StartFails, Resolve, RemoveRoom
<1>4. CASE TakeOut(i)
  <2>1. ~Resolve(i) /\ Cardinality(readyOf[i]) >= MinPlayers
    BY <1>1, <1>4 DEF TakeOut, Resolve
  <2>2. Life!TakeOut(i)
    BY <1>1, <1>2, <1>3, <1>4, <2>1, SameCount, RoomMoves DEF Life!TakeOut, Life!MoveTo
  <2>. QED
    BY <1>1, <2>2 DEF Life!Next
<1>5. CASE Collect(i)
  <2>1. ~Resolve(i)
    BY <1>5 DEF Collect, Resolve
  <2>2. Life!Collect(i)
    BY <1>1, <1>2, <1>3, <1>5, <2>1, RoomMoves DEF Life!Collect, Life!MoveTo
  <2>. QED
    BY <1>1, <2>2 DEF Life!Next
<1>6. CASE StartFails(i)
  <2>1. ~Resolve(i)
    BY <1>6 DEF StartFails, Resolve
  <2>2. Life!Fail(i)
    BY <1>1, <1>2, <1>3, <1>6, <2>1, RoomMoves DEF Life!Fail, Life!MoveTo
  <2>. QED
    BY <1>1, <2>2 DEF Life!Next
<1>7. CASE Resolve(i)
  <2>1. rowOf' \in {rowOf, [rowOf EXCEPT ![room[i].game] = "resolution"]}
    <3>1. room[i].game \in DOMAIN session /\ \A g \in DOMAIN session : session[g] \in GameSession
      BY Places DEF LInv, Referenced, Room
    <3>2. CASE UNCHANGED session
      BY <3>2, Unseen
    <3>3. CASE session' = [session EXCEPT ![room[i].game].status = "resolution"]
      <4>1. DOMAIN session' = DOMAIN session
            /\ \A g \in DOMAIN session :
                  session'[g].status = IF g = room[i].game THEN "resolution" ELSE session[g].status
        BY <3>1, <3>3 DEF GameSession
      <4>. QED
        BY <3>1, <4>1 DEF rowOf
    <3>. QED
      BY <1>7, <3>2, <3>3 DEF Resolve
  <2>2. Life!Resolve(i)
    BY <1>1, <1>2, <1>3, <1>7, <2>1, RoomMoves DEF Life!Resolve, Life!MoveTo
  <2>. QED
    BY <1>1, <2>2 DEF Life!Next
<1>8. CASE RemoveRoom(i)
  <2>1. ~Resolve(i)
    BY <1>8 DEF RemoveRoom, Resolve
  <2>2. Life!Remove(i)
    BY <1>1, <1>2, <1>3, <1>8, <2>1, RoomMoves DEF Life!Remove, Life!MoveTo
  <2>. QED
    BY <1>1, <2>2 DEF Life!Next
<1>. QED
  BY <1>4, <1>5, <1>6, <1>7, <1>8

\* So is its commit.
LEMMA CommitLives ==
  ASSUME LInv, Entered, NEW i \in DOMAIN room, CommitStart(i)
  PROVE  Life!Next
<1>. DEFINE g == room[i].game
<1>1. room'[i].ready = room[i].ready /\ room'[i].batch = room[i].batch
  BY Places DEF LInv, Referenced, TypeOK, Room, CommitStart, SetStatus
<1>2. /\ i \in 1 .. MaxRooms /\ phaseOf[i] = room[i].status /\ gameOf[i] = g
      /\ batchOf[i] = room[i].batch /\ UNCHANGED gameOf
      /\ phaseOf' = [phaseOf EXCEPT ![i] = "active"]
      /\ readyOf[i] = room[i].ready /\ readyOf' = [readyOf EXCEPT ![i] = room[i].ready]
      /\ batchOf' = [batchOf EXCEPT ![i] = room[i].batch]
  BY <1>1, CommitMoves, OneRoomMoves
<1>3. UNCHANGED <<readyOf, batchOf>>
  BY <1>2 DEF readyOf, batchOf
<1>4. rowOf' = [rowOf EXCEPT ![g] = "active"]
  <2>1. /\ g \in DOMAIN session /\ DOMAIN session' = DOMAIN session
        /\ \A h \in DOMAIN session :
              session'[h].status = IF h = g THEN "active" ELSE session[h].status
    BY CommitMoves, Places DEF LInv, Referenced, TypeOK, Room, CommitStart
  <2>. HIDE DEF g
  <2>. QED
    BY <2>1 DEF rowOf
<1>5. paid' = [paid EXCEPT ![g] = [c \in Readers |-> IF c \in batchOf[i] THEN @[c] + 1 ELSE @[c]]]
  BY <1>2 DEF CommitStart
<1>6. phaseOf[i] = "starting"
  BY <1>2 DEF CommitStart
<1>7. Life!Commit(i)
  <2>1. gameOf[i] = g
    BY <1>2
  <2>2. Life!Take(i)
    BY <1>4, <1>5, <2>1 DEF Life!Take
  <2>3. Life!MoveTo(i, "active")
    BY <1>2 DEF Life!MoveTo
  <2>. HIDE DEF g
  <2>. QED
    BY <1>2, <1>3, <1>6, <2>2, <2>3 DEF Life!Commit
<1>. QED
  BY <1>2, <1>7 DEF Life!Next

\* A restart is the end of all the rooms that have been made.
LEMMA RestartLives ==
  ASSUME LInv, Entered, Restart
  PROVE  Life!Stop
<1>1. /\ DOMAIN room = 1 .. Len(room) /\ Len(room) \in Nat
      /\ \A i \in DOMAIN room : room[i] \in Room
  BY Places DEF LInv, Referenced
<1>2. /\ DOMAIN room' = DOMAIN room
      /\ \A i \in DOMAIN room : /\ room'[i].status = "removed" /\ room'[i].game = room[i].game
                                /\ room'[i].ready = room[i].ready /\ room'[i].batch = room[i].batch
  BY <1>1 DEF Restart, Room
<1>3. \A i \in DOMAIN room : room[i].status # "unmade"
  BY <1>1 DEF Room
<1>4. phaseOf' = [i \in 1 .. MaxRooms |-> IF phaseOf[i] = "unmade" THEN "unmade" ELSE "removed"]
  BY <1>2, <1>3 DEF phaseOf
<1>5. UNCHANGED gameOf
  BY <1>2 DEF gameOf
<1>6. UNCHANGED readyOf
  BY <1>2 DEF readyOf
<1>7. UNCHANGED batchOf
  BY <1>2 DEF batchOf
<1>8. UNCHANGED <<rowOf, paid>>
  BY Unseen DEF Restart
<1>. QED
  BY <1>4, <1>5, <1>6, <1>7, <1>8 DEF Life!Stop

\* Every room, whatever other rooms its game has, lives the life of module RoomLife.
THEOREM RoomsLive == Spec => ImplementsLife
<1>1. Init => Life!Init
  <2>. SUFFICES ASSUME Init PROVE Life!Init
    OBVIOUS
  <2>1. phaseOf = [i \in 1 .. MaxRooms |-> "unmade"] /\ gameOf = [i \in 1 .. MaxRooms |-> 0]
    BY DEF Init, phaseOf, gameOf
  <2>2. readyOf = [i \in 1 .. MaxRooms |-> {}] /\ batchOf = [i \in 1 .. MaxRooms |-> {}]
    BY DEF Init, readyOf, batchOf
  <2>3. rowOf = [g \in Games |-> "lobby"]
    BY DEF Init, rowOf
  <2>. QED
    BY <2>1, <2>2, <2>3 DEF Init, Life!Init
<1>2. LInv /\ Entered /\ [Next]_vars => [Life!Next]_Life!vars
  <2>. SUFFICES ASSUME LInv, Entered, [Next]_vars PROVE [Life!Next]_Life!vars
    OBVIOUS
  <2>1. CASE UNCHANGED <<session, room, paid>>
    BY <2>1, Unseen DEF Life!vars
  <2>2. ASSUME NEW c \in Readers, Insert(c) PROVE UNCHANGED Life!vars
    BY <2>2, InsertUnseen DEF Life!vars
  <2>3. CASE Restart
    BY <2>3, RestartLives DEF Life!Next
  <2>. QED
    BY <2>1, <2>2, <2>3, MakeLife, SelectCardLife, RoomLives, CommitLives
    DEF Next, vars, Scan, Query, LookupFails, CheckLobby
<1>. QED
  BY <1>1, <1>2, Invariant, EnteredInv, PTL DEF Spec, ImplementsLife, Life!Spec
=============================================================================
