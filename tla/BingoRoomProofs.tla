-------------------------- MODULE BingoRoomProofs --------------------------
(***************************************************************************)
(* Theorems of BingoRoom, for any number of games, users and connections.  *)
(***************************************************************************)
EXTENDS BingoRoomInv, FiniteSetTheorems, TLAPS

-----------------------------------------------------------------------------
(* Facts the proofs share. *)

\* Sets of users can be counted.
LEMMA Counting ==
  ASSUME NEW S \in SUBSET Users
  PROVE  IsFiniteSet(S) /\ Cardinality(S) \in Nat
  BY RoomAssumption, FS_Subset, FS_CardinalityType

\* A larger set of users counts at least as many.
LEMMA CountingMonotone ==
  ASSUME NEW T \in SUBSET Users, NEW S \in SUBSET T
  PROVE  Cardinality(S) <= Cardinality(T)
  BY Counting, FS_Subset

\* Stakes and prizes are whole numbers of cents.
LEMMA Amounts ==
  ASSUME NEW g \in Games
  PROVE  /\ StakeCents(g) \in Nat
         /\ \A n \in Nat : PrizePool(g, n) \in Nat
  BY RoomAssumption DEF StakeCents, PrizePool

\* A goroutine inside startGame has a room.
LEMMA RoomOfTyped ==
  ASSUME Typed, NEW p \in Procs, pc[p] \in StartPC
  PROVE  RoomOf(p) \in Games
  BY DEF Typed, TypeOK, ProcTypeOK, ClientTypeOK, Assigned, Procs, RoomOf, StartPC

\* Goto moves one goroutine and leaves the others where they are.
LEMMA Moves ==
  ASSUME ProcTypeOK, NEW p \in Procs, NEW l, Goto(p, l)
  PROVE  /\ pc'[p] = l
         /\ \A q \in Procs \ {p} : pc'[q] = pc[q]
  BY DEF ProcTypeOK, Goto

\* A reader that goes to a reader's label, and a timer to a timer's, keep pc typed.
LEMMA MovesTyped ==
  ASSUME ProcTypeOK, NEW p \in Procs, NEW l, Goto(p, l),
         p \in Games => l \in TimerPC, p \in Conns => l \in ReaderPC
  PROVE  /\ pc' \in [Procs -> TimerPC \cup ReaderPC]
         /\ \A g \in Games : pc'[g] \in TimerPC
         /\ \A c \in Conns : pc'[c] \in ReaderPC
  BY DEF ProcTypeOK, Goto, Procs

\* Every connection and every game is a goroutine, and no goroutine is both.
LEMMA Goroutines ==
  /\ \A c \in Conns : c \in Procs /\ c \notin Games
  /\ \A g \in Games : g \in Procs /\ g \notin Conns
  BY RoomAssumption DEF Procs

\* Appending keeps a sequence typed and makes it one longer.
LEMMA AppendTyped ==
  ASSUME NEW V, NEW s \in Seq(V), NEW v \in V
  PROVE  Append(s, v) \in Seq(V) /\ Len(Append(s, v)) = Len(s) + 1
  OBVIOUS

\* The stakes leave every balance a whole number of cents.
LEMMA ChargeTyped ==
  ASSUME MoneyTypeOK, NEW g \in Games, NEW P \in SUBSET Users, Charge(g, P)
  PROVE  balance' \in [Users -> Int] /\ stakes' \in [Games -> [Users -> Nat]] /\ wins' = wins
<1>1. StakeCents(g) \in Nat
  BY Amounts
<1>2. balance' \in [Users -> Int]
  BY <1>1 DEF MoneyTypeOK, Charge
<1>3. [u \in Users |-> IF u \in P THEN stakes[g][u] + 1 ELSE stakes[g][u]] \in [Users -> Nat]
  BY DEF MoneyTypeOK
<1>. QED BY <1>2, <1>3 DEF MoneyTypeOK, Charge

\* The failed calls stay within their bound.
LEMMA FaultTyped ==
  ASSUME MoneyTypeOK, Fault \/ UNCHANGED faults
  PROVE  faults' \in 0 .. MaxFaults
  BY RoomAssumption DEF MoneyTypeOK, Fault

\* A part of the state that an action leaves alone keeps its type.
LEMMA Frames ==
  /\ RoomTypeOK /\ UNCHANGED roomVars => RoomTypeOK'
  /\ DropTypeOK /\ UNCHANGED dropVars => DropTypeOK'
  /\ ClientTypeOK /\ UNCHANGED clientVars => ClientTypeOK'
  /\ SessionTypeOK /\ UNCHANGED <<sessionVars, dbCards>> => SessionTypeOK'
  /\ MoneyTypeOK /\ UNCHANGED <<moneyVars, faults>> => MoneyTypeOK'
  BY DEF RoomTypeOK, DropTypeOK, ClientTypeOK, SessionTypeOK, MoneyTypeOK,
         roomVars, dropVars, clientVars, sessionVars, moneyVars

-----------------------------------------------------------------------------
(* Types. *)

\* Every reference a goroutine uses is there: invariance of the types and of Assigned.
THEOREM TypedInv == Spec => []Typed
<1>. USE DEF Typed, TypeOK
<1>1. Init => Typed
  <2>. SUFFICES ASSUME Init PROVE Typed
    OBVIOUS
  <2>1. RoomTypeOK /\ DropTypeOK /\ ClientTypeOK
    BY DEF Init, RoomTypeOK, DropTypeOK, ClientTypeOK
  <2>2. ProcTypeOK
    BY Goroutines DEF Init, ProcTypeOK, TimerPC, ReaderPC
  <2>3. SessionTypeOK
    BY DEF Init, SessionTypeOK
  <2>4. MoneyTypeOK
    BY RoomAssumption DEF Init, MoneyTypeOK
  <2>5. Assigned
    BY Goroutines DEF Init, Assigned
  <2>. QED BY <2>1, <2>2, <2>3, <2>4, <2>5
<1>2. Typed /\ [Next]_vars => Typed'
  <2>. SUFFICES ASSUME Typed, [Next]_vars PROVE Typed'
    OBVIOUS
  <2>0. ASSUME NEW c \in Conns, Authenticate(c) PROVE Typed'
    <3>1. /\ pc'[c] = "lookup"
          /\ \A q \in Procs \ {c} : pc'[q] = pc[q]
      BY <2>0, Moves, Goroutines DEF Authenticate
    <3>2. ProcTypeOK'
      BY <2>0, MovesTyped, Goroutines DEF ProcTypeOK, ReaderPC, Authenticate
    <3>3. PICK u \in TokensOf[c] : userID' = [userID EXCEPT ![c] = u]
      BY <2>0 DEF Authenticate
    <3>4. u \in Users /\ u # Nil
      BY <3>3, RoomAssumption
    <3>5. ClientTypeOK'
      BY <2>0, <3>3, <3>4 DEF ClientTypeOK, Authenticate
    <3>6. \A d \in Conns : userID'[d] = IF d = c THEN u ELSE userID[d]
      BY <3>3 DEF ClientTypeOK
    <3>7. Assigned'
      BY <2>0, <3>1, <3>4, <3>6, Goroutines
           DEF Assigned, ProcTypeOK, DropTypeOK, dropVars, Authenticate
    <3>. QED
      BY <2>0, <3>2, <3>5, <3>7, Frames DEF roomVars, dropVars, sessionVars, moneyVars, dbVars,
           Authenticate
  <2>1. ASSUME NEW c \in Conns, JoinRoom(c) PROVE Typed'
    <3>1. \/ Goto(c, "register") /\ \E g \in Games : gameID' = [gameID EXCEPT ![c] = g]
          \/ Goto(c, "idle") /\ UNCHANGED gameID
      BY <2>1 DEF JoinRoom
    <3>2. /\ pc'[c] \in {"register", "idle"} /\ (pc'[c] = "register" => gameID'[c] # Nil)
          /\ \A q \in Procs \ {c} : pc'[q] = pc[q]
      BY <3>1, Moves, Goroutines, RoomAssumption DEF ClientTypeOK
    <3>3. ProcTypeOK'
      BY <2>1, <3>1, MovesTyped, Goroutines DEF ProcTypeOK, ReaderPC, JoinRoom
    <3>4. ClientTypeOK'
      BY <2>1, <3>1 DEF ClientTypeOK, JoinRoom
    <3>5. /\ \A d \in Conns \ {c} : gameID'[d] = gameID[d]
          /\ gameID[c] # Nil => gameID'[c] # Nil
      BY <3>1, RoomAssumption DEF ClientTypeOK
    <3>6. userID[c] # Nil
      BY <2>1 DEF Assigned, JoinRoom
    <3>7. Assigned'
      BY <2>1, <3>2, <3>5, <3>6, Goroutines
           DEF Assigned, ProcTypeOK, DropTypeOK, dropVars, JoinRoom
    <3>. QED
      BY <2>1, <3>3, <3>4, <3>7, Frames DEF roomVars, dropVars, sessionVars, moneyVars, dbVars,
           JoinRoom
  <2>2. ASSUME NEW c \in Conns, Disconnect(c) PROVE Typed'
    <3>1. gameID[c] # Nil => pc'[c] = "unregister"
      BY <2>2, Moves, Goroutines DEF Disconnect
    <3>2. gameID[c] = Nil => pc'[c] = "closed"
      BY <2>2, Moves, Goroutines DEF Disconnect
    <3>3. \A q \in Procs \ {c} : pc'[q] = pc[q]
      BY <2>2, Moves, Goroutines DEF Disconnect
    <3>4. ProcTypeOK'
      BY <2>2, MovesTyped, Goroutines DEF ProcTypeOK, TimerPC, ReaderPC, StartPC, Disconnect
    <3>5. Assigned'
      BY <2>2, <3>1, <3>2, <3>3, Goroutines, RoomAssumption
           DEF Assigned, ClientTypeOK, ProcTypeOK, DropTypeOK, clientVars, dropVars, Disconnect
    <3>. QED
      BY <2>2, <3>4, <3>5, Frames DEF roomVars, dropVars, clientVars, sessionVars, moneyVars,
           dbVars, Disconnect
  <2>3. ASSUME NEW c \in Conns, CheckLobby(c) PROVE Typed'
    <3>1. /\ pc'[c] = "checked"
          /\ \A q \in Procs \ {c} : pc'[q] = pc[q]
      BY <2>3, Moves, Goroutines DEF CheckLobby
    <3>2. ProcTypeOK'
      BY <2>3, MovesTyped, Goroutines DEF ProcTypeOK, TimerPC, ReaderPC, StartPC, CheckLobby
    <3>3. Assigned'
      BY <2>3, <3>1, Goroutines, RoomAssumption
           DEF Assigned, ClientTypeOK, ProcTypeOK, DropTypeOK, clientVars, dropVars, CheckLobby
    <3>. QED
      BY <2>3, <3>2, <3>3, Frames DEF roomVars, dropVars, clientVars, sessionVars, moneyVars,
           dbVars, CheckLobby
  <2>4. ASSUME NEW c \in Conns, InsertCard(c) PROVE Typed'
    <3>1. gameID[c] \in Games /\ userID[c] \in Users
      BY <2>4, RoomAssumption DEF Assigned, ClientTypeOK, InsertCard
    <3>2. \/ Goto(c, "idle") /\ UNCHANGED <<dbCards, cartela>>
          \/ \E k \in Cards :
                /\ dbCards' = [dbCards EXCEPT ![gameID[c]][userID[c]] = k]
                /\ \/ Goto(c, "idle") /\ UNCHANGED cartela
                   \/ Goto(c, "taken") /\ cartela' = [cartela EXCEPT ![c] = [game |-> gameID[c], card |-> k]]
      BY <2>4 DEF InsertCard
    <3>3. dbCards' \in [Games -> [Users -> Cards \cup {Nil}]]
        <4>1. ASSUME NEW k \in Cards, dbCards' = [dbCards EXCEPT ![gameID[c]][userID[c]] = k]
              PROVE  dbCards' \in [Games -> [Users -> Cards \cup {Nil}]]
          BY <3>1, <4>1 DEF SessionTypeOK
        <4>. QED BY <3>2, <4>1 DEF SessionTypeOK
    <3>4. SessionTypeOK'
      BY <2>4, <3>3 DEF SessionTypeOK, sessionVars, InsertCard
    <3>5. cartela' \in [Conns -> Cartela \cup {Nil}]
      BY <2>4, <3>1, <3>2 DEF ClientTypeOK, Cartela, InsertCard
    <3>6. ClientTypeOK'
      BY <2>4, <3>5 DEF ClientTypeOK, InsertCard
    <3>7. faults' \in 0 .. MaxFaults
      BY <2>4, FaultTyped DEF InsertCard
    <3>8. MoneyTypeOK'
      BY <2>4, <3>7 DEF MoneyTypeOK, moneyVars, InsertCard
    <3>9. /\ pc'[c] = "taken" \/ pc'[c] = "idle"
          /\ \A q \in Procs \ {c} : pc'[q] = pc[q]
      BY <2>4, <3>2, Moves, Goroutines DEF InsertCard
    <3>10. ProcTypeOK'
      BY <2>4, <3>2, MovesTyped, Goroutines DEF ProcTypeOK, ReaderPC, InsertCard
    <3>11. pc'[c] = "taken" => cartela'[c] # Nil
      BY <2>4, <3>1, <3>2, <3>5, Moves, Goroutines, RoomAssumption
           DEF ClientTypeOK, Cartela, InsertCard
    <3>12. \A d \in Conns : cartela[d] # Nil => cartela'[d] # Nil
        <4>1. ASSUME NEW k \in Cards, NEW d \in Conns, cartela[d] # Nil,
                     cartela' = [cartela EXCEPT ![c] = [game |-> gameID[c], card |-> k]]
              PROVE  cartela'[d] # Nil
          BY <3>1, <4>1, RoomAssumption DEF ClientTypeOK, Cartela
        <4>. QED BY <3>2, <4>1
    <3>13. Assigned'
      BY <2>4, <3>9, <3>11, <3>12, Goroutines, RoomAssumption
           DEF Assigned, ClientTypeOK, ProcTypeOK, DropTypeOK, clientVars, dropVars, InsertCard
    <3>. QED
      BY <2>4, <3>4, <3>6, <3>8, <3>10, <3>13, Frames
           DEF roomVars, dropVars, clientVars, sessionVars, moneyVars, dbVars, InsertCard
  <2>5. ASSUME NEW c \in Conns, RecordCard(c) PROVE Typed'
    <3>1. gameID[c] \in Games /\ userID[c] \in Users /\ cartela[c].card \in Cards
      BY <2>5, RoomAssumption DEF Assigned, ClientTypeOK, Cartela, RecordCard
    <3>2. selected' \in [Games -> [Users -> Cards \cup {Nil}]]
        <4>1. \/ selected' = [selected EXCEPT ![gameID[c]][userID[c]] = cartela[c].card]
              \/ selected' = selected
          BY <2>5 DEF RecordCard
        <4>2. selected \in [Games -> [Users -> Cards \cup {Nil}]]
          BY DEF RoomTypeOK
        <4>. QED BY <3>1, <4>1, <4>2
    <3>3. RoomTypeOK'
      BY <2>5, <3>2 DEF RoomTypeOK, RecordCard
    <3>4. /\ pc'[c] = "try" \/ pc'[c] = "idle"
          /\ \A q \in Procs \ {c} : pc'[q] = pc[q]
      BY <2>5, Moves, Goroutines DEF RecordCard
    <3>5. ProcTypeOK'
      BY <2>5, MovesTyped, Goroutines DEF ProcTypeOK, TimerPC, ReaderPC, StartPC, RecordCard
    <3>6. Assigned'
      BY <2>5, <3>4, Goroutines, RoomAssumption
           DEF Assigned, ClientTypeOK, ProcTypeOK, DropTypeOK, clientVars, dropVars, RecordCard
    <3>. QED
      BY <2>5, <3>3, <3>5, <3>6, Frames DEF roomVars, dropVars, clientVars, sessionVars,
           moneyVars, dbVars, RecordCard
  <2>6. ASSUME NEW c \in Conns, TryStart(c) PROVE Typed'
    <3>1. \/ Goto(c, "idle") /\ UNCHANGED status
          \/ BeginStart(c)
      BY <2>6 DEF TryStart
    <3>2. RoomTypeOK'
      BY <2>6, <3>1, Goroutines DEF BeginStart, RoomTypeOK, RoomOf, Assigned, ClientTypeOK,
           TryStart
    <3>3. /\ pc'[c] \in {"idle", "collect"}
          /\ \A q \in Procs \ {c} : pc'[q] = pc[q]
      BY <2>6, <3>1, Moves, Goroutines DEF BeginStart, TryStart
    <3>4. ProcTypeOK'
      BY <2>6, <3>1, MovesTyped, Goroutines
           DEF BeginStart, ProcTypeOK, TimerPC, ReaderPC, StartPC, TryStart
    <3>5. Assigned'
      BY <2>6, <3>3, Goroutines, RoomAssumption
           DEF Assigned, ClientTypeOK, ProcTypeOK, DropTypeOK, clientVars, dropVars, TryStart
    <3>. QED
      BY <2>6, <3>2, <3>4, <3>5, Frames DEF roomVars, dropVars, clientVars, sessionVars,
           moneyVars, dbVars, TryStart
  <2>7. ASSUME NEW c \in Conns, HubReceive(c) PROVE Typed'
    <3>1. /\ pc'[c] = "idle" \/ pc'[c] = "closed"
          /\ \A q \in Procs \ {c} : pc'[q] = pc[q]
      BY <2>7, Moves, Goroutines DEF HubReceive
    <3>2. hub' \in [op : {"register", "unregister"}, client : Conns]
      BY <2>7 DEF ProcTypeOK, HubReceive
    <3>3. ProcTypeOK'
      BY <2>7, <3>2, MovesTyped, Goroutines DEF ProcTypeOK, ReaderPC, HubReceive
    <3>4. Assigned'
      BY <2>7, <3>1, Goroutines, RoomAssumption
           DEF Assigned, ClientTypeOK, ProcTypeOK, DropTypeOK, clientVars, dropVars, HubReceive
    <3>. QED
      BY <2>7, <3>3, <3>4, Frames DEF roomVars, dropVars, clientVars, sessionVars, moneyVars,
           dbVars, HubReceive
  <2>8. CASE HubHandle
    <3>. USE <2>8 DEF HubHandle
    <3>1. hub.client \in Conns /\ gameID[hub.client] \in Games /\ userID[hub.client] \in Users
      BY RoomAssumption DEF Assigned, ProcTypeOK, ClientTypeOK
    <3>2. clients' \in [Games -> [Users -> Conns \cup {Nil}]]
      BY <3>1 DEF RoomTypeOK
    <3>3. RoomTypeOK'
      BY <3>2 DEF RoomTypeOK
    <3>4. ProcTypeOK' /\ Assigned'
      BY DEF ProcTypeOK, Assigned, dropVars, clientVars
    <3>. QED BY <3>3, <3>4, Frames DEF roomVars, dropVars, clientVars, sessionVars, moneyVars,
                  dbVars
  <2>9. ASSUME NEW p \in Procs, Collect(p) PROVE Typed'
    <3>1. /\ pc'[p] = "deduct"
          /\ \A q \in Procs \ {p} : pc'[q] = pc[q]
      BY <2>9, Moves DEF Collect
    <3>2. batch' \in [Procs -> SUBSET Users]
      BY <2>9 DEF Ready, ProcTypeOK, Collect
    <3>3. ProcTypeOK'
      BY <2>9, <3>2, MovesTyped DEF ProcTypeOK, TimerPC, ReaderPC, StartPC, Collect
    <3>4. Assigned'
      BY <2>9, <3>1, Goroutines, RoomAssumption
           DEF Assigned, ClientTypeOK, ProcTypeOK, DropTypeOK, clientVars, dropVars, Collect
    <3>. QED
      BY <2>9, <3>3, <3>4, Frames DEF roomVars, dropVars, clientVars, sessionVars, moneyVars,
           dbVars, Collect
  <2>10. ASSUME NEW p \in Procs, Deduct(p) PROVE Typed'
    <3>1. RoomOf(p) \in Games /\ batch[p] \in SUBSET Users
      BY <2>10, RoomOfTyped DEF ProcTypeOK, StartPC, Deduct
    <3>2. \/ Goto(p, "launch") /\ CommitStart(p)
          \/ Goto(p, "revert") /\ CommitStart(p)
          \/ Goto(p, "revert") /\ RollBack(p)
      BY <2>10 DEF Deduct
    <3>3. /\ pc'[p] \in {"launch", "revert"}
          /\ \A q \in Procs \ {p} : pc'[q] = pc[q]
      BY <2>10, <3>2, Moves DEF Deduct
    <3>4. ProcTypeOK'
      BY <2>10, <3>2, MovesTyped DEF ProcTypeOK, TimerPC, ReaderPC, StartPC, Deduct
    <3>5. Assigned'
      BY <2>10, <3>3, Goroutines, RoomAssumption
           DEF Assigned, ClientTypeOK, ProcTypeOK, DropTypeOK, clientVars, dropVars, Deduct
    <3>6. StakeCents(RoomOf(p)) \in Nat /\ PrizePool(RoomOf(p), Cardinality(batch[p])) \in Nat
      BY <2>10, <3>1, Amounts, Counting DEF Deduct
    <3>7. SessionTypeOK'
      BY <2>10, <3>1, <3>2, <3>6 DEF CommitStart, RollBack, SessionTypeOK, sessionVars, Deduct
    <3>8. faults' \in 0 .. MaxFaults
      BY <2>10, FaultTyped DEF Deduct
    <3>9. balance' \in [Users -> Int] /\ stakes' \in [Games -> [Users -> Nat]]
        BY <3>1, <3>2, ChargeTyped DEF CommitStart, RollBack, MoneyTypeOK, moneyVars
    <3>11. lost' \in [Games -> Nat]
      BY <2>10, <3>1 DEF Deduct, RollBack, MoneyTypeOK, moneyVars
    <3>10. MoneyTypeOK'
      BY <2>10, <3>2, <3>8, <3>9, <3>11 DEF CommitStart, RollBack, Charge, MoneyTypeOK, moneyVars,
           Deduct
    <3>. QED
      BY <2>10, <3>4, <3>5, <3>7, <3>10, Frames
           DEF roomVars, dropVars, clientVars, sessionVars, moneyVars, dbVars, Deduct
  <2>11. ASSUME NEW p \in Procs, Revert(p) PROVE Typed'
    <3>1. /\ pc'[p] = Exit(p)
          /\ \A q \in Procs \ {p} : pc'[q] = pc[q]
      BY <2>11, Moves DEF Revert
    <3>2. ProcTypeOK'
      BY <2>11, MovesTyped, Goroutines DEF Exit, ProcTypeOK, TimerPC, ReaderPC, Revert
    <3>3. RoomTypeOK'
      BY <2>11, RoomOfTyped DEF RoomTypeOK, StartPC, Revert
    <3>4. Assigned'
      BY <2>11, <3>1, Goroutines, RoomAssumption
           DEF Assigned, ClientTypeOK, ProcTypeOK, DropTypeOK, clientVars, dropVars, Exit,
           Revert
    <3>. QED
      BY <2>11, <3>2, <3>3, <3>4, Frames DEF roomVars, dropVars, clientVars, sessionVars,
           moneyVars, dbVars, Revert
  <2>12. ASSUME NEW p \in Procs, Launch(p) PROVE Typed'
    <3>1. /\ pc'[p] = Exit(p)
          /\ \A q \in Procs \ {p} : pc'[q] = pc[q]
      BY <2>12, Moves DEF Launch
    <3>2. ProcTypeOK'
      BY <2>12, MovesTyped, Goroutines DEF Exit, ProcTypeOK, TimerPC, ReaderPC, Launch
    <3>3. DropTypeOK'
      BY <2>12, RoomOfTyped DEF DropTypeOK, StartPC, Launch
    <3>4. Assigned'
      BY <2>12, <3>1, Goroutines, RoomAssumption
           DEF Assigned, ClientTypeOK, ProcTypeOK, DropTypeOK, clientVars, dropVars, Exit,
           Launch
    <3>. QED
      BY <2>12, <3>2, <3>3, <3>4, Frames DEF roomVars, dropVars, clientVars, sessionVars,
           moneyVars, dbVars, Launch
  <2>13. ASSUME NEW g \in Games, TimerArm(g) PROVE Typed'
    <3>1. /\ pc'[g] \in {"wait", "done"}
          /\ \A q \in Procs \ {g} : pc'[q] = pc[q]
      BY <2>13, Moves, Goroutines DEF TimerArm
    <3>2. ProcTypeOK'
      BY <2>13, MovesTyped, Goroutines DEF ProcTypeOK, TimerPC, ReaderPC, StartPC, TimerArm
    <3>3. Assigned'
      BY <2>13, <3>1, Goroutines, RoomAssumption
           DEF Assigned, ClientTypeOK, ProcTypeOK, DropTypeOK, clientVars, dropVars, TimerArm
    <3>. QED
      BY <2>13, <3>2, <3>3, Frames DEF roomVars, dropVars, clientVars, sessionVars, moneyVars,
           dbVars, TimerArm
  <2>14. ASSUME NEW g \in Games, TimerFire(g) PROVE Typed'
    <3>1. \/ Goto(g, "done") /\ UNCHANGED status
          \/ Goto(g, "arm") /\ UNCHANGED status
          \/ BeginStart(g)
      BY <2>14 DEF TimerFire
    <3>2. RoomTypeOK'
      BY <2>14, <3>1 DEF BeginStart, RoomTypeOK, RoomOf, TimerFire
    <3>3. /\ pc'[g] \in {"done", "arm", "collect"}
          /\ \A q \in Procs \ {g} : pc'[q] = pc[q]
      BY <2>14, <3>1, Moves, Goroutines DEF BeginStart, TimerFire
    <3>4. ProcTypeOK'
      BY <2>14, <3>1, MovesTyped, Goroutines
           DEF BeginStart, ProcTypeOK, TimerPC, ReaderPC, StartPC, TimerFire
    <3>5. Assigned'
      BY <2>14, <3>3, Goroutines, RoomAssumption
           DEF Assigned, ClientTypeOK, ProcTypeOK, DropTypeOK, clientVars, dropVars, TimerFire
    <3>. QED
      BY <2>14, <3>2, <3>4, <3>5, Frames DEF roomVars, dropVars, clientVars, sessionVars,
           moneyVars, dbVars, TimerFire
  <2>15. ASSUME NEW g \in Games, DropBall(g) PROVE Typed'
    <3>1. ProcTypeOK'
      BY <2>15 DEF ProcTypeOK, DropBall
    <3>2. DropTypeOK'
      BY <2>15 DEF DropTypeOK, DropTo, DropBall
    <3>3. Assigned'
      BY <2>15, RoomAssumption DEF Assigned, ClientTypeOK, ProcTypeOK, DropTypeOK, DropTo,
           clientVars, dropVars, DropBall
    <3>4. called' \in [Games -> SUBSET Balls]
      BY <2>15 DEF RoomTypeOK, DropBall
    <3>5. RoomTypeOK'
      BY <2>15, <3>4 DEF RoomTypeOK, DropBall
    <3>6. dbBalls' \in [Games -> SUBSET Balls]
      BY <2>15 DEF SessionTypeOK, DropBall
    <3>7. SessionTypeOK'
      BY <2>15, <3>6 DEF SessionTypeOK, DropBall
    <3>8. MoneyTypeOK'
      BY <2>15, FaultTyped DEF MoneyTypeOK, moneyVars, DropBall
    <3>. QED
      BY <2>15, <3>1, <3>2, <3>3, <3>5, <3>7, <3>8, Frames
           DEF roomVars, dropVars, clientVars, sessionVars, moneyVars, dbVars, DropBall
  <2>16. ASSUME NEW g \in Games, ScanClients(g) PROVE Typed'
    <3>1. ProcTypeOK'
      BY <2>16 DEF ProcTypeOK, ScanClients
    <3>2. DropTypeOK'
      BY <2>16 DEF DropTypeOK, DropTo, RoomTypeOK, ScanClients
    <3>3. Assigned'
      BY <2>16, RoomAssumption DEF Assigned, ClientTypeOK, ProcTypeOK, DropTypeOK, DropTo,
           clientVars, dropVars, ScanClients
    <3>. QED
      BY <2>16, <3>1, <3>2, <3>3, Frames DEF roomVars, dropVars, clientVars, sessionVars,
           moneyVars, dbVars, ScanClients
  <2>17. ASSUME NEW g \in Games, Judge(g) PROVE Typed'
    <3>1. ProcTypeOK'
      BY <2>17 DEF ProcTypeOK, Judge
    <3>2. DropTypeOK'
      BY <2>17 DEF DropTypeOK, DropTo, Complete, Judge
    <3>3. Assigned'
      BY <2>17, RoomAssumption DEF Assigned, ClientTypeOK, ProcTypeOK, DropTypeOK, DropTo,
           clientVars, dropVars, Complete, Judge
    <3>. QED
      BY <2>17, <3>1, <3>2, <3>3, Frames DEF roomVars, dropVars, clientVars, sessionVars,
           moneyVars, dbVars, Judge
  <2>18. ASSUME NEW g \in Games, Settle(g) PROVE Typed'
    <3>1. ProcTypeOK'
      BY <2>18 DEF ProcTypeOK, Settle
    <3>2. DropTypeOK'
      BY <2>18 DEF DropTypeOK, DropTo, Settle
    <3>3. Assigned'
      BY <2>18, RoomAssumption DEF Assigned, ClientTypeOK, ProcTypeOK, DropTypeOK, DropTo,
           clientVars, dropVars, Settle
    <3>4. RoomTypeOK'
      BY <2>18 DEF RoomTypeOK, Settle
    <3>. QED
      BY <2>18, <3>1, <3>2, <3>3, <3>4, Frames
           DEF roomVars, dropVars, clientVars, sessionVars, moneyVars, dbVars, Settle
  <2>19. ASSUME NEW g \in Games, RecordWinner(g) PROVE Typed'
    <3>1. ProcTypeOK'
      BY <2>19 DEF ProcTypeOK, RecordWinner
    <3>2. DropTypeOK'
      BY <2>19 DEF DropTypeOK, DropTo, RecordWinner
    <3>3. Assigned'
      BY <2>19, RoomAssumption DEF Assigned, ClientTypeOK, ProcTypeOK, DropTypeOK, DropTo,
           clientVars, dropVars, RecordWinner
    <3>4. dbWinner' \in [Games -> [user : Users, board : Cartela] \cup {Nil}]
      BY <2>19, RoomAssumption DEF SessionTypeOK, Assigned, DropTypeOK, ClientTypeOK,
           RecordWinner
    <3>5. SessionTypeOK'
      BY <2>19, <3>4 DEF SessionTypeOK, RecordWinner
    <3>6. MoneyTypeOK'
      BY <2>19, FaultTyped DEF MoneyTypeOK, moneyVars, RecordWinner
    <3>. QED
      BY <2>19, <3>1, <3>2, <3>3, <3>5, <3>6, Frames
           DEF roomVars, dropVars, clientVars, sessionVars, moneyVars, dbVars, RecordWinner
  <2>23. ASSUME NEW g \in Games, CountPlayers(g) PROVE Typed'
    <3>1. ProcTypeOK'
      BY <2>23 DEF ProcTypeOK, CountPlayers
    <3>2. Cardinality(Ready(g)) \in Nat
      BY Counting DEF Ready
    <3>3. DropTypeOK'
      BY <2>23, <3>2 DEF DropTypeOK, DropTo, CountPlayers
    <3>4. Assigned'
      BY <2>23, RoomAssumption DEF Assigned, ClientTypeOK, ProcTypeOK, DropTypeOK, DropTo,
           clientVars, dropVars, CountPlayers
    <3>. QED
      BY <2>23, <3>1, <3>3, <3>4, Frames DEF roomVars, dropVars, clientVars, sessionVars,
           moneyVars, dbVars, CountPlayers
  <2>20. ASSUME NEW g \in Games, CreditWin(g) PROVE Typed'
    <3>1. ProcTypeOK'
      BY <2>20 DEF ProcTypeOK, CreditWin
    <3>2. DropTypeOK'
      BY <2>20 DEF DropTypeOK, DropTo, CreditWin
    <3>3. Assigned'
      BY <2>20, RoomAssumption DEF Assigned, ClientTypeOK, ProcTypeOK, DropTypeOK, DropTo,
           clientVars, dropVars, CreditWin
    <3>4. userID[winner[g]] \in Users /\ PrizePool(g, counted[g]) \in Nat
      BY <2>20, RoomAssumption, Amounts DEF Assigned, DropTypeOK, ClientTypeOK, CreditWin
    <3>5. balance' \in [Users -> Int] /\ stakes' = stakes /\ lost' = lost
      BY <2>20, <3>4 DEF MoneyTypeOK, moneyVars, CreditWin
    <3>6. wins' \in [Games -> Seq([user : Users, amount : Nat])]
        <4>. DEFINE w == [user |-> userID[winner[g]], amount |-> PrizePool(g, counted[g])]
        <4>1. \/ wins' = [wins EXCEPT ![g] = Append(@, w)]
              \/ wins' = wins
          BY <2>20 DEF CreditWin, moneyVars
        <4>2. w \in [user : Users, amount : Nat]
          BY <3>4
        <4>. HIDE DEF w
        <4>3. wins \in [Games -> Seq([user : Users, amount : Nat])]
          BY DEF MoneyTypeOK
        <4>4. Append(wins[g], w) \in Seq([user : Users, amount : Nat])
          BY <4>2, <4>3, AppendTyped
        <4>. QED BY <4>1, <4>3, <4>4
    <3>7. faults' \in 0 .. MaxFaults
      BY <2>20, FaultTyped DEF CreditWin
    <3>8. MoneyTypeOK'
      BY <2>20, <3>5, <3>6, <3>7 DEF MoneyTypeOK, CreditWin
    <3>. QED
      BY <2>20, <3>1, <3>2, <3>3, <3>8, Frames
           DEF roomVars, dropVars, clientVars, sessionVars, moneyVars, dbVars, CreditWin
  <2>21. ASSUME NEW g \in Games, RemoveRoom(g) PROVE Typed'
    <3>1. ProcTypeOK'
      BY <2>21 DEF ProcTypeOK, RemoveRoom
    <3>2. RoomTypeOK'
      BY <2>21 DEF RoomTypeOK, RemoveRoom
    <3>3. Assigned'
      BY <2>21 DEF Assigned, clientVars, dropVars, RemoveRoom
    <3>. QED
      BY <2>21, <3>1, <3>2, <3>3, Frames DEF roomVars, dropVars, clientVars, sessionVars,
           moneyVars, dbVars, RemoveRoom
  <2>22. CASE UNCHANGED vars
    <3>1. ProcTypeOK' /\ Assigned'
      BY <2>22 DEF vars, ProcTypeOK, Assigned, dropVars, clientVars
    <3>. QED BY <2>22, <3>1, Frames DEF vars, dbVars
  <2>. QED
    BY <2>1, <2>2, <2>3, <2>4, <2>5, <2>6, <2>7, <2>8, <2>9, <2>10, <2>11, <2>12, <2>13, <2>14, <2>0, <2>23,
         <2>15, <2>16, <2>17, <2>18, <2>19, <2>20, <2>21, <2>22
    DEF Next, Reader, StartGame, Timer, BallDrops
<1>. QED
  BY <1>1, <1>2, PTL DEF Spec

\* Every variable keeps its range whatever the goroutines interleave.
THEOREM TypeCorrect == Spec => []TypeOK
<1>1. Typed => TypeOK
  BY DEF Typed
<1>. QED
  BY <1>1, TypedInv, PTL

-----------------------------------------------------------------------------
(* Who is in startGame. *)

\* One that goes on inside startGame changes nothing about who is in it.
LEMMA Insiders ==
  ASSUME ProcTypeOK, NEW p \in Procs, NEW l, Goto(p, l),
         pc[p] \in StartPC, l \in StartPC, UNCHANGED gameID
  PROVE  \A g \in Games : Starters(g)' = Starters(g)
  BY Moves DEF Starters, RoomOf

\* One that leaves it is no longer among them.
LEMMA Leaving ==
  ASSUME ProcTypeOK, NEW p \in Procs, NEW l, Goto(p, l), l \notin StartPC, UNCHANGED gameID
  PROVE  \A g \in Games : Starters(g)' = Starters(g) \ {p}
  BY Moves DEF Starters, RoomOf

\* One that begins joins those of its room.
LEMMA Beginning ==
  ASSUME ProcTypeOK, NEW p \in Procs, Goto(p, "collect"), UNCHANGED gameID,
         pc[p] \notin StartPC
  PROVE  \A g \in Games : Starters(g)' = IF g = RoomOf(p) THEN Starters(g) \cup {p} ELSE Starters(g)
  BY Moves DEF Starters, RoomOf, StartPC

\* With pc and Client.GameID unchanged, so is everybody's place.
LEMMA Standing ==
  ASSUME UNCHANGED <<pc, gameID>>
  PROVE  \A g \in Games : Starters(g)' = Starters(g)
  BY DEF Starters, RoomOf

\* What BeginStart does to a room in the lobby.
LEMMA BeginExclusive ==
  ASSUME Typed, Exclusive, NEW p \in Procs, RoomOf(p) \in Games, pc[p] \notin StartPC,
         status[RoomOf(p)] = "lobby", BeginStart(p), UNCHANGED <<gameID, drops>>
  PROVE  Exclusive'
<1>. DEFINE r == RoomOf(p)
<1>1. Starters(r) = {} /\ drops[r] = "none"
  BY DEF Exclusive, StartExclusive
<1>2. \A g \in Games : Starters(g)' = IF g = r THEN {p} ELSE Starters(g)
  BY <1>1, Beginning DEF BeginStart, Typed, TypeOK
<1>3. \A g \in Games : status'[g] = IF g = r THEN "active" ELSE status[g]
  BY DEF BeginStart, Typed, TypeOK, RoomTypeOK
<1>. QED
  BY <1>1, <1>2, <1>3 DEF Exclusive, StartExclusive

\* What the ball goroutine may do to a room: it never finds anybody in startGame.
LEMMA DropsExclusive ==
  ASSUME Typed, Exclusive, NEW g \in Games, drops[g] # "none", NEW l, l # "none", DropTo(g, l),
         UNCHANGED <<pc, gameID>>,
         UNCHANGED status \/ status' = [status EXCEPT ![g] = "resolution"]
  PROVE  Exclusive'
<1>1. \A x \in Games : Starters(x)' = Starters(x)
  BY Standing
<1>2. status[g] # "lobby" /\ Starters(g) = {}
  BY DEF Exclusive, StartExclusive
<1>3. \A x \in Games : x # g => drops'[x] = drops[x] /\ status'[x] = status[x]
  BY DEF DropTo, Typed, TypeOK, DropTypeOK, RoomTypeOK
<1>4. status'[g] # "lobby"
  BY <1>2 DEF Typed, TypeOK, RoomTypeOK
<1>. QED
  BY <1>1, <1>2, <1>3, <1>4 DEF Exclusive, StartExclusive

-----------------------------------------------------------------------------
(* The steps that matter to the properties. *)

\* A step that starts no game, advances no start and touches no drop, money or session
\* row; players may connect, leave and get ready.
Quiet ==
  /\ UNCHANGED <<status, called, batch, drops, counted, dbStatus, dbPrize, balance, stakes, wins, lost>>
  /\ \A q \in Procs : pc[q] \in StartPC \/ pc'[q] \in StartPC
                         => pc'[q] = pc[q] /\ RoomOf(q)' = RoomOf(q)
  /\ \A g \in Games : Ready(g) \subseteq Ready(g)'

\* A timer or a reader takes its room out of the lobby.
Begins(p) ==
  /\ RoomOf(p) \in Games /\ pc[p] \notin StartPC
  /\ status[RoomOf(p)] = "lobby" /\ Enough(RoomOf(p))
  /\ BeginStart(p)
  /\ UNCHANGED <<selected, called, batch, hub, dropVars, clientVars, dbVars>>

\* A goroutine outside startGame that stays outside makes a quiet step.
LEMMA QuietMove ==
  ASSUME ProcTypeOK, NEW p \in Procs, NEW l, Goto(p, l),
         pc[p] \notin StartPC, l \notin StartPC,
         \A q \in Procs \ {p} : RoomOf(q)' = RoomOf(q),
         \A g \in Games : Ready(g) \subseteq Ready(g)',
         UNCHANGED <<status, called, batch, drops, counted, dbStatus, dbPrize, balance, stakes, wins, lost>>
  PROVE  Quiet
  BY Moves DEF Quiet

\* So does a step that moves nobody.
LEMMA QuietStand ==
  ASSUME UNCHANGED <<status, selected, called, pc, batch, drops, counted, gameID, dbStatus, dbPrize,
                    balance, stakes, wins, lost>>
  PROVE  Quiet
  BY DEF Quiet, RoomOf, Ready

\* Every step is quiet, or one of the eleven that start, play and settle a game.
LEMMA Steps ==
  ASSUME Typed, [Next]_vars
  PROVE  \/ Quiet
         \/ \E p \in Procs : Begins(p) \/ StartGame(p)
         \/ \E g \in Games : BallDrops(g)
<1>. DEFINE Claim == Quiet \/ (\E p \in Procs : Begins(p) \/ StartGame(p)) \/ \E g \in Games : BallDrops(g)
<1>. USE DEF Typed, TypeOK
<1>0. ASSUME NEW c \in Conns, Authenticate(c) PROVE Claim
  BY <1>0, QuietMove, Goroutines DEF Authenticate, StartPC, RoomOf, Ready, roomVars, dropVars,
       sessionVars, moneyVars, dbVars
<1>1. ASSUME NEW c \in Conns, JoinRoom(c) PROVE Claim
  <2>1. \A q \in Procs \ {c} : RoomOf(q)' = RoomOf(q)
    BY <1>1 DEF JoinRoom, RoomOf, Procs, ClientTypeOK
  <2>2. PICK l \in {"register", "idle"} : Goto(c, l)
    BY <1>1 DEF JoinRoom
  <2>. QED
    BY <1>1, <2>1, <2>2, QuietMove, Goroutines DEF JoinRoom, StartPC, Ready, roomVars, dropVars,
         sessionVars, moneyVars, dbVars
<1>2. ASSUME NEW c \in Conns, Disconnect(c) PROVE Claim
  BY <1>2, QuietMove, Goroutines DEF Disconnect, StartPC, RoomOf, Ready, roomVars, dropVars,
       clientVars, sessionVars, moneyVars, dbVars
<1>3. ASSUME NEW c \in Conns, CheckLobby(c) PROVE Claim
  BY <1>3, QuietMove, Goroutines DEF CheckLobby, StartPC, RoomOf, Ready, roomVars, dropVars,
       clientVars, sessionVars, moneyVars, dbVars
<1>4. ASSUME NEW c \in Conns, InsertCard(c) PROVE Claim
  BY <1>4, QuietMove, Goroutines DEF InsertCard, StartPC, RoomOf, Ready, roomVars, dropVars,
       clientVars, sessionVars, moneyVars, dbVars
<1>5. ASSUME NEW c \in Conns, RecordCard(c) PROVE Claim
  <2>1. gameID[c] \in Games /\ userID[c] \in Users /\ cartela[c].card # Nil
    BY <1>5, RoomAssumption DEF RecordCard, Assigned, ClientTypeOK, Cartela
  <2>2. \A x \in Games : Ready(x) \subseteq Ready(x)'
    BY <1>5, <2>1 DEF RecordCard, Ready, RoomTypeOK
  <2>. QED
    BY <1>5, <2>2, QuietMove, Goroutines DEF RecordCard, StartPC, RoomOf, roomVars, dropVars,
         clientVars, sessionVars, moneyVars, dbVars
<1>6. ASSUME NEW c \in Conns, TryStart(c) PROVE Claim
  <2>1. RoomOf(c) = gameID[c] /\ gameID[c] \in Games /\ c \in Procs /\ pc[c] \notin StartPC
    BY <1>6, Goroutines DEF TryStart, RoomOf, Assigned, ClientTypeOK, StartPC
  <2>2. CASE BeginStart(c) /\ status[gameID[c]] = "lobby" /\ Enough(gameID[c])
    <3>1. Begins(c)
      BY <1>6, <2>1, <2>2 DEF TryStart, Begins
    <3>. QED
      BY <2>1, <3>1
  <2>3. CASE \E l \in {"idle", "done", "arm"} : Goto(c, l) /\ UNCHANGED status
    BY <1>6, <2>1, <2>3, QuietMove DEF TryStart, StartPC, RoomOf, Ready, roomVars, dropVars,
         clientVars, sessionVars, moneyVars, dbVars
  <2>. QED
    BY <1>6, <2>2, <2>3 DEF TryStart
<1>7. ASSUME NEW g \in Games, TimerFire(g) PROVE Claim
  <2>1. RoomOf(g) = g /\ g \in Games /\ g \in Procs /\ pc[g] \notin StartPC
    BY <1>7, Goroutines DEF TimerFire, RoomOf, Assigned, ClientTypeOK, StartPC
  <2>2. CASE BeginStart(g) /\ status[g] = "lobby" /\ Enough(g)
    <3>1. Begins(g)
      BY <1>7, <2>1, <2>2 DEF TimerFire, Begins
    <3>. QED
      BY <2>1, <3>1
  <2>3. CASE \E l \in {"idle", "done", "arm"} : Goto(g, l) /\ UNCHANGED status
    BY <1>7, <2>1, <2>3, QuietMove DEF TimerFire, StartPC, RoomOf, Ready, roomVars, dropVars,
         clientVars, sessionVars, moneyVars, dbVars
  <2>. QED
    BY <1>7, <2>2, <2>3 DEF TimerFire
<1>8. ASSUME NEW c \in Conns, HubReceive(c) PROVE Claim
  BY <1>8, QuietMove, Goroutines DEF HubReceive, StartPC, RoomOf, Ready, roomVars, dropVars,
       clientVars, sessionVars, moneyVars, dbVars
<1>9. CASE HubHandle
  BY <1>9, QuietStand DEF HubHandle, roomVars, dropVars, clientVars, sessionVars, moneyVars,
       dbVars
<1>10. ASSUME NEW g \in Games, TimerArm(g) PROVE Claim
  BY <1>10, QuietMove, Goroutines DEF TimerArm, StartPC, RoomOf, Ready, roomVars, dropVars,
       clientVars, sessionVars, moneyVars, dbVars
<1>11. ASSUME NEW g \in Games, RemoveRoom(g) PROVE Claim
  BY <1>11, QuietStand DEF RemoveRoom, roomVars, dropVars, clientVars, sessionVars, moneyVars,
       dbVars
<1>12. CASE UNCHANGED vars
  BY <1>12, QuietStand DEF vars, roomVars, dropVars, clientVars, sessionVars, moneyVars, dbVars
<1>. QED
  BY <1>0, <1>1, <1>2, <1>3, <1>4, <1>5, <1>6, <1>7, <1>8, <1>9, <1>10, <1>11, <1>12
  DEF Next, Reader, Timer

-----------------------------------------------------------------------------
(* One start at a time. *)

\* Every step keeps the starts of a room exclusive.
LEMMA ExclusiveStep ==
  ASSUME Typed, Exclusive, [Next]_vars
  PROVE  Exclusive'
<1>. USE DEF Typed, TypeOK
<1>1. CASE Quiet
  <2>1. \A x \in Games : Starters(x)' = Starters(x)
    BY <1>1 DEF Quiet, Starters
  <2>. QED
    BY <1>1, <2>1 DEF Quiet, Exclusive, StartExclusive
<1>2. ASSUME NEW p \in Procs, Begins(p) PROVE Exclusive'
  BY <1>2, BeginExclusive DEF Begins, clientVars, dropVars
<1>3. ASSUME NEW p \in Procs, Collect(p) \/ Deduct(p) PROVE Exclusive'
  <2>1. \A x \in Games : Starters(x)' = Starters(x)
    BY <1>3, Insiders DEF Collect, Deduct, StartPC, clientVars
  <2>. QED
    BY <1>3, <2>1 DEF Collect, Deduct, roomVars, dropVars, Exclusive, StartExclusive
<1>4. ASSUME NEW p \in Procs, Revert(p) \/ Launch(p) PROVE Exclusive'
  <2>1. PICK r \in Games : r = RoomOf(p)
    BY <1>4, RoomOfTyped DEF Revert, Launch, StartPC
  <2>2. Starters(r) = {p} /\ drops[r] = "none" /\ status[r] = "active"
    BY <1>4, <2>1 DEF Revert, Launch, Starters, StartPC, Exclusive, StartExclusive
  <2>3. \A x \in Games : Starters(x)' = Starters(x) \ {p}
    BY <1>4, Leaving DEF Revert, Launch, Exit, StartPC, clientVars
  <2>4. \A x \in Games : x # r => drops'[x] = drops[x] /\ status'[x] = status[x]
    BY <1>4, <2>1 DEF Revert, Launch, DropTypeOK, RoomTypeOK, roomVars, dropVars
  <2>5. status'[r] = "lobby" => drops'[r] = "none"
    BY <1>4, <2>2 DEF Revert, Launch, roomVars, dropVars
  <2>6. Starters(r)' = {} /\ \A x \in Games \ {r} : Starters(x)' \subseteq Starters(x)
    BY <2>2, <2>3
  <2>. QED
    BY <2>4, <2>5, <2>6 DEF Exclusive, StartExclusive
<1>5. ASSUME NEW g \in Games, BallDrops(g) PROVE Exclusive'
  BY <1>5, DropsExclusive
  DEF BallDrops, DropBall, ScanClients, Judge, Settle, RecordWinner, CountPlayers, CreditWin, roomVars, clientVars
<1>. QED
  BY <1>1, <1>2, <1>3, <1>4, <1>5, Steps DEF StartGame

\* The timer and the readers never start a game together, nor while balls drop.
THEOREM StartIsExclusive == Spec => []StartExclusive
<1>1. Init => Exclusive
  BY Goroutines DEF Init, Exclusive, StartExclusive, Starters, StartPC
<1>2. Typed /\ Exclusive /\ [Next]_vars => Exclusive'
  BY ExclusiveStep
<1>3. Exclusive => StartExclusive
  BY DEF Exclusive
<1>. QED
  BY <1>1, <1>2, <1>3, TypedInv, PTL DEF Spec

-----------------------------------------------------------------------------
(* Stakes and prizes. *)

\* What each step does to the stakes: a commit in startGame adds one for every user of
\* the batch, in its room, whether startGame knows of it or not.
LEMMA StakesMove ==
  ASSUME Typed, NEW p \in Procs, Deduct(p)
  PROVE  /\ RoomOf(p) \in Games /\ batch[p] \in SUBSET Users
         /\ pc[p] \in StartPC /\ pc'[p] \in {"launch", "revert"}
         /\ \A q \in Procs \ {p} : pc'[q] = pc[q]
         /\ \A g \in Games \ {RoomOf(p)} : stakes'[g] = stakes[g]
         /\ \/ UNCHANGED stakes /\ pc'[p] = "revert"
            \/ \A u \in Users : stakes'[RoomOf(p)][u] =
                                  IF u \in batch[p] THEN stakes[RoomOf(p)][u] + 1
                                                    ELSE stakes[RoomOf(p)][u]
         /\ \/ UNCHANGED lost /\ (RollBack(p) \/ pc'[p] = "launch")
            \/ LostReply /\ pc'[p] = "revert" /\ lost' = [lost EXCEPT ![RoomOf(p)] = @ + 1]
<1>. USE DEF Typed, TypeOK
<1>1. RoomOf(p) \in Games /\ batch[p] \in SUBSET Users /\ pc[p] \in StartPC
  BY RoomOfTyped DEF Deduct, ProcTypeOK, StartPC
<1>2. \/ Goto(p, "launch") /\ CommitStart(p)
      \/ Goto(p, "revert") /\ CommitStart(p)
      \/ Goto(p, "revert") /\ RollBack(p)
  BY DEF Deduct
<1>3. pc'[p] \in {"launch", "revert"} /\ \A q \in Procs \ {p} : pc'[q] = pc[q]
  BY <1>2, Moves
<1>4. \/ UNCHANGED lost /\ (RollBack(p) \/ pc'[p] = "launch")
      \/ LostReply /\ pc'[p] = "revert" /\ lost' = [lost EXCEPT ![RoomOf(p)] = @ + 1]
  BY Moves DEF Deduct, RollBack, moneyVars
<1>5. CASE CommitStart(p)
  BY <1>1, <1>3, <1>4, <1>5 DEF CommitStart, Charge, MoneyTypeOK
<1>6. CASE Goto(p, "revert") /\ RollBack(p)
  BY <1>1, <1>3, <1>4, <1>6, Moves DEF RollBack, moneyVars
<1>. QED
  BY <1>2, <1>5, <1>6

\* Who has paid for a game has paid for it ever after.
LEMMA PayersGrow ==
  ASSUME Typed, [Next]_vars
  PROVE  \A g \in Games : Payers(g) \subseteq Payers(g)'
<1>. USE DEF Typed, TypeOK
<1>1. CASE UNCHANGED stakes
  BY <1>1 DEF Payers
<1>2. ASSUME NEW p \in Procs, Deduct(p) PROVE \A g \in Games : Payers(g) \subseteq Payers(g)'
  <2>. SUFFICES ASSUME NEW g \in Games, NEW u \in Users PROVE stakes[g][u] > 0 => stakes'[g][u] > 0
    BY DEF Payers
  <2>1. CASE g # RoomOf(p)
    BY <1>2, <2>1, StakesMove
  <2>2. CASE g = RoomOf(p)
    <3>1. stakes[g] \in [Users -> Nat]
      BY DEF MoneyTypeOK
    <3>2. stakes'[g][u] \in {stakes[g][u], stakes[g][u] + 1}
      BY <1>2, <2>2, StakesMove
    <3>. QED
      BY <3>1, <3>2
  <2>. QED
    BY <2>1, <2>2
<1>. QED
  BY <1>1, <1>2, Steps
  DEF Quiet, Begins, StartGame, BallDrops, Collect, Revert, Launch, DropBall, ScanClients, Judge,
      Settle, RecordWinner, CountPlayers, CreditWin, dbVars, moneyVars

\* Who is ready for a game stays ready.
LEMMA ReadyGrows ==
  ASSUME Typed, [Next]_vars
  PROVE  \A g \in Games : Ready(g) \subseteq Ready(g)'
<1>1. CASE UNCHANGED selected
  BY <1>1 DEF Ready
<1>. QED
  BY <1>1, Steps
  DEF Quiet, Begins, StartGame, BallDrops, Collect, Deduct, Revert, Launch, DropBall, ScanClients, Judge,
      Settle, RecordWinner, CountPlayers, CreditWin, roomVars

\* Where a goroutine that is in startGame after a step was before it.
LEMMA StartMoves ==
  ASSUME Typed, [Next]_vars, NEW q \in Procs, pc'[q] \in StartPC
  PROVE  /\ RoomOf(q) \in Games /\ RoomOf(q)' = RoomOf(q)
         /\ \/ pc'[q] = pc[q] /\ batch'[q] = batch[q]
            \/ pc'[q] = "collect" /\ Begins(q)
            \/ pc'[q] = "deduct" /\ Collect(q)
            \/ pc'[q] \in {"launch", "revert"} /\ Deduct(q)
<1>. USE DEF Typed, TypeOK
<1>1. ASSUME Quiet
      PROVE  pc'[q] = pc[q] /\ batch'[q] = batch[q] /\ RoomOf(q)' = RoomOf(q)
  BY <1>1 DEF Quiet
<1>2. ASSUME NEW p \in Procs, Begins(p)
      PROVE  /\ UNCHANGED <<gameID, batch>>
             /\ pc'[p] = "collect" /\ \A r \in Procs \ {p} : pc'[r] = pc[r]
  BY <1>2, Moves DEF Begins, BeginStart, clientVars
<1>3. ASSUME NEW p \in Procs, Collect(p)
      PROVE  /\ UNCHANGED gameID
             /\ pc'[p] = "deduct" /\ \A r \in Procs \ {p} : pc'[r] = pc[r] /\ batch'[r] = batch[r]
  BY <1>3, Moves DEF Collect, ProcTypeOK, clientVars
<1>4. ASSUME NEW p \in Procs, Deduct(p)
      PROVE  /\ UNCHANGED <<gameID, batch>>
             /\ pc'[p] \in {"launch", "revert"} /\ \A r \in Procs \ {p} : pc'[r] = pc[r]
  BY <1>4, StakesMove DEF Deduct, clientVars
<1>5. ASSUME NEW p \in Procs, Revert(p) \/ Launch(p)
      PROVE  /\ UNCHANGED <<gameID, batch>>
             /\ pc'[p] \notin StartPC /\ \A r \in Procs \ {p} : pc'[r] = pc[r]
  BY <1>5, Moves DEF Revert, Launch, Exit, StartPC, clientVars
<1>6. ASSUME NEW g \in Games, BallDrops(g)
      PROVE  UNCHANGED <<gameID, batch, pc>>
  BY <1>6 DEF BallDrops, DropBall, ScanClients, Judge, Settle, RecordWinner, CountPlayers, CreditWin,
       clientVars
<1>7. RoomOf(q)' = RoomOf(q)
  BY <1>1, <1>2, <1>3, <1>4, <1>5, <1>6, Steps DEF StartGame, RoomOf, Quiet
<1>8. \/ pc'[q] = pc[q] /\ batch'[q] = batch[q]
      \/ pc'[q] = "collect" /\ Begins(q)
      \/ pc'[q] = "deduct" /\ Collect(q)
      \/ pc'[q] \in {"launch", "revert"} /\ Deduct(q)
  BY <1>1, <1>2, <1>3, <1>4, <1>5, <1>6, Steps DEF StartGame
<1>9. RoomOf(q) \in Games
  <2>1. pc[q] \in StartPC => RoomOf(q) \in Games
    BY RoomOfTyped
  <2>. QED
    BY <1>8, <2>1 DEF Begins, Collect, Deduct, StartPC
<1>. QED
  BY <1>7, <1>8, <1>9

\* How balls start, and that they stop nowhere they could start again.
LEMMA DropsMove ==
  ASSUME Typed, [Next]_vars, NEW g \in Games
  PROVE  /\ drops'[g] # "none" => \/ drops[g] # "none"
                                  \/ \E p \in Procs : RoomOf(p) = g /\ Launch(p)
         /\ drops'[g] = "none" => drops[g] = "none" /\ called'[g] = called[g]
<1>. USE DEF Typed, TypeOK
<1>1. CASE UNCHANGED <<drops, called>>
  BY <1>1
<1>2. ASSUME NEW p \in Procs, Launch(p)
      PROVE  /\ drops'[g] = IF g = RoomOf(p) THEN "drop" ELSE drops[g]
             /\ UNCHANGED called
  BY <1>2 DEF Launch, DropTypeOK, roomVars
<1>3. ASSUME NEW x \in Games, BallDrops(x)
      PROVE  /\ drops[x] # "none" /\ drops'[x] # "none"
             /\ x # g => drops'[g] = drops[g] /\ called'[g] = called[g]
  BY <1>3 DEF BallDrops, DropBall, ScanClients, Judge, Settle, RecordWinner, CountPlayers, CreditWin, DropTo,
              DropTypeOK, RoomTypeOK, roomVars
<1>4. CASE \E x \in Games : BallDrops(x)
  BY <1>3, <1>4
<1>5. CASE \E p \in Procs : Launch(p)
  BY <1>2, <1>5
<1>. QED
  BY <1>1, <1>4, <1>5, Steps
  DEF Quiet, Begins, StartGame, Collect, Deduct, Revert, roomVars, dropVars

\* Every step keeps who is being charged, and who has been, among the ready players.
LEMMA ChargedStep ==
  ASSUME Typed, Charged, [Next]_vars
  PROVE  Charged'
<1>. USE DEF Typed, TypeOK
<1>1. ASSUME NEW q \in Procs, pc'[q] = "deduct"
      PROVE  batch'[q] \subseteq Ready(RoomOf(q))'
  <2>1. PICK r \in Games : r = RoomOf(q)
    BY <1>1, StartMoves DEF StartPC
  <2>2. r = RoomOf(q)'
    BY <1>1, <2>1, StartMoves DEF StartPC
  <2>3. batch'[q] \subseteq Ready(r)
    BY <1>1, <2>1, StartMoves DEF StartPC, Collect, Charged, ProcTypeOK
  <2>4. Ready(r) \subseteq Ready(r)'
    BY ReadyGrows
  <2>. QED
    BY <2>2, <2>3, <2>4 DEF Ready
<1>2. ASSUME NEW g \in Games
      PROVE  Payers(g)' \subseteq Ready(g)'
  <2>1. Ready(g) \subseteq Ready(g)' /\ Payers(g) \subseteq Ready(g)
    BY ReadyGrows DEF Charged, ChargedHadCard
  <2>2. CASE UNCHANGED stakes
    BY <2>1, <2>2 DEF Payers
  <2>3. ASSUME NEW p \in Procs, Deduct(p)
        PROVE  Payers(g)' \subseteq Ready(g)
    <3>1. pc[p] = "deduct"
      BY <2>3 DEF Deduct
    <3>2. Payers(g)' \subseteq Payers(g) \cup (IF g = RoomOf(p) THEN batch[p] ELSE {})
      BY <2>3, StakesMove DEF Payers
    <3>. QED
      BY <2>1, <3>1, <3>2 DEF Charged
  <2>. QED
    BY <2>1, <2>2, <2>3, Steps
    DEF Quiet, Begins, StartGame, BallDrops, Collect, Revert, Launch, DropBall, ScanClients, Judge,
        Settle, RecordWinner, CountPlayers, CreditWin, dbVars, moneyVars
<1>. QED
  BY <1>1, <1>2 DEF Charged, ChargedHadCard

\* The stake is only ever taken from players who have selected a card.
THEOREM OnlyReadyPlayersPay == Spec => []ChargedHadCard
<1>1. Init => Charged
  BY DEF Init, Charged, ChargedHadCard, Payers
<1>2. Typed /\ Charged /\ [Next]_vars => Charged'
  BY ChargedStep
<1>3. Charged => ChargedHadCard
  BY DEF Charged
<1>. QED
  BY <1>1, <1>2, <1>3, TypedInv, PTL DEF Spec

\* Every step keeps the quorum that took the room out of the lobby.
LEMMA QuorateStep ==
  ASSUME Typed, Quorate, [Next]_vars
  PROVE  Quorate'
<1>. USE DEF Typed, TypeOK
<1>1. \A g \in Games : /\ Cardinality(Ready(g)) <= Cardinality(Ready(g)')
                       /\ Cardinality(Payers(g)) <= Cardinality(Payers(g)')
                       /\ {Cardinality(Ready(g)), Cardinality(Ready(g)'),
                           Cardinality(Payers(g)), Cardinality(Payers(g)')} \subseteq Nat
  BY ReadyGrows, PayersGrow, Counting, CountingMonotone DEF Ready, Payers
<1>2. ASSUME NEW q \in Procs, pc'[q] = "collect"
      PROVE  Enough(RoomOf(q))'
  <2>1. PICK r \in Games : r = RoomOf(q)
    BY <1>2, StartMoves DEF StartPC
  <2>2. r = RoomOf(q)'
    BY <1>2, <2>1, StartMoves DEF StartPC
  <2>3. Enough(r)
    BY <1>2, <2>1, StartMoves DEF StartPC, Begins, Quorate
  <2>4. Enough(RoomOf(q))' = (Cardinality(Ready(r)') >= MinPlayers)
    BY <2>2 DEF Enough, Ready
  <2>. QED
    BY <1>1, <2>3, <2>4, RoomAssumption DEF Enough
<1>3. ASSUME NEW q \in Procs, pc'[q] = "deduct"
      PROVE  Cardinality(batch'[q]) >= MinPlayers
  BY <1>3, StartMoves DEF StartPC, Collect, Enough, Quorate, ProcTypeOK
<1>4. ASSUME NEW q \in Procs, pc'[q] = "launch"
      PROVE  Cardinality(Payers(RoomOf(q))') >= MinPlayers
  <2>1. PICK r \in Games : r = RoomOf(q)
    BY <1>4, StartMoves DEF StartPC
  <2>2. r = RoomOf(q)'
    BY <1>4, <2>1, StartMoves DEF StartPC
  <2>5. Payers(RoomOf(q))' = Payers(r)'
    BY <2>2 DEF Payers
  <2>3. CASE pc[q] = "launch"
    <3>1. Cardinality(Payers(r)) >= MinPlayers
      BY <2>1, <2>3 DEF Quorate
    <3>. QED
      BY <1>1, <2>5, <3>1, RoomAssumption
  <2>4. CASE Deduct(q)
    <3>1. batch[q] \subseteq Payers(r)' /\ Cardinality(batch[q]) >= MinPlayers
      <4>1. \A u \in batch[q] : stakes'[r][u] = stakes[r][u] + 1
        BY <1>4, <2>1, <2>4, StakesMove
      <4>2. \A u \in batch[q] : u \in Users /\ stakes[r][u] \in Nat
        <5>1. batch[q] \subseteq Users
          BY DEF ProcTypeOK
        <5>2. stakes[r] \in [Users -> Nat]
          BY DEF MoneyTypeOK
        <5>. QED
          BY <5>1, <5>2
      <4>3. batch[q] \subseteq Payers(r)'
        BY <4>1, <4>2 DEF Payers
      <4>. QED
        BY <2>4, <4>3 DEF Quorate, Deduct
    <3>2. Payers(r)' \in SUBSET Users
      BY DEF Payers
    <3>3. Cardinality(batch[q]) <= Cardinality(Payers(r)')
      BY <3>1, <3>2, CountingMonotone
    <3>4. Cardinality(batch[q]) \in Nat /\ Cardinality(Payers(r)') \in Nat
      BY <3>1, <3>2, Counting
    <3>. QED
      BY <2>5, <3>1, <3>3, <3>4, RoomAssumption
  <2>. QED
    BY <1>4, <2>3, <2>4, StartMoves DEF StartPC
<1>5. ASSUME NEW g \in Games
      PROVE  /\ drops'[g] # "none" => Cardinality(Payers(g)') >= MinPlayers
             /\ drops'[g] = "none" => called'[g] = {}
  <2>1. drops'[g] # "none" => Cardinality(Payers(g)) >= MinPlayers
    BY DropsMove DEF Quorate, Launch
  <2>. QED
    BY <1>1, <2>1, DropsMove, RoomAssumption DEF Quorate
<1>. QED
  BY <1>2, <1>3, <1>4, <1>5 DEF Quorate

\* No ball falls in a game that fewer than MinPlayers have paid for.
THEOREM PlayHasQuorum == Spec => []PlayNeedsQuorum
<1>1. Init => Quorate
  BY Goroutines DEF Init, Quorate, Procs
<1>2. Typed /\ Quorate /\ [Next]_vars => Quorate'
  BY QuorateStep
<1>3. Quorate => PlayNeedsQuorum
  BY DEF Quorate, PlayNeedsQuorum
<1>. QED
  BY <1>1, <1>2, <1>3, TypedInv, PTL DEF Spec

\* What the ball goroutine leaves alone, in its own room and in the others.
LEMMA BallsMove ==
  ASSUME Typed, NEW g \in Games, BallDrops(g)
  PROVE  /\ UNCHANGED <<pc, gameID, dbPrize, stakes>>
         /\ \/ UNCHANGED status
            \/ Settle(g) /\ status' = [status EXCEPT ![g] = "resolution"]
         /\ \/ UNCHANGED dbStatus
            \/ dbStatus' = [dbStatus EXCEPT ![g] = "resolution"] /\ drops[g] = "record"
         /\ \/ UNCHANGED wins
            \/ CreditWin(g)
         /\ \A x \in Games \ {g} : drops'[x] = drops[x]
         /\ drops[g] # "none"
  BY DEF Typed, TypeOK, BallDrops, DropBall, ScanClients, Judge, Settle, RecordWinner, CountPlayers,
       CreditWin, DropTo,
         DropTypeOK, roomVars, clientVars, dbVars, sessionVars, moneyVars

\* The stakes of CommitStart and RollBack leave the prizes alone.
LEMMA DeductKeepsWins ==
  ASSUME NEW p \in Procs, Deduct(p)
  PROVE  UNCHANGED <<wins, status, drops, counted>>
  BY DEF Deduct, CommitStart, RollBack, Charge, moneyVars, roomVars, dropVars

\* A resolved room stays resolved.
LEMMA ResolutionFinal ==
  ASSUME Typed, Exclusive, [Next]_vars, NEW g \in Games, status[g] = "resolution"
  PROVE  status'[g] = "resolution"
<1>. USE DEF Typed, TypeOK
<1>1. CASE UNCHANGED status
  BY <1>1
<1>2. ASSUME NEW p \in Procs, Begins(p) PROVE status'[g] = status[g]
  BY <1>2 DEF Begins, BeginStart, RoomTypeOK
<1>3. ASSUME NEW p \in Procs, Revert(p) PROVE status'[g] = status[g]
  <2>1. PICK r \in Games : r = RoomOf(p)
    BY <1>3, RoomOfTyped DEF Revert, StartPC
  <2>2. status[r] = "active"
    BY <1>3, <2>1 DEF Revert, Starters, StartPC, Exclusive, StartExclusive
  <2>. QED
    BY <1>3, <2>1, <2>2 DEF Revert, RoomTypeOK
<1>4. ASSUME NEW x \in Games, BallDrops(x) PROVE status'[g] = "resolution"
  BY <1>4, BallsMove DEF RoomTypeOK
<1>. QED
  BY <1>1, <1>2, <1>3, <1>4, Steps, DeductKeepsWins
       DEF Quiet, StartGame, Collect, Launch, roomVars

\* When the prize is counted there are players to count.
LEMMA SomeoneCounted ==
  ASSUME Typed, Charged, Quorate, NEW g \in Games, drops[g] # "none"
  PROVE  Cardinality(Ready(g)) \in Nat \ {0}
<1>1. Ready(g) \in SUBSET Users /\ Payers(g) \in SUBSET Ready(g)
  BY DEF Ready, Charged, ChargedHadCard
<1>2. Cardinality(Payers(g)) <= Cardinality(Ready(g))
  BY <1>1, CountingMonotone
<1>3. Cardinality(Ready(g)) \in Nat /\ Cardinality(Payers(g)) \in Nat
  BY <1>1, Counting
<1>. QED
  BY <1>2, <1>3, RoomAssumption DEF Quorate

\* Every step keeps the prizes: one at most, and none before the resolution.
LEMMA PrizesStep ==
  ASSUME Typed, Exclusive, Charged, Quorate, Prizes, [Next]_vars
  PROVE  Prizes'
<1>. USE DEF Typed, TypeOK
<1>. SUFFICES ASSUME NEW g \in Games
              PROVE  /\ status'[g] # "resolution" => wins'[g] = <<>> /\ counted'[g] = 0
                     /\ drops'[g] \in {"record", "count", "credit"}
                           => status'[g] = "resolution" /\ wins'[g] = <<>>
                     /\ drops'[g] \in {"record", "count"} => counted'[g] = 0
                     /\ drops'[g] = "credit" => counted'[g] > 0
                     /\ Len(wins'[g]) <= 1
  BY DEF Prizes
<1>1. status[g] = "resolution" => status'[g] = "resolution"
  BY ResolutionFinal
<1>2. CASE /\ wins'[g] = wins[g] /\ counted'[g] = counted[g]
           /\ drops'[g] = drops[g] \/ drops'[g] \notin {"record", "count", "credit"}
  BY <1>1, <1>2 DEF Prizes
<1>3. ASSUME NEW x \in Games, x # g, BallDrops(x)
      PROVE  wins'[g] = wins[g] /\ drops'[g] = drops[g] /\ counted'[g] = counted[g]
  <2>1. wins'[g] = wins[g] /\ drops'[g] = drops[g]
    BY <1>3, BallsMove DEF CreditWin, MoneyTypeOK, moneyVars
  <2>2. counted'[g] = counted[g]
    BY <1>3 DEF BallDrops, DropBall, ScanClients, Judge, Settle, RecordWinner, CountPlayers, CreditWin,
                DropTypeOK
  <2>. QED
    BY <2>1, <2>2
<1>4. CASE DropBall(g) \/ ScanClients(g) \/ Judge(g)
  <2>1. wins' = wins /\ counted' = counted /\ drops'[g] \notin {"record", "count", "credit"}
    BY <1>4 DEF DropBall, ScanClients, Judge, DropTo, DropTypeOK, dbVars, moneyVars
  <2>. QED
    BY <1>2, <2>1
<1>5. CASE Settle(g)
  <2>1. wins' = wins /\ counted' = counted /\ status'[g] = "resolution"
    BY <1>5 DEF Settle, RoomTypeOK, dbVars, moneyVars
  <2>2. drops'[g] = "record" => status[g] # "resolution"
    BY <1>5 DEF Settle, DropTo, DropTypeOK
  <2>3. drops'[g] \in {"record", "drop"}
    BY <1>5 DEF Settle, DropTo, DropTypeOK
  <2>. QED
    BY <2>1, <2>2, <2>3 DEF Prizes
<1>6. CASE RecordWinner(g)
  <2>1. drops[g] = "record" /\ drops'[g] = "count" /\ wins' = wins /\ counted' = counted
    BY <1>6 DEF RecordWinner, DropTo, DropTypeOK, moneyVars
  <2>. QED
    BY <1>1, <2>1 DEF Prizes
<1>9. CASE CountPlayers(g)
  <2>1. /\ drops[g] = "count" /\ drops'[g] = "credit" /\ wins' = wins
        /\ counted'[g] = Cardinality(Ready(g))
    BY <1>9 DEF CountPlayers, DropTo, DropTypeOK, dbVars, moneyVars
  <2>2. counted'[g] > 0
    BY <2>1, SomeoneCounted
  <2>. QED
    BY <1>1, <2>1, <2>2 DEF Prizes
<1>7. CASE CreditWin(g)
  <2>1. wins[g] = <<>> /\ status'[g] = "resolution"
    BY <1>1, <1>7 DEF CreditWin, Prizes
  <2>2. drops'[g] = "drop"
    BY <1>7 DEF CreditWin, DropTo, DropTypeOK
  <2>3. wins'[g] = wins[g] \/ \E w : wins'[g] = Append(wins[g], w)
    BY <1>7 DEF CreditWin, MoneyTypeOK, moneyVars
  <2>4. Len(<<>>) <= 1 /\ \A w : Len(Append(<<>>, w)) <= 1
    OBVIOUS
  <2>5. Len(wins'[g]) <= 1
    <3>1. CASE wins'[g] = wins[g]
      BY <2>1, <2>4, <3>1
    <3>2. ASSUME NEW w, wins'[g] = Append(wins[g], w) PROVE Len(wins'[g]) <= 1
      <4>1. wins'[g] = Append(<<>>, w)
        BY <2>1, <3>2
      <4>. QED
        BY <2>4, <4>1
    <3>. QED
      BY <2>3, <3>1, <3>2
  <2>. QED
    BY <2>1, <2>2, <2>5
<1>8. ASSUME NEW p \in Procs, Launch(p)
      PROVE  /\ wins'[g] = wins[g] /\ counted'[g] = counted[g]
             /\ drops'[g] = drops[g] \/ drops'[g] = "drop"
  BY <1>8 DEF Launch, DropTypeOK, dbVars, moneyVars
<1>. QED
  BY <1>2, <1>3, <1>4, <1>5, <1>6, <1>7, <1>8, <1>9, Steps, DeductKeepsWins
  DEF Quiet, Begins, StartGame, BallDrops, Collect, Revert, dropVars, dbVars, moneyVars

\* A game pays one prize at most, whoever calls resolveGame and how often.
THEOREM OnePrize == Spec => []PrizeOnce
<1>1. Init => Exclusive /\ Charged /\ Quorate /\ Prizes
  <2>1. Init => Exclusive /\ Prizes
    BY Goroutines DEF Init, Exclusive, StartExclusive, Starters, StartPC, Prizes
  <2>2. Init => Quorate
    BY Goroutines DEF Init, Quorate, Procs
  <2>3. Init => Charged
    BY DEF Init, Charged, ChargedHadCard, Payers
  <2>. QED
    BY <2>1, <2>2, <2>3
<1>2. Typed /\ Exclusive /\ Charged /\ Quorate /\ Prizes /\ [Next]_vars
        => Exclusive' /\ Charged' /\ Quorate' /\ Prizes'
  BY ExclusiveStep, ChargedStep, QuorateStep, PrizesStep
<1>3. Prizes => PrizeOnce
  BY DEF Prizes, PrizeOnce
<1>. QED
  BY <1>1, <1>2, <1>3, TypedInv, PTL DEF Spec

-----------------------------------------------------------------------------
(* Stakes and rows, whatever replies are lost. *)

\* Rooms other than that of the goroutine that moves keep who is starting them, and where.
LEMMA UnstartedElsewhere ==
  ASSUME Typed, NEW p \in Procs, NEW g \in Games, g # RoomOf(p), UNCHANGED gameID,
         \A q \in Procs \ {p} : pc'[q] = pc[q], status'[g] = status[g]
  PROVE  Unstarted(g)' <=> Unstarted(g)
  BY DEF Unstarted, StartAt, Starters, RoomOf

\* Only a commit that is reported as a failure is counted among the lost ones.
LEMMA LostMoves ==
  ASSUME Typed, [Next]_vars, NEW g \in Games
  PROVE  /\ lost[g] \in Nat
         /\ \/ lost'[g] = lost[g]
            \/ /\ lost'[g] = lost[g] + 1
               /\ \E p \in Procs : RoomOf(p) = g /\ Deduct(p) /\ pc'[p] = "revert"
<1>. USE DEF Typed, TypeOK
<1>1. lost \in [Games -> Nat]
  BY DEF MoneyTypeOK
<1>2. CASE UNCHANGED lost
  BY <1>1, <1>2
<1>3. ASSUME NEW p \in Procs, Deduct(p)
      PROVE  \/ lost'[g] = lost[g]
             \/ RoomOf(p) = g /\ pc'[p] = "revert" /\ lost'[g] = lost[g] + 1
  <2>1. \/ UNCHANGED lost
        \/ pc'[p] = "revert" /\ lost' = [lost EXCEPT ![RoomOf(p)] = @ + 1]
    BY <1>3, StakesMove
  <2>. QED
    BY <1>1, <2>1
<1>. QED
  BY <1>1, <1>2, <1>3, Steps
  DEF Quiet, Begins, StartGame, BallDrops, Collect, Revert, Launch, DropBall, ScanClients, Judge,
      Settle, RecordWinner, CountPlayers, CreditWin, dbVars, moneyVars

\* A game is unstarted after a step only if it was before: a start that has committed
\* is not taken back.
LEMMA UnstartedBack ==
  ASSUME Typed, Exclusive, [Next]_vars, NEW g \in Games, Unstarted(g)'
  PROVE  Unstarted(g)
<1>. USE DEF Typed, TypeOK
<1>1. CASE Quiet
  BY <1>1 DEF Quiet, Unstarted, StartAt, StartPC
<1>2. ASSUME NEW p \in Procs, Begins(p) PROVE Unstarted(g)
  <2>1. UNCHANGED gameID /\ pc'[p] = "collect" /\ \A q \in Procs \ {p} : pc'[q] = pc[q]
    BY <1>2, Moves DEF Begins, BeginStart, clientVars
  <2>2. CASE g # RoomOf(p)
    <3>1. status'[g] = status[g]
      BY <1>2, <2>2 DEF Begins, BeginStart, RoomTypeOK
    <3>. QED
      BY <2>1, <2>2, <3>1, UnstartedElsewhere
  <2>. QED
    BY <1>2, <2>2 DEF Begins, Unstarted
<1>3. ASSUME NEW p \in Procs, StartGame(p) PROVE Unstarted(g)
  <2>1. PICK r \in Games : r = RoomOf(p)
    BY <1>3, RoomOfTyped DEF StartGame, Collect, Deduct, Revert, Launch, StartPC
  <2>2. UNCHANGED gameID /\ \A q \in Procs \ {p} : pc'[q] = pc[q]
    BY <1>3, Moves, StakesMove DEF StartGame, Collect, Deduct, Revert, Launch, clientVars
  <2>3. CASE g # r
    <3>1. status'[g] = status[g]
      BY <1>3, <2>1, <2>3 DEF StartGame, Collect, Deduct, Revert, Launch, RoomTypeOK, roomVars
    <3>. QED
      BY <2>1, <2>2, <2>3, <3>1, UnstartedElsewhere
  <2>4. CASE g = r /\ pc[p] # "launch"
    BY <1>3, <2>1, <2>4 DEF StartGame, Collect, Deduct, Revert, Launch, Unstarted, StartAt
  <2>5. CASE g = r /\ pc[p] = "launch"
    <3>1. Launch(p)
      BY <1>3, <2>5 DEF StartGame, Collect, Deduct, Revert
    <3>2. Starters(r) = {p} /\ status[r] = "active"
      BY <2>1, <2>5 DEF Starters, StartPC, Exclusive, StartExclusive
    <3>3. Starters(r)' = {}
      BY <3>1, <3>2, Leaving DEF Launch, Exit, StartPC, clientVars
    <3>4. status'[r] = "active"
      BY <3>1, <3>2 DEF Launch, roomVars
    <3>. QED
      BY <2>5, <3>3, <3>4 DEF Unstarted, StartAt, Starters, StartPC
  <2>. QED
    BY <2>3, <2>4, <2>5
<1>4. ASSUME NEW x \in Games, BallDrops(x) PROVE Unstarted(g)
  <2>1. Starters(g)' = Starters(g) /\ UNCHANGED pc
    BY <1>4, BallsMove, Standing
  <2>2. status'[g] \in {status[g], "resolution"}
    BY <1>4, BallsMove DEF RoomTypeOK
  <2>. QED
    BY <1>4, <2>1, <2>2, BallsMove DEF Unstarted, StartAt, RoomOf
<1>. QED
  BY <1>1, <1>2, <1>3, <1>4, Steps

\* What is known of the room of a goroutine that takes the stakes.
LEMMA AtDeduct ==
  ASSUME Typed, Exclusive, NEW p \in Procs, Deduct(p), NEW g \in Games, g = RoomOf(p)
  PROVE  /\ Starters(g) = {p} /\ status[g] = "active" /\ drops[g] = "none" /\ Unstarted(g)
         /\ pc'[p] = "launch" => ~Unstarted(g)'
<1>1. p \in Starters(g) /\ pc[p] = "deduct"
  BY DEF Deduct, Starters, StartPC
<1>2. Starters(g) = {p} /\ status[g] = "active" /\ drops[g] = "none"
  BY <1>1 DEF Exclusive, StartExclusive
<1>3. Unstarted(g)
  BY <1>1 DEF Unstarted, StartAt
<1>4. ASSUME pc'[p] = "launch" PROVE ~Unstarted(g)'
  <2>1. UNCHANGED <<gameID, status>> /\ \A q \in Procs \ {p} : pc'[q] = pc[q]
    BY StakesMove DEF Deduct, clientVars, roomVars
  <2>2. Starters(g)' = {p}
    BY <1>2, <1>4, <2>1 DEF Starters, RoomOf, StartPC
  <2>. QED
    BY <1>2, <1>4, <2>1, <2>2 DEF Unstarted, StartAt, Starters, StartPC
<1>. QED
  BY <1>2, <1>3, <1>4

\* Every step keeps the stakes within the lost commits, and one more once started.
LEMMA RepeatsStep ==
  ASSUME Typed, Exclusive, Repeats, [Next]_vars
  PROVE  Repeats'
<1>. USE DEF Typed, TypeOK
<1>. SUFFICES ASSUME NEW g \in Games, NEW u \in Users
              PROVE  stakes'[g][u] <= IF Unstarted(g)' THEN lost'[g] ELSE 1 + lost'[g]
  BY DEF Repeats
<1>1. lost[g] \in Nat /\ lost'[g] \in {lost[g], lost[g] + 1} /\ stakes[g][u] \in Nat
  BY LostMoves DEF MoneyTypeOK
<1>2. stakes[g][u] <= IF Unstarted(g) THEN lost[g] ELSE 1 + lost[g]
  BY DEF Repeats
<1>3. Unstarted(g)' => Unstarted(g)
  BY UnstartedBack
<1>4. CASE stakes'[g][u] = stakes[g][u]
  BY <1>1, <1>2, <1>3, <1>4
<1>5. ASSUME NEW p \in Procs, Deduct(p), stakes'[g][u] # stakes[g][u]
      PROVE  stakes'[g][u] <= IF Unstarted(g)' THEN lost'[g] ELSE 1 + lost'[g]
  <2>1. g = RoomOf(p) /\ stakes'[g][u] = stakes[g][u] + 1
    BY <1>5, StakesMove
  <2>2. stakes[g][u] <= lost[g]
    BY <1>2, <1>5, <2>1, AtDeduct
  <2>3. CASE pc'[p] = "launch"
    BY <1>1, <1>5, <2>1, <2>2, <2>3, AtDeduct
  <2>4. CASE pc'[p] = "revert"
    <3>1. ~RollBack(p)
      BY <1>5 DEF RollBack, moneyVars
    <3>2. lost' = [lost EXCEPT ![g] = @ + 1]
      BY <1>5, <2>1, <2>4, <3>1, StakesMove
    <3>3. lost'[g] = lost[g] + 1
      BY <3>2 DEF MoneyTypeOK
    <3>. QED
      BY <1>1, <2>1, <2>2, <3>3
  <2>. QED
    BY <1>5, <2>3, <2>4, StakesMove
<1>6. CASE UNCHANGED stakes
  BY <1>4, <1>6
<1>. QED
  BY <1>4, <1>5, <1>6, Steps
  DEF Quiet, Begins, StartGame, BallDrops, Collect, Revert, Launch, DropBall, ScanClients, Judge,
      Settle, RecordWinner, CountPlayers, CreditWin, dbVars, moneyVars

\* Every step keeps the pool that of one stake of everyone who has paid.
LEMMA PooledStep ==
  ASSUME Typed, Exclusive, Charged, Pooled, [Next]_vars
  PROVE  Pooled'
<1>. USE DEF Typed, TypeOK
<1>1. ASSUME NEW g \in Games, stakes'[g] # stakes[g]
      PROVE  \E p \in Procs : RoomOf(p) = g /\ Deduct(p)
  <2>1. ASSUME NEW p \in Procs, Deduct(p) PROVE RoomOf(p) = g
    BY <1>1, <2>1, StakesMove
  <2>. QED
    BY <1>1, <2>1, Steps
    DEF Quiet, Begins, StartGame, BallDrops, Collect, Revert, Launch, DropBall, ScanClients, Judge,
        Settle, RecordWinner, CountPlayers, CreditWin, dbVars, moneyVars
<1>2. ASSUME NEW g \in Games, dbStatus[g] # "lobby"
      PROVE  dbStatus'[g] # "lobby"
  <2>1. CASE UNCHANGED dbStatus
    BY <1>2, <2>1
  <2>2. ASSUME NEW p \in Procs, Deduct(p) PROVE dbStatus'[g] # "lobby"
    BY <1>2, <2>2 DEF Deduct, CommitStart, RollBack, sessionVars, SessionTypeOK
  <2>3. ASSUME NEW x \in Games, BallDrops(x) PROVE dbStatus'[g] # "lobby"
    BY <1>2, <2>3, BallsMove DEF SessionTypeOK
  <2>. QED
    BY <2>1, <2>2, <2>3, Steps
    DEF Quiet, Begins, StartGame, Collect, Revert, Launch, dbVars, sessionVars
<1>3. ASSUME NEW q \in Procs, pc'[q] = "deduct"
      PROVE  Payers(RoomOf(q))' \subseteq batch'[q]
  <2>1. PICK r \in Games : r = RoomOf(q) /\ r = RoomOf(q)'
    BY <1>3, StartMoves DEF StartPC
  <2>2. ASSUME NEW p \in Procs, RoomOf(p) = r, Deduct(p) PROVE FALSE
    <3>1. pc'[p] \in {"launch", "revert"} /\ \A x \in Procs \ {p} : pc'[x] = pc[x]
      BY <2>2, StakesMove
    <3>2. pc[q] = "deduct" /\ pc[p] = "deduct" /\ q # p
      BY <1>3, <2>2, <3>1 DEF Deduct
    <3>3. p \in Starters(r) /\ q \in Starters(r)
      BY <2>1, <2>2, <3>2 DEF Starters, StartPC
    <3>. QED
      BY <3>2, <3>3 DEF Exclusive, StartExclusive
  <2>3. Payers(RoomOf(q))' = Payers(r)
    BY <1>1, <2>1, <2>2 DEF Payers
  <2>4. Payers(r) \subseteq batch'[q]
    BY <1>3, <2>1, StartMoves DEF StartPC, Collect, Pooled, Charged, ChargedHadCard, ProcTypeOK
  <2>. QED
    BY <2>3, <2>4
<1>4. ASSUME NEW q \in Procs, pc'[q] = "launch"
      PROVE  dbStatus'[RoomOf(q)'] # "lobby"
  <2>1. PICK r \in Games : r = RoomOf(q) /\ r = RoomOf(q)'
    BY <1>4, StartMoves DEF StartPC
  <2>2. CASE pc[q] = "launch"
    BY <1>2, <2>1, <2>2 DEF Pooled
  <2>3. CASE Deduct(q)
    <3>1. CommitStart(q)
      BY <1>4, <2>3, Moves DEF Deduct
    <3>. QED
      BY <2>1, <3>1 DEF CommitStart, SessionTypeOK
  <2>. QED
    BY <1>4, <2>2, <2>3, StartMoves DEF StartPC
<1>5. ASSUME NEW g \in Games, drops'[g] # "none"
      PROVE  dbStatus'[g] # "lobby"
  BY <1>2, <1>5, DropsMove DEF Pooled, Launch
<1>6. ASSUME NEW g \in Games, dbStatus'[g] # "lobby"
      PROVE  dbPrize'[g] = PrizePool(g, Cardinality(Payers(g)'))
  <2>1. ASSUME dbStatus[g] # "lobby", stakes'[g] = stakes[g], dbPrize'[g] = dbPrize[g]
        PROVE  dbPrize'[g] = PrizePool(g, Cardinality(Payers(g)'))
    <3>1. Payers(g)' = Payers(g)
      BY <2>1 DEF Payers
    <3>. QED
      BY <2>1, <3>1 DEF Pooled
  <2>2. CASE UNCHANGED <<dbStatus, dbPrize, stakes>>
    BY <1>6, <2>1, <2>2
  <2>3. ASSUME NEW x \in Games, BallDrops(x)
        PROVE  dbPrize'[g] = PrizePool(g, Cardinality(Payers(g)'))
    <3>1. dbStatus[g] # "lobby"
      BY <1>6, <2>3, BallsMove DEF Pooled, SessionTypeOK
    <3>. QED
      BY <2>1, <2>3, <3>1, BallsMove
  <2>4. ASSUME NEW p \in Procs, Deduct(p)
        PROVE  dbPrize'[g] = PrizePool(g, Cardinality(Payers(g)'))
    <3>1. PICK r \in Games : r = RoomOf(p)
      BY <2>4, StakesMove
    <3>2. CASE RollBack(p)
      BY <1>6, <2>2, <3>2 DEF RollBack, sessionVars, moneyVars
    <3>3. CASE CommitStart(p) /\ g # r
      <4>1. dbStatus'[g] = dbStatus[g] /\ dbPrize'[g] = dbPrize[g] /\ stakes'[g] = stakes[g]
        BY <3>1, <3>3 DEF CommitStart, Charge, SessionTypeOK, MoneyTypeOK
      <4>. QED
        BY <1>6, <2>1, <4>1
    <3>4. CASE CommitStart(p) /\ g = r
      <4>1. batch[p] \in SUBSET Users /\ Payers(g) \subseteq batch[p]
        BY <2>4, <3>1, <3>4 DEF Deduct, Pooled, ProcTypeOK
      <4>2. stakes[g] \in [Users -> Nat]
        BY DEF MoneyTypeOK
      <4>3. stakes'[g] = [u \in Users |-> IF u \in batch[p] THEN stakes[g][u] + 1 ELSE stakes[g][u]]
        BY <3>1, <3>4 DEF CommitStart, Charge, MoneyTypeOK
      <4>4. \A u \in Users : stakes'[g][u] > 0 <=> u \in batch[p]
        BY <4>1, <4>2, <4>3 DEF Payers
      <4>5. Payers(g)' = batch[p]
        BY <4>1, <4>4 DEF Payers
      <4>6. dbPrize'[g] = PrizePool(g, Cardinality(batch[p]))
        BY <3>1, <3>4 DEF CommitStart, SessionTypeOK
      <4>. QED
        BY <4>5, <4>6
    <3>. QED
      BY <2>4, <3>2, <3>3, <3>4 DEF Deduct
  <2>. QED
    BY <2>2, <2>3, <2>4, Steps
    DEF Quiet, Begins, StartGame, Collect, Revert, Launch, dbVars, sessionVars, moneyVars
<1>7. \A g \in Games : PrizePool(g, Cardinality(Payers(g)))' = PrizePool(g, Cardinality(Payers(g)'))
  BY DEF PrizePool
<1>. QED
  BY <1>3, <1>4, <1>5, <1>6, <1>7 DEF Pooled

\* Every step keeps the session row behind the room.
LEMMA RowsStep ==
  ASSUME Typed, Exclusive, Prizes, Rows, [Next]_vars
  PROVE  Rows'
<1>. USE DEF Typed, TypeOK
<1>. SUFFICES ASSUME NEW g \in Games
              PROVE  /\ Unstarted(g)' /\ lost'[g] = 0 => dbStatus'[g] = "lobby"
                     /\ dbStatus'[g] = "resolution" => status'[g] = "resolution"
  BY DEF Rows
<1>1. (Unstarted(g)' => Unstarted(g)) /\ (lost'[g] = 0 => lost[g] = 0)
  BY UnstartedBack, LostMoves
<1>2. status[g] = "resolution" => status'[g] = "resolution"
  BY ResolutionFinal
<1>3. CASE dbStatus'[g] = dbStatus[g]
  BY <1>1, <1>2, <1>3 DEF Rows
<1>4. ASSUME NEW p \in Procs, Deduct(p), dbStatus'[g] # dbStatus[g]
      PROVE  /\ Unstarted(g)' /\ lost'[g] = 0 => dbStatus'[g] = "lobby"
             /\ dbStatus'[g] = "resolution" => status'[g] = "resolution"
  <2>1. ~RollBack(p)
    BY <1>4 DEF RollBack, sessionVars
  <2>2. CommitStart(p)
    BY <1>4, <2>1 DEF Deduct
  <2>3. g = RoomOf(p) /\ dbStatus'[g] = "active"
    BY <1>4, <2>2 DEF CommitStart, SessionTypeOK
  <2>4. pc'[p] = "launch" => ~Unstarted(g)'
    BY <1>4, <2>3, AtDeduct
  <2>5. pc'[p] = "revert" => lost'[g] = lost[g] + 1
    BY <1>4, <2>1, <2>3, StakesMove DEF MoneyTypeOK
  <2>6. lost[g] \in Nat
    BY LostMoves
  <2>. QED
    BY <1>4, <2>3, <2>4, <2>5, <2>6, StakesMove
<1>5. ASSUME NEW x \in Games, BallDrops(x), dbStatus'[g] # dbStatus[g]
      PROVE  /\ Unstarted(g)' /\ lost'[g] = 0 => dbStatus'[g] = "lobby"
             /\ dbStatus'[g] = "resolution" => status'[g] = "resolution"
  <2>1. dbStatus' = [dbStatus EXCEPT ![x] = "resolution"] /\ drops[x] = "record"
    BY <1>5, BallsMove
  <2>2. g = x
    BY <1>5, <2>1 DEF SessionTypeOK
  <2>3. status[g] = "resolution" /\ Starters(g) = {}
    BY <2>1, <2>2 DEF Prizes, Exclusive, StartExclusive
  <2>4. ~Unstarted(g)
    BY <2>3 DEF Unstarted, StartAt, Starters, StartPC
  <2>. QED
    BY <1>1, <1>2, <2>3, <2>4
<1>. QED
  BY <1>3, <1>4, <1>5, Steps
  DEF Quiet, Begins, StartGame, Collect, Revert, Launch, dbVars, sessionVars

\* Every step keeps the games that are being settled won by some board.
LEMMA JudgedStep ==
  ASSUME Typed, Judged, [Next]_vars
  PROVE  Judged'
<1>. USE DEF Typed, TypeOK
<1>. SUFFICES ASSUME NEW g \in Games, drops'[g] = "settle"
              PROVE  \E k \in Cards : Wins(k, called'[g])
  BY DEF Judged, Wins
<1>1. CASE drops'[g] = drops[g] /\ called'[g] = called[g]
  BY <1>1 DEF Judged
<1>2. CASE Judge(g)
  <2>1. PICK c \in Complete(g) : TRUE
    BY <1>2 DEF Judge, DropTo, DropTypeOK
  <2>2. cartela[c].card \in Cards /\ Wins(cartela[c].card, called[g])
    BY <2>1 DEF Complete, ClientTypeOK, DropTypeOK, Cartela
  <2>. QED
    BY <1>2, <2>2 DEF Judge, roomVars
<1>3. ASSUME NEW x \in Games, BallDrops(x), x # g
      PROVE  drops'[g] = drops[g] /\ called'[g] = called[g]
  BY <1>3 DEF BallDrops, DropBall, ScanClients, Judge, Settle, RecordWinner, CountPlayers, CreditWin, DropTo,
              DropTypeOK, RoomTypeOK, roomVars
<1>4. ASSUME BallDrops(g) PROVE Judge(g)
  BY <1>4 DEF BallDrops, DropBall, ScanClients, Settle, RecordWinner, CountPlayers, CreditWin, DropTo, DropTypeOK
<1>5. ASSUME NEW p \in Procs, Launch(p) PROVE drops'[g] = drops[g] /\ called'[g] = called[g]
  BY <1>5 DEF Launch, DropTypeOK, roomVars
<1>. QED
  BY <1>1, <1>2, <1>3, <1>4, <1>5, Steps
  DEF Quiet, Begins, StartGame, Collect, Deduct, Revert, roomVars, dropVars

\* All the parts of the inductive invariant, whatever replies are lost.
THEOREM Invariant == Spec => []IInv
<1>. DEFINE Rest == /\ Exclusive /\ Charged /\ Quorate
                    /\ Repeats /\ Pooled /\ Rows /\ Prizes /\ Judged
<1>1. Init => Rest
  <2>1. Init => Exclusive /\ Prizes
    BY Goroutines DEF Init, Exclusive, StartExclusive, Starters, StartPC, Prizes
  <2>2. Init => Quorate /\ Judged /\ Pooled
    BY Goroutines DEF Init, Quorate, Judged, Pooled, Procs
  <2>3. Init => Charged
    BY DEF Init, Charged, ChargedHadCard, Payers
  <2>4. Init => Repeats /\ Rows
    BY DEF Init, Repeats, Rows
  <2>. QED
    BY <2>1, <2>2, <2>3, <2>4
<1>2. Typed /\ Rest /\ [Next]_vars => Rest'
  BY ExclusiveStep, ChargedStep, QuorateStep, RepeatsStep, PooledStep, RowsStep, PrizesStep, JudgedStep
<1>3. Typed /\ Rest => IInv
  BY DEF IInv
<1>. HIDE DEF Rest
<1>. QED
  BY <1>1, <1>2, <1>3, TypedInv, PTL DEF Spec

\* A room in the lobby has taken nobody's stake, also after a start that failed, but for
\* the starts whose commit was reported as a failure.
THEOREM LobbyTakesNothing == Spec => []LobbyUncharged
<1>1. IInv => LobbyUncharged
  BY DEF IInv, Repeats, Unstarted, LobbyUncharged
<1>. QED
  BY <1>1, Invariant, PTL

\* Nobody pays twice for a game but for such starts, and once more for each.
THEOREM OnlyFailedCallsRepeat == Spec => []StakesExplained
<1>1. IInv => StakesExplained
  <2>. SUFFICES ASSUME IInv, NEW g \in Games, NEW u \in Users
                PROVE  stakes[g][u] <= 1 + lost[g]
    BY DEF StakesExplained
  <2>1. stakes[g][u] \in Nat /\ lost[g] \in Nat
    BY DEF IInv, Typed, TypeOK, MoneyTypeOK
  <2>. QED
    BY <2>1 DEF IInv, Repeats
<1>. QED
  BY <1>1, Invariant, PTL

\* Where nobody has paid twice there are as many stakes as payers.
LEMMA OneStakeEach ==
  ASSUME NEW g \in Games, stakes[g] \in [Users -> Nat], \A u \in Users : stakes[g][u] <= 1
  PROVE  Cardinality(Stakes(g)) = Cardinality(Payers(g))
<1>. DEFINE one == [u \in Payers(g) |-> <<u, 1>>]
<1>1. \A u \in Users : {u} \X (1 .. stakes[g][u]) = IF u \in Payers(g) THEN {<<u, 1>>} ELSE {}
  <2>. SUFFICES ASSUME NEW u \in Users
                PROVE  {u} \X (1 .. stakes[g][u]) = IF u \in Payers(g) THEN {<<u, 1>>} ELSE {}
    OBVIOUS
  <2>1. CASE u \in Payers(g)
    <3>1. stakes[g][u] = 1
      BY <2>1 DEF Payers
    <3>2. 1 .. stakes[g][u] = {1}
      BY <3>1
    <3>. QED
      BY <2>1, <3>2
  <2>2. CASE u \notin Payers(g)
    <3>1. 1 .. stakes[g][u] = {}
      BY <2>2 DEF Payers
    <3>. QED
      BY <2>2, <3>1
  <2>. QED
    BY <2>1, <2>2
<1>2. Stakes(g) = {<<u, 1>> : u \in Payers(g)}
  BY <1>1 DEF Stakes, Payers
<1>3. one \in Bijection(Payers(g), Stakes(g))
  <2>1. one \in Injection(Payers(g), Stakes(g))
    BY <1>2 DEF Injection, IsInjective
  <2>2. one \in Surjection(Payers(g), Stakes(g))
    BY <1>2 DEF Surjection
  <2>. QED
    BY <2>1, <2>2 DEF Bijection
<1>4. IsFiniteSet(Payers(g))
  BY Counting DEF Payers
<1>. QED
  BY <1>3, <1>4, FS_Bijection DEF ExistsBijection

\* The pool of the session row is that of the stakes that were taken, unless a start was
\* reported as a failure that took some.
THEOREM BooksAgree == Spec => []PoolMatchesStakes
<1>1. IInv => PoolMatchesStakes
  <2>. SUFFICES ASSUME IInv, NEW g \in Games, dbStatus[g] # "lobby", lost[g] = 0
                PROVE  dbPrize[g] = PrizePool(g, Cardinality(Stakes(g)))
    BY DEF PoolMatchesStakes
  <2>1. stakes[g] \in [Users -> Nat]
    BY DEF IInv, Typed, TypeOK, MoneyTypeOK
  <2>2. \A u \in Users : stakes[g][u] <= 1
    BY <2>1 DEF IInv, Repeats
  <2>3. Cardinality(Stakes(g)) = Cardinality(Payers(g))
    BY <2>1, <2>2, OneStakeEach
  <2>. QED
    BY <2>3 DEF IInv, Pooled
<1>. QED
  BY <1>1, Invariant, PTL

\* How the statuses of a room and of its row change and when its balls fall, step by step.
LEMMA DisciplineStep ==
  ASSUME IInv, [Next]_vars, NEW g \in Games
  PROVE  /\ status[g] = "resolution" => status'[g] = "resolution"
         /\ status[g] = "lobby" => status'[g] # "resolution"
         /\ status[g] = "active" /\ status'[g] = "lobby"
               => /\ called[g] = {} /\ drops'[g] = "none"
                  /\ dbStatus'[g] = "lobby" \/ lost'[g] > 0
         /\ called'[g] # called[g] => status[g] = "active" /\ dbStatus[g] = "active"
         /\ dbStatus'[g] # dbStatus[g]
               => \/ dbStatus'[g] = "active" /\ status[g] = "active" /\ called[g] = {}
                  \/ /\ dbStatus'[g] = "resolution" /\ status[g] = "resolution"
                     /\ dbStatus[g] = "active"
<1>. USE DEF IInv, Typed, TypeOK
<1>1. status[g] = "resolution" => status'[g] = "resolution"
  BY ResolutionFinal
<1>2. CASE UNCHANGED <<status, called, dbStatus>>
  BY <1>1, <1>2
<1>3. ASSUME NEW p \in Procs, Begins(p)
      PROVE  /\ called' = called /\ dbStatus' = dbStatus
             /\ status'[g] = status[g] \/ (status[g] = "lobby" /\ status'[g] = "active")
  BY <1>3 DEF Begins, BeginStart, RoomTypeOK, dbVars, sessionVars
<1>4. ASSUME NEW p \in Procs, Revert(p), status'[g] # status[g]
      PROVE  /\ called' = called /\ called[g] = {}
             /\ status[g] = "active" /\ status'[g] = "lobby"
             /\ drops'[g] = "none" /\ (dbStatus'[g] = "lobby" \/ lost'[g] > 0)
  <2>1. PICK r \in Games : r = RoomOf(p)
    BY <1>4, RoomOfTyped DEF Revert, StartPC
  <2>2. g = r
    BY <1>4, <2>1 DEF Revert, RoomTypeOK
  <2>3. drops[g] = "none" /\ status[g] = "active" /\ Unstarted(g)
    BY <1>4, <2>1, <2>2 DEF Revert, Unstarted, StartAt, Starters, StartPC, Exclusive, StartExclusive
  <2>4. called[g] = {} /\ lost[g] \in Nat /\ (dbStatus[g] = "lobby" \/ lost[g] # 0)
    BY <2>3, LostMoves DEF Rows, Quorate
  <2>5. UNCHANGED <<called, drops, dbStatus, lost>>
    BY <1>4 DEF Revert, dropVars, dbVars, sessionVars, moneyVars
  <2>6. status'[g] = "lobby"
    BY <1>4, <2>1, <2>2 DEF Revert, RoomTypeOK
  <2>. QED
    BY <2>3, <2>4, <2>5, <2>6
<1>5. ASSUME NEW x \in Games, BallDrops(x)
      PROVE  /\ status[g] = "lobby" => status'[g] = "lobby"
             /\ status[g] = "active" => status'[g] # "lobby"
             /\ called'[g] # called[g] => status[g] = "active" /\ dbStatus[g] = "active"
             /\ dbStatus'[g] # dbStatus[g] => /\ dbStatus'[g] = "resolution"
                                             /\ status[g] = "resolution" /\ dbStatus[g] = "active"
  <2>1. status[x] # "lobby" /\ drops[x] # "none"
    BY <1>5, BallsMove DEF Exclusive, StartExclusive
  <2>2. UNCHANGED status \/ status' = [status EXCEPT ![x] = "resolution"]
    BY <1>5, BallsMove
  <2>3. (status[g] = "lobby" => status'[g] = "lobby") /\ (status[g] = "active" => status'[g] # "lobby")
    BY <2>1, <2>2 DEF RoomTypeOK
  <2>4. called'[g] # called[g] => g = x /\ status[g] = "active"
    BY <1>5 DEF BallDrops, DropBall, ScanClients, Judge, Settle, RecordWinner, CountPlayers, CreditWin,
                RoomTypeOK, roomVars
  <2>5. dbStatus[x] # "lobby" /\ (status[x] = "active" => dbStatus[x] = "active")
    BY <2>1 DEF Pooled, Rows, SessionTypeOK
  <2>6. dbStatus'[g] # dbStatus[g]
           => g = x /\ dbStatus'[g] = "resolution" /\ drops[g] = "record" /\ dbStatus[g] # "resolution"
    BY <1>5, BallsMove DEF SessionTypeOK
  <2>7. drops[x] = "record" => status[x] = "resolution"
    BY DEF Prizes
  <2>. QED
    BY <2>3, <2>4, <2>5, <2>6, <2>7 DEF SessionTypeOK
<1>6. ASSUME NEW p \in Procs, Deduct(p)
      PROVE  /\ UNCHANGED <<status, called>>
             /\ dbStatus'[g] # dbStatus[g]
                  => dbStatus'[g] = "active" /\ status[g] = "active" /\ called[g] = {}
  <2>1. UNCHANGED <<status, called>>
    BY <1>6 DEF Deduct, roomVars
  <2>2. dbStatus'[g] # dbStatus[g] => g = RoomOf(p) /\ dbStatus'[g] = "active"
    BY <1>6 DEF Deduct, CommitStart, RollBack, sessionVars, SessionTypeOK
  <2>. QED
    BY <1>6, <2>1, <2>2, AtDeduct DEF Quorate
<1>7. CASE \E p \in Procs : Begins(p)
  BY <1>1, <1>3, <1>7
<1>8. CASE \E p \in Procs : Revert(p)
  <2>1. called' = called /\ dbStatus' = dbStatus
    BY <1>8 DEF Revert, dbVars, sessionVars
  <2>. QED
    BY <1>1, <1>4, <1>8, <2>1
<1>9. CASE \E x \in Games : BallDrops(x)
  BY <1>1, <1>5, <1>9
<1>10. CASE \E p \in Procs : Deduct(p)
  BY <1>1, <1>6, <1>10
<1>. QED
  BY <1>2, <1>7, <1>8, <1>9, <1>10, Steps
  DEF Quiet, StartGame, Collect, Launch, roomVars, dbVars, sessionVars

\* Rooms go through their statuses in order, and their rows follow them; a failed start goes
\* back before any ball fell; balls fall in active games only.
THEOREM StatusInOrder == Spec => StatusDiscipline
<1>1. IInv /\ [Next]_vars
        => [\A g \in Games :
              /\ status[g] = "resolution" => status'[g] = "resolution"
              /\ status[g] = "lobby" => status'[g] # "resolution"
              /\ status[g] = "active" /\ status'[g] = "lobby"
                    => /\ called[g] = {} /\ drops'[g] = "none"
                       /\ dbStatus'[g] = "lobby" \/ lost'[g] > 0
              /\ called'[g] # called[g] => status[g] = "active" /\ dbStatus[g] = "active"
              /\ dbStatus'[g] # dbStatus[g]
                    => \/ dbStatus'[g] = "active" /\ status[g] = "active" /\ called[g] = {}
                       \/ /\ dbStatus'[g] = "resolution" /\ status[g] = "resolution"
                          /\ dbStatus[g] = "active"]_vars
  BY DisciplineStep
<1>. QED
  BY <1>1, Invariant, PTL DEF Spec, StatusDiscipline
=============================================================================
