----------------------- MODULE BingoRoomRefinesProofs -----------------------
(***************************************************************************)
(* BingoRoom implements GameContract and RoomLife, for any number of       *)
(* games, users and connections, whatever database calls fail and whatever *)
(* replies are lost.                                                       *)
(***************************************************************************)
EXTENDS BingoRoomProofs, BingoRoomRefines

\* Only the reader that records a card changes who is ready.
LEMMA CardsMove ==
  ASSUME [Next]_vars
  PROVE  UNCHANGED selected \/ \E c \in Conns : RecordCard(c)
  BY DEF Next, vars, roomVars, Authenticate, JoinRoom, Disconnect, CheckLobby, Reader, InsertCard,
         TryStart, HubReceive, HubHandle, StartGame, Collect, Deduct, Revert, Launch, Timer, TimerArm,
         TimerFire, BallDrops, DropBall, ScanClients, Judge, Settle, RecordWinner, CountPlayers,
         CreditWin, RemoveRoom

\* Balls drop only in a game whose start has committed.
LEMMA Dropping ==
  ASSUME Exclusive, NEW g \in Games, drops[g] # "none"
  PROVE  Starters(g) = {} /\ status[g] # "lobby" /\ ~Unstarted(g)
  BY DEF Exclusive, StartExclusive, Unstarted, StartAt, Starters, StartPC

\* A game stays unstarted until a start of it commits and startGame knows of it.
LEMMA UnstartedStays ==
  ASSUME Typed, Exclusive, [Next]_vars,
         \A p \in Procs : pc[p] = "deduct" => pc'[p] # "launch"
  PROVE  \A g \in Games : Unstarted(g)' <=> Unstarted(g)
<1>. USE DEF Typed, TypeOK
<1>. SUFFICES ASSUME NEW g \in Games, Unstarted(g) PROVE Unstarted(g)'
  BY UnstartedBack
<1>1. CASE Quiet
  BY <1>1 DEF Quiet, Unstarted, StartAt, StartPC
<1>2. ASSUME NEW p \in Procs, Begins(p) PROVE Unstarted(g)'
  <2>1. UNCHANGED gameID /\ pc'[p] = "collect" /\ \A q \in Procs \ {p} : pc'[q] = pc[q]
    BY <1>2, Moves DEF Begins, BeginStart, clientVars
  <2>2. CASE g # RoomOf(p)
    <3>1. status'[g] = status[g]
      BY <1>2, <2>2 DEF Begins, BeginStart, RoomTypeOK
    <3>. QED
      BY <2>1, <2>2, <3>1, UnstartedElsewhere
  <2>3. CASE g = RoomOf(p)
    BY <2>1, <2>3 DEF Unstarted, StartAt, RoomOf
  <2>. QED
    BY <2>2, <2>3
<1>3. ASSUME NEW p \in Procs, StartGame(p) PROVE Unstarted(g)'
  <2>1. PICK r \in Games : r = RoomOf(p)
    BY <1>3, RoomOfTyped DEF StartGame, Collect, Deduct, Revert, Launch, StartPC
  <2>2. UNCHANGED gameID /\ (\A q \in Procs \ {p} : pc'[q] = pc[q]) /\ RoomOf(p)' = r
    BY <1>3, <2>1, Moves, StakesMove DEF StartGame, Collect, Deduct, Revert, Launch, clientVars, RoomOf
  <2>3. CASE g # r
    <3>1. status'[g] = status[g]
      BY <1>3, <2>1, <2>3 DEF StartGame, Collect, Deduct, Revert, Launch, RoomTypeOK, roomVars
    <3>. QED
      BY <2>1, <2>2, <2>3, <3>1, UnstartedElsewhere
  <2>4. CASE g = r /\ (Collect(p) \/ Deduct(p))
    <3>1. pc'[p] \in {"deduct", "revert"}
      BY <2>4, Moves, StakesMove DEF Collect, Deduct
    <3>. QED
      BY <2>2, <2>4, <3>1 DEF Unstarted, StartAt
  <2>5. CASE g = r /\ Revert(p)
    BY <2>1, <2>5 DEF Revert, Unstarted, RoomTypeOK
  <2>6. CASE g = r /\ Launch(p)
    <3>1. p \in Starters(r) /\ pc[p] = "launch"
      BY <2>1, <2>6 DEF Launch, Starters, StartPC
    <3>2. Starters(r) = {p} /\ status[r] = "active"
      BY <3>1 DEF Exclusive, StartExclusive
    <3>. QED
      BY <2>6, <3>1, <3>2 DEF Unstarted, StartAt, Starters, StartPC
  <2>. QED
    BY <1>3, <2>3, <2>4, <2>5, <2>6 DEF StartGame
<1>4. ASSUME NEW x \in Games, BallDrops(x) PROVE Unstarted(g)'
  <2>1. UNCHANGED <<pc, gameID>> /\ drops[x] # "none"
    BY <1>4, BallsMove
  <2>2. x # g
    BY <2>1, Dropping
  <2>3. status'[g] = status[g]
    BY <1>4, <2>2, BallsMove DEF RoomTypeOK
  <2>. QED
    BY <2>1, <2>3 DEF Unstarted, StartAt, RoomOf
<1>. QED
  BY <1>1, <1>2, <1>3, <1>4, Steps

\* The contract does not see a step that leaves cards, balls, money, the count and the
\* phases alone.
LEMMA Stutters ==
  ASSUME UNCHANGED <<selected, called, dbPrize, balance, stakes, wins, counted>>,
         \A g \in Games : Unstarted(g)' <=> Unstarted(g),
         \A g \in Games : status[g] = "resolution" <=> status'[g] = "resolution"
  PROVE  UNCHANGED Contract!vars
<1>1. phaseOf' = phaseOf /\ playersOf' = playersOf
  BY DEF phaseOf, playersOf, Ready
<1>. QED
  BY <1>1 DEF Contract!vars

\* A card that is recorded is one that is taken.
LEMMA RecordCardStep ==
  ASSUME Typed, NEW c \in Conns, RecordCard(c),
         \A g \in Games : Unstarted(g)' <=> Unstarted(g)
  PROVE  UNCHANGED Contract!vars \/ \E g \in Games, u \in Users : Contract!TakeCard(g, u)
<1>. USE DEF Typed, TypeOK
<1>. DEFINE g == gameID[c]  u == userID[c]
<1>1. g \in Games /\ u \in Users /\ cartela[c].card \in Cards /\ cartela[c].card # Nil
  BY RoomAssumption DEF RecordCard, Assigned, ClientTypeOK, Cartela
<1>2. UNCHANGED <<status, called, dbPrize, balance, stakes, wins, counted>>
  BY DEF RecordCard, dbVars, sessionVars, moneyVars, dropVars
<1>3. CASE UNCHANGED selected
  BY <1>2, <1>3, Stutters
<1>4. CASE selected' = [selected EXCEPT ![g][u] = cartela[c].card]
  <2>1. \A x \in Games : Ready(x)' = IF x = g THEN Ready(x) \cup {u} ELSE Ready(x)
    BY <1>1, <1>4 DEF Ready, RoomTypeOK
  <2>2. phaseOf' = phaseOf
    BY <1>2 DEF phaseOf
  <2>3. playersOf' = [playersOf EXCEPT ![g] = @ \cup {u}]
    BY <1>1, <2>1 DEF playersOf
  <2>. QED
    BY <1>1, <1>2, <2>2, <2>3 DEF Contract!TakeCard
<1>. QED
  BY <1>3, <1>4 DEF RecordCard

\* The contract counts as the rooms do.
LEMMA SameCount ==
  ASSUME NEW S
  PROVE  Contract!Cardinality(S) = Cardinality(S)
  BY DEF Contract!Cardinality, Cardinality, Contract!IsFiniteSet, IsFiniteSet

\* The stakes that DeductStakesAndStart takes are a start for the batch, which goes
\* unnoticed when the reply of the commit is lost.
LEMMA DeductStep ==
  ASSUME IInv, [Next]_vars, NEW p \in Procs, Deduct(p)
  PROVE  \/ UNCHANGED Contract!vars
         \/ \E g \in Games : \E P \in SUBSET Users :
               Contract!Start(g, P) \/ Contract!StartUnnoticed(g, P)
<1>. USE DEF IInv, Typed, TypeOK
<1>1. PICK g \in Games, P \in SUBSET Users : g = RoomOf(p) /\ P = batch[p]
  BY StakesMove
<1>2. pc[p] = "deduct" /\ UNCHANGED <<selected, called, status, counted>>
  BY DEF Deduct, roomVars, dropVars
<1>3. pc'[p] = "revert" => \A x \in Games : Unstarted(x)' <=> Unstarted(x)
  <2>1. pc'[p] = "revert" => \A q \in Procs : pc[q] = "deduct" => pc'[q] # "launch"
    BY StakesMove
  <2>. QED
    BY <2>1, UnstartedStays
<1>4. CASE RollBack(p) /\ pc'[p] = "revert"
  BY <1>2, <1>3, <1>4, Stutters DEF RollBack, sessionVars, moneyVars
<1>5. CASE /\ CommitStart(p) /\ P \subseteq Solvent(g)
           /\ pc'[p] = "launch" \/ (pc'[p] = "revert" /\ LostReply)
  <2>1. status[g] = "active" /\ Unstarted(g) /\ (pc'[p] = "launch" => ~Unstarted(g)')
    BY <1>1, AtDeduct
  <2>2. P \subseteq Ready(g) /\ Cardinality(P) >= MinPlayers
    BY <1>1, <1>2 DEF Charged, Quorate
  <2>3. playersOf' = playersOf /\ P \subseteq playersOf[g]
    BY <1>1, <1>2, <2>2 DEF playersOf, Ready
  <2>4. phaseOf[g] = "lobby"
    BY <2>1 DEF phaseOf
  <2>5. \A u \in P : balance[u] >= 100 * Stake[g]
    BY <1>1, <1>5 DEF Solvent, StakeCents
  <2>6. /\ balance' = [u \in Users |-> IF u \in P THEN balance[u] - 100 * Stake[g] ELSE balance[u]]
        /\ stakes' = [stakes EXCEPT ![g] = [u \in Users |-> IF u \in P THEN stakes[g][u] + 1
                                                                       ELSE stakes[g][u]]]
        /\ wins' = wins
    BY <1>1, <1>5 DEF CommitStart, Charge, StakeCents
  <2>7. dbPrize' = [dbPrize EXCEPT ![g] = Contract!Share(g, Cardinality(P))]
    BY <1>1, <1>5 DEF CommitStart, PrizePool, Contract!Share
  <2>8. Contract!TakeStakes(g, P)
    BY <1>2, <2>2, <2>3, <2>4, <2>5, <2>6, <2>7, SameCount DEF Contract!TakeStakes
  <2>9. CASE pc'[p] = "launch"
    <3>1. UNCHANGED gameID /\ \A q \in Procs \ {p} : pc'[q] = pc[q]
      BY StakesMove DEF Deduct, clientVars
    <3>2. \A x \in Games \ {g} : Unstarted(x)' <=> Unstarted(x)
      BY <1>1, <1>2, <3>1, UnstartedElsewhere
    <3>3. phaseOf' = [phaseOf EXCEPT ![g] = "playing"]
      BY <1>2, <2>1, <2>9, <3>2 DEF phaseOf
    <3>. QED
      BY <2>8, <3>3 DEF Contract!Start
  <2>10. CASE pc'[p] = "revert" /\ LostReply
    <3>1. phaseOf' = phaseOf
      BY <1>2, <1>3, <2>10 DEF phaseOf
    <3>. QED
      BY <2>8, <2>10, <3>1 DEF Contract!StartUnnoticed
  <2>. QED
    BY <1>5, <2>9, <2>10
<1>. QED
  BY <1>1, <1>4, <1>5, Moves DEF Deduct

\* A ball that falls is a ball that is drawn.
LEMMA DropBallStep ==
  ASSUME IInv, NEW g \in Games, DropBall(g), \A x \in Games : Unstarted(x)' <=> Unstarted(x)
  PROVE  UNCHANGED Contract!vars \/ \E b \in Balls : Contract!Draw(g, b)
<1>. USE DEF IInv, Typed, TypeOK
<1>1. UNCHANGED <<status, selected, dbPrize, balance, stakes, wins, counted>>
  BY DEF DropBall, moneyVars
<1>2. CASE UNCHANGED called
  BY <1>1, <1>2, Stutters
<1>3. ASSUME NEW b \in Balls \ called[g], status[g] = "active",
             called' = [called EXCEPT ![g] = @ \cup {b}]
      PROVE  Contract!Draw(g, b)
  <2>1. ~Unstarted(g)
    BY Dropping DEF DropBall
  <2>2. phaseOf[g] = "playing" /\ phaseOf' = phaseOf /\ playersOf' = playersOf
    BY <1>1, <1>3, <2>1 DEF phaseOf, playersOf, Ready
  <2>. QED
    BY <1>1, <1>3, <2>2 DEF Contract!Draw
<1>. QED
  BY <1>2, <1>3 DEF DropBall

\* A resolution finishes the game: some board has won it.
LEMMA SettleStep ==
  ASSUME IInv, NEW g \in Games, Settle(g), \A x \in Games : Unstarted(x)' <=> Unstarted(x)
  PROVE  UNCHANGED Contract!vars \/ Contract!Finish(g)
<1>. USE DEF IInv, Typed, TypeOK
<1>1. UNCHANGED <<selected, called, dbPrize, balance, stakes, wins, counted>>
  BY DEF Settle, dbVars, sessionVars, moneyVars
<1>2. \A x \in Games : status'[x] = IF x = g THEN "resolution" ELSE status[x]
  BY DEF Settle, RoomTypeOK
<1>3. CASE status[g] = "resolution"
  BY <1>1, <1>2, <1>3, Stutters
<1>4. CASE status[g] # "resolution"
  <2>1. ~Unstarted(g)
    BY Dropping DEF Settle
  <2>2. phaseOf[g] = "playing" /\ phaseOf' = [phaseOf EXCEPT ![g] = "over"]
    BY <1>2, <1>4, <2>1 DEF phaseOf
  <2>3. playersOf' = playersOf
    BY <1>1 DEF playersOf, Ready
  <2>4. \E k \in Cards : \E line \in Lines[k] : line \subseteq called[g]
    BY DEF Settle, Judged, Wins
  <2>. QED
    BY <1>1, <2>2, <2>3, <2>4 DEF Contract!Finish
<1>. QED
  BY <1>3, <1>4

\* The players are counted for the prize when the game is over.
LEMMA CountStep ==
  ASSUME IInv, NEW g \in Games, CountPlayers(g), \A x \in Games : Unstarted(x)' <=> Unstarted(x)
  PROVE  Contract!Count(g)
<1>. USE DEF IInv, Typed, TypeOK
<1>1. UNCHANGED <<status, selected, called, dbPrize, balance, stakes, wins>>
  BY DEF CountPlayers, roomVars, dbVars, sessionVars, moneyVars
<1>2. status[g] = "resolution" /\ counted[g] = 0
  BY DEF CountPlayers, Prizes
<1>3. phaseOf[g] = "over" /\ phaseOf' = phaseOf /\ playersOf' = playersOf /\ playersOf[g] = Ready(g)
  BY <1>1, <1>2 DEF phaseOf, playersOf, Ready
<1>4. counted' = [counted EXCEPT ![g] = Cardinality(playersOf[g])]
  BY <1>3 DEF CountPlayers
<1>. QED
  BY <1>1, <1>2, <1>3, <1>4, SameCount DEF Contract!Count

\* A credit of the winner pays the prize of those who were counted.
LEMMA CreditWinStep ==
  ASSUME IInv, NEW g \in Games, CreditWin(g), \A x \in Games : Unstarted(x)' <=> Unstarted(x)
  PROVE  UNCHANGED Contract!vars \/ \E u \in Users : Contract!Pay(g, u)
<1>. USE DEF IInv, Typed, TypeOK
<1>. DEFINE u == userID[winner[g]]
            prize == PrizePool(g, counted[g])
<1>1. u \in Users
  BY RoomAssumption DEF CreditWin, Assigned, DropTypeOK, ClientTypeOK
<1>2. UNCHANGED <<status, selected, called, dbPrize, counted>>
  BY DEF CreditWin, roomVars, sessionVars
<1>3. CASE UNCHANGED moneyVars
  BY <1>2, <1>3, Stutters DEF moneyVars
<1>4. CASE /\ balance' = [balance EXCEPT ![u] = @ + prize]
           /\ wins' = [wins EXCEPT ![g] = Append(@, [user |-> u, amount |-> prize])]
           /\ UNCHANGED stakes
  <2>1. counted[g] > 0 /\ wins[g] = <<>>
    BY DEF CreditWin, Prizes
  <2>2. phaseOf' = phaseOf /\ playersOf' = playersOf
    BY <1>2 DEF phaseOf, playersOf, Ready
  <2>3. wins' = [wins EXCEPT ![g] = <<[user |-> u, amount |-> prize]>>]
    BY <1>4, <2>1 DEF MoneyTypeOK
  <2>4. prize = Contract!Share(g, counted[g])
    BY DEF PrizePool, Contract!Share
  <2>. QED
    BY <1>1, <1>2, <1>4, <2>1, <2>2, <2>3, <2>4 DEF Contract!Pay
<1>. QED
  BY <1>3, <1>4 DEF CreditWin

\* Every step of the rooms is a step of the contract, or one it does not see.
LEMMA ContractStep ==
  ASSUME IInv, [Next]_vars
  PROVE  [Contract!Next]_(Contract!vars)
<1>. USE DEF IInv, Typed, TypeOK
<1>1. CASE Quiet
  <2>1. \A g \in Games : Unstarted(g)' <=> Unstarted(g)
    BY <1>1, UnstartedStays DEF Quiet, StartPC
  <2>2. CASE UNCHANGED selected
    BY <1>1, <2>1, <2>2, Stutters DEF Quiet
  <2>3. CASE \E c \in Conns : RecordCard(c)
    BY <2>1, <2>3, RecordCardStep DEF Contract!Next
  <2>. QED
    BY <2>2, <2>3, CardsMove
<1>2. ASSUME NEW p \in Procs, Begins(p) PROVE UNCHANGED Contract!vars
  <2>1. \A q \in Procs : pc[q] = "deduct" => pc'[q] # "launch"
    BY <1>2, Moves DEF Begins, BeginStart
  <2>2. \A g \in Games : status[g] = "resolution" <=> status'[g] = "resolution"
    BY <1>2 DEF Begins, BeginStart, RoomTypeOK
  <2>. QED
    BY <1>2, <2>1, <2>2, UnstartedStays, Stutters DEF Begins, dbVars, sessionVars, moneyVars, dropVars
<1>3. ASSUME NEW p \in Procs, Collect(p) \/ Launch(p) PROVE UNCHANGED Contract!vars
  <2>1. \A q \in Procs : pc[q] = "deduct" => pc'[q] # "launch"
    BY <1>3, Moves DEF Collect, Launch
  <2>. QED
    BY <1>3, <2>1, UnstartedStays, Stutters
    DEF Collect, Launch, roomVars, dbVars, sessionVars, moneyVars, dropVars
<1>4. ASSUME NEW p \in Procs, Revert(p) PROVE UNCHANGED Contract!vars
  <2>1. PICK r \in Games : r = RoomOf(p)
    BY <1>4, RoomOfTyped DEF Revert, StartPC
  <2>2. status[r] = "active"
    BY <1>4, <2>1 DEF Revert, Starters, StartPC, Exclusive, StartExclusive
  <2>3. \A g \in Games : status[g] = "resolution" <=> status'[g] = "resolution"
    BY <1>4, <2>1, <2>2 DEF Revert, RoomTypeOK
  <2>4. \A q \in Procs : pc[q] = "deduct" => pc'[q] # "launch"
    BY <1>4, Moves DEF Revert
  <2>. QED
    BY <1>4, <2>3, <2>4, UnstartedStays, Stutters DEF Revert, dbVars, sessionVars, moneyVars, dropVars
<1>5. ASSUME NEW p \in Procs, Deduct(p) PROVE [Contract!Next]_(Contract!vars)
  BY <1>5, DeductStep DEF Contract!Next
<1>6. ASSUME NEW g \in Games, BallDrops(g) PROVE [Contract!Next]_(Contract!vars)
  <2>1. \A x \in Games : Unstarted(x)' <=> Unstarted(x)
    BY <1>6, BallsMove, UnstartedStays
  <2>2. CASE ScanClients(g) \/ Judge(g) \/ RecordWinner(g)
    BY <2>1, <2>2, Stutters
    DEF ScanClients, Judge, RecordWinner, roomVars, dbVars, sessionVars, moneyVars
  <2>3. CASE DropBall(g)
    BY <2>1, <2>3, DropBallStep DEF Contract!Next
  <2>4. CASE Settle(g)
    BY <2>1, <2>4, SettleStep DEF Contract!Next
  <2>5. CASE CountPlayers(g)
    BY <2>1, <2>5, CountStep DEF Contract!Next
  <2>6. CASE CreditWin(g)
    BY <2>1, <2>6, CreditWinStep DEF Contract!Next
  <2>. QED
    BY <1>6, <2>2, <2>3, <2>4, <2>5, <2>6 DEF BallDrops
<1>. QED
  BY <1>1, <1>2, <1>3, <1>4, <1>5, <1>6, Steps DEF StartGame

\* Whatever the goroutines interleave and whatever calls fail or replies are lost, the rooms
\* and rows behave like the contract: cards are taken, all stakes of a start or none, balls,
\* a line, a count of the players, a prize for as many.
THEOREM Implements == Spec => ImplementsContract
<1>1. Init => Contract!Init
  <2>. SUFFICES ASSUME Init PROVE Contract!Init
    OBVIOUS
  <2>1. \A g \in Games : Ready(g) = {} /\ status[g] = "lobby" /\ Unstarted(g)
    BY DEF Init, Ready, Unstarted
  <2>. QED
    BY <2>1 DEF Init, Contract!Init, phaseOf, playersOf
<1>2. IInv /\ [Next]_vars => [Contract!Next]_(Contract!vars)
  BY ContractStep
<1>. QED
  BY <1>1, <1>2, Invariant, PTL DEF Spec, ImplementsContract, Contract!Spec

-----------------------------------------------------------------------------
(* The rooms live the life of module RoomLife. *)

\* Only the goroutine that resolveGame leaves behind takes a room out of the hub.
LEMMA OpenMoves ==
  ASSUME [Next]_vars
  PROVE  UNCHANGED open \/ \E g \in Games : RemoveRoom(g)
  BY DEF Next, vars, roomVars, Authenticate, JoinRoom, Disconnect, CheckLobby, Reader, InsertCard, RecordCard,
         TryStart, HubReceive, HubHandle, StartGame, Collect, Deduct, Revert, Launch, Timer,
         TimerArm, TimerFire, BallDrops, DropBall, ScanClients, Judge, Settle, RecordWinner,
         CountPlayers, CreditWin

\* A removed room is resolved and its balls have fallen.
LEMMA RemovedInv == Spec => []Removed
<1>1. Init => Removed
  BY DEF Init, Removed
<1>2. IInv /\ Removed /\ [Next]_vars => Removed'
  <2>. SUFFICES ASSUME IInv, Removed, [Next]_vars, NEW g \in Games
                PROVE  open'[g] \/ (status'[g] = "resolution" /\ drops'[g] \in {"drop", "done"})
    BY DEF Removed
  <2>. USE DEF IInv, Typed, TypeOK
  <2>1. ASSUME NEW x \in Games, RemoveRoom(x) PROVE g = x \/ open'[g] = open[g]
    BY <2>1 DEF RemoveRoom, RoomTypeOK
  <2>2. ASSUME NEW x \in Games, RemoveRoom(x)
        PROVE  status' = status /\ drops' = drops /\ status[x] = "resolution" /\ drops[x] \in {"drop", "done"}
    BY <2>2 DEF RemoveRoom, dropVars
  <2>3. CASE open[g] /\ UNCHANGED open
    BY <2>3
  <2>4. CASE \E x \in Games : RemoveRoom(x)
    BY <2>1, <2>2, <2>4 DEF Removed
  <2>5. CASE ~open[g] /\ UNCHANGED open
    <3>1. status[g] = "resolution" /\ drops[g] \in {"drop", "done"} /\ status'[g] = "resolution"
      BY <2>5, ResolutionFinal DEF Removed
    <3>2. ASSUME NEW p \in Procs, Launch(p) PROVE drops'[g] = drops[g]
      <4>1. RoomOf(p) # g
        BY <3>1, <3>2 DEF Launch, Exclusive, StartExclusive, Starters, StartPC
      <4>. QED
        BY <3>2, <4>1 DEF Launch, DropTypeOK
    <3>3. ASSUME NEW x \in Games, BallDrops(x) PROVE drops'[g] \in {"drop", "done"}
      BY <3>1, <3>3 DEF BallDrops, DropBall, ScanClients, Judge, Settle, RecordWinner,
                       CountPlayers, CreditWin, DropTo, DropTypeOK
    <3>. QED
      BY <3>1, <3>2, <3>3, Steps
      DEF Quiet, Begins, StartGame, Collect, Deduct, Revert, roomVars, dropVars
  <2>. QED
    BY <2>3, <2>4, <2>5, OpenMoves
<1>. QED
  BY <1>1, <1>2, Invariant, PTL DEF Spec

\* RoomLife counts as the rooms do.
LEMMA SameRoomCount ==
  ASSUME NEW S
  PROVE  Life!Cardinality(S) = Cardinality(S)
  BY DEF Life!Cardinality, Cardinality, Life!IsFiniteSet, IsFiniteSet

\* The points of startGame are those of the goroutines that are in it.
LEMMA StartAtStarters ==
  ASSUME NEW g \in Games, NEW labels \in SUBSET StartPC
  PROVE  /\ StartAt(g, labels) <=> \E p \in Starters(g) : pc[p] \in labels
         /\ StartAt(g, labels)' <=> \E p \in Starters(g)' : pc'[p] \in labels
  BY DEF StartAt, Starters

\* What a room looks like, before a step and after it, with p the one goroutine that is in
\* startGame.
LEMMA LifeWithStarter ==
  ASSUME NEW g \in Games, NEW p \in Procs
  PROVE  /\ Starters(g) = {p} /\ open[g] /\ status[g] = "active"
              => /\ pc[p] = "collect" => lifeOf(g) = "taken" /\ takenOf(g) = {}
                 /\ pc[p] = "deduct" => lifeOf(g) = "starting" /\ takenOf(g) = batch[p]
                 /\ pc[p] = "revert" => lifeOf(g) = "lobby" /\ takenOf(g) = {}
                 /\ pc[p] = "launch" /\ drops[g] = "none"
                      => lifeOf(g) = "active" /\ takenOf(g) = Payers(g)
         /\ Starters(g)' = {p} /\ open'[g] /\ status'[g] = "active"
              => /\ pc'[p] = "collect" => lifeOf(g)' = "taken" /\ takenOf(g)' = {}
                 /\ pc'[p] = "deduct" => lifeOf(g)' = "starting" /\ takenOf(g)' = batch'[p]
                 /\ pc'[p] = "revert" => lifeOf(g)' = "lobby" /\ takenOf(g)' = {}
                 /\ pc'[p] = "launch" /\ drops'[g] = "none"
                      => lifeOf(g)' = "active" /\ takenOf(g)' = Payers(g)'
<1>. DEFINE unstarting == {"collect", "deduct", "revert"}
<1>1. ASSUME Starters(g) = {p}, open[g], status[g] = "active"
      PROVE  /\ pc[p] = "collect" => lifeOf(g) = "taken" /\ takenOf(g) = {}
             /\ pc[p] = "deduct" => lifeOf(g) = "starting" /\ takenOf(g) = batch[p]
             /\ pc[p] = "revert" => lifeOf(g) = "lobby" /\ takenOf(g) = {}
             /\ pc[p] = "launch" /\ drops[g] = "none" => lifeOf(g) = "active" /\ takenOf(g) = Payers(g)
  <2>1. \A l \in StartPC : StartAt(g, {l}) <=> pc[p] = l
    BY <1>1, StartAtStarters
  <2>2. StartAt(g, unstarting) <=> pc[p] \in unstarting
    BY <1>1, StartAtStarters DEF StartPC
  <2>3. pc[p] = "deduct" => Collected(g) = batch[p]
    <3>1. pc[p] = "deduct" => {q \in Procs : pc[q] = "deduct" /\ RoomOf(q) = g} = {p}
      BY <1>1 DEF Starters, StartPC
    <3>. QED
      BY <3>1 DEF Collected
  <2>. QED
    BY <1>1, <2>1, <2>2, <2>3 DEF lifeOf, takenOf, Unstarted, StartPC
<1>2. ASSUME Starters(g)' = {p}, open'[g], status'[g] = "active"
      PROVE  /\ pc'[p] = "collect" => lifeOf(g)' = "taken" /\ takenOf(g)' = {}
             /\ pc'[p] = "deduct" => lifeOf(g)' = "starting" /\ takenOf(g)' = batch'[p]
             /\ pc'[p] = "revert" => lifeOf(g)' = "lobby" /\ takenOf(g)' = {}
             /\ pc'[p] = "launch" /\ drops'[g] = "none"
                  => lifeOf(g)' = "active" /\ takenOf(g)' = Payers(g)'
  <2>1. \A l \in StartPC : StartAt(g, {l})' <=> pc'[p] = l
    BY <1>2, StartAtStarters
  <2>2. StartAt(g, unstarting)' <=> pc'[p] \in unstarting
    BY <1>2, StartAtStarters DEF StartPC
  <2>3. pc'[p] = "deduct" => Collected(g)' = batch'[p]
    <3>1. pc'[p] = "deduct" => {q \in Procs : pc'[q] = "deduct" /\ RoomOf(q)' = g} = {p}
      BY <1>2 DEF Starters, StartPC
    <3>. QED
      BY <3>1 DEF Collected
  <2>. QED
    BY <1>2, <2>1, <2>2, <2>3 DEF lifeOf, takenOf, Unstarted, StartPC
<1>. QED
  BY <1>1, <1>2

\* A goroutine in startGame is the only one of its room, which is active.
LEMMA OnlyStarter ==
  ASSUME Exclusive, Removed, NEW p \in Procs, NEW g \in Games, g = RoomOf(p), pc[p] \in StartPC
  PROVE  Starters(g) = {p} /\ open[g] /\ status[g] = "active" /\ drops[g] = "none"
<1>1. Starters(g) = {p}
  BY DEF Starters, Exclusive, StartExclusive
<1>. QED
  BY <1>1 DEF Exclusive, StartExclusive, Removed

\* What it looks like with nobody in startGame.
LEMMA LifeWithout ==
  ASSUME NEW g \in Games
  PROVE  /\ Starters(g) = {}
              => /\ lifeOf(g) = IF ~open[g] THEN "removed"
                                ELSE IF status[g] = "lobby" THEN "lobby"
                                ELSE IF status[g] = "resolution" /\ drops[g] # "record"
                                THEN "resolution" ELSE "active"
                 /\ takenOf(g) = IF status[g] = "lobby" THEN {} ELSE Payers(g)
         /\ Starters(g)' = {}
              => /\ lifeOf(g)' = IF ~open'[g] THEN "removed"
                                 ELSE IF status'[g] = "lobby" THEN "lobby"
                                 ELSE IF status'[g] = "resolution" /\ drops'[g] # "record"
                                 THEN "resolution" ELSE "active"
                 /\ takenOf(g)' = IF status'[g] = "lobby" THEN {} ELSE Payers(g)'
<1>1. Starters(g) = {} => \A labels \in SUBSET StartPC : ~StartAt(g, labels)
  BY StartAtStarters
<1>2. Starters(g)' = {} => \A labels \in SUBSET StartPC : ~StartAt(g, labels)'
  BY StartAtStarters
<1>. QED
  BY <1>1, <1>2 DEF lifeOf, takenOf, Unstarted, StartPC

\* A room does not see a step that moves none of its goroutines.
LEMMA LifeFrame ==
  ASSUME NEW g \in Games, Starters(g)' = Starters(g),
         \A q \in Starters(g) : pc'[q] = pc[q] /\ batch'[q] = batch[q],
         open'[g] = open[g], status'[g] = status[g], stakes'[g] = stakes[g],
         drops'[g] = "record" <=> drops[g] = "record"
  PROVE  lifeOf(g)' = lifeOf(g) /\ takenOf(g)' = takenOf(g)
<1>1. \A l \in StartPC : StartAt(g, {l})' <=> StartAt(g, {l})
  BY StartAtStarters
<1>2. StartAt(g, {"collect", "deduct", "revert"})' <=> StartAt(g, {"collect", "deduct", "revert"})
  BY StartAtStarters DEF StartPC
<1>3. lifeOf(g)' = lifeOf(g)
  BY <1>1 DEF lifeOf, StartPC
<1>4. Payers(g)' = Payers(g)
  BY DEF Payers
<1>5. {q \in Procs : pc[q] = "deduct" /\ RoomOf(q) = g}' = {q \in Procs : pc[q] = "deduct" /\ RoomOf(q) = g}
  BY DEF Starters, StartPC
<1>6. Collected(g)' = Collected(g)
  BY <1>5 DEF Collected, Starters, StartPC
<1>. QED
  BY <1>1, <1>2, <1>3, <1>4, <1>6 DEF takenOf, Unstarted, StartPC

\* A step of one goroutine is seen by its own room only.
LEMMA Elsewhere ==
  ASSUME Typed, NEW p \in Procs, NEW g \in Games, g # RoomOf(p), UNCHANGED gameID,
         \A q \in Procs \ {p} : pc'[q] = pc[q] /\ batch'[q] = batch[q],
         RoomOf(p)' = RoomOf(p),
         open'[g] = open[g], status'[g] = status[g], stakes'[g] = stakes[g], drops'[g] = drops[g]
  PROVE  lifeOf(g)' = lifeOf(g) /\ takenOf(g)' = takenOf(g)
<1>1. Starters(g)' = Starters(g) /\ p \notin Starters(g)
  BY DEF Starters, RoomOf
<1>. QED
  BY <1>1, LifeFrame DEF Starters

\* A step that every room sees as nothing is one RoomLife does not see.
LEMMA LifeStutters ==
  ASSUME \A g \in Games : lifeOf(g)' = lifeOf(g) /\ takenOf(g)' = takenOf(g),
         UNCHANGED <<selected, dbStatus, stakes>>
  PROVE  UNCHANGED Life!vars
<1>1. UNCHANGED playersOf
  BY DEF playersOf, Ready
<1>. QED
  BY <1>1 DEF Life!vars

\* A quiet step changes no room, but that one may be removed and players may sit down.
LEMMA QuietLife ==
  ASSUME Typed, Quiet, NEW g \in Games, open'[g] = open[g]
  PROVE  lifeOf(g)' = lifeOf(g) /\ takenOf(g)' = takenOf(g)
<1>1. Starters(g)' = Starters(g) /\ \A q \in Starters(g) : pc'[q] = pc[q]
  BY DEF Quiet, Starters
<1>. QED
  BY <1>1, LifeFrame DEF Quiet

\* A card that is recorded is a seat taken.
LEMMA SeatLife ==
  ASSUME Typed, Quiet, NEW c \in Conns, RecordCard(c)
  PROVE  [Life!Next]_Life!vars
<1>. USE DEF Typed, TypeOK
<1>. DEFINE g == gameID[c]
            u == userID[c]
<1>1. g \in Games /\ u \in Users /\ cartela[c].card # Nil
  BY RoomAssumption DEF RecordCard, Assigned, ClientTypeOK, Cartela
<1>2. UNCHANGED <<open, dbStatus, stakes>>
  BY DEF RecordCard, dbVars, sessionVars, moneyVars
<1>3. \A x \in Games : lifeOf(x)' = lifeOf(x) /\ takenOf(x)' = takenOf(x)
  BY <1>2, QuietLife
<1>4. CASE UNCHANGED selected
  BY <1>2, <1>3, <1>4, LifeStutters
<1>5. CASE open[g] /\ selected' = [selected EXCEPT ![g][u] = cartela[c].card]
  <2>1. \A x \in Games : Ready(x)' = IF x = g THEN Ready(x) \cup {u} ELSE Ready(x)
    BY <1>1, <1>5 DEF Ready, RoomTypeOK
  <2>2. playersOf' = [playersOf EXCEPT ![g] = @ \cup {u}]
    BY <1>1, <2>1 DEF playersOf
  <2>3. lifeOf(g) \notin {"unmade", "removed"}
    BY <1>5 DEF lifeOf
  <2>. HIDE DEF g, u
  <2>4. Life!Seat(g, u)
    BY <1>1, <1>2, <1>3, <2>2, <2>3 DEF Life!Seat
  <2>. QED
    BY <1>1, <2>4 DEF Life!Next
<1>. QED
  BY <1>4, <1>5 DEF RecordCard

\* RemoveRoom.
LEMMA RemoveLife ==
  ASSUME Typed, Exclusive, Quiet, NEW g \in Games, RemoveRoom(g)
  PROVE  Life!Next
<1>. USE DEF Typed, TypeOK
<1>1. \A x \in Games : open'[x] = IF x = g THEN FALSE ELSE open[x]
  BY DEF RemoveRoom, RoomTypeOK
<1>2. \A x \in Games \ {g} : lifeOf(x)' = lifeOf(x) /\ takenOf(x)' = takenOf(x)
  BY <1>1, QuietLife
<1>3. Starters(g) = {} /\ Starters(g)' = {}
  BY Standing DEF RemoveRoom, Exclusive, StartExclusive, clientVars
<1>4. lifeOf(g) = "resolution" /\ lifeOf(g)' = "removed"
  BY <1>1, <1>3, LifeWithout DEF RemoveRoom
<1>5. UNCHANGED <<status, selected, stakes, dbStatus>>
  BY DEF RemoveRoom, dbVars, sessionVars, moneyVars
<1>6. takenOf(g)' = takenOf(g)
  BY <1>3, <1>5, LifeWithout DEF Payers
<1>7. UNCHANGED playersOf
  BY <1>5 DEF playersOf, Ready
<1>8. Life!Remove(g)
  BY <1>2, <1>4, <1>5, <1>6, <1>7 DEF Life!Remove, Life!MoveTo
<1>. QED
  BY <1>8 DEF Life!Next

\* A timer or a reader that begins a start takes its room out of the lobby.
LEMMA BeginLife ==
  ASSUME IInv, Removed, NEW p \in Procs, Begins(p), UNCHANGED open
  PROVE  Life!Next
<1>. USE DEF IInv, Typed, TypeOK
<1>0. PICK g \in Games : g = RoomOf(p)
  BY DEF Begins
<1>1. /\ pc'[p] = "collect" /\ RoomOf(p)' = g /\ open[g]
      /\ \A q \in Procs \ {p} : pc'[q] = pc[q]
      /\ \A x \in Games : status'[x] = IF x = g THEN "active" ELSE status[x]
      /\ UNCHANGED <<gameID, selected, batch, drops, dbStatus, stakes>>
  BY <1>0, Moves DEF Begins, BeginStart, RoomOf, RoomTypeOK, Removed, clientVars, dropVars, dbVars,
               sessionVars, moneyVars
<1>2. \A x \in Games \ {g} : lifeOf(x)' = lifeOf(x) /\ takenOf(x)' = takenOf(x)
  BY <1>0, <1>1, Elsewhere
<1>3. Starters(g) = {} /\ Starters(g)' = {p}
  <2>1. status[g] = "lobby"
    BY <1>0 DEF Begins
  <2>2. Starters(g) = {}
    BY <2>1 DEF Exclusive, StartExclusive
  <2>. QED
    BY <1>0, <1>1, <2>2 DEF Starters, StartPC, RoomOf
<1>4. lifeOf(g) = "lobby" /\ lifeOf(g)' = "taken" /\ takenOf(g) = {} /\ takenOf(g)' = {}
  BY <1>0, <1>1, <1>3, LifeWithout, LifeWithStarter DEF Begins
<1>5. takenOf(g)' = takenOf(g)
  BY <1>4
<1>6. UNCHANGED playersOf
  BY <1>1 DEF playersOf, Ready
<1>7. Cardinality(playersOf[g]) >= MinPlayers
  BY <1>0, <1>1 DEF Begins, Enough, playersOf
<1>8. Life!TakeOut(g)
  BY <1>1, <1>2, <1>4, <1>5, <1>6, <1>7, SameRoomCount DEF Life!TakeOut, Life!MoveTo
<1>. QED
  BY <1>1, <1>8 DEF Life!Next

\* Collect.
LEMMA CollectLife ==
  ASSUME IInv, Removed, NEW p \in Procs, Collect(p)
  PROVE  Life!Next
<1>. USE DEF IInv, Typed, TypeOK
<1>0. PICK g \in Games : g = RoomOf(p)
  BY RoomOfTyped DEF Collect, StartPC
<1>1. /\ pc[p] = "collect" /\ pc'[p] = "deduct" /\ batch'[p] = Ready(g)
      /\ \A q \in Procs \ {p} : pc'[q] = pc[q] /\ batch'[q] = batch[q]
      /\ RoomOf(p)' = g
      /\ UNCHANGED <<gameID, open, status, selected, drops, dbStatus, stakes>>
  BY <1>0, Moves
  DEF Collect, RoomOf, StartPC, ProcTypeOK, roomVars, clientVars, dropVars, dbVars, sessionVars, moneyVars
<1>2. \A x \in Games \ {g} : lifeOf(x)' = lifeOf(x) /\ takenOf(x)' = takenOf(x)
  BY <1>0, <1>1, Elsewhere
<1>3. Starters(g) = {p} /\ open[g] /\ status[g] = "active" /\ lifeOf(g) = "taken"
  BY <1>0, <1>1, OnlyStarter, LifeWithStarter DEF StartPC
<1>4. Starters(g)' = {p}
  BY <1>0, <1>1, <1>3 DEF Starters, StartPC, RoomOf
<1>5. lifeOf(g)' = "starting" /\ takenOf(g)' = Ready(g)
  BY <1>1, <1>3, <1>4, LifeWithStarter
<1>6. playersOf[g] = Ready(g)
  BY DEF playersOf
<1>7. UNCHANGED playersOf
  BY <1>1 DEF playersOf, Ready
<1>8. [x \in Games |-> takenOf(x)]' = [[x \in Games |-> takenOf(x)] EXCEPT ![g] = playersOf[g]]
  BY <1>1, <1>2, <1>5, <1>6
<1>9. [x \in Games |-> lifeOf(x)]' = [[x \in Games |-> lifeOf(x)] EXCEPT ![g] = "starting"]
  BY <1>1, <1>2, <1>5
<1>10. Life!Collect(g)
  BY <1>1, <1>3, <1>7, <1>8, <1>9 DEF Life!Collect, Life!MoveTo
<1>. QED
  BY <1>1, <1>10 DEF Life!Next

\* DeductStakesAndStart takes the stakes of all who were collected, or fails, and if the reply
\* is lost does both.
LEMMA DeductLife ==
  ASSUME IInv, Removed, NEW p \in Procs, Deduct(p)
  PROVE  Life!Next
<1>. USE DEF IInv, Typed, TypeOK
<1>0. PICK g \in Games : g = RoomOf(p)
  BY StakesMove
<1>1. /\ pc[p] = "deduct" /\ pc'[p] \in {"launch", "revert"} /\ batch[p] \in SUBSET Users
      /\ \A q \in Procs \ {p} : pc'[q] = pc[q]
      /\ \A x \in Games \ {g} : stakes'[x] = stakes[x]
      /\ RoomOf(p)' = g
      /\ UNCHANGED <<gameID, batch, open, status, selected, drops>>
  BY <1>0, StakesMove DEF Deduct, RoomOf, roomVars, clientVars, dropVars
<1>2. \A x \in Games \ {g} : lifeOf(x)' = lifeOf(x) /\ takenOf(x)' = takenOf(x)
  BY <1>0, <1>1, Elsewhere
<1>3. Starters(g) = {p} /\ open[g] /\ status[g] = "active" /\ drops[g] = "none"
  BY <1>0, <1>1, OnlyStarter DEF StartPC
<1>4. Starters(g)' = {p}
  BY <1>0, <1>1, <1>3 DEF Starters, StartPC, RoomOf
<1>5. lifeOf(g) = "starting" /\ takenOf(g) = batch[p]
  BY <1>1, <1>3, LifeWithStarter
<1>6. UNCHANGED playersOf
  BY <1>1 DEF playersOf, Ready
<1>7. ASSUME CommitStart(p) PROVE Life!Take(g) /\ Payers(g)' = batch[p]
  <2>1. /\ dbStatus' = [dbStatus EXCEPT ![g] = "active"]
        /\ stakes' = [stakes EXCEPT ![g] = [u \in Users |-> IF u \in batch[p] THEN stakes[g][u] + 1
                                                                           ELSE stakes[g][u]]]
    BY <1>0, <1>7 DEF CommitStart, Charge
  <2>2. Payers(g) \subseteq batch[p] /\ stakes[g] \in [Users -> Nat]
    BY <1>0, <1>1 DEF Pooled, MoneyTypeOK
  <2>3. \A u \in Users : stakes'[g][u] = IF u \in batch[p] THEN stakes[g][u] + 1 ELSE stakes[g][u]
    BY <2>1 DEF MoneyTypeOK
  <2>4. Payers(g)' = batch[p]
    BY <1>1, <2>2, <2>3 DEF Payers
  <2>. QED
    BY <1>5, <2>1, <2>4 DEF Life!Take
<1>8. CASE CommitStart(p) /\ pc'[p] = "launch"
  <2>1. lifeOf(g)' = "active" /\ takenOf(g)' = takenOf(g)
    BY <1>1, <1>3, <1>4, <1>5, <1>7, <1>8, LifeWithStarter
  <2>2. [x \in Games |-> lifeOf(x)]' = [[x \in Games |-> lifeOf(x)] EXCEPT ![g] = "active"]
    BY <1>2, <2>1
  <2>3. UNCHANGED [x \in Games |-> takenOf(x)]
    BY <1>2, <2>1
  <2>4. Life!Commit(g)
    BY <1>5, <1>6, <1>7, <1>8, <2>2, <2>3 DEF Life!Commit, Life!MoveTo
  <2>. QED
    BY <2>4 DEF Life!Next
<1>9. CASE pc'[p] = "revert" /\ (RollBack(p) \/ (LostReply /\ CommitStart(p)))
  <2>1. lifeOf(g)' = "lobby" /\ takenOf(g)' = {}
    BY <1>1, <1>3, <1>4, <1>9, LifeWithStarter
  <2>2. [x \in Games |-> lifeOf(x)]' = [[x \in Games |-> lifeOf(x)] EXCEPT ![g] = "lobby"]
    BY <1>2, <2>1
  <2>3. [x \in Games |-> takenOf(x)]' = [[x \in Games |-> takenOf(x)] EXCEPT ![g] = {}]
    BY <1>2, <2>1
  <2>4. UNCHANGED <<dbStatus, stakes>> \/ (LostReply /\ Life!Take(g))
    BY <1>7, <1>9 DEF RollBack, sessionVars, moneyVars
  <2>5. Life!Fail(g)
    BY <1>5, <1>6, <2>2, <2>3, <2>4 DEF Life!Fail, Life!MoveTo
  <2>. QED
    BY <2>5 DEF Life!Next
<1>. QED
  BY <1>8, <1>9, Moves DEF Deduct

\* A start that failed has put its room back for RoomLife before startGame does.
LEMMA RevertLife ==
  ASSUME IInv, Removed, NEW p \in Procs, Revert(p)
  PROVE  UNCHANGED Life!vars
<1>. USE DEF IInv, Typed, TypeOK
<1>0. PICK g \in Games : g = RoomOf(p)
  BY RoomOfTyped DEF Revert, StartPC
<1>1. /\ pc[p] = "revert" /\ pc'[p] \notin StartPC
      /\ \A q \in Procs \ {p} : pc'[q] = pc[q]
      /\ \A x \in Games : status'[x] = IF x = g THEN "lobby" ELSE status[x]
      /\ RoomOf(p)' = g
      /\ UNCHANGED <<gameID, batch, open, selected, drops, dbStatus, stakes>>
  BY <1>0, Moves
  DEF Revert, Exit, StartPC, RoomOf, RoomTypeOK, clientVars, dropVars, dbVars, sessionVars, moneyVars
<1>2. \A x \in Games \ {g} : lifeOf(x)' = lifeOf(x) /\ takenOf(x)' = takenOf(x)
  BY <1>0, <1>1, Elsewhere
<1>3. Starters(g) = {p} /\ open[g] /\ status[g] = "active"
  BY <1>0, <1>1, OnlyStarter DEF StartPC
<1>4. Starters(g)' = {}
  BY <1>1, <1>3 DEF Starters, RoomOf
<1>5. lifeOf(g)' = lifeOf(g) /\ takenOf(g)' = takenOf(g)
  BY <1>1, <1>3, <1>4, LifeWithStarter, LifeWithout
<1>. QED
  BY <1>1, <1>2, <1>5, LifeStutters

\* The goroutine that drops the balls starts in an active room.
LEMMA LaunchLife ==
  ASSUME IInv, Removed, NEW p \in Procs, Launch(p)
  PROVE  UNCHANGED Life!vars
<1>. USE DEF IInv, Typed, TypeOK
<1>0. PICK g \in Games : g = RoomOf(p)
  BY RoomOfTyped DEF Launch, StartPC
<1>1. /\ pc[p] = "launch" /\ pc'[p] \notin StartPC
      /\ \A q \in Procs \ {p} : pc'[q] = pc[q]
      /\ \A x \in Games : drops'[x] = IF x = g THEN "drop" ELSE drops[x]
      /\ RoomOf(p)' = g
      /\ UNCHANGED <<gameID, batch, open, status, selected, dbStatus, stakes>>
  BY <1>0, Moves
  DEF Launch, Exit, StartPC, RoomOf, DropTypeOK, roomVars, clientVars, dbVars, sessionVars, moneyVars
<1>2. \A x \in Games \ {g} : lifeOf(x)' = lifeOf(x) /\ takenOf(x)' = takenOf(x)
  BY <1>0, <1>1, Elsewhere
<1>3. Starters(g) = {p} /\ open[g] /\ status[g] = "active" /\ drops[g] = "none"
  BY <1>0, <1>1, OnlyStarter DEF StartPC
<1>4. Starters(g)' = {}
  BY <1>1, <1>3 DEF Starters, RoomOf
<1>5. lifeOf(g)' = lifeOf(g) /\ takenOf(g)' = takenOf(g)
  BY <1>1, <1>3, <1>4, LifeWithStarter, LifeWithout DEF Payers
<1>. QED
  BY <1>1, <1>2, <1>5, LifeStutters

\* Of what the goroutine that drops the balls does, RoomLife sees the update of the row
\* that ends the game, or the error in its place.
LEMMA BallsLife ==
  ASSUME IInv, Removed, NEW g \in Games, BallDrops(g)
  PROVE  [Life!Next]_Life!vars
<1>. USE DEF IInv, Typed, TypeOK
<1>1. /\ UNCHANGED <<pc, gameID, batch, open, selected, stakes>>
      /\ \A x \in Games \ {g} : status'[x] = status[x] /\ drops'[x] = drops[x]
  BY DEF BallDrops, DropBall, ScanClients, Judge, Settle, RecordWinner, CountPlayers,
         CreditWin, DropTo, RoomTypeOK, DropTypeOK, roomVars, clientVars, dbVars, moneyVars
<1>2. \A x \in Games : Starters(x)' = Starters(x)
  BY <1>1, Standing
<1>3. \A x \in Games \ {g} : lifeOf(x)' = lifeOf(x) /\ takenOf(x)' = takenOf(x)
  BY <1>1, <1>2, LifeFrame
<1>4. drops[g] # "none"
  BY DEF BallDrops, DropBall, ScanClients, Judge, Settle, RecordWinner, CountPlayers, CreditWin
<1>5. Starters(g) = {} /\ status[g] # "lobby"
  BY <1>4 DEF Exclusive, StartExclusive
<1>6. lifeOf(g) = IF ~open[g] THEN "removed"
                  ELSE IF status[g] = "resolution" /\ drops[g] # "record" THEN "resolution" ELSE "active"
  BY <1>5, LifeWithout
<1>7. status'[g] # "lobby"
  BY <1>5 DEF BallDrops, DropBall, ScanClients, Judge, Settle, RecordWinner, CountPlayers,
              CreditWin, RoomTypeOK,
              roomVars
<1>8. lifeOf(g)' = IF ~open[g] THEN "removed"
                   ELSE IF status'[g] = "resolution" /\ drops'[g] # "record" THEN "resolution"
                   ELSE "active"
  BY <1>1, <1>2, <1>5, <1>7, LifeWithout
<1>9. takenOf(g)' = takenOf(g)
  BY <1>1, <1>2, <1>5, <1>7, LifeWithout DEF Payers
<1>10. UNCHANGED playersOf
  BY <1>1 DEF playersOf, Ready
<1>11. CASE RecordWinner(g)
  <2>1. /\ drops[g] = "record" /\ drops'[g] = "count" /\ status'[g] = "resolution" /\ open[g]
        /\ dbStatus' \in {dbStatus, [dbStatus EXCEPT ![g] = "resolution"]}
    BY <1>11 DEF RecordWinner, DropTo, DropTypeOK, Prizes, Removed, roomVars
  <2>2. lifeOf(g) = "active" /\ lifeOf(g)' = "resolution"
    BY <1>6, <1>8, <2>1
  <2>3. [x \in Games |-> lifeOf(x)]' = [[x \in Games |-> lifeOf(x)] EXCEPT ![g] = "resolution"]
    BY <1>3, <2>2
  <2>4. UNCHANGED [x \in Games |-> takenOf(x)]
    BY <1>3, <1>9
  <2>5. Life!Resolve(g)
    BY <1>1, <1>10, <2>1, <2>2, <2>3, <2>4 DEF Life!Resolve, Life!MoveTo
  <2>. QED
    BY <2>5 DEF Life!Next
<1>12. CASE Settle(g)
  <2>1. /\ drops[g] = "settle" /\ status'[g] = "resolution" /\ UNCHANGED dbStatus
        /\ drops'[g] = IF status[g] = "resolution" THEN "drop" ELSE "record"
    BY <1>12 DEF Settle, DropTo, DropTypeOK, RoomTypeOK, dbVars, sessionVars
  <2>2. lifeOf(g)' = lifeOf(g)
    BY <1>6, <1>8, <2>1
  <2>. QED
    BY <1>1, <1>3, <1>9, <2>1, <2>2, LifeStutters
<1>13. CASE DropBall(g) \/ ScanClients(g) \/ Judge(g) \/ CountPlayers(g) \/ CreditWin(g)
  <2>1. UNCHANGED <<status, dbStatus>> /\ drops[g] # "record" /\ drops'[g] # "record"
    BY <1>13 DEF DropBall, ScanClients, Judge, CountPlayers, CreditWin, DropTo, DropTypeOK,
                 roomVars, dbVars, sessionVars
  <2>2. lifeOf(g)' = lifeOf(g)
    BY <1>6, <1>8, <2>1
  <2>. QED
    BY <1>1, <1>3, <1>9, <2>1, <2>2, LifeStutters
<1>. QED
  BY <1>11, <1>12, <1>13 DEF BallDrops

\* Every step of the goroutines is a step of RoomLife, or one it does not see.
LEMMA LifeStep ==
  ASSUME IInv, Removed, [Next]_vars
  PROVE  [Life!Next]_Life!vars
<1>. USE DEF IInv, Typed, TypeOK
<1>1. CASE Quiet
  <2>1. CASE UNCHANGED <<open, selected>>
    BY <1>1, <2>1, QuietLife, LifeStutters DEF Quiet
  <2>2. CASE \E c \in Conns : RecordCard(c)
    BY <1>1, <2>2, SeatLife
  <2>3. CASE \E g \in Games : RemoveRoom(g)
    BY <1>1, <2>3, RemoveLife
  <2>. QED
    BY <2>1, <2>2, <2>3, CardsMove, OpenMoves
<1>2. ASSUME NEW p \in Procs, Begins(p) PROVE Life!Next
  <2>1. pc'[p] # pc[p]
    BY <1>2, Moves DEF Begins, BeginStart, StartPC
  <2>2. UNCHANGED open
    BY <2>1, OpenMoves DEF RemoveRoom
  <2>. QED
    BY <1>2, <2>2, BeginLife
<1>3. ASSUME NEW p \in Procs, StartGame(p) PROVE [Life!Next]_Life!vars
  BY <1>3, CollectLife, DeductLife, RevertLife, LaunchLife DEF StartGame
<1>4. ASSUME NEW g \in Games, BallDrops(g) PROVE [Life!Next]_Life!vars
  BY <1>4, BallsLife
<1>. QED
  BY <1>1, <1>2, <1>3, <1>4, Steps

\* The rooms, whatever their timers, readers and the goroutines that drop balls interleave
\* and whatever replies are lost, live the life of module RoomLife: the one the rooms of
\* module RoomLookup live too.
THEOREM RoomsLive == Spec => ImplementsLife
<1>1. Init => Life!Init
  <2>. SUFFICES ASSUME Init PROVE Life!Init
    OBVIOUS
  <2>1. \A g \in Games : Ready(g) = {} /\ lifeOf(g) = "lobby" /\ takenOf(g) = {}
    BY Goroutines DEF Init, Ready, lifeOf, takenOf, Unstarted, StartAt, Procs
  <2>2. playersOf = [g \in Games |-> {}] /\ \A g \in Games : takenOf(g) = {} /\ g # Nil
    BY <2>1, RoomAssumption DEF playersOf
  <2>. QED
    BY <2>1, <2>2 DEF Init, Life!Init
<1>2. IInv /\ Removed /\ [Next]_vars => [Life!Next]_Life!vars
  BY LifeStep
<1>. QED
  BY <1>1, <1>2, Invariant, RemovedInv, PTL DEF Spec, ImplementsLife, Life!Spec
=============================================================================
