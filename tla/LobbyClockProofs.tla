-------------------------- MODULE LobbyClockProofs --------------------------
(* Proofs about LobbyClock, for every number of clients and every duration.  *)
EXTENDS LobbyClock, TLAPS

\* What Remaining is: one or two numbers of the range, and zero alone at the end.
LEMMA RemainingRange ==
  ASSUME age \in 0 .. LobbyDuration
  PROVE  /\ Remaining \subseteq 0 .. LobbyDuration
         /\ LobbyDuration - age \in Remaining
         /\ age = LobbyDuration => Remaining = {0}
         /\ 0 \in Remaining => age + 1 >= LobbyDuration
         /\ age + 1 >= LobbyDuration => Remaining \subseteq {0, 1}
  BY LobbyClockAssumption DEF Remaining

\* A step that leaves the countdown and the views alone.
LEMMA QuietStep ==
  ASSUME CInv, TypeOK', UNCHANGED <<clockVars, tickerVars, view>>,
         UNCHANGED pc[Timer] \/ pc'[Timer] \in {"restart", "start", "done"},
         pc'[Timer] = "restart" => age = LobbyDuration,
         restarted => restarted', failed => failed',
         status # "lobby" => status' # "lobby" \/ failed'
  PROVE  CInv'
  BY LobbyClockAssumption
  DEF CInv, TypeOK, TimerInStep, MessageInStep, WaitInStep, SilenceExplained, Present, Remaining,
      clockVars, tickerVars

LEMMA SecondStep ==
  ASSUME CInv, Second
  PROVE  CInv'
<1>1. TypeOK'
  BY LobbyClockAssumption DEF CInv, TypeOK, TimerInStep, Second, AtRest, tickerVars, history
<1>2. TimerInStep'
  BY <1>1, LobbyClockAssumption
  DEF CInv, TypeOK, TimerInStep, Second, AtRest, tickerVars, history
<1>3. MessageInStep' /\ WaitInStep'
  BY DEF MessageInStep, WaitInStep, Second, AtRest, tickerVars
<1>4. SilenceExplained'
  BY LobbyClockAssumption
  DEF CInv, TypeOK, SilenceExplained, Second, Present, tickerVars, history
<1>. QED
  BY <1>1, <1>2, <1>3, <1>4 DEF CInv

LEMMA TickerStep ==
  ASSUME CInv, Ticker
  PROVE  CInv'
<1>. USE DEF CInv
<1>1. CASE Look
  <2>1. TypeOK'
    BY <1>1 DEF TypeOK, Look, history
  <2>. QED
    BY <1>1, <2>1 DEF Look, TimerInStep, MessageInStep, WaitInStep, SilenceExplained, Present, history
<1>2. CASE Compute
  <2>1. TypeOK'
    BY <1>2, RemainingRange DEF TypeOK, Compute, clockVars, history
  <2>2. Remaining' = Remaining
    BY <1>2 DEF Compute, Remaining, clockVars
  <2>. QED
    BY <1>2, <2>1, <2>2
    DEF Compute, TimerInStep, MessageInStep, WaitInStep, SilenceExplained, Present, clockVars, history
<1>3. CASE Announce
  <2>1. TypeOK'
    BY <1>3 DEF TypeOK, Announce, Tell, IsLast, clockVars, history
  <2>2. Remaining' = Remaining /\ Remaining \subseteq 0 .. LobbyDuration /\ message \in Nat
    BY <1>3, RemainingRange DEF TypeOK, Announce, Remaining, clockVars
  <2>3. \A c \in Present' : view'[c] = message
    BY <1>3 DEF Announce, Tell, Present
  <2>4. TimerInStep' /\ MessageInStep'
    BY <1>3 DEF Announce, IsLast, TimerInStep, MessageInStep, clockVars, history
  <2>5. WaitInStep'
    <3>. SUFFICES ASSUME ticker' = "wait" PROVE age' < LobbyDuration /\ message \in Remaining'
      BY <2>3 DEF WaitInStep
    <3>1. message # 0 /\ message \in Remaining
      BY <1>3, <2>2 DEF Announce, IsLast, MessageInStep
    <3>. QED
      BY <1>3, <2>2, <3>1, RemainingRange, LobbyClockAssumption DEF TypeOK, Announce, clockVars
  <2>6. SilenceExplained'
    <3>. SUFFICES ASSUME ticker' = "done", ~restarted
                  PROVE  age' + 1 >= LobbyDuration /\ message \in {0, 1}
      BY <1>3, <2>3 DEF SilenceExplained, Announce, history
    <3>1. message = 0 /\ message \in Remaining
      BY <1>3, <2>2 DEF Announce, IsLast, MessageInStep
    <3>. QED
      BY <1>3, <3>1, RemainingRange DEF TypeOK, Announce, clockVars
  <2>. QED
    BY <2>1, <2>4, <2>5, <2>6
<1>. QED
  BY <1>1, <1>2, <1>3 DEF Ticker

LEMMA ScheduleStep ==
  ASSUME CInv, Schedule
  PROVE  CInv'
<1>. USE DEF CInv
<1>1. CASE Arm
  <2>1. TypeOK'
    BY <1>1, LobbyClockAssumption DEF TypeOK, Arm, Goto, tickerVars, history
  <2>2. TimerInStep'
    <3>1. CASE status = "lobby"
      <4>1. pc'[Timer] = "sleep" /\ age' + left' = LobbyDuration
        BY <1>1, <3>1, LobbyClockAssumption DEF TypeOK, Arm, Goto
      <4>. QED
        BY <4>1 DEF TimerInStep
    <3>2. CASE status # "lobby"
      <4>1. pc'[Timer] = "done"
        BY <1>1, <3>2 DEF TypeOK, Arm, Goto
      <4>. QED
        BY <4>1 DEF TimerInStep
    <3>. QED
      BY <3>1, <3>2
  <2>3. age = age' \/ (age = LobbyDuration /\ age' = 0 /\ restarted)
    BY <1>1 DEF Arm, TimerInStep
  <2>4. CASE age = age'
    BY <1>1, <2>1, <2>2, <2>4
    DEF Arm, MessageInStep, WaitInStep, SilenceExplained, Present, Remaining, tickerVars, history
  <2>5. CASE age = LobbyDuration /\ age' = 0 /\ restarted
    <3>1. MessageInStep'
      BY <1>1, <2>5, RemainingRange DEF TypeOK, Arm, MessageInStep, tickerVars, history
    <3>2. WaitInStep'
      BY <1>1, <2>5, LobbyClockAssumption DEF Arm, WaitInStep, tickerVars
    <3>. QED
      BY <1>1, <2>1, <2>2, <2>5, <3>1, <3>2 DEF Arm, SilenceExplained, history
  <2>. QED
    BY <2>3, <2>4, <2>5
<1>2. CASE Expire
  <2>1. TypeOK' /\ pc'[Timer] \in {"restart", "start", "done"} /\ age = LobbyDuration
    BY <1>2, LobbyClockAssumption
    DEF TypeOK, TimerInStep, Expire, Goto, clockVars, tickerVars, history
  <2>. QED
    BY <1>2, <2>1, QuietStep DEF Expire, history
<1>3. CASE AnnounceRestart
  <2>1. TypeOK'
    BY <1>3 DEF TypeOK, AnnounceRestart, Goto, Tell, clockVars, tickerVars
  <2>2. TimerInStep'
    BY <1>3, <2>1 DEF TypeOK, AnnounceRestart, Goto, TimerInStep, clockVars
  <2>3. age = LobbyDuration
    BY <1>3 DEF AnnounceRestart, TimerInStep
  <2>4. MessageInStep' /\ WaitInStep'
    BY <1>3, <2>3, LobbyClockAssumption
    DEF TypeOK, AnnounceRestart, MessageInStep, WaitInStep, Remaining, clockVars, tickerVars
  <2>. QED
    BY <1>3, <2>1, <2>2, <2>4 DEF AnnounceRestart, SilenceExplained
<1>. QED
  BY <1>1, <1>2, <1>3 DEF Schedule

LEMMA RegisterStep ==
  ASSUME CInv, NEW c \in Clients, Register(c)
  PROVE  CInv'
<1>. USE DEF CInv, Register
<1>1. PICK n \in Remaining : view' = [view EXCEPT ![c] = n]
  OBVIOUS
<1>2. Remaining' = Remaining /\ n \in 0 .. LobbyDuration /\ pc'[Timer] = pc[Timer]
  BY <1>1, RemainingRange, LobbyClockAssumption DEF TypeOK, Remaining, Goto, clockVars
<1>3. TypeOK'
  BY <1>1, <1>2, LobbyClockAssumption DEF TypeOK, Goto, clockVars, tickerVars, history
<1>4. \A d \in Present' : view'[d] = n \/ (d \in Present /\ view'[d] = view[d])
  BY <1>1 DEF TypeOK, Present
<1>5. TimerInStep' /\ MessageInStep'
  BY <1>2 DEF TimerInStep, MessageInStep, clockVars, tickerVars, history
<1>6. WaitInStep'
  BY <1>2, <1>4 DEF WaitInStep, clockVars, tickerVars
<1>7. SilenceExplained'
  BY <1>4, RemainingRange DEF TypeOK, SilenceExplained, clockVars, tickerVars, history
<1>. QED
  BY <1>3, <1>5, <1>6, <1>7

LEMMA LeaveStep ==
  ASSUME CInv, NEW c \in Clients, Leave(c)
  PROVE  CInv'
<1>. USE DEF CInv, Leave
<1>1. TypeOK' /\ pc'[Timer] = pc[Timer]
  BY LobbyClockAssumption DEF TypeOK, Goto, clockVars, tickerVars, history
<1>2. \A d \in Present' : d \in Present /\ view'[d] = view[d]
  BY DEF TypeOK, Present
<1>3. TimerInStep' /\ MessageInStep'
  BY <1>1 DEF TimerInStep, MessageInStep, Remaining, clockVars, tickerVars, history
<1>. QED
  BY <1>1, <1>2, <1>3
  DEF WaitInStep, SilenceExplained, Remaining, clockVars, tickerVars, history

LEMMA OtherSteps ==
  ASSUME CInv,
         \/ \E c \in Clients : TryStart(c) \/ Join(c) \/ Select(c)
         \/ \E p \in Clients \cup {Timer} : StartGame(p)
  PROVE  CInv'
<1>. USE DEF CInv, clockVars, tickerVars, history
<1>1. ASSUME NEW c \in Clients, TryStart(c) \/ Join(c) \/ Select(c)
      PROVE  CInv'
  <2>1. TypeOK' /\ pc'[Timer] = pc[Timer]
    BY <1>1, LobbyClockAssumption DEF TypeOK, TryStart, Join, Select, Goto
  <2>2. pc'[Timer] = "restart" => age = LobbyDuration
    BY <2>1 DEF TimerInStep
  <2>. QED
    BY <1>1, <2>1, <2>2, QuietStep DEF TryStart, Join, Select
<1>2. ASSUME NEW p \in Clients \cup {Timer}, StartGame(p)
      PROVE  CInv'
  <2>1. PICK l \in {"done", "idle"} : Goto(p, l) /\ (l = "done" <=> p = Timer)
    BY <1>2 DEF StartGame, StartSucceeds, StartFails, AfterStart
  <2>2. pc'[Timer] = pc[Timer] \/ pc'[Timer] = "done"
    BY <2>1, LobbyClockAssumption DEF TypeOK, Goto
  <2>3. pc' \in [Clients \cup {Timer} -> {"arm", "sleep", "restart", "done", "away",
                                         "register", "idle", "try", "start"}]
    BY <2>1 DEF TypeOK, Goto
  <2>4. \A c \in Clients : pc'[c] \in {"away", "register", "idle", "try", "start"}
    BY <2>1, LobbyClockAssumption DEF TypeOK, Goto
  <2>5. TypeOK'
    BY <1>2, <2>2, <2>3, <2>4 DEF TypeOK, StartGame, StartSucceeds, StartFails
  <2>6. pc'[Timer] = "restart" => age = LobbyDuration
    BY <2>2 DEF TimerInStep
  <2>. QED
    BY <1>2, <2>2, <2>5, <2>6, QuietStep DEF StartGame, StartSucceeds, StartFails
<1>. QED
  BY <1>1, <1>2

-----------------------------------------------------------------------------
(* Theorems. *)

\* The ticker, the timer and what clients have been told stay in step, in every order of
\* ticks, joins, restarts and starts.
THEOREM Invariant == Spec => []CInv
<1>1. Init => CInv
  <2>. SUFFICES ASSUME Init PROVE CInv
    OBVIOUS
  <2>1. pc[Timer] = "arm" /\ \A c \in Clients : pc[c] = "away"
    BY LobbyClockAssumption DEF Init
  <2>2. pc \in [Clients \cup {Timer} -> {"arm", "sleep", "restart", "done", "away",
                                        "register", "idle", "try", "start"}]
    BY DEF Init
  <2>3. view \in [Clients -> (0 .. LobbyDuration) \cup {Restart, Nothing}]
    BY DEF Init
  <2>4. age \in 0 .. LobbyDuration /\ left \in 0 .. LobbyDuration /\ message \in 0 .. LobbyDuration
    BY LobbyClockAssumption DEF Init
  <2>5. TypeOK
    BY <2>1, <2>2, <2>3, <2>4 DEF Init, TypeOK
  <2>. QED
    BY <2>1, <2>5, LobbyClockAssumption
    DEF Init, CInv, TimerInStep, MessageInStep, WaitInStep, SilenceExplained, Present
<1>2. CInv /\ [Next]_vars => CInv'
  <2>. SUFFICES ASSUME CInv, [Next]_vars PROVE CInv'
    OBVIOUS
  <2>1. CASE UNCHANGED vars
    BY <2>1 DEF vars, clockVars, tickerVars, history, CInv, TypeOK, TimerInStep, MessageInStep,
                WaitInStep, SilenceExplained, Present, Remaining
  <2>. QED
    BY <2>1, SecondStep, TickerStep, ScheduleStep, RegisterStep, LeaveStep, OtherSteps
    DEF Next, Handle
<1>. QED
  BY <1>1, <1>2, PTL DEF Spec

\* Every variable keeps its range.
THEOREM TypeCorrect == Spec => []TypeOK
<1>1. CInv => TypeOK
  BY DEF CInv
<1>. QED
  BY <1>1, Invariant, PTL

\* While the ticker runs, what the clients of a lobby have been told of the countdown is
\* true to the second.
THEOREM CountdownIsAccurate == Spec => []CountdownAccurate
<1>1. CInv => CountdownAccurate
  BY DEF CInv, WaitInStep, CountdownAccurate, AtRest
<1>. QED
  BY <1>1, Invariant, PTL

\* Before the first restart and the first failed start the ticker is silent in the last
\* second only.
THEOREM SilenceHasReason == Spec => []SilenceExplained
<1>1. CInv => SilenceExplained
  BY DEF CInv
<1>. QED
  BY <1>1, Invariant, PTL
=============================================================================
