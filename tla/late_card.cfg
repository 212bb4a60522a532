SPECIFICATION Spec
CONSTANTS
    g1 = g1
    c1 = c1  c2 = c2  c3 = c3
    u1 = u1  u2 = u2  u3 = u3
    k1 = k1
    Nil = Nil
    Games = {g1}
    Users = {u1, u2, u3}
    Conns = {c1, c2, c3}
    TokensOf <- OneEach
    Droppable = {}
    Balls = {1, 2}
    Cards = {k1}
    Lines <- LastBallLines
    Stake <- OneStake
    MinPlayers = 2
    Deposit <- Solvent1
    MaxFaults = 0
    LostReply = FALSE
CHECK_DEADLOCK FALSE
INVARIANT ReadyPlayersCharged
