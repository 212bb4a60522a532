SPECIFICATION Spec
CONSTANTS
    g1 = g1
    c1 = c1  c2 = c2  c3 = c3
    u1 = u1  u2 = u2  u3 = u3
    k1 = k1
    Nil = Nil
    Games = {g1}
    Users = {u1, u2}
    Conns = {c1, c2}
    TokensOf <- SharedConn
    Droppable = {c1}
    Balls = {1, 2}
    Cards = {k1}
    Lines <- MCLines
    Stake <- OneStake
    MinPlayers = 2
    Deposit <- Rich
    MaxFaults = 1
    LostReply = TRUE
CHECK_DEADLOCK FALSE
INVARIANTS StartExclusive LobbyUncharged PlayNeedsQuorum PrizeOnce
PROPERTY StatusDiscipline
