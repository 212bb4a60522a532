SPECIFICATION FairSpec
CONSTANTS
    s1 = s1  s2 = s2  s3 = s3  w1 = w1
    u1 = u1  u2 = u2  u3 = u3
    Nil = Nil
    Starts = {s1, s2, s3}
    Wins = {w1}
    Users = {u1, u2, u3}
    Batch <- SharedBatch
    Stake <- Stakes
    Payee <- FirstUser
    Prize <- Prizes
    Main <- MainMC
    Play <- PlayMC
    MaxConns = 3
    MaxFaults = 1
CHECK_DEADLOCK FALSE
INVARIANTS BalancesMatchTrail SomeoneGoesOn PayoutsSucceed AnswersHold
PROPERTIES EveryCallEnds ImplementsLedger
