SPECIFICATION Spec
CONSTANTS
    Readers = {r1, r2, r3, r4}
    Tiers = {10}
    MinPlayers = 2
    MaxSessions = 1
    MaxRooms = 2
    MaxFaults = 0
CHECK_DEADLOCK FALSE
INVARIANT PoolOfAllStakes
