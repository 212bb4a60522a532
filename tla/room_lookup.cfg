SPECIFICATION Spec
CONSTANTS
    Readers = {r1, r2}
    Tiers = {10}
    MinPlayers = 1
    MaxSessions = 2
    MaxRooms = 2
    MaxFaults = 1
CHECK_DEADLOCK FALSE
INVARIANTS StakeOncePerGame ActiveHasRoom PoolExplained
PROPERTIES ResolvedForGood ImplementsLife
