SPECIFICATION FairSpec
CONSTANTS
    Clients = {c1, c2}
    LobbyDuration = 4
    MinPlayers = 2
    Timer = Timer
    Restart = Restart
    Nothing = Nothing
INVARIANTS CountdownAccurate SilenceExplained
PROPERTIES LobbyMovesOn
