SPECIFICATION FairSpec
CONSTANTS
    c1 = c1
    u1 = u1
    u2 = u2
    Nil = Nil
    Games = {g1}
    Ending = {g1}
    Talking = {g1}
    Conns = {c1, c2}
    Users = {u1, u2}
    TokensOf <- TwoTabs
    Droppable = {c1, c2}
    Cap = 1
CHECK_DEADLOCK FALSE
INVARIANTS ClosedHasMoved SendersServed LeaksExplained
PROPERTY RoomsGoOn
