SPECIFICATION Spec
CONSTANTS
    N = 3
    K = 3
INVARIANTS GeneratesBoards DrawPossible WinIsALine
