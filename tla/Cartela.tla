------------------------------- MODULE Cartela -------------------------------
(***************************************************************************)
(* The boards of internal/utils/game_id.go: GenerateCartelaMatrix as the   *)
(* process that fills a board cell by cell, CheckBingoWin and FormatBall   *)
(* as functions.  The code's board has five columns of fifteen numbers.    *)
(***************************************************************************)
EXTENDS Integers, FiniteSets

CONSTANTS
    N,    \* rows and columns of a board: 5 in the code
    K     \* numbers of a column to draw from: 15 in the code

ASSUME CartelaAssumption ==
    /\ N \in Nat /\ N >= 2
    /\ K \in Nat /\ K >= N

VARIABLES
    matrix,      \* the board: 0 where nothing is drawn yet and in the free cell
    used,        \* the numbers drawn so far
    row, col     \* the loop counters: columns outside, rows inside

vars == <<matrix, used, row, col>>

Index == 0 .. N - 1
Cells == Index \X Index
Balls == 1 .. N * K

\* The free cell is in the middle: 2 of 0 .. 4.
Mid == N \div 2
Center == <<Mid, Mid>>

\* Mutated form: Int(rand, max - min) never returns the largest number of the column.
ColumnRangeShort(c) == c * K + 1 .. c * K + K - 1
\* ranges[col]: 1-15, 16-30, ...
ColumnRange(c) == c * K + 1 .. c * K + K

-----------------------------------------------------------------------------
(* GenerateCartelaMatrix *)

Init ==
    /\ matrix = [cell \in Cells |-> 0]
    /\ used = {}
    /\ row = 0 /\ col = 0

Generated == col = N

NextCell ==
    IF row = N - 1 THEN row' = 0 /\ col' = col + 1
                   ELSE row' = row + 1 /\ col' = col

\* The middle is left free.
FreeCell ==
    /\ ~Generated /\ <<row, col>> = Center
    /\ NextCell
    /\ UNCHANGED <<matrix, used>>

\* Mutated form: a number that is used already is taken.
DrawCellAgain ==
    /\ ~Generated /\ <<row, col>> # Center
    /\ \E val \in ColumnRange(col) :
          /\ matrix' = [matrix EXCEPT ![<<row, col>>] = val]
          /\ used' = used \cup {val}
    /\ NextCell
\* The inner loop draws until it has a number that is not used: the draws it throws
\* away change nothing.
DrawCell ==
    /\ ~Generated /\ <<row, col>> # Center
    /\ \E val \in ColumnRange(col) \ used :
          /\ matrix' = [matrix EXCEPT ![<<row, col>>] = val]
          /\ used' = used \cup {val}
    /\ NextCell

Return == Generated /\ UNCHANGED vars

Next == FreeCell \/ DrawCell \/ Return

Spec == Init /\ [][Next]_vars

-----------------------------------------------------------------------------
(* CheckBingoWin *)

\* A cell counts if it is free or its number has been called.
Marked(m, called, cell) == m[cell] = 0 \/ m[cell] \in called

RowComplete(m, called, r) == \A c \in Index : Marked(m, called, <<r, c>>)
ColumnComplete(m, called, c) == \A r \in Index : Marked(m, called, <<r, c>>)
Diagonal1Complete(m, called) == \A i \in Index : Marked(m, called, <<i, i>>)
Diagonal2Complete(m, called) == \A i \in Index : Marked(m, called, <<i, N - 1 - i>>)

\* Mutated form: the second diagonal is forgotten.
CheckBingoWinOneDiagonal(m, called) ==
    IF \E r \in Index : RowComplete(m, called, r) THEN [won |-> TRUE, type |-> "row"]
    ELSE IF \E c \in Index : ColumnComplete(m, called, c) THEN [won |-> TRUE, type |-> "column"]
    ELSE [won |-> Diagonal1Complete(m, called), type |-> "diagonal"]
\* Rows before columns before diagonals: the first complete line names the win.
CheckBingoWin(m, called) ==
    IF \E r \in Index : RowComplete(m, called, r) THEN [won |-> TRUE, type |-> "row"]
    ELSE IF \E c \in Index : ColumnComplete(m, called, c) THEN [won |-> TRUE, type |-> "column"]
    ELSE IF Diagonal1Complete(m, called) \/ Diagonal2Complete(m, called)
         THEN [won |-> TRUE, type |-> "diagonal"]
    ELSE [won |-> FALSE, type |-> ""]

-----------------------------------------------------------------------------
(* FormatBall: the letter (here: the number of the letter) of the range a ball is in, and
   the "?" of the default case as N.                                        *)

Letter(ball) ==
    IF \E c \in Index : ball >= c * K + 1 /\ ball <= c * K + K
    THEN CHOOSE c \in Index : ball >= c * K + 1 /\ ball <= c * K + K
    ELSE N

-----------------------------------------------------------------------------
(* Properties. *)

TypeOK ==
    /\ matrix \in [Cells -> Balls \cup {0}]
    /\ used \in SUBSET Balls
    /\ row \in Index
    /\ col \in 0 .. N

\* A board is a player's to win with: it is full but for its middle, every number is
\* of its column's range, and none comes twice.
BoardOK(m) ==
    /\ \A cell \in Cells : m[cell] = 0 <=> cell = Center
    /\ \A cell \in Cells \ {Center} : m[cell] \in ColumnRange(cell[2])
    /\ \A d, e \in Cells : m[d] = m[e] => d = e

\* What GenerateCartelaMatrix returns is such a board.
GeneratesBoards == Generated => BoardOK(matrix)

\* The draw that repeats until it finds an unused number (game_id.go:45-53) can always
\* find one: the loop never runs dry, whatever was drawn before.
DrawPossible == ~Generated => ColumnRange(col) \ used # {}

\* The numbers on the cells of a line.
Numbers(m, line) == {m[cell] : cell \in line} \ {0}

\* The numbers of each row, column and diagonal of a board.
LinesOf(m) ==
    {Numbers(m, {<<r, c>> : c \in Index}) : r \in Index}
    \cup {Numbers(m, {<<r, c>> : r \in Index}) : c \in Index}
    \cup {Numbers(m, {<<i, i>> : i \in Index}), Numbers(m, {<<i, N - 1 - i>> : i \in Index})}

\* Whatever has been called, CheckBingoWin finds a win exactly when all the numbers of
\* some line have been: this is the Wins of module BingoRoom.
WinIsALine ==
    Generated => \A called \in SUBSET Balls :
        CheckBingoWin(matrix, called).won <=> \E line \in LinesOf(matrix) : line \subseteq called

\* A ball is announced with the letter of the column that players find it in.
LetterNamesColumn ==
    Generated => \A cell \in Cells \ {Center} : Letter(matrix[cell]) = cell[2]
=============================================================================
