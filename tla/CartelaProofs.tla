---------------------------- MODULE CartelaProofs ----------------------------
(***************************************************************************)
(* Theorems of Cartela, for boards of every size.                          *)
(***************************************************************************)
EXTENDS Cartela, FiniteSetTheorems, TLAPS

\* The middle is a row and a column.
LEMMA MidIndex == Mid \in Index /\ Center \in Cells
  BY CartelaAssumption DEF Mid, Center, Index, Cells

\* The numbers of every column are balls, and none of them is 0.
LEMMA Ranges ==
  ASSUME NEW c \in Index
  PROVE  ColumnRange(c) \subseteq Balls /\ 0 \notin ColumnRange(c)
<1>1. c \in Nat /\ K \in Nat /\ N \in Nat /\ c + 1 <= N
  BY CartelaAssumption DEF Index
<1>2. c * K \in Nat /\ (c + 1) * K = c * K + K
  BY <1>1
<1>3. (c + 1) * K <= N * K
  BY <1>1
<1>. QED
  BY <1>1, <1>2, <1>3 DEF ColumnRange, Balls

-----------------------------------------------------------------------------
(* CheckBingoWin *)

\* The numbers of a line are called when every cell of it is marked.
LEMMA LineCalled ==
  ASSUME NEW m, NEW L, NEW called
  PROVE  Numbers(m, L) \subseteq called <=> \A cell \in L : Marked(m, called, cell)
  BY DEF Numbers, Marked

\* CheckBingoWin is right for every board and every set of called balls, whatever the
\* order it looks at the lines in.
THEOREM WinsAreLines ==
  ASSUME NEW m, NEW called
  PROVE  CheckBingoWin(m, called).won <=> \E line \in LinesOf(m) : line \subseteq called
<1>1. ASSUME NEW r
      PROVE  RowComplete(m, called, r) <=> Numbers(m, {<<r, c>> : c \in Index}) \subseteq called
  <2>1. RowComplete(m, called, r) <=> \A cell \in {<<r, c>> : c \in Index} : Marked(m, called, cell)
    BY Zenon DEF RowComplete
  <2>. QED
    BY <2>1, LineCalled
<1>2. ASSUME NEW c
      PROVE  ColumnComplete(m, called, c) <=> Numbers(m, {<<r, c>> : r \in Index}) \subseteq called
  <2>1. ColumnComplete(m, called, c) <=> \A cell \in {<<r, c>> : r \in Index} : Marked(m, called, cell)
    BY Zenon DEF ColumnComplete
  <2>. QED
    BY <2>1, LineCalled
<1>3. Diagonal1Complete(m, called) <=> Numbers(m, {<<i, i>> : i \in Index}) \subseteq called
  <2>1. Diagonal1Complete(m, called) <=> \A cell \in {<<i, i>> : i \in Index} : Marked(m, called, cell)
    BY Zenon DEF Diagonal1Complete
  <2>. QED
    BY <2>1, LineCalled
<1>4. Diagonal2Complete(m, called) <=> Numbers(m, {<<i, N - 1 - i>> : i \in Index}) \subseteq called
  <2>1. Diagonal2Complete(m, called)
          <=> \A cell \in {<<i, N - 1 - i>> : i \in Index} : Marked(m, called, cell)
    BY Zenon DEF Diagonal2Complete
  <2>. QED
    BY <2>1, LineCalled
<1>5. CheckBingoWin(m, called).won <=> \/ \E r \in Index : RowComplete(m, called, r)
                                       \/ \E c \in Index : ColumnComplete(m, called, c)
                                       \/ Diagonal1Complete(m, called)
                                       \/ Diagonal2Complete(m, called)
  BY DEF CheckBingoWin
<1>6. (\E line \in LinesOf(m) : line \subseteq called)
        <=> \/ \E r \in Index : Numbers(m, {<<r, c>> : c \in Index}) \subseteq called
            \/ \E c \in Index : Numbers(m, {<<r, c>> : r \in Index}) \subseteq called
            \/ Numbers(m, {<<i, i>> : i \in Index}) \subseteq called
            \/ Numbers(m, {<<i, N - 1 - i>> : i \in Index}) \subseteq called
  BY Zenon DEF LinesOf
<1>. QED
  BY <1>1, <1>2, <1>3, <1>4, <1>5, <1>6, Zenon

\* The property that the run checks follows for every board, generated or not.
COROLLARY WinIsALineAlways == WinIsALine
  BY WinsAreLines DEF WinIsALine

\* Calling more balls never takes a win away.
COROLLARY WinsStay ==
  ASSUME NEW m, NEW called, NEW more, called \subseteq more, CheckBingoWin(m, called).won
  PROVE  CheckBingoWin(m, more).won
  BY WinsAreLines

-----------------------------------------------------------------------------
(* GenerateCartelaMatrix *)

\* The cells the loops have been through.
Passed(cell) == cell[2] < col \/ (cell[2] = col /\ cell[1] < row)

\* A board on its way: what is passed is drawn from its column, what is not is 0, and
\* the numbers of a column that are used are those on its cells.
Filling ==
    /\ TypeOK
    /\ \A cell \in Cells : Passed(cell) /\ cell # Center
                              => matrix[cell] \in ColumnRange(cell[2])
    /\ \A cell \in Cells : ~Passed(cell) \/ cell = Center => matrix[cell] = 0
    /\ \A d, e \in Cells : matrix[d] = matrix[e] /\ matrix[d] # 0 => d = e
    /\ used = {matrix[cell] : cell \in Cells} \ {0}

\* The ranges of two columns have nothing in common.
LEMMA RangesApart ==
  ASSUME NEW c \in Index, NEW d \in Index, c # d
  PROVE  ColumnRange(c) \cap ColumnRange(d) = {}
<1>. SUFFICES ASSUME NEW a \in Index, NEW b \in Index, a < b
              PROVE  ColumnRange(a) \cap ColumnRange(b) = {}
  BY DEF Index
<1>1. a \in Nat /\ b \in Nat /\ K \in Nat /\ a + 1 <= b
  BY CartelaAssumption DEF Index
<1>2. (a + 1) * K <= b * K /\ (a + 1) * K = a * K + K /\ a * K \in Nat /\ b * K \in Nat
  BY <1>1
<1>. QED
  BY <1>1, <1>2 DEF ColumnRange

\* A function takes no more values than it has arguments.
LEMMA ImageCount ==
  ASSUME NEW S, IsFiniteSet(S), NEW f, f = [x \in S |-> f[x]]
  PROVE  LET T == {f[x] : x \in S} IN IsFiniteSet(T) /\ Cardinality(T) <= Cardinality(S)
<1>. DEFINE T == {f[x] : x \in S}
<1>1. f \in Surjection(S, T)
  BY DEF Surjection
<1>. QED
  BY <1>1, FS_Surjection

\* Where the loops go next: what has been passed, and the cell they leave.
LEMMA Advance ==
  ASSUME TypeOK, ~Generated, NextCell
  PROVE  /\ row' \in Index /\ col' \in 0 .. N
         /\ <<row, col>> \in Cells /\ ~Passed(<<row, col>>)
         /\ \A cell \in Cells : Passed(cell)' <=> Passed(cell) \/ cell = <<row, col>>
<1>1. N \in Nat /\ N >= 2
  BY CartelaAssumption
<1>2. row \in Nat /\ col \in Nat /\ row <= N - 1 /\ col <= N - 1
  BY <1>1 DEF TypeOK, Generated, Index
<1>3. row' \in Index /\ col' \in 0 .. N
  BY <1>1, <1>2 DEF NextCell, Index
<1>4. <<row, col>> \in Cells /\ ~Passed(<<row, col>>)
  BY <1>1, <1>2 DEF Cells, Index, Passed
<1>5. ASSUME NEW cell \in Cells
      PROVE  Passed(cell)' <=> Passed(cell) \/ cell = <<row, col>>
  <2>1. cell = <<cell[1], cell[2]>> /\ cell[1] \in 0 .. N - 1 /\ cell[2] \in 0 .. N - 1
    BY DEF Cells, Index
  <2>. QED
    BY <1>1, <1>2, <2>1 DEF NextCell, Passed
<1>. QED
  BY <1>3, <1>4, <1>5

\* Every step of the loops keeps the board on its way.
LEMMA FillingStep == Filling /\ [Next]_vars => Filling'
<1>. SUFFICES ASSUME Filling, [Next]_vars PROVE Filling'
  OBVIOUS
<1>1. CASE FreeCell
  <2>1. /\ UNCHANGED <<matrix, used>> /\ <<row, col>> = Center
        /\ row' \in Index /\ col' \in 0 .. N
        /\ \A cell \in Cells : Passed(cell)' <=> Passed(cell) \/ cell = Center
    BY <1>1, Advance DEF FreeCell, Filling
  <2>. QED
    BY <2>1 DEF Filling, TypeOK
<1>2. CASE DrawCell
  <2>. DEFINE here == <<row, col>>
  <2>1. PICK val \in ColumnRange(col) \ used :
           matrix' = [matrix EXCEPT ![here] = val] /\ used' = used \cup {val}
    BY <1>2 DEF DrawCell
  <2>2. /\ row' \in Index /\ col' \in 0 .. N
        /\ here \in Cells /\ ~Passed(here) /\ here # Center
        /\ \A cell \in Cells : Passed(cell)' <=> Passed(cell) \/ cell = here
    BY <1>2, Advance DEF DrawCell, Filling
  <2>3. col \in Index
    BY <2>2 DEF Cells
  <2>4. val \in Balls /\ val # 0 /\ val \notin used
    BY <2>3, Ranges
  <2>5. /\ matrix' \in [Cells -> Balls \cup {0}] /\ matrix'[here] = val /\ matrix[here] = 0
        /\ \A cell \in Cells \ {here} : matrix'[cell] = matrix[cell]
    BY <2>1, <2>2, <2>4 DEF Filling, TypeOK
  <2>6. TypeOK'
    BY <2>1, <2>2, <2>4, <2>5 DEF Filling, TypeOK
  <2>7. \A cell \in Cells : Passed(cell)' /\ cell # Center => matrix'[cell] \in ColumnRange(cell[2])
    BY <2>2, <2>5 DEF Filling
  <2>8. \A cell \in Cells : ~Passed(cell)' \/ cell = Center => matrix'[cell] = 0
    BY <2>2, <2>5 DEF Filling
  <2>9. \A cell \in Cells : matrix[cell] # val
    BY <2>4 DEF Filling
  <2>10. \A d, e \in Cells : matrix'[d] = matrix'[e] /\ matrix'[d] # 0 => d = e
    BY <2>5, <2>9 DEF Filling
  <2>11. used' = {matrix'[cell] : cell \in Cells} \ {0}
    <3>1. \A x : x \in used' <=> \E cell \in Cells : matrix'[cell] = x /\ x # 0
      BY <2>1, <2>2, <2>4, <2>5 DEF Filling
    <3>. QED
      BY <3>1
  <2>. QED
    BY <2>6, <2>7, <2>8, <2>10, <2>11 DEF Filling
<1>3. CASE Return \/ UNCHANGED vars
  BY <1>3 DEF Return, vars, Filling, TypeOK, Passed
<1>. QED
  BY <1>1, <1>2, <1>3 DEF Next

\* Every reachable board is on its way.
LEMMA FillingInv == Spec => []Filling
<1>1. Init => Filling
  BY CartelaAssumption, MidIndex DEF Init, Filling, TypeOK, Passed, Index, Cells
<1>. QED
  BY <1>1, FillingStep, PTL DEF Spec

\* GenerateCartelaMatrix returns a board to play with, whatever it draws.
THEOREM BoardsGenerated == Spec => []GeneratesBoards
<1>1. Filling => GeneratesBoards
  <2>. SUFFICES ASSUME Filling, Generated PROVE BoardOK(matrix)
    BY DEF GeneratesBoards
  <2>1. \A cell \in Cells : Passed(cell) /\ cell[2] \in Index
    BY CartelaAssumption DEF Generated, Passed, Cells, Index
  <2>2. \A cell \in Cells \ {Center} : matrix[cell] \in ColumnRange(cell[2]) /\ matrix[cell] # 0
    BY <2>1, Ranges DEF Filling
  <2>3. matrix[Center] = 0
    BY MidIndex DEF Filling
  <2>. QED
    BY <2>2, <2>3 DEF BoardOK, Filling
<1>. QED
  BY <1>1, FillingInv, PTL

\* The loops fill the board with balls and end where they should.
THEOREM TypeCorrect == Spec => []TypeOK
<1>1. Filling => TypeOK
  BY DEF Filling
<1>. QED
  BY <1>1, FillingInv, PTL

\* On a generated board the wins that CheckBingoWin finds are the lines that are called.
THEOREM WinsFound == Spec => []WinIsALine
<1>1. WinIsALine
  BY WinsAreLines DEF WinIsALine
<1>. QED
  BY <1>1, PTL

\* The letter of a ball of a column is that column's, so a ball is announced as the
\* players find it on their boards.
THEOREM LettersNameColumns == Spec => []LetterNamesColumn
<1>1. ASSUME NEW c \in Index, NEW ball \in ColumnRange(c) PROVE Letter(ball) = c
  <2>. DEFINE Of(d) == ball >= d * K + 1 /\ ball <= d * K + K
  <2>1. \A d \in Index : Of(d) <=> ball \in ColumnRange(d)
    <3>1. ball \in Int /\ K \in Nat
      BY CartelaAssumption, Ranges DEF Balls
    <3>2. \A d \in Index : d * K + 1 \in Int /\ d * K + K \in Int
      BY <3>1 DEF Index
    <3>. QED
      BY <3>1, <3>2 DEF ColumnRange
  <2>2. \A d \in Index : Of(d) <=> d = c
    BY <2>1, RangesApart
  <2>3. Letter(ball) = IF \E d \in Index : Of(d) THEN CHOOSE d \in Index : Of(d) ELSE N
    BY DEF Letter
  <2>. HIDE DEF Of
  <2>. QED
    BY <2>2, <2>3
<1>2. BoardOK(matrix) => \A cell \in Cells \ {Center} : Letter(matrix[cell]) = cell[2]
  BY <1>1 DEF BoardOK, Cells
<1>. QED
  BY <1>2, BoardsGenerated, PTL DEF LetterNamesColumn, GeneratesBoards

\* The loop that throws used numbers away always has one left to find.
THEOREM DrawAlwaysPossible == Spec => []DrawPossible
<1>1. Filling => DrawPossible
  <2>. SUFFICES ASSUME Filling, ~Generated, ColumnRange(col) \subseteq used PROVE FALSE
    BY DEF DrawPossible
  <2>. DEFINE above == 0 .. row - 1
              f == [r \in above |-> matrix[<<r, col>>]]
              drawn == {f[r] : r \in above}
  <2>1. N \in Nat /\ K \in Nat /\ N <= K /\ row \in Nat /\ row < N /\ col \in Index
    BY CartelaAssumption DEF Filling, TypeOK, Generated, Index
  <2>2. IsFiniteSet(above) /\ Cardinality(above) = row
    BY <2>1, FS_Interval
  <2>3. IsFiniteSet(drawn) /\ Cardinality(drawn) <= row
    <3>1. f = [r \in above |-> f[r]]
      OBVIOUS
    <3>. HIDE DEF above, f
    <3>. QED
      BY <2>2, <3>1, ImageCount
  <2>4. ASSUME NEW val \in ColumnRange(col) PROVE val \in drawn
    <3>1. PICK cell \in Cells : matrix[cell] = val /\ val # 0
      BY DEF Filling
    <3>2. Passed(cell) /\ matrix[cell] \in ColumnRange(cell[2]) /\ cell[2] \in Index
      BY <3>1 DEF Filling, Cells
    <3>3. cell[2] = col
      BY <2>1, <3>1, <3>2, RangesApart
    <3>4. cell[1] \in above /\ cell = <<cell[1], col>>
      BY <2>1, <3>2, <3>3 DEF Passed, Cells, Index
    <3>. QED
      BY <3>1, <3>4
  <2>5. Cardinality(ColumnRange(col)) <= Cardinality(drawn)
    BY <2>3, <2>4, FS_Subset
  <2>6. Cardinality(ColumnRange(col)) = K
    <3>1. col * K \in Nat
      BY <2>1 DEF Index
    <3>. QED
      BY <2>1, <3>1, FS_Interval DEF ColumnRange
  <2>7. Cardinality(drawn) \in Nat
    BY <2>3, FS_CardinalityType, Zenon
  <2>. HIDE DEF drawn
  <2>. QED
    BY <2>1, <2>3, <2>5, <2>6, <2>7
<1>. QED
  BY <1>1, FillingInv, PTL

\* The lines of a board are sets of balls, and none is empty: module BingoRoom assumes
\* so of its Lines.
THEOREM LinesOfBoards ==
  ASSUME NEW m, BoardOK(m)
  PROVE  LinesOf(m) \subseteq (SUBSET Balls) \ {{}}
<1>1. \A cell \in Cells \ {Center} : m[cell] \in Balls /\ m[cell] # 0
  BY Ranges DEF BoardOK, Cells
<1>2. ASSUME NEW L \in SUBSET Cells, NEW d \in L, NEW e \in L, d # e
      PROVE  Numbers(m, L) \in (SUBSET Balls) \ {{}}
  <2>1. Numbers(m, L) \subseteq Balls
    BY <1>1 DEF Numbers, BoardOK
  <2>2. PICK cell \in L : cell # Center
    BY <1>2
  <2>3. m[cell] \in Numbers(m, L)
    BY <1>1, <2>2 DEF Numbers
  <2>. QED
    BY <2>1, <2>3
<1>3. {0, 1, N - 1, N - 2} \subseteq Index /\ N - 1 # N - 2 /\ \A i \in Index : N - 1 - i \in Index
  BY CartelaAssumption DEF Index
<1>4. ASSUME NEW r \in Index
      PROVE  Numbers(m, {<<r, c>> : c \in Index}) \in (SUBSET Balls) \ {{}}
  <2>. DEFINE L == {<<r, c>> : c \in Index}
  <2>1. L \subseteq Cells /\ <<r, 0>> \in L /\ <<r, 1>> \in L
    BY <1>3 DEF Cells
  <2>2. <<r, 0>> # <<r, 1>>
    BY <1>3
  <2>. QED
    BY <1>2, <2>1, <2>2, Zenon
<1>5. ASSUME NEW c \in Index
      PROVE  Numbers(m, {<<r, c>> : r \in Index}) \in (SUBSET Balls) \ {{}}
  <2>. DEFINE L == {<<r, c>> : r \in Index}
  <2>1. L \subseteq Cells /\ <<0, c>> \in L /\ <<1, c>> \in L
    BY <1>3 DEF Cells
  <2>2. <<0, c>> # <<1, c>>
    BY <1>3
  <2>. QED
    BY <1>2, <2>1, <2>2, Zenon
<1>6. Numbers(m, {<<i, i>> : i \in Index}) \in (SUBSET Balls) \ {{}}
  <2>. DEFINE L == {<<i, i>> : i \in Index}
  <2>1. L \subseteq Cells /\ <<0, 0>> \in L /\ <<1, 1>> \in L
    BY <1>3 DEF Cells
  <2>2. <<0, 0>> # <<1, 1>>
    BY <1>3
  <2>. QED
    BY <1>2, <2>1, <2>2, Zenon
<1>7. Numbers(m, {<<i, N - 1 - i>> : i \in Index}) \in (SUBSET Balls) \ {{}}
  <2>. DEFINE L == {<<i, N - 1 - i>> : i \in Index}
  <2>1. L \subseteq Cells /\ <<0, N - 1>> \in L /\ <<1, N - 2>> \in L
    <3>1. N - 1 - 0 = N - 1 /\ N - 1 - 1 = N - 2 /\ 0 \in Index /\ 1 \in Index
      BY <1>3, CartelaAssumption
    <3>2. \A i \in Index : <<i, N - 1 - i>> \in L /\ <<i, N - 1 - i>> \in Cells
      BY <1>3 DEF Cells
    <3>3. L \subseteq Cells
      BY <3>2
    <3>. QED
      BY <3>1, <3>2, <3>3
  <2>2. <<0, N - 1>> # <<1, N - 2>>
    BY <1>3
  <2>. QED
    BY <1>2, <2>1, <2>2, Zenon
<1>. QED
  BY <1>4, <1>5, <1>6, <1>7, Zenon DEF LinesOf

=============================================================================
