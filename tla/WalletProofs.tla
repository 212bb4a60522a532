---------------------------- MODULE WalletProofs ----------------------------
(***************************************************************************)
(* Theorems of Wallet, for any number of calls, users and connections.     *)
(***************************************************************************)
EXTENDS WalletInv, FiniteSetTheorems, WellFoundedInduction, TLAPS

-----------------------------------------------------------------------------
(* Facts the proofs share. *)

\* What a call is about are users, and at least one.
LEMMA RowsTyped ==
  ASSUME NEW t \in Txns
  PROVE  Rows(t) \subseteq Users /\ Rows(t) # {}
  BY WalletAssumption DEF Rows, Txns

\* New balances are balances: what remains of a stake is never more than the main balance.
LEMMA AfterwardsTyped ==
  ASSUME NEW t \in Txns, NEW b \in Balances, t \in Starts => Total(b) >= Stake[t]
  PROVE  /\ Afterwards(t, b) \in Balances
         /\ Total(b) \in Nat /\ BalanceAfter(t, Afterwards(t, b)) \in Nat
         /\ t \in Starts => Stake[t] \in Nat /\ Total(Afterwards(t, b)) = Total(b) - Stake[t]
                            /\ BalanceAfter(t, Afterwards(t, b)) = Total(b) - Stake[t]
         /\ t \in Wins => /\ Prize[t] \in Nat /\ Total(Afterwards(t, b)) = Total(b) + Prize[t]
                          /\ BalanceAfter(t, Afterwards(t, b)) \in 0 .. Total(b) + Prize[t]
<1>1. t \in Starts => t \notin Wins /\ Stake[t] \in Nat
  BY WalletAssumption
<1>2. t \in Wins => t \notin Starts /\ Prize[t] \in Nat
  BY WalletAssumption
<1>3. b.main \in Nat /\ b.play \in Nat
  BY DEF Balances
<1>4. CASE t \in Starts
  <2>1. CASE b.play >= Stake[t]
    BY <1>1, <1>3, <1>4, <2>1 DEF Afterwards, Total, BalanceAfter, Balances
  <2>2. CASE ~(b.play >= Stake[t])
    <3>1. b.main - (Stake[t] - b.play) \in Nat
      BY <1>1, <1>3, <1>4, <2>2 DEF Total
    <3>. QED
      BY <1>1, <1>3, <1>4, <2>2, <3>1 DEF Afterwards, Total, BalanceAfter, Balances
  <2>. QED
    BY <2>1, <2>2
<1>5. CASE t \in Wins
  BY <1>2, <1>3, <1>5 DEF Afterwards, Total, BalanceAfter, Balances
<1>. QED
  BY <1>4, <1>5 DEF Txns

\* Goto moves one call and leaves the others where they are.
LEMMA CallMoves ==
  ASSUME TypeOK, NEW t \in Txns, NEW l \in Labels, Goto(t, l)
  PROVE  /\ pc' \in [Txns -> Labels] /\ pc'[t] = l
         /\ \A x \in Txns \ {t} : pc'[x] = pc[x]
  BY DEF TypeOK, Goto

\* A user a call is about is one of the users.
LEMMA DoneTyped ==
  ASSUME NEW t \in Txns
  PROVE  Done(t) \subseteq Users
  BY RowsTyped DEF Done

\* When a call is about to commit, it has the rows it is about locked, and what it is
\* about to write follows from what stands.
LEMMA ReadyToPost ==
  ASSUME WInv, NEW t \in Txns, pc[t] = "commit", NEW u \in Rows(t)
  PROVE  /\ lock[u] = t /\ wallet[u] \in Balances
         /\ new[t][u] = Afterwards(t, wallet[u])
         /\ t \in Starts => Total(wallet[u]) >= Stake[t]
  BY RowsTyped DEF WInv, CallInv, Place, Written, Done, TypeOK

-----------------------------------------------------------------------------
(* What entries add up to. *)

\* A set of naturals has a smallest member.
LEMMA Smallest ==
  ASSUME NEW T \in SUBSET Nat, T # {}
  PROVE  \E n \in T : \A m \in T : n <= m
<1>. DEFINE R == {ss \in Nat \X Nat : ss[1] < ss[2]}
<1>1. IsWellFoundedOn(R, Nat)
  BY NatLessThanWellFounded DEF OpToRel
<1>2. \E n \in T : \A m \in T : <<m, n>> \notin R
  <2>. HIDE DEF R
  <2>. QED
    BY <1>1, WFMin, Zenon
<1>3. ASSUME NEW n \in Nat, NEW m \in Nat, m < n PROVE <<m, n>> \in R
  <2>. DEFINE p == <<m, n>>
  <2>1. p \in Nat \X Nat
    OBVIOUS
  <2>2. p[1] = m /\ p[2] = n
    OBVIOUS
  <2>3. p[1] < p[2]
    BY <1>3, <2>2
  <2>. HIDE DEF p
  <2>4. p \in R
    BY <2>1, <2>3, Zenon
  <2>. QED
    BY <2>4 DEF p
<1>. HIDE DEF R
<1>4. PICK n \in T : \A m \in T : <<m, n>> \notin R
  BY <1>2, Zenon
<1>5. \A m \in T : ~(m < n)
  BY <1>3, <1>4, Zenon
<1>. QED
  BY <1>5

\* The entry that is counted first.
Pick(s) == CHOOSE x \in s : TRUE

\* f[s] is what the entries of s add up to, for every part s of S.
SumUp(f, S) ==
  f = [s \in SUBSET S |-> IF s = {} THEN 0 ELSE Amount(Pick(s).txn) + f[s \ {Pick(s)}]]

\* The fold of the library is such a function.
LEMMA MovedIs ==
  ASSUME NEW S
  PROVE  Moved(S) = (CHOOSE f : SumUp(f, S))[S]
  BY DEF Moved, MapThenSumSet, MapThenFoldSet, SumUp, Pick

\* Amounts are whole numbers of cents.
LEMMA AmountTyped ==
  ASSUME NEW t \in Txns
  PROVE  Amount(t) \in Int
  BY WalletAssumption DEF Txns, Amount

\* Among some finite sets there is one that has none of the others' size below its own.
LEMMA SmallestSet ==
  ASSUME NEW T, T # {}, \A s \in T : IsFiniteSet(s)
  PROVE  \E s \in T : \A r \in T : Cardinality(s) <= Cardinality(r)
<1>. DEFINE N == {Cardinality(s) : s \in T}
<1>1. N \in SUBSET Nat /\ N # {}
  BY FS_CardinalityType
<1>2. PICK n \in N : \A m \in N : n <= m
  BY <1>1, Smallest
<1>. QED
  BY <1>2

\* Without one of its members a finite set is finite, and smaller.
LEMMA Without ==
  ASSUME NEW S, IsFiniteSet(S), NEW x \in S
  PROVE  /\ IsFiniteSet(S \ {x}) /\ Cardinality(S) \in Nat
         /\ Cardinality(S \ {x}) \in Nat /\ Cardinality(S \ {x}) < Cardinality(S)
<1>1. IsFiniteSet(S \ {x})
  BY FS_RemoveElement
<1>2. Cardinality(S \ {x}) = Cardinality(S) - 1
  BY FS_RemoveElement
<1>3. Cardinality(S) \in Nat
  BY FS_CardinalityType
<1>4. Cardinality(S \ {x}) \in Nat
  BY <1>1, FS_CardinalityType
<1>. QED
  BY <1>1, <1>2, <1>3, <1>4

\* The sums of all parts of a finite set exist.
LEMMA SumExists ==
  ASSUME NEW S, IsFiniteSet(S)
  PROVE  \E f : SumUp(f, S)
<1>. DEFINE Right(f, s) == f[s] = IF s = {} THEN 0 ELSE Amount(Pick(s).txn) + f[s \ {Pick(s)}]
            UpTo(n) == \E f : \A s \in SUBSET S : Cardinality(s) <= n => Right(f, s)
            Bad == {n \in Nat : ~UpTo(n)}
<1>0. \A s \in SUBSET S : IsFiniteSet(s) /\ Cardinality(s) \in Nat /\ Cardinality(s) <= Cardinality(S)
                          /\ (Cardinality(s) = 0 <=> s = {})
  BY FS_Subset, FS_CardinalityType, FS_EmptySet
<1>1. Bad = {}
  <2>. SUFFICES ASSUME Bad # {} PROVE FALSE
    OBVIOUS
  <2>1. PICK n \in Bad : \A m \in Bad : n <= m
    <3>1. Bad \in SUBSET Nat
      OBVIOUS
    <3>. HIDE DEF Bad
    <3>. QED
      BY <3>1, Smallest
  <2>2. CASE n = 0
    <3>. DEFINE f == [s \in SUBSET S |-> 0]
    <3>1. \A s \in SUBSET S : Cardinality(s) <= 0 => Right(f, s)
      BY <1>0
    <3>. QED
      BY <2>2, <3>1
  <2>3. CASE n # 0
    <3>1. n - 1 \in Nat /\ n - 1 < n
      BY <2>3
    <3>2. UpTo(n - 1)
      <4>. HIDE DEF UpTo
      <4>. QED
        BY <2>1, <3>1
    <3>3. PICK f : \A s \in SUBSET S : Cardinality(s) <= n - 1 => Right(f, s)
      BY <3>2
    <3>. DEFINE g == [s \in SUBSET S |-> IF s = {} THEN 0 ELSE Amount(Pick(s).txn) + f[s \ {Pick(s)}]]
    <3>4. ASSUME NEW s \in SUBSET S, Cardinality(s) <= n PROVE Right(g, s)
      <4>1. CASE s = {}
        BY <4>1
      <4>2. CASE s # {}
        <5>1. Pick(s) \in s
          BY <4>2 DEF Pick
        <5>. DEFINE r == s \ {Pick(s)}
        <5>2. r \in SUBSET S /\ Cardinality(r) <= n - 1
          BY <1>0, <3>1, <3>4, <5>1, Without
        <5>3. f[r] = g[r]
          BY <3>3, <5>2
        <5>. QED
          BY <4>2, <5>3
      <4>. QED
        BY <4>1, <4>2
    <3>5. UpTo(n)
      <4>. HIDE DEF g
      <4>. QED
        BY <3>4
    <3>. QED
      BY <3>5
  <2>. QED
    BY <2>2, <2>3
<1>2. UpTo(Cardinality(S))
  BY <1>0, <1>1
<1>3. PICK f : \A s \in SUBSET S : Right(f, s)
  BY <1>0, <1>2
<1>. DEFINE g == [s \in SUBSET S |-> f[s]]
<1>4. \A s \in SUBSET S : s # {} => s \ {Pick(s)} \in SUBSET S
  OBVIOUS
<1>5. \A s \in SUBSET S : g[s] = IF s = {} THEN 0 ELSE Amount(Pick(s).txn) + g[s \ {Pick(s)}]
  BY <1>3, <1>4
<1>6. SumUp(g, S)
  <2>. HIDE DEF g
  <2>1. g = [s \in SUBSET S |-> g[s]]
    BY DEF g
  <2>. QED
    BY <1>5, <2>1 DEF SumUp
<1>. QED
  BY <1>6

\* The sum of a part does not depend on what it is a part of.
LEMMA SumUnique ==
  ASSUME NEW S, IsFiniteSet(S), NEW R \in SUBSET S, NEW f, SumUp(f, S), NEW g, SumUp(g, R)
  PROVE  f[R] = g[R]
<1>. DEFINE Bad == {s \in SUBSET R : f[s] # g[s]}
<1>0. \A s \in SUBSET R : IsFiniteSet(s)
  BY FS_Subset
<1>. SUFFICES ASSUME Bad # {} PROVE FALSE
  OBVIOUS
<1>1. PICK s \in Bad : \A r \in Bad : Cardinality(s) <= Cardinality(r)
  <2>1. \A s \in Bad : IsFiniteSet(s)
    BY <1>0
  <2>. HIDE DEF Bad
  <2>. QED
    BY <2>1, SmallestSet
<1>2. s # {}
  BY DEF SumUp
<1>3. Pick(s) \in s
  BY <1>2 DEF Pick
<1>4. s \ {Pick(s)} \notin Bad
  BY <1>0, <1>1, <1>3, Without
<1>5. f[s \ {Pick(s)}] = g[s \ {Pick(s)}]
  BY <1>4
<1>6. f[s] = Amount(Pick(s).txn) + f[s \ {Pick(s)}] /\ g[s] = Amount(Pick(s).txn) + g[s \ {Pick(s)}]
  BY <1>2 DEF SumUp
<1>. QED
  BY <1>5, <1>6

\* What entries add up to, one entry at a time.
LEMMA MovedStep ==
  ASSUME NEW S, IsFiniteSet(S)
  PROVE  Moved(S) = IF S = {} THEN 0 ELSE Amount(Pick(S).txn) + Moved(S \ {Pick(S)})
<1>1. PICK f : f = (CHOOSE g : SumUp(g, S)) /\ SumUp(f, S)
  BY SumExists
<1>2. Moved(S) = f[S]
  BY <1>1, MovedIs
<1>3. CASE S = {}
  BY <1>1, <1>2, <1>3 DEF SumUp
<1>4. CASE S # {}
  <2>. DEFINE R == S \ {Pick(S)}
  <2>1. R \in SUBSET S /\ IsFiniteSet(R)
    BY FS_Subset
  <2>2. PICK g : g = (CHOOSE h : SumUp(h, R)) /\ SumUp(g, R)
    BY <2>1, SumExists
  <2>3. Moved(R) = g[R]
    BY <2>2, MovedIs
  <2>4. f[R] = g[R]
    <3>. HIDE DEF R
    <3>. QED
      BY <1>1, <2>1, <2>2, SumUnique
  <2>5. f[S] = Amount(Pick(S).txn) + f[R]
    BY <1>1, <1>4 DEF SumUp
  <2>. QED
    BY <1>2, <1>4, <2>3, <2>4, <2>5
<1>. QED
  BY <1>3, <1>4

\* What entries add up to is a whole number of cents, whichever entry is counted first.
LEMMA MovedEither ==
  ASSUME NEW S, IsFiniteSet(S), \A e \in S : e.txn \in Txns
  PROVE  Moved(S) \in Int /\ \A e \in S : Moved(S) = Amount(e.txn) + Moved(S \ {e})
<1>. DEFINE Good(s) == Moved(s) \in Int /\ \A e \in s : Moved(s) = Amount(e.txn) + Moved(s \ {e})
            Bad == {s \in SUBSET S : ~Good(s)}
<1>. SUFFICES ASSUME Bad # {} PROVE FALSE
  OBVIOUS
<1>0. \A s \in SUBSET S : IsFiniteSet(s) /\ \A e \in s : Amount(e.txn) \in Int
  BY FS_Subset, AmountTyped
<1>1. PICK s \in Bad : \A r \in Bad : Cardinality(s) <= Cardinality(r)
  <2>1. \A s \in Bad : IsFiniteSet(s)
    BY <1>0
  <2>. HIDE DEF Bad
  <2>. QED
    BY <2>1, SmallestSet
<1>2. ASSUME NEW r \in SUBSET S, Cardinality(r) < Cardinality(s) PROVE Good(r)
  <2>1. Cardinality(r) \in Nat /\ Cardinality(s) \in Nat
    BY <1>0, FS_CardinalityType
  <2>2. r \notin Bad
    BY <1>1, <1>2, <2>1
  <2>. HIDE DEF Good
  <2>. QED
    BY <2>2
<1>3. CASE s = {}
  <2>1. Moved(s) = 0
    BY <1>0, <1>3, MovedStep
  <2>. QED
    BY <1>1, <1>3, <2>1
<1>4. CASE s # {}
  <2>. DEFINE y == Pick(s)
  <2>1. y \in s
    BY <1>4 DEF Pick
  <2>2. Moved(s) = Amount(y.txn) + Moved(s \ {y})
    BY <1>0, <1>4, MovedStep
  <2>. HIDE DEF y
  <2>5. ASSUME NEW e \in s PROVE s \ {e} \in SUBSET S /\ Good(s \ {e})
    BY <1>0, <1>1, <1>2, Without
  <2>3. Moved(s) \in Int
    <3>1. Moved(s \ {y}) \in Int /\ Amount(y.txn) \in Int
      BY <1>0, <2>1, <2>5
    <3>. QED
      BY <2>2, <3>1
  <2>4. ASSUME NEW e \in s PROVE Moved(s) = Amount(e.txn) + Moved(s \ {e})
    <3>1. CASE e = y
      BY <2>2, <3>1
    <3>2. CASE e # y
      <4>1. e \in s \ {y} /\ y \in s \ {e} /\ (s \ {y}) \ {e} = (s \ {e}) \ {y}
        BY <2>1, <3>2
      <4>. DEFINE both == (s \ {y}) \ {e}
      <4>2. Moved(s \ {y}) = Amount(e.txn) + Moved(both)
        BY <2>1, <2>5, <4>1
      <4>3. Moved(s \ {e}) = Amount(y.txn) + Moved(both)
        BY <2>5, <4>1
      <4>4. Moved(both) \in Int /\ Amount(e.txn) \in Int /\ Amount(y.txn) \in Int
        <5>1. both \in SUBSET S /\ Cardinality(both) < Cardinality(s)
          <6>1. IsFiniteSet(s) /\ IsFiniteSet(s \ {y}) /\ Cardinality(s \ {y}) < Cardinality(s)
            BY <1>0, <2>1, Without
          <6>2. Cardinality(both) < Cardinality(s \ {y})
            BY <4>1, <6>1, Without
          <6>3. Cardinality(both) \in Nat /\ Cardinality(s \ {y}) \in Nat /\ Cardinality(s) \in Nat
            BY <2>1, <4>1, <6>1, Without
          <6>4. both \in SUBSET S
            BY <2>1, <2>5
          <6>. QED
            BY <6>1, <6>2, <6>3, <6>4
        <5>. QED
          BY <1>0, <1>2, <2>1, <5>1
      <4>. HIDE DEF both
      <4>. QED
        BY <2>2, <4>2, <4>3, <4>4
    <3>. QED
      BY <3>1, <3>2
  <2>. QED
    BY <2>3, <2>4
<1>. QED
  BY <1>3, <1>4

\* One more entry adds its amount.
LEMMA MovedMore ==
  ASSUME NEW S, IsFiniteSet(S), NEW e, e \notin S, \A x \in S \cup {e} : x.txn \in Txns
  PROVE  /\ IsFiniteSet(S \cup {e})
         /\ Moved(S) \in Int /\ Moved(S \cup {e}) = Moved(S) + Amount(e.txn)
<1>1. IsFiniteSet(S \cup {e}) /\ (S \cup {e}) \ {e} = S
  BY FS_AddElement
<1>2. Moved(S) \in Int /\ Amount(e.txn) \in Int
  BY MovedEither, AmountTyped
<1>3. Moved(S \cup {e}) = Amount(e.txn) + Moved((S \cup {e}) \ {e})
  BY <1>1, MovedEither
<1>4. Moved(S \cup {e}) = Amount(e.txn) + Moved(S)
  BY <1>1, <1>3
<1>5. Amount(e.txn) + Moved(S) = Moved(S) + Amount(e.txn)
  BY <1>2
<1>. QED
  BY <1>1, <1>2, <1>4, <1>5

-----------------------------------------------------------------------------
(* The inductive invariant, action by action. *)

\* A step of one call that touches no row another has locked keeps what holds of the other.
LEMMA OthersKeep ==
  ASSUME TypeOK, NEW t \in Txns, NEW x \in Txns \ {t}, CallInv(x),
         pc'[x] = pc[x], todo'[x] = todo[x], at'[x] = at[x], read'[x] = read[x], new'[x] = new[x],
         \A u \in Users : lock[u] = x <=> lock'[u] = x,
         \A u \in Users : lock[u] = x => wallet'[u] = wallet[u],
         \A e : e \in entries' => e \in entries \/ e.txn = t,
         entries \subseteq entries',
         faults' \in Nat, faults' >= faults
  PROVE  CallInv(x)'
<1>. USE DEF CallInv
<1>1. Done(x)' = Done(x)
  BY DEF Done, Rows
<1>2. Posted(x)' <=> Posted(x)
  BY DEF Posted
<1>3. Place(x)'
  BY DEF Place, Rows
<1>4. Scanned(x)'
  <2>. SUFFICES ASSUME pc[x] = "read" PROVE lock'[at[x]] = x /\ read[x] = wallet'[at[x]]
    BY DEF Scanned
  <2>1. at[x] \in Users
    BY RowsTyped DEF Place
  <2>. QED
    BY <2>1 DEF Scanned
<1>5. Written(x)'
  <2>. SUFFICES ASSUME pc[x] \in {"next", "wait", "read", "commit"}, NEW u \in Done(x)
                PROVE  /\ lock'[u] = x
                       /\ new[x][u] = Afterwards(x, wallet'[u])
                       /\ x \in Starts => Total(wallet'[u]) >= Stake[x]
    BY <1>1 DEF Written, Afterwards, Total
  <2>1. u \in Users
    BY DoneTyped
  <2>2. lock[u] = x
    BY DEF Written
  <2>. QED
    BY <2>1, <2>2 DEF Written
<1>6. Locked(x)'
  BY <1>1 DEF Locked
<1>7. Answered(x)'
  BY <1>2 DEF Answered, TypeOK
<1>. QED
  BY <1>3, <1>4, <1>5, <1>6, <1>7

\* Every step keeps the invariant.
LEMMA WInvStep ==
  ASSUME WInv, [Next]_vars
  PROVE  WInv'
<1>. USE DEF WInv
<1>1. faults \in Nat /\ MaxFaults \in Nat
  BY WalletAssumption DEF TypeOK
<1>2. ASSUME NEW t \in Txns, Begin(t) PROVE WInv'
  <2>. USE <1>2 DEF Begin, callVars
  <2>1. TypeOK' /\ pc'[t] = "next" /\ \A x \in Txns \ {t} : pc'[x] = pc[x]
    BY CallMoves DEF TypeOK, Labels
  <2>2. ASSUME NEW x \in Txns \ {t} PROVE CallInv(x)'
    BY <1>1, <2>1, OthersKeep
  <2>3. Done(t)' = Done(t) /\ Done(t) = {}
    BY DEF CallInv, Place, Done, Rows
  <2>4. Place(t)' /\ Scanned(t)' /\ Answered(t)'
    <3>1. Rows(t) # {} /\ Rows(t)' = Rows(t)
      BY RowsTyped DEF Rows
    <3>. QED
      BY <2>1, <3>1 DEF CallInv, Place, Scanned, Answered, Posted
  <2>5. Written(t)' /\ Locked(t)'
    BY <2>1, <2>3 DEF CallInv, Written, Locked
  <2>. QED
    BY <2>1, <2>2, <2>4, <2>5 DEF CallInv
<1>3. ASSUME NEW t \in Txns, NEW u \in Users, Ask(t, u) PROVE WInv'
  <2>. USE <1>3 DEF Ask
  <2>1. TypeOK' /\ pc'[t] = "wait" /\ \A x \in Txns \ {t} : pc'[x] = pc[x] /\ at'[x] = at[x]
    BY CallMoves DEF TypeOK, Labels
  <2>2. ASSUME NEW x \in Txns \ {t} PROVE CallInv(x)'
    BY <1>1, <2>1, OthersKeep
  <2>3. at'[t] = u
    BY DEF TypeOK
  <2>4. Done(t)' = Done(t)
    BY DEF Done, Rows
  <2>5. Place(t)' /\ Scanned(t)' /\ Answered(t)'
    BY <2>1, <2>3 DEF CallInv, Place, Scanned, Answered, Posted, Rows
  <2>6. Written(t)'
    BY <2>1, <2>4 DEF CallInv, Written, Afterwards, Total
  <2>7. Locked(t)'
    BY <2>1, <2>4 DEF CallInv, Locked
  <2>. QED
    BY <2>1, <2>2, <2>5, <2>6, <2>7 DEF CallInv
<1>4. ASSUME NEW t \in Txns, Select(t) PROVE WInv'
  <2>. USE <1>4 DEF Select
  <2>1. at[t] \in Users /\ at[t] \in todo[t]
    BY RowsTyped DEF CallInv, Place
  <2>2. TypeOK' /\ pc'[t] = "read" /\ \A x \in Txns \ {t} : pc'[x] = pc[x] /\ read'[x] = read[x]
    BY <2>1, CallMoves DEF TypeOK, Labels
  <2>3. \A u \in Users : lock'[u] = IF u = at[t] THEN t ELSE lock[u]
    BY DEF TypeOK
  <2>4. ASSUME NEW x \in Txns \ {t} PROVE CallInv(x)'
    BY <1>1, <2>1, <2>2, <2>3, OthersKeep, WalletAssumption
  <2>5. read'[t] = wallet[at[t]] /\ Done(t)' = Done(t) /\ at[t] \notin Done(t)
    BY <2>1 DEF TypeOK, Done, Rows
  <2>6. Place(t)' /\ Scanned(t)' /\ Answered(t)'
    BY <2>1, <2>2, <2>3, <2>5 DEF CallInv, Place, Scanned, Answered, Posted, Rows
  <2>7. Written(t)'
    BY <2>2, <2>3, <2>5, DoneTyped DEF CallInv, Written, Afterwards, Total
  <2>8. Locked(t)'
    <3>. SUFFICES ASSUME NEW u \in Users, u = at[t] \/ lock[u] = t PROVE u \in Done(t) \cup {at[t]}
      BY <2>2, <2>3, <2>5 DEF Locked
    <3>. QED
      BY DEF CallInv, Locked
  <2>. QED
    BY <2>2, <2>4, <2>6, <2>7, <2>8 DEF CallInv
<1>5. ASSUME NEW t \in Txns, Update(t) PROVE WInv'
  <2>. USE <1>5 DEF Update
  <2>1. /\ at[t] \in Users /\ at[t] \in todo[t] /\ todo[t] \subseteq Rows(t)
        /\ lock[at[t]] = t /\ read[t] = wallet[at[t]] /\ read[t] \in Balances
        /\ t \in Starts => Total(read[t]) >= Stake[t]
    BY RowsTyped DEF CallInv, Place, Scanned, Covers, TypeOK
  <2>2. Afterwards(t, read[t]) \in Balances
    BY <2>1, AfterwardsTyped
  <2>3. lock' = lock
    BY <2>1 DEF TypeOK
  <2>4. PICK l \in {"commit", "next"} : Goto(t, l) /\ (l = "commit" <=> todo[t] = {at[t]})
    OBVIOUS
  <2>5. pc' \in [Txns -> Labels] /\ pc'[t] = l /\ \A x \in Txns \ {t} : pc'[x] = pc[x]
    BY <2>4, CallMoves DEF Labels
  <2>6. TypeOK'
    BY <2>2, <2>3, <2>5 DEF TypeOK
  <2>7. ASSUME NEW x \in Txns \ {t} PROVE CallInv(x)'
    <3>1. todo'[x] = todo[x] /\ new'[x] = new[x]
      BY DEF TypeOK
    <3>. QED
      BY <1>1, <2>3, <2>5, <3>1, OthersKeep
  <2>8. /\ todo'[t] = todo[t] \ {at[t]} /\ Done(t)' = Done(t) \cup {at[t]}
        /\ \A u \in Users : new'[t][u] = IF u = at[t] THEN Afterwards(t, read[t]) ELSE new[t][u]
    BY <2>1 DEF TypeOK, Done, Rows
  <2>9. Place(t)' /\ Scanned(t)' /\ Answered(t)'
    <3>1. (l = "next" => todo'[t] # {}) /\ (l = "commit" => todo'[t] = {})
      BY <2>1, <2>4, <2>8
    <3>2. Place(t)'
      BY <2>1, <2>5, <2>8, <3>1 DEF Place, Rows
    <3>3. Scanned(t)' /\ Answered(t)'
      BY <2>5 DEF CallInv, Scanned, Answered, Posted
    <3>. QED
      BY <3>2, <3>3
  <2>10. Written(t)'
    <3>. SUFFICES ASSUME NEW u \in Done(t) \cup {at[t]}
                  PROVE  /\ lock[u] = t
                         /\ new'[t][u] = Afterwards(t, wallet[u])
                         /\ t \in Starts => Total(wallet[u]) >= Stake[t]
      BY <2>3, <2>8 DEF Written, Afterwards, Total
    <3>. QED
      BY <2>1, <2>8, DoneTyped DEF CallInv, Written
  <2>11. Locked(t)'
    <3>. SUFFICES ASSUME NEW u \in Users, lock[u] = t, l = "next" PROVE u \in Done(t) \cup {at[t]}
      BY <2>3, <2>5, <2>8 DEF Locked
    <3>. QED
      BY DEF CallInv, Locked
  <2>. QED
    BY <2>6, <2>7, <2>9, <2>10, <2>11 DEF CallInv
<1>6. ASSUME NEW t \in Txns, NEW l \in {"rollback", "error"}, Goto(t, l),
             l = "error" => pc[t] = "begin",
             pc[t] \notin {"ok", "error"},
             faults' \in 0 .. MaxFaults, faults' >= faults,
             UNCHANGED <<wallet, lock, entries, callVars>>
      PROVE  WInv'
  <2>. USE <1>6 DEF callVars
  <2>1. TypeOK' /\ pc'[t] = l /\ \A x \in Txns \ {t} : pc'[x] = pc[x]
    BY CallMoves DEF TypeOK, Labels
  <2>2. ASSUME NEW x \in Txns \ {t} PROVE CallInv(x)'
    BY <1>1, <2>1, OthersKeep
  <2>3. CallInv(t)'
    BY <2>1 DEF CallInv, Place, Scanned, Written, Locked, Answered, Done, Posted, Rows
  <2>. QED
    BY <2>1, <2>2, <2>3
<1>7. ASSUME NEW t \in Txns, Refuse(t) \/ Fail(t) \/ Deadlock(t) PROVE WInv'
  <2>1. CASE Refuse(t) \/ Deadlock(t)
    BY <1>1, <1>6, <2>1 DEF Refuse, Deadlock, TypeOK
  <2>2. CASE Fail(t)
    BY <1>1, <1>6, <2>2 DEF Fail, Fault, TypeOK
  <2>. QED
    BY <1>7, <2>1, <2>2
<1>8. ASSUME NEW t \in Txns
      PROVE  /\ lock' = Unlocked(t) /\ TypeOK => lock' \in [Users -> Txns \cup {Nil}]
             /\ lock' = Unlocked(t) => \A u \in Users : lock'[u] # t
             /\ lock' = Unlocked(t) => \A x \in Txns \ {t} : \A u \in Users : lock[u] = x <=> lock'[u] = x
  BY WalletAssumption DEF Unlocked, TypeOK
<1>9. ASSUME NEW t \in Txns, Rollback(t) PROVE WInv'
  <2>. USE <1>9 DEF Rollback, callVars
  <2>1. TypeOK' /\ pc'[t] = "error" /\ \A x \in Txns \ {t} : pc'[x] = pc[x]
    BY <1>8, CallMoves DEF TypeOK, Labels
  <2>2. ASSUME NEW x \in Txns \ {t} PROVE CallInv(x)'
    BY <1>1, <1>8, <2>1, OthersKeep
  <2>3. CallInv(t)'
    BY <1>8, <2>1 DEF CallInv, Place, Scanned, Written, Locked, Answered, Posted, Rows
  <2>. QED
    BY <2>1, <2>2, <2>3
<1>10. ASSUME NEW t \in Txns, Commit(t) PROVE WInv'
  <2>. USE <1>10 DEF Commit, Post, callVars
  <2>1. \A u \in Rows(t) : u \in Users /\ lock[u] = t /\ new[t][u] \in Balances
                           /\ BalanceAfter(t, new[t][u]) \in Nat
    BY ReadyToPost, RowsTyped, AfterwardsTyped
  <2>2. PICK l \in {"ok", "error"} : Goto(t, l) /\ (l = "error" => Fault) /\ (l = "ok" => UNCHANGED faults)
    OBVIOUS
  <2>3. pc' \in [Txns -> Labels] /\ pc'[t] = l /\ \A x \in Txns \ {t} : pc'[x] = pc[x]
    BY <2>2, CallMoves DEF Labels
  <2>4. faults' \in 0 .. MaxFaults /\ faults' >= faults /\ (l = "error" => faults' > 0)
    BY <1>1, <2>2 DEF Fault, TypeOK
  <2>5. wallet' \in [Users -> Balances] /\ entries' \subseteq [txn : Txns, user : Users, after : Nat]
    BY <2>1 DEF TypeOK
  <2>6. TypeOK'
    BY <1>8, <2>3, <2>4, <2>5 DEF TypeOK
  <2>7. ASSUME NEW x \in Txns \ {t} PROVE CallInv(x)'
    <3>1. \A u \in Users : lock[u] = x => wallet'[u] = wallet[u]
      BY <2>1
    <3>2. entries \subseteq entries' /\ \A e : e \in entries' => e \in entries \/ e.txn = t
      OBVIOUS
    <3>. QED
      BY <1>1, <1>8, <2>3, <2>4, <3>1, <3>2, OthersKeep
  <2>8. Posted(t)'
    <3>1. PICK u \in Rows(t) : TRUE
      BY RowsTyped
    <3>. DEFINE entry == [txn |-> t, user |-> u, after |-> BalanceAfter(t, new[t][u])]
    <3>2. entry \in entries' /\ entry.txn = t
      OBVIOUS
    <3>. QED
      BY <3>2 DEF Posted
  <2>9. CallInv(t)'
    BY <1>8, <2>3, <2>4, <2>8 DEF CallInv, Place, Scanned, Written, Locked, Answered, Rows
  <2>. QED
    BY <2>6, <2>7, <2>9
<1>11. CASE UNCHANGED vars
  BY <1>11 DEF vars, callVars, TypeOK, CallInv, Place, Scanned, Written, Locked, Answered, Done,
               Posted, Rows, Afterwards, Total
<1>. QED
  BY <1>2, <1>3, <1>4, <1>5, <1>7, <1>9, <1>10, <1>11 DEF Next, Step

\* What holds of the statements at every moment, in particular that what a call has scanned
\* and written still agrees with the rows it has locked.
THEOREM Invariant == Spec => []WInv
<1>1. Init => WInv
  <2>. SUFFICES ASSUME Init PROVE WInv
    OBVIOUS
  <2>1. TypeOK
    BY WalletAssumption, RowsTyped DEF Init, TypeOK, Labels, Balances
  <2>2. \A t \in Txns : CallInv(t)
    BY WalletAssumption DEF Init, CallInv, Place, Scanned, Written, Locked, Answered, Done, Posted
  <2>. QED
    BY <2>1, <2>2 DEF WInv
<1>2. WInv /\ [Next]_vars => WInv'
  BY WInvStep
<1>. QED
  BY <1>1, <1>2, PTL DEF Spec

\* Both balances of every wallet stay whole numbers of cents, none below zero, whatever
\* calls interleave, wait, fail or are picked by the detector of deadlocks.
THEOREM TypeCorrect == Spec => []TypeOK
<1>1. WInv => TypeOK
  BY DEF WInv
<1>. QED
  BY <1>1, Invariant, PTL

\* What a caller is told is what happened, unless the reply to its commit was lost.
THEOREM AnswersAreTrue == Spec => []AnswersHold
<1>1. WInv => AnswersHold
  BY DEF WInv, CallInv, Answered, AnswersHold
<1>. QED
  BY <1>1, Invariant, PTL

-----------------------------------------------------------------------------
(* The audit trail. *)

\* Each balance is what its user had and what the entries about it say, and one commit adds
\* one entry for each user it is about.
THEOREM TrailAddsUp == Spec => []BalancesMatchTrail
<1>. DEFINE Of(u) == {e \in entries : e.user = u}
            Finite == \A u \in Users : IsFiniteSet(Of(u))
            Sums == Finite /\ BalancesMatchTrail
<1>1. Init => Sums
  <2>. SUFFICES ASSUME Init, NEW u \in Users
                PROVE  IsFiniteSet(Of(u)) /\ Total(wallet[u]) = Main[u] + Play[u] + Moved(Of(u))
    BY DEF BalancesMatchTrail
  <2>1. Of(u) = {} /\ IsFiniteSet(Of(u))
    BY FS_EmptySet DEF Init
  <2>2. Moved(Of(u)) = 0
    BY <2>1, MovedStep
  <2>. QED
    BY <2>1, <2>2, WalletAssumption DEF Init, Total
<1>2. WInv /\ Sums /\ [Next]_vars => Sums'
  <2>. SUFFICES ASSUME WInv, Sums, [Next]_vars, NEW u \in Users
                PROVE  IsFiniteSet(Of(u)') /\ Total(wallet[u])' = Main[u] + Play[u] + Moved(Of(u)')
    BY DEF BalancesMatchTrail
  <2>0. IsFiniteSet(Of(u)) /\ Total(wallet[u]) = Main[u] + Play[u] + Moved(Of(u))
    BY DEF BalancesMatchTrail
  <2>1. CASE UNCHANGED <<wallet, entries>>
    BY <2>0, <2>1 DEF Total
  <2>2. ASSUME NEW t \in Txns, Commit(t)
        PROVE  IsFiniteSet(Of(u)') /\ Total(wallet[u])' = Main[u] + Play[u] + Moved(Of(u)')
    <3>1. CASE u \notin Rows(t)
      <4>1. Of(u)' = Of(u) /\ wallet'[u] = wallet[u]
        BY <2>2, <3>1 DEF Commit, Post
      <4>. QED
        BY <2>0, <4>1 DEF Total
    <3>2. CASE u \in Rows(t)
      <4>. DEFINE e == [txn |-> t, user |-> u, after |-> BalanceAfter(t, new[t][u])]
      <4>1. Of(u)' = Of(u) \cup {e} /\ wallet'[u] = new[t][u]
        BY <2>2, <3>2 DEF Commit, Post
      <4>2. e \notin Of(u) /\ \A x \in Of(u) \cup {e} : x.txn \in Txns
        BY <2>2 DEF Commit, WInv, CallInv, Answered, Posted, TypeOK
      <4>3. e.txn = t
        OBVIOUS
      <4>. HIDE DEF e, Of
      <4>4. /\ IsFiniteSet(Of(u) \cup {e})
            /\ Moved(Of(u)) \in Int /\ Moved(Of(u) \cup {e}) = Moved(Of(u)) + Amount(t)
        BY <2>0, <4>2, <4>3, MovedMore
      <4>5. Total(new[t][u]) = Total(wallet[u]) + Amount(t) /\ Amount(t) \in Int
        <5>1. /\ wallet[u] \in Balances /\ new[t][u] = Afterwards(t, wallet[u])
              /\ t \in Starts => Total(wallet[u]) >= Stake[t]
          BY <2>2, <3>2, ReadyToPost DEF Commit
        <5>2. Total(wallet[u]) \in Nat
          BY <5>1, AfterwardsTyped
        <5>3. CASE t \in Starts
          BY <5>1, <5>2, <5>3, AfterwardsTyped DEF Amount
        <5>4. CASE t \in Wins
          <6>1. Amount(t) = Prize[t]
            BY <5>4, WalletAssumption DEF Amount
          <6>. QED
            BY <5>1, <5>2, <5>4, <6>1, AfterwardsTyped
        <5>. QED
          BY <5>3, <5>4 DEF Txns
      <4>6. Main[u] \in Nat /\ Play[u] \in Nat
        BY WalletAssumption
      <4>7. Total(wallet[u])' = Total(new[t][u])
        BY <4>1 DEF Total
      <4>8. IsFiniteSet(Of(u)') /\ Moved(Of(u)') = Moved(Of(u)) + Amount(t)
        BY <4>1, <4>4
      <4>. QED
        BY <2>0, <4>4, <4>5, <4>6, <4>7, <4>8
    <3>. QED
      BY <3>1, <3>2
  <2>. QED
    BY <2>1, <2>2
    DEF Next, Step, Begin, Ask, Select, Update, Refuse, Rollback, Deadlock, Fail, vars
<1>3. Sums => BalancesMatchTrail
  OBVIOUS
<1>. HIDE DEF Sums
<1>. QED
  BY <1>1, <1>2, <1>3, Invariant, PTL DEF Spec

-----------------------------------------------------------------------------
(* Payouts. *)

\* Whoever is in a circle has locked a row that another one of it waits for.
LEMMA CirclesHold ==
  ASSUME NEW C \in SUBSET Txns, Circle(C), NEW t \in C
  PROVE  pc[t] = "wait" /\ \E x \in C : lock[at[x]] = t
<1>. DEFINE D == {lock[at[x]] : x \in C}
<1>1. D \in SUBSET C /\ D # {}
  BY DEF Circle, Stuck
<1>2. Stuck(D)
  BY <1>1 DEF Circle, Stuck
<1>3. D = C
  BY <1>1, <1>2 DEF Circle
<1>. QED
  BY <1>3 DEF Circle, Stuck

\* A payout locks nothing before it has all it needs, and so is in no circle.
LEMMA PayoutInNoCircle ==
  ASSUME WInv, NEW w \in Wins, NEW C \in SUBSET Txns, Circle(C)
  PROVE  w \notin C
<1>. SUFFICES ASSUME w \in C PROVE FALSE
  OBVIOUS
<1>1. w \in Txns /\ Rows(w) = {Payee[w]}
  BY WalletAssumption DEF Rows, Txns
<1>2. PICK x \in C : lock[at[x]] = w /\ pc[w] = "wait"
  BY CirclesHold
<1>3. at[x] \in Users
  <2>1. pc[x] = "wait" /\ x \in Txns
    BY CirclesHold
  <2>. QED
    BY <2>1, RowsTyped DEF WInv, CallInv, Place
<1>4. at[x] \in Done(w) /\ at[w] \in todo[w] /\ todo[w] \subseteq Rows(w)
  BY <1>1, <1>2, <1>3 DEF WInv, CallInv, Locked, Place
<1>. QED
  BY <1>1, <1>4 DEF Done

\* No start refuses a payout or gets it picked in a deadlock: a payout fails only when a
\* statement fails, or waits longer than its context allows.
THEOREM PayoutsGoThrough == Spec => []PayoutsSucceed
<1>. DEFINE Sound == \A w \in Wins : pc[w] \in {"rollback", "error"} => faults > 0
<1>1. Init => Sound
  BY DEF Init, Txns
<1>2. WInv /\ Sound /\ [Next]_vars => Sound'
  <2>. SUFFICES ASSUME WInv, Sound, [Next]_vars, NEW w \in Wins, pc'[w] \in {"rollback", "error"}
                PROVE  faults' > 0
    OBVIOUS
  <2>0. w \in Txns /\ w \notin Starts /\ faults \in Nat
    BY WalletAssumption DEF Txns, WInv, TypeOK
  <2>1. CASE pc'[w] = pc[w] /\ UNCHANGED faults
    BY <2>1
  <2>2. ASSUME NEW t \in Txns, Fault PROVE faults' > 0
    BY <2>0, <2>2 DEF Fault
  <2>3. ASSUME NEW t \in Txns, NEW l \in Labels, Goto(t, l), UNCHANGED faults,
               l \in {"rollback", "error"} => t # w \/ pc[t] = "rollback"
        PROVE  faults' > 0
    <3>1. pc'[t] = l /\ \A x \in Txns \ {t} : pc'[x] = pc[x]
      BY <2>3, CallMoves DEF WInv
    <3>. QED
      BY <2>0, <2>3, <3>1
  <2>4. ASSUME NEW t \in Txns, Begin(t) \/ (\E u \in Users : Ask(t, u)) \/ Select(t) PROVE faults' > 0
    BY <2>3, <2>4 DEF Begin, Ask, Select, Labels
  <2>5. ASSUME NEW t \in Txns, Update(t) \/ Rollback(t) PROVE faults' > 0
    BY <2>3, <2>5 DEF Update, Rollback, Labels
  <2>6. ASSUME NEW t \in Txns, Refuse(t) PROVE faults' > 0
    BY <2>0, <2>3, <2>6 DEF Refuse, Covers, Labels
  <2>7. ASSUME NEW t \in Txns, Deadlock(t) PROVE faults' > 0
    BY <2>3, <2>7, PayoutInNoCircle DEF Deadlock, Labels
  <2>8. ASSUME NEW t \in Txns, Commit(t) PROVE faults' > 0
    BY <2>2, <2>3, <2>8 DEF Commit, Labels
  <2>9. ASSUME NEW t \in Txns, Fail(t) PROVE faults' > 0
    BY <2>2, <2>9 DEF Fail
  <2>10. CASE UNCHANGED vars
    BY <2>1, <2>10 DEF vars
  <2>. QED
    BY <2>4, <2>5, <2>6, <2>7, <2>8, <2>9, <2>10 DEF Next, Step
<1>3. Sound => PayoutsSucceed
  BY DEF PayoutsSucceed
<1>. HIDE DEF Sound
<1>. QED
  BY <1>1, <1>2, <1>3, Invariant, PTL DEF Spec

-----------------------------------------------------------------------------
(* Waiting. *)

\* Among calls that are all stuck there is a circle.
LEMMA StuckInACircle ==
  ASSUME NEW S \in SUBSET Txns, IsFiniteSet(S), S # {}, Stuck(S)
  PROVE  \E C \in SUBSET S : Circle(C)
<1>. DEFINE T == {D \in SUBSET S : D # {} /\ Stuck(D)}
<1>1. T # {} /\ \A D \in T : IsFiniteSet(D)
  BY FS_Subset
<1>2. PICK C \in T : \A D \in T : Cardinality(C) <= Cardinality(D)
  <2>. HIDE DEF T
  <2>. QED
    BY <1>1, SmallestSet
<1>3. ASSUME NEW D \in SUBSET C, D # {}, Stuck(D) PROVE D = C
  <2>1. D \in T /\ IsFiniteSet(C)
    BY <1>1, <1>2, <1>3
  <2>2. Cardinality(C) <= Cardinality(D) /\ Cardinality(D) \in Nat /\ Cardinality(C) \in Nat
    BY <1>1, <1>2, <2>1, FS_CardinalityType
  <2>. QED
    BY <2>1, <2>2, FS_Subset
<1>. QED
  BY <1>2, <1>3 DEF Circle

\* Only the calls that have a connection hold it against the bound of the pool, and never
\* an infinite number of them.
LEMMA OpenFinite == Spec => []IsFiniteSet(Open)
<1>1. Init => IsFiniteSet(Open)
  <2>. SUFFICES ASSUME Init PROVE IsFiniteSet(Open)
    OBVIOUS
  <2>1. Open = {}
    BY DEF Init, Open
  <2>. QED
    BY <2>1, FS_EmptySet
<1>2. TypeOK /\ IsFiniteSet(Open) /\ [Next]_vars => IsFiniteSet(Open)'
  <2>. SUFFICES ASSUME TypeOK, IsFiniteSet(Open), [Next]_vars PROVE IsFiniteSet(Open)'
    OBVIOUS
  <2>1. ASSUME NEW t \in Txns, \A x \in Txns \ {t} : pc'[x] = pc[x] PROVE IsFiniteSet(Open)'
    <3>1. Open' \subseteq Open \cup {t}
      BY <2>1 DEF Open
    <3>2. IsFiniteSet(Open \cup {t})
      BY FS_AddElement
    <3>. QED
      BY <3>1, <3>2, FS_Subset
  <2>2. ASSUME NEW t \in Txns, NEW l, Goto(t, l) PROVE IsFiniteSet(Open)'
    BY <2>1, <2>2 DEF Goto, TypeOK
  <2>3. CASE UNCHANGED vars
    BY <2>3 DEF vars, Open
  <2>. QED
    BY <2>2, <2>3 DEF Next, Step, Begin, Ask, Select, Update, Refuse, Commit, Rollback, Deadlock, Fail
<1>. QED
  BY <1>1, <1>2, TypeCorrect, PTL DEF Spec

\* However many calls there are and however few connections, they never all wait.
THEOREM NeverAllWait == Spec => []SomeoneGoesOn
<1>1. WInv /\ IsFiniteSet(Open) => SomeoneGoesOn
  <2>. SUFFICES ASSUME WInv, IsFiniteSet(Open), NEW r \in Txns, ~Ended(r), \A t \in Txns : ~CanGoOn(t)
                PROVE  FALSE
    BY DEF SomeoneGoesOn
  <2>1. ASSUME NEW t \in Open
        PROVE  t \in Txns /\ pc[t] = "wait" /\ lock[at[t]] \in Open
    <3>1. t \in Txns /\ ~CanGoOn(t) /\ CallInv(t) /\ TypeOK
      BY DEF Open, WInv
    <3>2. pc[t] = "wait" /\ lock[at[t]] # Nil
      BY <3>1 DEF Open, TypeOK, Labels, CanGoOn, CallInv, Place, Scanned
    <3>3. at[t] \in Users
      BY <3>1, <3>2, RowsTyped DEF CallInv, Place
    <3>4. lock[at[t]] \in Txns
      BY <3>1, <3>2, <3>3 DEF TypeOK
    <3>. QED
      BY <3>1, <3>2, <3>3, <3>4 DEF WInv, CallInv, Locked, Open
  <2>2. Open # {}
    <3>. SUFFICES ASSUME Open = {} PROVE FALSE
      OBVIOUS
    <3>1. pc[r] = "begin"
      BY DEF Open, Ended
    <3>2. Cardinality(Open) = 0
      BY FS_EmptySet
    <3>. QED
      BY <3>1, <3>2, WalletAssumption DEF CanGoOn
  <2>3. Open \in SUBSET Txns /\ Stuck(Open)
    BY <2>1 DEF Stuck
  <2>4. PICK C \in SUBSET Open : Circle(C)
    <3>. HIDE DEF Open
    <3>. QED
      BY <2>2, <2>3, StuckInACircle
  <2>5. PICK t \in C : TRUE
    BY <2>4 DEF Circle
  <2>. QED
    BY <2>1, <2>3, <2>4, <2>5 DEF CanGoOn
<1>. QED
  BY <1>1, Invariant, OpenFinite, PTL

-----------------------------------------------------------------------------
(* Refinement. *)

\* A commit is one change of the ledger.
LEMMA CommitPosts ==
  ASSUME WInv, NEW t \in Txns, Commit(t)
  PROVE  (t \in Starts /\ Trail!Take(t)) \/ (t \in Wins /\ Trail!Give(t))
<1>. DEFINE before == [u \in Users |-> Total(wallet[u])]
<1>1. \A u \in Rows(t) : /\ u \in Users /\ wallet[u] \in Balances
                         /\ new[t][u] = Afterwards(t, wallet[u])
                         /\ t \in Starts => Total(wallet[u]) >= Stake[t]
  BY ReadyToPost, RowsTyped DEF Commit
<1>2. /\ \A u \in Users : wallet'[u] = IF u \in Rows(t) THEN new[t][u] ELSE wallet[u]
      /\ entries' = entries \cup
            {[txn |-> t, user |-> u, after |-> BalanceAfter(t, new[t][u])] : u \in Rows(t)}
  BY DEF Commit, Post
<1>3. Trail!Fresh(t)
  BY DEF Commit, WInv, CallInv, Answered, Posted, Trail!Fresh
<1>4. CASE t \in Starts
  <2>1. Rows(t) = Batch[t]
    BY <1>4 DEF Rows
  <2>2. \A u \in Batch[t] : /\ Total(new[t][u]) = before[u] - Stake[t]
                            /\ BalanceAfter(t, new[t][u]) = before[u] - Stake[t]
                            /\ before[u] >= Stake[t]
    BY <1>1, <1>4, <2>1, AfterwardsTyped
  <2>3. before' = [u \in Users |-> IF u \in Batch[t] THEN before[u] - Stake[t] ELSE before[u]]
    BY <1>2, <2>1, <2>2
  <2>4. entries' = entries \cup {[txn |-> t, user |-> u, after |-> before[u] - Stake[t]] : u \in Batch[t]}
    BY <1>2, <2>1, <2>2
  <2>. QED
    BY <1>3, <1>4, <2>2, <2>3, <2>4 DEF Trail!Take
<1>5. CASE t \in Wins
  <2>1. Rows(t) = {Payee[t]} /\ Payee[t] \in Users
    BY <1>5, WalletAssumption DEF Rows
  <2>2. /\ Total(new[t][Payee[t]]) = before[Payee[t]] + Prize[t]
        /\ BalanceAfter(t, new[t][Payee[t]]) \in 0 .. before[Payee[t]] + Prize[t]
    BY <1>1, <1>5, <2>1, AfterwardsTyped
  <2>3. before' = [before EXCEPT ![Payee[t]] = @ + Prize[t]]
    BY <1>2, <2>1, <2>2
  <2>4. entries' = entries \cup
                     {[txn |-> t, user |-> Payee[t], after |-> BalanceAfter(t, new[t][Payee[t]])]}
    BY <1>2, <2>1
  <2>. QED
    BY <1>3, <1>5, <2>2, <2>3, <2>4 DEF Trail!Give
<1>. QED
  BY <1>4, <1>5 DEF Txns

\* The statements of the two calls, however they interleave, implement the ledger.
THEOREM Implements == Spec => ImplementsLedger
<1>1. Init => Trail!Init
  BY DEF Init, Trail!Init, Total
<1>2. WInv /\ [Next]_vars => [Trail!Next]_(Trail!vars)
  <2>. SUFFICES ASSUME WInv, [Next]_vars PROVE [Trail!Next]_(Trail!vars)
    OBVIOUS
  <2>1. CASE UNCHANGED <<wallet, entries>>
    BY <2>1 DEF Trail!vars, Total
  <2>2. ASSUME NEW t \in Txns, Commit(t) PROVE Trail!Next
    BY <2>2, CommitPosts DEF Trail!Next
  <2>. QED
    BY <2>1, <2>2
    DEF Next, Step, Begin, Ask, Select, Update, Refuse, Rollback, Deadlock, Fail, vars
<1>. QED
  BY <1>1, <1>2, Invariant, PTL DEF Spec, ImplementsLedger, Trail!Spec
=============================================================================
