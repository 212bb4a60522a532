------------------------------- MODULE Wallet -------------------------------
(***************************************************************************)
(* The two transactions that move money, one SQL statement at a time:      *)
(* GameService.DeductStakesAndStart and WalletService.CreditWin.  Each     *)
(* locks a wallet row with SELECT ... FOR UPDATE before it computes the    *)
(* new balances in the program, so calls for the same users wait for each  *)
(* other, and may do so in a circle.  Module BingoRoom has each call as    *)
(* one step; module Ledger is what the calls promise.                      *)
(***************************************************************************)
EXTENDS Integers, FiniteSets, FiniteSetsExt

CONSTANTS
    Starts,         \* calls of DeductStakesAndStart
    Wins,           \* calls of CreditWin
    Users,
    Batch,          \* Batch[s]: userIDs, not empty (an empty list is refused before Begin)
    Stake,          \* Stake[s]: stakeAmount, in cents
    Payee,          \* Payee[w]: userID
    Prize,          \* Prize[w]: amount, in cents
    Main, Play,     \* the balances of each user at the start, in cents
    MaxConns,       \* connections of the pool
    MaxFaults,      \* bound on the statements that fail or outlive their context
    Nil             \* absent

Txns == Starts \cup Wins

Balances == [main : Nat, play : Nat]

ASSUME WalletAssumption ==
    /\ Starts \cap Wins = {} /\ Nil \notin Txns \cup Users
    /\ Batch \in [Starts -> (SUBSET Users) \ {{}}]
    /\ Stake \in [Starts -> Nat]
    /\ Payee \in [Wins -> Users] /\ Prize \in [Wins -> Nat]
    /\ Main \in [Users -> Nat] /\ Play \in [Users -> Nat]
    /\ MaxConns \in Nat \ {0} /\ MaxFaults \in Nat

VARIABLES
    wallet,     \* wallets, as committed
    lock,       \* lock[u]: the transaction that has the row of u locked, or Nil
    entries,    \* transactions, as committed
    pc,         \* where each call is
    todo,       \* the users it has not updated yet
    at,         \* the user it is at
    read,       \* mainBalance and playBalance, as it scanned them
    new,        \* new[t][u]: what it has written for u and not committed
    faults      \* the statements that have failed so far

callVars == <<todo, at, read, new>>
vars == <<wallet, lock, entries, pc, callVars, faults>>

\* The rows a call is about.
Rows(t) == IF t \in Starts THEN Batch[t] ELSE {Payee[t]}

Total(b) == b.main + b.play

Goto(t, label) == pc' = [pc EXCEPT ![t] = label]

\* The calls that have a connection of the pool.
Open == {t \in Txns : pc[t] \notin {"begin", "ok", "error"}}

-----------------------------------------------------------------------------
(* The statements. *)

\* Pool.Begin.
Begin(t) ==
    /\ pc[t] = "begin" /\ Cardinality(Open) < MaxConns
    /\ Goto(t, "next")
    /\ UNCHANGED <<wallet, lock, entries, callVars, faults>>

\* The next user of the list, which startGame made from a map: in any order.
Ask(t, u) ==
    /\ pc[t] = "next" /\ u \in todo[t]
    /\ at' = [at EXCEPT ![t] = u]
    /\ Goto(t, "wait")
    /\ UNCHANGED <<wallet, lock, entries, todo, read, new, faults>>

\* Mutated form: SELECT without FOR UPDATE.
SelectUnlocked(t) ==
    /\ pc[t] = "wait"
    /\ read' = [read EXCEPT ![t] = wallet[at[t]]]
    /\ Goto(t, "read")
    /\ UNCHANGED <<wallet, lock, entries, todo, at, new, faults>>
\* SELECT ... FOR UPDATE, once the row is free; it returns the row as it is by then.
Select(t) ==
    /\ pc[t] = "wait" /\ lock[at[t]] = Nil
    /\ lock' = [lock EXCEPT ![at[t]] = t]
    /\ read' = [read EXCEPT ![t] = wallet[at[t]]]
    /\ Goto(t, "read")
    /\ UNCHANGED <<wallet, entries, todo, at, new, faults>>

\* Mutated form: the check of the stakes, copied to the prizes.
CoversPrize(t) == Total(read[t]) >= (IF t \in Starts THEN Stake[t] ELSE Prize[t])
\* totalAvailable is enough; CreditWin asks for nothing.
Covers(t) == t \in Starts => Total(read[t]) >= Stake[t]

\* newMain and newPlay: the play balance pays first.
Afterwards(t, b) ==
    IF t \in Wins THEN [main |-> b.main + Prize[t], play |-> b.play]
    ELSE IF b.play >= Stake[t] THEN [main |-> b.main, play |-> b.play - Stake[t]]
    ELSE [main |-> b.main - (Stake[t] - b.play), play |-> 0]

\* UPDATE wallets, which locks the row if it is not, and INSERT INTO transactions, which
\* waits for nobody.
Update(t) ==
    /\ pc[t] = "read" /\ Covers(t) /\ lock[at[t]] \in {Nil, t}
    /\ lock' = [lock EXCEPT ![at[t]] = t]
    /\ new' = [new EXCEPT ![t][at[t]] = Afterwards(t, read[t])]
    /\ todo' = [todo EXCEPT ![t] = @ \ {at[t]}]
    /\ Goto(t, IF todo[t] = {at[t]} THEN "commit" ELSE "next")
    /\ UNCHANGED <<wallet, entries, at, read, faults>>

\* "insufficient balance"
Refuse(t) ==
    /\ pc[t] = "read" /\ ~Covers(t)
    /\ Goto(t, "rollback")
    /\ UNCHANGED <<wallet, lock, entries, callVars, faults>>

Unlocked(t) == [u \in Users |-> IF lock[u] = t THEN Nil ELSE lock[u]]

\* balance_after: of a stake both balances, of a win the main balance.
BalanceAfter(t, b) == IF t \in Starts THEN Total(b) ELSE b.main

\* The game_sessions row of a start is updated just before the commit.
Post(t) ==
    /\ wallet' = [u \in Users |-> IF u \in Rows(t) THEN new[t][u] ELSE wallet[u]]
    /\ entries' = entries \cup
          {[txn |-> t, user |-> u, after |-> BalanceAfter(t, new[t][u])] : u \in Rows(t)}
    /\ lock' = Unlocked(t)

Fault == faults < MaxFaults /\ faults' = faults + 1

\* tx.Commit; the reply may be lost.
Commit(t) ==
    /\ pc[t] = "commit"
    /\ Post(t)
    /\ \/ Goto(t, "ok") /\ UNCHANGED faults
       \/ Goto(t, "error") /\ Fault
    /\ UNCHANGED callVars

\* A statement fails, or the context expires while it runs or waits.
Fail(t) ==
    /\ pc[t] \in {"begin", "next", "wait", "read", "commit"}
    /\ Fault
    /\ Goto(t, IF pc[t] = "begin" THEN "error" ELSE "rollback")
    /\ UNCHANGED <<wallet, lock, entries, callVars>>

\* Mutated form: without defer tx.Rollback.
RollbackNever(t) ==
    /\ pc[t] = "rollback"
    /\ Goto(t, "error")
    /\ UNCHANGED <<wallet, lock, entries, callVars, faults>>
\* Mutated form: a deferred tx.Commit.
RollbackCommits(t) ==
    LET done == Rows(t) \ todo[t] IN
    /\ pc[t] = "rollback"
    /\ wallet' = [u \in Users |-> IF u \in done THEN new[t][u] ELSE wallet[u]]
    /\ entries' = entries \cup
          {[txn |-> t, user |-> u, after |-> BalanceAfter(t, new[t][u])] : u \in done}
    /\ lock' = Unlocked(t)
    /\ Goto(t, "error")
    /\ UNCHANGED <<callVars, faults>>
\* The deferred tx.Rollback.
Rollback(t) ==
    /\ pc[t] = "rollback"
    /\ lock' = Unlocked(t)
    /\ Goto(t, "error")
    /\ UNCHANGED <<wallet, entries, callVars, faults>>

-----------------------------------------------------------------------------
(* PostgreSQL: calls that wait for each other in a circle. *)

\* Every call of C waits for a row that a call of C has locked.
Stuck(C) == \A t \in C : pc[t] = "wait" /\ lock[at[t]] \in C

\* A circle is stuck, and none of its parts is.
Circle(C) == C # {} /\ Stuck(C) /\ \A D \in SUBSET C : D # {} /\ Stuck(D) => D = C

\* "deadlock detected": the statement of one of them fails.
Deadlock(t) ==
    /\ pc[t] = "wait" /\ lock[at[t]] # Nil
    /\ \E C \in SUBSET Txns : t \in C /\ Circle(C)
    /\ Goto(t, "rollback")
    /\ UNCHANGED <<wallet, lock, entries, callVars, faults>>

-----------------------------------------------------------------------------
Init ==
    /\ wallet = [u \in Users |-> [main |-> Main[u], play |-> Play[u]]]
    /\ lock = [u \in Users |-> Nil]
    /\ entries = {}
    /\ pc = [t \in Txns |-> "begin"]
    /\ todo = [t \in Txns |-> Rows(t)]
    /\ at = [t \in Txns |-> Nil]
    /\ read = [t \in Txns |-> [main |-> 0, play |-> 0]]
    /\ new = [t \in Txns |-> [u \in Users |-> [main |-> 0, play |-> 0]]]
    /\ faults = 0

Step(t) == \/ Begin(t) \/ (\E u \in Users : Ask(t, u)) \/ Select(t) \/ Update(t) \/ Refuse(t)
           \/ Commit(t) \/ Rollback(t) \/ Deadlock(t)

Next == \E t \in Txns : Step(t) \/ Fail(t)

Spec == Init /\ [][Next]_vars

\* A call that can go on does: the database answers, the detector of deadlocks runs, and
\* the pool and the row locks are handed to those who wait.
FairSpec == Spec /\ \A t \in Txns : WF_vars(Step(t))

-----------------------------------------------------------------------------
(* Properties. *)

Labels == {"begin", "next", "wait", "read", "commit", "rollback", "ok", "error"}

\* Every variable keeps its range; in particular neither of the two balances is ever below
\* zero, committed or about to be: the CHECKs of migrations/001_initial_schema.sql:27-28
\* never have to refuse an update.
TypeOK ==
    /\ wallet \in [Users -> Balances]
    /\ lock \in [Users -> Txns \cup {Nil}]
    /\ entries \subseteq [txn : Txns, user : Users, after : Nat]
    /\ pc \in [Txns -> Labels]
    /\ todo \in [Txns -> SUBSET Users]
    /\ at \in [Txns -> Users \cup {Nil}]
    /\ read \in [Txns -> Balances]
    /\ new \in [Txns -> [Users -> Balances]]
    /\ faults \in 0 .. MaxFaults

Amount(t) == IF t \in Starts THEN -Stake[t] ELSE Prize[t]

\* What some entries of the audit trail add up to.
Moved(some) == MapThenSumSet(LAMBDA e : Amount(e.txn), some)

\* Each balance is what its user had at the start and all that the audit trail says came
\* or went since (wallet_service.go:34, "atomic locking"): no update is lost.
BalancesMatchTrail ==
    \A u \in Users :
        Total(wallet[u]) = Main[u] + Play[u]
            + Moved({e \in entries : e.user = u})

\* A start never refuses a payout, nor makes it the victim of a deadlock: one that fails had a
\* statement that failed or outlived its context (Fault), the wait for the row that a start
\* holds included: 15 s for a start (hub.go:423), 10 s for a payout (hub.go:577).
\* resolveGame drops the error (hub.go:587) and nothing pays the winner again.
PayoutsSucceed == \A w \in Wins : pc[w] = "error" => faults > 0

Posted(t) == \E e \in entries : e.txn = t

\* What the caller is told is what happened, but for a commit whose reply is lost: startGame
\* goes on with a game that is paid for, or back to a lobby that is not (hub.go:435-453).
AnswersHold ==
    \A t \in Txns : /\ pc[t] = "ok" => Posted(t)
                    /\ pc[t] = "error" /\ Posted(t) => faults > 0

\* The guards of the statements: t needs no other call to go on first.
CanGoOn(t) ==
    \/ pc[t] = "begin" /\ Cardinality(Open) < MaxConns
    \/ pc[t] = "next" /\ todo[t] # {}
    \/ pc[t] = "wait" /\ (lock[at[t]] = Nil \/ \E C \in SUBSET Txns : t \in C /\ Circle(C))
    \/ pc[t] = "read" /\ (Covers(t) => lock[at[t]] \in {Nil, t})
    \/ pc[t] \in {"commit", "rollback"}

Ended(t) == pc[t] \in {"ok", "error"}

\* Until all calls have ended one of them can go on, also when the pool is used up and
\* others have failed: no row stays locked by a call that is gone, and calls that wait
\* wait for one that runs or in a circle that the database breaks.
SomeoneGoesOn == (\A t \in Txns : Ended(t)) \/ \E t \in Txns : CanGoOn(t)

\* Every call ends: nobody waits for ever for a row, also after calls that failed.
EveryCallEnds == \A t \in Txns : <>Ended(t)

Trail == INSTANCE Ledger WITH balance <- [u \in Users |-> Total(wallet[u])],
                              Deposit <- [u \in Users |-> Main[u] + Play[u]]

\* Whatever statements interleave, each call changes the wallets and the audit trail at
\* once and as a whole, or not at all, and never twice.
ImplementsLedger == Trail!Spec
=============================================================================
