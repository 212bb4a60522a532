------------------------------- MODULE Ledger -------------------------------
(***************************************************************************)
(* What the wallets promise: a change of money happens as a whole or not   *)
(* at all, never below zero, and leaves one entry for every user it is     *)
(* about.  Rows, locks, connections and failures are in module Wallet.     *)
(***************************************************************************)
EXTENDS Integers

CONSTANTS
    Starts, Wins,   \* the changes: stakes of a started game, and prizes
    Users,
    Batch,          \* Batch[s]: whose stakes are taken
    Stake,          \* Stake[s]: the stake of each, in cents
    Payee,          \* Payee[w]: who is paid
    Prize,          \* Prize[w]: how much, in cents
    Deposit         \* Deposit[u]: what a user has at the start, in cents

VARIABLES
    balance,        \* what each user has
    entries         \* the audit trail: change, user, and a balance after it

vars == <<balance, entries>>

Fresh(t) == \A e \in entries : e.txn # t

\* The stakes of a game: everybody can pay, and everybody does.
Take(s) ==
    /\ Fresh(s)
    /\ \A u \in Batch[s] : balance[u] >= Stake[s]
    /\ balance' = [u \in Users |-> IF u \in Batch[s] THEN balance[u] - Stake[s] ELSE balance[u]]
    /\ entries' = entries \cup
                    {[txn |-> s, user |-> u, after |-> balance[u] - Stake[s]] : u \in Batch[s]}

\* A prize.  Its entry says how much of the balance may be withdrawn, which is not more
\* than there is.
Give(w) ==
    /\ Fresh(w)
    /\ balance' = [balance EXCEPT ![Payee[w]] = @ + Prize[w]]
    /\ \E after \in 0 .. balance[Payee[w]] + Prize[w] :
          entries' = entries \cup {[txn |-> w, user |-> Payee[w], after |-> after]}

Init == balance = Deposit /\ entries = {}

Next == (\E s \in Starts : Take(s)) \/ (\E w \in Wins : Give(w))

Spec == Init /\ [][Next]_vars
=============================================================================
