----------------------------- MODULE WalletInv -----------------------------
(* The inductive invariant behind the theorems of WalletProofs.            *)
EXTENDS Wallet

Done(t) == Rows(t) \ todo[t]

\* The user a call is at is one it still has to update, and it commits when none is left.
Place(t) ==
    /\ todo[t] \subseteq Rows(t)
    /\ pc[t] = "begin" => todo[t] = Rows(t)
    /\ pc[t] \in {"wait", "read"} => at[t] \in todo[t]
    /\ pc[t] = "next" => todo[t] # {}
    /\ pc[t] = "commit" => todo[t] = {}

\* What a call has scanned still stands.
Scanned(t) == pc[t] = "read" => lock[at[t]] = t /\ read[t] = wallet[at[t]]

\* What a call has written follows from what stands.
Written(t) ==
    pc[t] \in {"next", "wait", "read", "commit"} =>
        \A u \in Done(t) : /\ lock[u] = t
                           /\ new[t][u] = Afterwards(t, wallet[u])
                           /\ t \in Starts => Total(wallet[u]) >= Stake[t]

\* A call has locked the rows it has written and the one it is reading; none before it
\* begins and after it ends.
Locked(t) ==
    \A u \in Users : lock[u] = t => /\ pc[t] \notin {"begin", "ok", "error"}
                                    /\ pc[t] \in {"next", "wait"} => u \in Done(t)
                                    /\ pc[t] = "read" => u \in Done(t) \cup {at[t]}

\* A call posts at its end and not before, and is told so unless a reply was lost.
Answered(t) ==
    /\ pc[t] \notin {"ok", "error"} => ~Posted(t)
    /\ pc[t] = "ok" => Posted(t)
    /\ pc[t] = "error" /\ Posted(t) => faults > 0

CallInv(t) == Place(t) /\ Scanned(t) /\ Written(t) /\ Locked(t) /\ Answered(t)

WInv == TypeOK /\ \A t \in Txns : CallInv(t)
=============================================================================
