--------------------------- MODULE AccountsProofs ---------------------------
(***************************************************************************)
(* Theorems of Accounts, for any number of requests, users and failures.   *)
(***************************************************************************)
EXTENDS Accounts, TLAPS

\* What the invariant says of one request.
LEMMA Typed ==
  ASSUME AInv, NEW r \in Requests
  PROVE  /\ TelegramID[r] \in Nat \ {0} /\ PhoneNumber[r] \in Phones /\ userID[r] \in Nat
         /\ keys[r] # {} => userID[r] \in Nat \ {0} /\ userID[r] <= serial /\ Row(r) \in User
  BY AccountsAssumption DEF AInv, TypeOK, KeysFollow, Phones, Row, User

\* A request that only moves, while nothing is inserted, committed or rolled back.
LEMMA MoveKeeps ==
  ASSUME AInv, NEW r \in Requests, NEW l \in Labels, Goto(r, l),
         UNCHANGED <<users, wallets, serial, userID, keys>>,
         faults' \in 0 .. MaxFaults, faults' >= faults,
         l \notin {"phone", "wallet"}, l = "commit" => pc[r] = "wallet",
         keys[r] # {} => l \in {"commit", "rollback"},
         l \in {"rollback", "error"} => Explained(r)',
         l \in Answered => \E u \in users : u.id = userID[r] /\ u.telegram_id = TelegramID[r]
  PROVE  AInv'
<1>. USE DEF AInv
<1>1. pc' = [pc EXCEPT ![r] = l] /\ pc \in [Requests -> Labels]
  BY DEF Goto, TypeOK
<1>2. TypeOK'
  BY <1>1 DEF TypeOK
<1>3. KeysFollow'
  BY <1>1 DEF KeysFollow
<1>4. UsersHaveWallets' /\ KeysUnique' /\ UsersUnique'
  BY DEF UsersHaveWallets, UserIDs, KeysUnique, UsersUnique, TelegramFree
<1>5. ASSUME NEW q \in Requests
      PROVE  /\ pc'[q] \in {"rollback", "error"} => Explained(q)'
             /\ pc'[q] \in Answered => \E u \in users' : /\ u.id = userID'[q]
                                                         /\ u.telegram_id = TelegramID[q]
  <2>1. Explained(q) => Explained(q)'
    BY DEF Explained, TypeOK
  <2>. QED
    BY <1>1, <2>1
<1>. QED
  BY <1>2, <1>3, <1>4, <1>5

\* The row has got its id and its entry for the Telegram id.
LEMMA InsertStep ==
  ASSUME AInv, NEW r \in Requests, InsertUser(r)
  PROVE  AInv'
<1>. USE DEF AInv, InsertUser, Goto
<1>1. /\ pc' \in [Requests -> Labels] /\ pc'[r] = "phone"
      /\ \A q \in Requests \ {r} : pc'[q] = pc[q] /\ keys'[q] = keys[q] /\ userID'[q] = userID[q]
      /\ keys'[r] = {"telegram_id"} /\ userID'[r] = serial + 1
      /\ serial \in Nat /\ serial' = serial + 1
  BY DEF TypeOK, Labels
<1>2. TypeOK'
  BY <1>1 DEF TypeOK
<1>3. KeysFollow'
  BY <1>1 DEF KeysFollow, Answered, TypeOK
<1>4. \A u \in users : u.id <= serial /\ u.id \in Nat
  BY DEF UsersUnique, TypeOK, User
<1>5. UsersHaveWallets' /\ UsersUnique'
  BY <1>1, <1>4 DEF UsersHaveWallets, UserIDs, UsersUnique
<1>6. \A q \in Requests \ {r} : keys[q] # {} => userID[q] \in 1 .. serial
  BY DEF KeysFollow
<1>7. ASSUME NEW q \in Requests, "telegram_id" \in keys'[q]
      PROVE  TelegramFree(q)' /\ userID'[q] \notin UserIDs'
  <2>1. CASE q = r
    BY <1>1, <1>4, <2>1 DEF TelegramFree, UserIDs
  <2>2. CASE q # r
    BY <1>1, <1>7, <2>2 DEF KeysUnique, TelegramFree, UserIDs
  <2>. QED
    BY <2>1, <2>2
<1>8. ASSUME NEW p \in Requests, NEW q \in Requests, keys'[p] # {}, keys'[q] # {}, userID'[p] = userID'[q]
      PROVE  p = q
  BY <1>1, <1>6, <1>8 DEF KeysUnique
<1>9. KeysUnique'
  BY <1>7, <1>8 DEF KeysUnique
<1>10. ASSUME NEW q \in Requests
      PROVE  /\ pc'[q] \in {"rollback", "error"} => Explained(q)'
             /\ pc'[q] \in Answered => \E u \in users' : /\ u.id = userID'[q]
                                                         /\ u.telegram_id = TelegramID[q]
  BY <1>1 DEF Explained, Answered
<1>. QED
  BY <1>2, <1>3, <1>5, <1>9, <1>10

\* It has its entry for the phone number too.
LEMMA PhoneStep ==
  ASSUME AInv, NEW r \in Requests, EnterPhone(r)
  PROVE  AInv'
<1>. USE DEF AInv, EnterPhone, Goto
<1>1. /\ pc' \in [Requests -> Labels] /\ pc'[r] = "wallet"
      /\ \A q \in Requests \ {r} : pc'[q] = pc[q] /\ keys'[q] = keys[q]
      /\ keys[r] = {"telegram_id"} /\ keys'[r] = {"telegram_id", "phone_number"}
  BY DEF TypeOK, Labels, KeysFollow
<1>2. TypeOK'
  BY <1>1 DEF TypeOK
<1>3. KeysFollow'
  BY <1>1 DEF KeysFollow, Answered
<1>4. UsersHaveWallets' /\ UsersUnique'
  BY DEF UsersHaveWallets, UserIDs, UsersUnique
<1>5. \A q \in Requests : /\ "telegram_id" \in keys'[q] <=> "telegram_id" \in keys[q]
                          /\ keys'[q] # {} <=> keys[q] # {}
  BY <1>1
<1>6. KeysUnique'
  BY <1>5 DEF KeysUnique, TelegramFree, UserIDs
<1>7. ASSUME NEW q \in Requests
      PROVE  /\ pc'[q] \in {"rollback", "error"} => Explained(q)'
             /\ pc'[q] \in Answered => \E u \in users' : /\ u.id = userID'[q]
                                                         /\ u.telegram_id = TelegramID[q]
  BY <1>1 DEF Explained, Answered
<1>. QED
  BY <1>2, <1>3, <1>4, <1>6, <1>7

\* The entries of a request are gone, those of the others stay.
LEMMA ReleaseKeeps ==
  ASSUME AInv, NEW r \in Requests, keys' = [keys EXCEPT ![r] = {}], UNCHANGED <<serial, userID>>,
         NEW l \in {"ok", "error"}, Goto(r, l),
         \A q \in Requests \ {r} : "telegram_id" \in keys[q] => TelegramFree(q)' /\ userID[q] \notin UserIDs'
  PROVE  /\ pc' \in [Requests -> Labels] /\ pc'[r] = l /\ \A q \in Requests \ {r} : pc'[q] = pc[q]
         /\ keys' \in [Requests -> SUBSET {"telegram_id", "phone_number"}]
         /\ KeysFollow' /\ KeysUnique'
<1>. USE DEF AInv, Goto
<1>1. /\ pc' \in [Requests -> Labels] /\ pc'[r] = l /\ \A q \in Requests \ {r} : pc'[q] = pc[q]
      /\ keys' \in [Requests -> SUBSET {"telegram_id", "phone_number"}]
      /\ keys'[r] = {} /\ \A q \in Requests \ {r} : keys'[q] = keys[q]
  BY DEF TypeOK, Labels, Answered
<1>2. KeysFollow'
  BY <1>1 DEF KeysFollow
<1>3. KeysUnique'
  BY <1>1 DEF KeysUnique
<1>. QED
  BY <1>1, <1>2, <1>3

\* A transaction that is rolled back frees its keys.
LEMMA RollbackStep ==
  ASSUME AInv, NEW r \in Requests, Rollback(r)
  PROVE  AInv'
<1>. USE DEF AInv, Rollback
<1>1. \A q \in Requests \ {r} : "telegram_id" \in keys[q] => TelegramFree(q)' /\ userID[q] \notin UserIDs'
  <2>. SUFFICES ASSUME NEW q \in Requests \ {r}, "telegram_id" \in keys[q]
                PROVE  TelegramFree(q)' /\ userID[q] \notin UserIDs'
    OBVIOUS
  <2>1. \A p \in Requests : "telegram_id" \in keys'[p] => "telegram_id" \in keys[p]
    BY DEF TypeOK
  <2>. QED
    BY <2>1 DEF KeysUnique, TelegramFree, UserIDs
<1>2. /\ pc' \in [Requests -> Labels] /\ pc'[r] = "error" /\ \A q \in Requests \ {r} : pc'[q] = pc[q]
      /\ keys' \in [Requests -> SUBSET {"telegram_id", "phone_number"}]
      /\ KeysFollow' /\ KeysUnique'
  BY <1>1, ReleaseKeeps
<1>3. TypeOK' /\ UsersHaveWallets' /\ UsersUnique'
  BY <1>2 DEF TypeOK, UsersHaveWallets, UserIDs, UsersUnique
<1>4. ASSUME NEW q \in Requests
      PROVE  /\ pc'[q] \in {"rollback", "error"} => Explained(q)'
             /\ pc'[q] \in Answered => \E u \in users' : /\ u.id = userID'[q]
                                                         /\ u.telegram_id = TelegramID[q]
  BY <1>2 DEF Explained, Answered
<1>. QED
  BY <1>2, <1>3, <1>4

\* A commit makes the row and its wallet visible.
LEMMA CommitStep ==
  ASSUME AInv, NEW r \in Requests, Commit(r)
  PROVE  AInv'
<1>. USE DEF AInv, Commit
<1>1. /\ keys[r] = {"telegram_id", "phone_number"} /\ TelegramFree(r) /\ userID[r] \notin UserIDs
      /\ userID[r] \in Nat \ {0} /\ userID[r] <= serial /\ Row(r) \in User
      /\ Row(r).id = userID[r] /\ Row(r).telegram_id = TelegramID[r]
  BY Typed DEF KeysFollow, KeysUnique, Row
<1>2. UserIDs' = UserIDs \cup {userID[r]}
  BY <1>1 DEF UserIDs
<1>3. \A q \in Requests \ {r} : "telegram_id" \in keys[q] => TelegramFree(q)' /\ userID[q] \notin UserIDs'
  <2>. SUFFICES ASSUME NEW q \in Requests \ {r}, "telegram_id" \in keys[q]
                PROVE  TelegramFree(q)' /\ userID[q] \notin UserIDs'
    OBVIOUS
  <2>1. \A p \in Requests : "telegram_id" \in keys'[p] => "telegram_id" \in keys[p]
    BY DEF TypeOK
  <2>2. TelegramID[q] # TelegramID[r] /\ userID[q] # userID[r]
    BY <1>1 DEF KeysUnique, TelegramFree
  <2>3. TelegramFree(q) /\ userID[q] \notin UserIDs
    BY DEF KeysUnique
  <2>. QED
    BY <1>1, <1>2, <2>1, <2>2, <2>3 DEF TelegramFree
<1>4. PICK l \in {"ok", "error"} : Goto(r, l) /\ (l = "ok" => UNCHANGED faults) /\ (l = "error" => Fault)
  OBVIOUS
<1>5. /\ pc' \in [Requests -> Labels] /\ pc'[r] = l /\ \A q \in Requests \ {r} : pc'[q] = pc[q]
      /\ keys' \in [Requests -> SUBSET {"telegram_id", "phone_number"}]
      /\ KeysFollow' /\ KeysUnique'
  BY <1>3, <1>4, ReleaseKeeps
<1>6. faults' \in 0 .. MaxFaults /\ faults' >= faults /\ (l = "error" => faults' > 0)
  BY <1>4, AccountsAssumption DEF Fault, TypeOK
<1>7. TypeOK'
  BY <1>1, <1>5, <1>6 DEF TypeOK
<1>8. UsersHaveWallets'
  BY <1>2 DEF UsersHaveWallets
<1>9. UsersUnique'
  BY <1>1 DEF UsersUnique, TelegramFree
<1>10. ASSUME NEW q \in Requests
      PROVE  /\ pc'[q] \in {"rollback", "error"} => Explained(q)'
             /\ pc'[q] \in Answered => \E u \in users' : /\ u.id = userID'[q]
                                                         /\ u.telegram_id = TelegramID[q]
  <2>1. Explained(q) => Explained(q)'
    BY <1>6 DEF Explained, TypeOK
  <2>2. CASE q = r
    BY <1>1, <1>5, <1>6, <2>2 DEF Explained
  <2>3. CASE q # r
    BY <1>5, <2>1, <2>3
  <2>. QED
    BY <2>2, <2>3
<1>. QED
  BY <1>5, <1>7, <1>8, <1>9, <1>10

\* The remaining steps move one request.
LEMMA OtherSteps ==
  ASSUME AInv, NEW r \in Requests,
         Select(r) \/ Conflict(r) \/ InsertWallet(r) \/ Fail(r) \/ SelectCard(r)
  PROVE  AInv'
<1>. USE DEF AInv
<1>1. faults \in 0 .. MaxFaults /\ MaxFaults \in Nat /\ pc[r] \in Labels
  BY AccountsAssumption DEF TypeOK
<1>2. keys[r] # {} => pc[r] \in {"phone", "wallet", "commit", "rollback"}
  BY DEF KeysFollow
<1>3. CASE Select(r)
  <2>1. CASE Goto(r, "insert") /\ UNCHANGED userID
    BY <1>1, <1>2, <1>3, <2>1, MoveKeeps DEF Select, Labels, Answered
  <2>2. CASE \E u \in users : /\ u.telegram_id = TelegramID[r]
                              /\ userID' = [userID EXCEPT ![r] = u.id] /\ Goto(r, "ok")
    <3>1. PICK u \in users : /\ u.telegram_id = TelegramID[r]
                             /\ userID' = [userID EXCEPT ![r] = u.id] /\ Goto(r, "ok")
      BY <2>2
    <3>2. /\ pc' \in [Requests -> Labels] /\ pc'[r] = "ok" /\ userID'[r] = u.id /\ u.id \in Nat
          /\ \A q \in Requests \ {r} : pc'[q] = pc[q] /\ userID'[q] = userID[q]
          /\ userID' \in [Requests -> Nat] /\ keys[r] = {}
      BY <1>2, <1>3, <3>1 DEF Select, TypeOK, Labels, Answered, Goto, User
    <3>3. UNCHANGED <<users, wallets, serial, keys, faults>>
      BY <1>3 DEF Select
    <3>4. TypeOK' /\ UsersHaveWallets' /\ UsersUnique'
      BY <3>2, <3>3 DEF TypeOK, UsersHaveWallets, UserIDs, UsersUnique
    <3>5. KeysFollow'
      BY <3>2, <3>3 DEF KeysFollow
    <3>6. KeysUnique'
      BY <3>2, <3>3 DEF KeysUnique, TelegramFree, UserIDs
    <3>7. ASSUME NEW q \in Requests
          PROVE  /\ pc'[q] \in {"rollback", "error"} => Explained(q)'
                 /\ pc'[q] \in Answered => \E v \in users' : /\ v.id = userID'[q]
                                                             /\ v.telegram_id = TelegramID[q]
      BY <3>1, <3>2, <3>3 DEF Explained
    <3>. QED
      BY <3>4, <3>5, <3>6, <3>7
  <2>. QED
    BY <1>3, <2>1, <2>2 DEF Select
<1>4. CASE Conflict(r)
  <2>1. Explained(r)'
    BY <1>4 DEF Conflict, Explained
  <2>. QED
    BY <1>1, <1>4, <2>1, MoveKeeps DEF Conflict, Labels, Answered
<1>5. CASE InsertWallet(r)
  BY <1>1, <1>5, MoveKeeps DEF InsertWallet, Labels, Answered
<1>6. CASE Fail(r)
  <2>1. faults' \in 0 .. MaxFaults /\ faults' > 0 /\ faults' >= faults
    BY <1>1, <1>6 DEF Fail, Fault
  <2>2. Explained(r)'
    BY <2>1 DEF Explained
  <2>3. PICK l \in {"error", "rollback"} : Goto(r, l) /\ (l = "error" => pc[r] = "select")
    BY <1>6 DEF Fail
  <2>. QED
    BY <1>2, <1>6, <2>1, <2>2, <2>3, MoveKeeps DEF Fail, Labels, Answered
<1>7. CASE SelectCard(r)
  <2>1. PICK l \in {"seated", "refused"} : Goto(r, l)
    BY <1>7 DEF SelectCard
  <2>2. pc[r] \in Answered /\ keys[r] = {}
    BY <1>2, <1>7 DEF SelectCard, Answered
  <2>. QED
    BY <1>1, <1>7, <2>1, <2>2, MoveKeeps DEF SelectCard, Labels, Answered
<1>. QED
  BY <1>3, <1>4, <1>5, <1>6, <1>7

-----------------------------------------------------------------------------
(* Theorems. *)

\* What holds of rows, index entries and answers at every moment.
THEOREM Invariant == Spec => []AInv
<1>1. Init => AInv
  BY AccountsAssumption
  DEF Init, AInv, TypeOK, Labels, Answered, UsersHaveWallets, UserIDs, KeysFollow, KeysUnique, UsersUnique
<1>2. AInv /\ [Next]_vars => AInv'
  <2>. SUFFICES ASSUME AInv, [Next]_vars PROVE AInv'
    OBVIOUS
  <2>1. CASE UNCHANGED vars
    BY <2>1 DEF vars, AInv, TypeOK, UsersHaveWallets, UserIDs, KeysFollow, KeysUnique, TelegramFree,
                UsersUnique, Explained
  <2>. QED
    BY <2>1, InsertStep, PhoneStep, RollbackStep, CommitStep, OtherSteps DEF Next, Create
<1>. QED
  BY <1>1, <1>2, PTL DEF Spec

\* Whoever is answered has been given the one account of its Telegram id, with a wallet.
THEOREM AccountIsOne == Spec => []OneAccount
<1>1. AInv => OneAccount
  <2>. SUFFICES ASSUME AInv, NEW r \in Requests, pc[r] \in Answered
                PROVE  \E u \in users : /\ u.id = userID[r] /\ u.id \in wallets
                                         /\ {v \in users : v.telegram_id = TelegramID[r]} = {u}
    BY DEF OneAccount
  <2>1. PICK u \in users : u.id = userID[r] /\ u.telegram_id = TelegramID[r]
    BY DEF AInv
  <2>2. \A v \in users : v.telegram_id = TelegramID[r] => v = u
    BY <2>1 DEF AInv, UsersUnique
  <2>3. u.id \in wallets
    BY <2>1 DEF AInv, UsersHaveWallets, UserIDs
  <2>. QED
    BY <2>1, <2>2, <2>3
<1>. QED
  BY <1>1, Invariant, PTL

\* When nothing fails, only a request that lost a race or brought a taken phone number is
\* refused.
THEOREM RefusalHasReason == Spec => []RefusalsExplained
<1>1. AInv => RefusalsExplained
  BY DEF AInv, Explained, RefusalsExplained
<1>. QED
  BY <1>1, Invariant, PTL

\* Requests that want each other's keys never wait for each other in a circle: the keys
\* are taken in one order, and whoever has them all waits for nobody.
THEOREM NeverAllWait == Spec => []SomeoneGoesOn
<1>1. AInv => SomeoneGoesOn
  <2>. SUFFICES ASSUME AInv, NEW r \in Requests, ~Ended(r), \A q \in Requests : ~CanGoOn(q)
                PROVE  FALSE
    BY DEF SomeoneGoesOn
  <2>1. \A q \in Requests : pc[q] \in {"insert", "phone"} \cup Answered \cup {"error"}
    BY DEF AInv, TypeOK, Labels, CanGoOn
  <2>2. \A q \in Requests : keys[q] # {} => pc[q] = "phone" /\ keys[q] = {"telegram_id"}
    BY <2>1 DEF AInv, KeysFollow, Answered
  <2>3. \A q \in Requests : pc[q] # "phone"
    BY <2>2 DEF CanGoOn, PhoneFree
  <2>4. pc[r] # "insert"
    BY <2>2, <2>3 DEF CanGoOn, TelegramFree
  <2>. QED
    BY <2>1, <2>3, <2>4 DEF Ended
<1>. QED
  BY <1>1, Invariant, PTL
=============================================================================
