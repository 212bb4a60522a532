------------------------------ MODULE Accounts ------------------------------
(***************************************************************************)
(* Accounts: UserService.GetOrCreateUser, one statement at a time, for the *)
(* requests of POST /auth/register and POST /auth/verify, and what a token *)
(* that /auth/verify has issued is worth when its user selects a card.     *)
(* The user and its wallet are inserted in one transaction; telegram_id    *)
(* and phone_number are UNIQUE, and an insert waits for an uncommitted row *)
(* with the same key.                                                      *)
(***************************************************************************)
EXTENDS Integers, FiniteSets

CONSTANTS
    Requests,       \* the requests, each with a goroutine of its own
    TelegramID,     \* TelegramID[r]: telegramID, which is not zero
    PhoneNumber,    \* PhoneNumber[r]: phoneNumber; NoPhone of a request to /auth/verify
    NoPhone,        \* the empty string
    MaxFaults       \* bound on the statements that fail

ASSUME AccountsAssumption ==
    /\ TelegramID \in [Requests -> Nat \ {0}]
    /\ MaxFaults \in Nat

VARIABLES
    users,      \* users, as committed
    wallets,    \* the user_id of every row of wallets, as committed
    serial,     \* users_id_seq: the last id given out, to be rolled back or not
    pc,         \* where each request is
    userID,     \* user.ID, as it was scanned, or 0
    keys,       \* keys[r]: the indexes that have an uncommitted entry of the request
    faults      \* the statements that have failed so far

vars == <<users, wallets, serial, pc, userID, keys, faults>>

Phones == {PhoneNumber[r] : r \in Requests} \cup {NoPhone}

User == [id : Nat \ {0}, telegram_id : Nat \ {0}, phone_number : Phones]

Row(r) == [id |-> userID[r], telegram_id |-> TelegramID[r], phone_number |-> PhoneNumber[r]]

UserIDs == {u.id : u \in users}

Goto(r, label) == pc' = [pc EXCEPT ![r] = label]

-----------------------------------------------------------------------------
(* GetOrCreateUser *)

\* Mutated form: pgx.ErrNoRows is an error like any other.
SelectStrict(r) ==
    /\ pc[r] = "select"
    /\ \/ \E u \in users : /\ u.telegram_id = TelegramID[r]
                           /\ userID' = [userID EXCEPT ![r] = u.id]
                           /\ Goto(r, "ok")
       \/ /\ \A u \in users : u.telegram_id # TelegramID[r]
          /\ Goto(r, "error")
          /\ UNCHANGED userID
    /\ UNCHANGED <<users, wallets, serial, keys, faults>>
\* The user is there, or is to be inserted.
Select(r) ==
    /\ pc[r] = "select"
    /\ \/ \E u \in users : /\ u.telegram_id = TelegramID[r]
                           /\ userID' = [userID EXCEPT ![r] = u.id]
                           /\ Goto(r, "ok")
       \/ /\ \A u \in users : u.telegram_id # TelegramID[r]
          /\ Goto(r, "insert")
          /\ UNCHANGED userID
    /\ UNCHANGED <<users, wallets, serial, keys, faults>>

\* Mutated form: telegram_id without UNIQUE.
TelegramFreeAlways(r) == TRUE
\* No row, committed or not, has the Telegram id.
TelegramFree(r) ==
    /\ \A u \in users : u.telegram_id # TelegramID[r]
    /\ \A q \in Requests \ {r} : "telegram_id" \in keys[q] => TelegramID[q] # TelegramID[r]

PhoneFree(r) ==
    /\ \A u \in users : u.phone_number # PhoneNumber[r]
    /\ \A q \in Requests \ {r} : "phone_number" \in keys[q] => PhoneNumber[q] # PhoneNumber[r]

\* INSERT INTO users takes an id and enters the row into the indexes, in the order they
\* were created in; it waits for an uncommitted entry with the same key.
InsertUser(r) ==
    /\ pc[r] = "insert" /\ TelegramFree(r)
    /\ serial' = serial + 1
    /\ userID' = [userID EXCEPT ![r] = serial']
    /\ keys' = [keys EXCEPT ![r] = {"telegram_id"}]
    /\ Goto(r, "phone")
    /\ UNCHANGED <<users, wallets, faults>>

EnterPhone(r) ==
    /\ pc[r] = "phone" /\ PhoneFree(r)
    /\ keys' = [keys EXCEPT ![r] = @ \cup {"phone_number"}]
    /\ Goto(r, "wallet")
    /\ UNCHANGED <<users, wallets, serial, userID, faults>>

\* "failed to create user": a committed row has the key.
Conflict(r) ==
    /\ \/ pc[r] = "insert" /\ \E u \in users : u.telegram_id = TelegramID[r]
       \/ pc[r] = "phone" /\ \E u \in users : u.phone_number = PhoneNumber[r]
    /\ Goto(r, "rollback")
    /\ UNCHANGED <<users, wallets, serial, userID, keys, faults>>

\* INSERT INTO wallets: the user of the same transaction is there and has none yet.
InsertWallet(r) ==
    /\ pc[r] = "wallet"
    /\ Goto(r, "commit")
    /\ UNCHANGED <<users, wallets, serial, userID, keys, faults>>

Fault == faults < MaxFaults /\ faults' = faults + 1

\* tx.Commit; the reply may be lost.
Commit(r) ==
    /\ pc[r] = "commit"
    /\ users' = users \cup {Row(r)}
    /\ wallets' = wallets \cup {userID[r]}
    /\ keys' = [keys EXCEPT ![r] = {}]
    /\ \/ Goto(r, "ok") /\ UNCHANGED faults
       \/ Goto(r, "error") /\ Fault
    /\ UNCHANGED <<serial, userID>>

\* A statement fails.
Fail(r) ==
    /\ pc[r] \in {"select", "insert", "phone", "wallet", "commit"}
    /\ Fault
    /\ Goto(r, IF pc[r] = "select" THEN "error" ELSE "rollback")
    /\ UNCHANGED <<users, wallets, serial, userID, keys>>

\* Mutated form: without defer tx.Rollback.
RollbackNever(r) ==
    /\ pc[r] = "rollback"
    /\ Goto(r, "error")
    /\ UNCHANGED <<users, wallets, serial, userID, keys, faults>>
\* The deferred tx.Rollback; the id is not given out again.
Rollback(r) ==
    /\ pc[r] = "rollback"
    /\ keys' = [keys EXCEPT ![r] = {}]
    /\ Goto(r, "error")
    /\ UNCHANGED <<users, wallets, serial, userID, faults>>

-----------------------------------------------------------------------------
(* The token of /auth/verify *)

\* card:select over a connection that joined with the token: Client.UserID is the
\* TelegramID of the claims, and the card is inserted if that is a users.id.
SelectCard(r) ==
    /\ pc[r] = "ok" /\ PhoneNumber[r] = NoPhone
    /\ Goto(r, IF TelegramID[r] \in UserIDs THEN "seated" ELSE "refused")
    /\ UNCHANGED <<users, wallets, serial, userID, keys, faults>>

-----------------------------------------------------------------------------
Init ==
    /\ users = {} /\ wallets = {} /\ serial = 0
    /\ pc = [r \in Requests |-> "select"]
    /\ userID = [r \in Requests |-> 0]
    /\ keys = [r \in Requests |-> {}]
    /\ faults = 0

Create(r) == Select(r) \/ InsertUser(r) \/ EnterPhone(r) \/ Conflict(r) \/ InsertWallet(r)
             \/ Commit(r) \/ Rollback(r)

Next == \E r \in Requests : Create(r) \/ Fail(r) \/ SelectCard(r)

Spec == Init /\ [][Next]_vars

\* A request whose statement can be executed goes on.  Nothing makes a user play.
FairSpec == Spec /\ \A r \in Requests : WF_vars(Create(r))

-----------------------------------------------------------------------------
(* Properties. *)

Answered == {"ok", "seated", "refused"}
Labels == {"select", "insert", "phone", "wallet", "commit", "rollback", "error"} \cup Answered

\* Every variable keeps its range.
TypeOK ==
    /\ users \subseteq User
    /\ wallets \subseteq Nat \ {0}
    /\ serial \in Nat
    /\ pc \in [Requests -> Labels]
    /\ userID \in [Requests -> Nat]
    /\ keys \in [Requests -> SUBSET {"telegram_id", "phone_number"}]
    /\ faults \in 0 .. MaxFaults

\* A request that is answered has been given the only account of its Telegram id, however
\* many first requests of one user come at once and whatever fails in between, and with it a
\* wallet: without that row each start with the user ready would fail
\* (game_service.go:372-376).
OneAccount ==
    \A r \in Requests :
        pc[r] \in Answered =>
            \E u \in users : /\ u.id = userID[r] /\ u.id \in wallets
                             /\ {v \in users : v.telegram_id = TelegramID[r]} = {u}

\* When no statement fails, a request is refused only because another one has just made
\* the account, so that a retry will find it, or because the phone number is taken, the
\* empty one included.
RefusalsExplained ==
    \A r \in Requests :
        pc[r] = "error" /\ faults = 0 =>
            \E u \in users : u.telegram_id = TelegramID[r] \/ u.phone_number = PhoneNumber[r]

\* The guards of the statements: r needs no other request to go on first.
CanGoOn(r) ==
    \/ pc[r] \in {"select", "wallet", "commit", "rollback"}
    \/ pc[r] = "insert" /\ (TelegramFree(r) \/ \E u \in users : u.telegram_id = TelegramID[r])
    \/ pc[r] = "phone" /\ (PhoneFree(r) \/ \E u \in users : u.phone_number = PhoneNumber[r])

Ended(r) == pc[r] \in Answered \cup {"error"}

\* Until all requests have ended one of them can go on: no key stays with a request that
\* is gone, and inserts that wait for each other's keys never do so in a circle.
SomeoneGoesOn == (\A r \in Requests : Ended(r)) \/ \E r \in Requests : CanGoOn(r)

\* Every request is answered or refused: no insert waits for ever for the key of another.
EveryRequestEnds == \A r \in Requests : <>Ended(r)

\* "SelectCard creates a cartela for a user" (game_service.go:311): the user whose token
\* it is gets the card, unless a statement fails.
TokenHolderPlays == \A r \in Requests : pc[r] = "refused" => faults > 0

-----------------------------------------------------------------------------
(* The inductive invariant of AccountsProofs. *)

\* Users and wallets are committed together.
UsersHaveWallets == UserIDs = wallets

\* The keys of a request are those of the statements it has got through.
KeysFollow ==
    \A r \in Requests :
        /\ pc[r] = "phone" => keys[r] = {"telegram_id"}
        /\ pc[r] \in {"wallet", "commit"} => keys[r] = {"telegram_id", "phone_number"}
        /\ keys[r] # {} => /\ userID[r] \in 1 .. serial
                           /\ pc[r] \in {"phone", "wallet", "commit", "rollback"}

\* An entry of an index that is not committed is the only one with its key, and its row
\* has an id of its own.
KeysUnique ==
    /\ \A r \in Requests : "telegram_id" \in keys[r] => TelegramFree(r) /\ userID[r] \notin UserIDs
    /\ \A r, q \in Requests : keys[r] # {} /\ keys[q] # {} /\ userID[r] = userID[q] => r = q

\* So is a committed one.
UsersUnique ==
    /\ \A u \in users : u.id <= serial
    /\ \A u, v \in users : u.telegram_id = v.telegram_id => u = v

Explained(r) ==
    \/ faults > 0
    \/ \E u \in users : u.telegram_id = TelegramID[r] \/ u.phone_number = PhoneNumber[r]

AInv ==
    /\ TypeOK /\ UsersHaveWallets /\ KeysFollow /\ KeysUnique /\ UsersUnique
    /\ \A r \in Requests : /\ pc[r] \in {"rollback", "error"} => Explained(r)
                           /\ pc[r] \in Answered => \E u \in users : /\ u.id = userID[r]
                                                                     /\ u.telegram_id = TelegramID[r]
=============================================================================
