----------------------------- MODULE MCAccounts -----------------------------
(* Instances of Accounts for TLC.                                          *)
EXTENDS Accounts

CONSTANTS q1, q2, q3, q4, q5, phone

\* Two first requests of one user, of which one comes with a phone number; another user
\* with the same number, who also comes without; and a third without.
MCTelegramID == [r \in Requests |-> CASE r \in {q1, q2} -> 501 [] r \in {q3, q4} -> 502 [] OTHER -> 503]
MCPhoneNumber == [r \in Requests |-> IF r \in {q1, q3} THEN phone ELSE NoPhone]
=============================================================================
