----------------------------- MODULE MCAccounts -----------------------------
(* Instances of the account life cycle for TLC. *)
EXTENDS Accounts

CONSTANTS r1, r2, r3, r4, r5, seller, partner, ann, w1, w2, s1

\* Requests arrive in the order of their names.
MCTurn == [r \in Req |-> CASE r = r1 -> 1 [] r = r2 -> 2 [] r = r3 -> 3 [] r = r4 -> 4 [] r = r5 -> 5]
=============================================================================
