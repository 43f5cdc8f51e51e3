----------------------------- MODULE MCAccounts -----------------------------
(* Model values and sets for checking Accounts with TLC. *)
EXTENDS Accounts, TLC

CONSTANTS a1, b1, x1, r1, r2

OneAccount == {a1}
Joiner == {b1}
ThreeAddresses == {a1, b1, x1}
TwoRequests == {r1, r2}
Symmetric == Permutations(TwoRequests)
=============================================================================
