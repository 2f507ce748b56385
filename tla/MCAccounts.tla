----------------------------- MODULE MCAccounts -----------------------------
(* A small instance of Accounts for TLC: two users, of whom one changes their *)
(* password, two sessions and two handlers at a time.                         *)
EXTENDS Accounts, TLC

CONSTANTS u1, u2, s1, s2, k1, k2

Symmetry == Permutations({s1, s2}) \cup Permutations({k1, k2})
============================================================================
