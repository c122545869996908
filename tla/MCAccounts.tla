----------------------------- MODULE MCAccounts -----------------------------
(* Instances of Accounts for TLC. *)
EXTENDS Accounts, TLC

CONSTANTS u1, u2, n1, p1, p2, t1, t2, t3, s1, s2

\* Requests in flight and passwords are interchangeable.
Interchangeable == Permutations(Slots) \cup Permutations(Passwords)
=============================================================================
