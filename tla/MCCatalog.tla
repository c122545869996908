----------------------------- MODULE MCCatalog -----------------------------
(* Instances of Catalog for TLC. *)
EXTENDS Catalog, TLC

CONSTANTS e1, e2, i1, g1, g2, x1, x2, u1, u2, s1, s2

\* Requests in flight, users, tags and sources are interchangeable.
Interchangeable == Permutations(Slots) \cup Permutations(Users)
                     \cup Permutations(Tags) \cup Permutations(Sources)
=============================================================================
