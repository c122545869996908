---------------------------- MODULE MCCommunity -----------------------------
(* Instances of Community for TLC: three requests, two users, two comments. *)
EXTENDS Community

CONSTANTS u1, u2, k1, k2, r1, r2, r3
=============================================================================
