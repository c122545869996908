--------------------------- MODULE MCNewsPipeline ---------------------------
(* Instances of NewsPipeline for TLC: at most two cycles, three items. *)
EXTENDS NewsPipeline

CONSTANTS c1, c2, a1, a2, a3, i1, u1, u2

\* a1 and a2 are one page under two addresses (a tracking parameter), a3 is
\* another page with a2's title; a1 and a3 share nothing.
SharedUrl   == [a \in Articles |-> IF a = a3 THEN "y" ELSE "x"]
SharedTitle == [a \in Articles |-> IF a = a1 THEN "s" ELSE "t"]

\* Three pages; a1 and a2 are the same agency story.
OwnUrl      == [a \in Articles |-> IF a = a1 THEN "x" ELSE IF a = a2 THEN "y" ELSE "z"]
AgencyTitle == [a \in Articles |-> IF a = a3 THEN "t" ELSE "s"]

\* u1 and u2 track i1; u2's only rule asks for the breaking band.
TwoTrackers == {<<u1, i1>>, <<u2, i1>>}
HighBar     == [u \in Users |-> IF u = u2 THEN {3} ELSE {}]
NoTracks    == {}
NoRules     == [u \in Users |-> {}]
OneReader   == [a \in Articles |-> {u1}]
NoReader    == [a \in Articles |-> {}]
=============================================================================
