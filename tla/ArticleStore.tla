---------------------------- MODULE ArticleStore ----------------------------
(***************************************************************************)
(* What the classification stage promises the rest of the service: a cycle *)
(* adds its batch of stories in one step, once; a story it adds has a URL  *)
(* no other stored story has, is listed in the feed in the same step, and  *)
(* readers are told of nothing else.                                       *)
(***************************************************************************)
CONSTANTS Cycles, Articles, CanonUrl

VARIABLES
  stored,   \* cycle -> the articles it stored
  listed,   \* cycle -> the articles it listed in the "all" feed
  told      \* cycle -> the articles some user was told of

vars == <<stored, listed, told>>

Empty == [c \in Cycles |-> {}]

Init == stored = Empty /\ listed = Empty /\ told = Empty

\* URLs of the articles of S are distinct, and new.
FreshUrls(S) ==
  /\ \A a, b \in S : CanonUrl[a] = CanonUrl[b] => a = b
  /\ \A d \in Cycles : \A a \in S, b \in stored[d] : CanonUrl[a] # CanonUrl[b]

Ingest(c) ==
  /\ stored[c] = {}
  /\ \E S \in SUBSET Articles, T \in SUBSET Articles :
       /\ T \subseteq S
       /\ FreshUrls(S)
       /\ stored' = [stored EXCEPT ![c] = S]
       /\ listed' = [listed EXCEPT ![c] = S]
       /\ told' = [told EXCEPT ![c] = T]

Next == \E c \in Cycles : Ingest(c)

Spec == Init /\ [][Next]_vars
=============================================================================
