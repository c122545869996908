-------------------------- MODULE Community_proofs --------------------------
(***************************************************************************)
(* Theorems of Community, for any number of users, comments and requests,  *)
(* overlapping in any way.                                                 *)
(***************************************************************************)
EXTENDS Community, FiniteSetTheorems, TLAPS

USE DEF Rows, VoteType, Columns

-----------------------------------------------------------------------------
(* One vote and one like each *)

\* The unique constraints alone keep it; no step but a commit adds a row.
LEMMA NextOneVote == OneVoteEach /\ [Next]_vars => OneVoteEach'
<1> SUFFICES ASSUME OneVoteEach, [Next]_vars PROVE OneVoteEach'
  OBVIOUS
<1>1. ASSUME NEW r \in Requests, FlushSucceeds(r), VotePost(r) PROVE OneVoteEach'
  <2> DEFINE changed == {h.id : h \in {h \in hit[r] : h.type # ask[r].type}}
             new(v) == IF v.id \in changed THEN [v EXCEPT !.type = ask[r].type] ELSE v
  <2>1. votes' = {new(v) : v \in votes} \cup NewVotes(r)
    BY <1>1 DEF VotePost
  <2>2. \A v, w \in NewVotes(r) : v = w
    BY DEF NewVotes
  <2>3. \A v \in votes : new(v).user = v.user
    OBVIOUS
  <2>4. \A v \in NewVotes(r), w \in votes : v.user # w.user
    BY <1>1 DEF FlushSucceeds, UniqueKeys
  <2> HIDE DEF new
  <2>5. \A v, w \in votes' : v.user = w.user => v = w
    BY <2>1, <2>2, <2>3, <2>4 DEF OneVoteEach
  <2>6. likes' = likes
    BY <1>1 DEF VotePost
  <2>7. QED
    BY <2>5, <2>6 DEF OneVoteEach
<1>2. ASSUME NEW r \in Requests, FlushSucceeds(r), LikeComment(r) PROVE OneVoteEach'
  <2>1. \A l, m \in NewLikes(r) : l = m
    BY DEF NewLikes
  <2>2. \A l \in NewLikes(r), m \in likes : l.user # m.user \/ l.comment # m.comment
    BY <1>2 DEF FlushSucceeds, UniqueKeys
  <2>3. likes' \subseteq likes \cup NewLikes(r) /\ votes' = votes
    BY <1>2 DEF LikeComment
  <2>4. QED
    BY <2>1, <2>2, <2>3 DEF OneVoteEach
<1>3. ASSUME NEW r \in Requests, CreateComment(r) \/ DeleteComment(r) \/ DeletePost(r)
      PROVE  OneVoteEach'
  <2>1. votes' \subseteq votes /\ likes' \subseteq likes
    BY <1>3 DEF CreateComment, DeleteComment, DeletePost, Remove
  <2>2. QED
    BY <2>1 DEF OneVoteEach
<1>4. ASSUME NEW r \in Requests, Apply(r) PROVE OneVoteEach'
  BY <1>1, <1>2, <1>3, <1>4 DEF Apply
<1>5. ASSUME UNCHANGED <<votes, likes>> PROVE OneVoteEach'
  BY <1>5 DEF OneVoteEach
<1>6. CASE \E r \in Requests : Arrive(r) \/ NotFound(r) \/ Find(r) \/ CheckEnds(r)
             \/ Check(r) \/ FlushFails(r) \/ Abort(r)
  BY <1>5, <1>6 DEF Arrive, NotFound, Find, CheckEnds, Check, FlushFails, Abort, board
<1>7. CASE Recount
  BY <1>5, <1>7 DEF Recount, JobLoad, JobCount, JobSave, board
<1>8. CASE UNCHANGED vars
  BY <1>5, <1>8 DEF vars, board
<1>9. QED
  BY <1>4, <1>6, <1>7, <1>8 DEF Next, Serve

\* However many requests of a user run at once, the user has one vote on the post
\* and one like on a comment.
THEOREM OneVotePerUser == Spec => []OneVoteEach
<1>1. Init => OneVoteEach
  BY DEF Init, OneVoteEach
<1>2. QED
  BY <1>1, NextOneVote, PTL DEF Spec
-----------------------------------------------------------------------------
(* Types *)

\* What is computed from counters is counters, never negative.
LEMMA ComputedType ==
  ASSUME TypeOK, NEW r \in Requests, ask[r] \in Ask
  PROVE  Computed(r) \in Counters
<1> DEFINE s == seen[r]
<1>1. s \in Counters
  BY DEF TypeOK
<1>2. \A n \in Int : AtLeastZero(n) \in Nat
  BY DEF AtLeastZero
<1>3. ASSUME NEW f \in Columns, NEW n \in Nat PROVE [s EXCEPT ![f] = n] \in Counters
  BY <1>1, <1>3 DEF Counters
<1>4. \A f \in Columns : s[f] \in Nat /\ s[f] + 1 \in Nat /\ AtLeastZero(s[f] - 1) \in Nat
  BY <1>1, <1>2 DEF Counters
<1>5. ASSUME NEW had, NEW type \in VoteType PROVE Voted(s, had, type) \in Counters
  <2> DEFINE s1 == [f \in Columns |->
               IF \E v \in had : v.type = f THEN AtLeastZero(s[f] - 1) ELSE s[f]]
  <2>1. s1 \in Counters
    BY <1>4 DEF Counters
  <2>2. [s1 EXCEPT ![type] = @ + 1] \in Counters
    BY <2>1 DEF Counters
  <2>3. QED
    BY <2>2 DEF Voted
<1>6. CASE ask[r].op = "vote"
  <2>1. ask[r].type \in VoteType
    BY <1>6 DEF Ask
  <2>2. QED
    BY <1>1, <1>5, <1>6, <2>1 DEF Computed
<1>7. CASE ask[r].op \in {"create_comment", "delete_comment"}
  BY <1>3, <1>4, <1>7 DEF Computed
<1>8. CASE ask[r].op \in {"like", "unlike"}
  BY <1>1, <1>3, <1>4, <1>8 DEF Computed
<1>9. CASE ask[r].op = "delete_post"
  BY <1>1, <1>9 DEF Computed
<1>10. QED
  BY <1>6, <1>7, <1>8, <1>9 DEF Ask

\* The row a request counts on is a row.
LEMMA RowType ==
  ASSUME NEW r \in Requests, ask[r] \in Ask
  PROVE  Target(r) \in Rows /\ Counted(r) \in Rows
BY DEF Ask, Target, Counted

LEMMA GroupType ==
  ASSUME NEW a \in Ask
  PROVE  Group(a) \in Rows \X {"votes", "comments", "likes", "row"}
<1>1. CASE a.op = "vote"
  BY <1>1 DEF Group
<1>2. CASE a.op \in {"create_comment", "delete_comment"}
  BY <1>2 DEF Group
<1>3. CASE a.op \in {"like", "unlike"}
  <2>1. a.comment \in Rows
    BY <1>3 DEF Ask
  <2>2. Group(a) = <<a.comment, "likes">>
    BY <1>3 DEF Group
  <2>3. QED
    BY <2>1, <2>2
<1>4. CASE a.op = "delete_post"
  BY <1>4 DEF Group
<1>5. QED
  BY <1>1, <1>2, <1>3, <1>4 DEF Ask

\* Only a request that is being served has something to ask for.
Asked ==
  \A r \in Requests : at[r] \in {"find", "check", "apply"} =>
    /\ ask[r] \in Ask
    /\ at[r] = "apply" /\ ask[r].op = "create_comment" => ask[r].parent # Elsewhere

TypeInv == TypeOK /\ Asked

LEMMA CloseType ==
  ASSUME TypeInv, NEW r \in Requests, Close(r)
  PROVE  /\ at' \in [Requests -> {"idle", "find", "check", "apply", "done"}]
         /\ ask' \in [Requests -> Ask \cup {NoAsk}]
         /\ seen' \in [Requests -> Counters]
         /\ hit' \in [Requests -> SUBSET (Vote \cup Like)]
         /\ Asked'
<1>1. Zero \in Counters
  BY DEF Zero, Counters
<1>2. seen' \in [Requests -> Counters]
  BY <1>1 DEF Close, TypeInv, TypeOK
<1>3. hit' \in [Requests -> SUBSET (Vote \cup Like)]
  BY DEF Close, TypeInv, TypeOK
<1>4. /\ at' \in [Requests -> {"idle", "find", "check", "apply", "done"}]
      /\ ask' \in [Requests -> Ask \cup {NoAsk}]
  BY DEF Close, Goto, TypeInv, TypeOK
<1>5. Asked'
  BY DEF Close, Goto, TypeInv, TypeOK, Asked
<1>6. QED
  BY <1>2, <1>3, <1>4, <1>5

\* The rows after a commit.
LEMMA ApplyType ==
  ASSUME TypeInv, NEW r \in Requests, Apply(r)
  PROVE  /\ stored' \in SUBSET Rows
         /\ used' \in SUBSET Comments
         /\ parent' \in [Comments -> Comments \cup {NoParent}]
         /\ count' \in [Rows -> Counters]
         /\ votes' \in SUBSET Vote
         /\ likes' \in SUBSET Like
<1>1. ask[r] \in Ask
  BY DEF Apply, TypeInv, Asked
<1>2. count' \in [Rows -> Counters]
  <2>1. Counted(r) \in Rows /\ Computed(r) \in Counters
    BY <1>1, RowType, ComputedType DEF TypeInv
  <2>2. Flushed(Counted(r), seen[r], Computed(r)) \in Counters
    BY <2>1 DEF Flushed, Counters, TypeInv, TypeOK
  <2>3. QED
    BY <2>2 DEF Apply, WriteCounters, TypeInv, TypeOK
<1>3. CASE VotePost(r)
  <2>1. ask[r].type \in VoteType
    BY <1>1, <1>3 DEF VotePost, Ask
  <2>2. \A v \in votes : v \in Vote /\ [v EXCEPT !.type = ask[r].type] \in Vote
    BY <2>1 DEF Vote, TypeInv, TypeOK
  <2>3. votes' \in SUBSET Vote
    BY <1>3, <2>2 DEF VotePost, NewVotes
  <2>4. QED
    BY <1>2, <1>3, <2>3 DEF VotePost, TypeInv, TypeOK
<1>4. CASE CreateComment(r)
  <2>1. ask[r].parent \in Comments \cup {NoParent}
    BY <1>1, <1>4 DEF CreateComment, Apply, TypeInv, Asked, Ask
  <2>2. QED
    BY <1>2, <1>4, <2>1 DEF CreateComment, TypeInv, TypeOK
<1>5. CASE DeleteComment(r)
  BY <1>2, <1>5 DEF DeleteComment, Remove, TypeInv, TypeOK
<1>6. CASE LikeComment(r)
  BY <1>2, <1>6 DEF LikeComment, NewLikes, TypeInv, TypeOK
<1>7. CASE DeletePost(r)
  BY <1>2, <1>7 DEF DeletePost, Remove, TypeInv, TypeOK
<1>8. QED
  BY <1>3, <1>4, <1>5, <1>6, <1>7 DEF Apply

LEMMA NextTypeInv == TypeInv /\ [Next]_vars => TypeInv'
<1> SUFFICES ASSUME TypeInv, [Next]_vars PROVE TypeInv'
  OBVIOUS
<1>1. ASSUME NEW r \in Requests, Arrive(r) PROVE TypeInv'
  <2>1. PICK a \in Ask : /\ ask' = [ask EXCEPT ![r] = a]
                         /\ raced' = raced \cup
                              {g \in {Group(a)} : \E s \in Running : Group(ask[s]) = g}
    BY <1>1 DEF Arrive
  <2>2. raced' \in SUBSET (Rows \X {"votes", "comments", "likes", "row"})
    BY <2>1, GroupType DEF TypeInv, TypeOK
  <2>3. /\ ask' \in [Requests -> Ask \cup {NoAsk}]
        /\ at' \in [Requests -> {"idle", "find", "check", "apply", "done"}]
    BY <1>1, <2>1 DEF Arrive, Goto, TypeInv, TypeOK
  <2>4. Asked'
    BY <1>1, <2>1 DEF Arrive, Goto, TypeInv, TypeOK, Asked
  <2>5. QED
    BY <1>1, <2>2, <2>3, <2>4 DEF Arrive, TypeInv, TypeOK, board, jobvars
<1>2. ASSUME NEW r \in Requests, NotFound(r) \/ CheckEnds(r) \/ FlushFails(r) \/ Abort(r)
      PROVE  TypeInv'
  BY <1>2, CloseType
     DEF NotFound, CheckEnds, FlushFails, Abort, TypeInv, TypeOK, board, jobvars
<1>3. ASSUME NEW r \in Requests, Find(r) PROVE TypeInv'
  <2>1. ask[r] \in Ask
    BY <1>3 DEF Find, TypeInv, Asked
  <2>2. seen' \in [Requests -> Counters]
    BY <1>3, <2>1, RowType DEF Find, TypeInv, TypeOK
  <2>3. at' \in [Requests -> {"idle", "find", "check", "apply", "done"}]
    BY <1>3 DEF Find, Goto, TypeInv, TypeOK
  <2>4. Asked'
    BY <1>3, <2>1 DEF Find, Goto, TypeInv, TypeOK, Asked
  <2>5. QED
    BY <1>3, <2>2, <2>3, <2>4 DEF Find, TypeInv, TypeOK, board, jobvars
<1>4. ASSUME NEW r \in Requests, Check(r) PROVE TypeInv'
  <2>1. seen' \in [Requests -> Counters]
    BY <1>4 DEF Check, Rows, TypeInv, TypeOK
  <2>2. hit' \in [Requests -> SUBSET (Vote \cup Like)]
    BY <1>4 DEF Check, TypeInv, TypeOK
  <2>3. at' \in [Requests -> {"idle", "find", "check", "apply", "done"}]
    BY <1>4 DEF Check, Goto, TypeInv, TypeOK
  <2>4. Asked'
    <3>1. ask' = ask /\ \A t \in Requests : at'[t] = IF t = r THEN "apply" ELSE at[t]
      BY <1>4 DEF Check, Goto, TypeInv, TypeOK
    <3>2. ask[r] \in Ask /\ (ask[r].op = "create_comment" => ask[r].parent \in stored \cup {NoParent})
      BY <1>4 DEF Check, TypeInv, Asked
    <3>3. Elsewhere \notin stored \cup {NoParent}
      BY RowsAssumption DEF Rows, TypeInv, TypeOK
    <3> QED
      BY <3>1, <3>2, <3>3 DEF TypeInv, Asked
  <2>5. QED
    BY <1>4, <2>1, <2>2, <2>3, <2>4 DEF Check, TypeInv, TypeOK, board, jobvars
<1>5. ASSUME NEW r \in Requests, Apply(r) PROVE TypeInv'
  <2>1. Close(r) /\ UNCHANGED <<jobvars, raced>>
    BY <1>5 DEF Apply
  <2>2. QED
    BY <1>5, <2>1, CloseType, ApplyType DEF TypeInv, TypeOK, jobvars
<1>6. CASE JobLoad
  BY <1>6 DEF JobLoad, Counters, TypeInv, TypeOK, Asked, session, board
<1>7. CASE JobCount
  <2>1. Cardinality(Thread) \in Nat
    <3>1. IsFiniteSet(Thread)
      BY FiniteAssumption, FS_Subset DEF Thread
    <3>2. QED
      BY <3>1, FS_CardinalityType
  <2>2. QED
    BY <1>7, <2>1 DEF JobCount, TypeInv, TypeOK, Asked, session, board
<1>8. CASE JobSave
  <2>1. Recounted \in Nat
    BY DEF Recounted, Counters, TypeInv, TypeOK
  <2>2. [count[Post] EXCEPT !["comments"] = Recounted] \in Counters
    BY <2>1 DEF Counters, TypeInv, TypeOK
  <2>3. count' \in [Rows -> Counters]
    BY <1>8, <2>2 DEF JobSave, TypeInv, TypeOK
  <2>4. QED
    BY <1>8, <2>3 DEF JobSave, TypeInv, TypeOK, Asked, session
<1>9. CASE UNCHANGED vars
  BY <1>9 DEF vars, TypeInv, TypeOK, Asked, session, board, jobvars
<1>10. QED
  BY <1>1, <1>2, <1>3, <1>4, <1>5, <1>6, <1>7, <1>8, <1>9 DEF Next, Serve, Recount

LEMMA InitTypeInv == Init => TypeInv
<1>1. Zero \in Counters
  BY DEF Zero, Counters
<1>2. QED
  BY <1>1 DEF Init, TypeInv, TypeOK, Asked

\* However stale the counters a request or the job computed from, none that it
\* writes is negative, and every variable keeps its type.
THEOREM TypeCorrect == Spec => []TypeOK
<1>1. TypeInv => TypeOK
  BY DEF TypeInv
<1>2. QED
  BY <1>1, InitTypeInv, NextTypeInv, PTL DEF Spec

-----------------------------------------------------------------------------
(* No orphans *)

\* A flush that adds a row has counted it on the row it belongs to, so the UPDATE
\* found that row.
LEMMA AddedToStored ==
  ASSUME TypeInv, NEW r \in Requests, at[r] = "apply", FlushSucceeds(r)
  PROVE  /\ ask[r].op = "create_comment" => Post \in stored
         /\ NewVotes(r) # {} => Post \in stored
         /\ \A l \in NewLikes(r) : l.comment \in stored
<1> DEFINE s == seen[r]
<1>1. s \in Counters /\ ask[r] \in Ask
  BY DEF TypeInv, TypeOK, Asked
<1>2. \A f \in Columns : [s EXCEPT ![f] = @ + 1] # s
  BY <1>1 DEF Counters
<1>3. ASSUME ask[r].op = "create_comment" PROVE Post \in stored
  BY <1>2, <1>3 DEF Computed, Counted, FlushSucceeds
<1>4. ASSUME NewVotes(r) # {} PROVE Post \in stored
  <2>1. ask[r].op = "vote" /\ hit[r] = {}
    BY <1>4 DEF NewVotes
  <2>2. ask[r].type \in Columns
    BY <1>1, <2>1 DEF Ask
  <2>3. Computed(r) = Voted(s, {}, ask[r].type)
    BY <2>1 DEF Computed
  <2>4. [f \in Columns |-> s[f]] = s
    BY <1>1 DEF Counters
  <2>5. Voted(s, {}, ask[r].type) = [s EXCEPT ![ask[r].type] = @ + 1]
    BY <2>4 DEF Voted
  <2>6. Computed(r) # s
    BY <1>2, <2>2, <2>3, <2>5
  <2>7. QED
    BY <2>1, <2>6 DEF Counted, FlushSucceeds
<1>5. ASSUME NEW l \in NewLikes(r) PROVE l.comment \in stored
  <2>1. ask[r].op = "like" /\ hit[r] = {} /\ l.comment = ask[r].comment
    BY <1>5 DEF NewLikes
  <2>2. QED
    BY <1>2, <2>1 DEF Computed, Counted, FlushSucceeds
<1>6. QED
  BY <1>3, <1>4, <1>5

\* What a cascade takes along leaves no reply behind, and not the post.
LEMMA CascadeClosed ==
  ASSUME NEW c
  PROVE  /\ Cascade(c) \subseteq Thread
         /\ \A d \in Thread : parent[d] \in Cascade(c) => d \in Cascade(c)
BY DEF Cascade

LEMMA NextNoOrphans == TypeInv /\ NoOrphans /\ [Next]_vars => NoOrphans'
<1> SUFFICES ASSUME TypeInv, NoOrphans, [Next]_vars PROVE NoOrphans'
  OBVIOUS
<1> USE DEF Thread
<1>1. ASSUME NEW r \in Requests, Apply(r) PROVE NoOrphans'
  <2>0. /\ ask[r] \in Ask
        /\ ask[r].op = "create_comment" => Post \in stored
        /\ NewVotes(r) # {} => Post \in stored
        /\ \A l \in NewLikes(r) : l.comment \in stored
    BY <1>1, AddedToStored DEF Apply, TypeInv, Asked
  <2>1. CASE VotePost(r)
    <3>1. votes' # {} => votes # {} \/ NewVotes(r) # {}
      BY <2>1 DEF VotePost
    <3>2. QED
      BY <2>0, <2>1, <3>1 DEF VotePost, NoOrphans
  <2>2. CASE CreateComment(r)
    <3>0. ask[r].parent # Elsewhere
      BY <1>1, <2>2 DEF Apply, CreateComment, TypeInv, Asked
    <3>1. ask[r].parent \in Thread \cup {NoParent}
      BY <1>1, <2>0, <2>2, <3>0, RowsAssumption DEF Apply, FlushSucceeds, CreateComment, Ask
    <3>2. QED
      BY <2>0, <2>2, <3>1, RowsAssumption DEF CreateComment, NoOrphans, TypeInv, TypeOK
  <2>3. CASE DeleteComment(r)
    <3> DEFINE gone == Cascade(ask[r].comment)
    <3>1. gone \subseteq Thread /\ \A d \in Thread : parent[d] \in gone => d \in gone
      BY CascadeClosed
    <3>2. Post \notin gone
      BY <3>1, RowsAssumption
    <3> HIDE DEF gone
    <3>3. stored' = stored \ gone /\ likes' = {l \in likes : l.comment \notin gone}
          /\ votes' = votes /\ parent' = parent
      BY <2>3, <3>2 DEF DeleteComment, Remove, gone
    <3>4. QED
      BY <3>1, <3>2, <3>3 DEF NoOrphans
  <2>4. CASE LikeComment(r)
    BY <2>0, <2>4 DEF LikeComment, NoOrphans
  <2>5. CASE DeletePost(r)
    BY <2>5 DEF DeletePost, Remove, NoOrphans
  <2>6. QED
    BY <1>1, <2>1, <2>2, <2>3, <2>4, <2>5 DEF Apply
<1>2. ASSUME UNCHANGED <<stored, parent, votes, likes>> PROVE NoOrphans'
  BY <1>2 DEF NoOrphans
<1>3. CASE \E r \in Requests : Arrive(r) \/ NotFound(r) \/ Find(r) \/ CheckEnds(r)
             \/ Check(r) \/ FlushFails(r) \/ Abort(r)
  BY <1>2, <1>3 DEF Arrive, NotFound, Find, CheckEnds, Check, FlushFails, Abort, board
<1>4. CASE Recount
  BY <1>2, <1>4 DEF Recount, JobLoad, JobCount, JobSave, board
<1>5. CASE UNCHANGED vars
  BY <1>2, <1>5 DEF vars, board
<1>6. QED
  BY <1>1, <1>3, <1>4, <1>5 DEF Next, Serve

\* A comment is never left without its parent or its post, nor a vote or a like
\* without what it is for, although they are added while it is being deleted.
THEOREM NothingOrphaned == Spec => []NoOrphans
<1>1. Init => NoOrphans
  BY RowsAssumption DEF Init, NoOrphans, Thread
<1>2. QED
  BY <1>1, InitTypeInv, NextTypeInv, NextNoOrphans, PTL DEF Spec

-----------------------------------------------------------------------------
(* The votes are counted *)

\* What a vote relies on is stable as long as no second one overlaps with it.
VoteQuiet == Post \in stored /\ <<Post, "votes">> \notin raced

Voting(r) == at[r] \in {"find", "check", "apply"} /\ ask[r].op = "vote"

\* A row of post_votes carries the id of a request that is over.
VoteIds ==
  /\ \A v \in votes : at[v.id] = "done"
  /\ \A v, w \in votes : v.id = w.id => v = w

VoteAlone == VoteQuiet => \A r, s \in Requests : Voting(r) /\ Voting(s) => r = s

\* The counters and the vote that the request loaded are still those of the rows.
VoteRead ==
  VoteQuiet => \A r \in Requests : Voting(r) =>
    /\ at[r] # "find" => \A f \in VoteType : seen[r][f] = count[Post][f]
    /\ at[r] = "apply" => hit[r] = {v \in votes : v.user = ask[r].user}

VoteCount ==
  VoteQuiet => \A f \in VoteType :
    IsFiniteSet(VotesOf(f)) /\ count[Post][f] = Cardinality(VotesOf(f))

VoteInv == VoteIds /\ VoteAlone /\ VoteRead /\ VoteCount

\* A step that leaves the votes, their counters and the requests that vote alone.
LEMMA VoteFrame ==
  ASSUME VoteInv, votes' \subseteq votes, Post \in stored' => Post \in stored,
         raced \subseteq raced',
         VoteQuiet' => votes' = votes /\ \A f \in VoteType : count'[Post][f] = count[Post][f],
         \A v \in votes : at'[v.id] = at[v.id],
         \A s \in Requests : \/ ~Voting(s)'
                             \/ /\ at'[s] = at[s] /\ ask'[s] = ask[s]
                                /\ seen'[s] = seen[s] /\ hit'[s] = hit[s]
  PROVE  VoteInv'
<1>1. VoteQuiet' => VoteQuiet
  BY DEF VoteQuiet
<1>2. VoteIds'
  BY DEF VoteInv, VoteIds
<1>3. VoteAlone'
  BY <1>1 DEF VoteInv, VoteAlone, Voting
<1>4. VoteRead'
  BY <1>1 DEF VoteInv, VoteRead, Voting
<1>5. VoteCount'
  <2> SUFFICES ASSUME VoteQuiet' PROVE \A f \in VoteType :
                      (IsFiniteSet(VotesOf(f)) /\ count[Post][f] = Cardinality(VotesOf(f)))'
    BY DEF VoteCount
  <2>1. \A f \in VoteType : VotesOf(f)' = VotesOf(f)
    BY DEF VotesOf
  <2>2. QED
    BY <1>1, <2>1 DEF VoteInv, VoteCount
<1>6. QED
  BY <1>2, <1>3, <1>4, <1>5 DEF VoteInv

\* What the commit of a vote makes of the rows.
LEMMA VoteWritten ==
  ASSUME TypeInv, OneVoteEach, VoteInv, NEW r \in Requests, Apply(r), VotePost(r),
         VoteQuiet
  PROVE  VoteCount'
<1> DEFINE u == ask[r].user
           t == ask[r].type
           s == seen[r]
           changed == {h.id : h \in {h \in hit[r] : h.type # t}}
           N(v) == IF v.id \in changed THEN [v EXCEPT !.type = t] ELSE v
           new == [id |-> r, user |-> u, type |-> t]
<1>1. ask[r].op = "vote" /\ at[r] = "apply" /\ Voting(r)
  BY DEF Apply, VotePost, Voting
<1>2. u \in Users /\ t \in VoteType /\ s \in Counters
  BY <1>1 DEF TypeInv, TypeOK, Asked, Ask
<1>3. hit[r] = {v \in votes : v.user = u} /\ \A f \in VoteType : s[f] = count[Post][f]
  BY <1>1 DEF VoteInv, VoteRead
<1>4. votes' = {N(v) : v \in votes} \cup NewVotes(r)
  BY DEF VotePost
<1>5. \A v \in votes : v.id # r /\ v \in Vote
  BY <1>1 DEF VoteInv, VoteIds, TypeInv, TypeOK
<1>6. \A f \in VoteType : count'[Post][f] = Computed(r)[f]
  <2>1. count' = [count EXCEPT ![Post] = Flushed(Post, s, Computed(r))]
    BY <1>1 DEF Apply, WriteCounters, Counted
  <2>2. count'[Post] = Flushed(Post, s, Computed(r))
    BY <2>1 DEF TypeInv, TypeOK
  <2>3. QED
    BY <1>3, <2>2 DEF Flushed
<1>7. \A f \in VoteType : /\ IsFiniteSet(VotesOf(f)) /\ s[f] = Cardinality(VotesOf(f))
                          /\ Cardinality(VotesOf(f)) \in Nat
  BY <1>3, FS_CardinalityType DEF VoteInv, VoteCount
<1>8. SUFFICES ASSUME NEW f \in VoteType
               PROVE  IsFiniteSet(VotesOf(f)') /\ Computed(r)[f] = Cardinality(VotesOf(f)')
  BY <1>6 DEF VoteCount
<1>9. VotesOf(f)' = {v \in votes' : v.type = f}
  BY DEF VotesOf
<1>10. CASE hit[r] = {}
  <2>1. NewVotes(r) = {new}
    BY <1>1, <1>2, <1>10 DEF NewVotes, Vote
  <2>2. \A v \in votes : N(v) = v
    BY <1>10
  <2> HIDE DEF N
  <2>3. votes' = votes \cup {new}
    BY <1>4, <2>1, <2>2
  <2>4. VotesOf(f)' = IF f = t THEN VotesOf(f) \cup {new} ELSE VotesOf(f)
    BY <1>9, <2>3 DEF VotesOf
  <2>5. new \notin VotesOf(f)
    BY <1>5 DEF VotesOf
  <2>6. Computed(r)[f] = IF f = t THEN s[f] + 1 ELSE s[f]
    BY <1>1, <1>2, <1>10 DEF Computed, Voted, Counters
  <2> HIDE DEF new
  <2>7. IsFiniteSet(VotesOf(f) \cup {new})
        /\ Cardinality(VotesOf(f) \cup {new}) = Cardinality(VotesOf(f)) + 1
    BY <1>7, <2>5, FS_AddElement
  <2>8. CASE f = t
    BY <1>7, <2>4, <2>6, <2>7, <2>8
  <2>9. CASE f # t
    BY <1>7, <2>4, <2>6, <2>9
  <2>10. QED
    BY <2>8, <2>9
<1>11. ASSUME NEW h \in hit[r]
       PROVE  IsFiniteSet(VotesOf(f)') /\ Computed(r)[f] = Cardinality(VotesOf(f)')
  <2>1. h \in votes /\ h.user = u /\ hit[r] = {h}
    BY <1>3, <1>11 DEF OneVoteEach
  <2>2. NewVotes(r) = {}
    BY <2>1 DEF NewVotes
  <2>3. CASE h.type = t
    <3>1. changed = {}
      BY <2>1, <2>3
    <3>2. votes' = votes
      BY <1>4, <2>2, <3>1
    <3>3. VotesOf(f)' = VotesOf(f)
      BY <3>2 DEF VotesOf
    <3>4. Computed(r) = s
      BY <1>1, <2>1, <2>3 DEF Computed
    <3>5. QED
      BY <1>7, <3>3, <3>4
  <2>4. CASE h.type # t
    <3> DEFINE h2 == [h EXCEPT !.type = t]
               s1 == [g \in Columns |->
                        IF \E v \in hit[r] : v.type = g THEN AtLeastZero(s[g] - 1) ELSE s[g]]
    <3>1. changed = {h.id}
      BY <2>1, <2>4
    <3>2. \A v \in votes : N(v) = IF v = h THEN h2 ELSE v
      BY <2>1, <3>1 DEF VoteInv, VoteIds
    <3>3. h \in Vote /\ h2 \in Vote /\ h2.type = t /\ h2.id = h.id
      BY <1>2, <1>5, <2>1 DEF Vote
    <3>4. h2 \notin votes
      BY <2>1, <2>4, <3>3 DEF VoteInv, VoteIds
    <3> HIDE DEF N, h2
    <3>5. votes' = (votes \ {h}) \cup {h2}
      BY <1>4, <2>1, <2>2, <3>2
    <3>6. Computed(r) = [s1 EXCEPT ![t] = @ + 1]
      BY <1>1, <2>1, <2>4 DEF Computed, Voted
    <3>7. CASE f = t
      <4>1. VotesOf(f)' = VotesOf(f) \cup {h2} /\ h2 \notin VotesOf(f)
        BY <1>9, <2>4, <3>3, <3>4, <3>5, <3>7 DEF VotesOf
      <4>2. Computed(r)[f] = s[f] + 1
        BY <1>2, <2>1, <2>4, <3>6, <3>7 DEF Counters
      <4>3. /\ IsFiniteSet(VotesOf(f) \cup {h2})
            /\ Cardinality(VotesOf(f) \cup {h2}) = Cardinality(VotesOf(f)) + 1
        BY <1>7, <4>1, FS_AddElement
      <4>4. QED
        BY <1>7, <4>1, <4>2, <4>3
    <3>8. CASE f # t
      <4>1. h.type = f
        BY <1>2, <2>4, <3>3, <3>8 DEF Vote
      <4>2. VotesOf(f)' = VotesOf(f) \ {h} /\ h \in VotesOf(f)
        BY <1>9, <2>1, <3>3, <3>5, <3>8, <4>1 DEF VotesOf
      <4>3. Computed(r)[f] = AtLeastZero(s[f] - 1)
        BY <1>2, <2>1, <3>6, <3>8, <4>1 DEF Counters
      <4>4. /\ IsFiniteSet(VotesOf(f) \ {h})
            /\ Cardinality(VotesOf(f) \ {h}) = Cardinality(VotesOf(f)) - 1
            /\ Cardinality(VotesOf(f) \ {h}) \in Nat
        BY <1>7, <4>2, FS_RemoveElement, FS_CardinalityType
      <4>5. QED
        BY <1>7, <4>2, <4>3, <4>4 DEF AtLeastZero
    <3>9. QED
      BY <3>7, <3>8
  <2>5. QED
    BY <2>3, <2>4
<1>12. QED
  BY <1>10, <1>11

LEMMA VoteApplied ==
  ASSUME TypeInv, OneVoteEach, VoteInv, NEW r \in Requests, Apply(r), VotePost(r)
  PROVE  VoteInv'
<1> DEFINE changed == {h.id : h \in {h \in hit[r] : h.type # ask[r].type}}
           N(v) == IF v.id \in changed THEN [v EXCEPT !.type = ask[r].type] ELSE v
<1>1. /\ ask[r].op = "vote" /\ at[r] = "apply"
      /\ at' = [at EXCEPT ![r] = "done"] /\ ask' = [ask EXCEPT ![r] = NoAsk]
      /\ stored' = stored /\ raced' = raced
  BY DEF Apply, VotePost, Close, Goto
<1>2. votes' = {N(v) : v \in votes} \cup NewVotes(r)
  BY DEF VotePost
<1>3. \A v \in votes : v \in Vote /\ N(v).id = v.id
  BY DEF TypeInv, TypeOK, Vote
<1>4. \A v \in NewVotes(r) : v.id = r /\ \A w \in NewVotes(r) : v = w
  BY DEF NewVotes
<1> HIDE DEF N
<1>5. \A v \in votes : v.id # r /\ v.id \in Requests
  BY <1>1, <1>3 DEF VoteInv, VoteIds, Vote
<1>6. at'[r] = "done" /\ \A v \in votes : at'[v.id] = "done"
  BY <1>1, <1>5 DEF VoteInv, VoteIds, TypeInv, TypeOK
<1>7. VoteIds'
  <2>1. \A v \in votes' : at'[v.id] = "done"
    BY <1>2, <1>3, <1>4, <1>6
  <2>2. \A v, w \in votes' : v.id = w.id => v = w
    BY <1>2, <1>3, <1>4, <1>5 DEF VoteInv, VoteIds
  <2>3. QED
    BY <2>1, <2>2 DEF VoteIds
<1>8. VoteQuiet' => VoteQuiet
  BY <1>1 DEF VoteQuiet
<1>9. VoteQuiet' => \A s \in Requests : ~Voting(s)'
  BY <1>1, <1>8 DEF VoteInv, VoteAlone, Voting, TypeInv, TypeOK
<1>10. VoteAlone' /\ VoteRead'
  BY <1>9 DEF VoteAlone, VoteRead
<1>11. VoteCount'
  BY <1>8, VoteWritten DEF VoteCount
<1>12. QED
  BY <1>7, <1>10, <1>11 DEF VoteInv

\* A commit that is not a vote's leaves the post's votes as they are, or takes
\* them along with the post.
LEMMA NoVoteApplied ==
  ASSUME TypeInv, VoteInv, NEW r \in Requests, Apply(r), ~VotePost(r)
  PROVE  VoteInv'
<1>1. /\ at[r] = "apply" /\ at' = [at EXCEPT ![r] = "done"] /\ ask' = [ask EXCEPT ![r] = NoAsk]
      /\ seen' = [seen EXCEPT ![r] = Zero] /\ hit' = [hit EXCEPT ![r] = {}] /\ raced' = raced
  BY DEF Apply, Close, Goto
<1>2. /\ ask[r] \in Ask /\ Counted(r) \in Rows /\ seen[r] \in Counters
      /\ Computed(r) \in Counters
  BY <1>1, RowType, ComputedType DEF TypeInv, TypeOK, Asked
<1>3. CreateComment(r) \/ DeleteComment(r) \/ LikeComment(r) \/ DeletePost(r)
  BY DEF Apply
<1>4. /\ Post \in stored' => Post \in stored /\ votes' = votes
      /\ votes' \subseteq votes
  <2>1. CASE CreateComment(r)
    BY <2>1, RowsAssumption DEF CreateComment
  <2>2. CASE DeleteComment(r)
    BY <2>2 DEF DeleteComment, Remove
  <2>3. CASE LikeComment(r)
    BY <2>3 DEF LikeComment
  <2>4. CASE DeletePost(r)
    BY <2>4 DEF DeletePost, Remove
  <2>5. QED
    BY <1>3, <2>1, <2>2, <2>3, <2>4
<1>5. \A f \in VoteType : count'[Post][f] = count[Post][f]
  <2>1. count' = [count EXCEPT ![Counted(r)] = Flushed(Counted(r), seen[r], Computed(r))]
    BY DEF Apply, WriteCounters
  <2>2. CASE LikeComment(r)
    <3>1. Counted(r) # Post
      BY <1>2, <2>2, RowsAssumption DEF LikeComment, Counted, Ask
    <3>2. QED
      BY <2>1, <3>1 DEF TypeInv, TypeOK
  <2>3. CASE CreateComment(r) \/ DeleteComment(r) \/ DeletePost(r)
    <3>1. Counted(r) = Post
      BY <2>3 DEF CreateComment, DeleteComment, DeletePost, Counted
    <3>2. \A f \in VoteType : Computed(r)[f] = seen[r][f]
      BY <1>2, <2>3 DEF CreateComment, DeleteComment, DeletePost, Computed, Counters
    <3>3. count'[Post] = Flushed(Post, seen[r], Computed(r))
      BY <2>1, <3>1 DEF TypeInv, TypeOK
    <3>4. QED
      BY <3>2, <3>3 DEF Flushed
  <2>4. QED
    BY <1>3, <2>2, <2>3
<1>6. \A v \in votes : at'[v.id] = at[v.id]
  BY <1>1 DEF VoteInv, VoteIds, TypeInv, TypeOK
<1>7. \A s \in Requests : \/ ~Voting(s)'
                          \/ /\ at'[s] = at[s] /\ ask'[s] = ask[s]
                             /\ seen'[s] = seen[s] /\ hit'[s] = hit[s]
  BY <1>1 DEF Voting, TypeInv, TypeOK
<1>8. QED
  BY <1>1, <1>4, <1>5, <1>6, <1>7, VoteFrame DEF VoteQuiet

\* The steps of a request before its commit.
LEMMA VoteServed ==
  ASSUME TypeInv, VoteInv, NEW r \in Requests, at[r] # "done",
         Arrive(r) \/ Find(r) \/ Check(r)
  PROVE  VoteInv'
<1>1. UNCHANGED <<stored, votes, count>>
  BY DEF Arrive, Find, Check, board
<1>2. raced \subseteq raced'
  BY DEF Arrive, Find, Check
<1>3. \A s \in Requests \ {r} : /\ at'[s] = at[s] /\ ask'[s] = ask[s]
                                /\ seen'[s] = seen[s] /\ hit'[s] = hit[s]
  BY DEF Arrive, Find, Check, Goto, TypeInv, TypeOK
<1>4. \A v \in votes : at'[v.id] = at[v.id]
  <2>1. \A v \in votes : v.id \in Requests /\ v.id # r
    BY DEF VoteInv, VoteIds, TypeInv, TypeOK, Vote
  <2>2. QED
    BY <1>3, <2>1
<1>5. CASE ~Voting(r)'
  BY <1>1, <1>2, <1>3, <1>4, <1>5, VoteFrame
<1>6. CASE Voting(r)'
  <2>1. VoteQuiet' => VoteQuiet
    BY <1>1, <1>2 DEF VoteQuiet
  <2>2. VoteIds'
    BY <1>1, <1>4 DEF VoteInv, VoteIds
  <2>3. VoteCount'
    BY <1>1, <2>1 DEF VoteInv, VoteCount, VotesOf
  <2>4. CASE Arrive(r)
    <3>1. PICK a \in Ask : /\ ask' = [ask EXCEPT ![r] = a]
                           /\ raced' = raced \cup
                                {g \in {Group(a)} : \E s \in Running : Group(ask[s]) = g}
      BY <2>4 DEF Arrive
    <3>2. ask'[r] = a /\ at'[r] = "find" /\ at[r] = "idle"
      BY <2>4, <3>1 DEF Arrive, Goto, TypeInv, TypeOK
    <3>3. Group(a) = <<Post, "votes">>
      BY <1>6, <3>2 DEF Voting, Group
    <3>4. VoteQuiet' => \A s \in Requests \ {r} : ~Voting(s)
      BY <3>1, <3>3 DEF VoteQuiet, Voting, Running, Group
    <3>5. VoteAlone' /\ VoteRead'
      BY <1>3, <3>2, <3>4 DEF VoteAlone, VoteRead, Voting
    <3>6. QED
      BY <2>2, <2>3, <3>5 DEF VoteInv
  <2>5. CASE Find(r)
    <3>1. ask' = ask /\ at[r] = "find" /\ at'[r] = "check" /\ ask[r].op = "vote"
          /\ seen'[r] = count[Post]
      BY <1>6, <2>5 DEF Find, Goto, Voting, Target, TypeInv, TypeOK
    <3>2. Voting(r)
      BY <3>1 DEF Voting
    <3>3. VoteAlone' /\ VoteRead'
      BY <1>1, <1>3, <2>1, <3>1, <3>2 DEF VoteInv, VoteAlone, VoteRead, Voting
    <3>4. QED
      BY <2>2, <2>3, <3>3 DEF VoteInv
  <2>6. CASE Check(r)
    <3>1. /\ ask' = ask /\ at[r] = "check" /\ at'[r] = "apply" /\ ask[r].op = "vote"
          /\ seen' = seen /\ hit'[r] = {v \in votes : v.user = ask[r].user}
      BY <1>6, <2>6 DEF Check, Goto, Voting, TypeInv, TypeOK
    <3>2. Voting(r)
      BY <3>1 DEF Voting
    <3>3. VoteAlone' /\ VoteRead'
      BY <1>1, <1>3, <2>1, <3>1, <3>2 DEF VoteInv, VoteAlone, VoteRead, Voting
    <3>4. QED
      BY <2>2, <2>3, <3>3 DEF VoteInv
  <2>7. QED
    BY <2>4, <2>5, <2>6
<1>7. QED
  BY <1>5, <1>6

LEMMA NextVotes == TypeInv /\ OneVoteEach /\ VoteInv /\ [Next]_vars => VoteInv'
<1> SUFFICES ASSUME TypeInv, OneVoteEach, VoteInv, [Next]_vars PROVE VoteInv'
  OBVIOUS
<1>1. ASSUME NEW r \in Requests, Arrive(r) \/ Find(r) \/ Check(r) PROVE VoteInv'
  BY <1>1, VoteServed DEF Arrive, Find, Check
<1>2. ASSUME NEW r \in Requests, NotFound(r) \/ CheckEnds(r) \/ FlushFails(r) \/ Abort(r)
      PROVE  VoteInv'
  <2>1. UNCHANGED <<board, raced>> /\ Close(r) /\ at[r] # "done"
    BY <1>2 DEF NotFound, CheckEnds, FlushFails, Abort, Running
  <2>2. \A v \in votes : at'[v.id] = at[v.id]
    BY <2>1 DEF Close, Goto, VoteInv, VoteIds, TypeInv, TypeOK
  <2>3. \A s \in Requests : \/ ~Voting(s)'
                            \/ /\ at'[s] = at[s] /\ ask'[s] = ask[s]
                               /\ seen'[s] = seen[s] /\ hit'[s] = hit[s]
    BY <2>1 DEF Close, Goto, Voting, TypeInv, TypeOK
  <2>4. QED
    BY <2>1, <2>2, <2>3, VoteFrame DEF board
<1>3. ASSUME NEW r \in Requests, Apply(r) PROVE VoteInv'
  BY <1>3, VoteApplied, NoVoteApplied
<1>4. CASE Recount
  <2>1. UNCHANGED <<session, stored, votes, raced>>
    BY <1>4 DEF Recount, JobLoad, JobCount, JobSave, board
  <2>2. \A f \in VoteType : count'[Post][f] = count[Post][f]
    BY <1>4 DEF Recount, JobLoad, JobCount, JobSave, board, TypeInv, TypeOK, Counters
  <2>3. QED
    BY <2>1, <2>2, VoteFrame DEF session
<1>5. CASE UNCHANGED vars
  BY <1>5, VoteFrame DEF vars, session, board
<1>6. QED
  BY <1>1, <1>2, <1>3, <1>4, <1>5 DEF Next, Serve

-----------------------------------------------------------------------------
(* The likes of a comment are counted *)

LikeQuiet(c) == c \in Thread /\ <<c, "likes">> \notin raced

Liking(r, c) ==
  at[r] \in {"find", "check", "apply"} /\ ask[r].op \in {"like", "unlike"} /\ ask[r].comment = c

\* No request has come near a comment that was never written.
Unwritten ==
  /\ Thread \subseteq used
  /\ \A c \in Comments \ used : count[c]["like"] = 0 /\ \A r \in Requests : ~Liking(r, c)

LikeAlone(c) == LikeQuiet(c) => \A r, s \in Requests : Liking(r, c) /\ Liking(s, c) => r = s

\* The counter and the like that the request loaded are still those of the rows.
LikeRead(c) ==
  LikeQuiet(c) => \A r \in Requests : Liking(r, c) =>
    /\ at[r] # "find" => seen[r]["like"] = count[c]["like"]
    /\ at[r] = "apply" => hit[r] = {l \in likes : l.comment = c /\ l.user = ask[r].user}

LikeCount(c) ==
  LikeQuiet(c) => IsFiniteSet(LikesOf(c)) /\ count[c]["like"] = Cardinality(LikesOf(c))

\* What a like request found is of its comment, stale or not.
HitOwn ==
  \A r \in Requests : at[r] = "apply" /\ ask[r].op \in {"like", "unlike"} =>
    \A l \in hit[r] : l.comment = ask[r].comment

LikeInv ==
  /\ Unwritten
  /\ HitOwn
  /\ \A c \in Comments : LikeAlone(c) /\ LikeRead(c) /\ LikeCount(c)

\* A step that leaves one comment's likes, their counter and the requests that
\* like it alone.
LEMMA LikeFrame ==
  ASSUME LikeInv, NEW c \in Comments, LikeQuiet(c)' => LikeQuiet(c),
         LikeQuiet(c)' => LikesOf(c)' = LikesOf(c) /\ count'[c]["like"] = count[c]["like"],
         \A s \in Requests : \/ ~Liking(s, c)'
                             \/ /\ at'[s] = at[s] /\ ask'[s] = ask[s]
                                /\ seen'[s] = seen[s] /\ hit'[s] = hit[s]
  PROVE  LikeAlone(c)' /\ LikeRead(c)' /\ LikeCount(c)'
<1>1. LikeAlone(c)'
  BY DEF LikeInv, LikeAlone, Liking
<1>2. LikeRead(c)'
  <2> SUFFICES ASSUME LikeQuiet(c)', NEW r \in Requests, Liking(r, c)'
               PROVE  /\ at'[r] # "find" => seen'[r]["like"] = count'[c]["like"]
                      /\ at'[r] = "apply" =>
                           hit'[r] = {l \in likes' : l.comment = c /\ l.user = ask'[r].user}
    BY DEF LikeRead
  <2>1. {l \in likes' : l.comment = c /\ l.user = ask'[r].user}
          = {l \in likes : l.comment = c /\ l.user = ask'[r].user}
    BY DEF LikesOf
  <2>2. Liking(r, c)
    BY DEF Liking
  <2>3. QED
    BY <2>1, <2>2 DEF LikeInv, LikeRead
<1>3. LikeCount(c)'
  BY DEF LikeInv, LikeCount
<1>4. QED
  BY <1>1, <1>2, <1>3

\* The commit of a like, or of taking one back.
LEMMA LikeApplied ==
  ASSUME TypeInv, OneVoteEach, LikeInv, NEW r \in Requests, Apply(r), LikeComment(r),
         NEW c \in Comments, c = ask[r].comment, LikeQuiet(c)
  PROVE  LikeCount(c)'
<1> DEFINE u == ask[r].user
           s == seen[r]
           new == [id |-> r, user |-> u, comment |-> c]
<1>1. ask[r].op \in {"like", "unlike"} /\ at[r] = "apply" /\ Liking(r, c)
  BY DEF Apply, LikeComment, Liking
<1>2. u \in Users /\ s \in Counters
  BY <1>1 DEF TypeInv, TypeOK, Asked, Ask
<1>3. /\ hit[r] = {l \in likes : l.comment = c /\ l.user = u} /\ s["like"] = count[c]["like"]
      /\ IsFiniteSet(LikesOf(c)) /\ s["like"] = Cardinality(LikesOf(c))
      /\ Cardinality(LikesOf(c)) \in Nat
  BY <1>1, <1>2, FS_CardinalityType DEF LikeInv, LikeRead, LikeCount
<1>4. count'[c]["like"] = Computed(r)["like"]
  <2>1. count' = [count EXCEPT ![c] = Flushed(c, s, Computed(r))]
    BY <1>1 DEF Apply, WriteCounters, Counted
  <2>2. count'[c] = Flushed(c, s, Computed(r))
    BY <1>2, <2>1 DEF TypeInv, TypeOK
  <2>3. QED
    BY <1>3, <2>2 DEF Flushed
<1>5. SUFFICES IsFiniteSet(LikesOf(c)') /\ Computed(r)["like"] = Cardinality(LikesOf(c)')
  BY <1>4 DEF LikeCount, LikesOf
<1>6. CASE ask[r].op = "like" /\ hit[r] = {}
  <2>1. NewLikes(r) = {new}
    BY <1>2, <1>6 DEF NewLikes, Like
  <2>2. new \notin likes
    BY <1>3, <1>6
  <2>3. LikesOf(c)' = LikesOf(c) \cup {new} /\ new \notin LikesOf(c)
    BY <1>6, <2>1, <2>2 DEF LikeComment, LikesOf
  <2>4. Computed(r)["like"] = s["like"] + 1
    BY <1>2, <1>6 DEF Computed, Counters
  <2> HIDE DEF new
  <2>5. IsFiniteSet(LikesOf(c) \cup {new})
        /\ Cardinality(LikesOf(c) \cup {new}) = Cardinality(LikesOf(c)) + 1
    BY <1>3, <2>3, FS_AddElement
  <2>6. QED
    BY <1>3, <2>3, <2>4, <2>5
<1>7. CASE ask[r].op = "unlike" /\ hit[r] # {}
  <2>1. PICK h \in hit[r] : TRUE
    BY <1>7
  <2>2. h \in likes /\ h.comment = c /\ hit[r] = {h}
    BY <1>3, <2>1 DEF OneVoteEach
  <2>3. LikesOf(c)' = LikesOf(c) \ {h} /\ h \in LikesOf(c)
    BY <1>7, <2>2 DEF LikeComment, LikesOf
  <2>4. Computed(r)["like"] = AtLeastZero(s["like"] - 1)
    BY <1>2, <1>7 DEF Computed, Counters
  <2>5. /\ IsFiniteSet(LikesOf(c) \ {h})
        /\ Cardinality(LikesOf(c) \ {h}) = Cardinality(LikesOf(c)) - 1
        /\ Cardinality(LikesOf(c) \ {h}) \in Nat
    BY <1>3, <2>3, FS_RemoveElement, FS_CardinalityType
  <2>6. QED
    BY <1>3, <2>3, <2>4, <2>5 DEF AtLeastZero
<1>8. CASE \/ ask[r].op = "like" /\ hit[r] # {}
           \/ ask[r].op = "unlike" /\ hit[r] = {}
  <2>1. likes' = likes
    BY <1>8 DEF LikeComment, NewLikes
  <2>2. LikesOf(c)' = LikesOf(c) /\ Computed(r) = s
    BY <1>8, <2>1 DEF LikesOf, Computed
  <2>3. QED
    BY <1>3, <2>2
<1>9. QED
  BY <1>1, <1>6, <1>7, <1>8

\* A commit, seen from one comment.
LEMMA LikesAfterCommit ==
  ASSUME TypeInv, OneVoteEach, NoOrphans, LikeInv, NEW r \in Requests, Apply(r),
         NEW c \in Comments
  PROVE  LikeAlone(c)' /\ LikeRead(c)' /\ LikeCount(c)'
<1>1. /\ at[r] = "apply" /\ at' = [at EXCEPT ![r] = "done"] /\ ask' = [ask EXCEPT ![r] = NoAsk]
      /\ seen' = [seen EXCEPT ![r] = Zero] /\ hit' = [hit EXCEPT ![r] = {}] /\ raced' = raced
  BY DEF Apply, Close, Goto
<1>2. ask[r] \in Ask /\ Counted(r) \in Rows
  BY <1>1, RowType DEF TypeInv, Asked
<1>3. count' = [count EXCEPT ![Counted(r)] = Flushed(Counted(r), seen[r], Computed(r))]
  BY DEF Apply, WriteCounters
<1>4. \A s \in Requests : \/ ~Liking(s, c)'
                          \/ /\ at'[s] = at[s] /\ ask'[s] = ask[s]
                             /\ seen'[s] = seen[s] /\ hit'[s] = hit[s]
  BY <1>1 DEF Liking, TypeInv, TypeOK
<1>5. c # Counted(r) => count'[c] = count[c]
  BY <1>3 DEF TypeInv, TypeOK
<1>6. CASE LikeComment(r)
  <2>1. ask[r].op \in {"like", "unlike"} /\ Counted(r) = ask[r].comment
        /\ ask[r].comment \in Comments /\ stored' = stored
    BY <1>2, <1>6 DEF LikeComment, Counted, Ask
  <2>2. LikeQuiet(c)' => LikeQuiet(c)
    BY <1>1, <2>1 DEF LikeQuiet, Thread
  <2>3. CASE c = ask[r].comment
    <3>1. Liking(r, c)
      BY <1>1, <2>1, <2>3 DEF Liking
    <3>2. LikeQuiet(c)' => \A s \in Requests : ~Liking(s, c)'
      BY <1>1, <1>4, <2>2, <3>1 DEF LikeInv, LikeAlone, Liking, TypeInv, TypeOK
    <3>3. LikeAlone(c)' /\ LikeRead(c)'
      BY <3>2 DEF LikeAlone, LikeRead
    <3>4. CASE LikeQuiet(c)
      BY <1>6, <2>3, <3>3, <3>4, LikeApplied
    <3>5. CASE ~LikeQuiet(c)
      BY <2>2, <3>3, <3>5 DEF LikeCount
    <3>6. QED
      BY <3>4, <3>5
  <2>4. CASE c # ask[r].comment
    <3>1. \A l \in NewLikes(r) : l.comment = ask[r].comment
      BY DEF NewLikes
    <3>2. \A l \in hit[r] : l.comment = ask[r].comment
      BY <1>1, <2>1 DEF LikeInv, HitOwn
    <3>3. LikesOf(c)' = LikesOf(c)
      BY <1>6, <2>4, <3>1, <3>2 DEF LikeComment, LikesOf
    <3>4. QED
      BY <1>4, <1>5, <2>1, <2>2, <2>4, <3>3, LikeFrame
  <2>5. QED
    BY <2>3, <2>4
<1>7. ASSUME ~LikeComment(r) PROVE c # Counted(r)
  BY <1>2, <1>7, RowsAssumption
     DEF Apply, VotePost, CreateComment, DeleteComment, DeletePost, Counted
<1>8. CASE CreateComment(r)
  <2>1. PICK d \in Comments \ used : stored' = stored \cup {d} /\ likes' = likes
    BY <1>8 DEF CreateComment
  <2>2. CASE c = d
    <3>1. \A s \in Requests : ~Liking(s, c)'
      BY <1>1, <1>4, <2>1, <2>2 DEF LikeInv, Unwritten, Liking, TypeInv, TypeOK
    <3>2. count[c]["like"] = 0 /\ c \notin Thread
      BY <2>1, <2>2 DEF LikeInv, Unwritten
    <3>3. LikesOf(c)' = {}
      BY <2>1, <3>2 DEF LikesOf, NoOrphans, Thread
    <3>4. count'[c] = count[c]
      BY <1>5, <1>7, <1>8 DEF CreateComment, LikeComment
    <3>5. LikeCount(c)'
      BY <3>2, <3>3, <3>4, FS_EmptySet DEF LikeCount
    <3>6. QED
      BY <3>1, <3>5 DEF LikeAlone, LikeRead
  <2>3. CASE c # d
    <3>1. LikeQuiet(c)' => LikeQuiet(c)
      BY <1>1, <2>1, <2>3 DEF LikeQuiet, Thread
    <3>2. LikesOf(c)' = LikesOf(c) /\ count'[c] = count[c]
      BY <1>5, <1>7, <1>8, <2>1 DEF CreateComment, LikeComment, LikesOf
    <3>3. QED
      BY <1>4, <3>1, <3>2, LikeFrame
  <2>4. QED
    BY <2>2, <2>3
<1>9. CASE VotePost(r) \/ DeleteComment(r) \/ DeletePost(r)
  <2>1. ~LikeComment(r)
    BY <1>9 DEF VotePost, DeleteComment, DeletePost, LikeComment
  <2>2. LikeQuiet(c)' => LikeQuiet(c)
    BY <1>1, <1>9 DEF VotePost, DeleteComment, DeletePost, Remove, LikeQuiet, Thread
  <2>3. LikeQuiet(c)' => LikesOf(c)' = LikesOf(c)
    BY <1>9 DEF VotePost, DeleteComment, DeletePost, Remove, LikeQuiet, Thread, LikesOf
  <2>4. QED
    BY <1>4, <1>5, <1>7, <2>1, <2>2, <2>3, LikeFrame
<1>10. QED
  BY <1>6, <1>8, <1>9 DEF Apply

\* A commit leaves the comments never written alone, and forgets what its request found.
LEMMA UnwrittenAfterCommit ==
  ASSUME TypeInv, LikeInv, NEW r \in Requests, Apply(r)
  PROVE  Unwritten' /\ HitOwn'
<1>1. /\ at[r] = "apply" /\ at' = [at EXCEPT ![r] = "done"] /\ ask' = [ask EXCEPT ![r] = NoAsk]
      /\ hit' = [hit EXCEPT ![r] = {}]
  BY DEF Apply, Close, Goto
<1>2. ask[r] \in Ask
  BY <1>1 DEF TypeInv, Asked
<1>3. HitOwn'
  BY <1>1 DEF LikeInv, HitOwn, TypeInv, TypeOK
<1>4. Thread' \subseteq used' /\ used \subseteq used'
  BY RowsAssumption DEF Apply, VotePost, CreateComment, DeleteComment, LikeComment, DeletePost,
     Remove, LikeInv, Unwritten, Thread, TypeInv, TypeOK
<1>5. ASSUME NEW c \in Comments \ used PROVE c # Counted(r)
  <2>1. CASE ask[r].op \in {"like", "unlike"}
    <3>1. Liking(r, ask[r].comment) /\ ask[r].comment \in Comments
      BY <1>1, <1>2, <2>1 DEF Liking, Ask
    <3>2. QED
      BY <1>5, <2>1, <3>1 DEF LikeInv, Unwritten, Counted
  <2>2. CASE ask[r].op \notin {"like", "unlike"}
    BY <2>2, RowsAssumption DEF Counted
  <2>3. QED
    BY <2>1, <2>2
<1>6. \A c \in Comments \ used : count'[c] = count[c]
  BY <1>5 DEF Apply, WriteCounters, TypeInv, TypeOK
<1>7. \A c \in Comments, s \in Requests : Liking(s, c)' => Liking(s, c)
  BY <1>1 DEF Liking, TypeInv, TypeOK
<1>8. QED
  BY <1>3, <1>4, <1>6, <1>7 DEF LikeInv, Unwritten

\* The steps of a request before its commit.
LEMMA LikeServed ==
  ASSUME TypeInv, LikeInv, NEW r \in Requests, Arrive(r) \/ Find(r) \/ Check(r)
  PROVE  LikeInv'
<1>1. UNCHANGED <<stored, used, likes, count>>
  BY DEF Arrive, Find, Check, board
<1>2. raced \subseteq raced'
  BY DEF Arrive, Find, Check
<1>3. \A s \in Requests \ {r} : /\ at'[s] = at[s] /\ ask'[s] = ask[s]
                                /\ seen'[s] = seen[s] /\ hit'[s] = hit[s]
  BY DEF Arrive, Find, Check, Goto, TypeInv, TypeOK
<1>4. \A c \in Comments : LikeQuiet(c)' => LikeQuiet(c)
  BY <1>1, <1>2 DEF LikeQuiet, Thread
<1>5. \A c \in Comments : LikesOf(c)' = LikesOf(c)
  BY <1>1 DEF LikesOf
<1>6. \A c \in Comments : LikeCount(c)'
  BY <1>1, <1>4, <1>5 DEF LikeInv, LikeCount
<1>7. HitOwn'
  <2>1. CASE Arrive(r)
    BY <1>3, <2>1 DEF Arrive, Goto, LikeInv, HitOwn, TypeInv, TypeOK
  <2>2. CASE Find(r)
    <3>1. at'[r] = "apply" => ask'[r].op = "delete_post"
      BY <2>2 DEF Find, Goto, TypeInv, TypeOK
    <3>2. QED
      BY <1>3, <3>1 DEF LikeInv, HitOwn
  <2>3. CASE Check(r)
    <3>1. ask' = ask /\ (ask[r].op \in {"like", "unlike"} =>
             hit'[r] = {l \in likes : l.comment = ask[r].comment /\ l.user = ask[r].user})
      BY <2>3 DEF Check, TypeInv, TypeOK
    <3>2. QED
      BY <1>3, <3>1 DEF LikeInv, HitOwn
  <2>4. QED
    BY <2>1, <2>2, <2>3
<1>8. ASSUME NEW c \in Comments, ~Liking(r, c)' PROVE LikeAlone(c)' /\ LikeRead(c)'
  BY <1>1, <1>3, <1>4, <1>5, <1>8, LikeFrame
<1>9. CASE Arrive(r)
  <2>1. PICK a \in Ask : /\ \A f \in DOMAIN a \cap {"comment", "parent"} :
                              a[f] \in used \cup {NoParent, Elsewhere}
                         /\ ask' = [ask EXCEPT ![r] = a]
                         /\ raced' = raced \cup
                              {g \in {Group(a)} : \E s \in Running : Group(ask[s]) = g}
    BY <1>9 DEF Arrive
  <2>2. ask'[r] = a /\ at'[r] = "find"
    BY <1>9, <2>1 DEF Arrive, Goto, TypeInv, TypeOK
  <2>3. ASSUME NEW c \in Comments, Liking(r, c)' PROVE c \in used /\ LikeAlone(c)' /\ LikeRead(c)'
    <3>1. a.op \in {"like", "unlike"} /\ a.comment = c
      BY <2>2, <2>3 DEF Liking
    <3>2. c \in used
      <4>1. "comment" \in DOMAIN a
        BY <3>1 DEF Ask
      <4>2. QED
        BY <2>1, <3>1, <4>1, RowsAssumption
    <3>3. Group(a) = <<c, "likes">>
      BY <3>1 DEF Group
    <3>4. \A s \in Requests : Liking(s, c) => Group(ask[s]) = <<c, "likes">> /\ s \in Running
      BY DEF Liking, Group, Running
    <3>5. LikeQuiet(c)' => \A s \in Requests : ~Liking(s, c)
      BY <2>1, <3>3, <3>4 DEF LikeQuiet
    <3>6. QED
      BY <1>3, <2>2, <3>2, <3>5 DEF LikeAlone, LikeRead, Liking
  <2>4. Unwritten'
    <3>1. Thread' \subseteq used' /\ \A c \in Comments \ used' : count'[c]["like"] = 0
      BY <1>1 DEF LikeInv, Unwritten, Thread
    <3>2. \A c \in Comments \ used', s \in Requests : ~Liking(s, c)'
      BY <1>1, <1>3, <2>3 DEF LikeInv, Unwritten, Liking
    <3>3. QED
      BY <3>1, <3>2 DEF Unwritten
  <2>5. QED
    BY <1>6, <1>7, <1>8, <2>3, <2>4 DEF LikeInv
<1>10. CASE Find(r) \/ Check(r)
  <2>1. ask' = ask /\ at[r] \in {"find", "check"} /\ at'[r] \in {"check", "apply"}
    BY <1>10 DEF Find, Check, Goto, TypeInv, TypeOK
  <2>2. \A c \in Comments, s \in Requests : Liking(s, c)' => Liking(s, c)
    BY <1>3, <2>1 DEF Liking
  <2>3. Unwritten'
    BY <1>1, <2>2 DEF LikeInv, Unwritten, Thread
  <2>4. ASSUME NEW c \in Comments, Liking(r, c)' PROVE LikeAlone(c)' /\ LikeRead(c)'
    <3>1. LikeAlone(c)'
      BY <1>4, <2>2 DEF LikeInv, LikeAlone
    <3>2. ask[r].op \in {"like", "unlike"} /\ ask[r].comment = c /\ Liking(r, c)
      BY <2>1, <2>2, <2>4 DEF Liking
    <3>3. LikeQuiet(c)' => /\ seen'[r]["like"] = count[c]["like"]
                           /\ at'[r] = "apply" =>
                                hit'[r] = {l \in likes : l.comment = c /\ l.user = ask[r].user}
      <4>1. CASE Find(r)
        BY <3>2, <4>1 DEF Find, Goto, Target, TypeInv, TypeOK
      <4>2. CASE Check(r)
        <5>1. seen' = seen /\ at[r] = "check"
              /\ hit'[r] = {l \in likes : l.comment = c /\ l.user = ask[r].user}
          BY <3>2, <4>2 DEF Check, TypeInv, TypeOK
        <5>2. QED
          BY <1>4, <3>2, <5>1 DEF LikeInv, LikeRead
      <4>3. QED
        BY <1>10, <4>1, <4>2
    <3>4. LikeRead(c)'
      <4> SUFFICES ASSUME LikeQuiet(c)', NEW s \in Requests, Liking(s, c)'
                   PROVE  /\ at'[s] # "find" => seen'[s]["like"] = count'[c]["like"]
                          /\ at'[s] = "apply" =>
                               hit'[s] = {l \in likes' : l.comment = c /\ l.user = ask'[s].user}
        BY DEF LikeRead
      <4>1. s = r
        BY <2>4, <3>1 DEF LikeAlone
      <4>2. QED
        BY <1>1, <2>1, <3>3, <4>1
    <3>5. QED
      BY <3>1, <3>4
  <2>5. QED
    BY <1>6, <1>7, <1>8, <2>3, <2>4 DEF LikeInv
<1>11. QED
  BY <1>9, <1>10

\* A step that changes no like, and no request but to close it.
LEMMA LikeIdle ==
  ASSUME LikeInv, UNCHANGED <<stored, used, likes, raced>>,
         \A c \in Comments : count'[c] = count[c],
         \A s \in Requests : \/ at'[s] = "done"
                             \/ /\ at'[s] = at[s] /\ ask'[s] = ask[s]
                                /\ seen'[s] = seen[s] /\ hit'[s] = hit[s]
  PROVE  LikeInv'
<1>1. \A s \in Requests, c \in Comments : \/ ~Liking(s, c)'
                                          \/ /\ at'[s] = at[s] /\ ask'[s] = ask[s]
                                             /\ seen'[s] = seen[s] /\ hit'[s] = hit[s]
  BY DEF Liking
<1>2. Unwritten'
  BY <1>1 DEF LikeInv, Unwritten, Liking, Thread
<1>3. HitOwn'
  BY DEF LikeInv, HitOwn
<1>4. ASSUME NEW c \in Comments PROVE LikeAlone(c)' /\ LikeRead(c)' /\ LikeCount(c)'
  <2>1. LikesOf(c)' = LikesOf(c) /\ LikeQuiet(c)' = LikeQuiet(c)
    BY DEF LikesOf, LikeQuiet, Thread
  <2>2. QED
    BY <1>1, <2>1, LikeFrame
<1>5. QED
  BY <1>2, <1>3, <1>4 DEF LikeInv

LEMMA NextLikes == TypeInv /\ OneVoteEach /\ NoOrphans /\ LikeInv /\ [Next]_vars => LikeInv'
<1> SUFFICES ASSUME TypeInv, OneVoteEach, NoOrphans, LikeInv, [Next]_vars PROVE LikeInv'
  OBVIOUS
<1>1. ASSUME NEW r \in Requests, Arrive(r) \/ Find(r) \/ Check(r) PROVE LikeInv'
  BY <1>1, LikeServed
<1>2. ASSUME NEW r \in Requests, NotFound(r) \/ CheckEnds(r) \/ FlushFails(r) \/ Abort(r)
      PROVE  LikeInv'
  <2>1. UNCHANGED <<board, raced>> /\ Close(r)
    BY <1>2 DEF NotFound, CheckEnds, FlushFails, Abort
  <2>2. \A s \in Requests : \/ at'[s] = "done"
                            \/ /\ at'[s] = at[s] /\ ask'[s] = ask[s]
                               /\ seen'[s] = seen[s] /\ hit'[s] = hit[s]
    BY <2>1 DEF Close, Goto, TypeInv, TypeOK
  <2>3. QED
    BY <2>1, <2>2, LikeIdle DEF board
<1>3. ASSUME NEW r \in Requests, Apply(r) PROVE LikeInv'
  BY <1>3, LikesAfterCommit, UnwrittenAfterCommit DEF LikeInv
<1>4. CASE Recount
  <2>1. UNCHANGED <<session, stored, used, likes, raced>>
    BY <1>4 DEF Recount, JobLoad, JobCount, JobSave, board
  <2>2. \A c \in Comments : count'[c] = count[c]
    BY <1>4, RowsAssumption DEF Recount, JobLoad, JobCount, JobSave, board, TypeInv, TypeOK
  <2>3. QED
    BY <2>1, <2>2, LikeIdle DEF session
<1>5. CASE UNCHANGED vars
  BY <1>5, LikeIdle DEF vars, session, board
<1>6. QED
  BY <1>1, <1>2, <1>3, <1>4, <1>5 DEF Next, Serve

LEMMA InitCounts == Init => VoteInv /\ LikeInv
<1> SUFFICES ASSUME Init PROVE VoteInv /\ LikeInv
  OBVIOUS
<1>1. \A r \in Requests : at[r] = "idle"
  BY DEF Init
<1>2. votes = {} /\ likes = {} /\ \A w \in Rows, f \in Columns : count[w][f] = 0
  BY DEF Init, Zero
<1>3. /\ \A f \in VoteType : VotesOf(f) = {}
      /\ \A c \in Comments : LikesOf(c) = {}
  BY <1>2 DEF VotesOf, LikesOf
<1>4. VoteInv
  <2>1. VoteCount
    <3> SUFFICES ASSUME NEW f \in VoteType
                 PROVE  IsFiniteSet(VotesOf(f)) /\ count[Post][f] = Cardinality(VotesOf(f))
      BY DEF VoteCount
    <3>1. VotesOf(f) = {} /\ count[Post][f] = 0
      BY <1>2, <1>3
    <3>2. QED
      BY <3>1, FS_EmptySet
  <2>2. QED
    BY <1>1, <1>2, <2>1 DEF VoteInv, VoteIds, VoteAlone, VoteRead, Voting
<1>5. Thread = {}
  BY RowsAssumption DEF Init, Thread
<1>6. LikeInv
  BY <1>1, <1>2, <1>3, <1>5, FS_EmptySet
     DEF LikeInv, Unwritten, HitOwn, LikeAlone, LikeRead, LikeCount, LikeQuiet, Liking
<1>7. QED
  BY <1>4, <1>6

\* As long as no two requests change the votes of the post, or the likes of a
\* comment, at the same time, the counter columns are the numbers of rows: stale
\* reads of anything else, deletions and the recount job do not disturb them.
THEOREM CountedExactly == Spec => []VotesExact
<1>1. VoteInv /\ LikeInv => VotesExact
  <2> SUFFICES ASSUME VoteInv, LikeInv PROVE VotesExact
    OBVIOUS
  <2>1. Post \in stored /\ <<Post, "votes">> \notin raced =>
          \A f \in VoteType : count[Post][f] = Cardinality(VotesOf(f))
    BY DEF VoteInv, VoteCount, VoteQuiet
  <2>2. \A c \in Thread : <<c, "likes">> \notin raced =>
          count[c]["like"] = Cardinality(LikesOf(c))
    BY DEF LikeInv, LikeCount, LikeQuiet, Thread
  <2>3. QED
    BY <2>1, <2>2 DEF VotesExact
<1>2. Init => OneVoteEach /\ NoOrphans
  BY RowsAssumption DEF Init, OneVoteEach, NoOrphans, Thread
<1>3. QED
  BY <1>1, <1>2, InitTypeInv, NextTypeInv, NextOneVote, NextNoOrphans, InitCounts,
     NextVotes, NextLikes, PTL DEF Spec
=============================================================================
