----------------------------- MODULE Community ------------------------------
(***************************************************************************)
(* One post of the community board: its votes, its comments and their      *)
(* likes (src/src/sql/community.py behind crud/community.py and            *)
(* api/v1/community.py), and the job that recounts its comments            *)
(* (scheduler/jobs/community_jobs.py).                                     *)
(*                                                                         *)
(* A request is one transaction in READ COMMITTED: a SELECT that loads the *)
(* row it is about, a second SELECT, then one flush and the commit. The    *)
(* flush writes the columns that differ from what was loaded, with the     *)
(* values computed from what was loaded (count += 1 in Python): nothing    *)
(* locks the row between the SELECT and the flush.                         *)
(***************************************************************************)
EXTENDS Integers, FiniteSets

CONSTANTS
  Users,       \* members who vote and like
  Comments,    \* ids of the comments ever written
  Requests,    \* requests the API serves, one each
  Post,        \* the row of the post
  NoParent,    \* parent_id IS NULL
  Elsewhere,   \* a comment of another post
  MaxOverlap   \* how many requests are served at the same time

ASSUME RowsAssumption    == /\ {Post, NoParent, Elsewhere} \cap Comments = {}
                            /\ Elsewhere \notin {Post, NoParent}
ASSUME FiniteAssumption  == IsFiniteSet(Users) /\ IsFiniteSet(Comments) /\ IsFiniteSet(Requests)
ASSUME OverlapAssumption == MaxOverlap \in Nat \ {0}

VARIABLES
  at,        \* request -> how far it has come
  ask,       \* request -> what it asks for
  seen,      \* request -> the counters it loaded
  hit,       \* request -> the vote or like it found (a set of at most one row)
  stored,    \* the post and the comments that are in the database
  used,      \* comment ids ever stored
  parent,    \* comment -> its parent_id
  count,     \* row -> its counter columns
  votes,     \* rows of post_votes
  likes,     \* rows of comment_likes
  job,       \* how far the recount job has come
  jobSeen,   \* the comment_count it loaded
  jobTotal,  \* the number of comments it counted
  raced      \* history: counters that two requests were changing at the same time

session == <<at, ask, seen, hit>>
board   == <<stored, used, parent, count, votes, likes>>
jobvars == <<job, jobSeen, jobTotal>>
vars    == <<session, board, jobvars, raced>>

Rows     == Comments \cup {Post}
VoteType == {"like", "dislike"}

\* Counter columns; a comment uses like only.
Columns  == VoteType \cup {"comments"}
Counters == [Columns -> Nat]
Zero     == [f \in Columns |-> 0]

Vote == [id : Requests, user : Users, type : VoteType]
Like == [id : Requests, user : Users, comment : Comments]

Ask ==
       [op : {"vote"}, user : Users, type : VoteType]
  \cup [op : {"create_comment"}, parent : Comments \cup {NoParent, Elsewhere}]
  \cup [op : {"delete_comment"}, comment : Comments]
  \cup [op : {"like", "unlike"}, comment : Comments, user : Users]
  \cup [op : {"delete_post"}]

NoAsk == [op |-> "none"]

\* The counters a request changes: those of votes, of comments, of one comment's likes.
Group(a) ==
  CASE a.op = "vote"                                  -> <<Post, "votes">>
    [] a.op \in {"create_comment", "delete_comment"} -> <<Post, "comments">>
    [] a.op \in {"like", "unlike"}                   -> <<a.comment, "likes">>
    [] a.op = "delete_post"                          -> <<Post, "row">>

Running == {r \in Requests : at[r] \in {"find", "check", "apply"}}

-----------------------------------------------------------------------------
(* Initially there is the post, as create_post stores it *)

Init ==
  /\ at = [r \in Requests |-> "idle"]
  /\ ask = [r \in Requests |-> NoAsk]
  /\ seen = [r \in Requests |-> Zero]
  /\ hit = [r \in Requests |-> {}]
  /\ stored = {Post}
  /\ used = {}
  /\ parent = [c \in Comments |-> NoParent]
  /\ count = [w \in Rows |-> Zero]
  /\ votes = {}
  /\ likes = {}
  /\ job = "idle"
  /\ jobSeen = 0
  /\ jobTotal = 0
  /\ raced = {}

-----------------------------------------------------------------------------
(* A request, up to the flush *)

\* The row get_post or get_comment loads first.
Target(r) ==
  IF ask[r].op \in {"delete_comment", "like", "unlike"} THEN ask[r].comment ELSE Post

\* The row whose counters the request changes.
Counted(r) == IF ask[r].op \in {"like", "unlike"} THEN ask[r].comment ELSE Post

Goto(r, stage) == at' = [at EXCEPT ![r] = stage]

\* The session is closed; what it loaded is forgotten.
Close(r) ==
  /\ Goto(r, "done")
  /\ ask' = [ask EXCEPT ![r] = NoAsk]
  /\ seen' = [seen EXCEPT ![r] = Zero]
  /\ hit' = [hit EXCEPT ![r] = {}]

\* Bound: there is a comment id left for every request that may need one.
IdsLeft ==
  Cardinality(used) + Cardinality({s \in Running : ask[s].op = "create_comment"})
    < Cardinality(Comments)

\* A request arrives. Only comments that were stored once are asked for.
Arrive(r) ==
  /\ at[r] = "idle"
  /\ Cardinality(Running) < MaxOverlap
  /\ \E a \in Ask :
       /\ \A f \in DOMAIN a \cap {"comment", "parent"} : a[f] \in used \cup {NoParent, Elsewhere}
       /\ a.op = "create_comment" => IdsLeft
       /\ ask' = [ask EXCEPT ![r] = a]
       /\ raced' = raced \cup {g \in {Group(a)} : \E s \in Running : Group(ask[s]) = g}
  /\ Goto(r, "find")
  /\ UNCHANGED <<seen, hit, board, jobvars>>

\* 404.
NotFound(r) ==
  /\ at[r] = "find"
  /\ Target(r) \notin stored
  /\ Close(r)
  /\ UNCHANGED <<board, jobvars, raced>>

\* The first SELECT. delete_post has no second one.
Find(r) ==
  /\ at[r] = "find"
  /\ Target(r) \in stored
  /\ seen' = [seen EXCEPT ![r] = count[Target(r)]]
  /\ Goto(r, IF ask[r].op = "delete_post" THEN "apply" ELSE "check")
  /\ UNCHANGED <<ask, hit, board, jobvars, raced>>

\* A parent that is missing is a 404, one of another post a 400; without its post, the
\* comment to delete is gone too and nothing is left to change.
CheckEnds(r) ==
  /\ at[r] = "check"
  /\ \/ ask[r].op = "create_comment" /\ ask[r].parent \notin stored \cup {NoParent}
     \/ ask[r].op = "delete_comment" /\ Post \notin stored
  /\ Close(r)
  /\ UNCHANGED <<board, jobvars, raced>>

\* The second SELECT: the user's vote or like, the parent, or the post of the
\* comment to delete.
Check(r) ==
  /\ at[r] = "check"
  /\ Goto(r, "apply")
  /\ LET a == ask[r]
     IN  \/ /\ a.op = "vote"
            /\ hit' = [hit EXCEPT ![r] = {v \in votes : v.user = a.user}]
            /\ UNCHANGED seen
         \/ /\ a.op \in {"like", "unlike"}
            /\ hit' = [hit EXCEPT ![r] =
                         {l \in likes : l.comment = a.comment /\ l.user = a.user}]
            /\ UNCHANGED seen
         \/ /\ a.op = "create_comment"
            /\ a.parent \in stored \cup {NoParent}   \* not Elsewhere
            /\ UNCHANGED <<seen, hit>>
         \/ /\ a.op = "delete_comment"
            /\ Post \in stored
            /\ seen' = [seen EXCEPT ![r] = count[Post]]
            /\ UNCHANGED hit
  /\ UNCHANGED <<ask, board, jobvars, raced>>

-----------------------------------------------------------------------------
(* The flush and the commit *)

\* Mutant of AtLeastZero: the guard against negative counts is missing.
Unclamped(n) == n

AtLeastZero(n) == IF n > 0 THEN n ELSE 0

\* Mutant of Voted: the old vote keeps its place in the count when it is changed.
VotedTwice(s, had, type) == [s EXCEPT ![type] = @ + 1]

\* vote_post on the counters s of a user who had voted as in had.
Voted(s, had, type) ==
  LET s1 == [f \in Columns |->
               IF \E v \in had : v.type = f THEN AtLeastZero(s[f] - 1) ELSE s[f]]
  IN  [s1 EXCEPT ![type] = @ + 1]

\* What the request makes of the counters it loaded.
Computed(r) ==
  LET a == ask[r]
      s == seen[r]
  IN  CASE a.op = "vote" ->
             IF \E v \in hit[r] : v.type = a.type THEN s ELSE Voted(s, hit[r], a.type)
        [] a.op = "create_comment" -> [s EXCEPT !["comments"] = @ + 1]
        [] a.op = "delete_comment" -> [s EXCEPT !["comments"] = AtLeastZero(@ - 1)]
        [] a.op = "like" -> IF hit[r] = {} THEN [s EXCEPT !["like"] = @ + 1] ELSE s
        [] a.op = "unlike" ->
             IF hit[r] = {} THEN s ELSE [s EXCEPT !["like"] = AtLeastZero(@ - 1)]
        [] a.op = "delete_post" -> s

\* Mutant of Flushed: the UPDATE names every column.
FlushedAll(row, old, new) == new

\* The UPDATE names the columns that differ from what was loaded.
Flushed(row, old, new) ==
  [f \in Columns |-> IF new[f] # old[f] THEN new[f] ELSE count[row][f]]

\* The rows inserted and deleted by the flush.
NewVotes(r) ==
  {v \in Vote : ask[r].op = "vote" /\ hit[r] = {}
                /\ v = [id |-> r, user |-> ask[r].user, type |-> ask[r].type]}

NewLikes(r) ==
  {l \in Like : ask[r].op = "like" /\ hit[r] = {}
                /\ l = [id |-> r, user |-> ask[r].user, comment |-> ask[r].comment]}

\* Mutant of UniqueKeys: neither table has its unique constraint.
NoUniqueKeys(r) == TRUE

\* uq_post_vote_user and uq_comment_like_user.
UniqueKeys(r) ==
  /\ \A n \in NewVotes(r), v \in votes : n.user # v.user
  /\ \A n \in NewLikes(r), l \in likes : n.user # l.user \/ n.comment # l.comment

Thread == stored \cap Comments

\* Mutant of Cascade: the replies stay.
CascadeOne(c) == {c}

\* ON DELETE CASCADE of parent_id: c, if it is stored, with its replies and theirs:
\* the comments in every set that holds c and the replies to its members.
Cascade(c) ==
  {d \in Thread : c \in Thread /\
     \A S \in SUBSET Thread :
       c \in S /\ (\A e \in Thread : parent[e] \in S => e \in S) => d \in S}

\* The UPDATE must find its row (StaleDataError otherwise), a reply its parent, a
\* vote or a like its unique key free.
FlushSucceeds(r) ==
  /\ Computed(r) # seen[r] => Counted(r) \in stored
  /\ ask[r].op = "create_comment" => ask[r].parent \in stored \cup {NoParent, Elsewhere}
  /\ UniqueKeys(r)

\* 409 or 500: the transaction is rolled back.
FlushFails(r) ==
  /\ at[r] = "apply"
  /\ ~FlushSucceeds(r)
  /\ Close(r)
  /\ UNCHANGED <<board, jobvars, raced>>

\* The request dies, at any point before its commit: nothing was written.
Abort(r) ==
  /\ r \in Running
  /\ Close(r)
  /\ UNCHANGED <<board, jobvars, raced>>

\* Rows that a set of deleted comments, or of the post, takes along.
Remove(gone) ==
  /\ stored' = stored \ gone
  /\ likes' = {l \in likes : l.comment \notin gone}
  /\ votes' = IF Post \in gone THEN {} ELSE votes

WriteCounters(r) ==
  count' = [count EXCEPT ![Counted(r)] = Flushed(Counted(r), seen[r], Computed(r))]

\* A vote found with the other type is updated by its id.
VotePost(r) ==
  /\ ask[r].op = "vote"
  /\ LET changed == {h.id : h \in {h \in hit[r] : h.type # ask[r].type}}
     IN  votes' = {IF v.id \in changed THEN [v EXCEPT !.type = ask[r].type] ELSE v : v \in votes}
                    \cup NewVotes(r)
  /\ UNCHANGED <<stored, used, parent, likes>>

CreateComment(r) ==
  /\ ask[r].op = "create_comment"
  /\ \E c \in Comments \ used :
       /\ stored' = stored \cup {c}
       /\ used' = used \cup {c}
       /\ parent' = [parent EXCEPT ![c] = ask[r].parent]
  /\ UNCHANGED <<votes, likes>>

\* A DELETE that finds no row only warns.
DeleteComment(r) ==
  /\ ask[r].op = "delete_comment"
  /\ Remove(Cascade(ask[r].comment))
  /\ UNCHANGED <<used, parent>>

LikeComment(r) ==
  /\ ask[r].op \in {"like", "unlike"}
  /\ likes' = IF ask[r].op = "like" THEN likes \cup NewLikes(r) ELSE likes \ hit[r]
  /\ UNCHANGED <<stored, used, parent, votes>>

DeletePost(r) ==
  /\ ask[r].op = "delete_post"
  /\ Remove(stored)
  /\ UNCHANGED <<used, parent>>

Apply(r) ==
  /\ at[r] = "apply"
  /\ FlushSucceeds(r)
  /\ VotePost(r) \/ CreateComment(r) \/ DeleteComment(r) \/ LikeComment(r) \/ DeletePost(r)
  /\ WriteCounters(r)
  /\ Close(r)
  /\ UNCHANGED <<jobvars, raced>>

-----------------------------------------------------------------------------
(* recalculate_community_hot_score, every ten minutes *)

\* Without the post there is no row to load, and the run has nothing to do.
JobLoad ==
  /\ job = "idle"
  /\ job' = "count"
  /\ jobSeen' = IF Post \in stored THEN count[Post]["comments"] ELSE 0
  /\ UNCHANGED <<jobTotal, session, board, raced>>

JobCount ==
  /\ job = "count"
  /\ job' = "save"
  /\ jobTotal' = Cardinality(Thread)
  /\ UNCHANGED <<jobSeen, session, board, raced>>

\* Mutant of Recounted: the job writes back what it loaded.
NotRecounted == count[Post]["comments"]

\* The column after the job's commit: it is written when the count differs from
\* the value loaded.
Recounted == IF jobTotal # jobSeen THEN jobTotal ELSE count[Post]["comments"]

\* The post deleted meanwhile fails the run, which changes nothing.
JobSave ==
  /\ job = "save"
  /\ job' = "idle"
  /\ jobSeen' = 0
  /\ jobTotal' = 0
  /\ count' = IF Post \in stored
                THEN [count EXCEPT ![Post]["comments"] = Recounted]
                ELSE count
  /\ UNCHANGED <<stored, used, parent, votes, likes, session, raced>>

-----------------------------------------------------------------------------

Serve(r) == NotFound(r) \/ Find(r) \/ CheckEnds(r) \/ Check(r) \/ FlushFails(r) \/ Apply(r)

Recount == JobLoad \/ JobCount \/ JobSave

Next == (\E r \in Requests : Arrive(r) \/ Serve(r) \/ Abort(r)) \/ Recount

Spec == Init /\ [][Next]_vars

\* A request that arrived is served to its end, and cron starts the job again and
\* again. Nothing makes a request arrive.
FairSpec == Spec /\ WF_vars(Recount) /\ \A r \in Requests : WF_vars(Serve(r))
-----------------------------------------------------------------------------
(* Properties *)

\* Every variable keeps its type; no counter is ever negative, however stale the
\* value it was computed from.
TypeOK ==
  /\ at \in [Requests -> {"idle", "find", "check", "apply", "done"}]
  /\ ask \in [Requests -> Ask \cup {NoAsk}]
  /\ seen \in [Requests -> Counters]
  /\ hit \in [Requests -> SUBSET (Vote \cup Like)]
  /\ stored \in SUBSET Rows
  /\ used \in SUBSET Comments
  /\ parent \in [Comments -> Comments \cup {NoParent}]
  /\ count \in [Rows -> Counters]
  /\ votes \in SUBSET Vote
  /\ likes \in SUBSET Like
  /\ job \in {"idle", "count", "save"}
  /\ jobSeen \in Nat /\ jobTotal \in Nat
  /\ raced \in SUBSET (Rows \X {"votes", "comments", "likes", "row"})

\* A user has one vote on the post and one like on a comment at most, whatever the
\* user clicks at the same time.
OneVoteEach ==
  /\ \A v, w \in votes : v.user = w.user => v = w
  /\ \A l, m \in likes : l.user = m.user /\ l.comment = m.comment => l = m

VotesOf(type) == {v \in votes : v.type = type}
LikesOf(c)    == {l \in likes : l.comment = c}

\* Unless two votes on the post were in flight at the same time, like_count and
\* dislike_count are the numbers of votes, whatever happens to its comments
\* meanwhile; so is a comment's like_count without overlapping likes of it.
VotesExact ==
  /\ Post \in stored /\ <<Post, "votes">> \notin raced =>
       /\ count[Post]["like"] = Cardinality(VotesOf("like"))
       /\ count[Post]["dislike"] = Cardinality(VotesOf("dislike"))
  /\ \A c \in Thread : <<c, "likes">> \notin raced =>
       count[c]["like"] = Cardinality(LikesOf(c))

\* Nothing outlives what it belongs to, although replies, likes and votes arrive
\* while their comment or the post is being deleted.
NoOrphans ==
  /\ \A c \in Thread : parent[c] \in Thread \cup {NoParent} /\ Post \in stored
  /\ \A l \in likes : l.comment \in stored
  /\ votes # {} => Post \in stored

\* Once requests stop arriving, the job makes comment_count the number of comments,
\* and it stays so.
Repaired == <>[](Post \in stored => count[Post]["comments"] = Cardinality(Thread))
=============================================================================
