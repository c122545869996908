-------------------------------- MODULE Jobs --------------------------------
(***************************************************************************)
(* The jobs a scheduler starts and their runner: src/src/scheduler/        *)
(* runner.py, cli.py, jobs/pipeline_jobs.py, jobs/feed_jobs.py,            *)
(* jobs/search_jobs.py and src/src/worker_main.py, with the boards that    *)
(* sql/feed.py, sql/search.py and sql/home.py show. Here are the jobs that *)
(* keep the keyword states of issues and those that rank; the others are   *)
(* in IssueDesk, Community, Accounts and NewsPipeline.                     *)
(*                                                                         *)
(* A run is a process with transactions in READ COMMITTED. Time is kept as *)
(* ages: how many days ago something was. An issue has one keyword.        *)
(***************************************************************************)
EXTENDS Integers, FiniteSets

CONSTANTS
  Issues,      \* ids of issues
  Words,       \* words of the titles that are searched
  Slots,       \* bound: runs at the same time
  Plans,       \* bound: sets of jobs, one of which is scheduled in a behaviour
  Twice,       \* bound: jobs of which two runs may overlap
  CoolAfter, CloseAfter, \* days until an unseen keyword cools down, and is closed
  Window,      \* days a keyword that was seen matches new articles
  Retention,   \* days a ranking is kept
  TopN,        \* length of a ranking
  MaxScore,    \* bound: scores are 0..MaxScore
  MaxLag,      \* bound: days a run takes
  MaxRankings, \* bound: runs of ranking jobs
  MaxFaults,   \* bound: crashes and lost connections
  Gone         \* no row

Boards == {"issue_rankings", "search_rankings"}
JobNames == {"keyword_state_cleanup", "news_collect"} \cup Boards

ASSUME PlansAssumption == Twice \subseteq JobNames /\ \A p \in Plans : p \subseteq JobNames
ASSUME DaysAssumption ==
  /\ {CoolAfter, CloseAfter, Window, Retention, MaxLag, MaxScore, MaxRankings, MaxFaults}
       \subseteq Nat
  /\ TopN \in Nat \ {0}
  /\ CoolAfter <= CloseAfter /\ Window <= CloseAfter
  /\ MaxLag <= Retention   \* no run takes as long as rankings are kept
ASSUME FiniteAssumption == IsFiniteSet(Issues) /\ IsFiniteSet(Words)

VARIABLES
  plan,    \* jobs of this behaviour
  issue,   \* issue -> "active" (ONGOING, REIGNITED), "closed", or Gone
  link,    \* issue -> row of issue_keyword_states: status and age of last_seen_at
  board,   \* job -> rows it left in issue_rank_snapshots or search_rankings
  run,     \* slot -> its run
  ranked,  \* ranking runs so far; calculated_at of a run is its number
  jobRuns, \* numbers of the ranking runs that have a row in job_runs
  faults   \* faults so far

vars == <<plan, issue, link, board, run, ranked, jobRuns, faults>>

MaxAge == (IF CloseAfter < Retention THEN Retention ELSE CloseAfter) + MaxLag + 1
Ages   == 0..MaxAge
Older(n) == IF n < MaxAge THEN n + 1 ELSE n   \* older than any limit is old enough

Statuses == {"ACTIVE", "COOLDOWN", "CLOSED"}
Links    == [status : Statuses, age : Ages]
NoWrites == [i \in Issues |-> Gone]

ASSUME GoneAssumption ==
  Gone \notin Issues \cup Links \cup {"active", "closed"}

\* A run: its stage, the days since it read the clock (0 when it needs them no more), the
\* rows its statement has yet to lock, the one it waits for, the rows it wrote, what it is
\* about to save, whether it committed, and the status its row of job_runs will have.
Idle == [job |-> "none", stage |-> "idle", age |-> 0, at |-> 0, todo |-> {},
         wants |-> Gone, writes |-> NoWrites, items |-> {}, applied |-> FALSE, status |-> "none"]

Busy(s) == run[s] # Idle
Written(s) == {i \in Issues : run[s].writes[i] # Gone}
LockedByOther(s, i) == \E r \in Slots \ {s} : i \in Written(r)

\* The lock of a row goes to a run that waits for it first.
CanLock(s, i) ==
  /\ i \in run[s].todo /\ ~LockedByOther(s, i)
  /\ \/ run[s].wants = i \/ i \in Written(s)
     \/ run[s].wants = Gone /\ \A r \in Slots : run[r].wants # i

\* The version of a row that a statement of this run sees.
Seen(s, i) == IF i \in Written(s) THEN run[s].writes[i] ELSE link[i]

Init ==
  /\ plan \in Plans
  /\ issue = [i \in Issues |-> "active"]
  /\ link = [i \in Issues |-> IF plan \cap Boards # {} THEN Gone
                             ELSE [status |-> "ACTIVE", age |-> 0]]
  /\ board = [b \in Boards |-> {}]
  /\ run = [s \in Slots |-> Idle]
  /\ ranked = 0
  /\ jobRuns = {}
  /\ faults = 0

-----------------------------------------------------------------------------
(* The runner *)

FirstStage == [j \in JobNames |->
  CASE j = "keyword_state_cleanup" -> "cool"
    [] j = "news_collect" -> "match"
    [] OTHER -> "read"]

\* A scheduler does not start a job again before its last run ended; a second scheduler,
\* or an operator at the command line, may.
Start(s, j) ==
  /\ ~Busy(s) /\ j \in plan
  /\ j \notin Twice => \A r \in Slots : run[r].job # j
  /\ j \in Boards => ranked < MaxRankings
  /\ ranked' = IF j \in Boards THEN ranked + 1 ELSE ranked
  /\ run' = [run EXCEPT ![s] = [Idle EXCEPT !.job = j, !.stage = FirstStage[j], !.at = ranked']]
  /\ UNCHANGED <<plan, issue, link, board, jobRuns, faults>>

\* The handler returned and its transaction was committed, or something was raised.
Returned(s, ok) ==
  [run[s] EXCEPT !.stage = "record", !.age = 0, !.todo = {}, !.wants = Gone,
                 !.writes = NoWrites, !.items = {}, !.status = IF ok THEN "success" ELSE "failed"]

Return(s, ok, applied) == run' = [run EXCEPT ![s] = [Returned(s, ok) EXCEPT !.applied = applied]]

\* Mutant of JobRun: only of a run that succeeded.
JobRunOfSuccess(s) == {n \in {run[s].at} : run[s].job \in Boards /\ run[s].status = "success"}

\* The row, if it is a ranking's; whatever its status.
JobRun(s) == {n \in {run[s].at} : run[s].job \in Boards}

\* The row of job_runs is inserted by a session of its own.
Record(s) ==
  /\ run[s].stage = "record"
  /\ run' = [run EXCEPT ![s] = Idle]
  /\ jobRuns' = jobRuns \cup JobRun(s)
  /\ UNCHANGED <<plan, issue, link, board, ranked, faults>>

Fault == faults < MaxFaults /\ faults' = faults + 1

\* The process is killed, or its second session has no connection either: what was not
\* committed is rolled back, and nothing is recorded.
Crash(s) ==
  /\ Busy(s) /\ Fault
  /\ run' = [run EXCEPT ![s] = Idle]
  /\ UNCHANGED <<plan, issue, link, board, ranked, jobRuns>>

\* What db.commit() makes visible.
Committed(s) == [i \in Issues |-> Seen(s, i)]

-----------------------------------------------------------------------------
(* keyword_state_cleanup: two UPDATE statements, one transaction *)

\* last_seen_at < now - cutoff, where now is when the run began.
Unseen(s, row, days) == row.age > run[s].age + days

\* The WHERE clauses, by the statement.
Matches(s, statement, row) ==
  /\ row # Gone
  /\ \/ statement = "cooling" /\ row.status = "ACTIVE" /\ Unseen(s, row, CoolAfter)
     \/ statement = "closing" /\ row.status = "COOLDOWN" /\ Unseen(s, row, CloseAfter)

NextStatus(s) == IF run[s].stage = "cooling" THEN "COOLDOWN" ELSE "CLOSED"

\* Mutant of Execute: a run closes only what it cooled down itself.
ExecuteOwn(s, statement) ==
  run' = [run EXCEPT ![s].todo = {i \in Issues : /\ Matches(s, statement, Seen(s, i))
                                                 /\ statement = "closing" => i \in Written(s)},
                     ![s].stage = statement]

\* A statement finds its rows in the versions that are committed when it begins.
Execute(s, statement) ==
  run' = [run EXCEPT ![s].todo = {i \in Issues : Matches(s, statement, Seen(s, i))},
                     ![s].stage = statement]

Cool(s) ==
  /\ run[s].stage = "cool"
  /\ Execute(s, "cooling")
  /\ UNCHANGED <<plan, issue, link, board, ranked, jobRuns, faults>>

\* Mutant of StillMatches: the job loads the rows and sets their status.
StillMatchesLoaded(s, i) == link[i] # Gone

\* A row that was locked is compared with the WHERE clause again.
StillMatches(s, i) == Matches(s, run[s].stage, Seen(s, i))

\* It locks and writes them one after the other, and waits for locks of others.
UpdateRow(s, i) ==
  /\ run[s].stage \in {"cooling", "closing"}
  /\ CanLock(s, i)
  /\ run' = [run EXCEPT ![s].todo = @ \ {i}, ![s].wants = Gone,
                        ![s].writes[i] = IF StillMatches(s, i)
                                         THEN [Seen(s, i) EXCEPT !.status = NextStatus(s)] ELSE @]
  /\ UNCHANGED <<plan, issue, link, board, ranked, jobRuns, faults>>

Cooled(s) ==
  /\ run[s].stage = "cooling" /\ run[s].todo = {}
  /\ Execute(s, "closing")
  /\ UNCHANGED <<plan, issue, link, board, ranked, jobRuns, faults>>

Closed(s) ==
  /\ run[s].stage = "closing" /\ run[s].todo = {}
  /\ link' = Committed(s)
  /\ Return(s, TRUE, TRUE)
  /\ UNCHANGED <<plan, issue, board, ranked, jobRuns, faults>>

-----------------------------------------------------------------------------
(* news_collect: what it does to keyword states; the rest is NewsPipeline *)

\* find_candidate_issues. Which of them articles match is left open.
Candidates(s) ==
  {i \in Issues : /\ link[i] # Gone /\ link[i].status \in {"ACTIVE", "COOLDOWN"}
                  /\ link[i].age <= run[s].age + Window}

Match(s) ==
  /\ run[s].stage = "match"
  /\ \E S \in SUBSET Candidates(s) : run' = [run EXCEPT ![s].todo = S, ![s].stage = "persist"]
  /\ UNCHANGED <<plan, issue, link, board, ranked, jobRuns, faults>>

\* _update_keyword_states sets last_seen_at of whatever is there, and nothing else.
Refresh(s, i) ==
  /\ run[s].stage = "persist"
  /\ CanLock(s, i) /\ link[i] # Gone
  /\ run' = [run EXCEPT ![s].todo = @ \ {i}, ![s].wants = Gone,
                        ![s].writes[i] = [link[i] EXCEPT !.age = 0]]
  /\ UNCHANGED <<plan, issue, link, board, ranked, jobRuns, faults>>

\* run_cycle goes on without what was classified.
RolledBack(s) ==
  [run[s] EXCEPT !.stage = "report", !.age = 0, !.todo = {}, !.wants = Gone, !.writes = NoWrites]

\* The issue an article matched is deleted: its event_update violates a foreign key.
RefreshFails(s, i) ==
  /\ run[s].stage = "persist"
  /\ CanLock(s, i) /\ link[i] = Gone
  /\ run' = [run EXCEPT ![s] = RolledBack(s)]
  /\ UNCHANGED <<plan, issue, link, board, ranked, jobRuns, faults>>

Persisted(s) ==
  /\ run[s].stage = "persist" /\ run[s].todo = {}
  /\ link' = Committed(s)
  /\ run' = [run EXCEPT ![s] = [RolledBack(s) EXCEPT !.applied = TRUE]]
  /\ UNCHANGED <<plan, issue, board, ranked, jobRuns, faults>>

\* The rest of the cycle: it returns, whatever happened, or a file cannot be written.
Report(s) ==
  /\ run[s].stage = "report"
  /\ \E ok \in BOOLEAN : Return(s, ok, run[s].applied)
  /\ UNCHANGED <<plan, issue, link, board, ranked, jobRuns, faults>>

-----------------------------------------------------------------------------
(* issue_rankings and search_rankings *)

Scores == 0..MaxScore

\* What ranking S by these scores may give: a list without repetitions of the first n, in
\* which nobody who comes later, or not at all, has more.
Orders(S, score) ==
  LET n == IF Cardinality(S) < TopN THEN Cardinality(S) ELSE TopN
  IN {f \in [1..n -> S] :
        \A k \in 1..n : \A x \in S \ {f[j] : j \in 1..(k - 1)} :
          score[x] <= score[f[k]] /\ \A j \in 1..(k - 1) : f[j] # f[k]}

\* Sets of <<item, rank, score>>; what the items score is left open.
Rankings(S) ==
  UNION {{{<<f[k], k, score[f[k]]>> : k \in DOMAIN f} : f \in Orders(S, score)} :
           score \in [S -> Scores]}

Active == {i \in Issues : issue[i] = "active"}

\* The words that occur in titles of the last day are any.
Ranked(s) == IF run[s].job = "issue_rankings" THEN Rankings(Active)
             ELSE UNION {Rankings(W) : W \in SUBSET Words}

\* calculate_issue_rankings returns early if no issue is active; the other job does not.
NothingToRank(s) == run[s].stage = "read" /\ run[s].job = "issue_rankings" /\ Active = {}

Read(s) ==
  /\ run[s].stage = "read"
  /\ IF NothingToRank(s)
       THEN Return(s, TRUE, TRUE)
       ELSE \E R \in Ranked(s) : run' = [run EXCEPT ![s].items = R, ![s].stage = "save"]
  /\ UNCHANGED <<plan, issue, link, board, ranked, jobRuns, faults>>

NewRows(s) ==
  {[at |-> run[s].at, item |-> r[1], rank |-> r[2], score |-> r[3], age |-> run[s].age] :
     r \in run[s].items}

\* Mutant of OldRows: a run deletes what is not its own.
OldRowsOthers(s) == board[run[s].job]

\* calculated_at < now - RETENTION_DAYS.
OldRows(s) == {r \in board[run[s].job] : r.age > run[s].age + Retention}

\* Mutant of CanSave: snapshots have no foreign key to the issues.
CanSaveAlways(s) == TRUE

\* A snapshot of an issue that was deleted violates a foreign key.
CanSave(s) == run[s].job = "issue_rankings" => \A r \in run[s].items : issue[r[1]] # Gone

Saved(s) == [board EXCEPT ![run[s].job] = (@ \ OldRows(s)) \cup NewRows(s)]

Save(s) ==
  /\ run[s].stage = "save" /\ CanSave(s)
  /\ board' = Saved(s)
  /\ Return(s, TRUE, TRUE)
  /\ UNCHANGED <<plan, issue, link, ranked, jobRuns, faults>>

SaveFails(s) ==
  /\ run[s].stage = "save" /\ ~CanSave(s)
  /\ Return(s, FALSE, FALSE)
  /\ UNCHANGED <<plan, issue, link, board, ranked, jobRuns, faults>>

\* list_top_stories, rankings: the rows of the last calculated_at.
Shown(b) == {r \in board[b] : \A q \in board[b] : q.at <= r.at}
ShownAt(b) == {r.at : r \in Shown(b)}

\* list_search_rankings of the home page: the first TopN of all rows by score, whatever day
\* they are of, and whichever period the client asks for. Here are those that are shown in
\* whatever order equal scores come.
HomeShows ==
  LET rows == board["search_rankings"]
  IN {r \in rows : Cardinality({q \in rows \ {r} : q.score >= r.score}) < TopN}

-----------------------------------------------------------------------------
(* PostgreSQL, time, and the desk *)

\* The connection is lost at the commit, before the server commits or after: that of
\* run_job, or the one _run_classification makes by itself.
CommitFails(s) ==
  /\ Fault
  /\ \E committed \in BOOLEAN :
       \/ /\ run[s].stage = "closing" /\ run[s].todo = {}
          /\ link' = IF committed THEN Committed(s) ELSE link
          /\ Return(s, FALSE, committed)
          /\ UNCHANGED board
       \/ /\ run[s].stage = "persist" /\ run[s].todo = {}
          /\ link' = IF committed THEN Committed(s) ELSE link
          /\ run' = [run EXCEPT ![s] = [RolledBack(s) EXCEPT !.applied = committed]]
          /\ UNCHANGED board
       \/ /\ run[s].stage = "save" /\ CanSave(s)
          /\ board' = IF committed THEN Saved(s) ELSE board
          /\ Return(s, FALSE, committed)
          /\ UNCHANGED link
       \/ /\ NothingToRank(s)
          /\ Return(s, FALSE, committed)
          /\ UNCHANGED <<link, board>>
  /\ UNCHANGED <<plan, issue, ranked, jobRuns>>

\* A statement that finds a row locked waits there.
Wait(s, i) ==
  /\ i \in run[s].todo /\ run[s].wants = Gone /\ LockedByOther(s, i)
  /\ run' = [run EXCEPT ![s].wants = i]
  /\ UNCHANGED <<plan, issue, link, board, ranked, jobRuns, faults>>

WaitsFor(s) == {r \in Slots \ {s} : run[s].wants \in Written(r)}

\* Two runs wait for each other, and PostgreSQL picks one to fail.
Victim(s) ==
  /\ \E r \in WaitsFor(s) : s \in WaitsFor(r)
  /\ IF run[s].job = "news_collect" THEN run' = [run EXCEPT ![s] = RolledBack(s)]
                                    ELSE Return(s, FALSE, FALSE)
  /\ UNCHANGED <<plan, issue, link, board, ranked, jobRuns, faults>>

Aged(row) == IF row = Gone THEN Gone ELSE [row EXCEPT !.age = Older(@)]

Day ==
  /\ \A s \in Slots : run[s].age < MaxLag
  /\ link' = [i \in Issues |-> Aged(link[i])]
  /\ board' = [b \in Boards |-> {[r EXCEPT !.age = Older(@)] : r \in board[b]}]
  /\ run' = [s \in Slots |-> IF ~Busy(s) THEN Idle ELSE
       [run[s] EXCEPT !.age = @ + 1, !.writes = [i \in Issues |-> Aged(@[i])]]]
  /\ UNCHANGED <<plan, issue, ranked, jobRuns, faults>>

\* delete_issue: its rows go with it. It waits for runs that wrote them.
DeleteIssue(i) ==
  /\ issue[i] # Gone
  /\ \A s \in Slots : i \notin Written(s)
  /\ issue' = [issue EXCEPT ![i] = Gone]
  /\ link' = [link EXCEPT ![i] = Gone]
  /\ board' = [board EXCEPT !["issue_rankings"] = {r \in @ : r.item # i}]
  /\ UNCHANGED <<plan, run, ranked, jobRuns, faults>>

\* The desk, or issue_status_reconcile.
SetStatus(i) ==
  /\ "issue_rankings" \in plan /\ issue[i] # Gone
  /\ issue' = [issue EXCEPT ![i] = IF @ = "active" THEN "closed" ELSE "active"]
  /\ UNCHANGED <<plan, link, board, run, ranked, jobRuns, faults>>

-----------------------------------------------------------------------------
Proceed(s) ==
  \/ Cool(s) \/ Cooled(s) \/ Closed(s)
  \/ Match(s) \/ Persisted(s) \/ Report(s)
  \/ Read(s) \/ Save(s) \/ SaveFails(s)
  \/ \E i \in Issues : UpdateRow(s, i) \/ Refresh(s, i) \/ RefreshFails(s, i) \/ Wait(s, i)
  \/ Victim(s) \/ Record(s)

Next ==
  \/ Day
  \/ \E s \in Slots : Proceed(s) \/ Crash(s) \/ CommitFails(s) \/ \E j \in JobNames : Start(s, j)
  \/ \E i \in Issues : DeleteIssue(i) \/ SetStatus(i)

\* Processes make progress and days pass; cron starts the clean-up again and again,
\* which other runs (the bound Slots is not in the code) cannot prevent for ever.
Fairness ==
  /\ WF_vars(Day)
  /\ \A s \in Slots : WF_vars(Proceed(s))
  /\ SF_vars(\E s \in Slots : Start(s, "keyword_state_cleanup"))

Spec == Init /\ [][Next]_vars /\ Fairness

-----------------------------------------------------------------------------
(* Properties *)

Rows == [at : 1..MaxRankings, item : Issues \cup Words, rank : 1..TopN, score : Scores, age : Ages]

\* Every variable keeps its type; a snapshot is of an issue that exists.
JobsTypeOK ==
  /\ plan \in Plans
  /\ issue \in [Issues -> {"active", "closed", Gone}]
  /\ link \in [Issues -> Links \cup {Gone}]
  /\ \A b \in Boards : board[b] \subseteq Rows
  /\ \A r \in board["issue_rankings"] : issue[r.item] # Gone
  /\ \A s \in Slots : /\ run[s].job \in JobNames \cup {"none"}
                      /\ run[s].age \in 0..MaxLag /\ run[s].at \in 0..MaxRankings
                      /\ run[s].todo \subseteq Issues /\ run[s].wants \in run[s].todo \cup {Gone}
                      /\ run[s].writes \in [Issues -> Links \cup {Gone}]
  /\ ranked \in 0..MaxRankings /\ jobRuns \subseteq 1..ranked /\ faults \in 0..MaxFaults

\* A row of job_runs that says "success" is of a run whose changes were committed, and
\* no row is locked by two runs (runner.py:18-44). news_collect commits by itself, and
\* says success whatever became of it (orchestrator.py:371-372).
SuccessIsCommitted ==
  \A s \in Slots :
    /\ run[s].status = "success" /\ run[s].job # "news_collect" => run[s].applied
    /\ \A r \in Slots \ {s} : Written(s) \cap Written(r) = {}

\* A keyword is cooled down or closed only if it was not seen for that many days when
\* this is committed, although news_collect refreshes the same rows meanwhile
\* (pipeline_jobs.py:118-137).
Becomes(i, status) ==
  link[i] # Gone /\ link'[i] # Gone /\ link[i].status # status /\ link'[i].status = status
NoFreshCooled ==
  [][\A i \in Issues : /\ Becomes(i, "COOLDOWN") => link[i].age > CoolAfter
                       /\ Becomes(i, "CLOSED") => link[i].age > CloseAfter]_vars

\* The board that readers see never goes back to an earlier ranking, even if a run
\* that began first ends last, unless the issues of the last ranking were deleted, or
\* its words expired (sql/feed.py:74-84, sql/search.py:139-149).
BoardGoesForward ==
  [][\A b \in Boards : \A t \in ShownAt(b), u \in ShownAt(b)' : u >= t \/ issue' # issue]_vars

\* Rankings expire when others are made: no two that are kept are further apart than
\* Retention, although runs take their time and overlap (feed_jobs.py:116-120, search_jobs.py:41).
BoardsExpire ==
  \A b \in Boards : \A r, q \in board[b] : r.age <= q.age + Retention

\* A run leaves its row in job_runs by a second transaction (runner.py:18-44): whatever
\* fails in the first one, no more runs end without a row than processes were killed.
Running(n) == \E s \in Slots : run[s].job \in Boards /\ run[s].at = n
Unrecorded == {n \in 1..ranked : n \notin jobRuns /\ ~Running(n)}
RunsAreRecorded == Cardinality(Unrecorded) <= faults

\* api/v1/home.py:78 says that the ranking of the home page is that of the day (its period
\* is "daily" unless asked otherwise), but older rankings show through although there is
\* one of the day (sql/home.py:21-23).
OfTheDay(r) == r.age <= 1
HomeIsOfTheDay ==
  (\E r \in board["search_rankings"] : OfTheDay(r)) => \A r \in HomeShows : OfTheDay(r)

\* A keyword that no article matches any more is closed in the end, whatever deadlocks
\* and crashes the clean-up meets (pipeline_jobs.py:106-142).
UnseenIsClosed ==
  "keyword_state_cleanup" \in plan =>
    \A i \in Issues : \/ []<>(link[i] # Gone /\ link[i].age <= MaxLag)
                      \/ <>(link[i] = Gone \/ link[i].status = "CLOSED")
=============================================================================
