---------------------------- MODULE NewsPipeline ----------------------------
(***************************************************************************)
(* One run of run_cycle (src/src/utils/pipeline/orchestrator.py) per       *)
(* process: match headlines, classify them in one database transaction,    *)
(* persist the results, commit, drop the duplicates, summarise the rest.   *)
(* Several processes may run a cycle at the same time (the cron job and    *)
(* the command line), on one PostgreSQL database in READ COMMITTED: a      *)
(* transaction reads committed rows and its own, and an INSERT whose       *)
(* unique key is held by another open transaction waits for it.            *)
(*                                                                         *)
(* A row a cycle inserts gets a fresh uuid, so a row is named by the cycle *)
(* that inserted it and the item it was made from: every table is a        *)
(* function from cycles to the rows that cycle committed.                  *)
(***************************************************************************)
EXTENDS Integers, FiniteSets

CONSTANTS
  Cycles,      \* processes, each of which runs one cycle
  Articles,    \* headline items found on the channels' front pages
  CanonUrl,    \* item -> its normalised URL (raw_articles.canonical_url)
  TitleHash,   \* item -> its title hash; equal semantic hashes imply equal titles
  Faulty,      \* items whose classification may raise (bad URL, value too long)
  Issues,      \* issues that exist at the start
  NoIssue,     \* NULL in an issue_id column
  Scores,      \* the score bands a candidate may reach
  Users,       \* users who track issues or subscribe to keywords
  Tracks,      \* user_tracked_issues: pairs <<user, issue>>
  Rules,       \* user -> min_importance bands of the active rules (0 is NULL)
  Subs,        \* item -> users with an active subscription to one of its keywords
  GateNum,     \* dup-ratio threshold GateNum / GateDen (0.8 in the code)
  GateDen,
  MaxOverlap   \* how many cycles may be running at the same time

\* Score bands: 0 is below classifier_score_new, 1 reaches it, 2 reaches
\* classifier_score_major, 3 reaches feed_breaking_score_threshold.
Bands == 0..3

ASSUME CyclesAssumption     == IsFiniteSet(Cycles)
ASSUME CanonUrlAssumption   == CanonUrl = [a \in Articles |-> CanonUrl[a]]
ASSUME TitleHashAssumption  == TitleHash = [a \in Articles |-> TitleHash[a]]
ASSUME FaultyAssumption     == Faulty \subseteq Articles
ASSUME NoIssueAssumption    == NoIssue \notin Issues
ASSUME ScoresAssumption     == Scores \subseteq Bands
ASSUME TracksAssumption     == Tracks \subseteq Users \X Issues
ASSUME RulesAssumption      == Rules \in [Users -> SUBSET Bands]
ASSUME SubsAssumption       == Subs \in [Articles -> SUBSET Users]
ASSUME GateAssumption       == GateNum \in Nat /\ GateDen \in Nat \ {0}
ASSUME MaxOverlapAssumption == MaxOverlap \in Nat \ {0}

VARIABLES
  pc,            \* cycle -> its stage
  articles,      \* cycle -> the local variable of run_cycle: matched, then filtered
  todo,          \* cycle -> items classify_batch has not reached
  cur,           \* cycle -> the items (at most one) being classified
  results,       \* cycle -> the results classify_batch has collected
  txRows,        \* cycle -> items whose row its open transaction inserted
  classified,    \* cycle -> classify_stats was returned
  rawArticles,   \* committed rows of raw_articles
  eventUpdates,  \* committed rows of event_updates
  feedItems,     \* committed rows of live_feed_items
  alerts,        \* committed rows of notifications
  summaries,     \* items in the committed summary batches
  issues         \* issues that exist

tables == <<rawArticles, eventUpdates, feedItems, alerts>>
vars   == <<pc, articles, todo, cur, results, txRows, classified,
            rawArticles, eventUpdates, feedItems, alerts, summaries, issues>>

Classifying == {"check", "insert", "match"}
InTx        == Classifying \cup {"persist", "commit"}
Running     == InTx \cup {"filter", "summarize", "save"}
Terminal    == {"ok", "fail", "dead"}
Stage       == {"idle"} \cup Running \cup Terminal

UpdateType == {"NEW", "MINOR_UPDATE", "MAJOR_UPDATE", "DUP"}
FeedType   == {"all", "major", "breaking"}
OptIssue   == Issues \cup {NoIssue}

Result == [art : Articles, type : UpdateType, issue : OptIssue, score : Bands]
Update == [art : Articles, type : UpdateType, issue : OptIssue]
Item   == [art : Articles, feed : FeedType, issue : OptIssue]
Alert  == [art : Articles, user : Users, kind : {"major_update", "keyword_match"}]

\* Every variable keeps its type.
TypeOK ==
  /\ pc \in [Cycles -> Stage]
  /\ articles \in [Cycles -> SUBSET Articles]
  /\ todo \in [Cycles -> SUBSET Articles]
  /\ cur \in [Cycles -> SUBSET Articles]
  /\ results \in [Cycles -> SUBSET Result]
  /\ txRows \in [Cycles -> SUBSET Articles]
  /\ classified \in [Cycles -> BOOLEAN]
  /\ rawArticles \in [Cycles -> SUBSET Articles]
  /\ eventUpdates \in [Cycles -> SUBSET Update]
  /\ feedItems \in [Cycles -> SUBSET Item]
  /\ alerts \in [Cycles -> SUBSET Alert]
  /\ summaries \in [Cycles -> SUBSET Articles]
  /\ issues \in SUBSET Issues

-----------------------------------------------------------------------------
(* Reading the database *)

\* URLs of the committed rows.
CommittedUrls == {CanonUrl[a] : a \in UNION {rawArticles[d] : d \in Cycles}}

\* Mutant of Visible: rows of other open transactions are read too.
DirtyRead(c) == UNION {txRows[d] \cup rawArticles[d] : d \in Cycles}

\* What cycle c reads: the committed rows and those of its own transaction,
\* which classify_article flushes.
Visible(c) == txRows[c] \cup UNION {rawArticles[d] : d \in Cycles}

\* Mutant of SameStory: the near-duplicate check is skipped.
SameUrl(a, b) == CanonUrl[a] = CanonUrl[b]

\* What check_exact_duplicate and check_near_duplicate look for.
SameStory(a, b) == CanonUrl[a] = CanonUrl[b] \/ TitleHash[a] = TitleHash[b]

Known(c, a) == \E b \in Visible(c) : SameStory(b, a)

\* Cycles whose open transaction holds the unique key c is about to insert.
WaitsFor(c) ==
  {d \in Cycles \ {c} : \E b \in txRows[d], a \in cur[c] : CanonUrl[b] = CanonUrl[a]}

\* c is on a cycle of the waits-for graph (each waiter waits for one holder):
\* PostgreSQL's deadlock detector may pick it as the victim.
InDeadlock(c) ==
  \E S \in SUBSET {d \in Cycles : pc[d] = "insert"} :
    /\ c \in S
    /\ \A d \in S : (WaitsFor(d) \cap S # {}) /\ (\E e \in S : d \in WaitsFor(e))

-----------------------------------------------------------------------------
(* What the classifier and the feed builder compute *)

\* Mutant of TypeOf: the value written is not one of the enumeration.
TypeMisnamed(score, reasons) == IF score < 1 THEN "NEW" ELSE "UPDATE"

\* The thresholds of classify_article, best candidate's score against them.
TypeOf(score, reasons) ==
  CASE score < 1             -> "NEW"
    [] score >= 2 /\ reasons -> "MAJOR_UPDATE"
    [] OTHER                 -> "MINOR_UPDATE"

\* The result of an item that is not a duplicate, for a best candidate i.
\* NEW results carry no issue.
Classification(a, i, score, reasons) ==
  LET type == TypeOf(score, reasons)
  IN  [art   |-> a, type |-> type, score |-> score,
       issue |-> IF type = "NEW" THEN NoIssue ELSE i]

DupResult(a) == [art |-> a, type |-> "DUP", score |-> 0, issue |-> NoIssue]

NonDup(c) == {r \in results[c] : r.type # "DUP"}

\* Mutant of FeedEntries: breaking news skip the major feed.
FeedEntriesExclusive(r) ==
  CASE r.type = "DUP"                           -> {}
    [] r.type = "MAJOR_UPDATE" /\ r.score >= 3 -> {"all", "breaking"}
    [] r.type = "MAJOR_UPDATE" /\ r.score < 3  -> {"all", "major"}
    [] OTHER                                    -> {"all"}

\* _determine_feed_entries.
FeedEntries(r) ==
  CASE r.type = "DUP"          -> {}
    [] r.type = "MAJOR_UPDATE" -> {"all", "major"}
                                    \cup (IF r.score >= 3 THEN {"breaking"} ELSE {})
    [] OTHER                   -> {"all"}

\* A tracker without active rules is always told, one with rules when some rule
\* has no minimum or the score reaches it.
ShouldNotify(u, r) ==
  Rules[u] = {} \/ \E m \in Rules[u] : m = 0 \/ r.score >= m

UpdatesOf(c) == {[art |-> r.art, type |-> r.type, issue |-> r.issue] : r \in NonDup(c)}

FeedItemsOf(c) ==
  {x \in Item : \E r \in NonDup(c) :
     x.art = r.art /\ x.issue = r.issue /\ x.feed \in FeedEntries(r)}

\* _create_major_update_notifications.
MajorAlertsOf(c) ==
  {x \in Alert : \E r \in NonDup(c) :
     /\ x.art = r.art /\ x.kind = "major_update"
     /\ r.type = "MAJOR_UPDATE" /\ <<x.user, r.issue>> \in Tracks
     /\ ShouldNotify(x.user, r)}

\* Mutant of MatchAlertsOf: duplicates are matched too.
MatchAllAlerts(c) ==
  {x \in Alert : \E r \in results[c] :
     x.art = r.art /\ x.kind = "keyword_match" /\ x.user \in Subs[r.art]}

\* _match_keyword_subscriptions.
MatchAlertsOf(c) ==
  {x \in Alert : \E r \in NonDup(c) :
     x.art = r.art /\ x.kind = "keyword_match" /\ x.user \in Subs[r.art]}

\* check_dup_ratio: with no result at all the gate stays open.
DupGate(c) ==
  LET total == Cardinality(results[c])
      dup   == Cardinality({r \in results[c] : r.type = "DUP"})
  IN  total > 0 /\ dup * GateDen > GateNum * total

-----------------------------------------------------------------------------
(* One cycle *)

Goto(c, stage) == pc' = [pc EXCEPT ![c] = stage]

\* The session's transaction ends without a commit: its rows are gone.
Rollback(c) == txRows' = [txRows EXCEPT ![c] = {}]

Init ==
  /\ pc = [c \in Cycles |-> "idle"]
  /\ articles = [c \in Cycles |-> {}]
  /\ todo = [c \in Cycles |-> {}]
  /\ cur = [c \in Cycles |-> {}]
  /\ results = [c \in Cycles |-> {}]
  /\ txRows = [c \in Cycles |-> {}]
  /\ classified = [c \in Cycles |-> FALSE]
  /\ rawArticles = [c \in Cycles |-> {}]
  /\ eventUpdates = [c \in Cycles |-> {}]
  /\ feedItems = [c \in Cycles |-> {}]
  /\ alerts = [c \in Cycles |-> {}]
  /\ summaries = [c \in Cycles |-> {}]
  /\ issues = Issues

\* Keywords collected, headlines matched and fetched: a non-empty batch reaches
\* classify_batch.
Start(c) ==
  /\ pc[c] = "idle"
  /\ Cardinality({d \in Cycles : pc[d] \in Running}) < MaxOverlap
  /\ \E batch \in SUBSET Articles \ {{}} :
       /\ articles' = [articles EXCEPT ![c] = batch]
       /\ todo' = [todo EXCEPT ![c] = batch]
  /\ Goto(c, "check")
  /\ UNCHANGED <<cur, results, txRows, classified, tables, summaries, issues>>

\* No channel answered, no keyword, no headline or no match: the cycle returns
\* "fail" before it touches these tables.
FailEarly(c) ==
  /\ pc[c] = "idle"
  /\ Goto(c, "fail")
  /\ UNCHANGED <<articles, todo, cur, results, txRows, classified, tables, summaries,
                 issues>>

\* classify_article, steps 1-3: savepoint, then the two duplicate lookups.
CheckDuplicate(c) ==
  /\ pc[c] = "check"
  /\ \E a \in todo[c] :
       IF Known(c, a)
         THEN /\ results' = [results EXCEPT ![c] = @ \cup {DupResult(a)}]
              /\ todo' = [todo EXCEPT ![c] = @ \ {a}]
              /\ UNCHANGED <<pc, cur>>
         ELSE /\ cur' = [cur EXCEPT ![c] = {a}]
              /\ Goto(c, "insert")
              /\ UNCHANGED <<results, todo>>
  /\ UNCHANGED <<articles, txRows, classified, tables, summaries, issues>>

\* Mutant of UniqueKeyFree: the index on canonical_url is not unique.
NoUniqueIndex(c) == TRUE

\* Step 4: the row is flushed. The INSERT waits while another transaction holds
\* the URL and fails (ArticleFails) when the URL has been committed meanwhile.
UniqueKeyFree(c) ==
  /\ WaitsFor(c) = {}
  /\ \A a \in cur[c] : CanonUrl[a] \notin CommittedUrls

InsertRow(c) ==
  /\ pc[c] = "insert"
  /\ UniqueKeyFree(c)
  /\ txRows' = [txRows EXCEPT ![c] = @ \cup cur[c]]
  /\ Goto(c, "match")
  /\ UNCHANGED <<articles, todo, cur, results, classified, tables, summaries, issues>>

\* Steps 5-7: find_candidate_issues, the best score, its thresholds. NEW is also
\* the answer without candidates. The savepoint is released.
MatchIssue(c) ==
  /\ pc[c] = "match"
  /\ \E a \in cur[c], i \in issues \cup {NoIssue}, score \in Scores, reasons \in BOOLEAN :
       /\ i = NoIssue => score = 0
       /\ results' = [results EXCEPT ![c] = @ \cup {Classification(a, i, score, reasons)}]
       /\ todo' = [todo EXCEPT ![c] = @ \ {a}]
  /\ cur' = [cur EXCEPT ![c] = {}]
  /\ Goto(c, "check")
  /\ UNCHANGED <<articles, txRows, classified, tables, summaries, issues>>

\* Mutant of Remaining: the failed item is tried again, for ever.
RetryFailed(c, a) == todo[c]

\* The loop of classify_batch goes on to the next item.
Remaining(c, a) == todo[c] \ {a}

\* Why classifying a may raise: the item itself, the unique key, a deadlock.
MayRaise(c, a) ==
  \/ a \in Faulty
  \/ pc[c] = "insert" /\ CanonUrl[a] \in CommittedUrls
  \/ pc[c] = "insert" /\ InDeadlock(c)

\* The except clause of classify_batch. db.rollback() ends the whole transaction,
\* not the savepoint alone (Session.rollback() of SQLAlchemy 2.0); the results
\* collected so far stay in the list.
ArticleFails(c) ==
  /\ pc[c] \in Classifying
  /\ \E a \in (IF pc[c] = "check" THEN todo[c] ELSE cur[c]) :
       /\ MayRaise(c, a)
       /\ todo' = [todo EXCEPT ![c] = Remaining(c, a)]
  /\ cur' = [cur EXCEPT ![c] = {}]
  /\ Rollback(c)
  /\ Goto(c, "check")
  /\ UNCHANGED <<articles, results, classified, tables, summaries, issues>>

EndBatch(c) ==
  /\ pc[c] = "check"
  /\ todo[c] = {}
  /\ Goto(c, "persist")
  /\ UNCHANGED <<articles, todo, cur, results, txRows, classified, tables, summaries, issues>>

\* Mutant of ForeignKeysHold: article_id is not checked.
IssueKeysHold(c) == \A r \in NonDup(c) : r.issue \in issues \cup {NoIssue}

\* The foreign keys of event_updates, checked when persist_results flushes.
ForeignKeysHold(c) ==
  \A r \in NonDup(c) : r.art \in txRows[c] /\ r.issue \in issues \cup {NoIssue}

\* persist_results: updates, feed items and notifications are flushed into the
\* open transaction; nobody else sees them before the commit. The lookup of an
\* existing update never hits: the article ids of a batch are fresh.
Persist(c) ==
  /\ pc[c] = "persist"
  /\ ForeignKeysHold(c)
  /\ Goto(c, "commit")
  /\ UNCHANGED <<articles, todo, cur, results, txRows, classified, tables, summaries,
                 issues>>

\* A flush, the commit itself (nothing committed) or a lost foreign key raises:
\* _run_classification closes the session, and run_cycle goes on with all the
\* matched articles.
ClassificationFails(c) ==
  /\ pc[c] \in {"persist", "commit"}
  /\ Rollback(c)
  /\ Goto(c, "summarize")
  /\ UNCHANGED <<articles, todo, cur, results, classified, tables, summaries, issues>>

Commit(c) ==
  /\ pc[c] = "commit"
  /\ rawArticles' = [rawArticles EXCEPT ![c] = txRows[c]]
  /\ eventUpdates' = [eventUpdates EXCEPT ![c] = UpdatesOf(c)]
  /\ feedItems' = [feedItems EXCEPT ![c] = FeedItemsOf(c)]
  /\ alerts' = [alerts EXCEPT ![c] = MajorAlertsOf(c) \cup MatchAlertsOf(c)]
  /\ txRows' = [txRows EXCEPT ![c] = {}]
  /\ Goto(c, "filter")
  /\ UNCHANGED <<articles, todo, cur, results, classified, summaries, issues>>

\* Mutant of Kept: items are kept when their URL is stored, whoever stored it.
KeptIfStored(c) == {a \in articles[c] : CanonUrl[a] \in CommittedUrls}

\* The items kept for the summary: those whose URL is the URL of a row this
\* batch inserted.
Kept(c) ==
  LET ids == {r.art : r \in NonDup(c)} \cap rawArticles[c]
  IN  {a \in articles[c] : \E b \in ids : CanonUrl[b] = CanonUrl[a]}

\* After the commit: the duplicates are dropped from the list; the gate, then an
\* empty list, end the cycle with "ok".
Filter(c) ==
  /\ pc[c] = "filter"
  /\ articles' = [articles EXCEPT ![c] = Kept(c)]
  /\ classified' = [classified EXCEPT ![c] = TRUE]
  /\ Goto(c, IF DupGate(c) \/ Kept(c) = {} THEN "ok" ELSE "summarize")
  /\ UNCHANGED <<todo, cur, results, txRows, tables, summaries, issues>>

\* The query after the commit raises: the batch is stored, and yet the cycle goes
\* on with all the matched articles.
FilterFails(c) ==
  /\ pc[c] = "filter"
  /\ Goto(c, "summarize")
  /\ UNCHANGED <<articles, todo, cur, results, txRows, classified, tables, summaries,
                 issues>>

\* run_summarize: one LLM request for all the articles of the file. An error of
\* the request is swallowed and leaves empty texts.
Summarize(c) ==
  /\ pc[c] = "summarize"
  /\ Goto(c, "save")
  /\ UNCHANGED <<articles, todo, cur, results, txRows, classified, tables, summaries,
                 issues>>

SummarizeFails(c) ==
  /\ pc[c] = "summarize"
  /\ Goto(c, "fail")
  /\ UNCHANGED <<articles, todo, cur, results, txRows, classified, tables, summaries,
                 issues>>

\* save_to_db of the summarizer, in a transaction of its own.
SaveSummary(c) ==
  /\ pc[c] = "save"
  /\ summaries' = [summaries EXCEPT ![c] = articles[c]]
  /\ Goto(c, "ok")
  /\ UNCHANGED <<articles, todo, cur, results, txRows, classified, tables, issues>>

\* A failure to save is printed and ignored: the cycle still reports "ok".
SaveFails(c) ==
  /\ pc[c] = "save"
  /\ Goto(c, "ok")
  /\ UNCHANGED <<articles, todo, cur, results, txRows, classified, tables, summaries,
                 issues>>

\* The process dies; the server rolls its open transaction back.
Crash(c) ==
  /\ pc[c] \in Running
  /\ Rollback(c)
  /\ Goto(c, "dead")
  /\ UNCHANGED <<articles, todo, cur, results, classified, tables, summaries, issues>>

-----------------------------------------------------------------------------
(* The rest of the service *)

\* An admin deletes issue i. The references in updates and feed items are set to
\* NULL; a transaction that has flushed a reference holds a lock on the issue row
\* until it ends.
Detach(rows, i) == {[r EXCEPT !.issue = IF @ = i THEN NoIssue ELSE @] : r \in rows}

DeleteIssue(i) ==
  /\ i \in issues
  /\ \A c \in Cycles : pc[c] = "commit" => \A r \in NonDup(c) : r.issue # i
  /\ issues' = issues \ {i}
  /\ eventUpdates' = [c \in Cycles |-> Detach(eventUpdates[c], i)]
  /\ feedItems' = [c \in Cycles |-> Detach(feedItems[c], i)]
  /\ UNCHANGED <<pc, articles, todo, cur, results, txRows, classified, rawArticles,
                 alerts, summaries>>

\* Every cycle has ended.
Finished ==
  /\ \A c \in Cycles : pc[c] \in Terminal
  /\ UNCHANGED vars

\* What the process of cycle c does, short of dying.
Step(c) ==
  \/ CheckDuplicate(c) \/ InsertRow(c) \/ MatchIssue(c) \/ ArticleFails(c)
  \/ EndBatch(c) \/ Persist(c) \/ ClassificationFails(c) \/ Commit(c)
  \/ Filter(c) \/ FilterFails(c)
  \/ Summarize(c) \/ SummarizeFails(c) \/ SaveSummary(c) \/ SaveFails(c)

Next ==
  \/ \E c \in Cycles : Start(c) \/ FailEarly(c) \/ Step(c) \/ Crash(c)
  \/ \E i \in Issues : DeleteIssue(i)
  \/ Finished

Spec == Init /\ [][Next]_vars

\* A started process keeps running: the operating system schedules it, HTTP and
\* LLM clients have timeouts, the deadlock detector breaks lock cycles. Nothing
\* makes a cycle start, and nothing makes it survive.
FairSpec == Spec /\ \A c \in Cycles : WF_vars(Step(c))

-----------------------------------------------------------------------------
(* Properties *)

\* No canonical URL is stored twice, by one cycle or by two that overlap.
UrlUnique ==
  \A c, d \in Cycles : \A a \in rawArticles[c], b \in rawArticles[d] :
    CanonUrl[a] = CanonUrl[b] => c = d /\ a = b

\* A batch is stored whole or not at all: the committed rows of a cycle are
\* exactly the items its results call not duplicated, or there are none.
IngestAtomic ==
  \A c \in Cycles : rawArticles[c] \in {{}, {r.art : r \in NonDup(c)}}

\* Every stored article has exactly one update and stands in the "all" feed;
\* "major" and "breaking" hold major updates only; no update or feed item is
\* without its article, and an item shows the issue of its update.
FeedConsistent ==
  \A c \in Cycles :
    /\ \A a \in rawArticles[c] :
         /\ \E u \in eventUpdates[c] : u.art = a
         /\ \E f \in feedItems[c] : f.art = a /\ f.feed = "all"
    /\ \A u, v \in eventUpdates[c] : u.art = v.art => u = v
    /\ \A u \in eventUpdates[c] : u.art \in rawArticles[c] /\ u.type # "DUP"
    /\ \A f \in feedItems[c] :
         \E u \in eventUpdates[c] :
           /\ u.art = f.art /\ u.issue = f.issue
           /\ f.feed # "all" => u.type = "MAJOR_UPDATE"
           /\ f.feed = "breaking" =>
                \E g \in feedItems[c] : g.art = f.art /\ g.feed = "major"

\* In a batch that was stored, an item was called a duplicate only of an article
\* that is stored: no story is suppressed in favour of one that was rolled back.
DupHasOriginal ==
  \A c \in Cycles : pc[c] = "filter" \/ classified[c] =>
    \A r \in results[c] : r.type = "DUP" =>
      \E d \in Cycles : \E b \in rawArticles[d] : SameStory(b, r.art)

\* When cycles do not overlap, no two stored articles have the same title.
SerialNoNearDup ==
  MaxOverlap = 1 =>
    \A c, d \in Cycles : \A a \in rawArticles[c], b \in rawArticles[d] :
      TitleHash[a] = TitleHash[b] => c = d /\ a = b

\* A cycle whose classification was returned summarises only stories it stored
\* itself: two such cycles never summarise the same URL. A cycle whose classification
\* failed goes on with everything it matched (orchestrator.py:371-372), and is left out.
SummarisedOnce ==
  \A c \in Cycles : classified[c] =>
    \A a \in summaries[c] :
      /\ \E b \in rawArticles[c] : CanonUrl[b] = CanonUrl[a]
      /\ \A d \in Cycles \ {c} : classified[d] =>
           \A b \in summaries[d] : CanonUrl[b] # CanonUrl[a]

\* A user is told of a story at most once for each reason, and only of a story
\* that is stored: a batch that rolls back sends nothing.
AlertsOnce ==
  \A c, d \in Cycles : \A x \in alerts[c], y \in alerts[d] :
    /\ x.art \in rawArticles[c]
    /\ CanonUrl[x.art] = CanonUrl[y.art] /\ x.user = y.user /\ x.kind = y.kind
         => c = d /\ x = y

\* Why the above hold: what is true of an open transaction while it runs. Rows
\* exist only inside it; keys it holds are held by no other transaction and by no
\* committed row, not even the key of the item it is about to insert in its own.
KeysHeld ==
  /\ \A c \in Cycles : pc[c] \notin InTx => txRows[c] = {}
  /\ \A c \in Cycles : pc[c] \in InTx \cup {"idle"} => rawArticles[c] = {}
  /\ \A c \in Cycles : \A a, b \in cur[c] : a = b
  /\ \A c \in Cycles : pc[c] = "insert" =>
       \A a \in cur[c], b \in txRows[c] : CanonUrl[a] # CanonUrl[b]
  /\ \A c, d \in Cycles : \A a \in txRows[c], b \in txRows[d] :
       CanonUrl[a] = CanonUrl[b] => c = d /\ a = b
  /\ \A c, d \in Cycles : \A a \in txRows[c], b \in rawArticles[d] :
       CanonUrl[a] # CanonUrl[b]

\* Every row of a transaction has its result, save the one being matched; once the
\* foreign keys have been checked every result has its row. An item is in at most
\* one of todo and results, a duplicate has its original in the batch or stored.
Tracked(c) ==
  /\ pc[c] = "idle" => results[c] = {}
  /\ pc[c] \in {"idle", "check"} => cur[c] = {}
  /\ cur[c] \subseteq todo[c]
  /\ \A r \in results[c] : r.art \notin todo[c]
  /\ \A r, s \in results[c] : r.art = s.art => r = s
  /\ pc[c] \in InTx => \A a \in txRows[c] :
       (\E r \in NonDup(c) : r.art = a) \/ (pc[c] = "match" /\ a \in cur[c])
  /\ pc[c] = "commit" => \A r \in NonDup(c) : r.art \in txRows[c]
  /\ pc[c] \in InTx => \A r \in results[c] : r.type = "DUP" =>
       \/ \E x \in NonDup(c) : SameStory(x.art, r.art)
       \/ \E d \in Cycles : \E b \in rawArticles[d] : SameStory(b, r.art)
  /\ classified[c] => pc[c] \in {"summarize", "save"} \cup Terminal

ResultsTracked == \A c \in Cycles : Tracked(c)

\* The cycles implement ArticleStore: a batch appears whole, in one step, with its
\* feed items and its notifications, and only with URLs that are new.
Store == INSTANCE ArticleStore WITH
  stored <- rawArticles,
  listed <- [c \in Cycles |-> {f.art : f \in {g \in feedItems[c] : g.feed = "all"}}],
  told   <- [c \in Cycles |-> {x.art : x \in alerts[c]}]

ImplementsStore == Store!Spec

\* Every started cycle ends, although transactions wait for each other's keys.
CycleEnds == \A c \in Cycles : pc[c] \in Running ~> pc[c] \in Terminal

\* update_classifier.py:604: "one article's failure does not break the whole
\* transaction": the row of every result that is not a duplicate is there until
\* the batch is persisted.
OtherArticlesSurvive ==
  \A c \in Cycles : pc[c] \in Classifying \cup {"persist"} =>
    \A r \in NonDup(c) : r.art \in txRows[c]
=============================================================================
