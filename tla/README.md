# Trend Korea API: verification project

TLA+ models of the back end in `src/src`: what it does to its database when requests, cron
jobs and pipeline runs overlap, fail half-way or die. TLC checks the models on small
instances; TLAPS proves the theorems of the `_proofs` modules for every instance. Paths
below are relative to `src/src`, but `docs/` and `crontab` are at the root of the repository.

## 1. The system

A FastAPI service and a set of cron jobs share one PostgreSQL database through synchronous
SQLAlchemy 2.0. Three facts of that stack shape every model:

- **READ COMMITTED.** A statement sees what was committed before it started, and what its
  own transaction flushed. Nothing locks a row between a SELECT and the UPDATE computed from
  it. An INSERT waits for an open transaction that holds its unique key, and fails once that
  key is committed; a deadlock of such waits is broken by aborting one of the waiters.
- **Sessions with `autoflush=False`** (`db/session.py:11`). A session writes at `flush()` or
  `commit()`. The UPDATE it emits names the columns whose value changed since the row was
  loaded, by primary key; a row that is gone is a `StaleDataError`. A DELETE that finds no
  row only warns.
- **Independent processes.** supercronic (`crontab`) starts every job in a process of its
  own; APScheduler (`worker_main.py`) runs most of them in threads. Neither overlaps a job
  with itself, but nothing else keeps two runs apart: the command line starts the same
  pipeline by hand, a worker may stand beside cron, a service may have several containers.
  API requests run in threads. Whatever is not in the database is lost with a process.

### Components

| Component | State | Operations | Interacts with |
| --- | --- | --- | --- |
| News pipeline (`utils/pipeline`, `utils/news_summarizer`) | raw_articles, event_updates, live_feed_items, notifications, keyword_matches, summary batches | `run_cycle`: crawl, match, classify, persist, commit, filter, summarise, save | issues, tracking, alert rules, subscriptions (read), keyword states (refresh) |
| Community (`sql/community.py`, `crud/community.py`) | posts, comments, votes, likes, three counters | create, edit and delete posts and comments, vote, like, unlike | recount job |
| Issues and triggers (`sql/issues.py`, `api/v1/issues.py`, `api/v1/triggers.py`) | issues (status, latest_trigger_at), triggers | admin create, update, delete | reconcile job, pipeline (SET NULL) |
| Issue keyword states (`models/issues.py`) | ACTIVE, COOLDOWN, CLOSED, last_seen_at | refresh (pipeline), cleanup (job) | candidate search of the classifier |
| Tracking and saved events | user_tracked_issues, tracker_count, user_saved_events | track, untrack, save, unsave | rankings, notifications |
| Authentication (`crud/auth.py`, `sql/auth.py`) | users, refresh_tokens | register, login, refresh, logout, withdraw | cleanup job |
| Jobs (`scheduler/`) | job_runs, search_rankings, issue_rank_snapshots | `run_job` and eight handlers | everything |
| Events, tags and sources | events (source_count), sources (owner), label rows | create, update, delete, attach | issues, triggers |
| Notifications, subscriptions, alert rules | rows of a user | read, mark, subscribe, unsubscribe | pipeline |
| Keyword crawler (`utils/keyword_crawler`), first half of `run_cycle` | crawled_keywords, keyword_intersections, the index | fetch channels, extract and combine keywords, select, match headlines | pipeline (its batch) |
| Summariser (`utils/news_summarizer`) | none that is shared | group articles, ask the language model, give its summaries to keywords | pipeline (its batch) |
| Crawlers of other sites, LLM client | none that is shared | fetch | pipeline (inputs) |
| Read API (feed, home, search, tags) | none | queries, cursors | all tables |

### What is hard, and what correctness means

- *Pipeline.* Overlapping cycles insert the same URL or wait for each other; one item's
  failure rolls the whole transaction back while the results collected so far stay in a
  list; errors of later stages are swallowed; a process dies anywhere. Correct means: one
  row per URL; a batch is stored whole or not at all; a duplicate has a stored original;
  nobody is told, and nothing summarised, twice; a cycle always ends.
- *Community.* Counters are computed from loaded rows; replies go with their parents; the
  recount job is itself a reader with stale data. Correct means: one vote each, no orphans,
  counters that are exact unless requests raced on them, and a comment count that heals.
- *Issues.* latest_trigger_at is derived from the triggers by three operations, and drives a
  job that changes statuses from rows it loaded earlier. Correct means: no trigger without
  its issue, a deletion that recomputes the date, statuses that settle.
- *Keyword states and jobs.* The clean-up is two UPDATEs over rows the pipeline refreshes in
  another order; a run and its job_runs row are committed by two sessions; rankings are read
  and written by runs that may overlap. Correct means: a record of success only for what was
  committed; a keyword is not cooled by news of it that was committed before; what readers
  see never goes back to an older ranking; an unseen keyword is closed in the end.
- *Sessions.* A token is checked in one statement and revoked in a later one. Correct means:
  a token buys one answer (but for the race the code leaves open), a logout ends what it
  found, and requests of one account keep one another's columns.
- *Labels, trackers, sources.* Association rows are deleted and inserted again; counters are
  computed from loaded rows. Correct means: nothing refers to a row that is gone, counters
  and labels are exact unless requests raced on them.
- *Alerts and summaries.* Trackers and rules are read by two statements while users change
  both; a language model answers as it likes. Correct means: whoever tracked all along, with
  rules that let the update pass all along, is told, and nobody whose rules never did; no
  summary goes to two keywords, and a keyword that was answered by its name gets that answer.
- *Readers and crawls.* Offset pages over rows that change between two pages; channels that
  answer in any order or not at all, an index that is late. Correct means: whoever
  subscribed in time is told, a reader who follows the cursors is shown what was there, and every match
  has its headline and its keyword.

The list of hazards, each at its line and with the properties that would catch it, is
`hazards` in `PROJECT.json`.

## 2. Modules

| Module | Models |
| --- | --- |
| `ArticleStore` | abstract: a cycle adds its batch of stories in one step, with URLs that are new |
| `NewsPipeline` | `run_cycle` for any number of concurrent processes; implements `ArticleStore` |
| `NewsPipeline_proofs` | its theorems |
| `Community` | one post, its comments, votes, likes, and the recount job |
| `Community_proofs` | its theorems |
| `IssueDesk` | issues, triggers, admin requests, the reconcile job |
| `IssueDesk_proofs` | its theorems |
| `Accounts` | accounts, refresh tokens, the requests on them, the clean-up of tokens |
| `Accounts_proofs` | its theorems |
| `Catalog` | events, issues, tags, sources; labels, tracked issues and saved events |
| `Catalog_proofs` | its theorems |
| `Jobs` | the job runner, the clean-up of keyword states beside `news_collect`, the rankings |
| `Jobs_proofs` | its theorems |
| `Inbox` | subscriptions, matches, notifications, paged reading |
| `Headlines` | operators: from the entries of a page to keywords and shared keywords |
| `Keywords` | the first half of a news cycle, from the channels to the matched headlines |
| `Inbox_proofs` | the theorems of `Inbox` and of `Keywords` |
| `Scoring` | the score of an article for an issue, with the default settings |
| `Scoring_proofs` | its theorems |
| `MCNewsPipeline`, `MCCommunity`, `MCIssueDesk`, `MCAccounts`, `MCCatalog`, `MCJobs`, `MCInbox`, `MCPipelineSteps` | the values of the constants for TLC; `MCInbox` holds `Inbox` and `Keywords`, `MCPipelineSteps` holds `Alerts` and `Summaries` |

How they meet. `Keywords` ends where `NewsPipeline` begins (the batch of matched headlines);
`NewsPipeline` ends where `Inbox` begins (the batch of articles whose notifications are
written); `Alerts` is its step of notifications of major updates, with trackers and rules that
are not constants, and `Summaries` its step `Summarize`, which there is one step. `Scoring` narrows the score bands `NewsPipeline` leaves open. `Jobs` takes from the
pipeline its refresh of the keyword states. Issues appear in `IssueDesk` (dates and statuses),
`Catalog` (labels and trackers) and `Jobs` (keyword states and rankings): these write
different columns and tables, and share only that an issue may be deleted at any time, which
each of them has.

### NewsPipeline

A row a cycle inserts has a fresh uuid, so a row is named by its cycle and the item it was
made from: each table is a function from cycles to what they committed. `pc` follows the
code: `check` is the loop of `classify_batch` with its two duplicate lookups
(`CheckDuplicate`), `insert` the flush of the row (`InsertRow`), `match` the search of the
best issue (`MatchIssue`), `persist` is `persist_results` up to its last flush, `commit`
the commit, `filter` the query after it with the gate and the empty list (`Filter`),
`summarize` and `save` the summarizer. Between `check` and `insert` other processes run:
this is the window the unique index closes. `ArticleFails` is the except clause of
`classify_batch`, with `db.rollback()` as SQLAlchemy executes it: the whole transaction
ends, the results stay. `ClassificationFails` and `FilterFails` are the swallowed errors of
`run_cycle`; `Crash` kills the process at any stage. `DeleteIssue` is an admin at work.

Abstractions: an item is a model value with its canonical URL and title hash given as
constants; a match score is the band it falls into (`Bands`), any band the run allows, for
any issue, with or without a "major reason"; front pages and headline matching are an
arbitrary non-empty batch; keyword matches are the notifications written with them. The
order in which `classify_batch` takes the items is left open. A summary batch is the set of
its items.

### Community

A request is `find` (the first SELECT), `check` (the second) and `apply` (flush and commit,
one step because the flushed rows are locked until the commit that follows). `seen` is what
it loaded; `Computed` what Python makes of it, `Flushed` which columns the UPDATE writes.
`FlushSucceeds` collects what makes a flush fail: a row that is gone, a parent that is gone,
a unique key that is taken. A reply may name a comment of another post (`Elsewhere`), which
`CheckEnds` refuses (`crud/community.py:158`). `Cascade` is ON DELETE CASCADE of `parent_id`. The recount job
has three steps, load, count and save, for the one post of the model. `raced` is a history
variable: the counters that two requests were changing at the same time, on which the code
may lose an update.

### IssueDesk

Requests as above, with one more stage: `delete_trigger` flushes the DELETE, lists what is
left (`List`), and writes the column at its commit, so that others run between the two;
the row it has deleted is locked meanwhile (`Locked`, `Waits`). The job loads every issue
(`JobLoad`) and writes all statuses that change in one transaction, or none when an issue
is gone (`JobSave`). `Tick` lets time pass; an occurred_at is any day up to today. `raced`
holds the issues on which two trigger requests were in flight at once.

### Accounts

A request is `Begin` (its first SELECT, with the refusals before it, those of
`get_current_user_id` included), `Check` (the second SELECT) and `Apply` (flush and commit).
`seen` keeps the columns the account was loaded with and `Flushed` writes those that changed;
`TokensAfter` revokes the tokens the request listed, whatever has become of them since.
`FlushFails` is a unique key that is taken or a row that is gone, `Crash` the end of the
process, `Cleanup` the job of `auth_jobs.py`, `Tick` a day. A refresh is answered with an
access token only, so the client never learns the refresh token it stored for it
(`known = FALSE`, `api/v1/auth.py:131`). Histories: `mine`, the tokens of the account when a
logout or withdrawal came; `answered`, the answers a token bought; `overlapped`, the tokens
two refreshes held at once.

### Catalog

Requests that take several steps are `Begin`, `Clear` (the DELETE of association rows, which
is sent at once and locks what it finds, so that others wait), `Load` and `Apply`;
`CreateTag`, `DeleteTag`, `CreateSource` and `DeleteSource` are single statements. `CountAfter`,
`OwnerAfter` and `LabelsAfter` are what a request leaves behind; foreign keys and primary
keys decide whether it succeeds (`ApplyFails`). Histories: `given`, the labels a topic was
last given; `mixed`, the topics two requests relabelled at the same time; `raced`, the issues
two requests counted on; `disturbed`, the events whose sources came or went without their
source_count.

### Jobs

A run has two sessions, as `run_job` has: it works and commits (`Returned`), then `Record`
writes the job_runs row. `Crash` may fall between the two, and `CommitFails` is a connection
lost before or after the server has committed. The clean-up is its two UPDATEs
(`Cool`, `Closed`) row by row: a statement finds its rows in the versions committed when it
begins (`Execute`), locks them one after the other (`UpdateRow`) and checks its WHERE again on
a row it had to wait for (`StillMatches`). `news_collect` is what it does to keyword states:
`Match` picks candidates, `Refresh` writes last_seen_at, `Persisted` commits. Two runs that
wait for each other (`Wait`) are resolved by a `Victim`. A ranking run is `Read`, then `Save`
or `SaveFails`; `issue_rankings` returns from `Read` when no issue is active
(`NothingToRank`), search ranking does not. What items score is left open (`Rankings`).
`Shown` is what readers of the two ranking endpoints see, the rows of the newest
calculated_at (`sql/feed.py:71`, `sql/search.py:138`); `HomeShows` is what the home page
shows, the best of all rows kept (`sql/home.py:21`). Time is kept as ages, cut off above
every limit; a run is given at most `MaxLag` days. `jobRuns` holds the ranking runs that have
their row in job_runs.

### Alerts

A user's requests are single committed steps: `Track`, `Untrack`, `CreateAlertRule`,
`DeleteAlertRule`; `DeleteIssue` waits for a batch that refers to the issue. A batch of the
pipeline is `Classified` (its major updates), `Persist` (its event_updates, which lock their
issues), `ReadTrackers` and `ReadRules`, which are two statements and may see two states of
the database, then `Commit` or `Fail`, after which a later batch meets the articles again.
`Wants` is the loop over a user's rules; a rule's keyword is left out, because nothing reads it. `Remember` is a history: of every state a batch came
through it keeps who tracked, and whose rules would have let an update pass.

### Summaries

One action per part of `run_summarize`: `Group` (by keyword, the surest copy of each URL
first), `Ask` (any answer the model may give, as the list of its entries that survive
`_clean_json_response`; what is no JSON, and a failed request, is an empty list), then
`MatchExactly`, `MatchPartly` and `MatchInOrder` give the entries to the keywords, and `Output`
is what is stored. Which names are part of which is a constant (`Inside`).

### Inbox, Headlines, Keywords

`Inbox`: `Subscribe` and `Unsubscribe` are single statements; the pipeline's transaction loads
subscriptions (`Match`), then inserts and commits (`Deliver`) or not (`DeliverFails`). A client
reads its notifications, or the matches of a subscription, page by page (`FirstPage`,
`NextPage`), each page one SELECT with OFFSET; rows with the same created_at come in any
order, a different one on every page. Meanwhile batches are delivered and rows disappear.

`Headlines`: what extraction, ranking, filtering and intersection compute, as operators over
the entries of a page (a title, an optional link, the place it was found in) and over titles
that the analyser, which is external, has split into tagged forms. Where the code compares
letters, the letters are constants: `Inside` says which nouns are part of another, `Begins` and
`Ends` which begin or end it, and `Within` composes them to the substring test of phrases
(`keyword_analyzer.py:153`); `Texts` says which keywords the letters of a title contain
(`orchestrator.py:91`).

`Keywords`: channels answer in any order (`FetchFeed`, `FetchPage`, `Blocked`, `FetchFails`);
`Combine` makes the output, `Save` stores it, `Selection` picks the keywords of the cycle.
Headlines are found by Elasticsearch (`IndexArticles`, which may lose any of the documents,
`Refresh`, `Search`, each of which may fail or be late) or in Python (`InPython`), as `run_cycle` falls back.

### Scoring

Articles are checked, matched and stored while issues are deleted; a score is a sum of five
parts in hundredths with the default weights 15, 20, 35, 20, 10 and the threshold 45. It has
no run: its two theorems are about all its states.

## 3. Runs

| Run | Checks | Bounds | States |
| --- | --- | --- | --- |
| `PipelineOverlap` | UrlUnique, IngestAtomic, DupHasOriginal, SummarisedOnce, AlertsOnce, ImplementsStore, CycleEnds | two overlapping cycles, three items (two are one page, two share a title, one fails), one reader | 240 841 |
| `PipelineSerial` | TypeOK, FeedConsistent, SerialNoNearDup | two cycles in turn, two items of one agency story, one issue, all score bands, two trackers, one with a high bar | 266 358 |
| `PipelineSavepoint` | OtherArticlesSurvive: **violated** | one cycle, three pages, one fails | |
| `CommunityOverlap` | TypeOK, OneVoteEach, VotesExact, NoOrphans, Repaired | three requests, two at a time, two users, two comments and one of another post, the job | 232 791 |
| `IssueDesk` | TypeOK, NoOrphanTriggers, DeleteRefreshes, Settled | two requests, two issues, three triggers, four days, the job | 65 372 |
| `IssueDeskLatest` | LatestIsLatest: **violated** | two requests in turn, without the job | |
| `Accounts` | TypeOK, OneAnswerPerToken, LogoutEndsSessions, ColumnsKept | two accounts (one social), two requests at a time, three tokens, two passwords, one nickname, days 0 and 1 | 1 640 000 |
| `Catalog` | TypeOK, NoOrphanRows, CountersExact, LabelsAsGiven | four requests, two at a time, two events, an issue, a tag, a source, two users | 1 977 793 |
| `Jobs` | JobsTypeOK, RunsAreRecorded, NoFreshCooled, BoardGoesForward, UnseenIsClosed | one clean-up and one `news_collect`, or two overlapping runs of one ranking; two runs at a time, two issues, one searched word, one fault | 320 306 |
| `JobsHome` | HomeIsOfTheDay: **violated** | as `Jobs`, search rankings only, three scores | |
| `PipelineSteps` | StepsTypeOK, ToldAsRuled, SummariesAreShared | two users, two issues, two articles, two rules, one process that tries again after a failure (users and issues are symmetric); lists of up to three of five articles, three keywords, answers of up to three entries | 397 282 |
| `Inbox` | CrawlOrReadTypeOK, SubscribersAreTold, PagesShowAll, StoredListsAgree, MatchingIsFounded | two readers, two words, two subscriptions, three articles, pages of one; two crawls of three channels, three titles (one has a noun twice), three links | 551 588 |

Why the bounds are enough. Every hazard of the pipeline is a conflict of two transactions:
over one key, or over two keys taken in opposite orders, for which three items suffice; a
third cycle only lengthens the queue (the proofs cover any number). The gate is 1/2 instead
of 0.8 so that a batch of three can close it. A vote race, a reply that races its parent's
deletion, and two deletions need two requests at a time; the third request comes after them
and sees what they left. With two comments there is a parent and its reply. The days give
an issue time to be closed, reignited and overtaken by a backdated trigger with
`CloseAfter = 2` and `ReigniteIn = 1` (30 and 7 days in the code: only their order matters).
In `Accounts` a race needs two requests of one account; the third token is the one a request
issues while two others are at stake, and tokens expire (`TokenLife`) and are deleted
(`RevokedKept`) within the two days. In `Catalog` two requests race and two more see or repair
what they left; one tag and one source suffice, since labels and sources of different ids
do not interact. In `Jobs` a behaviour has one of three plans (`Plans`): the clean-up with
`news_collect`, issue rankings, or search rankings; the jobs of different plans share no
table but issues. Two keyword states are what a deadlock takes; that two clean-ups overlap is
left to the theorems, and what it means for `UnseenIsClosed` was not checked. The limits keep the order of
the code's: a keyword cools down after 1 day (48 hours), matches for 2 (72 hours), is closed
after 3 (120 hours), so that a keyword that has cooled down is matched and refreshed; rankings
are kept for 2 days (7). A ranking has one place, for which two issues compete with the scores
0 and 1; the home page needs a third score to tell a tie from a better row. In `Alerts` two
rules are enough for one that lets pass and one that does not, of one user or of two; a
second article makes a batch that tells of two issues. In `Summaries` the names are those of
the example "AI", "AI chip", "AI chips": one a keyword only, one a name only, and one both.
In `Inbox` a behaviour is one of the crawl or one of
the readers, since they share no state; a page of one row makes a list of three have three
pages, and a search of one hit is cut off by the second.
`MaxOverlap`, `LastDay`, `MaxLag`, `MaxRequests`, `MaxCrawls`, `MaxRankings`, `MaxScore`,
`MaxFaults`, `Lists`, `Answers` and
the sets of ids, slots, plans, requests and cycles are bounds of the model;
where a request would need a new id and none is left, it does not arrive.

What the violated runs show. `PipelineSavepoint`: the rollback that is meant for a savepoint
undoes the batch (`update_classifier.py:615` against its docstring); the batch is then lost
and everything is summarised. `IssueDeskLatest`: `update_trigger` (and a backdated
`create_trigger`) leaves `latest_trigger_at` wrong for good (`sql/triggers.py:31` against
`docs/PRD.md:175`). `JobsHome`: the home page shows rankings of earlier days beside, or instead
of, that of the day, and drops the period it is asked for (`sql/home.py:21`,
`api/v1/home.py:90` against `api/v1/home.py:78`).

What holds only in part. `SummarisedOnce` speaks of cycles whose classification returned: one
whose classification fails goes on with all it matched (`orchestrator.py:371-372`), so that
stories are summarised that others summarised before. `BoardsExpire` compares the rows that are
kept with one another: it says that a run which saves a ranking deletes what is too old for
it, not that rows expire by themselves, nor that a run without an active issue deletes any: it
returns, and succeeds, before its DELETE, so snapshots older than the 7 days of
`docs/SCHEDULER_DATA_FLOW.md:112` and `:151` stay as long as no issue is active
(`scheduler/jobs/feed_jobs.py:44`). `SuccessIsCommitted` says what a record of success means,
not that every run has one; `RunsAreRecorded` bounds those that have none by the number of
crashes. `NoFreshCooled` and `UnseenIsClosed` do not ask that a keyword comes back when it is
seen: an article that matches a COOLDOWN keyword refreshes last_seen_at and leaves the status
(`feed_builder.py:91` against `scheduler/README.md:102`). `Repaired` allows comment_count to be
wrong until the recount job runs. `BoardGoesForward` is about the two readers that take
the latest ranking, not about the home page (`JobsHome`). `ToldAsRuled` leaves open who is told
while trackers or rules change in the middle of the batch. `SummariesAreShared` does not say
that a summary given by order, or by a part of a name, is about its keyword: nothing checks that
(`news_summarizer/summarizer.py:129-145`). `VotesExact` is stated for counters on which no two requests raced,
and `DeleteRefreshes` for issues on which no two trigger requests did: under a race the code
loses updates (`sql/community.py:223`, `api/v1/triggers.py:80`), and nothing recounts votes,
likes or trigger dates. `TrackersExact`, a part of `CountersExact`, and `LabelsAsGiven` hold for issues and
topics on which no two requests raced (`sql/issues.py:130`), its other part `SourcesCounted` for events whose sources never
came or went without their source_count (`sql/events.py:177`). `OneAnswerPerToken` leaves
out tokens that two refreshes had in hand at once (`crud/auth.py:83`): both are answered.
`PagesShowAll` is about the rows that were there when the first page was read and have their
created_at to themselves: rows of one batch share it, come in any order on every page, and an
offset may skip one of them. `SerialNoNearDup` needs cycles that do not overlap: near duplicates have no unique
key. `StoredListsAgree` forbids a phrase below one of which it is a part, and one with other words
below its part; an extension by words the phrase has already ("q r q" below "q r") is stored,
as the code compares sets of words (`keyword_analyzer.py:149`). `MatchingIsFounded` is about
the first item of each canonical link: the fallback looks at no other title
(`orchestrator.py:79`).

Deadlock checking is off where the system stops when the bounded requests are served:
`IssueDeskLatest` leaves the job out, ids and requests are used up in
`Catalog`, subscription ids and crawls in `Inbox`, issues, rules and articles in `PipelineSteps`.

### Disagreements without a run

Met while translating; the models follow the code.

- An item called DUP is returned when its URL is that of an item of its own batch
  (`orchestrator.py:176` against line 145).
- Deleting a comment with a reply leaves `comment_count` too high until the job runs
  (`sql/community.py:173` against `docs/PRD.md:228`).
- A COOLDOWN keyword that is seen again is not re-activated; without an active issue old
  snapshots are not deleted; a job killed between its two transactions leaves no row in
  `job_runs` (`scheduler/runner.py:32` against `scheduler/README.md:4`).
- An alert rule of a keyword lets every update pass: nothing looks at the keyword
  (`feed_builder.py:222` against `api/v1/users.py:229` and `schemas/notification.py:9`).
- Keywords of three or more nouns cannot come out of `extract_keywords`, and its clause of
  "1.5 times" never decides anything (`utils/keyword_crawler/keyword_analyzer.py:134`, `:165`).
- A title without a link blocks the same title with one (`headline_extractor.py:184`);
  JSON-LD is never found because scripts are removed first (`:216`, `:265`).
- The fallback in Python compares letters, so a keyword whose nouns a particle separates does
  not match its own headline (`utils/pipeline/orchestrator.py:91`).
- Subscriptions store `keyword.strip().lower()`, articles carry keywords mapped by aliases,
  and two matched keywords become one, "kw1, kw2" (`orchestrator.py:96`,
  `update_classifier.py:154`).
- `saved_count` of a ranking is always 0 (`scheduler/jobs/feed_jobs.py:60`).
- With the default settings nothing is ever matched to an issue (`Scoring_proofs`, against
  `docs/PRD.md:945`). The settings are configurable, so the runs of `NewsPipeline` take the
  score as free. Nor does any code create the keyword states that candidates are found by.
- `news_collect` and `keyword_collect` record success when the cycle failed or no channel
  answered; `issue_rankings` is in the crontab but not in `worker_main.py`.
- `social_login` does not look at `withdrawn_at`; `social_connect` and `social_disconnect`
  answer without doing anything.

### Fairness

- Pipeline: weak fairness of each started cycle's own steps. HTTP and LLM clients have
  timeouts, the deadlock detector ends lock cycles, the loops are over finite lists. Nothing
  makes a cycle start or survive.
- Community, IssueDesk: weak fairness of each request that arrived and of the job, which
  cron starts again and again; of the clock in IssueDesk. Requests need not arrive, and may
  die (`Abort`).
- Jobs: weak fairness of the clock and of each run that has started; strong fairness of the
  start of the clean-up, which cron tries again and again and which the other runs, whose
  number only the model bounds (`Slots`), cannot keep out for ever. Faults are bounded.
- Accounts, Catalog, Inbox, Keywords, Alerts and Summaries state safety only and assume no fairness.
- `Repaired` and `Settled` are of the form "eventually always": with finitely many requests
  this is "once requests stop".

## 4. Proofs

`NewsPipeline_proofs` proves, for every number of cycles, items, issues and users and every
assignment of URLs, titles, scores, rules and subscriptions allowed by the named assumptions
of `NewsPipeline`:

- `TypeCorrect`: `Spec => []TypeOK`.
- `Invariants`: `Spec => [](TypeOK /\ KeysHeld /\ UrlUnique /\ BatchInv)`, where `BatchInv` is
  `ResultsTracked /\ IngestAtomic /\ DupHasOriginal`. None of the properties is
  inductive alone. `KeysHeld` says what an open transaction holds: rows exist only inside
  it, and a key it holds is neither committed nor held by another transaction, not even the
  key of the item it is about to insert. `Tracked` ties the list of results to the rows:
  every row of the transaction has its result, save the one being matched; an item is in at
  most one of `todo` and `results`; once the foreign keys have been checked, every result
  has its row. This last part is what saves the properties from `db.rollback()`: a batch
  that lost rows never gets past `Persist`. `OutInv` adds, for summaries and notifications,
  that what leaves a cycle is stored by it.
- `UrlsAreUnique`, `BatchesAreAtomic`, `DuplicatesHaveOriginals`, `FeedAgrees`,
  `SummarisedAndToldOnce`, `AlertedOnce`: the checked invariants, from it.
  `SummarisedAndToldOnce` is about cycles whose classification returned, as its property is:
  it does not say that no story is ever summarised twice.
- `TitlesAreUnique`: `Spec => []SerialNoNearDup`. The property is about cycles that do not
  overlap (`MaxOverlap = 1`). `TitleInv` adds `OneRuns` (at most one cycle is open, counted by
  cardinality, hence the assumption that there are finitely many cycles), `TitleFree` (the
  title of the item about to be inserted is that of no row, committed or not) and `OneTitle`
  (no two rows, committed or not, have one title).
- `Refinement`: `Spec => ImplementsStore`. Every step but `Commit` leaves the abstract
  variables alone; `Commit` is `Ingest` of the items stored.

`Community_proofs` proves, for every number of users, comments and overlapping requests:

- `TypeCorrect`: `Spec => []TypeOK`. It needs `Asked`: a request that is being served has
  something to ask for, and so a row to count on. That no counter becomes negative is part
  of it, however stale the value it was computed from.
- `OneVotePerUser`: `Spec => []OneVoteEach`. Inductive as it stands: the unique constraints
  carry it, whatever a request had read.
- `NothingOrphaned`: `Spec => []NoOrphans`, from the types and two facts. `AddedToStored`: a
  flush that adds a comment, vote or like also changes a counter of the row it belongs to,
  and its UPDATE fails when that row is gone. `CascadeClosed`: what a cascade leaves has no
  parent among what it took.

- `CountedExactly`: `Spec => []VotesExact`. Quiet counters (those no two requests changed at
  once) have at most one request that will write them, and what it loaded is still what is
  stored. `VoteInv` says so for the post (`VoteAlone`, `VoteRead`, `VoteCount`), `LikeInv` for
  each comment (`Unwritten`, `HitOwn`, `LikeAlone`, `LikeRead`, `LikeCount`); the count then
  changes by exactly what the rows change by.

`IssueDesk_proofs`, for every number of issues, triggers, days and overlapping requests:

- `TypeCorrect`, with `Served` (a request at work has something to ask for) and `Homes` (a
  trigger names an issue): together `TypeInv`.
- `NothingOrphaned`: `Spec => []NoOrphanTriggers`.
- `DeletionRefreshes`: `Spec => []DeleteRefreshes`, from `FreshInv`: two trigger requests on one
  issue are in `raced` (`RacesSeen`), and on other issues what `delete_trigger` listed is what
  is there at its commit (`ReadIsFresh`).

`Catalog_proofs`:

- `TypeCorrect`: no count becomes negative, however stale what it is computed from.
- `NothingOrphaned`: `Spec => []NoOrphanRows`.
- `TrackersAreExact`: from `RequestInv` (`CreatesAlone`, `Known`, `Counted`, `Staged`): the one
  request that counts on a quiet issue holds the count that is stored.
- `LabelsAreAsGiven`: from `LabelInv` (`GivenKnown`, `ClearedAll`): on an undisturbed topic the
  DELETE found every label there was.
- `SourcesAreCounted`: from `SourceInv` (`SeenBelow`); `CountersAreExact` is the two together.

`Accounts_proofs`:

- `TypeCorrect`, with `There`, `TokensLeft` and `InHand`: a flush finds its account, and a
  request that will issue a token has one to issue.
- `TokensBuyOneAnswer`: `Spec => []OneAnswerPerToken`, from `Spent` (a token that bought an
  answer is revoked or gone) and `AloneWith` (a token that only one refresh has in hand was
  not spent since it was checked).
- `SessionsEnd`: `Spec => LogoutEndsSessions`. `ColumnsAreKept`: `Spec => ColumnsKept`.

`Scoring_proofs`, under `ScoringConstants` (the sets and functions the constants are): `CrawledArticlesAreNew` (an
article as the crawl hands it over, without entities and source, reaches at most 43 of 45)
and `MatchingNeverStarts` (no article is the first update of an issue: at most 41).

`Jobs_proofs`, for any number of issues, words and overlapping runs, and all limits of days
that keep the order of the code's:

- `TypeCorrect`: `Spec => []JobsTypeOK`. It needs `Shape`, what a run may look like at each
  stage of its job: a ranking run has its number, a run that recorded success has committed,
  a statement waits only for a row it has still to lock.
- `Committing`: `Spec => []SuccessIsCommitted`, and `OnlyUnseen`: `Spec => NoFreshCooled`, from
  `LockInv`. `Apart` says that no row is written by two runs. `WritesEarned` says that a row the
  clean-up has written was old enough in the version committed now: nobody else can have
  committed another version, because the writer holds the lock, and a row found in an older
  version was checked again when the lock was had (`StillMatches`).
- `Expiring`: `Spec => []BoardsExpire`. Types are enough, with the assumption that no run takes
  as long as rankings are kept (`MaxLag <= Retention`): a run deletes what is older than
  Retention on the day it read the clock, and saves its rows as of that day.
- `NeverBack`: `Spec => BoardGoesForward`, from `OrderInv`: ages follow the order of
  calculated_at among the rows of a board, among the runs that have yet to save, and between
  the two. A run that ends late therefore deletes only rows older than its own.
- `Recording`: `Spec => []RunsAreRecorded`, which is inductive with the types: every step but a
  crash keeps the number of a ranking run that is still going, or writes its row; a crash
  leaves at most one number without a row and counts one fault.

`SuccessIsCommitted` and `BoardsExpire` are only proved: no run of TLC checks them.

`Inbox_proofs`, for any number of readers, words, subscriptions, articles and page sizes:

- `InboxTypes`: `InboxSpec => []InboxTypeOK`.
- `Telling`: `InboxSpec => []SubscribersAreTold`, from `Loaded`: as long as a batch is open, its
  list holds every subscription that was there when it was begun and still is.
- `Paging`: `InboxSpec => []PagesShowAll`, from `PageInv`. `Behind` says that rows that came
  since the first page stand above those that were there. `Reading` says of a row without an
  equal that it was shown, or that the next page begins no lower than its place: the number of
  rows above it (`AboveIn`), which only grows. `PlaceOfRow` and `PageShows` are about sorting:
  in every order of the rows by created_at, such a row stands at that place.
- `FoundMatches`: `KeywordsSpec => []MatchingIsFounded`, from `Founded`: the documents of the
  index, and of what a search sees, were collected by some crawl.
- `KeywordsTypes`: `KeywordsSpec => []KeywordsTypeOK`, and `ListsAgree`:
  `KeywordsSpec => []StoredListsAgree`, for any channels, pages, titles and limits, from
  `KeywordsInv`. `Crawling` says what is true of a crawl until it is stored:
  every answer is the channel's own, the shared keywords are those of the answers at hand, and
  no row has the number of the crawl yet. `Storing` is `StoredListsAgree` row by row.

The proof of `ListsAgree` runs through the operators of `Headlines`, which are folds over lists.
The prover has no induction for them: a theorem that takes an operator cannot be used. The
module proves what it needs from well-foundedness instead. `NatMinimum` gives a set of numbers
its least member, and `Induction` is the least counterexample of a set; `FoldExists` shows
that the recursive function by which the community modules define a fold exists. From these,
`PickedPlaces` and `FilteredPlaces` say which places of a list are kept, `RankedPlaces` that
ranking by a total preorder permutes it, `FlattenElements` and `DistinctElements` what joining
and deduplicating leave. `KeywordsOfList` is then about `extract_keywords`: the list it returns
is ranked and names nothing twice, nor a phrase below one it is nested with.
`IntersectionRows` is about `_compute_intersections`: a word has one row if enough channels list
it and none otherwise, with just these channels. What is assumed of the constants is what the
tables and the extractor give: channels have one place each in their order, tokens are forms
with tags, and entries have a title, a link or none, and a place (`KeywordsAssumption`,
`PagesAssumption`).

Each step of the inductive proofs has one case per action. Only model-checked: the liveness
properties `CycleEnds`, `Repaired`, `Settled` and `UnseenIsClosed`, which need ENABLED and
fairness and are out of this prover's reach, and the properties of `Alerts` and `Summaries`
(the latter is a computation over lists by folds, whose results for every input would take
induction). Every other safety property of a passing run is stated by a theorem.

## 5. Not modelled

- Crawlers of products, policies and communities (`utils/product_crawler` and the like): HTTP,
  parsing and inserts without shared state.
- The LLM, its prompts and the texts of its summaries; how Elasticsearch analyses and ranks texts; the
  morphological analyser. They are inputs, left open.
- The tests for a major reason (`detect_major_reasons`): a free choice in `NewsPipeline`.
  `check_volume_anomaly` and `check_source_health` are never called.
- Texts of posts, comments, events, issues, triggers and tags; `update_tag` and the slugs of
  tags; cleaning of headlines, stop words and limits of length.
- Read-only endpoints but the paged lists of `Inbox` and the boards of `Jobs`: queries
  without state.
- Schemas, configuration, error handlers (an integrity error is a failed flush in the module
  of its request), seed data, migrations.

## 6. Plan

Done: every component of section 1 that has state of its own is modelled and checked; the
safety properties of every module but `Alerts` and `Summaries` are proved.

1. `ToldAsRuled` for every number of users, rules and batches: the history bounds what the two
   queries saw, so the invariant is about the stages of a batch alone.
2. The issue list, whose sort key changes between two pages, beside `PagesShowAll`.
