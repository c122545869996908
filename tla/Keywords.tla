------------------------------ MODULE Keywords ------------------------------
(***************************************************************************)
(* The first half of a news cycle: channels are fetched and combined       *)
(* (utils/keyword_crawler/crawler.py), the keywords are stored, some are   *)
(* selected, and the headlines with one of them are found with             *)
(* Elasticsearch or without (utils/pipeline/orchestrator.py and            *)
(* utils/elasticsearch). NewsPipeline takes over from the matches.         *)
(*                                                                         *)
(* Crawls follow one another (--repeat, or the scheduler). The channels    *)
(* answer in any order; each crawl keeps its own results, the tables and   *)
(* the index outlive it. A document is searchable after a refresh of the   *)
(* index, which Elasticsearch does in its own time; the index is never     *)
(* emptied.                                                                *)
(***************************************************************************)
EXTENDS Headlines

CONSTANTS
  Order,        \* active channels, a sequence in the order of their codes
  Html, Feeds,  \* pages the channels may have, those without an RSS feed and with one
  Fed,          \* channels with an RSS feed
  Canonical,    \* link -> normalize_url of it
  Texts,        \* title -> phrases that stand in it letter by letter
  TopChannel, TopAll,        \* top_n_per_channel, top_n_aggregated
  MinChannels, MaxKeywords,  \* min_channels, max_keywords
  SearchSize,   \* hits a search returns (200 in the code)
  MaxCrawls,    \* bound: crawls of a behaviour
  None          \* not there

Channels == ToSet(Order)

Nouns == {t.form : t \in UNION {ToSet(Tokens[h]) : h \in Titles}}

ASSUME KeywordsAssumption ==
  /\ Order \in Seq(Channels) /\ Cardinality(Channels) = Len(Order)
  /\ Fed \subseteq Channels /\ None \notin Channels
  /\ TopChannel \in Nat /\ TopAll \in Nat
  /\ MaxKeywords \in Nat /\ MinChannels \in Nat /\ SearchSize \in Nat /\ MaxCrawls \in Nat

ASSUME PagesAssumption ==
  /\ \A h \in Titles : Tokens[h] \in Seq([form : Nouns, tag : {"noun", "proper", "bridge", "other"}])
  /\ Html \cup Feeds \subseteq Seq([title : Titles, url : Urls \cup {NoUrl}, place : Places])

VARIABLES
  crawl,      \* crawls begun
  kind,       \* job of the crawl: "news" runs a cycle, "collect" only stores keywords
  step,       \* what it does next
  answers,    \* channel -> its ChannelCrawlResult, or None
  output,     \* the CrawlOutput: its aggregated keywords, intersections and items
  rows,       \* crawled_keywords
  sharedRows, \* keyword_intersections
  selected,   \* keywords of the cycle
  matched,    \* articles with one of them
  index,      \* the Elasticsearch index: link -> title, or None
  visible,    \* what a search of it sees
  outcome,    \* how the last crawl ended
  collected   \* history: the headline items of all crawls

database   == <<rows, sharedRows>>
cluster    == <<index, visible>>
result     == <<selected, matched, outcome>>
crawlVars  == <<crawl, kind, step, answers, output, database, cluster, result, collected>>

\* Rows of crawled_keywords (None for the channel of an aggregated keyword) and of
\* keyword_intersections. The number of the crawl stands for crawled_at.
CrawledKeyword ==
  [crawl : 1..MaxCrawls, channel : Channels \cup {None}, rank : 1..(TopChannel + TopAll), count : Nat,
   word : Seq(Nouns)]

KeywordIntersection ==
  [crawl : 1..MaxCrawls, rank : Nat, total : Nat, channels : SUBSET Channels, word : Seq(Nouns)]

NoOutput == [aggregated |-> <<>>, shared |-> <<>>, items |-> <<>>]

KeywordsInit ==
  /\ crawl = 0
  /\ kind = "news"
  /\ step = "idle"
  /\ answers = [c \in Channels |-> None]
  /\ output = NoOutput
  /\ rows = {} /\ sharedRows = {}
  /\ index = [u \in Urls |-> None] /\ visible = index
  /\ selected = {} /\ matched = {}
  /\ outcome = "none"
  /\ collected = {}

\* run_cycle returns, or a job does.
EndCrawl(how) == step' = "idle" /\ outcome' = how

-----------------------------------------------------------------------------
(* Crawling *)

Begin(k) ==
  /\ step = "idle" /\ crawl < MaxCrawls
  /\ crawl' = crawl + 1
  /\ kind' = k
  /\ step' = "fetch"
  /\ answers' = [c \in Channels |-> None]
  /\ output' = NoOutput
  /\ selected' = {} /\ matched' = {} /\ outcome' = "none"
  /\ UNCHANGED <<database, cluster, collected>>

Result(c, status, titles, items) ==
  [channel |-> c, status |-> status, keywords |-> KeywordsOf(titles, TopChannel),
   titles |-> titles, items |-> items]

Answer(c, r) ==
  /\ step = "fetch" /\ answers[c] = None
  /\ answers' = [answers EXCEPT ![c] = r]
  /\ UNCHANGED <<crawl, kind, step, output, database, cluster, result, collected>>

\* _fetch_one: the feed if the channel has one, else its main page.
FetchFeed(c) ==
  /\ c \in Fed
  /\ \E p \in Feeds : Answer(c, Result(c, "success", FeedTitles(p), FeedItems(p)))

FetchPage(c) ==
  /\ c \notin Fed
  /\ \E p \in Html : Answer(c, Result(c, "success", HtmlTitles(p), HtmlItems(p)))

\* The page is a refusal.
Blocked(c) == c \notin Fed /\ Answer(c, Result(c, "blocked", <<>>, <<>>))

\* get_text gives up after its last attempt, or the page cannot be read: an error is
\* the channel's own.
FetchFails(c) == Answer(c, Result(c, "failed", <<>>, <<>>))

\* gather: the results stand in the order of the channels, however they came in.
Results == [i \in DOMAIN Order |-> answers[Order[i]]]

Succeeded == {c \in Channels : answers[c].status = "success"}

\* _crawl_async and what run_cycle and collect_keywords make of its output.
Combine ==
  /\ step = "fetch" /\ \A c \in Channels : answers[c] # None
  /\ output' =
       [aggregated |-> KeywordsOf(FlattenSeq([i \in DOMAIN Order |-> Results[i].titles]), TopAll),
        shared     |-> Intersections(Results, MinChannels),
        items      |-> AllItems(Results)]
  /\ IF Succeeded = {} \/ (kind = "news" /\ output'.aggregated = <<>>)
     THEN EndCrawl("no keywords")
     ELSE step' = "save" /\ UNCHANGED outcome
  /\ collected' = collected \cup {[title |-> e.title, url |-> e.url] : e \in ToSet(output'.items)}
  /\ UNCHANGED <<crawl, kind, answers, database, cluster, selected, matched>>

\* The channels cannot be loaded. run_cycle catches that, collect_keywords raises it again.
LoadFails ==
  /\ step = "fetch" /\ \A c \in Channels : answers[c] = None
  /\ EndCrawl(IF kind = "news" THEN "no keywords" ELSE "raised")
  /\ UNCHANGED <<crawl, kind, answers, output, database, cluster, selected, matched, collected>>

-----------------------------------------------------------------------------
(* Storing and selecting *)

Ranks(list, c) ==
  {[crawl |-> crawl, channel |-> c, rank |-> i, word |-> list[i].word, count |-> list[i].count] :
     i \in DOMAIN list}

\* Mutant of Selection: filling up stops only when there are more than MaxKeywords.
SelectionPast ==
  LET words(q) == [i \in DOMAIN q |-> q[i].word]
  IN ToSet(FirstOf(Distinct(FirstOf(words(output.shared), MaxKeywords) \o words(output.aggregated)),
                   MaxKeywords + 1))

\* _select_keywords: the shared keywords first, filled up with the aggregated ones.
Selection ==
  LET words(q) == [i \in DOMAIN q |-> q[i].word]
  IN ToSet(FirstOf(Distinct(FirstOf(words(output.shared), MaxKeywords) \o words(output.aggregated)),
                   MaxKeywords))

\* save_to_db: one transaction for both tables. A cycle goes on with the headlines,
\* if there are any; collect_keywords is done.
Save ==
  /\ step = "save"
  /\ rows' = rows \cup Ranks(output.aggregated, None)
                  \cup UNION {Ranks(answers[c].keywords, c) : c \in Channels}
  /\ sharedRows' = sharedRows \cup
       {[crawl |-> crawl, rank |-> i, word |-> output.shared[i].word, total |-> output.shared[i].total,
         channels |-> output.shared[i].channels] : i \in DOMAIN output.shared}
  /\ IF kind = "collect" THEN EndCrawl("collected") /\ UNCHANGED selected
     ELSE /\ selected' = Selection
          /\ IF output.items = <<>> THEN EndCrawl("unmatched") ELSE step' = "ping" /\ UNCHANGED outcome
  /\ UNCHANGED <<crawl, kind, answers, output, cluster, matched, collected>>

\* The commit fails: the exception ends the cycle, and with it a run of several.
SaveFails ==
  /\ step = "save"
  /\ EndCrawl("raised")
  /\ UNCHANGED <<crawl, kind, answers, output, database, cluster, selected, matched, collected>>

-----------------------------------------------------------------------------
(* Matching *)

Forms(t) == [i \in DOMAIN Tokens[t] |-> Tokens[t][i].form]

\* `kw in title`, a test on letters: the nouns of a keyword may be a bridge apart in the
\* title, or written as one word, and then it does not stand in it.
Holds(t, w) == w \in Texts[t]

\* A phrase query with slop 1 (external): the nouns in their order, one token more
\* between them.
Resembles(t, w) ==
  \E i, j \in 1..Len(Forms(t)) :
    /\ j - i \in {Len(w) - 1, Len(w)}
    /\ LET span == SubSeq(Forms(t), i, j)
       IN span = w \/ \E k \in 2..(Len(span) - 1) : RemoveAt(span, k) = w

Article(title, url, words) == [title |-> title, url |-> url, words |-> words]

\* Those of the articles that have a keyword.
Matches(articles) == {m \in articles : m.words # {}}

\* The first item of each canonical link.
Firsts ==
  LET First(i) == \A j \in 1..(i - 1) : Canonical[output.items[j].url] # Canonical[output.items[i].url]
  IN {output.items[i] : i \in {k \in DOMAIN output.items : First(k)}}

\* _match_headlines_python: the titles of other items are not looked at.
InPython == Matches({Article(e.title, e.url, {w \in selected : Holds(e.title, w)}) : e \in Firsts})

GoOn(found) == matched' = found /\ EndCrawl(IF found = {} THEN "unmatched" ELSE "matched")

\* No server is configured, or it does not answer the ping.
PingFails ==
  /\ step = "ping"
  /\ GoOn(InPython)
  /\ UNCHANGED <<crawl, kind, answers, output, database, cluster, selected, collected>>

\* bulk_index_articles: a document for each link, in place of the one before. Any of
\* them may fail; how many did not is only printed.
IndexArticles ==
  /\ step = "ping"
  /\ \E stored \in SUBSET ToSet(output.items) :
       index' = [u \in Urls |-> IF \E e \in stored : e.url = u
                                THEN (CHOOSE e \in stored : e.url = u).title ELSE index[u]]
  /\ step' = "search"
  /\ UNCHANGED <<crawl, kind, answers, output, database, visible, result, collected>>

\* The index is not there and cannot be made, or the whole call fails: the search goes
\* on with the documents of earlier crawls.
IndexFails ==
  /\ step = "ping"
  /\ step' = "search"
  /\ UNCHANGED <<crawl, kind, answers, output, database, cluster, result, collected>>

\* Elasticsearch refreshes the index.
Refresh ==
  /\ visible # index
  /\ visible' = index
  /\ UNCHANGED <<crawl, kind, step, answers, output, database, index, result, collected>>

Hit ==
  Matches({Article(visible[u], u, {w \in selected : Resembles(visible[u], w)})
             : u \in {v \in Urls : visible[v] # None}})

\* The hits a search may return: SearchSize of them, the best by Elasticsearch's score.
Answers == IF Cardinality(Hit) <= SearchSize THEN {Hit}
           ELSE {H \in SUBSET Hit : Cardinality(H) = SearchSize}

\* Mutant of OrInPython: an empty answer is taken for the result.
OrInPythonNever(found) == found

\* Without a hit the titles are searched here.
OrInPython(found) == IF found = {} THEN InPython ELSE found

\* cross_reference_search.
Search ==
  /\ step = "search"
  /\ \E H \in Answers : GoOn(OrInPython(H))
  /\ UNCHANGED <<crawl, kind, answers, output, database, cluster, selected, collected>>

\* An error of the search is an empty answer.
SearchFails ==
  /\ step = "search"
  /\ GoOn(OrInPython({}))
  /\ UNCHANGED <<crawl, kind, answers, output, database, cluster, selected, collected>>

KeywordsNext ==
  \/ \E k \in {"news", "collect"} : Begin(k)
  \/ \E c \in Channels : FetchFeed(c) \/ FetchPage(c) \/ Blocked(c) \/ FetchFails(c)
  \/ Combine \/ LoadFails
  \/ Save \/ SaveFails
  \/ PingFails \/ IndexArticles \/ IndexFails \/ Refresh \/ Search \/ SearchFails

KeywordsSpec == KeywordsInit /\ [][KeywordsNext]_crawlVars

-----------------------------------------------------------------------------
(* Properties *)

\* Every variable keeps its type.
KeywordsTypeOK ==
  /\ crawl \in 0..MaxCrawls
  /\ kind \in {"news", "collect"}
  /\ step \in {"idle", "fetch", "save", "ping", "search"}
  /\ outcome \in {"none", "no keywords", "raised", "collected", "matched", "unmatched"}
  /\ \A c \in Channels : answers[c] = None \/ answers[c].status \in {"success", "blocked", "failed"}
  /\ Cardinality(selected) <= MaxKeywords /\ selected \subseteq Seq(Nouns) \ {<<>>}
  /\ collected \subseteq [title : Titles, url : Urls]
  /\ rows \subseteq CrawledKeyword /\ sharedRows \subseteq KeywordIntersection
  /\ \A u \in Urls : index[u] \in Titles \cup {None} /\ visible[u] \in Titles \cup {None}

StoredList(n, c) == {r \in rows : r.crawl = n /\ r.channel = c}

\* Whatever channels answered, and in whatever order: the stored lists of keywords are
\* ranked by their counts, and none names a phrase twice, or below it one that is part of
\* it or, with other words as well, has it as a part; and the shared keywords of a crawl
\* are exactly those on enough of its channels' lists, with those channels
\* (crawler.py:103-141, 294-371; keyword_analyzer.py:134-196).
StoredListsAgree ==
  /\ \A r, s \in rows : r.crawl = s.crawl /\ r.channel = s.channel /\ r # s =>
       /\ r.rank # s.rank /\ r.word # s.word
       /\ r.rank < s.rank => r.count >= s.count /\ ~Nested(s.word, r.word)
  /\ \A n \in {r.crawl : r \in rows \cup sharedRows}, w \in {r.word : r \in rows \cup sharedRows} :
       LET on == {c \in Channels : \E r \in StoredList(n, c) : r.word = w}
           of == {r \in sharedRows : r.crawl = n /\ r.word = w}
       IN /\ \A r \in of : r.channels = on
          /\ Cardinality(of) = (IF on # {} /\ Cardinality(on) >= MinChannels THEN 1 ELSE 0)

\* Whatever Elasticsearch does - down, any of the documents lost, a search that does
\* not see them yet, or only finds those of an earlier crawl - a cycle goes on only with
\* headlines some crawl collected, for a selected keyword the title has; and it gives
\* up only if none that is the first of its link holds one (orchestrator.py:72-136).
MatchingIsFounded ==
  /\ outcome = "matched" => matched # {} /\ \A m \in matched :
       /\ [title |-> m.title, url |-> m.url] \in collected
       /\ m.words # {}
       /\ \A w \in m.words : w \in selected /\ (Resembles(m.title, w) \/ Holds(m.title, w))
  /\ outcome = "unmatched" => \A e \in Firsts, w \in selected : ~Holds(e.title, w)
=============================================================================
