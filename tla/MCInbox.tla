------------------------------ MODULE MCInbox ------------------------------
(* Instances of Inbox and of Keywords for TLC. A behaviour is one of the crawl *)
(* or one of the readers: the articles in between are NewsPipeline's. *)
EXTENDS Inbox, Keywords

CONSTANTS v1, v2, w1, w2, b1, b2, a1, a2, a3, h1, h2, h3, u1, u2, u3, c1, c2, c3

MCWordsOf == a1 :> {w1} @@ a2 :> {w1, w2} @@ a3 :> {w2}

\* Readers and subscription ids are interchangeable.
Interchangeable == Permutations(Readers) \cup Permutations(Subscriptions)

Noun(f)   == [form |-> f, tag |-> "noun"]
Proper(f) == [form |-> f, tag |-> "proper"]
Bridge    == [form |-> "bridge", tag |-> "bridge"]
Other     == [form |-> "other", tag |-> "other"]

\* Three nouns, two of them a bridge apart; a noun twice; one alone.
MCTokens ==
  h1 :> <<Proper("p"), Bridge, Noun("q"), Noun("r")>> @@
  h2 :> <<Noun("q"), Noun("r"), Noun("q")>> @@
  h3 :> <<Proper("p"), Other, Noun("q")>>

\* The letters of q end p, and those of p begin r. In h2 the first r and the
\* second q are one word.
MCEnds   == {<<"q", "p">>}
MCBegins == {<<"p", "r">>}
MCInside == MCEnds \cup MCBegins \cup {<<"q", "r">>}
MCTexts  == [h \in {h1, h2} |-> {<<"p">>, <<"q", "r">>}] @@ h3 :> {<<"p">>}

Entry(t, u, p) == [title |-> t, url |-> u, place |-> p]

MCHtml == {
  <<Entry(h1, u1, "selected"), Entry(h2, NoUrl, "selected"), Entry(h2, u3, "heading")>>,
  <<Entry(h3, u2, "script"), Entry(h2, u2, "heading"), Entry(h1, u2, "link"), Entry(h3, u3, "link")>>}

MCFeeds == {
  <<Entry(h3, NoUrl, "selected"), Entry(h2, u2, "selected"), Entry(h3, u3, "selected"),
    Entry(h1, u1, "selected")>>}

MCOrder == <<c1, c2, c3>>

\* u2 is u1 with parameters that normalize_url takes away.
MCCanonical == u1 :> u1 @@ u2 :> u1 @@ u3 :> u3

CrawlOrReadInit == InboxInit /\ KeywordsInit

CrawlOrReadNext ==
  \/ InboxNext /\ crawl = 0 /\ UNCHANGED crawlVars
  \/ KeywordsNext /\ usedIds = {} /\ batch = {} /\ stored = [a \in Articles |-> 0]
                  /\ client = Nobody /\ UNCHANGED inboxVars

CrawlOrReadSpec == CrawlOrReadInit /\ [][CrawlOrReadNext]_<<inboxVars, crawlVars>>

\* The type invariants of both modules.
CrawlOrReadTypeOK == InboxTypeOK /\ KeywordsTypeOK
=============================================================================
