------------------------------ MODULE Headlines ------------------------------
(***************************************************************************)
(* From the page of a news channel to keywords: headline_extractor.py,     *)
(* keyword_analyzer.py and the combination of the channels in crawler.py   *)
(* (all in src/src/utils/keyword_crawler). Pure operators, no state.       *)
(*                                                                         *)
(* A page is a sequence of entries in document order, each a title, its    *)
(* link or NoUrl, and the place it stands at. A title is what the          *)
(* morphological analyser makes of it (Tokens): nouns, proper nouns,       *)
(* bridges (particles, written onto the word before) and other words.      *)
(* Nouns next to each other are words of their own. Stop words, one-letter *)
(* nouns and the limits on a title's length are left out of the pages.     *)
(***************************************************************************)
EXTENDS Integers, FiniteSets, Sequences, SequencesExt

CONSTANTS
  Titles,    \* texts of headlines
  Tokens,    \* title -> sequence of [form, tag]
  Urls,      \* links as they are written on the pages
  NoUrl,     \* a title without a link
  Enough,    \* headlines that spare a page the generic search (5 in the code)
  MaxPhrase, \* MAX_PHRASE_NOUNS
  Inside,    \* pairs of nouns: the letters of the first stand in the second,
  Begins,    \*   at its beginning,
  Ends       \*   at its end

ASSUME HeadlinesAssumption ==
  /\ NoUrl \notin Urls
  /\ Enough \in Nat /\ MaxPhrase \in Nat \ {0, 1}

Places == {"selected", "script", "heading", "link", "noise"}

\* The elements of q at the places in P.
Picked(q, P) == FoldLeftDomain(LAMBDA acc, i : IF i \in P THEN Append(acc, q[i]) ELSE acc, <<>>, q)

\* The elements of q, each where it stands first.
Distinct(q) == Picked(q, {i \in DOMAIN q : \A j \in 1..(i - 1) : q[j] # q[i]})

\* q in order, where above[i] has the places of what is not ranked below the element at i.
\* Equals keep their order.
Ranked(q, above) ==
  LET Place(i) == Cardinality({j \in above[i] : i \in above[j] => j <= i})
  IN [k \in DOMAIN q |-> q[CHOOSE i \in DOMAIN q : Place(i) = k]]

FirstOf(q, n) == SubSeq(q, 1, IF Len(q) < n THEN Len(q) ELSE n)

-----------------------------------------------------------------------------
(* Headlines *)

\* The entries left at a place when navigation, scripts and the like are cut out of
\* the page. The scripts are gone by then: JSON-LD is never found in one.
At(page, place) ==
  Picked(page, {i \in DOMAIN page : page[i].place = place /\ place \notin {"script", "noise"}})

\* _add_item: a title without a link takes the title's place.
AddItem(acc, e) ==
  IF e.title \in acc.titles \/ (e.url # NoUrl /\ e.url \in acc.urls) THEN acc
  ELSE [titles |-> acc.titles \cup {e.title},
        urls   |-> acc.urls \cup ({e.url} \ {NoUrl}),
        items  |-> IF e.url = NoUrl THEN acc.items
                   ELSE Append(acc.items, [title |-> e.title, url |-> e.url])]

NoItems == [titles |-> {}, urls |-> {}, items |-> <<>>]

\* extract_headline_items: selectors and JSON-LD; headings, then links, while there are few.
HtmlItems(page) ==
  LET found      == FoldLeft(AddItem, NoItems, At(page, "selected") \o At(page, "script"))
      More(acc, place) ==
        IF Len(acc.items) < Enough THEN FoldLeft(AddItem, acc, At(page, place)) ELSE acc
  IN More(More(found, "heading"), "link").items

\* extract_headlines: the same for titles alone, counted on their own.
HtmlTitles(page) ==
  LET TitlesAt(place) == [i \in DOMAIN At(page, place) |-> At(page, place)[i].title]
      More(acc, place) == IF Len(acc) < Enough THEN Distinct(acc \o TitlesAt(place)) ELSE acc
  IN More(More(Distinct(TitlesAt("selected") \o TitlesAt("script")), "heading"), "link")

\* extract_headline_items_from_rss: the first item of each title, if it has a link.
FeedItems(feed) ==
  LET First(i) == \A j \in 1..(i - 1) : feed[j].title # feed[i].title
      kept     == Picked(feed, {i \in DOMAIN feed : First(i) /\ feed[i].url # NoUrl})
  IN [k \in DOMAIN kept |-> [title |-> kept[k].title, url |-> kept[k].url]]

\* extract_headlines_from_rss.
FeedTitles(feed) == Distinct([i \in DOMAIN feed |-> feed[i].title])

-----------------------------------------------------------------------------
(* Keywords *)

ClosedGroup(acc) ==
  [groups |-> IF acc.open = <<>> THEN acc.groups ELSE Append(acc.groups, acc.open),
   open |-> <<>>, bridged |-> FALSE]

\* A bridge between two nouns joins them; anything else ends a group.
AddToken(acc, t) ==
  IF t.tag \in {"noun", "proper"} THEN [acc EXCEPT !.open = Append(@, t), !.bridged = FALSE]
  ELSE IF t.tag = "bridge" /\ acc.open # <<>> /\ ~acc.bridged THEN [acc EXCEPT !.bridged = TRUE]
  ELSE ClosedGroup(acc)

NoGroups == [groups |-> <<>>, open |-> <<>>, bridged |-> FALSE]

\* _extract_noun_groups: nouns with at most one bridge between them.
NounGroups(tokens) == ClosedGroup(FoldLeft(AddToken, NoGroups, tokens)).groups

\* _phrases_from_group: every run of two to MaxPhrase nouns, the short ones first; a
\* noun alone only when it is a proper one.
Phrases(group) ==
  LET form == [i \in DOMAIN group |-> group[i].form]
      n    == Len(group)
      long == IF n < MaxPhrase THEN n ELSE MaxPhrase
  IN IF n = 1 THEN IF group[1].tag = "proper" THEN <<form>> ELSE <<>>
     ELSE FlattenSeq([k \in 1..(long - 1) |-> [i \in 1..(n - k) |-> SubSeq(form, i, i + k)]])

PhrasesOf(title) ==
  LET groups == NounGroups(Tokens[title])
  IN Distinct(FlattenSeq([g \in DOMAIN groups |-> Phrases(groups[g])]))

\* `phrase in accepted_phrase`: a test on the letters of q and p, whose nouns are written
\* with blanks between them. So the first noun of q ends a noun of p and its last one begins
\* one, with the same nouns between them; if q has only one, it is anywhere in a noun of p.
Within(q, p) ==
  \E i \in 1..(Len(p) - Len(q) + 1) : \A k \in DOMAIN q :
    LET pair == <<q[k], p[i + k - 1]>>
    IN \/ q[k] = p[i + k - 1]
       \/ Len(q) = 1 /\ pair \in Inside
       \/ Len(q) > 1 /\ k = 1 /\ pair \in Ends
       \/ Len(q) > 1 /\ k = Len(q) /\ pair \in Begins

\* One of the two phrases has the nouns of the other and more, or q is in the letters of p.
Nested(q, p) ==
  \/ ToSet(q) # ToSet(p) /\ (ToSet(q) \subseteq ToSet(p) \/ ToSet(p) \subseteq ToSet(q))
  \/ q # p /\ Within(q, p)

\* Mutant of Dominates: only a part of an accepted phrase is dropped, not its extension.
DominatesParts(a, k) == a.word # k.word /\ Within(k.word, a.word) /\ 2 * k.count <= 3 * a.count

\* An accepted phrase keeps out those nested with it, unless they come 1.5 times as often.
Dominates(a, k) == Nested(k.word, a.word) /\ 2 * k.count <= 3 * a.count

\* _filter_subphrases.
Filtered(ranked, n) ==
  FoldLeft(LAMBDA acc, k : IF Len(acc) >= n \/ \E a \in ToSet(acc) : Dominates(a, k)
                           THEN acc ELSE Append(acc, k), <<>>, ranked)

\* extract_keywords: at most n phrases, the most frequent first; a title counts once.
KeywordsOf(texts, n) ==
  LET occurrences == FlattenSeq([i \in DOMAIN texts |-> PhrasesOf(texts[i])])
      words       == Distinct(occurrences)
      Count(w)    == Cardinality({i \in DOMAIN occurrences : occurrences[i] = w})
      counted     == [i \in DOMAIN words |-> [word |-> words[i], count |-> Count(words[i])]]
      Above(i)    == {j \in DOMAIN words : counted[j].count >= counted[i].count}
      ranked      == Ranked(counted, [i \in DOMAIN words |-> Above(i)])
  IN Filtered(FirstOf(ranked, 3 * n), n)

-----------------------------------------------------------------------------
(* The channels together: results is a sequence of [channel, keywords, items] *)

ChannelsWith(results, w) ==
  {r \in DOMAIN results : \E k \in ToSet(results[r].keywords) : k.word = w}

TotalOf(results, w) ==
  LET keywords == FlattenSeq([r \in DOMAIN results |-> results[r].keywords])
  IN FoldLeft(LAMBDA sum, k : IF k.word = w THEN sum + k.count ELSE sum, 0, keywords)

\* Mutant of IsShared: more than min_channels are asked for.
IsSharedAbove(results, w, min) == Cardinality(ChannelsWith(results, w)) > min

IsShared(results, w, min) == Cardinality(ChannelsWith(results, w)) >= min

\* _compute_intersections: the keywords of at least min channels, those of most
\* channels first, then the most frequent.
Intersections(results, min) ==
  LET keywords == FlattenSeq([r \in DOMAIN results |-> results[r].keywords])
      words    == Distinct([i \in DOMAIN keywords |-> keywords[i].word])
      shared   == Picked(words, {i \in DOMAIN words : IsShared(results, words[i], min)})
      row      == [i \in DOMAIN shared |->
                     [word |-> shared[i], total |-> TotalOf(results, shared[i]),
                      channels |-> {results[r].channel : r \in ChannelsWith(results, shared[i])}]]
      wide     == [i \in DOMAIN row |-> Cardinality(row[i].channels)]
      Above(i) == {j \in DOMAIN row : \/ wide[j] > wide[i]
                                      \/ wide[j] = wide[i] /\ row[j].total >= row[i].total}
  IN Ranked(row, [i \in DOMAIN row |-> Above(i)])

\* The headline items of all channels, the first of each link.
AllItems(results) ==
  LET items == FlattenSeq([r \in DOMAIN results |-> results[r].items])
  IN Picked(items, {i \in DOMAIN items : \A j \in 1..(i - 1) : items[j].url # items[i].url})
=============================================================================
