------------------------------ MODULE Summaries ------------------------------
(***************************************************************************)
(* run_summarize: articles of a cycle are grouped by keyword (utils/       *)
(* news_summarizer/prompt_builder.py), one request asks a language model   *)
(* for a summary of each group, and what it answers is given to the        *)
(* keywords (utils/news_summarizer/summarizer.py). The model may name a    *)
(* summary otherwise than it was asked to, twice, or not at all, leave     *)
(* some out, add others, or answer something else altogether.              *)
(*                                                                         *)
(* In NewsPipeline all this is one step. Prompts and the texts of          *)
(* summaries are left out: a summary is its position in the answer.        *)
(***************************************************************************)
EXTENDS Integers, FiniteSets, Sequences, SequencesExt, TLC

CONSTANTS
  Keywords,  \* keywords of articles
  Names,     \* what the model may call a summary
  Inside,    \* pairs <<x, y>> such that the letters of x are part of y
  Lists,     \* bound: lists of articles
  Answers,   \* bound: answers of the model, as lists of names
  NoUrl, NoName, \* "", or the field is missing
  PassedOver \* an entry that gives no summary

ASSUME InsideAssumption == \A x \in Keywords \cup Names : <<x, x>> \in Inside

VARIABLES
  stage,
  articles,  \* list of [url, confidence, matched_keywords, keyword]
  groups,    \* keyword -> articles
  inputs,    \* keywords of groups in their order
  items,     \* names of the entries of the answer that have a summary
  matched    \* keyword -> position in items

summariesVars == <<stage, articles, groups, inputs, items, matched>>

Nothing == [k \in {} |-> 0]

SummariesInit ==
  /\ stage = "group" /\ articles \in Lists
  /\ groups = Nothing /\ inputs = <<>> /\ items = <<>> /\ matched = Nothing

-----------------------------------------------------------------------------
(* group_by_keyword *)

\* The keywords an article goes to.
KeywordsOf(a) == IF a.matched_keywords # <<>> THEN a.matched_keywords ELSE <<a.keyword>>

\* sorted() is stable.
Better(list, i, j) ==
  list[i].confidence > list[j].confidence \/ (list[i].confidence = list[j].confidence /\ i < j)

\* The first of each URL in that order, and all without one.
Unique(list) ==
  LET order == SetToSortSeq(DOMAIN list, LAMBDA i, j : Better(list, i, j))
      kept(p) == \/ list[order[p]].url = NoUrl
                 \/ \A q \in 1..(p - 1) : list[order[q]].url # list[order[p]].url
  IN [n \in 1..Cardinality({p \in DOMAIN order : kept(p)}) |->
        list[order[SetToSortSeq({p \in DOMAIN order : kept(p)}, <)[n]]]]

\* Mutant of InOrder: repetitions are kept.
InOrderAll(list) == FlattenSeq([n \in DOMAIN list |-> KeywordsOf(list[n])])

\* Keywords in the order in which articles name them first.
InOrder(list) ==
  LET all == FlattenSeq([n \in DOMAIN list |-> KeywordsOf(list[n])])
  IN FoldLeft(LAMBDA seen, k : IF Contains(seen, k) THEN seen ELSE Append(seen, k), <<>>, all)

\* Without articles the program exits; a cycle ends before it comes to that.
Group ==
  /\ stage = "group" /\ articles # <<>>
  /\ inputs' = InOrder(articles)
  /\ groups' = [k \in ToSet(inputs') |->
                  Unique(SelectSeq(articles, LAMBDA a : Contains(KeywordsOf(a), k)))]
  /\ stage' = "ask"
  /\ UNCHANGED <<articles, items, matched>>

-----------------------------------------------------------------------------
(* The answer *)

\* _clean_json_response and the loop after it: an answer is the list of its entries, whether
\* it is [entry, ...], [{keywords: [entry, ...]}, ...], {keywords: [entry, ...]}, or texts with
\* {articles: [entry, ...]}. Entries are passed over that are no objects, have no summary, or,
\* in the first form, no keyword. What is no JSON, or a request that fails, gives no entries;
\* JSON of no such form, such as a number, is raised.
Ask ==
  /\ stage = "ask"
  /\ \/ \E answer \in Answers \cup {<<>>} :
          items' = SelectSeq(answer, LAMBDA n : n # PassedOver) /\ stage' = "exact"
     \/ stage' = "raised" /\ UNCHANGED items
  /\ UNCHANGED <<articles, groups, inputs, matched>>

-----------------------------------------------------------------------------
(* Giving summaries to keywords *)

\* llm_summaries: a dictionary keeps the last entry of a name at the place of the first.
LastOf(name) ==
  CHOOSE i \in DOMAIN items : items[i] = name /\ \A j \in (i + 1)..Len(items) : items[j] # name
Named ==
  LET firsts == {i \in DOMAIN items : items[i] # NoName /\ \A j \in 1..(i - 1) : items[j] # items[i]}
  IN [n \in 1..Cardinality(firsts) |-> LastOf(items[SetToSortSeq(firsts, <)[n]])]

Used(m) == {m[k] : k \in DOMAIN m}
Unmatched == SelectSeq(inputs, LAMBDA k : k \notin DOMAIN matched)

MatchExactly ==
  /\ stage = "exact"
  /\ matched' = [k \in ToSet(inputs) \cap ToSet(items) |-> LastOf(k)]
  /\ stage' = "partial"
  /\ UNCHANGED <<articles, groups, inputs, items>>

\* Mutant of Related: one way only.
RelatedOneWay(k, name) == <<k, name>> \in Inside

\* Part of one another, either way.
Related(k, name) == <<k, name>> \in Inside \/ <<name, k>> \in Inside

\* Mutant of Without: a summary that was given stays in the list.
WithoutNone(left, p) == left

\* What is left for the keywords that come later.
Without(left, p) == RemoveAt(left, p)

\* A keyword takes the first summary left with a name inside it, or that it is inside of.
TakeRelated(acc, k) ==
  LET fits == {p \in DOMAIN acc.left : Related(k, items[acc.left[p]])}
      p    == CHOOSE q \in fits : \A r \in fits : q <= r
  IN IF fits = {} THEN acc
     ELSE [matched |-> acc.matched @@ (k :> acc.left[p]), left |-> Without(acc.left, p)]

MatchPartly ==
  /\ stage = "partial"
  /\ LET left == SelectSeq(Named, LAMBDA i : i \notin Used(matched))
     IN matched' = FoldLeft(TakeRelated, [matched |-> matched, left |-> left], Unmatched).matched
  /\ stage' = "order"
  /\ UNCHANGED <<articles, groups, inputs, items>>

\* Named or not.
Remaining == SelectSeq([i \in DOMAIN items |-> i], LAMBDA i : i \notin Used(matched))

\* If there are as many as keywords, the rest is given in order.
MatchInOrder ==
  /\ stage = "order"
  /\ LET rest == Unmatched
         n    == IF Len(rest) < Len(Remaining) THEN Len(rest) ELSE Len(Remaining)
     IN matched' = IF Len(items) < Len(inputs) THEN matched
                   ELSE matched @@ [k \in {rest[p] : p \in 1..n} |->
                          Remaining[CHOOSE p \in 1..n : rest[p] = k]]
  /\ stage' = "done"
  /\ UNCHANGED <<articles, groups, inputs, items>>

\* What is stored: every keyword, with or without a summary.
Output == [k \in ToSet(inputs) |->
  [summary |-> IF k \in DOMAIN matched THEN matched[k] ELSE 0, articles |-> groups[k]]]

Finished == stage \in {"done", "raised"} \/ articles = <<>>

SummariesNext ==
  \/ Group \/ Ask \/ MatchExactly \/ MatchPartly \/ MatchInOrder
  \/ Finished /\ UNCHANGED summariesVars

SummariesSpec == SummariesInit /\ [][SummariesNext]_summariesVars

-----------------------------------------------------------------------------
(* Properties *)

\* Every variable keeps its type; a keyword has articles, and at most one summary.
SummariesTypeOK ==
  /\ stage \in {"group", "ask", "raised", "exact", "partial", "order", "done"}
  /\ DOMAIN groups = ToSet(inputs) /\ \A k \in DOMAIN groups : groups[k] # <<>>
  /\ IsInjective(inputs)
  /\ ToSet(items) \subseteq Names \cup {NoName}
  /\ DOMAIN matched \subseteq ToSet(inputs) /\ Used(matched) \subseteq DOMAIN items

\* No summary is given to two keywords; if the model gave as many as it was asked for, every
\* keyword has one, whatever they are called; a keyword that the model named has a summary of
\* that name, and one that is part of the name of a summary nobody was given, or contains it,
\* has one, too (summarizer.py:113-145).
GivenOnce  == \A k, l \in DOMAIN matched : matched[k] = matched[l] => k = l
AllGiven   == Len(items) >= Len(inputs) => DOMAIN matched = ToSet(inputs)
NamesKept  == \A k \in ToSet(inputs) \cap ToSet(items) : items[Output[k].summary] = k
RelatedHas ==
  \A k \in ToSet(inputs) \ DOMAIN matched, i \in ToSet(Named) \ Used(matched) :
    {<<k, items[i]>>, <<items[i], k>>} \cap Inside = {}
SummariesAreShared == stage = "done" => GivenOnce /\ AllGiven /\ NamesKept /\ RelatedHas
=============================================================================
