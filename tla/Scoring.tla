------------------------------ MODULE Scoring ------------------------------
(***************************************************************************)
(* How well an article matches an issue: the scores of classify_article    *)
(* (src/src/utils/pipeline/update_classifier.py) with the default weights  *)
(* and thresholds of core/config.py, in hundredths. NewsPipeline leaves    *)
(* the score of a match open; this module computes it.                     *)
(*                                                                         *)
(* Shares (of keywords, entities, articles of one source) are fractions    *)
(* [n, d], the other scores tenths. Articles are classified by several     *)
(* cycles: between the duplicate check of one and its score, others may    *)
(* be stored and linked to issues.                                         *)
(***************************************************************************)
EXTENDS Integers, FiniteSets

CONSTANTS
  Articles,    \* articles that may be classified, those stored before included
  Issues,      \* issues with keywords
  Stored0,     \* articles stored before
  Given,       \* issue -> those of them with an event update of the issue
  EntitiesOf,  \* article -> names in its entity_json, a finite set
  SourceOf,    \* article -> its source_name, or NoSource
  NoSource,    \* an empty source_name
  KeywordCount,\* article -> number of its normalized keywords
  SameTitle, SameText  \* pairs of articles with one title_hash, with one semantic_hash

\* What the theorems ask of the constants.
ScoringConstants ==
  /\ Stored0 \subseteq Articles
  /\ Given \in [Issues -> SUBSET Stored0]
  /\ KeywordCount \in [Articles -> Nat]
  /\ \A a \in Articles : IsFiniteSet(EntitiesOf[a])

WeightKeyword  == 15
WeightEntity   == 20
WeightSemantic == 35
WeightTime     == 20
WeightSource   == 10
ScoreNew       == 45  \* classifier_score_new

VARIABLES
  stored,   \* raw_articles
  checked,  \* articles found to be no duplicates and not scored yet
  linked    \* issue -> articles with an event update of it

vars == <<stored, checked, linked>>

Fraction(n, d) == [n |-> n, d |-> d]

Same(a, b) == <<a, b>> \in SameTitle \/ <<a, b>> \in SameText

-----------------------------------------------------------------------------
(* Scores. S is what a query with a LIMIT returns of the issue's articles. *)

\* _compute_entity_score.
EntityScore(a, S) ==
  LET known == UNION {EntitiesOf[b] : b \in S}
  IN IF EntitiesOf[a] = {} THEN Fraction(0, 1)
     ELSE IF known = {} THEN Fraction(3, 10)
     ELSE Fraction(Cardinality(EntitiesOf[a] \cap known), Cardinality(EntitiesOf[a]))

\* _compute_semantic_score: the first row with a hash in common decides.
SemanticScores(a, S) ==
  IF \E b \in S : Same(a, b)
  THEN (IF \E b \in S : <<a, b>> \in SameText THEN {9} ELSE {})
         \cup (IF \E b \in S : <<a, b>> \in SameTitle /\ <<a, b>> \notin SameText THEN {8} ELSE {})
  ELSE {2}

\* _compute_time_score: the age of the issue's newest update is left open.
TimeScores(i) == IF linked[i] = {} THEN {5} ELSE {1, 3, 6, 9}

\* _compute_source_score: never above 1.
SourceScore(a, S) ==
  IF SourceOf[a] = NoSource \/ S = {} THEN Fraction(3, 10)
  ELSE LET same == {b \in S : SourceOf[b] = SourceOf[a]}
       IN Fraction(3 * Cardinality(S) + 7 * Cardinality(same), 10 * Cardinality(S))

\* compute_match_score against a threshold: the weighted sum on a common denominator.
Reaches(threshold, keyword, entity, semantic, time, source) ==
  LET whole == keyword.d * entity.d * source.d
  IN WeightKeyword * keyword.n * entity.d * source.d * 10
       + WeightEntity * entity.n * keyword.d * source.d * 10
       + WeightSource * source.n * keyword.d * entity.d * 10
       + (WeightSemantic * semantic + WeightTime * time) * whole
     >= threshold * whole * 10

-----------------------------------------------------------------------------
(* Classification *)

Init ==
  /\ stored = Stored0
  /\ checked = {}
  /\ linked = Given

\* check_near_duplicate sees all stored articles, however old.
Check(a) ==
  /\ a \notin stored \cup checked
  /\ \A b \in stored : ~Same(a, b)
  /\ checked' = checked \cup {a}
  /\ UNCHANGED <<stored, linked>>

Store(a) == a \in checked /\ checked' = checked \ {a} /\ stored' = stored \cup {a}

\* a reaches classifier_score_new with issue i, of whose keywords it has k.
Fits(a, i, k) ==
  \E S1, S2, S3 \in SUBSET linked[i] : \E time \in TimeScores(i) :
    /\ linked[i] # {} => S1 # {} /\ S2 # {} /\ S3 # {}
    /\ \E semantic \in SemanticScores(a, S2) :
         Reaches(ScoreNew, Fraction(k, KeywordCount[a]), EntityScore(a, S1), semantic, time,
                 SourceScore(a, S3))

\* Steps 5-7: an update of an issue among the candidates, or NEW. The keyword rows of an
\* issue are distinct, so that no more than the article's own are found.
Match(a, i) ==
  /\ Store(a)
  /\ \E k \in 1..KeywordCount[a] : Fits(a, i, k)
  /\ linked' = [linked EXCEPT ![i] = @ \cup {a}]

New(a) == Store(a) /\ UNCHANGED linked

\* The issue is deleted: its event updates lose it.
DeleteIssue(i) ==
  /\ linked' = [linked EXCEPT ![i] = {}]
  /\ UNCHANGED <<stored, checked>>

Next ==
  \/ \E a \in Articles : Check(a) \/ New(a) \/ \E i \in Issues : Match(a, i)
  \/ \E i \in Issues : DeleteIssue(i)

Spec == Init /\ [][Next]_vars

-----------------------------------------------------------------------------
(* Properties *)

\* No article becomes an update of an issue that was not one from the start.
NothingMatched == \A i \in Issues : linked[i] \subseteq Given[i]
=============================================================================
