--------------------------- MODULE Scoring_proofs ---------------------------
(***************************************************************************)
(* What the default weights and thresholds come to, for every set of       *)
(* articles, issues and keywords: articles are never matched to an issue   *)
(* that has none yet, and articles without entities and source never to    *)
(* any. The argument is the largest sum the five scores can reach.         *)
(***************************************************************************)
EXTENDS Scoring, TLAPS

\* Without entities and source an article reaches 43 hundredths: 15 for the keywords,
\* 7 for the text, 18 for the time, 3 for the source.
LEMMA PoorArticle ==
  ASSUME NEW k \in Nat, NEW n \in Nat \ {0}, k <= n, NEW time \in {1, 3, 5, 6, 9}
  PROVE  ~Reaches(ScoreNew, Fraction(k, n), Fraction(0, 1), 2, time, Fraction(3, 10))
  BY SMT DEF Reaches, Fraction, ScoreNew, WeightKeyword, WeightEntity, WeightSemantic, WeightTime,
         WeightSource

\* An issue without updates gives an article at most 41 hundredths: 15 for the keywords,
\* 6 for the entities, 7 for the text, 10 for the time, 3 for the source.
LEMMA FirstMatch ==
  ASSUME NEW k \in Nat, NEW n \in Nat \ {0}, k <= n,
         NEW entity \in {Fraction(0, 1), Fraction(3, 10)}
  PROVE  ~Reaches(ScoreNew, Fraction(k, n), entity, 2, 5, Fraction(3, 10))
  BY SMT DEF Reaches, Fraction, ScoreNew, WeightKeyword, WeightEntity, WeightSemantic, WeightTime,
         WeightSource

Poor(a) == EntitiesOf[a] = {} /\ SourceOf[a] = NoSource

\* What is checked has no text or title in common with an article linked at the start.
Fresh == \A a \in checked, i \in Issues : \A b \in Given[i] : ~Same(a, b)

Inv ==
  /\ checked \subseteq Articles
  /\ linked \in [Issues -> SUBSET Articles]
  /\ Stored0 \subseteq stored
  /\ Fresh
  /\ NothingMatched

\* The articles of a query are in the issue's, so none shares a hash with a.
LEMMA NoSharedHash ==
  ASSUME Inv, NEW a \in checked, NEW i \in Issues, NEW S \in SUBSET linked[i],
         NEW semantic \in SemanticScores(a, S)
  PROVE  semantic = 2
<1>1. \A b \in S : ~Same(a, b)
  BY DEF Inv, Fresh, NothingMatched
<1> QED
  BY <1>1 DEF SemanticScores, Same

\* Poor articles fit no issue.
LEMMA PoorFitsNone ==
  ASSUME ScoringConstants, Inv, NEW a \in checked, Poor(a), NEW i \in Issues,
         NEW k \in 1..KeywordCount[a]
  PROVE  ~Fits(a, i, k)
<1> SUFFICES ASSUME NEW S1 \in SUBSET linked[i], NEW S2 \in SUBSET linked[i],
                    NEW S3 \in SUBSET linked[i], NEW time \in TimeScores(i),
                    NEW semantic \in SemanticScores(a, S2),
                    Reaches(ScoreNew, Fraction(k, KeywordCount[a]), EntityScore(a, S1),
                            semantic, time, SourceScore(a, S3))
             PROVE  FALSE
  BY DEF Fits
<1>1. semantic = 2
  BY NoSharedHash
<1>2. time \in {1, 3, 5, 6, 9}
  BY DEF TimeScores
<1>3. EntityScore(a, S1) = Fraction(0, 1) /\ SourceScore(a, S3) = Fraction(3, 10)
  BY DEF Poor, EntityScore, SourceScore
<1>4. k \in Nat /\ KeywordCount[a] \in Nat \ {0} /\ k <= KeywordCount[a]
  BY DEF ScoringConstants, Inv
<1> QED
  BY <1>1, <1>2, <1>3, <1>4, PoorArticle

\* Nothing fits an issue without updates.
LEMMA NothingFitsFirst ==
  ASSUME ScoringConstants, Inv, NEW a \in checked, NEW i \in Issues, linked[i] = {},
         NEW k \in 1..KeywordCount[a]
  PROVE  ~Fits(a, i, k)
<1> SUFFICES ASSUME NEW S1 \in SUBSET linked[i], NEW S2 \in SUBSET linked[i],
                    NEW S3 \in SUBSET linked[i], NEW time \in TimeScores(i),
                    NEW semantic \in SemanticScores(a, S2),
                    Reaches(ScoreNew, Fraction(k, KeywordCount[a]), EntityScore(a, S1),
                            semantic, time, SourceScore(a, S3))
             PROVE  FALSE
  BY DEF Fits
<1>1. S1 = {} /\ S2 = {} /\ S3 = {}
  OBVIOUS
<1>2. semantic = 2 /\ time = 5
  BY <1>1 DEF SemanticScores, TimeScores
<1>3. EntityScore(a, S1) \in {Fraction(0, 1), Fraction(3, 10)}
  BY <1>1 DEF EntityScore
<1>4. SourceScore(a, S3) = Fraction(3, 10)
  BY <1>1 DEF SourceScore
<1>5. k \in Nat /\ KeywordCount[a] \in Nat \ {0} /\ k <= KeywordCount[a]
  BY DEF ScoringConstants, Inv
<1> QED
  BY <1>2, <1>3, <1>4, <1>5, FirstMatch

LEMMA InitInv ==
  ASSUME ScoringConstants
  PROVE  Init => Inv
  BY DEF ScoringConstants, Init, Inv, Fresh, NothingMatched

\* Every step keeps the invariant, if no article fits an issue.
LEMMA NextInv ==
  ASSUME ScoringConstants, Inv, [Next]_vars,
         \A a \in checked, i \in Issues : \A k \in 1..KeywordCount[a] : ~Fits(a, i, k)
  PROVE  Inv'
<1>1. ASSUME NEW a \in Articles, Check(a) PROVE Inv'
  <2>1. \A i \in Issues : \A b \in Given[i] : ~Same(a, b)
    BY <1>1 DEF ScoringConstants, Check, Inv
  <2> QED
    BY <1>1, <2>1 DEF Check, Inv, Fresh, NothingMatched, Same
<1>2. ASSUME NEW a \in Articles, New(a) PROVE Inv'
  BY <1>2 DEF New, Store, Inv, Fresh, NothingMatched, Same
<1>3. ASSUME NEW a \in Articles, NEW i \in Issues, Match(a, i) PROVE Inv'
  BY <1>3 DEF Match, Store
<1>4. ASSUME NEW i \in Issues, DeleteIssue(i) PROVE Inv'
  BY <1>4 DEF DeleteIssue, Inv, Fresh, NothingMatched, Same
<1>5. ASSUME UNCHANGED vars PROVE Inv'
  BY <1>5 DEF vars, Inv, Fresh, NothingMatched, Same
<1> QED
  BY <1>1, <1>2, <1>3, <1>4, <1>5 DEF Next

\* Articles without entities and source, as the crawl hands them over, never become an
\* update of an issue, whatever was linked to the issues before (update_classifier.py:
\* 241-390, 551-577 with the defaults of core/config.py).
THEOREM CrawledArticlesAreNew ==
  ASSUME ScoringConstants, \A a \in Articles : Poor(a)
  PROVE  Spec => []NothingMatched
<1>1. Inv /\ [Next]_vars => Inv'
  <2> SUFFICES ASSUME Inv, [Next]_vars PROVE Inv'
    OBVIOUS
  <2>1. \A a \in checked, i \in Issues : \A k \in 1..KeywordCount[a] : ~Fits(a, i, k)
    BY PoorFitsNone DEF Inv
  <2> QED
    BY <2>1, NextInv
<1>2. Inv => NothingMatched
  BY DEF Inv
<1> QED
  BY InitInv, <1>1, <1>2, PTL DEF Spec

\* While no issue has an update, no article of any kind becomes the first: matching
\* never starts by itself (update_classifier.py:241-390, 551-577 with the defaults of
\* core/config.py).
THEOREM MatchingNeverStarts ==
  ASSUME ScoringConstants, \A i \in Issues : Given[i] = {}
  PROVE  Spec => []NothingMatched
<1>1. Inv /\ [Next]_vars => Inv'
  <2> SUFFICES ASSUME Inv, [Next]_vars PROVE Inv'
    OBVIOUS
  <2>1. \A i \in Issues : linked[i] = {}
    BY DEF Inv, NothingMatched
  <2>2. \A a \in checked, i \in Issues : \A k \in 1..KeywordCount[a] : ~Fits(a, i, k)
    BY <2>1, NothingFitsFirst
  <2> QED
    BY <2>2, NextInv
<1>2. Inv => NothingMatched
  BY DEF Inv
<1> QED
  BY InitInv, <1>1, <1>2, PTL DEF Spec
=============================================================================
