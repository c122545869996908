------------------------ MODULE NewsPipeline_proofs -------------------------
(***************************************************************************)
(* Theorems about NewsPipeline, for every set of cycles, items, issues and *)
(* users, every URL and title function and every threshold.                *)
(***************************************************************************)
EXTENDS NewsPipeline, FiniteSetTheorems, TLAPS

\* The results computed for one item are well typed.
LEMMA ClassificationType ==
  ASSUME NEW a \in Articles, NEW i \in OptIssue, NEW score \in Bands, NEW x \in BOOLEAN
  PROVE  Classification(a, i, score, x) \in Result /\ DupResult(a) \in Result
  BY DEF Classification, TypeOf, DupResult, Result, UpdateType, OptIssue, Bands

\* Setting an issue to NULL keeps the type of updates and feed items.
LEMMA DetachType ==
  ASSUME NEW i
  PROVE  /\ \A rows \in SUBSET Update : Detach(rows, i) \in SUBSET Update
         /\ \A rows \in SUBSET Item : Detach(rows, i) \in SUBSET Item
  BY DEF Detach, Update, Item, OptIssue

\* The type of the rows a commit writes.
LEMMA CommitType ==
  ASSUME TypeOK, NEW c \in Cycles
  PROVE  /\ UpdatesOf(c) \in SUBSET Update
         /\ FeedItemsOf(c) \in SUBSET Item
         /\ MajorAlertsOf(c) \cup MatchAlertsOf(c) \in SUBSET Alert
  BY DEF TypeOK, UpdatesOf, FeedItemsOf, MajorAlertsOf, MatchAlertsOf, NonDup, Result,
         Update

LEMMA InitTypeOK == Init => TypeOK
  BY DEF Init, TypeOK, Stage

\* Type correctness is inductive.
LEMMA NextTypeOK == TypeOK /\ [Next]_vars => TypeOK'
<1> SUFFICES ASSUME TypeOK, [Next]_vars PROVE TypeOK'
  OBVIOUS
<1> USE DEF Stage, Running, InTx, Classifying, Terminal
<1>1. ASSUME NEW c \in Cycles, Start(c) PROVE TypeOK'
  BY <1>1 DEF TypeOK, Start, Goto, tables
<1>2. ASSUME NEW c \in Cycles, FailEarly(c) PROVE TypeOK'
  BY <1>2 DEF TypeOK, FailEarly, Goto, tables
<1>3. ASSUME NEW c \in Cycles, CheckDuplicate(c) PROVE TypeOK'
  <2>1. PICK a \in todo[c] :
          \/ /\ results' = [results EXCEPT ![c] = @ \cup {DupResult(a)}]
             /\ todo' = [todo EXCEPT ![c] = @ \ {a}]
             /\ UNCHANGED <<pc, cur>>
          \/ /\ cur' = [cur EXCEPT ![c] = {a}]
             /\ Goto(c, "insert")
             /\ UNCHANGED <<results, todo>>
    BY <1>3 DEF CheckDuplicate
  <2>2. a \in Articles
    BY DEF TypeOK
  <2>3. DupResult(a) \in Result
    BY <2>2 DEF DupResult, Result, UpdateType, OptIssue, Bands
  <2>4. QED
    BY <1>3, <2>1, <2>2, <2>3 DEF TypeOK, CheckDuplicate, Goto, tables
<1>4. ASSUME NEW c \in Cycles, InsertRow(c) PROVE TypeOK'
  BY <1>4 DEF TypeOK, InsertRow, Goto, tables
<1>5. ASSUME NEW c \in Cycles, MatchIssue(c) PROVE TypeOK'
  <2>1. PICK a \in cur[c], i \in issues \cup {NoIssue}, score \in Scores, x \in BOOLEAN :
          /\ results' = [results EXCEPT ![c] = @ \cup {Classification(a, i, score, x)}]
          /\ todo' = [todo EXCEPT ![c] = @ \ {a}]
    BY <1>5 DEF MatchIssue
  <2>2. Classification(a, i, score, x) \in Result
    <3>1. a \in Articles /\ i \in OptIssue /\ score \in Bands
      BY ScoresAssumption DEF TypeOK, OptIssue
    <3>2. QED
      BY <3>1, ClassificationType
  <2>3. QED
    BY <1>5, <2>1, <2>2 DEF TypeOK, MatchIssue, Goto, tables
<1>6. ASSUME NEW c \in Cycles, ArticleFails(c) PROVE TypeOK'
  BY <1>6 DEF TypeOK, ArticleFails, Remaining, Rollback, Goto, tables
<1>7. ASSUME NEW c \in Cycles, EndBatch(c) PROVE TypeOK'
  BY <1>7 DEF TypeOK, EndBatch, Goto, tables
<1>8. ASSUME NEW c \in Cycles, Persist(c) PROVE TypeOK'
  BY <1>8 DEF TypeOK, Persist, Goto, tables
<1>9. ASSUME NEW c \in Cycles, ClassificationFails(c) PROVE TypeOK'
  BY <1>9 DEF TypeOK, ClassificationFails, Rollback, Goto, tables
<1>10. ASSUME NEW c \in Cycles, Commit(c) PROVE TypeOK'
  BY <1>10, CommitType DEF TypeOK, Commit, Goto
<1>11. ASSUME NEW c \in Cycles, Filter(c) PROVE TypeOK'
  BY <1>11 DEF TypeOK, Filter, Kept, Goto, tables
<1>12. ASSUME NEW c \in Cycles, FilterFails(c) \/ Summarize(c) \/ SummarizeFails(c)
                                \/ SaveSummary(c) \/ SaveFails(c)
       PROVE  TypeOK'
  BY <1>12 DEF TypeOK, FilterFails, Summarize, SummarizeFails, SaveSummary, SaveFails,
               Goto, tables
<1>13. ASSUME NEW c \in Cycles, Crash(c) PROVE TypeOK'
  BY <1>13 DEF TypeOK, Crash, Rollback, Goto, tables
<1>14. ASSUME NEW i \in Issues, DeleteIssue(i) PROVE TypeOK'
  BY <1>14, DetachType DEF TypeOK, DeleteIssue
<1>15. CASE UNCHANGED vars
  BY <1>15 DEF TypeOK, vars
<1>16. QED
  BY <1>1, <1>2, <1>3, <1>4, <1>5, <1>6, <1>7, <1>8, <1>9, <1>10, <1>11, <1>12, <1>13,
     <1>14, <1>15 DEF Next, Step, Finished

\* Type correctness: no step writes a value outside its column.
THEOREM TypeCorrect == Spec => []TypeOK
  BY InitTypeOK, NextTypeOK, PTL DEF Spec

-----------------------------------------------------------------------------
(* Unique URLs, under any interleaving of cycles *)

LEMMA InitKeys == Init => KeysHeld /\ UrlUnique
  BY DEF Init, KeysHeld, UrlUnique, InTx, Classifying

\* KeysHeld is what makes UrlUnique inductive: the moment a batch is committed,
\* its keys are still its own.
LEMMA NextKeys == TypeOK /\ KeysHeld /\ UrlUnique /\ [Next]_vars => KeysHeld' /\ UrlUnique'
<1> SUFFICES ASSUME TypeOK, KeysHeld, UrlUnique, [Next]_vars
             PROVE  KeysHeld' /\ UrlUnique'
  OBVIOUS
<1> USE DEF Running, InTx, Classifying, Terminal
<1>1. ASSUME NEW c \in Cycles, Start(c) \/ FailEarly(c) \/ EndBatch(c) \/ Persist(c)
      PROVE  KeysHeld' /\ UrlUnique'
  BY <1>1 DEF TypeOK, KeysHeld, UrlUnique, Start, FailEarly, EndBatch, Persist, Goto, tables
<1>2. ASSUME NEW c \in Cycles, CheckDuplicate(c) PROVE KeysHeld' /\ UrlUnique'
  <2>1. CASE UNCHANGED <<pc, cur>>
    BY <1>2, <2>1 DEF TypeOK, KeysHeld, UrlUnique, CheckDuplicate, tables
  <2>2. ASSUME NEW a \in todo[c], ~Known(c, a), cur' = [cur EXCEPT ![c] = {a}],
               Goto(c, "insert")
        PROVE  KeysHeld' /\ UrlUnique'
    <3>1. \A b \in txRows[c] : CanonUrl[a] # CanonUrl[b]
      BY <2>2 DEF Known, Visible, SameStory
    <3>2. QED
      BY <1>2, <2>2, <3>1 DEF TypeOK, KeysHeld, UrlUnique, CheckDuplicate, Goto, tables
  <2>3. QED
    BY <1>2, <2>1, <2>2 DEF CheckDuplicate
<1>3. ASSUME NEW c \in Cycles, InsertRow(c) PROVE KeysHeld' /\ UrlUnique'
  <2>1. ASSUME NEW a \in cur[c], NEW d \in Cycles
        PROVE  /\ \A b \in txRows[d] : CanonUrl[a] # CanonUrl[b]
               /\ \A b \in rawArticles[d] : CanonUrl[a] # CanonUrl[b]
    BY <1>3, <2>1 DEF KeysHeld, InsertRow, UniqueKeyFree, WaitsFor, CommittedUrls
  <2>2. QED
    BY <1>3, <2>1 DEF TypeOK, KeysHeld, UrlUnique, InsertRow, Goto, tables
<1>4. ASSUME NEW c \in Cycles, MatchIssue(c) PROVE KeysHeld' /\ UrlUnique'
  BY <1>4 DEF TypeOK, KeysHeld, UrlUnique, MatchIssue, Goto, tables
<1>5. ASSUME NEW c \in Cycles, ArticleFails(c) PROVE KeysHeld' /\ UrlUnique'
  BY <1>5 DEF TypeOK, KeysHeld, UrlUnique, ArticleFails, Rollback, Goto, tables
<1>6. ASSUME NEW c \in Cycles, ClassificationFails(c) \/ Crash(c)
      PROVE  KeysHeld' /\ UrlUnique'
  <2>1. CASE ClassificationFails(c)
    BY <2>1 DEF TypeOK, KeysHeld, UrlUnique, ClassificationFails, Rollback, Goto, tables
  <2>2. CASE Crash(c)
    BY <2>2 DEF TypeOK, KeysHeld, UrlUnique, Crash, Rollback, Goto, tables
  <2>3. QED
    BY <1>6, <2>1, <2>2
<1>7. ASSUME NEW c \in Cycles, Commit(c) PROVE KeysHeld' /\ UrlUnique'
  BY <1>7 DEF TypeOK, KeysHeld, UrlUnique, Commit, Goto
<1>8. ASSUME NEW c \in Cycles, Filter(c) \/ FilterFails(c) \/ Summarize(c)
                               \/ SummarizeFails(c) \/ SaveSummary(c) \/ SaveFails(c)
      PROVE  KeysHeld' /\ UrlUnique'
  BY <1>8 DEF TypeOK, KeysHeld, UrlUnique, Filter, FilterFails, Summarize, SummarizeFails,
              SaveSummary, SaveFails, Goto, tables
<1>9. ASSUME NEW i \in Issues, DeleteIssue(i) PROVE KeysHeld' /\ UrlUnique'
  BY <1>9 DEF KeysHeld, UrlUnique, DeleteIssue
<1>10. CASE UNCHANGED vars
  BY <1>10 DEF KeysHeld, UrlUnique, vars
<1>11. QED
  BY <1>1, <1>2, <1>3, <1>4, <1>5, <1>6, <1>7, <1>8, <1>9, <1>10 DEF Next, Step, Finished

\* No URL is ever stored twice, however many cycles run at once.
THEOREM UrlsAreUnique == Spec => []UrlUnique
<1>1. Spec => [](KeysHeld /\ UrlUnique)
  BY TypeCorrect, InitKeys, NextKeys, PTL DEF Spec
<1>2. QED
  BY <1>1, PTL

-----------------------------------------------------------------------------
(* A batch is stored whole or not at all *)

BatchInv == ResultsTracked /\ IngestAtomic /\ DupHasOriginal

LEMMA InitBatch == Init => BatchInv
  BY DEF Init, BatchInv, ResultsTracked, Tracked, IngestAtomic, DupHasOriginal, InTx, Classifying,
         Running, Terminal

\* A step that leaves cycle d alone and takes no committed row away keeps Tracked(d).
LEMMA TrackedFrame ==
  ASSUME NEW d \in Cycles, Tracked(d),
         pc'[d] = pc[d], todo'[d] = todo[d], cur'[d] = cur[d], results'[d] = results[d],
         txRows'[d] = txRows[d], classified'[d] = classified[d],
         \A e \in Cycles : rawArticles[e] \subseteq rawArticles'[e]
  PROVE  Tracked(d)'
  BY DEF Tracked, NonDup

\* Only the cycle that moves has to be looked at.
LEMMA TrackedStep ==
  ASSUME NEW c \in Cycles, TypeOK, ResultsTracked, Tracked(c)',
         \A d \in Cycles \ {c} : /\ pc'[d] = pc[d] /\ todo'[d] = todo[d]
                                 /\ cur'[d] = cur[d] /\ results'[d] = results[d]
                                 /\ txRows'[d] = txRows[d]
                                 /\ classified'[d] = classified[d],
         \A e \in Cycles : rawArticles[e] \subseteq rawArticles'[e]
  PROVE  ResultsTracked'
  BY TrackedFrame DEF ResultsTracked

\* Every step of cycle c keeps the bookkeeping of its own batch.
LEMMA StepTracked ==
  ASSUME TypeOK, KeysHeld, ResultsTracked, NEW c \in Cycles,
         Start(c) \/ FailEarly(c) \/ Step(c) \/ Crash(c)
  PROVE  ResultsTracked'
<1> USE DEF Running, InTx, Classifying, Terminal, NonDup
<1>0. Tracked(c)
  BY DEF ResultsTracked
<1>1. CASE Start(c) \/ FailEarly(c) \/ EndBatch(c)
  <2>1. Tracked(c)'
    BY <1>0, <1>1 DEF TypeOK, KeysHeld, Tracked, Start, FailEarly, EndBatch, Goto, tables
  <2>2. QED
    BY <1>1, <2>1, TrackedStep DEF TypeOK, Start, FailEarly, EndBatch, Goto, tables
<1>2. CASE CheckDuplicate(c)
  <2>1. PICK a \in todo[c] :
          \/ /\ Known(c, a)
             /\ results' = [results EXCEPT ![c] = @ \cup {DupResult(a)}]
             /\ todo' = [todo EXCEPT ![c] = @ \ {a}]
             /\ UNCHANGED <<pc, cur>>
          \/ /\ ~Known(c, a)
             /\ cur' = [cur EXCEPT ![c] = {a}]
             /\ Goto(c, "insert")
             /\ UNCHANGED <<results, todo>>
    BY <1>2 DEF CheckDuplicate
  <2>2. ASSUME Known(c, a), results' = [results EXCEPT ![c] = @ \cup {DupResult(a)}],
               todo' = [todo EXCEPT ![c] = @ \ {a}], UNCHANGED <<pc, cur>>
        PROVE  Tracked(c)'
    <3> DEFINE n == DupResult(a)
    <3>1. n.type = "DUP" /\ n.art = a
      BY DEF DupResult
    <3> HIDE DEF n
    <3>2. results'[c] = results[c] \cup {n} /\ todo'[c] = todo[c] \ {a}
      BY <2>2 DEF TypeOK, n
    <3>3. pc'[c] = "check" /\ cur'[c] = cur[c] /\ txRows'[c] = txRows[c]
          /\ classified'[c] = classified[c] /\ rawArticles' = rawArticles
      BY <1>2, <2>2 DEF CheckDuplicate, tables
    <3>4. {r \in results'[c] : r.type # "DUP"} = {r \in results[c] : r.type # "DUP"}
      BY <3>1, <3>2
    <3>5. \/ \E x \in {r \in results[c] : r.type # "DUP"} : SameStory(x.art, a)
          \/ \E d \in Cycles : \E b \in rawArticles[d] : SameStory(b, a)
      BY <1>0, <1>2, <2>2 DEF CheckDuplicate, Known, Visible, Tracked
    <3>6. cur[c] = {}
      BY <1>0, <1>2 DEF Tracked, CheckDuplicate
    <3>7. pc[c] = "check"
      BY <1>2 DEF CheckDuplicate
    <3>8. cur'[c] \subseteq todo'[c]
      BY <1>0, <3>2, <3>3, <3>6 DEF Tracked
    <3>9. \A r \in results'[c] : r.art \notin todo'[c]
      BY <1>0, <3>1, <3>2 DEF Tracked
    <3>10. \A r, s \in results'[c] : r.art = s.art => r = s
      BY <1>0, <3>1, <3>2 DEF Tracked
    <3>11. \A b \in txRows'[c] : \E r \in {x \in results'[c] : x.type # "DUP"} : r.art = b
      BY <1>0, <3>3, <3>4, <3>7 DEF Tracked
    <3>12. \A r \in results'[c] : r.type = "DUP" =>
             \/ \E x \in {y \in results'[c] : y.type # "DUP"} : SameStory(x.art, r.art)
             \/ \E d \in Cycles : \E b \in rawArticles'[d] : SameStory(b, r.art)
      BY <1>0, <3>1, <3>2, <3>3, <3>4, <3>5, <3>7 DEF Tracked
    <3>13. ~classified'[c]
      BY <1>0, <3>3, <3>7 DEF Tracked
    <3>14. QED
      BY <3>3, <3>6, <3>8, <3>9, <3>10, <3>11, <3>12, <3>13 DEF Tracked
  <2>3. ASSUME cur' = [cur EXCEPT ![c] = {a}], Goto(c, "insert"),
               UNCHANGED <<results, todo>>
        PROVE  Tracked(c)'
    BY <1>0, <1>2, <2>3 DEF TypeOK, Tracked, CheckDuplicate, Goto, tables
  <2>4. Tracked(c)'
    BY <2>1, <2>2, <2>3
  <2>5. QED
    BY <1>2, <2>1, <2>4, TrackedStep DEF TypeOK, CheckDuplicate, Goto, tables
<1>3. CASE InsertRow(c)
  <2>1. Tracked(c)'
    BY <1>0, <1>3 DEF TypeOK, Tracked, InsertRow, Goto, tables
  <2>2. QED
    BY <1>3, <2>1, TrackedStep DEF TypeOK, InsertRow, Goto, tables
<1>4. CASE MatchIssue(c)
  <2>1. PICK a \in cur[c], i \in issues \cup {NoIssue}, score \in Scores, x \in BOOLEAN :
          /\ results' = [results EXCEPT ![c] = @ \cup {Classification(a, i, score, x)}]
          /\ todo' = [todo EXCEPT ![c] = @ \ {a}]
    BY <1>4 DEF MatchIssue
  <2> DEFINE n == Classification(a, i, score, x)
  <2>2. n.art = a /\ n.type # "DUP"
    BY DEF Classification, TypeOf
  <2>3. results'[c] = results[c] \cup {n} /\ todo'[c] = todo[c] \ {a}
    BY <2>1 DEF TypeOK
  <2>4. \A d \in Cycles \ {c} : results'[d] = results[d] /\ todo'[d] = todo[d]
    BY <2>1 DEF TypeOK
  <2> HIDE DEF n
  <2>5. cur[c] = {a} /\ a \in todo[c]
    BY <1>0, <1>4, <2>1 DEF KeysHeld, Tracked, MatchIssue
  <2>6. pc[c] = "match" /\ pc'[c] = "check" /\ cur'[c] = {} /\ txRows'[c] = txRows[c]
        /\ classified'[c] = classified[c] /\ rawArticles' = rawArticles
    BY <1>4 DEF TypeOK, MatchIssue, Goto, tables
  <2>7. Tracked(c)'
    BY <1>0, <2>2, <2>3, <2>5, <2>6 DEF Tracked
  <2>8. QED
    BY <1>4, <2>4, <2>7, TrackedStep DEF TypeOK, MatchIssue, Goto, tables
<1>5. CASE ArticleFails(c)
  <2>1. Tracked(c)'
    BY <1>0, <1>5 DEF TypeOK, Tracked, ArticleFails, Remaining, Rollback, Goto, tables
  <2>2. QED
    BY <1>5, <2>1, TrackedStep
       DEF TypeOK, ArticleFails, Remaining, Rollback, Goto, tables
<1>6. CASE Persist(c)
  <2>1. pc[c] = "persist" /\ pc'[c] = "commit" /\ cur'[c] = cur[c]
        /\ todo'[c] = todo[c] /\ results'[c] = results[c] /\ txRows'[c] = txRows[c]
        /\ classified'[c] = classified[c] /\ rawArticles' = rawArticles
    BY <1>6 DEF TypeOK, Persist, Goto, tables
  <2>2. \A r \in results[c] : r.type # "DUP" => r.art \in txRows[c]
    BY <1>6 DEF Persist, ForeignKeysHold
  <2>3. Tracked(c)'
    BY <1>0, <2>1, <2>2 DEF Tracked
  <2>4. QED
    BY <1>6, <2>3, TrackedStep DEF TypeOK, Persist, Goto, tables
<1>7. CASE ClassificationFails(c) \/ Crash(c)
  <2>1. Tracked(c)'
    BY <1>0, <1>7 DEF TypeOK, Tracked, ClassificationFails, Crash, Rollback, Goto, tables
  <2>2. QED
    BY <1>7, <2>1, TrackedStep DEF TypeOK, ClassificationFails, Crash, Rollback, Goto, tables
<1>8. CASE Commit(c)
  <2>1. Tracked(c)'
    BY <1>0, <1>8 DEF TypeOK, Tracked, Commit, Goto
  <2>2. QED
    BY <1>8, <2>1, TrackedStep DEF TypeOK, KeysHeld, Commit, Goto
<1>9. CASE Filter(c) \/ FilterFails(c) \/ Summarize(c) \/ SummarizeFails(c)
           \/ SaveSummary(c) \/ SaveFails(c)
  <2>1. Tracked(c)'
    BY <1>0, <1>9 DEF TypeOK, Tracked, Filter, FilterFails, Summarize, SummarizeFails,
                      SaveSummary, SaveFails, Goto, tables
  <2>2. QED
    BY <1>9, <2>1, TrackedStep
       DEF TypeOK, Filter, FilterFails, Summarize, SummarizeFails, SaveSummary, SaveFails,
           Goto, tables
<1>10. QED
  BY <1>1, <1>2, <1>3, <1>4, <1>5, <1>6, <1>7, <1>8, <1>9 DEF Step

\* Every step keeps the batch invariant.
LEMMA NextBatch == TypeOK /\ KeysHeld /\ BatchInv /\ [Next]_vars => BatchInv'
<1> SUFFICES ASSUME TypeOK, KeysHeld, BatchInv, [Next]_vars
             PROVE  BatchInv'
  OBVIOUS
<1> USE DEF Running, InTx, Classifying, Terminal, BatchInv, NonDup
<1>1. ASSUME NEW c \in Cycles,
             \/ Start(c) \/ FailEarly(c) \/ EndBatch(c) \/ InsertRow(c) \/ ArticleFails(c)
             \/ Persist(c) \/ ClassificationFails(c) \/ Crash(c) \/ FilterFails(c)
             \/ Summarize(c) \/ SummarizeFails(c) \/ SaveSummary(c) \/ SaveFails(c)
      PROVE  IngestAtomic' /\ DupHasOriginal'
  BY <1>1 DEF TypeOK, ResultsTracked, Tracked, IngestAtomic, DupHasOriginal, Start,
     FailEarly, EndBatch, InsertRow, ArticleFails, Persist, ClassificationFails, Crash,
     FilterFails, Summarize, SummarizeFails, SaveSummary, SaveFails, Rollback, Goto, tables
<1>2. ASSUME NEW c \in Cycles, CheckDuplicate(c) \/ MatchIssue(c)
      PROVE  IngestAtomic' /\ DupHasOriginal'
  <2>1. \A d \in Cycles \ {c} : results'[d] = results[d] /\ pc'[d] = pc[d]
    BY <1>2 DEF TypeOK, CheckDuplicate, MatchIssue, Goto
  <2>2. rawArticles[c] = {} /\ rawArticles' = rawArticles /\ classified' = classified
    BY <1>2 DEF KeysHeld, CheckDuplicate, MatchIssue, tables
  <2>3. ~classified[c] /\ pc'[c] # "filter"
    BY <1>2 DEF TypeOK, ResultsTracked, Tracked, CheckDuplicate, MatchIssue, Goto
  <2>4. QED
    BY <2>1, <2>2, <2>3 DEF IngestAtomic, DupHasOriginal
<1>3. ASSUME NEW c \in Cycles, Commit(c) PROVE IngestAtomic' /\ DupHasOriginal'
  <2>1. txRows[c] = {r.art : r \in {s \in results[c] : s.type # "DUP"}}
    BY <1>3 DEF Commit, ResultsTracked, Tracked
  <2>2. IngestAtomic'
    BY <1>3, <2>1 DEF TypeOK, IngestAtomic, Commit
  <2>3. \A d \in Cycles : rawArticles[d] \subseteq rawArticles'[d]
    BY <1>3 DEF TypeOK, KeysHeld, Commit
  <2>4. \A r \in results[c] : r.type = "DUP" =>
          \E d \in Cycles : \E b \in rawArticles'[d] : SameStory(b, r.art)
    <3>1. rawArticles'[c] = {r.art : r \in {s \in results[c] : s.type # "DUP"}}
      BY <1>3, <2>1 DEF TypeOK, Commit
    <3>2. QED
      BY <1>3, <2>3, <3>1 DEF ResultsTracked, Tracked, Commit
  <2>5. DupHasOriginal'
    BY <1>3, <2>3, <2>4 DEF TypeOK, DupHasOriginal, Commit, Goto
  <2>6. QED
    BY <2>2, <2>5
<1>4. ASSUME NEW c \in Cycles, Filter(c) PROVE IngestAtomic' /\ DupHasOriginal'
  BY <1>4 DEF TypeOK, IngestAtomic, DupHasOriginal, Filter, Goto, tables
<1>5. ASSUME NEW i \in Issues, DeleteIssue(i) PROVE BatchInv'
  BY <1>5 DEF ResultsTracked, Tracked, IngestAtomic, DupHasOriginal, DeleteIssue
<1>6. CASE UNCHANGED vars
  BY <1>6 DEF ResultsTracked, Tracked, IngestAtomic, DupHasOriginal, vars
<1>7. QED
  BY <1>1, <1>2, <1>3, <1>4, <1>5, <1>6, StepTracked DEF Next, Step, Finished

\* The transaction invariants, once and for all.
THEOREM Invariants == Spec => [](TypeOK /\ KeysHeld /\ UrlUnique /\ BatchInv)
  BY InitTypeOK, NextTypeOK, InitKeys, NextKeys, InitBatch, NextBatch, PTL DEF Spec

\* A cycle's committed rows are all of its batch or none of it.
THEOREM BatchesAreAtomic == Spec => []IngestAtomic
  BY Invariants, PTL DEF BatchInv

\* A stored batch never dropped an item in favour of an article that is not stored.
THEOREM DuplicatesHaveOriginals == Spec => []DupHasOriginal
  BY Invariants, PTL DEF BatchInv

-----------------------------------------------------------------------------
(* The cycles implement ArticleStore *)

Listed == [c \in Cycles |-> {f.art : f \in {g \in feedItems[c] : g.feed = "all"}}]
Told   == [c \in Cycles |-> {x.art : x \in alerts[c]}]

\* Setting an issue to NULL leaves the listed articles alone.
LEMMA DetachLists ==
  ASSUME NEW rows \in SUBSET Item, NEW i
  PROVE  {f.art : f \in {g \in Detach(rows, i) : g.feed = "all"}}
           = {f.art : f \in {g \in rows : g.feed = "all"}}
<1> DEFINE D(r) == [r EXCEPT !.issue = IF @ = i THEN NoIssue ELSE @]
<1>1. \A r \in rows : D(r).art = r.art /\ D(r).feed = r.feed
  BY DEF Item
<1>2. Detach(rows, i) = {D(r) : r \in rows}
  BY DEF Detach
<1> HIDE DEF D
<1>3. QED
  BY <1>1, <1>2

\* A batch lists all its stories in the "all" feed and nothing else.
LEMMA BatchLists ==
  ASSUME TypeOK, NEW c \in Cycles
  PROVE  {f.art : f \in {g \in FeedItemsOf(c) : g.feed = "all"}} = {r.art : r \in NonDup(c)}
<1>1. ASSUME NEW r \in NonDup(c)
      PROVE  \E g \in FeedItemsOf(c) : g.feed = "all" /\ g.art = r.art
  <2> DEFINE g == [art |-> r.art, feed |-> "all", issue |-> r.issue]
  <2>1. r \in Result /\ r.type # "DUP"
    BY DEF TypeOK, NonDup
  <2>2. g \in Item
    BY <2>1 DEF Result, Item, FeedType
  <2>3. "all" \in FeedEntries(r)
    BY <2>1 DEF FeedEntries
  <2>4. g \in FeedItemsOf(c)
    BY <2>2, <2>3 DEF FeedItemsOf
  <2>5. QED
    BY <2>4
<1>2. ASSUME NEW g \in FeedItemsOf(c) PROVE \E r \in NonDup(c) : g.art = r.art
  BY DEF FeedItemsOf
<1>3. QED
  BY <1>1, <1>2

\* Readers are told of stories of the batch only.
LEMMA BatchTells ==
  ASSUME NEW c \in Cycles
  PROVE  {x.art : x \in MajorAlertsOf(c) \cup MatchAlertsOf(c)} \subseteq {r.art : r \in NonDup(c)}
  BY DEF MajorAlertsOf, MatchAlertsOf

LEMMA InitStore == Init => Store!Init
  BY DEF Init, Store!Init, Store!Empty

\* A commit is an Ingest of the abstract store; every other step is a stutter.
LEMMA StepStore ==
  TypeOK /\ KeysHeld /\ BatchInv /\ [Next]_vars => [Store!Next]_Store!vars
<1> SUFFICES ASSUME TypeOK, KeysHeld, BatchInv, [Next]_vars
             PROVE  Store!Next \/ UNCHANGED <<rawArticles, Listed, Told>>
  BY DEF Store!vars, Listed, Told
<1>1. CASE UNCHANGED tables
  BY <1>1 DEF tables, Listed, Told
<1>2. ASSUME NEW c \in Cycles, Commit(c) PROVE Store!Next
  <2> DEFINE S == txRows[c]
             T == {x.art : x \in MajorAlertsOf(c) \cup MatchAlertsOf(c)}
  <2>1. S = {r.art : r \in NonDup(c)}
    BY <1>2 DEF Commit, BatchInv, ResultsTracked, Tracked, InTx, NonDup
  <2>2. S \subseteq Articles /\ T \subseteq S
    BY <2>1, BatchTells DEF TypeOK
  <2>3. rawArticles[c] = {}
    BY <1>2 DEF Commit, KeysHeld, InTx
  <2>4. Store!FreshUrls(S)
    BY DEF KeysHeld, Store!FreshUrls
  <2>5. rawArticles' = [rawArticles EXCEPT ![c] = S]
    BY <1>2 DEF Commit
  <2>6. Listed' = [Listed EXCEPT ![c] = S]
    <3>1. feedItems' = [feedItems EXCEPT ![c] = FeedItemsOf(c)]
      BY <1>2 DEF Commit
    <3>2. {f.art : f \in {g \in FeedItemsOf(c) : g.feed = "all"}} = S
      BY <2>1, BatchLists
    <3>3. QED
      BY <3>1, <3>2 DEF TypeOK, Listed
  <2>7. Told' = [Told EXCEPT ![c] = T]
    <3>1. alerts' = [alerts EXCEPT ![c] = MajorAlertsOf(c) \cup MatchAlertsOf(c)]
      BY <1>2 DEF Commit
    <3>2. QED
      BY <3>1 DEF TypeOK, Told
  <2> HIDE DEF S, T
  <2>8. Store!Ingest(c)
    BY <2>2, <2>3, <2>4, <2>5, <2>6, <2>7 DEF Store!Ingest, Listed, Told
  <2>9. QED
    BY <2>8 DEF Store!Next
<1>3. ASSUME NEW i \in Issues, DeleteIssue(i)
      PROVE  UNCHANGED <<rawArticles, Listed, Told>>
  <2>1. \A c \in Cycles : feedItems'[c] = Detach(feedItems[c], i)
    BY <1>3 DEF DeleteIssue
  <2>2. \A c \in Cycles : feedItems[c] \in SUBSET Item
    BY DEF TypeOK
  <2>3. \A c \in Cycles : Listed'[c] = Listed[c]
    BY <2>1, <2>2, DetachLists DEF Listed
  <2>4. Listed' = Listed
    BY <2>3 DEF Listed
  <2>5. QED
    BY <1>3, <2>4 DEF DeleteIssue, Told
<1>4. ASSUME NEW c \in Cycles, Start(c) \/ FailEarly(c) \/ Step(c) \/ Crash(c), ~Commit(c)
      PROVE  UNCHANGED tables
  BY <1>4 DEF Step, Start, FailEarly, CheckDuplicate, InsertRow, MatchIssue, ArticleFails,
     EndBatch, Persist, ClassificationFails, Filter, FilterFails, Summarize,
     SummarizeFails, SaveSummary, SaveFails, Crash, tables
<1>5. CASE UNCHANGED vars
  BY <1>5 DEF vars, tables, Listed, Told
<1>6. QED
  BY <1>1, <1>2, <1>3, <1>4, <1>5 DEF Next, Finished

\* Refinement: seen through the committed tables, the cycles add whole batches of
\* new stories, listed in the step that stores them, and tell of nothing else.
THEOREM Refinement == Spec => ImplementsStore
<1>1. Spec => []((TypeOK /\ KeysHeld) /\ BatchInv)
  BY Invariants, PTL
<1>2. QED
  BY <1>1, InitStore, StepStore, PTL DEF Spec, ImplementsStore, Store!Spec

-----------------------------------------------------------------------------
(* What is told and what is summarised *)

\* Nothing is summarised before the last stage; an article kept for the summary, or
\* summarised, by a cycle whose classification was returned has a row of that cycle.
KeptStored(c) ==
  /\ pc[c] \notin Terminal => summaries[c] = {}
  /\ classified[c] => \A a \in articles[c] \cup summaries[c] :
       \E b \in rawArticles[c] : CanonUrl[b] = CanonUrl[a]

\* Only stories that are stored are told.
ToldStored(c) == \A x \in alerts[c] : x.art \in rawArticles[c]

OutInv == \A c \in Cycles : KeptStored(c) /\ ToldStored(c)

LEMMA InitOut == Init => OutInv
  BY DEF Init, OutInv, KeptStored, ToldStored

\* Every step keeps it.
LEMMA NextOut == TypeOK /\ KeysHeld /\ BatchInv /\ OutInv /\ [Next]_vars => OutInv'
<1> SUFFICES ASSUME TypeOK, KeysHeld, BatchInv, OutInv, [Next]_vars
             PROVE  OutInv'
  OBVIOUS
<1> USE DEF Running, InTx, Classifying, Terminal, OutInv, KeptStored, ToldStored
<1>1. ASSUME NEW c \in Cycles, Start(c)
      PROVE  OutInv'
  <2>1. ~classified[c]
    BY <1>1 DEF Start, BatchInv, ResultsTracked, Tracked
  <2>2. QED
    BY <1>1, <2>1 DEF TypeOK, Start, Goto, tables
<1>2. ASSUME NEW c \in Cycles,
             \/ FailEarly(c) \/ CheckDuplicate(c) \/ InsertRow(c) \/ MatchIssue(c)
             \/ ArticleFails(c) \/ EndBatch(c) \/ Persist(c) \/ ClassificationFails(c)
             \/ FilterFails(c) \/ Summarize(c) \/ SummarizeFails(c) \/ SaveFails(c)
             \/ Crash(c)
      PROVE  OutInv'
  BY <1>2 DEF TypeOK, FailEarly, CheckDuplicate, InsertRow, MatchIssue, ArticleFails,
     EndBatch, Persist, ClassificationFails, FilterFails, Summarize, SummarizeFails,
     SaveFails, Crash, Rollback, Goto, tables
<1>3. ASSUME NEW c \in Cycles, Commit(c)
      PROVE  OutInv'
  <2>1. ~classified[c] /\ rawArticles[c] = {}
    BY <1>3 DEF Commit, KeysHeld, BatchInv, ResultsTracked, Tracked
  <2>2. \A x \in MajorAlertsOf(c) \cup MatchAlertsOf(c) : x.art \in txRows[c]
    <3>1. txRows[c] = {r.art : r \in NonDup(c)}
      BY <1>3 DEF Commit, BatchInv, ResultsTracked, Tracked, NonDup
    <3>2. QED
      BY <3>1, BatchTells
  <2>3. \A d \in Cycles : /\ classified'[d] = classified[d] /\ articles'[d] = articles[d]
                          /\ summaries'[d] = summaries[d]
    BY <1>3 DEF Commit
  <2>4. \A d \in Cycles \ {c} : /\ rawArticles'[d] = rawArticles[d]
                                /\ alerts'[d] = alerts[d] /\ pc'[d] = pc[d]
    BY <1>3 DEF TypeOK, Commit, Goto
  <2>5. /\ rawArticles'[c] = txRows[c] /\ pc[c] = "commit"
        /\ alerts'[c] = MajorAlertsOf(c) \cup MatchAlertsOf(c)
    BY <1>3 DEF TypeOK, Commit
  <2>6. QED
    BY <2>1, <2>2, <2>3, <2>4, <2>5
<1>4. ASSUME NEW c \in Cycles, Filter(c)
      PROVE  OutInv'
  <2>1. \A a \in Kept(c) : \E b \in rawArticles[c] : CanonUrl[b] = CanonUrl[a]
    BY DEF Kept
  <2>2. QED
    BY <1>4, <2>1 DEF TypeOK, Filter, Goto, tables
<1>5. ASSUME NEW c \in Cycles, SaveSummary(c)
      PROVE  OutInv'
  BY <1>5 DEF TypeOK, SaveSummary, Goto, tables
<1>6. ASSUME NEW i \in Issues, DeleteIssue(i)
      PROVE  OutInv'
  BY <1>6 DEF DeleteIssue
<1>7. CASE UNCHANGED vars
  BY <1>7 DEF vars
<1>8. QED
  BY <1>1, <1>2, <1>3, <1>4, <1>5, <1>6, <1>7 DEF Next, Step, Finished

\* With unique URLs, one row per story is one summary and one alert per story.
LEMMA OutImplies ==
  ASSUME TypeOK, UrlUnique, OutInv
  PROVE  SummarisedOnce /\ AlertsOnce
<1>1. SummarisedOnce
  BY DEF UrlUnique, OutInv, KeptStored, SummarisedOnce
<1>2. ASSUME NEW c \in Cycles, NEW d \in Cycles, NEW x \in alerts[c], NEW y \in alerts[d],
             CanonUrl[x.art] = CanonUrl[y.art], x.user = y.user, x.kind = y.kind
      PROVE  c = d /\ x = y
  <2>1. c = d /\ x.art = y.art
    BY <1>2 DEF UrlUnique, OutInv, ToldStored
  <2>2. x \in Alert /\ y \in Alert
    BY DEF TypeOK
  <2>3. QED
    BY <1>2, <2>1, <2>2 DEF Alert
<1>3. QED
  BY <1>1, <1>2 DEF OutInv, ToldStored, AlertsOnce

\* No story is summarised by two cycles whose classification returned, and such a cycle
\* summarises only what it stored; nothing is said of a cycle whose classification fails,
\* which summarises all it matched, summarised before or not (orchestrator.py:371-372). And
\* no user is told twice of a story, or of one that is not stored.
THEOREM SummarisedAndToldOnce == Spec => [](SummarisedOnce /\ AlertsOnce)
<1>1. TypeOK /\ UrlUnique /\ OutInv => SummarisedOnce /\ AlertsOnce
  BY OutImplies
<1>2. QED
  BY <1>1, Invariants, InitOut, NextOut, PTL DEF Spec

\* The second half by its own name: a user is told of a story at most once for each
\* reason, although two cycles that overlap matched it for the same user.
THEOREM AlertedOnce == Spec => []AlertsOnce
  BY SummarisedAndToldOnce, PTL

-----------------------------------------------------------------------------
(* One title once, when cycles do not overlap *)

\* With one cycle at a time, nobody stores a row between the lookup of a title and
\* the INSERT it decided on: what was looked up is still true at the commit.
RowsOf(c) == txRows[c] \cup rawArticles[c]

OneRuns == \A c, d \in Cycles : pc[c] \in Running /\ pc[d] \in Running => c = d

TitleFree ==
  \A c \in Cycles : pc[c] = "insert" =>
    \A a \in cur[c], d \in Cycles : \A b \in RowsOf(d) : TitleHash[b] # TitleHash[a]

OneTitle ==
  \A c, d \in Cycles : \A a \in RowsOf(c), b \in RowsOf(d) :
    TitleHash[a] = TitleHash[b] => c = d /\ a = b

TitleInv == OneRuns /\ TitleFree /\ OneTitle

\* Only the cycle that runs has an open transaction.
LEMMA OthersCommitted ==
  ASSUME KeysHeld, OneRuns, NEW c \in Cycles, pc[c] \in Running
  PROVE  \A d \in Cycles \ {c} : txRows[d] = {}
  BY DEF KeysHeld, OneRuns, Running, InTx, Classifying

LEMMA NextTitle ==
  ASSUME MaxOverlap = 1
  PROVE  TypeOK /\ KeysHeld /\ TitleInv /\ [Next]_vars => TitleInv'
<1> SUFFICES ASSUME TypeOK, KeysHeld, TitleInv, [Next]_vars PROVE TitleInv'
  OBVIOUS
<1> USE DEF Running, InTx, Classifying
<1>1. ASSUME NEW c \in Cycles, pc' = [pc EXCEPT ![c] = pc'[c]], pc[c] \in Running,
             pc'[c] # "insert", \A d \in Cycles : RowsOf(d)' \subseteq RowsOf(d),
             UNCHANGED cur
      PROVE  TitleInv'
  BY <1>1 DEF TypeOK, TitleInv, OneRuns, TitleFree, OneTitle
<1>2. ASSUME NEW c \in Cycles, Start(c) PROVE TitleInv'
  <2> DEFINE S == {d \in Cycles : pc[d] \in Running}
  <2>1. S = {}
    <3>1. IsFiniteSet(S)
      BY CyclesAssumption, FS_Subset
    <3>2. Cardinality(S) \in Nat /\ Cardinality(S) < 1
      BY <1>2, <3>1, FS_CardinalityType DEF Start
    <3>3. Cardinality(S) = 0
      BY <3>2
    <3>4. QED
      BY <3>1, <3>3, FS_EmptySet
  <2>2. OneRuns' /\ UNCHANGED <<cur, txRows, rawArticles>>
    BY <1>2, <2>1 DEF Start, Goto, OneRuns, TypeOK, tables
  <2>3. QED
    BY <1>2, <2>2 DEF Start, Goto, TitleInv, TitleFree, OneTitle, RowsOf, TypeOK
<1>3. ASSUME NEW c \in Cycles, FailEarly(c) PROVE TitleInv'
  BY <1>3 DEF FailEarly, Goto, TitleInv, OneRuns, TitleFree, OneTitle, RowsOf, TypeOK, tables
<1>4. ASSUME NEW c \in Cycles, CheckDuplicate(c) PROVE TitleInv'
  <2>1. CASE UNCHANGED <<pc, cur>>
    BY <1>4, <2>1 DEF CheckDuplicate, TitleInv, OneRuns, TitleFree, OneTitle, RowsOf, tables
  <2>2. ASSUME NEW a \in todo[c], ~Known(c, a), cur' = [cur EXCEPT ![c] = {a}],
               Goto(c, "insert")
        PROVE  TitleInv'
    <3>1. pc[c] = "check" /\ UNCHANGED <<txRows, rawArticles>>
      BY <1>4 DEF CheckDuplicate, tables
    <3>2. OneRuns'
      BY <2>2, <3>1 DEF Goto, TypeOK, TitleInv, OneRuns
    <3>3. \A d \in Cycles : \A b \in RowsOf(d) : b \in Visible(c)
      BY <3>1, OthersCommitted DEF TitleInv, RowsOf, Visible
    <3>4. \A d \in Cycles : \A b \in RowsOf(d) : TitleHash[b] # TitleHash[a]
      BY <2>2, <3>3 DEF Known, SameStory
    <3>5. \A d \in Cycles \ {c} : pc'[d] # "insert"
      BY <2>2, <3>1, <3>2 DEF Goto, TypeOK, OneRuns
    <3>6. TitleFree'
      BY <2>2, <3>1, <3>4, <3>5 DEF TitleFree, RowsOf, TypeOK
    <3>7. QED
      BY <3>1, <3>2, <3>6 DEF TitleInv, OneTitle, RowsOf
  <2>3. QED
    BY <1>4, <2>1, <2>2 DEF CheckDuplicate
<1>5. ASSUME NEW c \in Cycles, InsertRow(c) PROVE TitleInv'
  <2>1. pc[c] = "insert" /\ pc' = [pc EXCEPT ![c] = "match"] /\ rawArticles' = rawArticles
        /\ txRows' = [txRows EXCEPT ![c] = @ \cup cur[c]]
    BY <1>5 DEF InsertRow, Goto, tables
  <2>2. OneRuns'
    BY <2>1 DEF TypeOK, TitleInv, OneRuns
  <2>3. \A d \in Cycles : pc'[d] # "insert"
    BY <2>1 DEF TypeOK, TitleInv, OneRuns
  <2>4. \A d \in Cycles : RowsOf(d)' = IF d = c THEN RowsOf(d) \cup cur[c] ELSE RowsOf(d)
    BY <2>1 DEF TypeOK, RowsOf
  <2>5. \A a \in cur[c], d \in Cycles : \A b \in RowsOf(d) : TitleHash[b] # TitleHash[a]
    BY <2>1 DEF TitleInv, TitleFree
  <2>6. \A a, b \in cur[c] : a = b
    BY DEF KeysHeld
  <2>7. OneTitle'
    BY <2>4, <2>5, <2>6 DEF TitleInv, OneTitle
  <2>8. QED
    BY <2>2, <2>3, <2>7 DEF TitleInv, TitleFree
<1>6. ASSUME NEW c \in Cycles, Commit(c) PROVE TitleInv'
  <2>1. \A d \in Cycles : RowsOf(d)' = RowsOf(d)
    BY <1>6 DEF Commit, Goto, TypeOK, KeysHeld, RowsOf
  <2>2. QED
    BY <1>1, <1>6, <2>1 DEF Commit, Goto, TypeOK
<1>7. ASSUME NEW c \in Cycles, MatchIssue(c) \/ ArticleFails(c) PROVE TitleInv'
  <2>1. /\ pc[c] \in Running /\ pc' = [pc EXCEPT ![c] = "check"]
        /\ cur' = [cur EXCEPT ![c] = {}]
    BY <1>7 DEF MatchIssue, ArticleFails, Goto
  <2>2. \A d \in Cycles : RowsOf(d)' \subseteq RowsOf(d)
    BY <1>7 DEF MatchIssue, ArticleFails, Rollback, RowsOf, TypeOK, tables
  <2>3. QED
    BY <2>1, <2>2 DEF TypeOK, TitleInv, OneRuns, TitleFree, OneTitle
<1>8. ASSUME NEW c \in Cycles, EndBatch(c) \/ Persist(c) \/ ClassificationFails(c) \/ Filter(c)
               \/ FilterFails(c) \/ Summarize(c) \/ SummarizeFails(c) \/ SaveSummary(c)
               \/ SaveFails(c) \/ Crash(c)
      PROVE  TitleInv'
  <2>1. /\ pc[c] \in Running /\ pc' = [pc EXCEPT ![c] = pc'[c]] /\ pc'[c] # "insert"
        /\ cur' = cur
    BY <1>8 DEF EndBatch, Persist, ClassificationFails, Filter, FilterFails, Summarize,
                SummarizeFails, SaveSummary, SaveFails, Crash, Goto, TypeOK
  <2>2. \A d \in Cycles : RowsOf(d)' \subseteq RowsOf(d)
    BY <1>8 DEF EndBatch, Persist, ClassificationFails, Filter, FilterFails, Summarize,
                SummarizeFails, SaveSummary, SaveFails, Crash, Rollback, RowsOf, TypeOK, tables
  <2>3. QED
    BY <1>1, <2>1, <2>2
<1>9. ASSUME UNCHANGED <<pc, cur, txRows, rawArticles>> PROVE TitleInv'
  BY <1>9 DEF TitleInv, OneRuns, TitleFree, OneTitle, RowsOf
<1>10. CASE \E i \in Issues : DeleteIssue(i)
  BY <1>9, <1>10 DEF DeleteIssue
<1>11. CASE Finished \/ UNCHANGED vars
  BY <1>9, <1>11 DEF Finished, vars
<1>12. QED
  BY <1>2, <1>3, <1>4, <1>5, <1>6, <1>7, <1>8, <1>10, <1>11 DEF Next, Step

\* When cycles do not overlap, no two stored articles have the same title: the
\* near-duplicate lookup, which no constraint backs, is enough by itself.
THEOREM TitlesAreUnique == Spec => []SerialNoNearDup
<1>1. CASE MaxOverlap = 1
  <2>1. Init => TitleInv
    BY DEF Init, TitleInv, OneRuns, TitleFree, OneTitle, RowsOf, Running, InTx, Classifying
  <2>2. TitleInv => SerialNoNearDup
    BY DEF TitleInv, OneTitle, RowsOf, SerialNoNearDup
  <2>3. TypeOK /\ KeysHeld /\ TitleInv /\ [Next]_vars => TitleInv'
    BY <1>1, NextTitle
  <2>4. QED
    BY <2>1, <2>2, <2>3, InitTypeOK, NextTypeOK, InitKeys, NextKeys, PTL DEF Spec
<1>2. CASE MaxOverlap # 1
  <2>1. SerialNoNearDup
    BY <1>2 DEF SerialNoNearDup
  <2>2. QED
    BY <2>1, PTL
<1>3. QED
  BY <1>1, <1>2

-----------------------------------------------------------------------------
(* The feed *)

\* What FeedConsistent says of one cycle, of any rows, updates and items.
Consistent(R, U, F) ==
  /\ \A a \in R : (\E u \in U : u.art = a) /\ (\E f \in F : f.art = a /\ f.feed = "all")
  /\ \A u, v \in U : u.art = v.art => u = v
  /\ \A u \in U : u.art \in R /\ u.type # "DUP"
  /\ \A f \in F : \E u \in U :
       /\ u.art = f.art /\ u.issue = f.issue
       /\ f.feed # "all" => u.type = "MAJOR_UPDATE"
       /\ f.feed = "breaking" => \E g \in F : g.art = f.art /\ g.feed = "major"

\* Deleting an issue sets the references of updates and of feed items alike.
LEMMA DetachConsistent ==
  ASSUME NEW R, NEW U \in SUBSET Update, NEW F \in SUBSET Item, NEW i, Consistent(R, U, F)
  PROVE  Consistent(R, Detach(U, i), Detach(F, i))
<1> DEFINE D(r) == [r EXCEPT !.issue = IF @ = i THEN NoIssue ELSE @]
           DU == Detach(U, i)
           DF == Detach(F, i)
<1>1. \A u \in U : /\ D(u).art = u.art /\ D(u).type = u.type
                   /\ D(u).issue = IF u.issue = i THEN NoIssue ELSE u.issue
  BY DEF Update
<1>2. \A f \in F : /\ D(f).art = f.art /\ D(f).feed = f.feed
                   /\ D(f).issue = IF f.issue = i THEN NoIssue ELSE f.issue
  BY DEF Item
<1>3. DU = {D(u) : u \in U} /\ DF = {D(f) : f \in F}
  BY DEF Detach
<1> HIDE DEF D, DU, DF
<1>4. \A a \in R : (\E u \in DU : u.art = a) /\ (\E f \in DF : f.art = a /\ f.feed = "all")
  BY <1>1, <1>2, <1>3 DEF Consistent
<1>5. \A u, v \in DU : u.art = v.art => u = v
  BY <1>1, <1>3 DEF Consistent
<1>6. \A u \in DU : u.art \in R /\ u.type # "DUP"
  BY <1>1, <1>3 DEF Consistent
<1>7. ASSUME NEW f \in F
      PROVE  \E u \in DU :
               /\ u.art = D(f).art /\ u.issue = D(f).issue
               /\ D(f).feed # "all" => u.type = "MAJOR_UPDATE"
               /\ D(f).feed = "breaking" =>
                    \E g \in DF : g.art = D(f).art /\ g.feed = "major"
  <2>1. PICK u \in U : /\ u.art = f.art /\ u.issue = f.issue
                       /\ f.feed # "all" => u.type = "MAJOR_UPDATE"
                       /\ f.feed = "breaking" =>
                            \E g \in F : g.art = f.art /\ g.feed = "major"
    BY DEF Consistent
  <2>2. D(u) \in DU /\ D(u).art = D(f).art /\ D(u).issue = D(f).issue
    BY <1>1, <1>2, <1>3, <2>1
  <2>3. D(f).feed # "all" => D(u).type = "MAJOR_UPDATE"
    BY <1>1, <1>2, <2>1
  <2>4. D(f).feed = "breaking" => \E g \in DF : g.art = D(f).art /\ g.feed = "major"
    BY <1>2, <1>3, <2>1
  <2>5. QED
    BY <2>2, <2>3, <2>4
<1>8. QED
  BY <1>3, <1>4, <1>5, <1>6, <1>7 DEF Consistent, DU, DF

\* The rows of a batch with one result per item are consistent.
LEMMA BatchConsistent ==
  ASSUME TypeOK, NEW c \in Cycles, \A r, s \in results[c] : r.art = s.art => r = s
  PROVE  Consistent({r.art : r \in NonDup(c)}, UpdatesOf(c), FeedItemsOf(c))
<1> DEFINE R == {r.art : r \in NonDup(c)}
           U == UpdatesOf(c)
           F == FeedItemsOf(c)
<1>1. \A r \in NonDup(c) : r \in Result /\ r.type # "DUP" /\ r \in results[c]
  BY DEF TypeOK, NonDup
<1>2. ASSUME NEW r \in NonDup(c), NEW t \in FeedEntries(r)
      PROVE  \E f \in F : f.art = r.art /\ f.feed = t /\ f.issue = r.issue
  <2> DEFINE f == [art |-> r.art, feed |-> t, issue |-> r.issue]
  <2>1. t \in FeedType
    BY <1>1 DEF FeedEntries, FeedType
  <2>2. f \in Item
    BY <1>1, <2>1 DEF Item, Result
  <2>3. f \in F
    BY <2>2 DEF FeedItemsOf
  <2>4. QED
    BY <2>3
<1>3. \A r \in NonDup(c) : "all" \in FeedEntries(r)
  BY <1>1 DEF FeedEntries
<1>4. ASSUME NEW r \in NonDup(c)
      PROVE  (\E u \in U : u.art = r.art) /\ (\E f \in F : f.art = r.art /\ f.feed = "all")
  <2>1. [art |-> r.art, type |-> r.type, issue |-> r.issue] \in U
    BY DEF UpdatesOf
  <2>2. QED
    BY <1>2, <1>3, <2>1
<1>5. \A u, v \in U : u.art = v.art => u = v
  BY <1>1 DEF UpdatesOf
<1>6. \A u \in U : u.art \in R /\ u.type # "DUP"
  BY <1>1 DEF UpdatesOf
<1>7. ASSUME NEW f \in F
      PROVE  \E u \in U : /\ u.art = f.art /\ u.issue = f.issue
                          /\ f.feed # "all" => u.type = "MAJOR_UPDATE"
                          /\ f.feed = "breaking" =>
                               \E g \in F : g.art = f.art /\ g.feed = "major"
  <2>1. PICK r \in NonDup(c) :
          f.art = r.art /\ f.issue = r.issue /\ f.feed \in FeedEntries(r)
    BY DEF FeedItemsOf
  <2> DEFINE u == [art |-> r.art, type |-> r.type, issue |-> r.issue]
  <2>2. u \in U /\ u.art = f.art /\ u.issue = f.issue
    BY <2>1 DEF UpdatesOf
  <2>3. f.feed # "all" => r.type = "MAJOR_UPDATE"
    BY <1>1, <2>1 DEF FeedEntries
  <2>4. f.feed = "breaking" => "major" \in FeedEntries(r)
    BY <1>1, <2>1 DEF FeedEntries
  <2>5. f.feed = "breaking" => \E g \in F : g.art = f.art /\ g.feed = "major"
    BY <1>2, <2>1, <2>4
  <2>6. QED
    BY <2>2, <2>3, <2>5
<1>8. \A a \in R : (\E u \in U : u.art = a) /\ (\E f \in F : f.art = a /\ f.feed = "all")
  BY <1>4
<1> HIDE DEF R, U, F
<1>9. Consistent(R, U, F)
  BY <1>5, <1>6, <1>7, <1>8 DEF Consistent
<1>10. QED
  BY <1>9 DEF R, U, F

\* FeedConsistent, cycle by cycle.
LEMMA ConsistentIs ==
  FeedConsistent <=> \A c \in Cycles : Consistent(rawArticles[c], eventUpdates[c], feedItems[c])
  BY DEF FeedConsistent, Consistent

LEMMA InitFeed == Init => FeedConsistent
  BY DEF Init, FeedConsistent

LEMMA NextFeed == TypeOK /\ KeysHeld /\ BatchInv /\ FeedConsistent /\ [Next]_vars => FeedConsistent'
<1> SUFFICES ASSUME TypeOK, KeysHeld, BatchInv, FeedConsistent, [Next]_vars
             PROVE  FeedConsistent'
  OBVIOUS
<1> DEFINE C(c) == Consistent(rawArticles[c], eventUpdates[c], feedItems[c])
<1>0. \A c \in Cycles : C(c)
  BY ConsistentIs
<1>1. CASE UNCHANGED tables
  BY <1>1 DEF tables, FeedConsistent
<1>2. ASSUME NEW c \in Cycles, Commit(c) PROVE FeedConsistent'
  <2>1. txRows[c] = {r.art : r \in NonDup(c)} /\ \A r, s \in results[c] : r.art = s.art => r = s
    BY <1>2 DEF Commit, BatchInv, ResultsTracked, Tracked, InTx, NonDup
  <2>2. Consistent(txRows[c], UpdatesOf(c), FeedItemsOf(c))
    BY <2>1, BatchConsistent
  <2>3. /\ rawArticles'[c] = txRows[c] /\ eventUpdates'[c] = UpdatesOf(c)
        /\ feedItems'[c] = FeedItemsOf(c)
    BY <1>2 DEF TypeOK, Commit
  <2>4. \A d \in Cycles \ {c} : /\ rawArticles'[d] = rawArticles[d]
                                /\ eventUpdates'[d] = eventUpdates[d]
                                /\ feedItems'[d] = feedItems[d]
    BY <1>2 DEF TypeOK, Commit
  <2>5. \A d \in Cycles : Consistent(rawArticles'[d], eventUpdates'[d], feedItems'[d])
    BY <1>0, <2>2, <2>3, <2>4
  <2>6. QED
    BY <2>5 DEF FeedConsistent, Consistent
<1>3. ASSUME NEW i \in Issues, DeleteIssue(i) PROVE FeedConsistent'
  <2>1. \A d \in Cycles : /\ rawArticles'[d] = rawArticles[d]
                          /\ eventUpdates'[d] = Detach(eventUpdates[d], i)
                          /\ feedItems'[d] = Detach(feedItems[d], i)
    BY <1>3 DEF DeleteIssue
  <2>2. \A d \in Cycles : eventUpdates[d] \in SUBSET Update /\ feedItems[d] \in SUBSET Item
    BY DEF TypeOK
  <2>3. \A d \in Cycles :
          Consistent(rawArticles[d], Detach(eventUpdates[d], i), Detach(feedItems[d], i))
    BY <1>0, <2>2, DetachConsistent
  <2>4. \A d \in Cycles : Consistent(rawArticles'[d], eventUpdates'[d], feedItems'[d])
    BY <2>1, <2>3
  <2>5. QED
    BY <2>4 DEF FeedConsistent, Consistent
<1>4. ASSUME NEW c \in Cycles, Start(c) \/ FailEarly(c) \/ Step(c) \/ Crash(c), ~Commit(c)
      PROVE  UNCHANGED tables
  BY <1>4 DEF Step, Start, FailEarly, CheckDuplicate, InsertRow, MatchIssue, ArticleFails,
     EndBatch, Persist, ClassificationFails, Filter, FilterFails, Summarize,
     SummarizeFails, SaveSummary, SaveFails, Crash, tables
<1>5. CASE UNCHANGED vars
  BY <1>5 DEF vars, tables, FeedConsistent
<1>6. QED
  BY <1>1, <1>2, <1>3, <1>4, <1>5 DEF Next, Finished

\* Updates, feed entries and stored articles agree at all times, also while issues
\* are deleted.
THEOREM FeedAgrees == Spec => []FeedConsistent
  BY Invariants, InitFeed, NextFeed, PTL DEF Spec
=============================================================================
