--------------------------- MODULE Catalog_proofs ---------------------------
(***************************************************************************)
(* Theorems of Catalog, for any number of topics, tags, sources, users and *)
(* requests, overlapping in any way.                                       *)
(***************************************************************************)
EXTENDS Catalog, FiniteSetTheorems, TLAPS

USE DEF Topics, Unsent, Counting, Manual, Trigger

Labels == Tags \cup Events

Stages == {"idle", "clear", "load", "apply"}

-----------------------------------------------------------------------------
(* Types *)

\* What the fields of a request hold.
AskOK(a) ==
  /\ a.topic \in Topics
  /\ a.op \in {"create", "update", "create_trigger", "delete", "mark", "unmark"}
  /\ a.op = "create" => a.labels \in SUBSET Labels /\ a.sources \in SUBSET Sources
  /\ a.op = "update" => /\ a.labels \in {Unsent} \cup SUBSET Labels
                        /\ a.sources \in {Unsent} \cup SUBSET Sources
  /\ a.op = "create_trigger" => a.topic \in Issues /\ a.sources \in SUBSET Sources
  /\ a.op \in Counting => a.user \in Users

LEMMA AskFields ==
  ASSUME NEW a \in Ask
  PROVE  AskOK(a)
  BY DEF Ask, AskOK, Labels

USE DEF AskOK

\* The length of a list of sources.
LEMMA LengthType ==
  ASSUME NEW s \in Slots, ask[s].sources \in SUBSET Sources
  PROVE  ListLength(s) \in Nat
<1>1. IsFiniteSet(ask[s].sources)
  BY RequestsAssumption, FS_Subset
<1> QED
  BY <1>1, FS_CardinalityType DEF ListLength

SessionOK ==
  /\ at \in [Slots -> Stages]
  /\ ask \in [Slots -> Ask \cup {NoAsk}]
  /\ \A s \in Slots : at[s] # "idle" => ask[s] \in Ask
  /\ seen \in [Slots -> Nat]
  /\ cleared \in [Slots -> SUBSET (Topics \X Labels)]

LEMMA CloseType ==
  ASSUME TypeOK, NEW s \in Slots, NEW inserted, Close(s, inserted)
  PROVE  SessionOK'
  BY DEF TypeOK, Close, Goto, SessionOK, Stages, Labels

LEMMA RefuseType ==
  ASSUME TypeOK, NEW s \in Slots, Refuse(s)
  PROVE  TypeOK'
  BY CloseType DEF Refuse, TypeOK, SessionOK, Stages, Labels, tables, history

LEMMA CountType ==
  ASSUME TypeOK, NEW s \in Slots, ask[s] \in Ask
  PROVE  CountAfter(s) \in Nat \cup {NoRow, Gone}
<1>1. count[ask[s].topic] \in Nat \cup {NoRow, Gone} /\ seen[s] \in Nat
  BY AskFields DEF TypeOK
<1>2. CASE ask[s].op = "create"
  BY <1>2, AskFields, LengthType DEF CountAfter
<1>3. CASE ask[s].op = "update" /\ ask[s].sources # Unsent
  BY <1>1, <1>3, AskFields, LengthType DEF CountAfter
<1>4. CASE ask[s].op = "update" /\ ask[s].sources = Unsent
  BY <1>1, <1>4 DEF CountAfter
<1>5. CASE ask[s].op \in {"create_trigger", "delete"}
  BY <1>1, <1>5 DEF CountAfter
<1>6. CASE ask[s].op \in Counting
  BY <1>1, <1>6 DEF CountAfter
<1> QED
  BY <1>2, <1>3, <1>4, <1>5, <1>6, AskFields

LEMMA ApplyType ==
  ASSUME TypeOK, NEW s \in Slots, Apply(s)
  PROVE  TypeOK'
<1>1. ask[s] \in Ask
  BY DEF Apply, TypeOK
<1>2. SessionOK'
  BY CloseType DEF Apply
<1>3. owner' \in [Sources -> Topics \cup {NoRow, Gone, Manual, Trigger}]
  BY <1>1, AskFields DEF Apply, OwnerAfter, TypeOK
<1>4. count' \in [Topics -> Nat \cup {NoRow, Gone}]
  BY <1>1, CountType DEF Apply, TypeOK
<1>5. ask[s].op \in {"create", "update"} /\ ask[s].labels # Unsent =>
        NewLabels(ask[s]) \subseteq Topics \X Labels /\ ask[s].labels \in SUBSET Labels
  BY <1>1, AskFields DEF NewLabels
<1>6. labels' \subseteq Topics \X Labels
  <2>1. ask[s].op = "create" => NewLabels(ask[s]) \subseteq Topics \X Labels
    BY <1>1, AskFields DEF NewLabels
  <2> QED
    BY <1>5, <2>1 DEF Apply, LabelsAfter, LabelsWithout, Left, TypeOK, Labels
<1>7. marks' \subseteq Users \X Topics
  BY <1>1, AskFields DEF Apply, MarksAfter, MarksWithout, TypeOK
<1>8. given' \in [Topics -> SUBSET Labels]
  BY <1>5 DEF Apply, TypeOK, Labels
<1>9. mixed' \subseteq Topics /\ raced' \subseteq Issues /\ disturbed' \subseteq Events
  BY DEF Apply, DisturbedBy, TypeOK
<1> QED
  BY <1>2, <1>3, <1>4, <1>6, <1>7, <1>8, <1>9 DEF Apply, TypeOK, SessionOK, Stages, Labels

LEMMA BeginType ==
  ASSUME TypeOK, NEW s \in Slots, Begin(s)
  PROVE  TypeOK'
<1>1. PICK a \in Ask :
        /\ Found(a)
        /\ ask' = [ask EXCEPT ![s] = a]
        /\ Goto(s, FirstStage(a))
        /\ seen' = [seen EXCEPT ![s] = IF a.op = "update" THEN count[a.topic] ELSE 0]
  BY DEF Begin
<1>2. a.op = "update" => count[a.topic] \in Nat
  BY <1>1, AskFields DEF Found, Exists, TypeOK
<1>3. SessionOK'
  BY <1>1, <1>2 DEF Begin, Goto, FirstStage, SessionOK, TypeOK, Stages, Labels
<1>4. requests' \in 0..MaxRequests
  BY RequestsAssumption DEF Begin, TypeOK
<1> QED
  BY <1>3, <1>4 DEF Begin, SessionOK, TypeOK, Stages, Labels, tables, history

LEMMA NextType == TypeOK /\ [Next]_vars => TypeOK'
<1> SUFFICES ASSUME TypeOK, [Next]_vars PROVE TypeOK'
  OBVIOUS
<1>1. ASSUME NEW g \in Tags, CreateTag(g) \/ DeleteTag(g) PROVE TypeOK'
  BY <1>1 DEF CreateTag, DeleteTag, TypeOK, session, history
<1>2. ASSUME NEW x \in Sources, CreateSource(x) \/ DeleteSource(x) PROVE TypeOK'
  BY <1>2 DEF CreateSource, DeleteSource, TypeOK, session, history
<1>3. ASSUME NEW s \in Slots, Clear(s) PROVE TypeOK'
  BY <1>3 DEF Clear, Goto, TypeOK, tables, history
<1>4. ASSUME NEW s \in Slots, Load(s) PROVE TypeOK'
  <2>1. ask[s] \in Ask /\ count[ask[s].topic] \in Nat
    BY <1>4, AskFields DEF Load, RowChanges, Exists, TypeOK
  <2> QED
    BY <1>4, <2>1 DEF Load, Goto, TypeOK, tables, history
<1>5. ASSUME NEW s \in Slots, LoadFails(s) \/ ApplyFails(s) \/ Abort(s) PROVE TypeOK'
  BY <1>5, RefuseType DEF LoadFails, ApplyFails, Abort
<1>6. CASE UNCHANGED vars
  BY <1>6 DEF vars, tables, session, history, TypeOK
<1> QED
  BY <1>1, <1>2, <1>3, <1>4, <1>5, <1>6, BeginType, ApplyType DEF Next

LEMMA InitType == Init => TypeOK
  BY RequestsAssumption DEF Init, TypeOK

\* Every variable keeps its type; source_count and tracker_count never become negative,
\* however stale the value they are computed from.
THEOREM TypeCorrect == Spec => []TypeOK
  BY InitType, NextType, PTL DEF Spec

-----------------------------------------------------------------------------
(* Rows of association tables *)

\* What a flush does to the topics: only a deletion takes one away, and a topic that gets
\* rows is there afterwards.
LEMMA TopicsAfter ==
  ASSUME TypeOK, NEW s \in Slots, Apply(s), NEW t \in Topics
  PROVE  /\ (t # ask[s].topic \/ ask[s].op # "delete") /\ Exists(t) => Exists(t)'
         /\ t = ask[s].topic /\ ask[s].op \in {"create", "update", "mark"} => Exists(t)'
<1>1. ask[s] \in Ask
  BY DEF Apply, TypeOK
<1>2. count' = [count EXCEPT ![ask[s].topic] = CountAfter(s)] /\ CanApply(s)
  BY DEF Apply
<1>3. t = ask[s].topic => count'[t] = CountAfter(s)
  BY <1>2 DEF TypeOK
<1>4. \A n \in Nat : n \notin {NoRow, Gone}
  BY RowsAssumption
<1>5. ASSUME t = ask[s].topic, CountAfter(s) \in Nat PROVE Exists(t)'
  <2>1. CountAfter(s) \notin {NoRow, Gone}
    BY <1>4, <1>5
  <2> QED
    BY <1>3, <1>5, <2>1 DEF Exists
<1>6. ASSUME t = ask[s].topic, ask[s].op # "delete", Exists(t) PROVE Exists(t)'
  <2>1. count[t] \in Nat /\ seen[s] \in Nat
    BY <1>6 DEF Exists, TypeOK
  <2>2. CountAfter(s) \in Nat
    BY <1>1, <1>6, <2>1, AskFields, LengthType DEF CountAfter
  <2> QED
    BY <1>5, <1>6, <2>2
<1>7. ASSUME t = ask[s].topic, ask[s].op = "create" PROVE Exists(t)'
  <2>1. CountAfter(s) \in Nat
    BY <1>1, <1>7, AskFields, LengthType DEF CountAfter
  <2> QED
    BY <1>5, <1>7, <2>1
<1>8. t = ask[s].topic /\ ask[s].op \in {"update", "mark"} => Exists(t)
  BY <1>2 DEF CanApply
<1>9. t # ask[s].topic /\ Exists(t) => Exists(t)'
  BY <1>2 DEF Exists, TypeOK
<1> QED
  BY <1>6, <1>7, <1>8, <1>9

\* The labels and marks a flush leaves are old ones whose ends it does not delete, and
\* new ones whose ends are there.
LEMMA ApplyKeepsEnds ==
  ASSUME TypeOK, NoOrphanRows, NEW s \in Slots, Apply(s)
  PROVE  NoOrphanRows'
<1>1. ask[s] \in Ask /\ CanApply(s) /\ tag' = tag
  BY DEF Apply, TypeOK
<1>2. \A l \in Labels : (l # ask[s].topic \/ ask[s].op # "delete") /\ Live(l) => Live(l)'
  BY <1>1, TopicsAfter DEF Live, Labels
<1>3. ASSUME NEW r \in labels'
      PROVE  Exists(r[1])' /\ Live(r[2])'
  <2>1. CASE r \in labels /\ ask[s].op # "delete"
    BY <1>2, <2>1, TopicsAfter DEF NoOrphanRows, TypeOK, Labels
  <2>2. CASE ask[s].op = "delete"
    <3>1. r \in labels /\ r[1] # ask[s].topic /\ r[2] # ask[s].topic
      BY <1>3, <2>2 DEF Apply, LabelsAfter, LabelsWithout
    <3> QED
      BY <1>2, <3>1, TopicsAfter DEF NoOrphanRows, TypeOK, Labels
  <2>3. CASE r \notin labels
    <3>1. /\ ask[s].op \in {"create", "update"}
          /\ ask[s].labels # Unsent
          /\ r \in NewLabels(ask[s])
      BY <1>1, <1>3, <2>3, AskFields, KeepAssumption
         DEF Apply, LabelsAfter, LabelsWithout, Left, Labels
    <3>2. r[1] = ask[s].topic /\ r[2] \in ask[s].labels /\ r[2] \in Labels /\ Live(r[2])
      BY <1>1, <3>1, AskFields DEF NewLabels, CanApply
    <3>3. r[1] \in Topics /\ Exists(r[1])'
      BY <1>1, <3>1, <3>2, TopicsAfter, AskFields
    <3> QED
      BY <1>2, <3>1, <3>2, <3>3
  <2> QED
    BY <2>1, <2>2, <2>3
<1>4. ASSUME NEW r \in marks'
      PROVE  Exists(r[2])'
  <2>1. CASE ask[s].op = "delete"
    BY <1>4, <2>1, TopicsAfter DEF Apply, MarksAfter, MarksWithout, NoOrphanRows, TypeOK
  <2>2. CASE ask[s].op # "delete" /\ r \in marks
    BY <2>2, TopicsAfter DEF NoOrphanRows, TypeOK
  <2>3. CASE ask[s].op # "delete" /\ r \notin marks
    <3>1. ask[s].op = "mark" /\ r[2] = ask[s].topic
      BY <1>4, <2>3 DEF Apply, MarksAfter
    <3> QED
      BY <1>1, <3>1, TopicsAfter, AskFields
  <2> QED
    BY <2>1, <2>2, <2>3
<1> QED
  BY <1>3, <1>4 DEF NoOrphanRows

LEMMA OrphansNext == TypeOK /\ NoOrphanRows /\ [Next]_vars => NoOrphanRows'
<1> SUFFICES ASSUME TypeOK, NoOrphanRows, [Next]_vars PROVE NoOrphanRows'
  OBVIOUS
<1>1. ASSUME NEW g \in Tags, CreateTag(g) \/ DeleteTag(g) PROVE NoOrphanRows'
  BY <1>1 DEF CreateTag, DeleteTag, NoOrphanRows, Live, Exists, TypeOK
<1>2. ASSUME UNCHANGED <<tag, count, labels, marks>> PROVE NoOrphanRows'
  BY <1>2 DEF NoOrphanRows, Live, Exists
<1>3. ASSUME NEW x \in Sources, CreateSource(x) \/ DeleteSource(x) PROVE NoOrphanRows'
  BY <1>2, <1>3 DEF CreateSource, DeleteSource
<1>4. ASSUME NEW s \in Slots,
             Begin(s) \/ Clear(s) \/ Load(s) \/ LoadFails(s) \/ ApplyFails(s) \/ Abort(s)
      PROVE  NoOrphanRows'
  BY <1>2, <1>4 DEF Begin, Clear, Load, LoadFails, ApplyFails, Abort, Refuse, tables
<1>5. CASE UNCHANGED vars
  BY <1>2, <1>5 DEF vars, tables
<1> QED
  BY <1>1, <1>3, <1>4, <1>5, ApplyKeepsEnds DEF Next

\* The association tables never refer to a topic, tag or event that is gone, for any
\* requests and deletions that overlap.
THEOREM NothingOrphaned == Spec => []NoOrphanRows
<1>1. Init => NoOrphanRows
  BY DEF Init, NoOrphanRows
<1> QED
  BY <1>1, TypeCorrect, OrphansNext, PTL DEF Spec

-----------------------------------------------------------------------------
(* Requests and their topics *)

\* The topic of a creation is not there yet, and no other request creates it.
CreatesAlone ==
  \A s \in Slots : at[s] # "idle" /\ ask[s].op = "create" =>
    /\ count[ask[s].topic] = NoRow
    /\ \A r \in Slots : at[r] # "idle" /\ ask[r].op = "create" /\ ask[r].topic = ask[s].topic
                          => r = s

\* The topic of any other request was there once; so was the owner of a source.
Known ==
  /\ \A s \in Slots : at[s] # "idle" /\ ask[s].op # "create" => count[ask[s].topic] # NoRow
  /\ \A x \in Sources : owner[x] \in Topics => count[owner[x]] # NoRow

\* A request that has inserted or deleted its mark of an issue knows the count, unless it
\* is raced, and the issue stays until it commits.
Counts(s) == at[s] = "apply" /\ ask[s].op \in Counting /\ ask[s].topic \in Issues

Counted ==
  \A s \in Slots : Counts(s) =>
    /\ Exists(ask[s].topic)
    /\ ask[s].topic \notin raced =>
         /\ seen[s] = count[ask[s].topic]
         /\ <<ask[s].user, ask[s].topic>> \in marks <=> ask[s].op = "unmark"

Replaces(s) == ask[s].op = "update" /\ ask[s].labels # Unsent

\* Only replacing labels has a DELETE of its own, only tracking loads a count.
Staged ==
  \A s \in Slots : /\ at[s] = "clear" => Replaces(s)
                   /\ at[s] = "load" => ask[s].op \in Counting

RequestInv == CreatesAlone /\ Known /\ Counted /\ Staged

\* How a flush changes which topics there are.
LEMMA TopicChanges ==
  ASSUME TypeOK, RequestInv, NEW s \in Slots, Apply(s), NEW t \in Topics
  PROVE  /\ t # ask[s].topic => count'[t] = count[t]
         /\ t = ask[s].topic /\ ask[s].op = "create" => count[t] = NoRow
         /\ t # ask[s].topic \/ ask[s].op \notin {"create", "delete"} => (Exists(t)' <=> Exists(t))
         /\ t = ask[s].topic /\ ask[s].op = "delete" => count'[t] = Gone
         /\ count[t] # NoRow => count'[t] # NoRow
<1>1. ask[s] \in Ask /\ at[s] = "apply"
  BY DEF Apply, TypeOK
<1>2. count' = [count EXCEPT ![ask[s].topic] = CountAfter(s)] /\ CanApply(s)
  BY DEF Apply
<1>3. t # ask[s].topic => count'[t] = count[t]
  BY <1>2 DEF TypeOK
<1>4. t = ask[s].topic /\ ask[s].op = "create" => count[t] = NoRow
  BY <1>1 DEF RequestInv, CreatesAlone
<1>5. t = ask[s].topic /\ ask[s].op = "delete" => count'[t] = Gone
  BY <1>2 DEF TypeOK, CountAfter
<1>6. ASSUME t = ask[s].topic, ask[s].op \notin {"create", "delete"}
      PROVE  (Exists(t) /\ Exists(t)') \/ count'[t] = count[t]
  <2>1. CASE Exists(t)
    BY <1>6, <2>1, TopicsAfter
  <2>2. CASE ~Exists(t)
    <3>1. ask[s].op = "unmark"
      BY <1>1, <1>2, <1>6, <2>2, AskFields DEF CanApply
    <3>2. t \notin Issues
      BY <1>1, <1>6, <2>2, <3>1 DEF RequestInv, Counted, Counts
    <3>3. CountAfter(s) = count[t]
      BY <1>6, <3>1, <3>2 DEF CountAfter
    <3> QED
      BY <1>2, <1>6, <3>3 DEF TypeOK
  <2> QED
    BY <2>1, <2>2
<1> QED
  BY <1>3, <1>4, <1>5, <1>6, RowsAssumption DEF Exists

LEMMA CloseSessions ==
  ASSUME TypeOK, NEW s \in Slots, NEW inserted, Close(s, inserted)
  PROVE  /\ at'[s] = "idle"
         /\ \A r \in Slots \ {s} : at'[r] = at[r] /\ ask'[r] = ask[r] /\ seen'[r] = seen[r]
  BY DEF Close, Goto, TypeOK

LEMMA RequestApply ==
  ASSUME TypeOK, RequestInv, NEW s \in Slots, Apply(s)
  PROVE  RequestInv'
<1>1. ask[s] \in Ask /\ at[s] = "apply" /\ ask[s].topic \in Topics
  BY AskFields DEF Apply, TypeOK
<1>2. /\ at'[s] = "idle"
      /\ \A r \in Slots \ {s} : at'[r] = at[r] /\ ask'[r] = ask[r] /\ seen'[r] = seen[r]
  BY CloseSessions DEF Apply
<1>3. \A r \in Slots : at[r] # "idle" => ask[r].topic \in Topics
  BY AskFields DEF TypeOK
<1>4. CreatesAlone'
  <2> SUFFICES ASSUME NEW r \in Slots, at'[r] # "idle", ask'[r].op = "create"
               PROVE  /\ count'[ask'[r].topic] = NoRow
                      /\ \A q \in Slots : at'[q] # "idle" /\ ask'[q].op = "create"
                                             /\ ask'[q].topic = ask'[r].topic => q = r
    BY DEF CreatesAlone
  <2>1. r # s /\ at[r] # "idle" /\ ask[r].op = "create" /\ ask'[r] = ask[r]
    BY <1>2
  <2>2. count[ask[r].topic] = NoRow /\ ask[r].topic # ask[s].topic
    BY <1>1, <2>1 DEF RequestInv, CreatesAlone, Known
  <2>3. count'[ask[r].topic] = NoRow
    BY <1>3, <2>1, <2>2, TopicChanges
  <2>4. ASSUME NEW q \in Slots, at'[q] # "idle", ask'[q].op = "create",
               ask'[q].topic = ask'[r].topic
        PROVE  q = r
    <3>1. q # s /\ at[q] # "idle" /\ ask'[q] = ask[q]
      BY <1>2, <2>4
    <3> QED
      BY <2>1, <2>4, <3>1 DEF RequestInv, CreatesAlone
  <2>5. count'[ask'[r].topic] = NoRow
    BY <2>1, <2>3
  <2> QED
    BY <2>4, <2>5
<1>5. Known'
  <2>1. ASSUME NEW r \in Slots, at'[r] # "idle", ask'[r].op # "create"
        PROVE  count'[ask'[r].topic] # NoRow
    BY <1>2, <1>3, <2>1, TopicChanges DEF RequestInv, Known
  <2>2. ASSUME NEW x \in Sources, owner'[x] \in Topics
        PROVE  count'[owner'[x]] # NoRow
    <3>1. CASE x \in Taken(s)
      <4>1. owner'[x] = ask[s].topic /\ ask[s].op \in {"create", "update"}
        BY <2>2, <3>1, OwnersAssumption DEF Apply, OwnerAfter, Taken
      <4> QED
        BY <1>1, <4>1, TopicsAfter DEF Exists
    <3>2. CASE x \notin Taken(s)
      BY <2>2, <3>2, TopicChanges DEF Apply, OwnerAfter, RequestInv, Known
    <3> QED
      BY <3>1, <3>2
  <2> QED
    BY <2>1, <2>2 DEF Known
<1>6. Counted'
  <2> SUFFICES ASSUME NEW r \in Slots, Counts(r)'
               PROVE  (/\ Exists(ask[r].topic)
                       /\ ask[r].topic \notin raced =>
                           /\ seen[r] = count[ask[r].topic]
                           /\ <<ask[r].user, ask[r].topic>> \in marks <=> ask[r].op = "unmark")'
    BY DEF Counted
  <2>1. r # s /\ at[r] = "apply" /\ ask'[r] = ask[r] /\ seen'[r] = seen[r] /\ Counts(r)
    BY <1>2 DEF Counts
  <2> DEFINE i == ask[r].topic
  <2>2. i \in Topics /\ i \in Issues /\ Exists(i) /\ r \in Running
    BY <1>3, <2>1 DEF RequestInv, Counted, Counts, Running
  <2>3. CASE ask[s].topic # i
    <3>1. count'[i] = count[i]
      BY <2>2, <2>3, TopicChanges
    <3>2. <<ask[r].user, i>> \in marks' <=> <<ask[r].user, i>> \in marks
      BY <2>3 DEF Apply, MarksAfter, MarksWithout
    <3>3. raced \subseteq raced'
      BY DEF Apply
    <3> QED
      BY <2>1, <2>2, <3>1, <3>2, <3>3 DEF RequestInv, Counted, Exists
  <2>4. CASE ask[s].topic = i /\ ask[s].op \in Counting
    <3>1. s \in CountingOn(s) /\ r \in CountingOn(s)
      BY <1>1, <2>1, <2>2, <2>4 DEF CountingOn, Counts, Running
    <3>2. i \in raced'
      BY <2>1, <2>2, <2>4, <3>1 DEF Apply, Raced
    <3>3. count'[i] \notin {NoRow, Gone}
      BY <2>2, <2>4, TopicChanges DEF Exists
    <3> QED
      BY <2>1, <3>2, <3>3 DEF Exists
  <2>5. CASE ask[s].topic = i /\ ask[s].op \notin Counting
    <3>1. ask[s].op \notin {"delete", "create"}
      BY <1>1, <2>1, <2>2, <2>5, RowsAssumption
         DEF Apply, TopicLocked, Counts, RequestInv, CreatesAlone, Exists
    <3>2. count'[i] = count[i]
      <4>1. CountAfter(s) = count[i]
        BY <1>1, <2>2, <2>5, <3>1, AskFields, TopicsAssumption DEF CountAfter
      <4> QED
        BY <2>2, <2>5, <4>1 DEF Apply, TypeOK
    <3>3. marks' = marks
      BY <2>5, <3>1 DEF Apply, MarksAfter
    <3>4. raced \subseteq raced'
      BY DEF Apply
    <3> QED
      BY <2>1, <2>2, <3>2, <3>3, <3>4 DEF RequestInv, Counted, Exists
  <2> QED
    BY <2>3, <2>4, <2>5
<1>7. Staged'
  BY <1>2 DEF RequestInv, Staged, Replaces
<1> QED
  BY <1>4, <1>5, <1>6, <1>7 DEF RequestInv

\* A request that ends without a flush leaves the others alone.
LEMMA RequestEnds ==
  ASSUME TypeOK, RequestInv, NEW s \in Slots, Refuse(s)
  PROVE  RequestInv'
<1>1. UNCHANGED <<owner, count, marks, raced>>
  BY DEF Refuse, tables, history
<1>2. /\ at'[s] = "idle"
      /\ \A r \in Slots \ {s} : at'[r] = at[r] /\ ask'[r] = ask[r] /\ seen'[r] = seen[r]
  BY CloseSessions DEF Refuse
<1>3. CreatesAlone'
  <2>1. ASSUME NEW r \in Slots, at'[r] # "idle" PROVE at[r] # "idle" /\ ask'[r] = ask[r]
    BY <1>2, <2>1
  <2> QED
    BY <1>1, <2>1 DEF RequestInv, CreatesAlone
<1>4. Known'
  BY <1>1, <1>2 DEF RequestInv, Known
<1>5. Counted'
  BY <1>1, <1>2 DEF RequestInv, Counted, Counts, Exists
<1>6. Staged'
  BY <1>2 DEF RequestInv, Staged, Replaces
<1> QED
  BY <1>3, <1>4, <1>5, <1>6 DEF RequestInv

LEMMA RequestBegins ==
  ASSUME TypeOK, RequestInv, NEW s \in Slots, Begin(s)
  PROVE  RequestInv'
<1>1. PICK a \in Ask :
        /\ a.op = "create" => \A r \in Running : ~(ask[r].op = "create" /\ ask[r].topic = a.topic)
        /\ Found(a)
        /\ ask' = [ask EXCEPT ![s] = a]
        /\ Goto(s, FirstStage(a))
  BY DEF Begin
<1>2. UNCHANGED <<owner, count, marks, raced>> /\ at[s] = "idle"
  BY DEF Begin, tables, history
<1>3. /\ ask'[s] = a /\ at'[s] = FirstStage(a)
      /\ \A r \in Slots \ {s} : at'[r] = at[r] /\ ask'[r] = ask[r] /\ seen'[r] = seen[r]
  BY <1>1 DEF Begin, Goto, TypeOK
<1>4. IF a.op = "create" THEN count[a.topic] = NoRow ELSE count[a.topic] # NoRow
  BY <1>1 DEF Found, Exists
<1>5. CreatesAlone'
  <2>1. ASSUME NEW r \in Slots, at'[r] # "idle", ask'[r].op = "create"
        PROVE  count'[ask'[r].topic] = NoRow
    BY <1>2, <1>3, <1>4, <2>1 DEF RequestInv, CreatesAlone
  <2>2. ASSUME NEW r \in Slots, at'[r] # "idle", ask'[r].op = "create",
               NEW q \in Slots, at'[q] # "idle", ask'[q].op = "create",
               ask'[q].topic = ask'[r].topic
        PROVE  q = r
    BY <1>1, <1>3, <2>2 DEF RequestInv, CreatesAlone, Running
  <2> QED
    BY <2>1, <2>2 DEF CreatesAlone
<1>6. Known'
  BY <1>2, <1>3, <1>4 DEF RequestInv, Known
<1>7. Counted'
  <2>1. ~Counts(s)'
    BY <1>3 DEF Counts, FirstStage
  <2> QED
    BY <1>2, <1>3, <2>1 DEF RequestInv, Counted, Counts, Exists
<1>8. Staged'
  BY <1>3 DEF RequestInv, Staged, Replaces, FirstStage
<1> QED
  BY <1>5, <1>6, <1>7, <1>8 DEF RequestInv

LEMMA RequestNext == TypeOK /\ RequestInv /\ [Next]_vars => RequestInv'
<1> SUFFICES ASSUME TypeOK, RequestInv, [Next]_vars PROVE RequestInv'
  OBVIOUS
<1>1. ASSUME NEW g \in Tags, CreateTag(g) \/ DeleteTag(g) PROVE RequestInv'
  BY <1>1 DEF CreateTag, DeleteTag, session, history, RequestInv, CreatesAlone, Known, Counted,
              Counts, Staged, Replaces, Exists
<1>2. ASSUME NEW x \in Sources, CreateSource(x) \/ DeleteSource(x) PROVE RequestInv'
  <2>1. UNCHANGED <<count, marks, at, ask, seen, raced>>
    BY <1>2 DEF CreateSource, DeleteSource, session, history
  <2>2. \A y \in Sources : owner'[y] \in Topics => owner'[y] = owner[y]
    BY <1>2, OwnersAssumption, RowsAssumption DEF CreateSource, DeleteSource, TypeOK
  <2> QED
    BY <2>1, <2>2 DEF RequestInv, CreatesAlone, Known, Counted, Counts, Staged, Replaces, Exists
<1>3. ASSUME NEW s \in Slots, Clear(s) PROVE RequestInv'
  <2>1. UNCHANGED <<owner, count, marks, ask, seen, raced>> /\ at' = [at EXCEPT ![s] = "apply"]
    BY <1>3 DEF Clear, Goto, tables, history
  <2>2. at[s] = "clear"
    BY <1>3 DEF Clear
  <2> QED
    BY <2>1, <2>2
       DEF RequestInv, CreatesAlone, Known, Counted, Counts, Staged, Replaces, Exists, TypeOK
<1>4. ASSUME NEW s \in Slots, Load(s) PROVE RequestInv'
  <2>1. /\ UNCHANGED <<owner, count, marks, ask, raced>>
        /\ at' = [at EXCEPT ![s] = "apply"]
        /\ seen' = [seen EXCEPT ![s] = count[ask[s].topic]]
    BY <1>4 DEF Load, Goto, tables, history
  <2>2. at[s] = "load" /\ RowChanges(ask[s])
    BY <1>4 DEF Load
  <2>3. CreatesAlone' /\ Known' /\ Staged'
    BY <2>1, <2>2 DEF RequestInv, CreatesAlone, Known, Staged, Replaces, TypeOK
  <2>4. Counted'
    BY <2>1, <2>2 DEF RequestInv, Counted, Counts, Staged, Replaces, Exists, RowChanges, TypeOK
  <2> QED
    BY <2>3, <2>4 DEF RequestInv
<1>5. ASSUME NEW s \in Slots, LoadFails(s) \/ ApplyFails(s) \/ Abort(s) PROVE RequestInv'
  BY <1>5, RequestEnds DEF LoadFails, ApplyFails, Abort
<1>6. CASE UNCHANGED vars
  BY <1>6 DEF vars, tables, session, history, RequestInv, CreatesAlone, Known, Counted, Counts,
              Staged, Replaces, Exists
<1> QED
  BY <1>1, <1>2, <1>3, <1>4, <1>5, <1>6, RequestBegins, RequestApply DEF Next

LEMMA Requests == Spec => []RequestInv
<1>1. Init => RequestInv
  BY OwnersAssumption, RowsAssumption
     DEF Init, RequestInv, CreatesAlone, Known, Counted, Counts, Staged
<1> QED
  BY <1>1, TypeCorrect, RequestNext, PTL DEF Spec

-----------------------------------------------------------------------------
(* Trackers *)

LEMMA TrackersFinite ==
  ASSUME NEW i
  PROVE  IsFiniteSet(Trackers(i)) /\ Cardinality(Trackers(i)) \in Nat
<1>1. IsFiniteSet(Trackers(i))
  BY RequestsAssumption, FS_Subset DEF Trackers
<1> QED
  BY <1>1, FS_CardinalityType

\* A flush on an issue that no other request counts on.
LEMMA TrackersApply ==
  ASSUME TypeOK, RequestInv, NoOrphanRows, TrackersExact, NEW s \in Slots, Apply(s)
  PROVE  TrackersExact'
<1> SUFFICES ASSUME NEW i \in Issues, Exists(i)', i \notin raced'
             PROVE  count'[i] = Cardinality(Trackers(i)')
  BY DEF TrackersExact
<1>1. ask[s] \in Ask /\ at[s] = "apply" /\ CanApply(s) /\ i \in Topics /\ i \notin Events
  BY TopicsAssumption DEF Apply, TypeOK
<1>2. i \notin raced
  BY DEF Apply
<1> DEFINE u == ask[s].user
<1>3. CASE i # ask[s].topic
  <2>1. count'[i] = count[i] /\ Exists(i)
    BY <1>1, <1>3, TopicChanges DEF Exists
  <2>2. Trackers(i)' = Trackers(i)
    BY <1>3 DEF Apply, MarksAfter, MarksWithout, Trackers
  <2> QED
    BY <1>2, <2>1, <2>2 DEF TrackersExact
<1>4. CASE i = ask[s].topic /\ ask[s].op = "create"
  <2>1. Trackers(i)' = {}
    BY <1>1, <1>4, TopicChanges DEF Apply, MarksAfter, Trackers, NoOrphanRows, Exists
  <2>2. count'[i] = 0
    BY <1>1, <1>4 DEF Apply, CountAfter, TypeOK
  <2> QED
    BY <2>1, <2>2, FS_EmptySet
<1>5. CASE i = ask[s].topic /\ ask[s].op = "delete"
  BY <1>1, <1>5, TopicChanges DEF Exists
<1>6. CASE i = ask[s].topic /\ ask[s].op \in {"update", "create_trigger"}
  <2>1. Exists(i)
    BY <1>1, <1>6 DEF CanApply
  <2>2. Trackers(i)' = Trackers(i)
    BY <1>6 DEF Apply, MarksAfter, Trackers
  <2>3. count'[i] = count[i]
    BY <1>1, <1>6 DEF Apply, CountAfter, TypeOK
  <2> QED
    BY <1>2, <2>1, <2>2, <2>3 DEF TrackersExact
<1>7. CASE i = ask[s].topic /\ ask[s].op \in Counting
  <2>1. /\ Exists(i) /\ seen[s] = count[i] /\ u \in Users
        /\ u \in Trackers(i) <=> ask[s].op = "unmark"
    BY <1>1, <1>2, <1>7, AskFields DEF RequestInv, Counted, Counts, Trackers
  <2>2. count[i] = Cardinality(Trackers(i)) /\ count'[i] = CountAfter(s)
    BY <1>1, <1>2, <1>7, <2>1 DEF TrackersExact, Apply, TypeOK
  <2>3. CASE ask[s].op = "mark"
    <3>1. Trackers(i)' = Trackers(i) \cup {u}
      BY <1>7, <2>1, <2>3 DEF Apply, MarksAfter, Trackers
    <3>2. CountAfter(s) = seen[s] + 1
      BY <1>1, <1>7, <2>3 DEF CountAfter
    <3>3. Cardinality(Trackers(i) \cup {u}) = Cardinality(Trackers(i)) + 1
      BY <2>1, <2>3, TrackersFinite, FS_AddElement
    <3> QED
      BY <2>1, <2>2, <3>1, <3>2, <3>3
  <2>4. CASE ask[s].op = "unmark"
    <3>1. Trackers(i)' = Trackers(i) \ {u}
      BY <1>7, <2>1, <2>4 DEF Apply, MarksAfter, Trackers
    <3>2. Cardinality(Trackers(i) \ {u}) = Cardinality(Trackers(i)) - 1
      BY <2>1, <2>4, TrackersFinite, FS_RemoveElement
    <3>3. Cardinality(Trackers(i) \ {u}) \in Nat
      BY TrackersFinite, FS_RemoveElement, FS_CardinalityType
    <3>4. CountAfter(s) = seen[s] - 1
      BY <1>1, <1>7, <2>1, <2>2, <2>4, <3>2, <3>3, TrackersFinite DEF CountAfter
    <3> QED
      BY <2>1, <2>2, <3>1, <3>2, <3>4
  <2> QED
    BY <1>7, <2>3, <2>4
<1> QED
  BY <1>1, <1>3, <1>4, <1>5, <1>6, <1>7, AskFields

LEMMA TrackersNext ==
  TypeOK /\ RequestInv /\ NoOrphanRows /\ TrackersExact /\ [Next]_vars => TrackersExact'
<1> SUFFICES ASSUME TypeOK, RequestInv, NoOrphanRows, TrackersExact, [Next]_vars
             PROVE  TrackersExact'
  OBVIOUS
<1>1. ASSUME UNCHANGED <<count, marks, raced>> PROVE TrackersExact'
  BY <1>1 DEF TrackersExact, Exists, Trackers
<1>2. ASSUME NEW g \in Tags, CreateTag(g) \/ DeleteTag(g) PROVE TrackersExact'
  BY <1>1, <1>2 DEF CreateTag, DeleteTag, history
<1>3. ASSUME NEW x \in Sources, CreateSource(x) \/ DeleteSource(x) PROVE TrackersExact'
  BY <1>1, <1>3 DEF CreateSource, DeleteSource, history
<1>4. ASSUME NEW s \in Slots,
             Begin(s) \/ Clear(s) \/ Load(s) \/ LoadFails(s) \/ ApplyFails(s) \/ Abort(s)
      PROVE  TrackersExact'
  BY <1>1, <1>4 DEF Begin, Clear, Load, LoadFails, ApplyFails, Abort, Refuse, tables, history
<1>5. CASE UNCHANGED vars
  BY <1>1, <1>5 DEF vars, tables, history
<1> QED
  BY <1>2, <1>3, <1>4, <1>5, TrackersApply DEF Next

\* tracker_count is the number of trackers of every issue on which no two requests raced.
THEOREM TrackersAreExact == Spec => []TrackersExact
<1>1. Init => TrackersExact
  BY DEF Init, TrackersExact, Exists
<1> QED
  BY <1>1, TypeCorrect, Requests, NothingOrphaned, TrackersNext, PTL DEF Spec

-----------------------------------------------------------------------------
(* Labels *)

\* Labels that were given existed.
GivenKnown ==
  \A t \in Topics : \A l \in given[t] : IF l \in Tags THEN tag[l] # NoRow ELSE count[l] # NoRow

\* A request that replaces labels has found rows of its topic only, and all there are
\* unless another one replaces them too.
ClearedAll ==
  \A s \in Slots :
    /\ \A r \in cleared[s] : at[s] = "apply" /\ Replaces(s) /\ r[1] = ask[s].topic
    /\ at[s] = "apply" /\ Replaces(s) /\ ask[s].topic \notin mixed =>
         \A r \in labels : r[1] = ask[s].topic => r \in cleared[s]

LabelInv == GivenKnown /\ ClearedAll /\ LabelsAsGiven

\* What is known and not deleted by a flush stays live or not live.
LEMMA LiveAfter ==
  ASSUME TypeOK, RequestInv, NEW s \in Slots, Apply(s), NEW l \in Labels,
         IF l \in Tags THEN tag[l] # NoRow ELSE count[l] # NoRow
  PROVE  Live(l)' <=> Live(l) /\ ~(l = ask[s].topic /\ ask[s].op = "delete")
<1>1. ask[s] \in Ask /\ tag' = tag
  BY DEF Apply, TypeOK
<1>2. CASE l \in Tags
  BY <1>1, <1>2, AskFields, TopicsAssumption DEF Live
<1>3. CASE l \notin Tags
  <2>1. l \in Topics
    BY <1>3 DEF Labels
  <2> QED
    BY <1>1, <1>3, <2>1, TopicChanges, AskFields DEF Live, Exists
<1> QED
  BY <1>2, <1>3

\* The label rows a flush inserts are of its topic; of the others it inserts none.
LEMMA RowsAfter ==
  ASSUME TypeOK, RequestInv, ClearedAll, NEW s \in Slots, Apply(s)
  PROVE  /\ \A r \in LabelsAfter(s) \ Left(s) :
              r[1] = ask[s].topic /\ (ask[s].op = "create" \/ Replaces(s))
         /\ \A r \in labels' : r \in labels \/ r \in NewLabels(ask[s])
         /\ \A r \in labels' \ labels :
              r[1] = ask[s].topic /\ (ask[s].op = "create" \/ Replaces(s))
         /\ \A r \in labels \ labels' :
              \/ r[1] = ask[s].topic /\ (Replaces(s) \/ ask[s].op = "delete")
              \/ r[2] = ask[s].topic /\ ask[s].op = "delete"
<1>1. labels' = LabelsAfter(s)
  BY DEF Apply
<1>2. \A r \in NewLabels(ask[s]) : r[1] = ask[s].topic
  BY DEF NewLabels
<1>3. CASE ask[s].op = "create"
  BY <1>1, <1>2, <1>3 DEF LabelsAfter, Left, ClearedAll, Replaces
<1>4. CASE Replaces(s)
  BY <1>1, <1>2, <1>4 DEF LabelsAfter, Left, ClearedAll, Replaces
<1>5. CASE ask[s].op = "delete"
  BY <1>1, <1>5 DEF LabelsAfter, LabelsWithout, Left, ClearedAll, Replaces
<1>6. CASE ask[s].op \notin {"create", "delete"} /\ ~Replaces(s)
  BY <1>1, <1>6 DEF LabelsAfter, Left, ClearedAll, Replaces
<1> QED
  BY <1>3, <1>4, <1>5, <1>6

LEMMA ClearedApply ==
  ASSUME TypeOK, RequestInv, ClearedAll, NEW s \in Slots, Apply(s)
  PROVE  ClearedAll'
<1>1. at[s] = "apply" /\ mixed \subseteq mixed' /\ ask[s] \in Ask
  BY DEF Apply, TypeOK
<1>2. /\ at'[s] = "idle" /\ cleared'[s] = {}
      /\ \A r \in Slots \ {s} : /\ at'[r] = at[r] /\ ask'[r] = ask[r]
                                /\ cleared'[r] = cleared[r] \ (LabelsAfter(s) \ Left(s))
  BY DEF Apply, Close, Goto, TypeOK
<1> SUFFICES ASSUME NEW q \in Slots, q # s
             PROVE  (/\ \A r \in cleared[q] : at[q] = "apply" /\ Replaces(q) /\ r[1] = ask[q].topic
                     /\ at[q] = "apply" /\ Replaces(q) /\ ask[q].topic \notin mixed =>
                          \A r \in labels : r[1] = ask[q].topic => r \in cleared[q])'
  BY <1>2 DEF ClearedAll
<1>3. \A r \in cleared'[q] : at'[q] = "apply" /\ Replaces(q)' /\ r[1] = ask'[q].topic
  BY <1>2 DEF ClearedAll, Replaces
<1>4. ASSUME at[q] = "apply", Replaces(q), ask[q].topic \notin mixed',
             NEW r \in labels', r[1] = ask[q].topic
      PROVE  r \in cleared'[q]
  <2>1. ask[q].topic \in Topics /\ q \in Running
    BY <1>4, AskFields DEF TypeOK, Running
  <2>2. ~(ask[s].topic = ask[q].topic /\ Replaces(s))
    <3>1. ask[s].topic = ask[q].topic /\ Replaces(s) => {s, q} \subseteq Replacing(s)
      BY <1>1, <1>4, <2>1 DEF Replacing, Replaces, Running
    <3> QED
      BY <1>4, <2>1, <3>1 DEF Apply, Raced
  <2>3. ~(ask[s].topic = ask[q].topic /\ ask[s].op = "create")
    BY <1>1, <1>4, <2>1 DEF RequestInv, CreatesAlone, Known, Replaces
  <2>4. r \in labels /\ r \notin LabelsAfter(s) \ Left(s)
    BY <1>4, <2>2, <2>3, RowsAfter
  <2>5. r \in cleared[q]
    BY <1>1, <1>4, <2>4 DEF ClearedAll
  <2> QED
    BY <1>2, <2>4, <2>5
<1> QED
  BY <1>2, <1>3, <1>4 DEF Replaces

LEMMA LabelsApply ==
  ASSUME TypeOK, RequestInv, NoOrphanRows, LabelInv, NEW s \in Slots, Apply(s)
  PROVE  LabelInv'
<1>1. ask[s] \in Ask /\ at[s] = "apply" /\ CanApply(s) /\ tag' = tag
  BY DEF Apply, TypeOK
<1>2. ask[s].op = "create" \/ Replaces(s) =>
        /\ given' = [given EXCEPT ![ask[s].topic] = ask[s].labels]
        /\ ask[s].labels \subseteq Labels
        /\ \A l \in ask[s].labels : Live(l)
  BY <1>1, AskFields, KeepAssumption DEF Apply, Replaces, CanApply, Labels
<1>3. ~(ask[s].op = "create" \/ Replaces(s)) => given' = given
  BY DEF Apply, Replaces
<1>4. \A l \in Labels : Live(l) => IF l \in Tags THEN tag[l] # NoRow ELSE count[l] # NoRow
  BY RowsAssumption DEF Live, Exists, TypeOK
<1>5. GivenKnown'
  <2> SUFFICES ASSUME NEW t \in Topics, NEW l \in given'[t]
               PROVE  IF l \in Tags THEN tag'[l] # NoRow ELSE count'[l] # NoRow
    BY DEF GivenKnown
  <2>1. l \in Labels /\ IF l \in Tags THEN tag[l] # NoRow ELSE count[l] # NoRow
    BY <1>2, <1>3, <1>4 DEF TypeOK, LabelInv, GivenKnown, Labels
  <2> QED
    BY <1>1, <2>1, TopicChanges DEF Labels
<1>6. LabelsAsGiven'
  <2> SUFFICES ASSUME NEW t \in Topics, Exists(t)', t \notin mixed'
               PROVE  LabelsOf(t)' = {l \in given'[t] : Live(l)'}
    BY DEF LabelsAsGiven
  <2>1. t \notin mixed
    BY DEF Apply
  <2>2. CASE t = ask[s].topic /\ (ask[s].op = "create" \/ Replaces(s))
    <3>1. \A r \in labels : r[1] = t => ask[s].op = "update" /\ r \in cleared[s]
      BY <1>1, <2>1, <2>2, TopicChanges
         DEF NoOrphanRows, Exists, LabelInv, ClearedAll, Replaces
    <3>2. \A l \in Labels : <<t, l>> \in labels' <=> l \in ask[s].labels
      BY <2>2, <3>1 DEF Apply, LabelsAfter, Left, NewLabels, Replaces
    <3>3. LabelsOf(t)' = ask[s].labels
      BY <1>2, <2>2, <3>2 DEF LabelsOf, Labels
    <3>4. given'[t] = ask[s].labels
      BY <1>2, <2>2 DEF TypeOK
    <3>5. \A l \in ask[s].labels : Live(l)'
      BY <1>2, <1>4, <2>2, LiveAfter DEF Replaces
    <3> QED
      BY <3>3, <3>4, <3>5
  <2>3. CASE t # ask[s].topic \/ ~(ask[s].op = "create" \/ Replaces(s))
    <3>1. Exists(t) /\ ~(t = ask[s].topic /\ ask[s].op = "delete")
      BY <2>3, TopicChanges DEF Exists
    <3>2. given'[t] = given[t] /\ given[t] \subseteq Labels
      BY <1>2, <1>3, <2>3 DEF TypeOK, Labels
    <3>3. LabelsOf(t) = {l \in given[t] : Live(l)}
      BY <2>1, <3>1 DEF LabelInv, LabelsAsGiven
    <3>4. \A l \in Labels : <<t, l>> \in labels' <=>
                              <<t, l>> \in labels /\ ~(l = ask[s].topic /\ ask[s].op = "delete")
      BY <2>3, <3>1, RowsAfter DEF LabelInv, Apply, LabelsAfter, LabelsWithout
    <3>5. \A l \in given[t] : Live(l)' <=> Live(l) /\ ~(l = ask[s].topic /\ ask[s].op = "delete")
      BY <3>2, LiveAfter DEF LabelInv, GivenKnown
    <3>6. \A l : l \in LabelsOf(t)' <=> l \in Labels /\ <<t, l>> \in labels'
      BY DEF LabelsOf, Labels
    <3>7. \A l : l \in LabelsOf(t) <=> l \in Labels /\ <<t, l>> \in labels
      BY DEF LabelsOf, Labels
    <3> QED
      BY <3>2, <3>3, <3>4, <3>5, <3>6, <3>7
  <2> QED
    BY <2>2, <2>3
<1> QED
  BY <1>5, <1>6, ClearedApply DEF LabelInv

LEMMA LabelsNext == TypeOK /\ RequestInv /\ NoOrphanRows /\ LabelInv /\ [Next]_vars => LabelInv'
<1> SUFFICES ASSUME TypeOK, RequestInv, NoOrphanRows, LabelInv, [Next]_vars PROVE LabelInv'
  OBVIOUS
<1>1. ASSUME UNCHANGED <<tag, count, labels, given, mixed>>, ClearedAll' PROVE LabelInv'
  BY <1>1 DEF LabelInv, GivenKnown, LabelsAsGiven, LabelsOf, Exists, Live
<1>2. ASSUME NEW g \in Tags, CreateTag(g) PROVE LabelInv'
  <2>1. tag[g] = NoRow /\ tag' = [tag EXCEPT ![g] = "live"]
        /\ UNCHANGED <<count, labels, given, mixed, session>>
    BY <1>2 DEF CreateTag, history
  <2>2. GivenKnown' /\ ClearedAll'
    BY <2>1, RowsAssumption DEF LabelInv, GivenKnown, ClearedAll, Replaces, session, TypeOK
  <2>3. \A t \in Topics : \A l \in given[t] : Live(l)' <=> Live(l)
    BY <2>1 DEF LabelInv, GivenKnown, Live, Exists, TypeOK
  <2>4. LabelsAsGiven'
    BY <2>1, <2>3 DEF LabelInv, LabelsAsGiven, LabelsOf, Exists
  <2> QED
    BY <2>2, <2>4 DEF LabelInv
<1>3. ASSUME NEW g \in Tags, DeleteTag(g) PROVE LabelInv'
  <2>1. tag' = [tag EXCEPT ![g] = Gone] /\ labels' = {r \in labels : r[2] # g}
        /\ UNCHANGED <<count, given, mixed, session>>
    BY <1>3 DEF DeleteTag, history
  <2>2. GivenKnown' /\ ClearedAll'
    BY <2>1, RowsAssumption DEF LabelInv, GivenKnown, ClearedAll, Replaces, session, TypeOK
  <2>3. \A l : Live(l)' <=> Live(l) /\ l # g
    BY <1>3, <2>1, RowsAssumption DEF DeleteTag, Live, Exists, TypeOK
  <2>4. LabelsAsGiven'
    BY <2>1, <2>3 DEF LabelInv, LabelsAsGiven, LabelsOf, Exists
  <2> QED
    BY <2>2, <2>4 DEF LabelInv
<1>4. ASSUME NEW x \in Sources, CreateSource(x) \/ DeleteSource(x) PROVE LabelInv'
  BY <1>1, <1>4 DEF CreateSource, DeleteSource, LabelInv, ClearedAll, Replaces, session, history
<1>5. ASSUME NEW s \in Slots, Refuse(s) PROVE LabelInv'
  <2>1. ClearedAll'
    BY <1>5 DEF Refuse, Close, Goto, LabelInv, ClearedAll, Replaces, tables, history, TypeOK
  <2> QED
    BY <1>1, <1>5, <2>1 DEF Refuse, tables, history
<1>6. ASSUME NEW s \in Slots, LoadFails(s) \/ ApplyFails(s) \/ Abort(s) PROVE LabelInv'
  BY <1>5, <1>6 DEF LoadFails, ApplyFails, Abort
<1>7. ASSUME NEW s \in Slots, Begin(s) PROVE LabelInv'
  <2>1. PICK a \in Ask : ask' = [ask EXCEPT ![s] = a] /\ Goto(s, FirstStage(a))
    BY <1>7 DEF Begin
  <2>2. at[s] = "idle" /\ UNCHANGED <<labels, cleared, mixed>>
    BY <1>7 DEF Begin, tables, history
  <2>3. ClearedAll'
    BY <2>1, <2>2 DEF Goto, FirstStage, LabelInv, ClearedAll, Replaces, TypeOK
  <2> QED
    BY <1>1, <1>7, <2>3 DEF Begin, tables, history
<1>8. ASSUME NEW s \in Slots, Clear(s) PROVE LabelInv'
  <2>1. ClearedAll'
    BY <1>8 DEF Clear, Goto, LabelInv, ClearedAll, Replaces, RequestInv, Staged, tables, history,
                TypeOK
  <2> QED
    BY <1>1, <1>8, <2>1 DEF Clear, tables, history
<1>9. ASSUME NEW s \in Slots, Load(s) PROVE LabelInv'
  <2>1. ~Replaces(s)
    BY <1>9 DEF Load, RequestInv, Staged, Replaces
  <2>2. ClearedAll'
    BY <1>9, <2>1 DEF Load, Goto, LabelInv, ClearedAll, Replaces, tables, history, TypeOK
  <2> QED
    BY <1>1, <1>9, <2>2 DEF Load, tables, history
<1>10. CASE UNCHANGED vars
  BY <1>1, <1>10 DEF vars, tables, session, history, LabelInv, ClearedAll, Replaces
<1> QED
  BY <1>2, <1>3, <1>4, <1>6, <1>7, <1>8, <1>9, <1>10, LabelsApply DEF Next

\* A topic has the labels it was last given, less those deleted since, unless two requests
\* replaced them at once.
THEOREM LabelsAreAsGiven == Spec => []LabelsAsGiven
<1>1. Init => LabelInv
  BY DEF Init, LabelInv, GivenKnown, ClearedAll, LabelsAsGiven, Exists
<1>2. LabelInv => LabelsAsGiven
  BY DEF LabelInv
<1> QED
  BY <1>1, <1>2, TypeCorrect, Requests, NothingOrphaned, LabelsNext, PTL DEF Spec

-----------------------------------------------------------------------------
(* Sources *)

\* The count an update of an undisturbed event has loaded can only be too low.
SeenBelow ==
  \A s \in Slots : \A e \in Events :
    /\ at[s] # "idle" /\ ask[s].op = "update" /\ ask[s].topic = e
    /\ Exists(e) /\ e \notin disturbed
    => seen[s] <= count[e]

SourceInv == SeenBelow /\ SourcesCounted

LEMMA SourcesFinite ==
  ASSUME NEW S \in SUBSET Sources
  PROVE  /\ IsFiniteSet(S) /\ Cardinality(S) \in Nat
         /\ \A T \in SUBSET S : Cardinality(T) <= Cardinality(S)
<1>1. IsFiniteSet(S)
  BY RequestsAssumption, FS_Subset
<1> QED
  BY <1>1, FS_CardinalityType, FS_Subset

\* A flush that takes a list for an event it leaves undisturbed.
LEMMA ListTaken ==
  ASSUME TypeOK, RequestInv, NEW s \in Slots, Apply(s), NEW e \in Events, e \notin disturbed',
         e = ask[s].topic, ask[s].op \in {"create", "update"}, ask[s].sources # Unsent
  PROVE  /\ SourcesOf(e)' = ask[s].sources
         /\ SourcesOf(e) \subseteq ask[s].sources
         /\ ask[s].sources \in SUBSET Sources
<1>1. ask[s] \in Ask
  BY DEF Apply, TypeOK
<1>2. ask[s].sources \in SUBSET Sources
  BY <1>1, AskFields
<1>3. Taken(s) = ask[s].sources /\ SourcesOf(e) \subseteq Taken(s)
  BY DEF Apply, DisturbedBy
<1>4. owner' = [x \in Sources |-> IF x \in Taken(s) THEN e ELSE owner[x]]
  BY DEF Apply, OwnerAfter
<1> QED
  BY <1>2, <1>3, <1>4 DEF SourcesOf

\* Any other flush leaves the sources and the count of an undisturbed event alone.
LEMMA SourcesKept ==
  ASSUME TypeOK, RequestInv, NEW s \in Slots, Apply(s), NEW e \in Events, e \notin disturbed',
         Exists(e)',
         ~(e = ask[s].topic /\ ask[s].op \in {"create", "update"} /\ ask[s].sources # Unsent)
  PROVE  SourcesOf(e)' = SourcesOf(e) /\ count'[e] = count[e]
<1>1. ask[s] \in Ask /\ e \in Topics /\ e \notin Issues
  BY TopicsAssumption DEF Apply, TypeOK
<1>2. CASE e # ask[s].topic
  <2>1. SourcesOf(e) \cap Taken(s) = {}
    BY <1>2 DEF Apply, DisturbedBy
  <2>2. \A x \in Taken(s) : owner'[x] # e
    <3>1. Taken(s) \subseteq Sources
      BY <1>1, AskFields DEF Taken
    <3>2. e # Trigger
      BY OwnersAssumption
    <3>3. \A x \in Taken(s) : owner'[x] \in {Trigger, ask[s].topic}
      BY <3>1 DEF Apply, OwnerAfter
    <3> QED
      BY <1>2, <3>2, <3>3
  <2>3. \A x \in Sources \ Taken(s) : owner'[x] = owner[x]
    BY DEF Apply, OwnerAfter
  <2>4. SourcesOf(e)' = SourcesOf(e)
    BY <2>1, <2>2, <2>3 DEF SourcesOf
  <2> QED
    BY <1>1, <1>2, <2>4, TopicChanges
<1>3. CASE e = ask[s].topic
  <2>1. ~(ask[s].op \in {"create", "update"} /\ ask[s].sources # Unsent)
    BY <1>3
  <2>2. ask[s].op # "delete"
    BY <1>1, <1>3, TopicChanges DEF Exists
  <2>3. ask[s].op \notin {"create", "create_trigger"}
    BY <1>1, <1>3, <2>1, AskFields, KeepAssumption, TopicsAssumption
  <2>4. Taken(s) = {}
    BY <2>1, <2>3 DEF Taken
  <2>5. owner' = [x \in Sources |-> owner[x]]
    BY <2>4 DEF Apply, OwnerAfter
  <2>6. CountAfter(s) = count[e]
    BY <1>1, <1>3, <2>1, <2>2, <2>3 DEF CountAfter
  <2> QED
    BY <1>1, <1>3, <2>5, <2>6 DEF Apply, SourcesOf, TypeOK
<1> QED
  BY <1>2, <1>3

LEMMA SourcesApply ==
  ASSUME TypeOK, RequestInv, SourceInv, NEW s \in Slots, Apply(s)
  PROVE  SourceInv'
<1>1. ask[s] \in Ask /\ at[s] = "apply" /\ disturbed \subseteq disturbed'
  BY DEF Apply, TypeOK
<1>2. ASSUME NEW e \in Events, Exists(e)', e \notin disturbed'
      PROVE  /\ count'[e] = Cardinality(SourcesOf(e)')
             /\ Exists(e) => count[e] <= count'[e]
  <2>1. e \notin disturbed /\ e \in Topics
    BY <1>1, <1>2
  <2>2. Exists(e) => count[e] = Cardinality(SourcesOf(e)) /\ count[e] \in Nat
    BY <2>1 DEF SourceInv, SourcesCounted, Exists, TypeOK
  <2> DEFINE Lists == ask[s].op \in {"create", "update"} /\ ask[s].sources # Unsent
  <2>3. CASE ~(e = ask[s].topic /\ Lists)
    <3>1. SourcesOf(e)' = SourcesOf(e) /\ count'[e] = count[e]
      BY <1>2, <2>3, SourcesKept
    <3> QED
      BY <1>2, <2>2, <3>1 DEF Exists
  <2>4. CASE e = ask[s].topic /\ Lists
    <3>1. /\ SourcesOf(e)' = ask[s].sources
          /\ SourcesOf(e) \subseteq ask[s].sources
          /\ ask[s].sources \in SUBSET Sources
      BY <1>2, <2>4, ListTaken
    <3>2. /\ Cardinality(SourcesOf(e)) <= ListLength(s)
          /\ ListLength(s) = Cardinality(SourcesOf(e)') /\ ListLength(s) \in Nat
      BY <3>1, SourcesFinite DEF ListLength
    <3>3. count'[e] = CountAfter(s)
      BY <2>1, <2>4 DEF Apply, TypeOK
    <3>4. CASE ask[s].op = "create"
      <4>1. ~Exists(e)
        BY <2>1, <2>4, <3>4, TopicChanges DEF Exists
      <4>2. CountAfter(s) = ListLength(s)
        BY <2>4, <3>4 DEF CountAfter
      <4> QED
        BY <3>2, <3>3, <4>1, <4>2
    <3>5. CASE ask[s].op = "update"
      <4>1. Exists(e) /\ seen[s] <= count[e]
        BY <1>1, <1>2, <2>1, <2>4, <3>5, TopicChanges DEF SourceInv, SeenBelow
      <4>2. CountAfter(s) = IF ListLength(s) # seen[s] THEN ListLength(s) ELSE count[e]
        BY <2>4, <3>5 DEF CountAfter
      <4>3. seen[s] \in Nat
        BY DEF TypeOK
      <4> QED
        BY <2>2, <3>2, <3>3, <4>1, <4>2, <4>3
    <3> QED
      BY <2>4, <3>4, <3>5
  <2> QED
    BY <2>3, <2>4
<1>3. SourcesCounted'
  BY <1>2 DEF SourcesCounted
<1>4. SeenBelow'
  <2> SUFFICES ASSUME NEW r \in Slots, NEW e \in Events, at'[r] # "idle",
                      ask'[r].op = "update", ask'[r].topic = e, Exists(e)', e \notin disturbed'
               PROVE  seen'[r] <= count'[e]
    BY DEF SeenBelow
  <2>1. at[r] # "idle" /\ ask'[r] = ask[r] /\ seen'[r] = seen[r]
    BY CloseSessions DEF Apply
  <2>2. e \in Topics /\ count[e] # NoRow
    BY <2>1 DEF RequestInv, Known
  <2>3. Exists(e)
    BY <2>2, TopicChanges DEF Exists
  <2>4. seen[r] <= count[e] /\ count[e] <= count'[e]
    BY <1>1, <1>2, <2>1, <2>3 DEF SourceInv, SeenBelow
  <2>5. seen[r] \in Nat /\ count[e] \in Nat /\ count'[e] \in Nat
    BY <2>2, <2>3, ApplyType DEF TypeOK, Exists
  <2> QED
    BY <2>1, <2>4, <2>5
<1> QED
  BY <1>3, <1>4 DEF SourceInv

LEMMA SourcesNext == TypeOK /\ RequestInv /\ SourceInv /\ [Next]_vars => SourceInv'
<1> SUFFICES ASSUME TypeOK, RequestInv, SourceInv, [Next]_vars PROVE SourceInv'
  OBVIOUS
<1>1. ASSUME UNCHANGED <<owner, count, disturbed>>, SeenBelow' PROVE SourceInv'
  BY <1>1 DEF SourceInv, SourcesCounted, SourcesOf, Exists
<1>2. ASSUME UNCHANGED <<count, disturbed>>,
             \A s \in Slots : at'[s] # "idle" =>
               at[s] # "idle" /\ ask'[s] = ask[s] /\ seen'[s] = seen[s]
      PROVE  SeenBelow'
  BY <1>2 DEF SourceInv, SeenBelow, Exists
<1>3. ASSUME NEW g \in Tags, CreateTag(g) \/ DeleteTag(g) PROVE SourceInv'
  BY <1>1, <1>2, <1>3 DEF CreateTag, DeleteTag, session, history
<1>4. ASSUME NEW x \in Sources, CreateSource(x) \/ DeleteSource(x) PROVE SourceInv'
  <2>1. /\ UNCHANGED <<count, at, ask, seen>> /\ disturbed \subseteq disturbed'
        /\ \A e \in Events : e \notin disturbed' => SourcesOf(e)' = SourcesOf(e)
    BY <1>4, OwnersAssumption, RowsAssumption
       DEF CreateSource, DeleteSource, session, history, SourcesOf, TypeOK
  <2> QED
    BY <2>1 DEF SourceInv, SeenBelow, SourcesCounted, Exists
<1>5. ASSUME NEW s \in Slots, LoadFails(s) \/ ApplyFails(s) \/ Abort(s) PROVE SourceInv'
  <2>1. Refuse(s)
    BY <1>5 DEF LoadFails, ApplyFails, Abort
  <2> QED
    BY <1>1, <1>2, <2>1, CloseSessions DEF Refuse, tables, history
<1>6. ASSUME NEW s \in Slots, Begin(s) PROVE SourceInv'
  <2>1. PICK a \in Ask : /\ ask' = [ask EXCEPT ![s] = a]
                         /\ Goto(s, FirstStage(a))
                         /\ seen' = [seen EXCEPT ![s] =
                                       IF a.op = "update" THEN count[a.topic] ELSE 0]
    BY <1>6 DEF Begin
  <2>2. UNCHANGED <<owner, count, disturbed>>
    BY <1>6 DEF Begin, tables, history
  <2>3. SeenBelow'
    <3> SUFFICES ASSUME NEW r \in Slots, NEW e \in Events, at'[r] # "idle",
                        ask'[r].op = "update", ask'[r].topic = e, Exists(e), e \notin disturbed
                 PROVE  seen'[r] <= count[e]
      BY <2>2 DEF SeenBelow, Exists
    <3>1. CASE r # s
      BY <2>1, <3>1 DEF SourceInv, SeenBelow, Goto, TypeOK
    <3>2. CASE r = s
      <4>1. seen'[r] = count[e] /\ count[e] \in Nat
        BY <2>1, <3>2 DEF TypeOK, Exists
      <4> QED
        BY <4>1
    <3> QED
      BY <3>1, <3>2
  <2> QED
    BY <1>1, <2>2, <2>3
<1>7. ASSUME NEW s \in Slots, Clear(s) PROVE SourceInv'
  BY <1>1, <1>2, <1>7 DEF Clear, Goto, tables, history, TypeOK
<1>8. ASSUME NEW s \in Slots, Load(s) PROVE SourceInv'
  <2>1. ask[s].op # "update"
    BY <1>8 DEF Load, RequestInv, Staged
  <2>2. SeenBelow'
    BY <1>8, <2>1 DEF Load, Goto, SourceInv, SeenBelow, Exists, tables, history, TypeOK
  <2> QED
    BY <1>1, <1>8, <2>2 DEF Load, tables, history
<1>9. CASE UNCHANGED vars
  BY <1>1, <1>2, <1>9 DEF vars, tables, session, history
<1> QED
  BY <1>3, <1>4, <1>5, <1>6, <1>7, <1>8, <1>9, SourcesApply DEF Next

\* source_count is the number of sources of every event whose sources came and went only
\* with lists that named all of them.
THEOREM SourcesAreCounted == Spec => []SourcesCounted
<1>1. Init => SourceInv
  BY DEF Init, SourceInv, SeenBelow, SourcesCounted, Exists
<1>2. SourceInv => SourcesCounted
  BY DEF SourceInv
<1> QED
  BY <1>1, <1>2, TypeCorrect, Requests, SourcesNext, PTL DEF Spec

\* tracker_count and source_count agree with the rows they count, but for the races and
\* the disturbed events the two properties name.
THEOREM CountersAreExact == Spec => []CountersExact
BY TrackersAreExact, SourcesAreCounted, PTL DEF CountersExact
=============================================================================
