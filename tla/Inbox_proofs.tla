---------------------------- MODULE Inbox_proofs ----------------------------
(***************************************************************************)
(* Theorems of Inbox, for any number of users, subscriptions and articles, *)
(* and of Keywords and the lists of Headlines it stores, for any channels, *)
(* pages and titles.                                                       *)
(***************************************************************************)
EXTENDS Inbox, Keywords, FiniteSetTheorems, SequenceTheorems, WellFoundedInduction,
        NaturalsInduction, TLAPS

-----------------------------------------------------------------------------
(* Finite sets *)

LEMMA SmallerSubset ==
  ASSUME NEW S, NEW T, IsFiniteSet(T), S \subseteq T
  PROVE  /\ IsFiniteSet(S) /\ Cardinality(S) \in Nat /\ Cardinality(T) \in Nat
         /\ Cardinality(S) <= Cardinality(T) /\ (S # T => Cardinality(S) < Cardinality(T))
<1>1. S \in SUBSET T
  OBVIOUS
<1>2. IsFiniteSet(S) /\ Cardinality(S) <= Cardinality(T) /\ (Cardinality(T) = Cardinality(S) => T = S)
  BY <1>1, FS_Subset
<1>3. Cardinality(S) \in Nat /\ Cardinality(T) \in Nat
  BY <1>2, FS_CardinalityType
<1> QED
  BY <1>2, <1>3

-----------------------------------------------------------------------------
(* Pages *)

\* Rows of N that stand above n whatever the order of equals is, and rows that have no
\* equal; s tells the batch of an article.
AboveIn(s, N, n) == {m \in N : s[m.article] > s[n.article]}
Alone(s, N, n)   == n \in N /\ \A m \in N : s[m.article] = s[n.article] => m = n

\* Every row of a list has one position in each of its orders.
LEMMA SortedPositions ==
  ASSUME NEW N, IsFiniteSet(N), NEW q \in Sorted(N)
  PROVE  /\ Cardinality(N) \in Nat /\ q \in [1..Cardinality(N) -> N]
         /\ \A i, j \in 1..Cardinality(N) : q[i] = q[j] => i = j
         /\ \A n \in N : \E i \in 1..Cardinality(N) : q[i] = n
<1> DEFINE c == Cardinality(N)
<1>1. c \in Nat /\ q \in [1..c -> N]
  BY FS_CardinalityType DEF Sorted
<1>2. \A i, j \in 1..c : q[i] = q[j] => i = j
  BY <1>1 DEF Sorted
<1>3. IsFiniteSet(1..c) /\ Cardinality(1..c) = c
  BY <1>1, FS_Interval
<1>4. q \in Injection(1..c, N)
  BY <1>1, <1>2 DEF Injection, IsInjective
<1>5. q \in Surjection(1..c, N)
  BY <1>3, <1>4, FS_Injection
<1> QED
  BY <1>1, <1>2, <1>5 DEF Surjection

\* A row without an equal stands right below the rows that stand above it.
LEMMA PlaceOfRow ==
  ASSUME NEW N, IsFiniteSet(N), NEW q \in Sorted(N), NEW n, Alone(stored, N, n),
         \A m \in N : stored[m.article] \in Nat
  PROVE  \E i \in 1..Cardinality(N) : q[i] = n /\ Cardinality(AboveIn(stored, N, n)) = i - 1
<1> DEFINE c == Cardinality(N)
           A == AboveIn(stored, N, n)
<1>1. c \in Nat /\ q \in [1..c -> N] /\ \A i, j \in 1..c : q[i] = q[j] => i = j
  BY SortedPositions
<1>2. n \in N
  BY DEF Alone
<1>3. PICK i \in 1..c : q[i] = n
  BY <1>2, SortedPositions
<1>4. \A j \in 1..c : q[j] \in A <=> j < i
  <2> SUFFICES ASSUME NEW j \in 1..c PROVE q[j] \in A <=> j < i
    OBVIOUS
  <2>1. q[j] \in N /\ stored[q[j].article] \in Nat /\ stored[n.article] \in Nat
    BY <1>1, <1>2
  <2>2. CASE j < i
    <3>1. stored[q[j].article] >= stored[q[i].article] /\ q[i] # q[j]
      BY <1>1, <2>2 DEF Sorted
    <3>2. stored[q[j].article] # stored[n.article]
      BY <1>3, <2>1, <3>1 DEF Alone
    <3> QED
      BY <1>3, <2>1, <2>2, <3>1, <3>2 DEF AboveIn
  <2>3. CASE i < j
    <3>1. stored[q[i].article] >= stored[q[j].article]
      BY <1>1, <2>3 DEF Sorted
    <3> QED
      BY <1>1, <1>3, <2>1, <2>3, <3>1 DEF AboveIn
  <2>4. CASE i = j
    BY <1>3, <2>1, <2>4 DEF AboveIn
  <2> QED
    BY <1>1, <2>2, <2>3, <2>4
<1>5. PICK f : f = [j \in 1..(i - 1) |-> q[j]]
  OBVIOUS
<1>6. 1..(i - 1) \subseteq 1..c
  BY <1>1
<1>7. f \in [1..(i - 1) -> A]
  BY <1>1, <1>4, <1>5, <1>6
<1>8. f \in Injection(1..(i - 1), A)
  BY <1>1, <1>5, <1>6, <1>7 DEF Injection, IsInjective
<1>9. f \in Surjection(1..(i - 1), A)
  <2>1. ASSUME NEW m \in A PROVE \E j \in 1..(i - 1) : f[j] = m
    <3>1. m \in N
      BY DEF AboveIn
    <3>2. PICK j \in 1..c : q[j] = m
      BY <3>1, SortedPositions
    <3>3. j \in 1..(i - 1)
      BY <1>1, <1>4, <3>2
    <3> QED
      BY <1>5, <3>2, <3>3
  <2> QED
    BY <1>7, <2>1 DEF Surjection
<1>10. IsFiniteSet(1..(i - 1)) /\ Cardinality(1..(i - 1)) = i - 1
  <2>1. 1 \in Int /\ i - 1 \in Int /\ i >= 1
    BY <1>1
  <2> QED
    BY <2>1, FS_Interval
<1>11. Cardinality(A) = i - 1
  BY <1>8, <1>9, <1>10, FS_Surjection
<1> QED
  BY <1>3, <1>11

\* A page shows the row, or as many rows stand above it as the pages so far have shown.
LEMMA PageShows ==
  ASSUME NEW N, IsFiniteSet(N), NEW q \in Sorted(N), NEW n, Alone(stored, N, n),
         \A m \in N : stored[m.article] \in Nat,
         NEW offset \in Nat, offset <= Cardinality(AboveIn(stored, N, n))
  PROVE  \/ n \in Page(q, offset)
         \/ /\ NextCursor(q, offset) = offset + PageSize
            /\ offset + PageSize <= Cardinality(AboveIn(stored, N, n))
<1>1. PICK i \in 1..Cardinality(N) : q[i] = n /\ Cardinality(AboveIn(stored, N, n)) = i - 1
  BY PlaceOfRow
<1>2. Cardinality(N) \in Nat /\ q \in [1..Cardinality(N) -> N]
  BY SortedPositions
<1>3. Len(q) = Cardinality(N) /\ DOMAIN q = 1..Cardinality(N)
  BY <1>2
<1>4. PageSize \in Nat
  BY InboxPageAssumption
<1>5. CASE i <= offset + PageSize
  BY <1>1, <1>2, <1>3, <1>4, <1>5 DEF Page
<1>6. CASE ~(i <= offset + PageSize)
  BY <1>1, <1>2, <1>3, <1>4, <1>6 DEF NextCursor
<1> QED
  BY <1>5, <1>6

\* Notifications of one user, or matches, are finitely many, although there may be any
\* number of users.
LEMMA FiniteRows ==
  ASSUME NEW c, NEW L, (L \subseteq Note /\ \A m \in L : m.reader = c) \/ L \subseteq KeywordMatch
  PROVE  IsFiniteSet(L)
<1> DEFINE P == Subscriptions \X Articles
<1>1. IsFiniteSet(P)
  BY FS_Product, InboxArticlesAssumption, InboxIdsAssumption
<1>2. PICK f : f = [m \in L |-> <<m.subscription, m.article>>]
  OBVIOUS
<1>3. f \in [L -> P]
  BY <1>2 DEF Note, KeywordMatch
<1>4. ASSUME NEW m \in L, NEW n \in L, f[m] = f[n] PROVE m = n
  <2>1. m.subscription = n.subscription /\ m.article = n.article
    BY <1>2, <1>4
  <2>2. CASE L \subseteq Note /\ \A k \in L : k.reader = c
    <3>1. m \in Note /\ n \in Note /\ m.reader = n.reader
      BY <2>2
    <3> QED
      BY <2>1, <3>1 DEF Note
  <2>3. CASE L \subseteq KeywordMatch
    <3>1. m \in KeywordMatch /\ n \in KeywordMatch
      BY <2>3
    <3> QED
      BY <2>1, <3>1 DEF KeywordMatch
  <2> QED
    BY <2>2, <2>3
<1>5. f \in Injection(L, P)
  BY <1>3, <1>4 DEF Injection, IsInjective
<1> QED
  BY <1>1, <1>5, FS_Injection

LEMMA FiniteList ==
  ASSUME notes \subseteq Note, matches \subseteq KeywordMatch, NEW c
  PROVE  IsFiniteSet(ListOf(c)) /\ ListOf(c) \subseteq notes \cup matches
<1>1. \/ ListOf(c) = {n \in notes : n.reader = c}
      \/ ListOf(c) = {m \in matches : m.subscription = c}
  BY DEF ListOf, Mine
<1>2. (ListOf(c) \subseteq Note /\ \A m \in ListOf(c) : m.reader = c) \/ ListOf(c) \subseteq KeywordMatch
  BY <1>1
<1> QED
  BY <1>1, <1>2, FiniteRows

-----------------------------------------------------------------------------
(* Types *)

\* Batches are numbered without gaps, as the committed articles are at least as many.
Numbered ==
  /\ Committed # {} => \E m \in Committed : \A a \in Committed : stored[a] <= stored[m]
  /\ \A a \in Committed : stored[a] <= Cardinality(Committed)
  /\ batch \cap Committed = {}

Typed == InboxTypeOK /\ Numbered

LEMMA BatchCounts ==
  /\ Cardinality(Articles) \in Nat /\ BatchNumbers \subseteq Nat /\ PageSize \in Nat \ {0}
  /\ \A n \in Nat : n \in BatchNumbers <=> n >= 1 /\ n <= Cardinality(Articles)
  BY FS_CardinalityType, InboxArticlesAssumption, InboxPageAssumption DEF BatchNumbers

LEMMA LastBatchIsLast ==
  ASSUME Typed
  PROVE  /\ LastBatch \in {0} \cup BatchNumbers /\ LastBatch \in Nat
         /\ Cardinality(Committed) \in Nat /\ LastBatch <= Cardinality(Committed)
         /\ \A a \in Articles : stored[a] \in Nat /\ stored[a] <= LastBatch
<1>1. stored \in [Articles -> {0} \cup BatchNumbers] /\ \A a \in Articles : stored[a] \in Nat
  <2>1. stored \in [Articles -> {0} \cup BatchNumbers]
    BY DEF Typed, InboxTypeOK
  <2>2. {0} \cup BatchNumbers \subseteq Nat
    BY BatchCounts
  <2> QED
    BY <2>1, <2>2
<1>2. Cardinality(Committed) \in Nat
  BY SmallerSubset, InboxArticlesAssumption DEF Committed
<1>3. CASE Committed = {}
  BY <1>1, <1>2, <1>3 DEF LastBatch, Committed
<1>4. CASE Committed # {}
  <2>1. PICK m \in Committed : \A a \in Committed : stored[a] <= stored[m]
    BY <1>4 DEF Typed, Numbered
  <2>2. m \in Articles /\ stored[m] \in BatchNumbers
    BY <1>1, <2>1, BatchCounts DEF Committed
  <2>3. \E n \in BatchNumbers : (\E a \in Committed : stored[a] = n)
                               /\ \A a \in Committed : stored[a] <= n
    BY <2>1, <2>2
  <2>4. /\ LastBatch \in BatchNumbers /\ \E a \in Committed : stored[a] = LastBatch
        /\ \A a \in Committed : stored[a] <= LastBatch
    BY <1>4, <2>3 DEF LastBatch
  <2>5. LastBatch <= Cardinality(Committed)
    BY <2>4 DEF Typed, Numbered
  <2>6. \A a \in Articles : stored[a] <= LastBatch
    BY <1>1, <2>4, BatchCounts DEF Committed
  <2> QED
    BY <1>1, <1>2, <2>4, <2>5, <2>6, BatchCounts
<1> QED
  BY <1>3, <1>4

\* A batch that is persisted has a number of its own.
LEMMA NextBatch ==
  ASSUME Typed, batch # {}
  PROVE  /\ LastBatch + 1 \in BatchNumbers
         /\ batch \subseteq Articles \ Committed
         /\ LastBatch + 1 <= Cardinality(Committed \cup batch)
         /\ Cardinality(Committed) <= Cardinality(Committed \cup batch)
<1>1. batch \subseteq Articles /\ batch \cap Committed = {} /\ Committed \subseteq Articles
  BY DEF Typed, InboxTypeOK, Numbered, Committed
<1>2. /\ IsFiniteSet(Committed \cup batch)
      /\ Cardinality(Committed \cup batch) <= Cardinality(Articles)
  BY <1>1, SmallerSubset, InboxArticlesAssumption
<1>3. Committed \subseteq Committed \cup batch /\ Committed # Committed \cup batch
  BY <1>1
<1>4. /\ Cardinality(Committed) \in Nat /\ Cardinality(Committed \cup batch) \in Nat
      /\ Cardinality(Committed) < Cardinality(Committed \cup batch)
  BY <1>2, <1>3, SmallerSubset
<1>5. LastBatch \in Nat /\ LastBatch <= Cardinality(Committed)
  BY LastBatchIsLast
<1>6. LastBatch + 1 <= Cardinality(Committed \cup batch)
  BY <1>4, <1>5
<1>7. LastBatch + 1 \in Nat /\ LastBatch + 1 >= 1 /\ LastBatch + 1 <= Cardinality(Articles)
  BY <1>2, <1>4, <1>5, <1>6, BatchCounts
<1> QED
  BY <1>1, <1>4, <1>6, <1>7, BatchCounts

\* What a delivery makes of the articles.
LEMMA Delivered ==
  ASSUME Typed, Deliver
  PROVE  /\ LastBatch + 1 \in BatchNumbers /\ LastBatch \in Nat
         /\ batch \subseteq Articles \ Committed
         /\ \A a \in Articles : stored'[a] = IF a \in batch THEN LastBatch + 1 ELSE stored[a]
         /\ \A a \in Articles : stored[a] \in Nat /\ stored[a] <= LastBatch
         /\ Committed' = Committed \cup batch
<1>1. \A a \in Articles : stored'[a] = IF a \in batch THEN LastBatch + 1 ELSE stored[a]
  BY DEF Deliver
<1>2. batch # {} /\ batch \subseteq Articles \ Committed /\ LastBatch \in Nat
  BY NextBatch, LastBatchIsLast DEF Deliver
<1>3. Committed' = Committed \cup batch
  BY <1>1, <1>2 DEF Committed
<1> QED
  BY <1>1, <1>2, <1>3, NextBatch, LastBatchIsLast

LEMMA InitTyped == InboxInit => Typed
<1> SUFFICES ASSUME InboxInit PROVE Typed
  OBVIOUS
<1>1. Committed = {}
  BY DEF InboxInit, Committed
<1>2. Active = {}
  BY DEF InboxInit, Active
<1> QED
  BY <1>1, <1>2 DEF InboxInit, Typed, Numbered, InboxTypeOK

LEMMA NumberedKept ==
  ASSUME Typed, UNCHANGED stored, batch' \cap Committed = {}
  PROVE  Numbered'
<1>1. Committed' = Committed
  BY DEF Committed
<1> QED
  BY <1>1 DEF Typed, Numbered

LEMMA SubscribeTyped ==
  ASSUME Typed, NEW u \in Readers, NEW w \in Words, Subscribe(u, w)
  PROVE  Typed'
<1>1. Numbered'
  BY NumberedKept DEF Subscribe, pipe, Typed, Numbered
<1>2. PICK b \in Subscriptions \ usedIds :
        /\ subscription' = [subscription EXCEPT ![b] = [reader |-> u, word |-> w,
                              after |-> IF batch = {} THEN LastBatch ELSE LastBatch + 1]]
        /\ usedIds' = usedIds \cup {b}
  BY DEF Subscribe
<1>3. (IF batch = {} THEN LastBatch ELSE LastBatch + 1) \in {0} \cup BatchNumbers
  BY LastBatchIsLast, NextBatch
<1>4. subscription' \in [Subscriptions -> Row \cup {Nobody}]
  BY <1>2, <1>3 DEF Row, Typed, InboxTypeOK
<1>5. Active' \subseteq usedIds'
  BY <1>2 DEF Active, Typed, InboxTypeOK
<1> QED
  BY <1>1, <1>2, <1>4, <1>5 DEF Subscribe, pipe, tables, paging, Typed, InboxTypeOK

LEMMA UnsubscribeTyped ==
  ASSUME Typed, NEW b \in Subscriptions, Unsubscribe(b)
  PROVE  Typed'
<1>1. Numbered'
  BY NumberedKept DEF Unsubscribe, pipe, Typed, Numbered
<1>2. subscription' \in [Subscriptions -> Row \cup {Nobody}] /\ Active' \subseteq Active
  BY DEF Unsubscribe, Active, Typed, InboxTypeOK
<1> QED
  BY <1>1, <1>2 DEF Unsubscribe, pipe, paging, Typed, InboxTypeOK

LEMMA RowOfActive ==
  ASSUME Typed, NEW b \in Active
  PROVE  b \in Subscriptions /\ subscription[b] \in Row
  BY DEF Active, Typed, InboxTypeOK

LEMMA MatchTyped ==
  ASSUME Typed, Match
  PROVE  Typed'
<1>1. PICK A \in SUBSET (Articles \ Committed) :
        /\ batch' = A
        /\ matching' = {<<b, subscription[b].reader, subscription[b].word>> : b \in Matching(A)}
  BY DEF Match
<1>2. Numbered'
  BY <1>1, NumberedKept DEF Match
<1>3. matching' \subseteq Subscriptions \X Readers \X Words
  BY <1>1, RowOfActive DEF Matching, Row
<1>4. Active' = Active
  BY DEF Match, subs, Active
<1> QED
  BY <1>1, <1>2, <1>3, <1>4 DEF Match, subs, tables, paging, Typed, InboxTypeOK

\* Who is told of what.
LEMMA HitType ==
  ASSUME Typed, NEW h \in Hits
  PROVE  /\ h[1] \in batch /\ h[1] \in Articles /\ h[2] \in matching /\ h[2][3] \in WordsOf[h[1]]
         /\ [reader |-> h[2][2], subscription |-> h[2][1], article |-> h[1]] \in Note
         /\ [subscription |-> h[2][1], article |-> h[1]] \in KeywordMatch
  BY DEF Hits, Typed, InboxTypeOK, Note, KeywordMatch

LEMMA DeliverTyped ==
  ASSUME Typed, Deliver
  PROVE  Typed'
<1>1. stored' \in [Articles -> {0} \cup BatchNumbers]
  BY Delivered DEF Deliver, Typed, InboxTypeOK
<1>2. NewNotes \subseteq Note
  BY HitType DEF NewNotes
<1>3. matches' \subseteq KeywordMatch
  BY HitType DEF Deliver, Typed, InboxTypeOK
<1>4. Numbered'
  <2>1. batch' = {} /\ batch # {}
    BY DEF Deliver
  <2>2. \A a \in Committed' : stored'[a] <= Cardinality(Committed')
    <3> SUFFICES ASSUME NEW a \in Committed' PROVE stored'[a] <= Cardinality(Committed')
      OBVIOUS
    <3>1. LastBatch + 1 <= Cardinality(Committed') /\ LastBatch \in Nat
      BY <2>1, Delivered, NextBatch
    <3>2. stored'[a] \in Nat /\ stored'[a] <= LastBatch + 1
      BY Delivered DEF Committed
    <3>3. Cardinality(Committed') \in Nat
      BY SmallerSubset, InboxArticlesAssumption DEF Committed
    <3> QED
      BY <3>1, <3>2, <3>3
  <2>3. PICK m \in batch : TRUE
    BY <2>1
  <2>4. m \in Committed' /\ \A a \in Committed' : stored'[a] <= stored'[m]
    BY Delivered DEF Committed
  <2> QED
    BY <2>1, <2>2, <2>4 DEF Numbered
<1>5. Active' = Active
  BY DEF Deliver, subs, Active
<1> QED
  BY <1>1, <1>2, <1>3, <1>4, <1>5 DEF Deliver, subs, paging, Typed, InboxTypeOK

LEMMA PageType ==
  ASSUME Typed, NEW c \in Readers \cup Subscriptions, NEW q \in Sorted(ListOf(c)), NEW offset \in Nat
  PROVE  /\ Page(q, offset) \subseteq ListOf(c) /\ ListOf(c) \subseteq notes \cup KeywordMatch
         /\ NextCursor(q, offset) \in {-1, offset + PageSize} /\ offset + PageSize \in Nat
<1>1. ListOf(c) \subseteq notes \cup matches /\ IsFiniteSet(ListOf(c))
  BY FiniteList DEF Typed, InboxTypeOK
<1>2. q \in [1..Cardinality(ListOf(c)) -> ListOf(c)]
  BY <1>1, SortedPositions
<1> QED
  BY <1>1, <1>2, BatchCounts DEF Page, NextCursor, Typed, InboxTypeOK

LEMMA PagesTyped ==
  ASSUME Typed, NextPage \/ \E c \in Readers \cup Active : FirstPage(c)
  PROVE  Typed'
<1>1. Active' = Active /\ UNCHANGED <<subs, pipe, tables>>
  BY DEF NextPage, FirstPage, subs, pipe, tables, Active
<1>2. Numbered'
  BY <1>1, NumberedKept DEF pipe, Typed, Numbered
<1>3. /\ client' \in Readers \cup Subscriptions \cup {Nobody} /\ cursor' \in {-1} \cup Nat
      /\ shown' \cup before' \subseteq notes \cup KeywordMatch
  <2>1. CASE \E c \in Readers \cup Active : FirstPage(c)
    <3>1. PICK c \in Readers \cup Active : FirstPage(c)
      BY <2>1
    <3>2. PICK q \in Sorted(ListOf(c)) : shown' = Page(q, 0) /\ cursor' = NextCursor(q, 0)
      BY <3>1 DEF FirstPage
    <3>3. c \in Readers \cup Subscriptions
      BY DEF Active
    <3> QED
      BY <3>1, <3>2, <3>3, PageType DEF FirstPage
  <2>2. CASE NextPage
    <3>1. PICK q \in Sorted(ListOf(client)) :
            shown' = shown \cup Page(q, cursor) /\ cursor' = NextCursor(q, cursor)
      BY <2>2 DEF NextPage
    <3>2. client \in Readers \cup Subscriptions /\ cursor \in Nat
      BY <2>2 DEF NextPage, Active, Typed, InboxTypeOK
    <3>3. UNCHANGED <<client, before>>
      BY <2>2 DEF NextPage
    <3> QED
      BY <3>1, <3>2, <3>3, PageType DEF Typed, InboxTypeOK
  <2> QED
    BY <2>1, <2>2
<1> QED
  BY <1>1, <1>2, <1>3 DEF subs, pipe, tables, Typed, InboxTypeOK

LEMMA OtherTyped ==
  ASSUME Typed, DeliverFails \/ Leave \/ (\E n \in unread : MarkRead(n)) \/ (\E u \in Readers : MarkAllRead(u))
  PROVE  Typed'
<1>1. Active' = Active /\ UNCHANGED <<subscription, usedIds, stored, matches, notes>>
      /\ batch' \subseteq batch /\ matching' \subseteq matching /\ unread' \subseteq unread
  BY DEF DeliverFails, Leave, MarkRead, MarkAllRead, subs, pipe, tables, Active
<1>2. Numbered'
  BY <1>1, NumberedKept DEF Typed, Numbered
<1>3. UNCHANGED paging \/ (client' = Nobody /\ cursor' = -1 /\ shown' = {} /\ before' = {})
  BY DEF DeliverFails, Leave, MarkRead, MarkAllRead
<1> QED
  BY <1>1, <1>2, <1>3 DEF paging, Typed, InboxTypeOK

LEMMA StepTyped == Typed /\ [InboxNext]_inboxVars => Typed'
<1> SUFFICES ASSUME Typed, [InboxNext]_inboxVars PROVE Typed'
  OBVIOUS
<1>1. CASE UNCHANGED inboxVars
  <2>1. UNCHANGED <<subscription, usedIds, stored, batch, matching, matches, notes, unread, client,
                    cursor, shown, before>>
    BY <1>1 DEF inboxVars, subs, pipe, tables, paging
  <2> QED
    BY <2>1 DEF Typed, Numbered, InboxTypeOK, Active, Committed
<1>2. CASE InboxNext
  BY <1>2, SubscribeTyped, UnsubscribeTyped, MatchTyped, DeliverTyped, PagesTyped, OtherTyped
     DEF InboxNext
<1> QED
  BY <1>1, <1>2

\* Every variable of the inbox keeps its type.
THEOREM InboxTypes == InboxSpec => []InboxTypeOK
<1>1. Typed => InboxTypeOK
  BY DEF Typed
<1> QED
  BY <1>1, InitTyped, StepTyped, PTL DEF InboxSpec

-----------------------------------------------------------------------------
(* Subscribers are told *)

\* Whoever subscribed before the batch was begun, and still does, was loaded with it.
Loaded ==
  \A b \in Active, a \in batch :
    subscription[b].word \in WordsOf[a] /\ subscription[b].after <= LastBatch =>
      \E m \in matching : m[1] = b /\ m[3] = subscription[b].word

TellInv == Typed /\ Loaded /\ SubscribersAreTold

LEMMA SubscribeTells ==
  ASSUME TellInv, NEW u \in Readers, NEW w \in Words, Subscribe(u, w)
  PROVE  (Loaded /\ SubscribersAreTold)'
<1>1. UNCHANGED <<stored, batch, matching, matches, notes>> /\ Committed' = Committed
      /\ LastBatch' = LastBatch
  BY DEF Subscribe, pipe, tables, Committed, LastBatch
<1>2. PICK b \in Subscriptions \ usedIds : subscription' = [subscription EXCEPT ![b] =
        [reader |-> u, word |-> w, after |-> IF batch = {} THEN LastBatch ELSE LastBatch + 1]]
  BY DEF Subscribe
<1>3. \A c \in Active' : c # b => c \in Active /\ subscription'[c] = subscription[c]
  BY <1>2 DEF Active, TellInv, Typed, InboxTypeOK
<1>4. subscription'[b].after = IF batch = {} THEN LastBatch ELSE LastBatch + 1
  BY <1>2 DEF TellInv, Typed, InboxTypeOK
<1>5. LastBatch \in Nat /\ \A a \in Articles : stored[a] \in Nat /\ stored[a] <= LastBatch
  BY LastBatchIsLast DEF TellInv
<1>6. Loaded'
  <2> SUFFICES ASSUME NEW c \in Active', NEW a \in batch, subscription'[c].word \in WordsOf[a],
                      subscription'[c].after <= LastBatch
               PROVE  \E m \in matching : m[1] = c /\ m[3] = subscription'[c].word
    BY <1>1 DEF Loaded
  <2>1. c # b
    BY <1>4, <1>5
  <2> QED
    BY <1>3, <2>1 DEF TellInv, Loaded
<1>7. SubscribersAreTold'
  <2> SUFFICES ASSUME NEW c \in Active', NEW a \in Committed, Wanted(c, a)'
               PROVE  /\ [subscription |-> c, article |-> a] \in matches
                      /\ \E n \in notes : n.subscription = c /\ n.article = a
    BY <1>1 DEF SubscribersAreTold
  <2>1. c # b
    BY <1>1, <1>4, <1>5 DEF Wanted, Committed
  <2>2. c \in Active /\ Wanted(c, a)
    BY <1>1, <1>3, <2>1 DEF Wanted
  <2> QED
    BY <2>2 DEF TellInv, SubscribersAreTold
<1> QED
  BY <1>6, <1>7

LEMMA UnsubscribeTells ==
  ASSUME TellInv, NEW b \in Subscriptions, Unsubscribe(b)
  PROVE  (Loaded /\ SubscribersAreTold)'
<1>1. UNCHANGED <<stored, batch, matching, notes>> /\ Committed' = Committed
      /\ LastBatch' = LastBatch /\ matches' = {m \in matches : m.subscription # b}
  BY DEF Unsubscribe, pipe, Committed, LastBatch
<1>2. \A c \in Active' : c # b /\ c \in Active /\ subscription'[c] = subscription[c]
  BY DEF Unsubscribe, Active, TellInv, Typed, InboxTypeOK
<1>3. Loaded'
  BY <1>1, <1>2 DEF TellInv, Loaded
<1>4. SubscribersAreTold'
  <2> SUFFICES ASSUME NEW c \in Active', NEW a \in Committed, Wanted(c, a)'
               PROVE  /\ [subscription |-> c, article |-> a] \in matches'
                      /\ \E n \in notes : n.subscription = c /\ n.article = a
    BY <1>1 DEF SubscribersAreTold
  <2>1. c \in Active /\ Wanted(c, a) /\ c # b
    BY <1>1, <1>2 DEF Wanted
  <2>2. [subscription |-> c, article |-> a].subscription = c
    OBVIOUS
  <2> QED
    BY <1>1, <2>1, <2>2 DEF TellInv, SubscribersAreTold
<1> QED
  BY <1>3, <1>4

LEMMA MatchTells ==
  ASSUME TellInv, Match
  PROVE  (Loaded /\ SubscribersAreTold)'
<1>1. UNCHANGED <<subscription, stored, matches, notes>> /\ Committed' = Committed /\ Active' = Active
  BY DEF Match, subs, tables, Committed, Active
<1>2. PICK A \in SUBSET (Articles \ Committed) :
        /\ batch' = A
        /\ matching' = {<<b, subscription[b].reader, subscription[b].word>> : b \in Matching(A)}
  BY DEF Match
<1>3. Loaded'
  <2> SUFFICES ASSUME NEW b \in Active, NEW a \in A, subscription[b].word \in WordsOf[a]
               PROVE  \E m \in matching' : m[1] = b /\ m[3] = subscription[b].word
    BY <1>1, <1>2 DEF Loaded
  <2>1. b \in Matching(A)
    BY DEF Matching
  <2>2. <<b, subscription[b].reader, subscription[b].word>> \in matching'
    BY <1>2, <2>1
  <2> QED
    BY <2>2
<1>4. SubscribersAreTold'
  BY <1>1 DEF TellInv, SubscribersAreTold, Wanted
<1> QED
  BY <1>3, <1>4

LEMMA DeliverTells ==
  ASSUME TellInv, Deliver
  PROVE  (Loaded /\ SubscribersAreTold)'
<1>1. Active' = Active /\ UNCHANGED subscription /\ batch' = {}
      /\ matches' = matches \cup {[subscription |-> h[2][1], article |-> h[1]] : h \in Hits}
      /\ notes' = notes \cup NewNotes
  BY DEF Deliver, subs, Active
<1>2. Loaded'
  BY <1>1 DEF Loaded
<1>3. SubscribersAreTold'
  <2> SUFFICES ASSUME NEW b \in Active, NEW a \in Committed', Wanted(b, a)'
               PROVE  /\ [subscription |-> b, article |-> a] \in matches'
                      /\ \E n \in notes' : n.subscription = b /\ n.article = a
    BY <1>1 DEF SubscribersAreTold
  <2>1. CASE a \in batch
    <3>1. subscription[b].word \in WordsOf[a] /\ subscription[b].after < LastBatch + 1
      BY <1>1, <2>1, Delivered DEF Wanted, TellInv
    <3>2. subscription[b].after \in Nat /\ LastBatch \in Nat
      <4>1. subscription[b] \in Row /\ LastBatch \in Nat
        BY RowOfActive, LastBatchIsLast DEF TellInv
      <4>2. subscription[b].after \in {0} \cup BatchNumbers
        BY <4>1 DEF Row
      <4>3. {0} \cup BatchNumbers \subseteq Nat
        BY BatchCounts
      <4> QED
        BY <4>1, <4>2, <4>3
    <3>3. PICK m \in matching : m[1] = b /\ m[3] = subscription[b].word
      BY <2>1, <3>1, <3>2 DEF TellInv, Loaded
    <3>4. PICK h : h = <<a, m>>
      OBVIOUS
    <3>5. h \in Hits /\ h[1] = a /\ h[2] = m
      BY <2>1, <3>1, <3>3, <3>4 DEF Hits
    <3>6. [subscription |-> b, article |-> a] \in matches'
      BY <1>1, <3>3, <3>5
    <3>7. PICK n : n = [reader |-> m[2], subscription |-> b, article |-> a]
      OBVIOUS
    <3>8. n \in NewNotes
      BY <3>3, <3>5, <3>7 DEF NewNotes
    <3> QED
      BY <1>1, <3>6, <3>7, <3>8
  <2>2. CASE a \notin batch
    <3>1. a \in Committed /\ stored'[a] = stored[a]
      BY <2>2, Delivered DEF TellInv, Committed
    <3>2. Wanted(b, a)
      BY <1>1, <3>1 DEF Wanted
    <3> QED
      BY <1>1, <3>1, <3>2 DEF TellInv, SubscribersAreTold
  <2> QED
    BY <2>1, <2>2
<1> QED
  BY <1>2, <1>3

\* The other steps take neither a subscription, nor a match, nor a notification away.
LEMMA OtherTells ==
  ASSUME TellInv, UNCHANGED <<subscription, stored, matches, notes>>,
         UNCHANGED <<batch, matching>> \/ batch' = {}
  PROVE  (Loaded /\ SubscribersAreTold)'
<1>1. Committed' = Committed /\ Active' = Active /\ LastBatch' = LastBatch
  BY DEF Committed, Active, LastBatch
<1>2. Loaded'
  BY <1>1 DEF TellInv, Loaded
<1>3. SubscribersAreTold'
  BY <1>1 DEF TellInv, SubscribersAreTold, Wanted
<1> QED
  BY <1>2, <1>3

LEMMA StepTellInv == TellInv /\ [InboxNext]_inboxVars => TellInv'
<1> SUFFICES ASSUME TellInv, [InboxNext]_inboxVars PROVE (Loaded /\ SubscribersAreTold)'
  BY StepTyped DEF TellInv
<1>1. CASE UNCHANGED inboxVars
  BY <1>1, OtherTells DEF inboxVars, subs, pipe, tables
<1>2. ASSUME NEW u \in Readers, NEW w \in Words, Subscribe(u, w) PROVE (Loaded /\ SubscribersAreTold)'
  BY <1>2, SubscribeTells
<1>3. ASSUME NEW b \in Subscriptions, Unsubscribe(b) PROVE (Loaded /\ SubscribersAreTold)'
  BY <1>3, UnsubscribeTells
<1>4. CASE NextPage \/ Leave \/ \E c \in Readers \cup Active : FirstPage(c)
  BY <1>4, OtherTells DEF NextPage, Leave, FirstPage, subs, pipe, tables
<1>5. CASE DeliverFails
  BY <1>5, OtherTells DEF DeliverFails, subs, tables
<1>6. CASE (\E n \in unread : MarkRead(n)) \/ \E u \in Readers : MarkAllRead(u)
  BY <1>6, OtherTells DEF MarkRead, MarkAllRead, subs, pipe
<1> QED
  BY <1>1, <1>2, <1>3, <1>4, <1>5, <1>6, MatchTells, DeliverTells DEF InboxNext

\* Whoever subscribed before a batch was begun, and still does, has a match and a
\* notification for each article of it with the keyword, whoever else unsubscribes.
THEOREM Telling == InboxSpec => []SubscribersAreTold
<1>1. InboxInit => TellInv
  BY InitTyped DEF InboxInit, TellInv, Loaded, SubscribersAreTold, Active
<1>2. TellInv => SubscribersAreTold
  BY DEF TellInv
<1> QED
  BY <1>1, <1>2, StepTellInv, PTL DEF InboxSpec
-----------------------------------------------------------------------------
(* The pages show all *)

\* The rows a reader sees are of committed articles.
RowsCommitted == \A n \in notes \cup matches \cup before : n.article \in Committed

\* A subscription somebody pages through has its id for itself.
ClientKnown == client \in Subscriptions => client \in usedIds

\* The rows that were there still are, and those that came since stand above them.
Behind ==
  client \in Readers \cup Active =>
    /\ before \subseteq ListOf(client)
    /\ \A m \in ListOf(client) \ before, n \in before : stored[m.article] > stored[n.article]

\* A row without an equal has been shown, or the next page begins no lower than it stands.
Reading ==
  client # Nobody =>
    /\ cursor = -1 \/ cursor > 0
    /\ \A n \in before : Alone(stored, before, n) =>
         \/ n \in shown
         \/ /\ cursor > 0
            /\ client \in Readers \cup Active => cursor <= Cardinality(AboveIn(stored, ListOf(client), n))

PageInv == Typed /\ RowsCommitted /\ ClientKnown /\ Behind /\ Reading

LEMMA PagesFromReading == PageInv => PagesShowAll
<1> SUFFICES ASSUME PageInv, client # Nobody, cursor = -1, NEW n \in before,
                    \A m \in before : stored[m.article] = stored[n.article] => m = n
             PROVE  n \in shown
  BY DEF PagesShowAll
<1>1. Alone(stored, before, n)
  BY DEF Alone
<1> QED
  BY <1>1 DEF PageInv, Reading

LEMMA ListRows ==
  ASSUME PageInv, NEW c
  PROVE  /\ IsFiniteSet(ListOf(c)) /\ ListOf(c) \subseteq notes \cup matches
         /\ \A m \in ListOf(c) : m.article \in Committed /\ m.article \in Articles
                                 /\ stored[m.article] \in Nat
<1>1. IsFiniteSet(ListOf(c)) /\ ListOf(c) \subseteq notes \cup matches
  BY FiniteList DEF PageInv, Typed, InboxTypeOK
<1> QED
  BY <1>1, LastBatchIsLast DEF PageInv, RowsCommitted, Committed

\* A row without an equal among those that were there has none among those there are.
LEMMA StaysAlone ==
  ASSUME PageInv, client \in Readers \cup Active, NEW n, Alone(stored, before, n)
  PROVE  Alone(stored, ListOf(client), n)
<1>1. n \in before /\ before \subseteq ListOf(client)
  BY DEF PageInv, Behind, Alone
<1>2. \A m \in ListOf(client) : stored[m.article] \in Nat
  BY ListRows
<1>3. ASSUME NEW m \in ListOf(client), stored[m.article] = stored[n.article] PROVE m = n
  <2>1. CASE m \in before
    BY <1>3, <2>1 DEF Alone
  <2>2. CASE m \notin before
    <3>1. stored[m.article] > stored[n.article]
      BY <1>1, <2>2 DEF PageInv, Behind
    <3> QED
      BY <1>1, <1>2, <1>3, <3>1
  <2> QED
    BY <2>1, <2>2
<1> QED
  BY <1>1, <1>3 DEF Alone

LEMMA FirstPageShows ==
  ASSUME PageInv, NEW c \in Readers \cup Active, FirstPage(c)
  PROVE  (RowsCommitted /\ ClientKnown /\ Behind /\ Reading)'
<1>1. /\ UNCHANGED <<subscription, usedIds, stored, matches, notes>> /\ Active' = Active
      /\ Committed' = Committed /\ client' = c /\ before' = ListOf(c)
  BY DEF FirstPage, subs, pipe, tables, Active, Committed
<1>2. ListOf(client)' = ListOf(c)
  BY <1>1 DEF ListOf, Mine
<1>3. PICK q \in Sorted(ListOf(c)) : shown' = Page(q, 0) /\ cursor' = NextCursor(q, 0)
  BY DEF FirstPage
<1>4. RowsCommitted'
  BY <1>1, ListRows DEF PageInv, RowsCommitted
<1>5. ClientKnown'
  <2>1. Readers \cap Subscriptions = {} /\ Active \subseteq usedIds
    BY InboxIdsAssumption DEF PageInv, Typed, InboxTypeOK
  <2> QED
    BY <1>1, <2>1 DEF ClientKnown
<1>6. Behind'
  BY <1>1, <1>2 DEF Behind
<1>7. Reading'
  <2>1. cursor' = -1 \/ cursor' > 0
    BY <1>3, BatchCounts DEF NextCursor
  <2>2. ASSUME NEW n \in ListOf(c), Alone(stored, ListOf(c), n)
        PROVE  \/ n \in shown'
               \/ cursor' > 0 /\ cursor' <= Cardinality(AboveIn(stored, ListOf(c), n))
    <3>1. AboveIn(stored, ListOf(c), n) \subseteq ListOf(c)
      BY DEF AboveIn
    <3>2. IsFiniteSet(ListOf(c)) /\ \A m \in ListOf(c) : stored[m.article] \in Nat
      BY ListRows
    <3>3. Cardinality(AboveIn(stored, ListOf(c), n)) \in Nat
      BY <3>1, <3>2, SmallerSubset
    <3>4. 0 \in Nat /\ 0 <= Cardinality(AboveIn(stored, ListOf(c), n))
      BY <3>3
    <3>5. \/ n \in Page(q, 0)
          \/ /\ NextCursor(q, 0) = 0 + PageSize
             /\ 0 + PageSize <= Cardinality(AboveIn(stored, ListOf(c), n))
      BY <2>2, <3>2, <3>4, PageShows
    <3> QED
      BY <1>3, <3>5, BatchCounts
  <2> QED
    BY <1>1, <1>2, <2>1, <2>2 DEF Reading
<1> QED
  BY <1>4, <1>5, <1>6, <1>7

LEMMA NextPageShows ==
  ASSUME PageInv, NextPage
  PROVE  (RowsCommitted /\ ClientKnown /\ Behind /\ Reading)'
<1>1. /\ UNCHANGED <<subscription, usedIds, stored, matches, notes, client, before>>
      /\ Active' = Active /\ Committed' = Committed
  BY DEF NextPage, subs, pipe, tables, Active, Committed
<1>2. ListOf(client)' = ListOf(client)
  BY <1>1 DEF ListOf, Mine
<1>3. client \in Readers \cup Active /\ cursor > 0
  BY DEF NextPage
<1>4. PICK q \in Sorted(ListOf(client)) :
        shown' = shown \cup Page(q, cursor) /\ cursor' = NextCursor(q, cursor)
  BY DEF NextPage
<1>5. client # Nobody /\ cursor \in Nat
  BY <1>3, InboxNobodyAssumption DEF PageInv, Typed, InboxTypeOK, Active
<1>6. (RowsCommitted /\ ClientKnown /\ Behind)'
  BY <1>1, <1>2 DEF PageInv, RowsCommitted, ClientKnown, Behind
<1>7. Reading'
  <2>1. cursor' = -1 \/ cursor' > 0
    BY <1>4, <1>5, BatchCounts DEF NextCursor
  <2>2. ASSUME NEW n \in before, Alone(stored, before, n)
        PROVE  \/ n \in shown'
               \/ cursor' > 0 /\ cursor' <= Cardinality(AboveIn(stored, ListOf(client), n))
    <3>1. n \in shown \/ cursor <= Cardinality(AboveIn(stored, ListOf(client), n))
      BY <1>3, <1>5, <2>2 DEF PageInv, Reading
    <3>2. CASE n \in shown
      BY <1>4, <3>2
    <3>3. CASE cursor <= Cardinality(AboveIn(stored, ListOf(client), n))
      <4>1. IsFiniteSet(ListOf(client)) /\ \A m \in ListOf(client) : stored[m.article] \in Nat
        BY ListRows
      <4>2. Alone(stored, ListOf(client), n)
        BY <1>3, <2>2, StaysAlone
      <4>3. \/ n \in Page(q, cursor)
            \/ /\ NextCursor(q, cursor) = cursor + PageSize
               /\ cursor + PageSize <= Cardinality(AboveIn(stored, ListOf(client), n))
        BY <1>5, <3>3, <4>1, <4>2, PageShows
      <4> QED
        BY <1>4, <1>5, <4>3, BatchCounts
    <3> QED
      BY <3>1, <3>2, <3>3
  <2> QED
    BY <1>1, <1>2, <2>1, <2>2 DEF Reading
<1> QED
  BY <1>6, <1>7

\* A delivery puts new rows above all others, and moves none.
LEMMA DeliverShows ==
  ASSUME PageInv, Deliver, Typed'
  PROVE  (RowsCommitted /\ ClientKnown /\ Behind /\ Reading)'
<1>1. /\ UNCHANGED <<subscription, usedIds, client, cursor, shown, before>> /\ Active' = Active
      /\ matches' = matches \cup {[subscription |-> h[2][1], article |-> h[1]] : h \in Hits}
      /\ notes' = notes \cup NewNotes
  BY DEF Deliver, subs, paging, Active
<1>2. /\ Committed' = Committed \cup batch /\ LastBatch \in Nat
      /\ \A a \in Committed : stored'[a] = stored[a] /\ stored[a] \in Nat /\ stored[a] <= LastBatch
      /\ \A a \in batch : stored'[a] = LastBatch + 1
  BY Delivered DEF PageInv, Committed
<1>3. \A m \in notes' \cup matches' : m \in notes \cup matches \/ m.article \in batch
  <2>1. \A h \in Hits : h[1] \in batch
    BY HitType DEF PageInv
  <2>2. \A m \in NewNotes : m.article \in batch
    BY <2>1 DEF NewNotes
  <2> QED
    BY <1>1, <2>1, <2>2
<1>4. /\ ListOf(client) \subseteq ListOf(client)'
      /\ \A m \in ListOf(client)' \ ListOf(client) : m.article \in batch
  <2>1. \A h \in Hits : h[1] \in batch
    BY HitType DEF PageInv
  <2>2. \A m \in NewNotes : m.article \in batch
    BY <2>1 DEF NewNotes
  <2> QED
    BY <1>1, <2>1, <2>2 DEF ListOf, Mine
<1>5. RowsCommitted'
  BY <1>1, <1>2, <1>3 DEF PageInv, RowsCommitted
<1>6. ClientKnown'
  BY <1>1 DEF PageInv, ClientKnown
<1>7. \A n \in before : n.article \in Committed
  BY DEF PageInv, RowsCommitted
<1>8. \A m \in ListOf(client) : m.article \in Committed
  BY ListRows
<1>9. Behind'
  <2> SUFFICES ASSUME client \in Readers \cup Active
               PROVE  /\ before \subseteq ListOf(client)'
                      /\ \A m \in ListOf(client)' \ before, n \in before :
                           stored'[m.article] > stored'[n.article]
    BY <1>1 DEF Behind
  <2>1. /\ before \subseteq ListOf(client)
        /\ \A m \in ListOf(client) \ before, n \in before : stored[m.article] > stored[n.article]
    BY DEF PageInv, Behind
  <2>2. ASSUME NEW m \in ListOf(client)' \ before, NEW n \in before
        PROVE  stored'[m.article] > stored'[n.article]
    <3>1. CASE m \in ListOf(client)
      BY <1>2, <1>7, <1>8, <2>1, <3>1
    <3>2. CASE m \notin ListOf(client)
      BY <1>2, <1>4, <1>7, <3>2
    <3> QED
      BY <3>1, <3>2
  <2> QED
    BY <1>4, <2>1, <2>2
<1>10. Reading'
  <2>1. \A n \in before : Alone(stored', before, n) => Alone(stored, before, n)
    BY <1>2, <1>7 DEF Alone
  <2>2. ASSUME NEW n \in before
        PROVE  /\ Cardinality(AboveIn(stored, ListOf(client), n)) \in Nat
               /\ Cardinality(AboveIn(stored', ListOf(client)', n)) \in Nat
               /\ Cardinality(AboveIn(stored, ListOf(client), n))
                    <= Cardinality(AboveIn(stored', ListOf(client)', n))
    <3>1. AboveIn(stored, ListOf(client), n) \subseteq AboveIn(stored', ListOf(client)', n)
      BY <1>2, <1>4, <1>7, <1>8 DEF AboveIn
    <3>2. IsFiniteSet(ListOf(client)')
      <4>1. notes' \subseteq Note /\ matches' \subseteq KeywordMatch
        BY DEF Typed, InboxTypeOK
      <4>2. \/ ListOf(client)' = {m \in notes' : m.reader = client}
            \/ ListOf(client)' = {m \in matches' : m.subscription = client}
        BY <1>1 DEF ListOf, Mine
      <4>3. \/ ListOf(client)' \subseteq Note /\ \A m \in ListOf(client)' : m.reader = client
            \/ ListOf(client)' \subseteq KeywordMatch
        BY <4>1, <4>2
      <4> QED
        BY <4>3, FiniteRows
    <3>3. AboveIn(stored', ListOf(client)', n) \subseteq ListOf(client)'
      BY DEF AboveIn
    <3>4. IsFiniteSet(AboveIn(stored', ListOf(client)', n))
      BY <3>2, <3>3, SmallerSubset
    <3> QED
      BY <3>1, <3>4, SmallerSubset
  <2>3. cursor \in {-1} \cup Nat
    BY DEF PageInv, Typed, InboxTypeOK
  <2> QED
    BY <1>1, <2>1, <2>2, <2>3 DEF PageInv, Reading
<1> QED
  BY <1>5, <1>6, <1>9, <1>10

\* Steps that change neither the pages nor the list, unless they take the list away.
LEMMA OtherShows ==
  ASSUME PageInv, UNCHANGED <<stored, paging>>, usedIds \subseteq usedIds',
         notes' \subseteq notes, matches' \subseteq matches,
         client \in Readers \cup Active' => client \in Readers \cup Active /\ ListOf(client)' = ListOf(client)
  PROVE  (RowsCommitted /\ ClientKnown /\ Behind /\ Reading)'
<1>1. UNCHANGED <<client, cursor, shown, before>> /\ Committed' = Committed
  BY DEF paging, Committed
<1>2. (RowsCommitted /\ ClientKnown)'
  BY <1>1 DEF PageInv, RowsCommitted, ClientKnown
<1>3. Behind'
  BY <1>1 DEF PageInv, Behind
<1>4. Reading'
  BY <1>1 DEF PageInv, Reading
<1> QED
  BY <1>2, <1>3, <1>4

LEMMA SubscribeShows ==
  ASSUME PageInv, NEW u \in Readers, NEW w \in Words, Subscribe(u, w)
  PROVE  (RowsCommitted /\ ClientKnown /\ Behind /\ Reading)'
<1>1. PICK b \in Subscriptions \ usedIds :
        /\ \A c \in Subscriptions : c # b => subscription'[c] = subscription[c]
        /\ usedIds' = usedIds \cup {b}
  BY DEF Subscribe, Typed, PageInv, InboxTypeOK
<1>2. UNCHANGED <<stored, matches, notes, paging, client>>
  BY DEF Subscribe, pipe, tables, paging
<1>3. client \in Readers \cup Active' => client \in Readers \cup Active
  BY <1>1 DEF Active, PageInv, ClientKnown
<1>4. ListOf(client)' = ListOf(client)
  BY <1>2 DEF ListOf, Mine
<1> QED
  BY <1>1, <1>2, <1>3, <1>4, OtherShows

LEMMA UnsubscribeShows ==
  ASSUME PageInv, NEW b \in Subscriptions, Unsubscribe(b)
  PROVE  (RowsCommitted /\ ClientKnown /\ Behind /\ Reading)'
<1>1. /\ UNCHANGED <<usedIds, stored, notes, paging, client>>
      /\ matches' = {m \in matches : m.subscription # b}
  BY DEF Unsubscribe, pipe, paging
<1>2. \A c \in Active' : c \in Active /\ c # b
  BY DEF Unsubscribe, Active, PageInv, Typed, InboxTypeOK
<1>3. client # b => ListOf(client)' = ListOf(client)
  BY <1>1 DEF ListOf, Mine
<1>4. b \notin Readers
  BY InboxIdsAssumption
<1> QED
  BY <1>1, <1>2, <1>3, <1>4, OtherShows

LEMMA StepPageInv == PageInv /\ [InboxNext]_inboxVars => PageInv'
<1> SUFFICES ASSUME PageInv, [InboxNext]_inboxVars
             PROVE  (RowsCommitted /\ ClientKnown /\ Behind /\ Reading)'
  BY StepTyped DEF PageInv
<1>1. Typed'
  BY StepTyped DEF PageInv
<1>2. CASE UNCHANGED <<subs, stored, matches, notes, paging>>
  <2>1. UNCHANGED <<subscription, usedIds, stored, matches, notes, paging, client>>
    BY <1>2 DEF subs, paging
  <2>2. Active' = Active /\ ListOf(client)' = ListOf(client)
    BY <2>1 DEF Active, ListOf, Mine
  <2> QED
    BY <2>1, <2>2, OtherShows
<1>3. CASE UNCHANGED inboxVars \/ Match \/ DeliverFails
  BY <1>2, <1>3 DEF Match, DeliverFails, inboxVars, pipe, tables
<1>4. CASE (\E n \in unread : MarkRead(n)) \/ \E u \in Readers : MarkAllRead(u)
  BY <1>2, <1>4 DEF MarkRead, MarkAllRead, pipe
<1>5. CASE Leave
  <2>1. /\ client' = Nobody /\ before' = {} /\ UNCHANGED <<stored, matches, notes>>
        /\ Committed' = Committed
    BY <1>5 DEF Leave, pipe, tables, Committed
  <2> QED
    BY <2>1, InboxNobodyAssumption DEF PageInv, RowsCommitted, ClientKnown, Behind, Reading
<1> QED
  BY <1>1, <1>3, <1>4, <1>5, SubscribeShows, UnsubscribeShows, FirstPageShows, NextPageShows,
     DeliverShows DEF InboxNext

\* A client that follows the cursors to the end has been shown every row of its list that
\* was there when it began and has its created_at to itself, whatever came meanwhile.
THEOREM Paging == InboxSpec => []PagesShowAll
<1>1. InboxInit => PageInv
  <2> SUFFICES ASSUME InboxInit PROVE PageInv
    OBVIOUS
  <2> QED
    BY InitTyped, InboxNobodyAssumption
       DEF InboxInit, PageInv, RowsCommitted, ClientKnown, Behind, Reading, ListOf, Mine, Active
<1> QED
  BY <1>1, StepPageInv, PagesFromReading, PTL DEF InboxSpec
-----------------------------------------------------------------------------
(* The headlines a cycle goes on with *)

\* A document was collected: its title stood on a page with its link.
Documented(documents) ==
  \A u \in Urls : documents[u] # None => [title |-> documents[u], url |-> u] \in collected

\* Before it ends, a crawl has no outcome.
Founded ==
  /\ \A e \in ToSet(output.items) : [title |-> e.title, url |-> e.url] \in collected
  /\ Documented(index) /\ Documented(visible)
  /\ step # "idle" => outcome = "none"
  /\ MatchingIsFounded

Well(m) ==
  /\ [title |-> m.title, url |-> m.url] \in collected
  /\ m.words # {}
  /\ \A w \in m.words : w \in selected /\ (Resembles(m.title, w) \/ Holds(m.title, w))

LEMMA FirstsAreItems == Firsts \subseteq ToSet(output.items)
  BY DEF Firsts, ToSet

\* What is found in Python is well founded; nothing is, only if no first item has a keyword.
LEMMA InPythonFounded ==
  ASSUME Founded
  PROVE  /\ \A m \in InPython : Well(m)
         /\ InPython = {} => \A e \in Firsts, w \in selected : ~Holds(e.title, w)
<1> DEFINE words(e) == {w \in selected : Holds(e.title, w)}
           found    == {Article(e.title, e.url, words(e)) : e \in Firsts}
<1>1. InPython = {m \in found : m.words # {}}
  BY DEF InPython, Matches
<1>2. ASSUME NEW e \in Firsts
      PROVE  LET m == Article(e.title, e.url, words(e))
             IN m.title = e.title /\ m.url = e.url /\ m.words = words(e)
  BY DEF Article
<1>3. ASSUME NEW m \in InPython PROVE Well(m)
  <2>1. PICK e \in Firsts : m = Article(e.title, e.url, words(e))
    BY <1>1
  <2>2. m.title = e.title /\ m.url = e.url /\ m.words = words(e) /\ m.words # {}
    BY <1>1, <1>2, <2>1
  <2>3. [title |-> e.title, url |-> e.url] \in collected
    BY FirstsAreItems DEF Founded
  <2> QED
    BY <2>2, <2>3 DEF Well
<1>4. ASSUME InPython = {}, NEW e \in Firsts, NEW w \in selected, Holds(e.title, w) PROVE FALSE
  <2>1. w \in words(e)
    BY <1>4
  <2>2. Article(e.title, e.url, words(e)) \in InPython
    BY <1>1, <1>2, <2>1
  <2> QED
    BY <1>4, <2>2
<1> QED
  BY <1>3, <1>4

\* What a search answers is well founded.
LEMMA AnswersFounded ==
  ASSUME Founded, NEW H \in Answers
  PROVE  \A m \in H : Well(m)
<1>1. H \subseteq Hit
  BY DEF Answers
<1> DEFINE words(u) == {w \in selected : Resembles(visible[u], w)}
           there    == {v \in Urls : visible[v] # None}
           found    == {Article(visible[u], u, words(u)) : u \in there}
<1>2. Hit = {m \in found : m.words # {}}
  BY DEF Hit, Matches
<1>3. ASSUME NEW m \in H PROVE Well(m)
  <2>1. m \in found /\ m.words # {}
    BY <1>1, <1>2
  <2>2. PICK u \in there : m = Article(visible[u], u, words(u))
    BY <2>1
  <2>3. m.title = visible[u] /\ m.url = u /\ m.words = words(u)
    BY <2>2 DEF Article
  <2>4. [title |-> visible[u], url |-> u] \in collected
    BY DEF Founded, Documented
  <2> QED
    BY <2>1, <2>3, <2>4 DEF Well
<1> QED
  BY <1>3

\* How the matching ends.
LEMMA GoesOnFounded ==
  ASSUME Founded, NEW H, \A m \in H : Well(m), GoOn(OrInPython(H)),
         UNCHANGED <<output, cluster, selected, collected>>
  PROVE  Founded'
<1>1. /\ UNCHANGED <<output, index, visible, selected, collected>> /\ step' = "idle"
      /\ matched' = OrInPython(H)
      /\ outcome' = IF OrInPython(H) = {} THEN "unmatched" ELSE "matched"
  BY DEF GoOn, EndCrawl, cluster
<1>2. /\ \A m \in OrInPython(H) : Well(m)
      /\ OrInPython(H) = {} => \A e \in Firsts, w \in selected : ~Holds(e.title, w)
  BY InPythonFounded DEF OrInPython
<1>3. Firsts' = Firsts
  BY <1>1 DEF Firsts
<1>4. MatchingIsFounded'
  BY <1>1, <1>2, <1>3 DEF MatchingIsFounded, Well
<1> QED
  BY <1>1, <1>4 DEF Founded, Documented

\* A step that leaves the matches and the documents alone, unless it ends the crawl in
\* another way.
LEMMA OtherFounded ==
  ASSUME Founded, UNCHANGED <<output, index, visible, selected, matched, collected>>,
         \/ UNCHANGED outcome /\ (step' # "idle" => step # "idle")
         \/ step' = "idle" /\ outcome' \notin {"matched", "unmatched"}
  PROVE  Founded'
<1>1. Firsts' = Firsts
  BY DEF Firsts
<1>2. MatchingIsFounded'
  BY <1>1 DEF Founded, MatchingIsFounded
<1> QED
  BY <1>2 DEF Founded, Documented

LEMMA BeginFounded ==
  ASSUME Founded, NEW k, Begin(k)
  PROVE  Founded'
<1>1. output'.items = <<>> /\ outcome' = "none" /\ UNCHANGED <<index, visible, collected>>
  BY DEF Begin, NoOutput, cluster
<1>2. ToSet(output'.items) = {}
  BY <1>1 DEF ToSet
<1> QED
  BY <1>1, <1>2 DEF Founded, Documented, MatchingIsFounded

LEMMA CombineFounded ==
  ASSUME Founded, Combine
  PROVE  Founded'
<1>1. UNCHANGED <<index, visible>> /\ collected \subseteq collected'
      /\ \A e \in ToSet(output'.items) : [title |-> e.title, url |-> e.url] \in collected'
  BY DEF Combine, cluster
<1>2. outcome' \in {"none", "no keywords"} /\ (step' # "idle" => outcome' = "none")
  <2>1. outcome = "none"
    BY DEF Founded, Combine
  <2> QED
    BY <2>1 DEF Combine, EndCrawl
<1> QED
  BY <1>1, <1>2 DEF Founded, Documented, MatchingIsFounded

LEMMA SaveFounded ==
  ASSUME Founded, Save
  PROVE  Founded'
<1>1. /\ UNCHANGED <<output, index, visible, collected>>
      /\ outcome' = "unmatched" => output.items = <<>>
      /\ outcome' \in {"none", "collected", "unmatched"} /\ (step' # "idle" => outcome' = "none")
  <2>1. outcome = "none"
    BY DEF Founded, Save
  <2> QED
    BY <2>1 DEF Save, EndCrawl, cluster
<1>2. output.items = <<>> => Firsts' = {}
  BY <1>1, FirstsAreItems DEF ToSet, Firsts
<1>3. MatchingIsFounded'
  BY <1>1, <1>2 DEF MatchingIsFounded
<1> QED
  BY <1>1, <1>3 DEF Founded, Documented

LEMMA IndexFounded ==
  ASSUME Founded, IndexArticles
  PROVE  Founded'
<1>1. /\ UNCHANGED <<output, visible, selected, matched, outcome, collected>>
      /\ step = "ping" /\ step' = "search"
  BY DEF IndexArticles, result
<1>2. PICK stood \in SUBSET ToSet(output.items) :
        index' = [u \in Urls |-> IF \E e \in stood : e.url = u
                                 THEN (CHOOSE e \in stood : e.url = u).title ELSE index[u]]
  BY DEF IndexArticles
<1>3. \A e \in stood : [title |-> e.title, url |-> e.url] \in collected
  BY <1>2 DEF Founded
<1>4. Documented(index)'
  <2> SUFFICES ASSUME NEW u \in Urls, index'[u] # None
               PROVE  [title |-> index'[u], url |-> u] \in collected
    BY <1>1 DEF Documented
  <2>1. CASE \E e \in stood : e.url = u
    <3>1. PICK e \in stood : e.url = u /\ index'[u] = e.title
      BY <1>2, <2>1
    <3> QED
      BY <1>3, <3>1
  <2>2. CASE ~\E e \in stood : e.url = u
    <3>1. index'[u] = index[u]
      BY <1>2, <2>2
    <3> QED
      BY <3>1 DEF Founded, Documented
  <2> QED
    BY <2>1, <2>2
<1>5. Firsts' = Firsts
  BY <1>1 DEF Firsts
<1>6. MatchingIsFounded'
  BY <1>1, <1>5 DEF Founded, MatchingIsFounded
<1> QED
  BY <1>1, <1>4, <1>6 DEF Founded, Documented

LEMMA RefreshFounded ==
  ASSUME Founded, Refresh
  PROVE  Founded'
<1>1. UNCHANGED <<output, index, step, selected, matched, outcome, collected>> /\ visible' = index
  BY DEF Refresh, result
<1>2. Firsts' = Firsts
  BY <1>1 DEF Firsts
<1> QED
  BY <1>1, <1>2 DEF Founded, Documented, MatchingIsFounded

LEMMA StepFounded == Founded /\ [KeywordsNext]_crawlVars => Founded'
<1> SUFFICES ASSUME Founded, [KeywordsNext]_crawlVars PROVE Founded'
  OBVIOUS
<1>1. CASE UNCHANGED crawlVars
  BY <1>1, OtherFounded DEF crawlVars, cluster, result
<1>2. ASSUME NEW c \in Channels, FetchFeed(c) \/ FetchPage(c) \/ Blocked(c) \/ FetchFails(c)
      PROVE  Founded'
  <2>1. UNCHANGED <<output, cluster, result, collected, step>>
    BY <1>2 DEF FetchFeed, FetchPage, Blocked, FetchFails, Answer
  <2> QED
    BY <2>1, OtherFounded DEF cluster, result
<1>3. CASE LoadFails \/ SaveFails
  BY <1>3, OtherFounded DEF LoadFails, SaveFails, EndCrawl, cluster
<1>4. CASE IndexFails
  BY <1>4, OtherFounded DEF IndexFails, cluster, result
<1>5. CASE PingFails
  <2>1. OrInPython({}) = InPython /\ UNCHANGED <<output, cluster, selected, collected>>
    BY <1>5 DEF PingFails, OrInPython
  <2>2. GoOn(OrInPython({}))
    BY <1>5, <2>1 DEF PingFails
  <2> QED
    BY <2>1, <2>2, GoesOnFounded
<1>6. CASE Search
  <2>1. PICK H \in Answers : GoOn(OrInPython(H))
    BY <1>6 DEF Search
  <2>2. UNCHANGED <<output, cluster, selected, collected>>
    BY <1>6 DEF Search
  <2> QED
    BY <2>1, <2>2, AnswersFounded, GoesOnFounded
<1>7. CASE SearchFails
  BY <1>7, GoesOnFounded DEF SearchFails
<1> QED
  BY <1>1, <1>2, <1>3, <1>4, <1>5, <1>6, <1>7, BeginFounded, CombineFounded, SaveFounded,
     IndexFounded, RefreshFounded DEF KeywordsNext

\* Whatever Elasticsearch does, a cycle goes on only with headlines some crawl collected,
\* for a selected keyword the title has, and gives up only if none that is the first of
\* its link holds one.
THEOREM FoundMatches == KeywordsSpec => []MatchingIsFounded
<1>1. KeywordsInit => Founded
  <2> SUFFICES ASSUME KeywordsInit PROVE Founded
    OBVIOUS
  <2>1. ToSet(output.items) = {}
    BY DEF KeywordsInit, NoOutput, ToSet
  <2> QED
    BY <2>1 DEF KeywordsInit, Founded, Documented, MatchingIsFounded
<1>2. Founded => MatchingIsFounded
  BY DEF Founded
<1> QED
  BY <1>1, <1>2, StepFounded, PTL DEF KeywordsSpec

-----------------------------------------------------------------------------
(* Induction, over numbers and over the places of a list *)

\* A set of numbers that is not empty has a least member.
LEMMA NatMinimum ==
  ASSUME NEW T, T \subseteq Nat, T # {}
  PROVE  \E n \in T : \A m \in T : n <= m
<1>1. PICK n \in T : \A m \in T : <<m, n>> \notin OpToRel(<, Nat)
  BY WFMin, NatLessThanWellFounded, Zenon
<1>2. \A m \in T : ~(m < n)
  BY <1>1, Zenon DEF OpToRel
<1> QED
  BY <1>2

\* Induction, by the least number that is not in T.
LEMMA Induction ==
  ASSUME NEW T, NEW n \in Nat, 0 \in T, \A i \in 0..(n - 1) : i \in T => i + 1 \in T
  PROVE  \A i \in 0..n : i \in T
<1>1. PICK U : U = (0..n) \ T
  OBVIOUS
<1> SUFFICES ASSUME U # {} PROVE FALSE
  BY <1>1
<1>2. U \subseteq Nat
  BY <1>1
<1>3. PICK i \in U : \A j \in U : i <= j
  BY <1>2, NatMinimum
<1>4. i \in 0..n /\ i \notin T
  BY <1>1
<1>5. i # 0 /\ i - 1 \in 0..(n - 1) /\ (i - 1) + 1 = i /\ i - 1 \in 0..n /\ ~(i <= i - 1)
  BY <1>4
<1> QED
  BY <1>1, <1>3, <1>4, <1>5

\* The maximum of a set of numbers up to n.
LEMMA MaxOf ==
  ASSUME NEW n \in Nat, NEW s \in SUBSET (1..n), s # {}
  PROVE  Max(s) \in s /\ \A y \in s : y <= Max(s)
<1>1. PICK U : U = {k \in 0..n : \A y \in s : y <= k}
  OBVIOUS
<1>2. U \subseteq Nat /\ n \in U
  BY <1>1
<1>3. PICK m \in U : \A k \in U : m <= k
  BY <1>2, NatMinimum
<1>4. m \in 0..n /\ \A y \in s : y \in 1..n /\ y <= m
  BY <1>1, <1>3
<1>5. m \in s
  <2> SUFFICES ASSUME m \notin s PROVE FALSE
    OBVIOUS
  <2>1. PICK y \in s : TRUE
    OBVIOUS
  <2>2. m # 0 /\ m - 1 \in 0..n /\ ~(m <= m - 1)
    BY <1>4, <2>1
  <2>3. \A z \in s : z <= m - 1
    BY <1>4
  <2> QED
    BY <1>1, <1>3, <2>2, <2>3
<1>6. \E x \in s : \A y \in s : x >= y
  BY <1>4, <1>5
<1>7. Max(s) \in s /\ \A y \in s : Max(s) >= y
  BY <1>6 DEF Max
<1> QED
  BY <1>4, <1>7

\* g is the recursive function by which a fold of op over the places of a list, the last
\* one outermost, is defined.
Unfolds(g, op, base, A, n) ==
  /\ g \in [SUBSET (1..n) -> A]
  /\ \A s \in SUBSET (1..n) : g[s] = IF s = {} THEN base ELSE op[<<g[s \ {Max(s)}], Max(s)>>]

\* The recursive function by which a fold is defined exists: over the subsets of 1..k
\* for every k, by induction.
LEMMA FoldExists ==
  ASSUME NEW n \in Nat, NEW A, NEW base \in A, NEW op \in [A \X (1..n) -> A]
  PROVE  \E g : Unfolds(g, op, base, A, n)
<1> DEFINE Upto(k) == \E g \in [SUBSET (1..k) -> A] : \A s \in SUBSET (1..k) :
                        g[s] = IF s = {} THEN base ELSE op[<<g[s \ {Max(s)}], Max(s)>>]
           T == {k \in 0..n : Upto(k)}
<1>1. Upto(0)
  <2>1. 1..0 = {} /\ SUBSET (1..0) = {{}}
    OBVIOUS
  <2> QED
    BY <2>1, [s \in SUBSET (1..0) |-> base] \in [SUBSET (1..0) -> A]
<1>2. ASSUME NEW k \in 0..(n - 1), Upto(k) PROVE Upto(k + 1)
  <2>1. PICK g \in [SUBSET (1..k) -> A] : \A s \in SUBSET (1..k) :
           g[s] = IF s = {} THEN base ELSE op[<<g[s \ {Max(s)}], Max(s)>>]
    BY <1>2
  <2>2. /\ k + 1 \in 1..n /\ k + 1 \in Nat /\ 1..k \subseteq 1..(k + 1) /\ k + 1 \notin 1..k
        /\ \A i \in 1..(k + 1) : i # k + 1 => i \in 1..k
    OBVIOUS
  <2>3. \A s \in SUBSET (1..(k + 1)) :
          k + 1 \in s => Max(s) = k + 1 /\ s \ {k + 1} \in SUBSET (1..k)
    <3> SUFFICES ASSUME NEW s \in SUBSET (1..(k + 1)), k + 1 \in s
                 PROVE  Max(s) = k + 1 /\ s \ {k + 1} \in SUBSET (1..k)
      OBVIOUS
    <3>1. Max(s) \in s /\ k + 1 <= Max(s)
      BY <2>2, MaxOf
    <3>2. Max(s) \in 1..(k + 1)
      BY <3>1
    <3> QED
      BY <2>2, <3>1, <3>2
  <2>4. PICK h : h = [s \in SUBSET (1..(k + 1)) |->
                        IF k + 1 \in s THEN op[<<g[s \ {k + 1}], k + 1>>] ELSE g[s]]
    OBVIOUS
  <2>5. h \in [SUBSET (1..(k + 1)) -> A]
    BY <2>1, <2>2, <2>3, <2>4
  <2>6. ASSUME NEW s \in SUBSET (1..(k + 1))
        PROVE  h[s] = IF s = {} THEN base ELSE op[<<h[s \ {Max(s)}], Max(s)>>]
    <3>1. CASE k + 1 \in s
      <4>1. h[s \ {k + 1}] = g[s \ {k + 1}]
        BY <2>4
      <4> QED
        BY <2>3, <2>4, <3>1, <4>1
    <3>2. CASE k + 1 \notin s
      <4>1. /\ s \in SUBSET (1..k) /\ s \ {Max(s)} \in SUBSET (1..k)
            /\ s \ {Max(s)} \in SUBSET (1..(k + 1)) /\ k + 1 \notin s \ {Max(s)}
        BY <2>2, <3>2
      <4>2. h[s] = g[s] /\ h[s \ {Max(s)}] = g[s \ {Max(s)}]
        BY <2>4, <3>2, <4>1
      <4> QED
        BY <2>1, <4>1, <4>2
    <3> QED
      BY <3>1, <3>2
  <2> QED
    BY <2>5, <2>6
<1> HIDE DEF Upto
<1>3. 0 \in T
  BY <1>1
<1>4. \A i \in 0..(n - 1) : i \in T => i + 1 \in T
  BY <1>2
<1>5. n \in T
  <2> HIDE DEF T
  <2> QED
    BY <1>3, <1>4, Induction
<1>6. Upto(n)
  BY <1>5
<1> QED
  BY <1>6 DEF Upto, Unfolds

\* The maximum of 1..i, and what is left without it.
LEMMA MaxUpto ==
  ASSUME NEW i \in Nat, i # 0
  PROVE  Max(1..i) = i /\ (1..i) \ {i} = 1..(i - 1) /\ 1..i # {}
<1>1. i \in 1..i /\ 1..i # {} /\ (1..i) \ {i} = 1..(i - 1)
  OBVIOUS
<1>2. Max(1..i) \in 1..i /\ i <= Max(1..i)
  BY <1>1, MaxOf
<1> QED
  BY <1>1, <1>2

\* Where a fold is after each of n steps.
LEMMA Initials ==
  ASSUME NEW n \in Nat, NEW i \in 1..n
  PROVE  /\ 1..i \in SUBSET (1..n) /\ 1..i # {} /\ Max(1..i) = i /\ (1..i) \ {i} = 1..(i - 1)
         /\ i - 1 \in 0..n /\ i \in 0..n
<1>1. i \in Nat /\ i # 0 /\ \A j \in 1..i : j \in 1..n
  OBVIOUS
<1>2. Max(1..i) = i /\ (1..i) \ {i} = 1..(i - 1) /\ 1..i # {}
  BY <1>1, MaxUpto
<1> QED
  BY <1>1, <1>2

\* Picked is where n steps lead, each of which appends an element or none.
LEMMA PickedRuns ==
  ASSUME NEW E, NEW q \in Seq(E), NEW P
  PROVE  \E f : /\ Picked(q, P) = f[Len(q)] /\ f[0] = <<>>
                /\ \A i \in 1..Len(q) : f[i] = IF i \in P THEN Append(f[i - 1], q[i]) ELSE f[i - 1]
<1> DEFINE D == DOMAIN [i \in DOMAIN q |-> i]
           Runs(it) == it = [s \in SUBSET D |->
             IF s = {} THEN <<>>
             ELSE LET x == Max(s)
                  IN IF [i \in DOMAIN q |-> i][x] \in P
                     THEN Append(it[s \ {x}], q[[i \in DOMAIN q |-> i][x]])
                     ELSE it[s \ {x}]]
           n == Len(q)
<1>1. n \in Nat /\ D = 1..n /\ \A i \in D : [j \in DOMAIN q |-> j][i] = i /\ q[i] \in E
  OBVIOUS
<1>2. \E it : Runs(it)
  <2>1. PICK op : op = [p \in Seq(E) \X (1..n) |->
                         IF p[2] \in P THEN Append(p[1], q[p[2]]) ELSE p[1]]
    OBVIOUS
  <2>2. op \in [Seq(E) \X (1..n) -> Seq(E)] /\ <<>> \in Seq(E)
    BY <1>1, <2>1
  <2>3. PICK g : Unfolds(g, op, <<>>, Seq(E), n)
    BY <1>1, <2>2, FoldExists
  <2>4. ASSUME NEW s \in SUBSET D, s # {}
        PROVE  LET x == Max(s)
               IN /\ x \in D /\ g[s \ {x}] \in Seq(E)
                  /\ g[s] = IF x \in P THEN Append(g[s \ {x}], q[x]) ELSE g[s \ {x}]
    <3>1. Max(s) \in D
      BY <1>1, <2>4, MaxOf
    <3>2. g[s \ {Max(s)}] \in Seq(E)
      BY <1>1, <2>3 DEF Unfolds
    <3>3. g[s] = op[<<g[s \ {Max(s)}], Max(s)>>]
      BY <1>1, <2>3, <2>4 DEF Unfolds
    <3> QED
      BY <1>1, <2>1, <3>1, <3>2, <3>3
  <2>5. g = [s \in SUBSET D |-> g[s]] /\ g[{}] = <<>>
    BY <1>1, <2>3 DEF Unfolds
  <2>6. Runs(g)
    BY <1>1, <2>4, <2>5
  <2> QED
    BY <2>6
<1>3. PICK it : Runs(it) /\ Picked(q, P) = it[D]
  <2>1. Picked(q, P) = (CHOOSE it : Runs(it))[D]
    BY DEF Picked, FoldLeftDomain, FoldLeft, MapThenFoldSet
  <2> HIDE DEF Runs
  <2> QED
    BY <1>2, <2>1
<1>4. it[{}] = <<>>
  BY <1>3
<1>5. ASSUME NEW i \in 1..n
      PROVE it[1..i] = IF i \in P THEN Append(it[1..(i - 1)], q[i]) ELSE it[1..(i - 1)]
  <2>1. /\ 1..i \in SUBSET D /\ 1..i # {} /\ Max(1..i) = i /\ (1..i) \ {i} = 1..(i - 1)
        /\ [j \in DOMAIN q |-> j][i] = i
    BY <1>1, Initials
  <2>2. \A s \in SUBSET D : s # {} /\ Max(s) = i /\ s \ {i} = 1..(i - 1) =>
          it[s] = IF [j \in DOMAIN q |-> j][i] \in P
                  THEN Append(it[1..(i - 1)], q[[j \in DOMAIN q |-> j][i]]) ELSE it[1..(i - 1)]
    BY <1>3
  <2> HIDE DEF D, n, Runs
  <2> QED
    BY <2>1, <2>2
<1>6. PICK f : f = [i \in 0..n |-> it[1..i]]
  OBVIOUS
<1>7. f[0] = <<>> /\ f[n] = Picked(q, P)
  <2>1. 1..0 = {} /\ 0 \in 0..n /\ n \in 0..n
    BY <1>1
  <2> QED
    BY <1>1, <1>3, <1>4, <1>6, <2>1
<1>8. \A i \in 1..n : f[i] = IF i \in P THEN Append(f[i - 1], q[i]) ELSE f[i - 1]
  <2>1. \A i \in 1..n : i \in 0..n /\ i - 1 \in 0..n
    BY <1>1
  <2>2. \A i \in 0..n : f[i] = it[1..i]
    BY <1>6
  <2> HIDE DEF n
  <2> QED
    BY <1>5, <2>1, <2>2
<1> QED
  BY <1>7, <1>8

-----------------------------------------------------------------------------
(* Lists: elements picked, ranked, joined, filtered *)

\* A function on 1..m is a sequence.
LEMMA SequenceOf ==
  ASSUME NEW E, NEW m \in Nat, NEW s \in [1..m -> E]
  PROVE  s \in Seq(E) /\ Len(s) = m /\ DOMAIN s = 1..m
  OBVIOUS

\* A sequence is a function on 1..m.
LEMMA FunctionOf ==
  ASSUME NEW E, NEW q \in Seq(E)
  PROVE  Len(q) \in Nat /\ DOMAIN q = 1..Len(q) /\ q \in [1..Len(q) -> E]
  OBVIOUS

\* Append as a function.
LEMMA Appended ==
  ASSUME NEW E, NEW m \in Nat, NEW s \in [1..m -> E], NEW e \in E
  PROVE  /\ Append(s, e) \in [1..(m + 1) -> E]
         /\ Append(s, e) = [k \in 1..(m + 1) |-> IF k = m + 1 THEN e ELSE s[k]]
<1>1. s \in Seq(E) /\ Len(s) = m
  BY SequenceOf
<1>2. Append(s, e) \in Seq(E) /\ Len(Append(s, e)) = m + 1
  BY <1>1
<1>3. Append(s, e) \in [1..(m + 1) -> E]
  BY <1>2, FunctionOf
<1>4. Append(s, e)[Len(s) + 1] = e /\ \A k \in 1..Len(s) : Append(s, e)[k] = s[k]
  BY <1>1, AppendProperties
<1>5. \A k \in 1..(m + 1) : Append(s, e)[k] = IF k = m + 1 THEN e ELSE s[k]
  <2>1. \A k \in 1..(m + 1) : k # m + 1 => k \in 1..m
    OBVIOUS
  <2>2. Append(s, e)[m + 1] = e /\ \A k \in 1..m : Append(s, e)[k] = s[k]
    BY <1>1, <1>4
  <2> QED
    BY <2>1, <2>2
<1> QED
  BY <1>3, <1>5

\* g counts up m of the places 1..n.
Increasing(g, m, n) ==
  /\ g \in [1..m -> 1..n]
  /\ \A k, l \in 1..m : k < l => g[k] < g[l]

\* p is q at the m places that g counts up.
Taken(p, q, g, m) ==
  /\ m \in Nat /\ Increasing(g, m, Len(q))
  /\ p = [k \in 1..m |-> q[g[k]]]

\* The places of q in P are those that g counts up.
PlacesIn(q, P, g, m) == \A j \in 1..Len(q) : j \in P <=> \E k \in 1..m : g[k] = j

\* Picked keeps the places in P, in their order.
LEMMA PickedPlaces ==
  ASSUME NEW E, NEW q \in Seq(E), NEW P
  PROVE  \E m, g :
           /\ Taken(Picked(q, P), q, g, m)
           /\ PlacesIn(q, P, g, m)
<1>1. PICK f : /\ Picked(q, P) = f[Len(q)] /\ f[0] = <<>>
               /\ \A i \in 1..Len(q) : f[i] = IF i \in P THEN Append(f[i - 1], q[i]) ELSE f[i - 1]
  BY PickedRuns
<1> DEFINE n == Len(q)
           Upto(i) == \E m \in Nat : \E g :
             /\ Increasing(g, m, i)
             /\ \A j \in 1..i : j \in P <=> \E k \in 1..m : g[k] = j
             /\ f[i] = [k \in 1..m |-> q[g[k]]]
           T == {i \in 0..n : Upto(i)}
<1>2. n \in Nat /\ q \in [1..n -> E]
  OBVIOUS
<1> HIDE DEF n
<1>3. Upto(0)
  <2>1. PICK g : g = [k \in 1..0 |-> 1]
    OBVIOUS
  <2>2. 1..0 = {} /\ g \in [1..0 -> 1..0] /\ f[0] = [k \in 1..0 |-> q[g[k]]]
    BY <1>1, <2>1
  <2> QED
    BY <2>2 DEF Increasing
<1>4. ASSUME NEW i \in 0..(n - 1), Upto(i) PROVE Upto(i + 1)
  <2>1. PICK m, g : /\ m \in Nat
                    /\ Increasing(g, m, i)
                    /\ \A j \in 1..i : j \in P <=> \E k \in 1..m : g[k] = j
                    /\ f[i] = [k \in 1..m |-> q[g[k]]]
    BY <1>4
  <2> m \in Nat
    BY <2>1
  <2>2. /\ i \in Nat /\ i + 1 \in 1..n /\ (i + 1) - 1 = i /\ 1..i \subseteq 1..n
        /\ 1..i \subseteq 1..(i + 1) /\ i + 1 \notin 1..i /\ q[i + 1] \in E
        /\ \A j \in 1..(i + 1) : j = i + 1 \/ j \in 1..i
        /\ i + 1 \in 1..(i + 1) /\ \A j \in 1..i : j < i + 1
    BY <1>2
  <2>3. f[i + 1] = IF i + 1 \in P THEN Append(f[i], q[i + 1]) ELSE f[i]
    <3>1. f[i + 1] = IF i + 1 \in P THEN Append(f[(i + 1) - 1], q[i + 1]) ELSE f[(i + 1) - 1]
      BY <1>1, <2>2 DEF n
    <3> QED
      BY <2>2, <3>1
  <2>4. g \in [1..m -> 1..i] /\ \A k, l \in 1..m : k < l => g[k] < g[l]
    BY <2>1 DEF Increasing
  <2>5. f[i] \in [1..m -> E]
    BY <1>2, <2>1, <2>2, <2>4
  <2>6. CASE i + 1 \in P
    <3>1. PICK h : h = [k \in 1..(m + 1) |-> IF k = m + 1 THEN i + 1 ELSE g[k]]
      OBVIOUS
    <3>2. /\ m + 1 \in Nat /\ m + 1 \in 1..(m + 1) /\ 1..m \subseteq 1..(m + 1) /\ m + 1 \notin 1..m
          /\ \A k \in 1..(m + 1) : k = m + 1 \/ (k \in 1..m /\ k < m + 1 /\ ~(m + 1 < k))
          /\ ~(m + 1 < m + 1)
      OBVIOUS
    <3>3. h[m + 1] = i + 1 /\ \A k \in 1..m : h[k] = g[k]
      BY <3>1, <3>2
    <3>4. h \in [1..(m + 1) -> 1..(i + 1)]
      BY <2>2, <2>4, <3>1, <3>2
    <3>5. \A k, l \in 1..(m + 1) : k < l => h[k] < h[l]
      BY <2>2, <2>4, <3>2, <3>3
    <3>6. f[i + 1] = [k \in 1..(m + 1) |-> q[h[k]]]
      <4>1. f[i + 1] = [k \in 1..(m + 1) |-> IF k = m + 1 THEN q[i + 1] ELSE f[i][k]]
        BY <2>2, <2>3, <2>5, <2>6, Appended
      <4>2. \A k \in 1..m : f[i][k] = q[g[k]]
        BY <2>1
      <4>3. \A k \in 1..(m + 1) : q[h[k]] = IF k = m + 1 THEN q[i + 1] ELSE f[i][k]
        BY <3>2, <3>3, <4>2
      <4> QED
        BY <4>1, <4>3
    <3>7. \A j \in 1..(i + 1) : j \in P <=> \E k \in 1..(m + 1) : h[k] = j
      <4>1. ASSUME NEW j \in 1..i
            PROVE (\E k \in 1..(m + 1) : h[k] = j) <=> (\E k \in 1..m : g[k] = j)
        BY <2>2, <3>2, <3>3
      <4>2. \E k \in 1..(m + 1) : h[k] = i + 1
        BY <3>2, <3>3
      <4>3. \A j \in 1..i : j \in P <=> \E k \in 1..(m + 1) : h[k] = j
        BY <2>1, <4>1
      <4> QED
        BY <2>2, <2>6, <4>2, <4>3
    <3>8. Increasing(h, m + 1, i + 1)
      BY <3>4, <3>5 DEF Increasing
    <3> QED
      BY <3>2, <3>6, <3>7, <3>8
  <2>7. CASE i + 1 \notin P
    <3>1. g \in [1..m -> 1..(i + 1)]
      BY <2>2, <2>4
    <3>2. f[i + 1] = [k \in 1..m |-> q[g[k]]]
      BY <2>1, <2>3, <2>7
    <3>3. \A j \in 1..(i + 1) : j \in P <=> \E k \in 1..m : g[k] = j
      <4>1. \A k \in 1..m : g[k] # i + 1
        BY <2>2, <2>4
      <4> QED
        BY <2>1, <2>2, <2>7, <4>1
    <3>4. Increasing(g, m, i + 1)
      BY <2>4, <3>1 DEF Increasing
    <3> QED
      BY <3>2, <3>3, <3>4
  <2> QED
    BY <2>6, <2>7
<1> HIDE DEF Upto
<1>5. 0 \in T
  BY <1>2, <1>3
<1>6. \A i \in 0..(n - 1) : i \in T => i + 1 \in T
  BY <1>2, <1>4
<1>7. n \in T
  <2> HIDE DEF T
  <2> QED
    BY <1>2, <1>5, <1>6, Induction
<1>8. Upto(n)
  BY <1>7
<1> QED
  BY <1>1, <1>8 DEF Upto, n, Taken, PlacesIn

\* The elements of a list of which none stands twice.
Once(q) == \A i, j \in DOMAIN q : q[i] = q[j] => i = j

\* What Picked keeps.
LEMMA PickedElements ==
  ASSUME NEW E, NEW q \in Seq(E), NEW P
  PROVE  /\ Picked(q, P) \in Seq(E)
         /\ ToSet(Picked(q, P)) = {q[i] : i \in P \cap DOMAIN q}
         /\ (\A i, j \in P \cap DOMAIN q : q[i] = q[j] => i = j) => Once(Picked(q, P))
<1>1. PICK m, g :
        /\ Taken(Picked(q, P), q, g, m)
        /\ PlacesIn(q, P, g, m)
  BY PickedPlaces
<1> USE DEF Taken, PlacesIn
<1> m \in Nat
  BY <1>1
<1>2. DOMAIN q = 1..Len(q) /\ q \in [DOMAIN q -> E]
  BY FunctionOf
<1>3. g \in [1..m -> DOMAIN q] /\ \A k, l \in 1..m : k < l => g[k] < g[l]
  BY <1>1, <1>2 DEF Increasing
<1>4. Picked(q, P) \in [1..m -> E]
  BY <1>1, <1>2, <1>3
<1>5. Picked(q, P) \in Seq(E) /\ DOMAIN Picked(q, P) = 1..m
  BY <1>4, SequenceOf
<1>6. \A k \in 1..m : Picked(q, P)[k] = q[g[k]] /\ g[k] \in P \cap DOMAIN q
  BY <1>1, <1>2, <1>3
<1>7. ToSet(Picked(q, P)) = {q[i] : i \in P \cap DOMAIN q}
  BY <1>1, <1>2, <1>5, <1>6 DEF ToSet
<1>8. ASSUME \A i, j \in P \cap DOMAIN q : q[i] = q[j] => i = j PROVE Once(Picked(q, P))
  <2> SUFFICES ASSUME NEW k \in 1..m, NEW l \in 1..m, q[g[k]] = q[g[l]] PROVE k = l
    BY <1>5, <1>6 DEF Once
  <2>1. g[k] = g[l] /\ g[k] \in DOMAIN q /\ g[l] \in DOMAIN q
    BY <1>6, <1>8
  <2>2. g[k] \in Nat /\ ~(g[k] < g[l]) /\ ~(g[l] < g[k])
    BY <1>2, <2>1
  <2>3. k < l \/ l < k \/ k = l
    OBVIOUS
  <2> QED
    BY <1>3, <2>2, <2>3
<1> QED
  BY <1>5, <1>7, <1>8

\* An element of a list has a first place there.
LEMMA FirstPlace ==
  ASSUME NEW E, NEW q \in Seq(E), NEW i \in DOMAIN q
  PROVE  \E j \in DOMAIN q : q[j] = q[i] /\ \A k \in 1..(j - 1) : q[k] # q[j]
<1>1. PICK U : U = {j \in DOMAIN q : q[j] = q[i]}
  OBVIOUS
<1>2. DOMAIN q = 1..Len(q) /\ Len(q) \in Nat
  BY FunctionOf
<1>3. U \subseteq Nat /\ U # {}
  BY <1>1, <1>2
<1>4. PICK j \in U : \A k \in U : j <= k
  BY <1>3, NatMinimum
<1>5. j \in DOMAIN q /\ q[j] = q[i] /\ j \in 1..Len(q)
  BY <1>1, <1>2
<1>6. ASSUME NEW k \in 1..(j - 1) PROVE q[k] # q[j]
  <2>1. k \in DOMAIN q /\ ~(j <= k)
    BY <1>2, <1>5
  <2> QED
    BY <1>1, <1>4, <1>5, <2>1
<1> QED
  BY <1>5, <1>6

\* Distinct loses nothing but the repetitions.
LEMMA DistinctElements ==
  ASSUME NEW E, NEW q \in Seq(E)
  PROVE  Distinct(q) \in Seq(E) /\ ToSet(Distinct(q)) = ToSet(q) /\ Once(Distinct(q))
<1>1. PICK P : P = {i \in DOMAIN q : \A j \in 1..(i - 1) : q[j] # q[i]}
  OBVIOUS
<1>2. DOMAIN q = 1..Len(q) /\ Len(q) \in Nat
  BY FunctionOf
<1>3. \A i, j \in P \cap DOMAIN q : q[i] = q[j] => i = j
  <2> SUFFICES ASSUME NEW i \in P, NEW j \in P, q[i] = q[j], i < j PROVE FALSE
    BY <1>1, <1>2
  <2>1. i \in 1..(j - 1)
    BY <1>1, <1>2
  <2> QED
    BY <1>1, <2>1
<1>4. {q[i] : i \in P \cap DOMAIN q} = ToSet(q)
  <2>1. \A i \in DOMAIN q : \E j \in P : q[j] = q[i]
    <3> SUFFICES ASSUME NEW i \in DOMAIN q PROVE \E j \in P : q[j] = q[i]
      OBVIOUS
    <3>1. PICK j \in DOMAIN q : q[j] = q[i] /\ \A k \in 1..(j - 1) : q[k] # q[j]
      BY FirstPlace
    <3> QED
      BY <1>1, <3>1
  <2>2. P \subseteq DOMAIN q
    BY <1>1
  <2> QED
    BY <2>1, <2>2 DEF ToSet
<1>5. Distinct(q) = Picked(q, P)
  BY <1>1 DEF Distinct
<1>6. Picked(q, P) \in Seq(E) /\ ToSet(Picked(q, P)) = {q[i] : i \in P \cap DOMAIN q}
  BY PickedElements
<1>7. Once(Picked(q, P))
  BY <1>3, PickedElements
<1> QED
  BY <1>4, <1>5, <1>6, <1>7

\* above is a total preorder of 1..n.
Preorder(above, n) ==
  /\ \A i \in 1..n : above[i] \subseteq 1..n
  /\ \A i, j \in 1..n : i \in above[j] \/ j \in above[i]
  /\ \A i, j, k \in 1..n : i \in above[j] /\ j \in above[k] => i \in above[k]

\* Ranked puts the elements at other places, in order.
LEMMA RankedPlaces ==
  ASSUME NEW E, NEW q \in Seq(E), NEW above, Preorder(above, Len(q))
  PROVE  \E g \in [1..Len(q) -> 1..Len(q)] :
           /\ Ranked(q, above) = [k \in 1..Len(q) |-> q[g[k]]]
           /\ \A i \in 1..Len(q) : \E k \in 1..Len(q) : g[k] = i
           /\ \A k, l \in 1..Len(q) : k # l => g[k] # g[l]
           /\ \A k, l \in 1..Len(q) : k < l => g[k] \in above[g[l]]
<1> DEFINE D == 1..Len(q)
           Before(j, i) == j \in above[i] /\ (i \in above[j] => j <= i)
           Below(i) == {j \in D : Before(j, i)}
           place == [i \in D |-> Cardinality(Below(i))]
<1>1. Len(q) \in Nat /\ DOMAIN q = D /\ D \subseteq Nat /\ D = 1..Len(q)
  BY FunctionOf
<1>2. \A i \in D : Before(i, i)
  BY <1>1 DEF Preorder
<1>3. \A i, j \in D : i # j => (Before(i, j) <=> ~Before(j, i))
  BY <1>1 DEF Preorder
<1>4. \A i, j, k \in D : Before(i, j) /\ Before(j, k) => Before(i, k)
  BY <1>1 DEF Preorder
<1> HIDE DEF Before
<1>5. IsFiniteSet(D) /\ Cardinality(D) = Len(q)
  BY <1>1, FS_Interval
<1>6. \A i \in D : IsFiniteSet(Below(i)) /\ place[i] = Cardinality(Below(i)) /\ place[i] \in D
  <2> SUFFICES ASSUME NEW i \in D PROVE IsFiniteSet(Below(i)) /\ Cardinality(Below(i)) \in D
    OBVIOUS
  <2>1. Below(i) \in SUBSET D /\ i \in Below(i)
    BY <1>2
  <2>2. IsFiniteSet(Below(i)) /\ Cardinality(Below(i)) <= Len(q)
    BY <1>5, <2>1, FS_Subset
  <2>3. Cardinality(Below(i)) # 0 /\ Cardinality(Below(i)) \in Nat
    BY <2>1, <2>2, FS_EmptySet, FS_CardinalityType
  <2> QED
    BY <1>1, <2>2, <2>3
<1>7. \A i, j \in D : i # j /\ Before(i, j) => place[i] < place[j]
  <2> SUFFICES ASSUME NEW i \in D, NEW j \in D, i # j, Before(i, j)
               PROVE  Cardinality(Below(i)) < Cardinality(Below(j))
    OBVIOUS
  <2>1. Below(i) \in SUBSET Below(j) /\ j \in Below(j) /\ j \notin Below(i)
    BY <1>2, <1>3, <1>4
  <2>2. /\ IsFiniteSet(Below(j)) /\ Cardinality(Below(i)) \in Nat /\ Cardinality(Below(j)) \in Nat
    BY <1>1, <1>6
  <2>3. /\ Cardinality(Below(i)) <= Cardinality(Below(j))
        /\ Cardinality(Below(i)) # Cardinality(Below(j))
    BY <2>1, <2>2, FS_Subset
  <2> QED
    BY <2>2, <2>3
<1> HIDE DEF Below, place
<1>8. \A i, j \in D : place[i] = place[j] => i = j
  <2> SUFFICES ASSUME NEW i \in D, NEW j \in D, place[i] = place[j], i # j PROVE FALSE
    OBVIOUS
  <2>1. Before(i, j) \/ Before(j, i)
    BY <1>3
  <2>2. place[i] \in Nat /\ place[j] \in Nat
    BY <1>1, <1>6
  <2> QED
    BY <1>7, <2>1, <2>2
<1>9. place \in Surjection(D, D)
  <2>1. place \in [D -> D]
    BY <1>6 DEF place
  <2>2. place \in Injection(D, D)
    BY <1>8, <2>1 DEF Injection, IsInjective
  <2> QED
    BY <1>5, <2>2, FS_Injection
<1> HIDE DEF D
<1>10. \A k \in D : \E i \in D : place[i] = k
  BY <1>9 DEF Surjection
<1>11. PICK g : g = [k \in D |-> CHOOSE i \in D : place[i] = k]
  OBVIOUS
<1>12. g \in [D -> D] /\ \A k \in D : place[g[k]] = k
  BY <1>10, <1>11
<1>13. \A i \in D : g[place[i]] = i /\ place[i] \in D
  BY <1>6, <1>8, <1>12
<1>14. Ranked(q, above) = [k \in D |-> q[g[k]]]
  <2>1. \A i \in D : {j \in above[i] : i \in above[j] => j <= i} = Below(i)
    BY <1>1 DEF Before, Below, Preorder
  <2>2. \A i \in D : place[i] = Cardinality({j \in above[i] : i \in above[j] => j <= i})
    BY <1>6, <2>1
  <2>3. Ranked(q, above) =
          [k \in D |-> q[CHOOSE i \in D :
                                Cardinality({j \in above[i] : i \in above[j] => j <= i}) = k]]
    BY <1>1 DEF Ranked
  <2>4. \A k \in D : (CHOOSE i \in D : Cardinality({j \in above[i] : i \in above[j] => j <= i}) = k)
                     = (CHOOSE i \in D : place[i] = k)
    BY <2>2
  <2> QED
    BY <1>11, <2>3, <2>4
<1>15. \A k, l \in D : k < l => g[k] \in above[g[l]]
  <2> SUFFICES ASSUME NEW k \in D, NEW l \in D, k < l PROVE g[k] \in above[g[l]]
    OBVIOUS
  <2>1. g[k] \in D /\ g[l] \in D /\ place[g[k]] = k /\ place[g[l]] = l
    BY <1>12
  <2>2. g[k] # g[l]
    BY <1>1, <2>1
  <2>3. ~(place[g[l]] < place[g[k]])
    BY <1>1, <2>1
  <2>4. Before(g[k], g[l])
    BY <1>3, <1>7, <2>1, <2>2, <2>3
  <2> QED
    BY <2>4 DEF Before
<1> QED
  <2>1. \A k, l \in D : k # l => g[k] # g[l]
    BY <1>12
  <2>2. \A i \in D : \E k \in D : g[k] = i
    BY <1>13
  <2> QED
    BY <1>12, <1>14, <1>15, <2>1, <2>2 DEF D

\* What two lists in a row hold.
LEMMA Concatenated ==
  ASSUME NEW E, NEW p \in Seq(E), NEW q \in Seq(E)
  PROVE  p \o q \in Seq(E) /\ ToSet(p \o q) = ToSet(p) \cup ToSet(q)
<1>1. /\ p \o q \in Seq(E) /\ Len(p \o q) = Len(p) + Len(q)
      /\ \A i \in 1..Len(p) : (p \o q)[i] = p[i]
      /\ \A i \in 1..Len(q) : (p \o q)[Len(p) + i] = q[i]
  BY ConcatProperties
<1>2. PICK r \in Seq(E) : r = p \o q
  BY <1>1
<1>3. /\ Len(p) \in Nat /\ Len(q) \in Nat /\ DOMAIN p = 1..Len(p) /\ DOMAIN q = 1..Len(q)
      /\ DOMAIN r = 1..(Len(p) + Len(q))
  BY <1>1, <1>2
<1>4. /\ \A i \in DOMAIN p : i \in DOMAIN r /\ r[i] = p[i]
      /\ \A i \in DOMAIN q : Len(p) + i \in DOMAIN r /\ r[Len(p) + i] = q[i]
  BY <1>1, <1>2, <1>3
<1>5. ASSUME NEW i \in DOMAIN r
      PROVE i \in DOMAIN p \/ (i - Len(p) \in DOMAIN q /\ Len(p) + (i - Len(p)) = i)
  BY <1>3
<1>6. ToSet(r) = ToSet(p) \cup ToSet(q)
  <2>1. ASSUME NEW i \in DOMAIN r PROVE r[i] \in ToSet(p) \cup ToSet(q)
    BY <1>4, <1>5 DEF ToSet
  <2>2. ToSet(p) \cup ToSet(q) \subseteq ToSet(r)
    BY <1>4 DEF ToSet
  <2> QED
    BY <2>1, <2>2 DEF ToSet
<1> QED
  BY <1>1, <1>2, <1>6

\* FlattenSeq has the elements of its sequences.
LEMMA FlattenElements ==
  ASSUME NEW E, NEW seqs \in Seq(Seq(E))
  PROVE  /\ FlattenSeq(seqs) \in Seq(E)
         /\ \A x : x \in ToSet(FlattenSeq(seqs)) <=> \E i \in DOMAIN seqs : x \in ToSet(seqs[i])
<1> DEFINE n == Len(seqs)
           Runs(it) == it = [i \in 1..n |-> IF i = 1 THEN seqs[i] ELSE it[i - 1] \o seqs[i]]
<1>1. n \in Nat /\ DOMAIN seqs = 1..n /\ \A i \in 1..n : seqs[i] \in Seq(E)
  OBVIOUS
<1>2. CASE n = 0
  <2>1. seqs = <<>> /\ FlattenSeq(seqs) = seqs /\ 1..0 = {}
    BY <1>1, <1>2 DEF FlattenSeq
  <2>2. ToSet(seqs) = {} /\ DOMAIN seqs = {} /\ seqs \in Seq(E)
    BY <1>1, <1>2, <2>1 DEF ToSet
  <2> QED
    BY <2>1, <2>2
<1>3. CASE n # 0
  <2>1. \E it : Runs(it)
    <3>1. PICK op : op = [p \in Seq(E) \X (1..n) |->
                            IF p[2] = 1 THEN seqs[p[2]] ELSE p[1] \o seqs[p[2]]]
      OBVIOUS
    <3>2. op \in [Seq(E) \X (1..n) -> Seq(E)] /\ <<>> \in Seq(E)
      BY <1>1, <3>1, Concatenated
    <3>3. PICK g : Unfolds(g, op, <<>>, Seq(E), n)
      BY <1>1, <3>2, FoldExists
    <3>4. PICK it : it = [i \in 1..n |-> g[1..i]]
      OBVIOUS
    <3>5. ASSUME NEW i \in 1..n PROVE it[i] = IF i = 1 THEN seqs[i] ELSE it[i - 1] \o seqs[i]
      <4>1. /\ 1..i \in SUBSET (1..n) /\ 1..i # {} /\ Max(1..i) = i /\ (1..i) \ {i} = 1..(i - 1)
            /\ 1..(i - 1) \in SUBSET (1..n)
        BY <1>1, Initials
      <4>2. g[1..i] = op[<<g[1..(i - 1)], i>>] /\ g[1..(i - 1)] \in Seq(E)
        BY <3>3, <4>1 DEF Unfolds
      <4>3. g[1..i] = IF i = 1 THEN seqs[i] ELSE g[1..(i - 1)] \o seqs[i]
        BY <3>1, <4>2
      <4>4. i # 1 => i - 1 \in 1..n
        BY <1>1
      <4> QED
        BY <3>4, <4>3, <4>4
    <3>6. Runs(it)
      BY <3>4, <3>5
    <3> QED
      BY <3>6
  <2>2. PICK it : Runs(it) /\ FlattenSeq(seqs) = it[n]
    <3>1. FlattenSeq(seqs) = (CHOOSE it : Runs(it))[n]
      BY <1>3 DEF FlattenSeq
    <3> HIDE DEF Runs
    <3> QED
      BY <2>1, <3>1
  <2>3. \A i \in 1..n : it[i] = IF i = 1 THEN seqs[i] ELSE it[i - 1] \o seqs[i]
    BY <2>2
  <2> DEFINE T == {i \in 0..n : i = 0 \/ /\ it[i] \in Seq(E)
                                         /\ \A x : x \in ToSet(it[i]) <=>
                                                    \E j \in 1..i : x \in ToSet(seqs[j])}
  <2> HIDE DEF n, Runs
  <2>4. 0 \in T
    BY <1>1
  <2>5. ASSUME NEW i \in 0..(n - 1), i \in T PROVE i + 1 \in T
    <3>1. /\ i + 1 \in 1..n /\ (i + 1) - 1 = i
          /\ i + 1 \in 0..n /\ i + 1 # 0 /\ (i + 1 = 1 <=> i = 0)
          /\ \A j \in 1..(i + 1) : j = i + 1 \/ j \in 1..i
          /\ i + 1 \in 1..(i + 1) /\ 1..i \subseteq 1..(i + 1)
      BY <1>1
    <3>2. /\ it[i + 1] = IF i = 0 THEN seqs[i + 1] ELSE it[i] \o seqs[i + 1]
          /\ seqs[i + 1] \in Seq(E)
      BY <1>1, <2>3, <3>1
    <3>3. CASE i = 0
      <4>1. it[i + 1] = seqs[i + 1] /\ \A j \in 1..(i + 1) : j = i + 1
        BY <3>1, <3>2, <3>3
      <4> QED
        BY <3>1, <3>2, <4>1
    <3>4. CASE i # 0
      <4>1. /\ it[i] \in Seq(E) /\ it[i + 1] = it[i] \o seqs[i + 1]
            /\ \A x : x \in ToSet(it[i]) <=> \E j \in 1..i : x \in ToSet(seqs[j])
        BY <2>5, <3>2, <3>4
      <4>2. it[i + 1] \in Seq(E) /\ ToSet(it[i + 1]) = ToSet(it[i]) \cup ToSet(seqs[i + 1])
        BY <3>2, <4>1, Concatenated
      <4>3. \A x : x \in ToSet(it[i + 1]) <=> \E j \in 1..(i + 1) : x \in ToSet(seqs[j])
        BY <3>1, <4>1, <4>2
      <4> QED
        BY <3>1, <4>2, <4>3
    <3> QED
      BY <3>3, <3>4
  <2> HIDE DEF T
  <2>6. n \in T
    <3>1. \A i \in 0..(n - 1) : i \in T => i + 1 \in T
      BY <2>5
    <3>2. n \in Nat /\ n \in 0..n
      BY <1>1
    <3>3. \A i \in 0..n : i \in T
      BY <2>4, <3>1, <3>2, Induction
    <3> QED
      BY <3>2, <3>3
  <2> QED
    BY <1>1, <1>3, <2>2, <2>6 DEF T
<1> QED
  BY <1>2, <1>3

\* Filtered is where n steps lead, each of which appends an element or none.
LEMMA FilteredRuns ==
  ASSUME NEW E, NEW q \in Seq(E), NEW n
  PROVE  \E f : /\ Filtered(q, n) = f[Len(q)] /\ f[0] = <<>>
                /\ \A i \in 1..Len(q) :
                     f[i] = IF Len(f[i - 1]) >= n \/ \E a \in ToSet(f[i - 1]) : Dominates(a, q[i])
                            THEN f[i - 1] ELSE Append(f[i - 1], q[i])
<1> DEFINE m == Len(q)
           Runs(it) == it = [s \in SUBSET (DOMAIN q) |->
             IF s = {} THEN <<>>
             ELSE LET x == Max(s)
                  IN IF Len(it[s \ {x}]) >= n \/ \E a \in ToSet(it[s \ {x}]) : Dominates(a, q[x])
                     THEN it[s \ {x}] ELSE Append(it[s \ {x}], q[x])]
<1>1. m \in Nat /\ DOMAIN q = 1..m /\ \A i \in 1..m : q[i] \in E
  OBVIOUS
<1>2. \E it : Runs(it)
  <2>1. PICK op : op = [p \in Seq(E) \X (1..m) |->
           IF Len(p[1]) >= n \/ \E a \in ToSet(p[1]) : Dominates(a, q[p[2]])
           THEN p[1] ELSE Append(p[1], q[p[2]])]
    OBVIOUS
  <2>2. op \in [Seq(E) \X (1..m) -> Seq(E)] /\ <<>> \in Seq(E)
    BY <1>1, <2>1
  <2>3. PICK g : Unfolds(g, op, <<>>, Seq(E), m)
    BY <1>1, <2>2, FoldExists
  <2>4. ASSUME NEW s \in SUBSET (DOMAIN q), s # {}
        PROVE  g[s] = LET x == Max(s)
                      IN IF Len(g[s \ {x}]) >= n \/ \E a \in ToSet(g[s \ {x}]) : Dominates(a, q[x])
                         THEN g[s \ {x}] ELSE Append(g[s \ {x}], q[x])
    <3>1. Max(s) \in 1..m
      BY <1>1, <2>4, MaxOf
    <3>2. g[s \ {Max(s)}] \in Seq(E)
      BY <1>1, <2>3 DEF Unfolds
    <3>3. g[s] = op[<<g[s \ {Max(s)}], Max(s)>>]
      BY <1>1, <2>3, <2>4 DEF Unfolds
    <3> QED
      BY <1>1, <2>1, <3>1, <3>2, <3>3
  <2>5. g = [s \in SUBSET (DOMAIN q) |-> g[s]] /\ g[{}] = <<>>
    BY <1>1, <2>3 DEF Unfolds
  <2>6. Runs(g)
    BY <1>1, <2>4, <2>5
  <2> QED
    BY <2>6
<1>3. PICK it : Runs(it) /\ Filtered(q, n) = it[DOMAIN q]
  <2>1. Filtered(q, n) = (CHOOSE it : Runs(it))[DOMAIN q]
    BY DEF Filtered, FoldLeft, MapThenFoldSet
  <2> HIDE DEF Runs
  <2> QED
    BY <1>2, <2>1
<1>4. it[{}] = <<>>
  BY <1>3
<1>5. ASSUME NEW i \in 1..m
      PROVE  it[1..i] = IF \/ Len(it[1..(i - 1)]) >= n
                           \/ \E a \in ToSet(it[1..(i - 1)]) : Dominates(a, q[i])
                        THEN it[1..(i - 1)] ELSE Append(it[1..(i - 1)], q[i])
  <2>1. 1..i \in SUBSET (DOMAIN q) /\ 1..i # {} /\ Max(1..i) = i /\ (1..i) \ {i} = 1..(i - 1)
    BY <1>1, Initials
  <2>2. \A s \in SUBSET (DOMAIN q) : s # {} /\ Max(s) = i /\ s \ {i} = 1..(i - 1) =>
          it[s] = IF \/ Len(it[1..(i - 1)]) >= n
                     \/ \E a \in ToSet(it[1..(i - 1)]) : Dominates(a, q[i])
                  THEN it[1..(i - 1)] ELSE Append(it[1..(i - 1)], q[i])
    BY <1>3
  <2> HIDE DEF m, Runs
  <2> QED
    BY <2>1, <2>2
<1>6. PICK f : f = [i \in 0..m |-> it[1..i]]
  OBVIOUS
<1>7. f[0] = <<>> /\ f[m] = Filtered(q, n)
  <2>1. 1..0 = {} /\ 0 \in 0..m /\ m \in 0..m
    BY <1>1
  <2> QED
    BY <1>1, <1>3, <1>4, <1>6, <2>1
<1>8. ASSUME NEW i \in 1..m
      PROVE  f[i] = IF Len(f[i - 1]) >= n \/ \E a \in ToSet(f[i - 1]) : Dominates(a, q[i])
                    THEN f[i - 1] ELSE Append(f[i - 1], q[i])
  <2>1. i \in 0..m /\ i - 1 \in 0..m
    BY <1>1
  <2>2. f[i] = it[1..i] /\ f[i - 1] = it[1..(i - 1)]
    BY <1>6, <2>1
  <2> HIDE DEF m
  <2> QED
    BY <1>5, <2>2
<1> QED
  BY <1>7, <1>8

\* Filtered keeps at most n elements, in their order, and none that one kept before it
\* dominates.
LEMMA FilteredPlaces ==
  ASSUME NEW E, NEW q \in Seq(E), NEW n \in Nat
  PROVE  \E m, g :
           /\ m <= n
           /\ Taken(Filtered(q, n), q, g, m)
           /\ \A k, l \in 1..m : k < l => ~Dominates(q[g[k]], q[g[l]])
<1>1. PICK f : /\ Filtered(q, n) = f[Len(q)] /\ f[0] = <<>>
               /\ \A i \in 1..Len(q) :
                    f[i] = IF Len(f[i - 1]) >= n \/ \E a \in ToSet(f[i - 1]) : Dominates(a, q[i])
                           THEN f[i - 1] ELSE Append(f[i - 1], q[i])
  BY FilteredRuns
<1> DEFINE z == Len(q)
           Upto(i) == \E m \in Nat : \E g :
             /\ m <= n
             /\ Increasing(g, m, i)
             /\ f[i] = [k \in 1..m |-> q[g[k]]]
             /\ \A k, l \in 1..m : k < l => ~Dominates(q[g[k]], q[g[l]])
           T == {i \in 0..z : Upto(i)}
<1>2. z \in Nat /\ q \in [1..z -> E]
  OBVIOUS
<1> HIDE DEF z
<1>3. Upto(0)
  <2>1. PICK g : g = [k \in 1..0 |-> 1]
    OBVIOUS
  <2>2. 1..0 = {} /\ g \in [1..0 -> 1..0] /\ f[0] = [k \in 1..0 |-> q[g[k]]] /\ 0 <= n
    BY <1>1, <2>1
  <2> QED
    BY <2>2 DEF Increasing
<1>4. ASSUME NEW i \in 0..(z - 1), Upto(i) PROVE Upto(i + 1)
  <2>1. PICK m, g : /\ m \in Nat
                    /\ m <= n
                    /\ Increasing(g, m, i)
                    /\ f[i] = [k \in 1..m |-> q[g[k]]]
                    /\ \A k, l \in 1..m : k < l => ~Dominates(q[g[k]], q[g[l]])
    BY <1>4
  <2> m \in Nat
    BY <2>1
  <2>2. /\ i \in Nat /\ i + 1 \in 1..z /\ (i + 1) - 1 = i /\ 1..i \subseteq 1..z
        /\ 1..i \subseteq 1..(i + 1) /\ q[i + 1] \in E
        /\ i + 1 \in 1..(i + 1) /\ \A j \in 1..i : j < i + 1
    BY <1>2
  <2>3. g \in [1..m -> 1..i] /\ \A k, l \in 1..m : k < l => g[k] < g[l]
    BY <2>1 DEF Increasing
  <2>4. f[i] \in [1..m -> E]
    BY <1>2, <2>1, <2>2, <2>3
  <2>5. Len(f[i]) = m /\ DOMAIN f[i] = 1..m
    BY <2>4, SequenceOf
  <2>6. f[i + 1] = IF m >= n \/ \E a \in ToSet(f[i]) : Dominates(a, q[i + 1])
                   THEN f[i] ELSE Append(f[i], q[i + 1])
    <3>1. f[i + 1] = IF \/ Len(f[(i + 1) - 1]) >= n
                        \/ \E a \in ToSet(f[(i + 1) - 1]) : Dominates(a, q[i + 1])
                     THEN f[(i + 1) - 1] ELSE Append(f[(i + 1) - 1], q[i + 1])
      BY <1>1, <2>2 DEF z
    <3> QED
      BY <2>2, <2>5, <3>1
  <2>7. CASE f[i + 1] = f[i]
    <3>1. Increasing(g, m, i + 1)
      BY <2>2, <2>3 DEF Increasing
    <3> QED
      BY <2>1, <2>7, <3>1
  <2>8. CASE f[i + 1] # f[i]
    <3>1. /\ f[i + 1] = Append(f[i], q[i + 1]) /\ ~(m >= n)
          /\ \A k \in 1..m : ~Dominates(q[g[k]], q[i + 1])
      BY <2>1, <2>5, <2>6, <2>8 DEF ToSet
    <3>2. PICK h : h = [k \in 1..(m + 1) |-> IF k = m + 1 THEN i + 1 ELSE g[k]]
      OBVIOUS
    <3>3. /\ m + 1 \in Nat /\ m + 1 \in 1..(m + 1) /\ 1..m \subseteq 1..(m + 1) /\ m + 1 \notin 1..m
          /\ \A k \in 1..(m + 1) : k = m + 1 \/ (k \in 1..m /\ k < m + 1 /\ ~(m + 1 < k))
          /\ ~(m + 1 < m + 1) /\ m + 1 <= n
      BY <3>1
    <3>4. h[m + 1] = i + 1 /\ \A k \in 1..m : h[k] = g[k]
      BY <3>2, <3>3
    <3>5. h \in [1..(m + 1) -> 1..(i + 1)]
      BY <2>2, <2>3, <3>2, <3>3
    <3>6. \A k, l \in 1..(m + 1) : k < l => h[k] < h[l]
      BY <2>2, <2>3, <3>3, <3>4
    <3>7. f[i + 1] = [k \in 1..(m + 1) |-> q[h[k]]]
      <4>1. f[i + 1] = [k \in 1..(m + 1) |-> IF k = m + 1 THEN q[i + 1] ELSE f[i][k]]
        BY <2>2, <2>4, <3>1, Appended
      <4>2. \A k \in 1..m : f[i][k] = q[g[k]]
        BY <2>1
      <4>3. \A k \in 1..(m + 1) : q[h[k]] = IF k = m + 1 THEN q[i + 1] ELSE f[i][k]
        BY <3>3, <3>4, <4>2
      <4> QED
        BY <4>1, <4>3
    <3>8. \A k, l \in 1..(m + 1) : k < l => ~Dominates(q[h[k]], q[h[l]])
      BY <2>1, <3>1, <3>3, <3>4
    <3>9. Increasing(h, m + 1, i + 1)
      BY <3>5, <3>6 DEF Increasing
    <3> QED
      BY <3>3, <3>7, <3>8, <3>9
  <2> QED
    BY <2>7, <2>8
<1> HIDE DEF Upto
<1>5. 0 \in T
  BY <1>2, <1>3
<1>6. \A i \in 0..(z - 1) : i \in T => i + 1 \in T
  BY <1>2, <1>4
<1>7. z \in T
  <2> HIDE DEF T
  <2> QED
    BY <1>2, <1>5, <1>6, Induction
<1>8. Upto(z)
  BY <1>7
<1> QED
  BY <1>1, <1>8 DEF Upto, z, Taken

-----------------------------------------------------------------------------
(* The nouns of a title *)

\* What a fold accumulates keeps a type that every step keeps.
LEMMA Accumulated ==
  ASSUME NEW n \in Nat, NEW A, NEW it, it[{}] \in A,
         \A i \in 1..n : it[1..(i - 1)] \in A => it[1..i] \in A
  PROVE  it[1..n] \in A
<1>1. PICK T : T = {i \in 0..n : it[1..i] \in A}
  OBVIOUS
<1>2. 0 \in T /\ n \in 0..n
  <2>1. 1..0 = {} /\ 0 \in 0..n
    OBVIOUS
  <2> QED
    BY <1>1, <2>1
<1>3. ASSUME NEW i \in 0..(n - 1), i \in T PROVE i + 1 \in T
  <2>1. i + 1 \in 1..n /\ (i + 1) - 1 = i /\ i + 1 \in 0..n
    OBVIOUS
  <2>2. it[1..((i + 1) - 1)] \in A => it[1..(i + 1)] \in A
    BY <2>1
  <2> QED
    BY <1>1, <1>3, <2>1, <2>2
<1>4. \A i \in 0..n : i \in T
  BY <1>2, <1>3, Induction
<1> QED
  BY <1>1, <1>2, <1>4

\* Tokens of the forms of F, and the groups of nouns gathered from some of them.
Token(F)  == [form : F, tag : {"noun", "proper", "bridge", "other"}]
Groups(F) == [groups : Seq(Seq(Token(F))), open : Seq(Token(F)), bridged : BOOLEAN]

\* Closing a group of nouns keeps lists of groups.
LEMMA ClosedGroupType ==
  ASSUME NEW F, NEW acc \in Groups(F)
  PROVE  ClosedGroup(acc) \in Groups(F)
<1>1. acc.groups \in Seq(Seq(Token(F))) /\ acc.open \in Seq(Token(F)) /\ <<>> \in Seq(Token(F))
  BY DEF Groups
<1>2. Append(acc.groups, acc.open) \in Seq(Seq(Token(F)))
  BY <1>1, AppendProperties
<1> QED
  BY <1>1, <1>2 DEF ClosedGroup, Groups

\* A token is added to the open group, or closes it.
LEMMA AddTokenType ==
  ASSUME NEW F, NEW acc \in Groups(F), NEW t \in Token(F)
  PROVE  AddToken(acc, t) \in Groups(F)
<1>1. acc.groups \in Seq(Seq(Token(F))) /\ acc.open \in Seq(Token(F)) /\ acc.bridged \in BOOLEAN
  BY DEF Groups
<1>2. Append(acc.open, t) \in Seq(Token(F))
  BY <1>1, AppendProperties
<1>3. [acc EXCEPT !.open = Append(@, t), !.bridged = FALSE] \in Groups(F)
  BY <1>1, <1>2 DEF Groups
<1>4. [acc EXCEPT !.bridged = TRUE] \in Groups(F)
  BY <1>1 DEF Groups
<1> QED
  BY <1>3, <1>4, ClosedGroupType DEF AddToken

\* The groups of a title are lists of its tokens.
LEMMA NounGroupsType ==
  ASSUME NEW F, NEW q \in Seq(Token(F))
  PROVE  NounGroups(q) \in Seq(Seq(Token(F)))
<1> DEFINE n == Len(q)
           A == Groups(F)
           Runs(it) == it = [s \in SUBSET (DOMAIN q) |->
             IF s = {} THEN NoGroups ELSE LET x == Max(s) IN AddToken(it[s \ {x}], q[x])]
<1>1. n \in Nat /\ DOMAIN q = 1..n /\ \A i \in 1..n : q[i] \in Token(F)
  OBVIOUS
<1>2. NoGroups \in A /\ \A a \in A : \A i \in 1..n : AddToken(a, q[i]) \in A
  <2>1. NoGroups \in A
    BY DEF NoGroups, Groups
  <2> QED
    BY <1>1, <2>1, AddTokenType
<1> HIDE DEF A
<1>3. \E it : Runs(it)
  <2>1. PICK op : op = [p \in A \X (1..n) |-> AddToken(p[1], q[p[2]])]
    OBVIOUS
  <2>2. op \in [A \X (1..n) -> A]
    BY <1>2, <2>1
  <2>3. PICK g : Unfolds(g, op, NoGroups, A, n)
    BY <1>1, <1>2, <2>2, FoldExists
  <2>4. ASSUME NEW s \in SUBSET (DOMAIN q), s # {}
        PROVE  g[s] = LET x == Max(s) IN AddToken(g[s \ {x}], q[x])
    <3>1. Max(s) \in 1..n
      BY <1>1, <2>4, MaxOf
    <3>2. g[s \ {Max(s)}] \in A
      BY <1>1, <2>3 DEF Unfolds
    <3>3. g[s] = op[<<g[s \ {Max(s)}], Max(s)>>]
      BY <1>1, <2>3, <2>4 DEF Unfolds
    <3> QED
      BY <2>1, <3>1, <3>2, <3>3
  <2>5. g = [s \in SUBSET (DOMAIN q) |-> g[s]] /\ g[{}] = NoGroups
    BY <1>1, <2>3 DEF Unfolds
  <2>6. Runs(g)
    BY <1>1, <2>4, <2>5
  <2> QED
    BY <2>6
<1>4. PICK it : Runs(it) /\ NounGroups(q) = ClosedGroup(it[DOMAIN q]).groups
  <2>1. NounGroups(q) = ClosedGroup((CHOOSE it : Runs(it))[DOMAIN q]).groups
    BY DEF NounGroups, FoldLeft, MapThenFoldSet
  <2> HIDE DEF Runs
  <2> QED
    BY <1>3, <2>1
<1>5. it[{}] = NoGroups
  BY <1>4
<1>6. ASSUME NEW i \in 1..n PROVE it[1..i] = AddToken(it[1..(i - 1)], q[i])
  <2>1. 1..i \in SUBSET (DOMAIN q) /\ 1..i # {} /\ Max(1..i) = i /\ (1..i) \ {i} = 1..(i - 1)
    BY <1>1, Initials
  <2>2. \A s \in SUBSET (DOMAIN q) : s # {} /\ Max(s) = i /\ s \ {i} = 1..(i - 1) =>
          it[s] = AddToken(it[1..(i - 1)], q[i])
    BY <1>4
  <2> HIDE DEF n, Runs
  <2> QED
    BY <2>1, <2>2
<1>7. it[1..n] \in A
  <2>1. \A i \in 1..n : it[1..(i - 1)] \in A => it[1..i] \in A
    BY <1>2, <1>6
  <2>2. n \in Nat /\ it[{}] \in A
    BY <1>1, <1>2, <1>5
  <2> HIDE DEF n
  <2> QED
    BY <2>1, <2>2, Accumulated
<1>8. ClosedGroup(it[1..n]) \in A
  BY <1>7, ClosedGroupType DEF A
<1> QED
  BY <1>1, <1>4, <1>8 DEF A, Groups

\* A phrase is the list of its nouns.
Phrase(F) == Seq(F) \ {<<>>}

\* The phrases of a group are lists of forms, and not empty.
LEMMA PhrasesType ==
  ASSUME NEW F, NEW group \in Seq(Token(F))
  PROVE  Phrases(group) \in Seq(Phrase(F))
<1> DEFINE form == [i \in DOMAIN group |-> group[i].form]
           n    == Len(group)
           long == IF n < MaxPhrase THEN n ELSE MaxPhrase
           runs == [k \in 1..(long - 1) |-> [i \in 1..(n - k) |-> SubSeq(form, i, i + k)]]
<1>1. n \in Nat /\ DOMAIN group = 1..n /\ \A i \in 1..n : group[i].form \in F
  <2>1. n \in Nat /\ DOMAIN group = 1..n /\ \A i \in 1..n : group[i] \in Token(F)
    OBVIOUS
  <2> QED
    BY <2>1 DEF Token
<1>2. form \in [1..n -> F] /\ form \in Seq(F) /\ Len(form) = n
  BY <1>1, SequenceOf
<1>3. long \in Nat /\ long <= n
  BY <1>1, HeadlinesAssumption
<1> HIDE DEF form, n, long
<1>4. Phrases(group) = IF n = 1 THEN IF group[1].tag = "proper" THEN <<form>> ELSE <<>>
                       ELSE FlattenSeq(runs)
  BY DEF Phrases, form, n, long
<1>5. CASE n = 1
  <2>1. form \in Phrase(F)
    BY <1>2, <1>5 DEF Phrase
  <2> QED
    BY <1>4, <1>5, <2>1
<1>6. CASE n # 1
  <2>1. ASSUME NEW k \in 1..(long - 1) PROVE runs[k] \in Seq(Phrase(F))
    <3>1. k \in Nat /\ n - k \in Nat
      BY <1>1, <1>3
    <3>2. ASSUME NEW i \in 1..(n - k) PROVE SubSeq(form, i, i + k) \in Phrase(F)
      <4>1. i \in 1..Len(form) /\ i + k \in 1..Len(form) /\ i \in Int /\ i + k \in Int /\ i <= i + k
        BY <1>1, <1>2, <3>1
      <4>2. SubSeq(form, i, i + k) \in Seq(F) /\ Len(SubSeq(form, i, i + k)) = k + 1
        BY <1>2, <3>1, <4>1
      <4> QED
        BY <3>1, <4>2, k + 1 # 0, Len(<<>>) = 0 DEF Phrase
    <3>3. runs[k] \in [1..(n - k) -> Phrase(F)]
      BY <3>2
    <3> QED
      BY <3>1, <3>3, SequenceOf
  <2>2. runs \in Seq(Seq(Phrase(F)))
    <3>1. CASE long = 0
      <4>1. 1..(long - 1) = 1..0
        BY <3>1
      <4>2. runs \in [1..0 -> Seq(Phrase(F))]
        BY <2>1, <4>1
      <4> QED
        BY <4>2, SequenceOf
    <3>2. CASE long # 0
      <4>1. long - 1 \in Nat /\ runs \in [1..(long - 1) -> Seq(Phrase(F))]
        BY <1>3, <2>1, <3>2
      <4> QED
        BY <4>1, SequenceOf
    <3> QED
      BY <3>1, <3>2
  <2> HIDE DEF runs
  <2> QED
    BY <1>4, <1>6, <2>2, FlattenElements
<1> QED
  BY <1>5, <1>6

\* The phrases of a title, each once.
LEMMA PhrasesOfType ==
  ASSUME NEW F, NEW t, Tokens[t] \in Seq(Token(F))
  PROVE  PhrasesOf(t) \in Seq(Phrase(F)) /\ Once(PhrasesOf(t))
<1> DEFINE groups == NounGroups(Tokens[t])
           all == [g \in DOMAIN groups |-> Phrases(groups[g])]
<1>1. groups \in Seq(Seq(Token(F)))
  BY NounGroupsType
<1> HIDE DEF groups
<1>2. all \in [1..Len(groups) -> Seq(Phrase(F))] /\ Len(groups) \in Nat
  BY <1>1, FunctionOf, PhrasesType
<1>3. all \in Seq(Seq(Phrase(F)))
  BY <1>2, SequenceOf
<1>4. PhrasesOf(t) = Distinct(FlattenSeq(all))
  BY DEF PhrasesOf, groups
<1> HIDE DEF all
<1> QED
  BY <1>3, <1>4, FlattenElements, DistinctElements

-----------------------------------------------------------------------------
(* Keywords of a list of titles *)

\* A phrase with the number of its occurrences (keyword_analyzer.py:188-196).
KeywordResult(F) == [word : Phrase(F), count : Nat]

\* A list of at most n keywords, the most frequent first, that names no phrase twice or
\* below one it is nested with.
KeywordLists(F, n) ==
  {list \in Seq(KeywordResult(F)) :
     /\ Len(list) <= n
     /\ \A i, j \in DOMAIN list : i < j =>
          /\ list[i].word # list[j].word /\ list[i].count >= list[j].count
          /\ ~Nested(list[j].word, list[i].word)}

\* The first n elements of a list.
LEMMA FirstOfElements ==
  ASSUME NEW E, NEW q \in Seq(E), NEW n \in Nat
  PROVE  /\ FirstOf(q, n) \in Seq(E) /\ Len(FirstOf(q, n)) <= n /\ Len(FirstOf(q, n)) <= Len(q)
         /\ \A i \in 1..Len(FirstOf(q, n)) : FirstOf(q, n)[i] = q[i]
<1> DEFINE m == IF Len(q) < n THEN Len(q) ELSE n
<1>1. m \in Nat /\ m <= n /\ m <= Len(q) /\ FirstOf(q, n) = SubSeq(q, 1, m)
  BY DEF FirstOf
<1> HIDE DEF m
<1>2. \A i \in 1..m : q[i] \in E
  BY <1>1
<1>3. /\ SubSeq(q, 1, m) \in Seq(E) /\ Len(SubSeq(q, 1, m)) = m
      /\ \A i \in 1..m : SubSeq(q, 1, m)[i] = q[i]
  <2>1. /\ SubSeq(q, 1, m) \in Seq(E)
        /\ Len(SubSeq(q, 1, m)) = IF 1 <= m THEN m - 1 + 1 ELSE 0
        /\ \A i \in 1..(m - 1 + 1) : SubSeq(q, 1, m)[i] = q[1 + i - 1]
    BY <1>1, <1>2, SubSeqProperties
  <2>2. m - 1 + 1 = m /\ (~(1 <= m) => m = 0) /\ \A i \in 1..m : 1 + i - 1 = i
    BY <1>1
  <2> QED
    BY <2>1, <2>2
<1> QED
  BY <1>1, <1>3

\* The keywords of a list of titles are such a list (keyword_analyzer.py:134-196).
LEMMA KeywordsOfList ==
  ASSUME NEW F, NEW n \in Nat, NEW texts \in Seq(Titles),
         \A t \in Titles : Tokens[t] \in Seq(Token(F))
  PROVE  KeywordsOf(texts, n) \in KeywordLists(F, n)
<1> DEFINE all         == [i \in DOMAIN texts |-> PhrasesOf(texts[i])]
           occurrences == FlattenSeq(all)
           words       == Distinct(occurrences)
           Count(w)    == Cardinality({i \in DOMAIN occurrences : occurrences[i] = w})
           counted     == [i \in DOMAIN words |-> [word |-> words[i], count |-> Count(words[i])]]
           Above(i)    == {j \in DOMAIN words : counted[j].count >= counted[i].count}
           above       == [i \in DOMAIN words |-> Above(i)]
           ranked      == Ranked(counted, above)
           first       == FirstOf(ranked, 3 * n)
           kept        == Filtered(first, n)
           R           == KeywordResult(F)
<1>1. KeywordsOf(texts, n) = kept
  BY DEF KeywordsOf
<1>2. all \in Seq(Seq(Phrase(F)))
  <2>1. Len(texts) \in Nat /\ all \in [1..Len(texts) -> Seq(Phrase(F))]
    BY PhrasesOfType, FunctionOf
  <2> QED
    BY <2>1, SequenceOf
<1> HIDE DEF all
<1>3. occurrences \in Seq(Phrase(F))
  BY <1>2, FlattenElements
<1> HIDE DEF occurrences
<1>4. words \in Seq(Phrase(F)) /\ Once(words)
  BY <1>3, DistinctElements
<1> HIDE DEF words
<1>5. /\ DOMAIN words = 1..Len(words) /\ Len(words) \in Nat
      /\ \A i \in DOMAIN words : words[i] \in Phrase(F)
  BY <1>4
<1>6. \A w : Count(w) \in Nat
  <2> SUFFICES ASSUME NEW w PROVE Count(w) \in Nat
    OBVIOUS
  <2>1. DOMAIN occurrences = 1..Len(occurrences) /\ Len(occurrences) \in Nat
    BY <1>3
  <2>2. IsFiniteSet(DOMAIN occurrences)
    BY <2>1, FS_Interval
  <2>3. {i \in DOMAIN occurrences : occurrences[i] = w} \in SUBSET DOMAIN occurrences
    OBVIOUS
  <2> QED
    BY <2>2, <2>3, FS_Subset, FS_CardinalityType
<1> HIDE DEF Count
<1>7. counted \in [1..Len(words) -> R] /\ \A i \in 1..Len(words) : counted[i].word = words[i]
  BY <1>5, <1>6 DEF KeywordResult
<1>8. counted \in Seq(R) /\ Len(counted) = Len(words)
  BY <1>5, <1>7, SequenceOf
<1> HIDE DEF counted
<1>9. \A i \in 1..Len(words) : counted[i].count \in Nat
  BY <1>7 DEF KeywordResult
<1>10. Preorder(above, Len(counted))
  BY <1>5, <1>8, <1>9 DEF Preorder
<1> HIDE DEF above
<1>11. PICK g \in [1..Len(counted) -> 1..Len(counted)] :
         /\ ranked = [k \in 1..Len(counted) |-> counted[g[k]]]
         /\ \A k, l \in 1..Len(counted) : k # l => g[k] # g[l]
         /\ \A k, l \in 1..Len(counted) : k < l => g[k] \in above[g[l]]
  BY <1>8, <1>10, RankedPlaces
<1> HIDE DEF ranked
<1>12. ranked \in [1..Len(words) -> R]
  BY <1>7, <1>8, <1>11
<1>13. ranked \in Seq(R) /\ Len(ranked) = Len(words)
  BY <1>5, <1>12, SequenceOf
<1>14. ASSUME NEW k \in 1..Len(words), NEW l \in 1..Len(words), k < l
       PROVE  ranked[k].word # ranked[l].word /\ ranked[k].count >= ranked[l].count
  <2>1. /\ g[k] \in 1..Len(words) /\ g[l] \in 1..Len(words) /\ g[k] # g[l] /\ g[k] \in above[g[l]]
        /\ ranked[k] = counted[g[k]] /\ ranked[l] = counted[g[l]]
    BY <1>5, <1>8, <1>11, <1>14
  <2>2. words[g[k]] # words[g[l]]
    BY <1>4, <1>5, <2>1 DEF Once
  <2>3. above[g[l]] = Above(g[l])
    BY <1>5, <2>1 DEF above
  <2> QED
    BY <1>5, <1>7, <2>1, <2>2, <2>3
<1>15. /\ first \in Seq(R) /\ Len(first) <= Len(words)
       /\ \A i \in 1..Len(first) : first[i] = ranked[i]
  BY <1>13, 3 * n \in Nat, FirstOfElements
<1> HIDE DEF first
<1>16. PICK m, h :
         /\ m <= n
         /\ Taken(kept, first, h, m)
         /\ \A k, l \in 1..m : k < l => ~Dominates(first[h[k]], first[h[l]])
  BY <1>15, FilteredPlaces
<1> USE DEF Taken
<1> m \in Nat
  BY <1>16
<1> HIDE DEF kept
<1>17. h \in [1..m -> 1..Len(first)] /\ \A k, l \in 1..m : k < l => h[k] < h[l]
  BY <1>16 DEF Increasing
<1>18. /\ Len(first) \in Nat /\ 1..Len(first) \subseteq 1..Len(words)
       /\ \A i \in 1..Len(first) : first[i] \in R
  BY <1>5, <1>15
<1>19. kept \in [1..m -> R]
  BY <1>16, <1>17, <1>18
<1>20. kept \in Seq(R) /\ Len(kept) = m /\ DOMAIN kept = 1..m
  BY <1>19, SequenceOf
<1>21. ASSUME NEW i \in 1..m, NEW j \in 1..m, i < j
       PROVE  /\ kept[i].word # kept[j].word /\ kept[i].count >= kept[j].count
              /\ ~Nested(kept[j].word, kept[i].word)
  <2>1. /\ h[i] \in 1..Len(words) /\ h[j] \in 1..Len(words) /\ h[i] < h[j]
        /\ kept[i] = ranked[h[i]] /\ kept[j] = ranked[h[j]]
        /\ ~Dominates(kept[i], kept[j])
    BY <1>15, <1>16, <1>17, <1>18, <1>21
  <2>2. kept[i].word # kept[j].word /\ kept[i].count >= kept[j].count
    BY <1>14, <2>1
  <2>3. kept[i].count \in Nat /\ kept[j].count \in Nat
    BY <1>19 DEF KeywordResult
  <2>4. 2 * kept[j].count <= 3 * kept[i].count
    BY <2>2, <2>3
  <2> QED
    BY <2>1, <2>2, <2>4 DEF Dominates
<1> QED
  BY <1>1, <1>16, <1>20, <1>21 DEF KeywordLists

\* The sum of the counts of a word is a number.
LEMMA TotalType ==
  ASSUME NEW F, NEW q \in Seq(KeywordResult(F)), NEW w
  PROVE  FoldLeft(LAMBDA sum, k : IF k.word = w THEN sum + k.count ELSE sum, 0, q) \in Nat
<1> DEFINE n == Len(q)
           Runs(it) == it = [s \in SUBSET (DOMAIN q) |->
             IF s = {} THEN 0
             ELSE LET x == Max(s)
                  IN IF q[x].word = w THEN it[s \ {x}] + q[x].count ELSE it[s \ {x}]]
           total == FoldLeft(LAMBDA sum, k : IF k.word = w THEN sum + k.count ELSE sum, 0, q)
<1>1. n \in Nat /\ DOMAIN q = 1..n /\ \A i \in 1..n : q[i].count \in Nat
  <2>1. n \in Nat /\ DOMAIN q = 1..n /\ \A i \in 1..n : q[i] \in KeywordResult(F)
    OBVIOUS
  <2> QED
    BY <2>1 DEF KeywordResult
<1>2. \E it : Runs(it)
  <2>1. PICK op : op = [p \in Nat \X (1..n) |->
                          IF q[p[2]].word = w THEN p[1] + q[p[2]].count ELSE p[1]]
    OBVIOUS
  <2>2. op \in [Nat \X (1..n) -> Nat]
    BY <1>1, <2>1
  <2>3. PICK g : Unfolds(g, op, 0, Nat, n)
    BY <1>1, <2>2, FoldExists
  <2>4. ASSUME NEW s \in SUBSET (DOMAIN q), s # {}
        PROVE  g[s] = LET x == Max(s)
                      IN IF q[x].word = w THEN g[s \ {x}] + q[x].count ELSE g[s \ {x}]
    <3>1. Max(s) \in 1..n
      BY <1>1, <2>4, MaxOf
    <3>2. g[s \ {Max(s)}] \in Nat
      BY <1>1, <2>3 DEF Unfolds
    <3>3. g[s] = op[<<g[s \ {Max(s)}], Max(s)>>]
      BY <1>1, <2>3, <2>4 DEF Unfolds
    <3> QED
      BY <2>1, <3>1, <3>2, <3>3
  <2>5. g = [s \in SUBSET (DOMAIN q) |-> g[s]] /\ g[{}] = 0
    BY <1>1, <2>3 DEF Unfolds
  <2>6. Runs(g)
    BY <1>1, <2>4, <2>5
  <2> QED
    BY <2>6
<1>3. PICK it : Runs(it) /\ total = it[DOMAIN q]
  <2>1. total = (CHOOSE it : Runs(it))[DOMAIN q]
    BY DEF FoldLeft, MapThenFoldSet
  <2> HIDE DEF Runs, total
  <2> QED
    BY <1>2, <2>1
<1> HIDE DEF total
<1>4. it[{}] = 0
  BY <1>3
<1>5. ASSUME NEW i \in 1..n
      PROVE  it[1..i] = IF q[i].word = w THEN it[1..(i - 1)] + q[i].count ELSE it[1..(i - 1)]
  <2>1. 1..i \in SUBSET (DOMAIN q) /\ 1..i # {} /\ Max(1..i) = i /\ (1..i) \ {i} = 1..(i - 1)
    BY <1>1, Initials
  <2>2. \A s \in SUBSET (DOMAIN q) : s # {} /\ Max(s) = i /\ s \ {i} = 1..(i - 1) =>
          it[s] = IF q[i].word = w THEN it[1..(i - 1)] + q[i].count ELSE it[1..(i - 1)]
    BY <1>3
  <2> HIDE DEF n, Runs
  <2> QED
    BY <2>1, <2>2
<1>6. it[1..n] \in Nat
  <2>1. \A i \in 1..n : it[1..(i - 1)] \in Nat => it[1..i] \in Nat
    BY <1>1, <1>5
  <2>2. n \in Nat /\ it[{}] \in Nat
    BY <1>1, <1>4
  <2> HIDE DEF n
  <2> QED
    BY <2>1, <2>2, Accumulated
<1> QED
  BY <1>1, <1>3, <1>6 DEF total

-----------------------------------------------------------------------------
(* Shared keywords *)

\* What the channels of C answered with, as far as the shared keywords depend on it.
Answered(results, C, F) ==
  /\ \E n \in Nat : DOMAIN results = 1..n
  /\ \A r \in DOMAIN results :
       results[r].channel \in C /\ results[r].keywords \in Seq(KeywordResult(F))

\* A keyword shared by some channels of C (crawler.py:129-141).
Shared(C, F) == [word : Phrase(F), total : Nat, channels : SUBSET C]

\* Intersections has a row for each word enough channels have, and one only.
LEMMA IntersectionRows ==
  ASSUME NEW C, IsFiniteSet(C), NEW F, NEW results, Answered(results, C, F), NEW min
  PROVE  LET list == Intersections(results, min)
         IN /\ list \in Seq(Shared(C, F))
            /\ \A i, j \in DOMAIN list : list[i].word = list[j].word => i = j
            /\ \A i \in DOMAIN list :
                 list[i].channels = {results[r].channel : r \in ChannelsWith(results, list[i].word)}
            /\ \A w : (\E i \in DOMAIN list : list[i].word = w)
                        <=> ChannelsWith(results, w) # {} /\ IsShared(results, w, min)
<1> DEFINE lists    == [r \in DOMAIN results |-> results[r].keywords]
           keywords == FlattenSeq(lists)
           texts    == [i \in DOMAIN keywords |-> keywords[i].word]
           words    == Distinct(texts)
           P        == {i \in DOMAIN words : IsShared(results, words[i], min)}
           shared   == Picked(words, P)
           From(w)  == {results[r].channel : r \in ChannelsWith(results, w)}
           row      == [i \in DOMAIN shared |->
                          [word |-> shared[i], total |-> TotalOf(results, shared[i]),
                           channels |-> From(shared[i])]]
           wide     == [i \in DOMAIN row |-> Cardinality(row[i].channels)]
           Above(i) == {j \in DOMAIN row : \/ wide[j] > wide[i]
                                           \/ wide[j] = wide[i] /\ row[j].total >= row[i].total}
           above    == [i \in DOMAIN row |-> Above(i)]
           list     == Ranked(row, above)
           K        == KeywordResult(F)
<1>1. Intersections(results, min) = list
  BY DEF Intersections
<1>2. PICK n \in Nat : DOMAIN results = 1..n
  BY DEF Answered
<1>3. lists \in Seq(Seq(K)) /\ DOMAIN lists = DOMAIN results
  <2>1. lists \in [1..n -> Seq(K)]
    BY <1>2 DEF Answered
  <2> QED
    BY <1>2, <2>1, SequenceOf
<1>4. \A r \in DOMAIN results : lists[r] = results[r].keywords
  OBVIOUS
<1> HIDE DEF lists
<1>5. /\ keywords \in Seq(K)
      /\ \A k : k \in ToSet(keywords) <=> \E r \in DOMAIN results : k \in ToSet(results[r].keywords)
  BY <1>3, <1>4, FlattenElements
<1>6. \A w : TotalOf(results, w) \in Nat
  BY <1>5, TotalType DEF TotalOf, lists
<1> HIDE DEF keywords
<1>7. /\ texts \in [1..Len(keywords) -> Phrase(F)] /\ Len(keywords) \in Nat
      /\ DOMAIN keywords = 1..Len(keywords)
  <2>1. /\ DOMAIN keywords = 1..Len(keywords) /\ Len(keywords) \in Nat
        /\ keywords \in [1..Len(keywords) -> K]
    BY <1>5, FunctionOf
  <2>2. \A k \in K : k.word \in Phrase(F)
    BY DEF KeywordResult
  <2> QED
    BY <2>1, <2>2
<1>8. /\ texts \in Seq(Phrase(F))
      /\ \A w : w \in ToSet(texts) <=> \E k \in ToSet(keywords) : k.word = w
  BY <1>7, SequenceOf DEF ToSet
<1> HIDE DEF texts
<1>9. /\ words \in Seq(Phrase(F)) /\ Once(words)
      /\ \A w : w \in ToSet(words) <=> ChannelsWith(results, w) # {}
  <2>1. words \in Seq(Phrase(F)) /\ Once(words) /\ ToSet(words) = ToSet(texts)
    BY <1>8, DistinctElements
  <2>2. \A w : w \in ToSet(texts) <=> ChannelsWith(results, w) # {}
    BY <1>5, <1>8 DEF ChannelsWith
  <2> QED
    BY <2>1, <2>2
<1> HIDE DEF words
<1>10. /\ shared \in Seq(Phrase(F)) /\ Once(shared)
       /\ \A w : w \in ToSet(shared) <=> ChannelsWith(results, w) # {} /\ IsShared(results, w, min)
  <2>1. shared \in Seq(Phrase(F)) /\ ToSet(shared) = {words[i] : i \in P \cap DOMAIN words}
    BY <1>9, PickedElements
  <2>2. Once(shared)
    BY <1>9, PickedElements DEF Once
  <2>3. \A w : w \in {words[i] : i \in P \cap DOMAIN words}
                 <=> w \in ToSet(words) /\ IsShared(results, w, min)
    BY DEF ToSet
  <2> QED
    BY <1>9, <2>1, <2>2, <2>3
<1> HIDE DEF shared
<1> DEFINE m == Len(shared)
<1>11. m \in Nat /\ DOMAIN shared = 1..m /\ \A i \in 1..m : shared[i] \in Phrase(F)
  BY <1>10
<1> HIDE DEF m
<1>12. \A w : From(w) \in SUBSET C
  BY DEF Answered, ChannelsWith
<1> HIDE DEF From
<1>13. /\ row \in [1..m -> Shared(C, F)]
       /\ \A i \in 1..m : row[i].word = shared[i] /\ row[i].channels = From(shared[i])
  BY <1>6, <1>11, <1>12 DEF Shared
<1> HIDE DEF row
<1>14. row \in Seq(Shared(C, F)) /\ Len(row) = m /\ DOMAIN row = 1..m
  BY <1>11, <1>13, SequenceOf
<1>15. \A i \in 1..m : wide[i] \in Nat /\ row[i].total \in Nat
  <2> SUFFICES ASSUME NEW i \in 1..m
               PROVE Cardinality(row[i].channels) \in Nat /\ row[i].total \in Nat
    BY <1>14
  <2>1. row[i] \in Shared(C, F)
    BY <1>13
  <2>2. row[i].channels \in SUBSET C /\ row[i].total \in Nat
    BY <2>1 DEF Shared
  <2> QED
    BY <2>2, FS_Subset, FS_CardinalityType
<1> HIDE DEF wide
<1>16. Preorder(above, Len(row))
  BY <1>11, <1>14, <1>15 DEF Preorder
<1> HIDE DEF above
<1>17. PICK g \in [1..Len(row) -> 1..Len(row)] :
         /\ list = [k \in 1..Len(row) |-> row[g[k]]]
         /\ \A i \in 1..Len(row) : \E k \in 1..Len(row) : g[k] = i
         /\ \A k, l \in 1..Len(row) : k # l => g[k] # g[l]
  <2>1. \E g \in [1..Len(row) -> 1..Len(row)] :
          /\ Ranked(row, above) = [k \in 1..Len(row) |-> row[g[k]]]
          /\ \A i \in 1..Len(row) : \E k \in 1..Len(row) : g[k] = i
          /\ \A k, l \in 1..Len(row) : k # l => g[k] # g[l]
          /\ \A k, l \in 1..Len(row) : k < l => g[k] \in above[g[l]]
    BY <1>14, <1>16, RankedPlaces
  <2> QED
    BY <2>1
<1> HIDE DEF list
<1>18. /\ g \in [1..m -> 1..m] /\ list \in [1..m -> Shared(C, F)]
       /\ \A k \in 1..m : list[k].word = shared[g[k]] /\ list[k].channels = From(shared[g[k]])
  BY <1>13, <1>14, <1>17
<1>19. list \in Seq(Shared(C, F)) /\ DOMAIN list = 1..m
  BY <1>11, <1>18, SequenceOf
<1>20. /\ \A k, l \in 1..m : k # l => g[k] # g[l]
       /\ \A i \in 1..m : \E k \in 1..m : g[k] = i
  BY <1>14, <1>17
<1>21. ASSUME NEW i \in 1..m, NEW j \in 1..m, list[i].word = list[j].word PROVE i = j
  <2>1. g[i] = g[j]
    BY <1>10, <1>11, <1>18, <1>21 DEF Once
  <2> QED
    BY <1>20, <2>1
<1>22. \A w : (\E i \in 1..m : list[i].word = w) <=> w \in ToSet(shared)
  <2>1. \A w : w \in ToSet(shared) <=> \E i \in 1..m : shared[i] = w
    BY <1>11 DEF ToSet
  <2>2. ASSUME NEW i \in 1..m PROVE list[i].word \in ToSet(shared)
    <3>1. g[i] \in 1..m /\ list[i].word = shared[g[i]]
      BY <1>18
    <3> QED
      BY <2>1, <3>1
  <2>3. ASSUME NEW i \in 1..m PROVE \E k \in 1..m : list[k].word = shared[i]
    <3>1. PICK k \in 1..m : g[k] = i
      BY <1>20
    <3>2. list[k].word = shared[g[k]]
      BY <1>18
    <3> QED
      BY <3>1, <3>2
  <2> QED
    BY <2>1, <2>2, <2>3
<1> QED
  BY <1>1, <1>10, <1>18, <1>19, <1>21, <1>22 DEF From

-----------------------------------------------------------------------------
(* Headlines *)

\* What a page lists, a headline taken from it, and the headlines taken so far.
Entry      == [title : Titles, url : Urls \cup {NoUrl}, place : Places]
Headline   == [title : Titles, url : Urls]
Collecting == [titles : SUBSET Titles, urls : SUBSET Urls, items : Seq(Headline)]

\* Collecting one headline.
LEMMA AddItemType ==
  ASSUME NEW acc \in Collecting, NEW e \in Entry
  PROVE  AddItem(acc, e) \in Collecting
<1>1. /\ acc.titles \in SUBSET Titles /\ acc.urls \in SUBSET Urls /\ acc.items \in Seq(Headline)
      /\ e.title \in Titles /\ e.url \in Urls \cup {NoUrl}
  BY DEF Collecting, Entry
<1>2. e.url # NoUrl => [title |-> e.title, url |-> e.url] \in Headline
  BY <1>1 DEF Headline
<1>3. e.url # NoUrl => Append(acc.items, [title |-> e.title, url |-> e.url]) \in Seq(Headline)
  BY <1>1, <1>2, AppendProperties
<1> QED
  BY <1>1, <1>3 DEF AddItem, Collecting

\* Collecting the headlines of a page.
LEMMA ItemsType ==
  ASSUME NEW base \in Collecting, NEW q \in Seq(Entry)
  PROVE  FoldLeft(AddItem, base, q) \in Collecting
<1> DEFINE n == Len(q)
           A == Collecting
           Runs(it) == it = [s \in SUBSET (DOMAIN q) |->
             IF s = {} THEN base ELSE LET x == Max(s) IN AddItem(it[s \ {x}], q[x])]
<1>1. n \in Nat /\ DOMAIN q = 1..n /\ \A i \in 1..n : q[i] \in Entry
  OBVIOUS
<1>2. base \in A /\ \A a \in A : \A i \in 1..n : AddItem(a, q[i]) \in A
  BY <1>1, AddItemType
<1> HIDE DEF A
<1>3. \E it : Runs(it)
  <2>1. PICK op : op = [p \in A \X (1..n) |-> AddItem(p[1], q[p[2]])]
    OBVIOUS
  <2>2. op \in [A \X (1..n) -> A]
    BY <1>2, <2>1
  <2>3. PICK g : Unfolds(g, op, base, A, n)
    BY <1>1, <1>2, <2>2, FoldExists
  <2>4. ASSUME NEW s \in SUBSET (DOMAIN q), s # {}
        PROVE  g[s] = LET x == Max(s) IN AddItem(g[s \ {x}], q[x])
    <3>1. Max(s) \in 1..n
      BY <1>1, <2>4, MaxOf
    <3>2. g[s \ {Max(s)}] \in A
      BY <1>1, <2>3 DEF Unfolds
    <3>3. g[s] = op[<<g[s \ {Max(s)}], Max(s)>>]
      BY <1>1, <2>3, <2>4 DEF Unfolds
    <3> QED
      BY <2>1, <3>1, <3>2, <3>3
  <2>5. g = [s \in SUBSET (DOMAIN q) |-> g[s]] /\ g[{}] = base
    BY <1>1, <2>3 DEF Unfolds
  <2>6. Runs(g)
    BY <1>1, <2>4, <2>5
  <2> QED
    BY <2>6
<1>4. PICK it : Runs(it) /\ FoldLeft(AddItem, base, q) = it[DOMAIN q]
  <2>1. FoldLeft(AddItem, base, q) = (CHOOSE it : Runs(it))[DOMAIN q]
    BY DEF FoldLeft, MapThenFoldSet
  <2> HIDE DEF Runs
  <2> QED
    BY <1>3, <2>1
<1>5. it[{}] = base
  BY <1>4
<1>6. ASSUME NEW i \in 1..n PROVE it[1..i] = AddItem(it[1..(i - 1)], q[i])
  <2>1. 1..i \in SUBSET (DOMAIN q) /\ 1..i # {} /\ Max(1..i) = i /\ (1..i) \ {i} = 1..(i - 1)
    BY <1>1, Initials
  <2>2. \A s \in SUBSET (DOMAIN q) : s # {} /\ Max(s) = i /\ s \ {i} = 1..(i - 1) =>
          it[s] = AddItem(it[1..(i - 1)], q[i])
    BY <1>4
  <2> HIDE DEF n, Runs
  <2> QED
    BY <2>1, <2>2
<1>7. it[1..n] \in A
  <2>1. \A i \in 1..n : it[1..(i - 1)] \in A => it[1..i] \in A
    BY <1>2, <1>6
  <2>2. n \in Nat /\ it[{}] \in A
    BY <1>1, <1>2, <1>5
  <2> HIDE DEF n
  <2> QED
    BY <2>1, <2>2, Accumulated
<1> QED
  BY <1>1, <1>4, <1>7 DEF A

\* The entries at one place of a page.
LEMMA AtType ==
  ASSUME NEW page \in Seq(Entry), NEW place
  PROVE  At(page, place) \in Seq(Entry)
BY PickedElements DEF At

\* The headlines of a page are titles with links.
LEMMA HtmlItemsType ==
  ASSUME NEW page \in Seq(Entry)
  PROVE  HtmlItems(page) \in Seq(Headline)
<1> DEFINE found == FoldLeft(AddItem, NoItems, At(page, "selected") \o At(page, "script"))
           More(acc, place) ==
             IF Len(acc.items) < Enough THEN FoldLeft(AddItem, acc, At(page, place)) ELSE acc
<1>1. At(page, "selected") \o At(page, "script") \in Seq(Entry)
  BY AtType, Concatenated
<1>2. NoItems \in Collecting
  BY DEF NoItems, Collecting
<1>3. found \in Collecting
  BY <1>1, <1>2, ItemsType
<1>4. \A acc \in Collecting : \A place : More(acc, place) \in Collecting
  BY AtType, ItemsType
<1>5. HtmlItems(page) = More(More(found, "heading"), "link").items
  BY DEF HtmlItems
<1> HIDE DEF found, More
<1>6. More(More(found, "heading"), "link") \in Collecting
  BY <1>3, <1>4
<1> QED
  BY <1>5, <1>6 DEF Collecting

\* The titles of a list of entries.
LEMMA TitlesOfType ==
  ASSUME NEW q \in Seq(Entry)
  PROVE  [i \in DOMAIN q |-> q[i].title] \in Seq(Titles)
<1>1. \A e \in Entry : e.title \in Titles
  BY DEF Entry
<1>2. Len(q) \in Nat /\ [i \in DOMAIN q |-> q[i].title] \in [1..Len(q) -> Titles]
  BY <1>1, FunctionOf
<1> QED
  BY <1>2, SequenceOf

\* The titles of a page.
LEMMA HtmlTitlesType ==
  ASSUME NEW page \in Seq(Entry)
  PROVE  HtmlTitles(page) \in Seq(Titles)
<1> DEFINE TitlesAt(place) == [i \in DOMAIN At(page, place) |-> At(page, place)[i].title]
           More(acc, place) == IF Len(acc) < Enough THEN Distinct(acc \o TitlesAt(place)) ELSE acc
<1>1. HtmlTitles(page) =
        More(More(Distinct(TitlesAt("selected") \o TitlesAt("script")), "heading"), "link")
  BY DEF HtmlTitles
<1>2. \A place : TitlesAt(place) \in Seq(Titles)
  BY AtType, TitlesOfType
<1> HIDE DEF TitlesAt
<1>3. \A acc \in Seq(Titles) : \A place : Distinct(acc \o TitlesAt(place)) \in Seq(Titles)
  BY <1>2, Concatenated, DistinctElements
<1>4. \A acc \in Seq(Titles) : \A place : More(acc, place) \in Seq(Titles)
  BY <1>3
<1> DEFINE found == Distinct(TitlesAt("selected") \o TitlesAt("script"))
<1>5. found \in Seq(Titles) /\ HtmlTitles(page) = More(More(found, "heading"), "link")
  BY <1>1, <1>2, <1>3
<1> HIDE DEF More, found
<1>6. More(found, "heading") \in Seq(Titles)
  BY <1>4, <1>5
<1>7. More(More(found, "heading"), "link") \in Seq(Titles)
  BY <1>4, <1>6
<1> QED
  BY <1>5, <1>7

\* The titles of a feed.
LEMMA FeedTitlesType ==
  ASSUME NEW feed \in Seq(Entry)
  PROVE  FeedTitles(feed) \in Seq(Titles)
BY TitlesOfType, DistinctElements DEF FeedTitles

\* The headlines of a feed are titles with links.
LEMMA FeedItemsType ==
  ASSUME NEW feed \in Seq(Entry)
  PROVE  FeedItems(feed) \in Seq(Headline)
<1> DEFINE First(i) == \A j \in 1..(i - 1) : feed[j].title # feed[i].title
           P    == {i \in DOMAIN feed : First(i) /\ feed[i].url # NoUrl}
           kept == Picked(feed, P)
           made == [k \in DOMAIN kept |-> [title |-> kept[k].title, url |-> kept[k].url]]
<1>1. kept \in Seq(Entry) /\ ToSet(kept) = {feed[i] : i \in P \cap DOMAIN feed}
  BY PickedElements
<1>2. \A e \in ToSet(kept) : e \in Entry /\ e.url # NoUrl
  <2>1. \A i \in DOMAIN feed : feed[i] \in Entry
    OBVIOUS
  <2> HIDE DEF kept
  <2>2. ASSUME NEW e \in ToSet(kept) PROVE \E i \in P : e = feed[i]
    BY <1>1
  <2> QED
    BY <2>1, <2>2
<1>3. FeedItems(feed) = made
  BY DEF FeedItems
<1> HIDE DEF kept
<1>4. /\ Len(kept) \in Nat /\ DOMAIN kept = 1..Len(kept)
      /\ \A k \in DOMAIN kept : kept[k] \in ToSet(kept)
  BY <1>1 DEF ToSet
<1>5. made \in [1..Len(kept) -> Headline]
  BY <1>2, <1>4 DEF Entry, Headline
<1> QED
  BY <1>3, <1>4, <1>5, SequenceOf

\* The headlines of all channels.
LEMMA AllItemsType ==
  ASSUME NEW n \in Nat, NEW results, DOMAIN results = 1..n,
         \A r \in 1..n : results[r].items \in Seq(Headline)
  PROVE  AllItems(results) \in Seq(Headline)
<1> DEFINE lists == [r \in DOMAIN results |-> results[r].items]
           items == FlattenSeq(lists)
<1>1. lists \in [1..n -> Seq(Headline)]
  OBVIOUS
<1>2. lists \in Seq(Seq(Headline))
  BY <1>1, SequenceOf
<1>3. items \in Seq(Headline)
  BY <1>2, FlattenElements
<1>4. AllItems(results) = Picked(items, {i \in DOMAIN items :
                                           \A j \in 1..(i - 1) : items[j].url # items[i].url})
  BY DEF AllItems
<1> HIDE DEF items
<1> QED
  BY <1>3, <1>4, PickedElements

\* A list has no more elements than places.
LEMMA FewElements ==
  ASSUME NEW E, NEW q \in Seq(E)
  PROVE  ToSet(q) \subseteq E /\ IsFiniteSet(ToSet(q)) /\ Cardinality(ToSet(q)) \in Nat
         /\ Cardinality(ToSet(q)) <= Len(q)
<1>1. DOMAIN q = 1..Len(q) /\ Len(q) \in Nat /\ ToSet(q) = {q[i] : i \in DOMAIN q}
  BY DEF ToSet
<1>2. IsFiniteSet(DOMAIN q) /\ Cardinality(DOMAIN q) = Len(q)
  BY <1>1, FS_Interval
<1>3. q \in Surjection(DOMAIN q, ToSet(q))
  BY <1>1 DEF Surjection
<1>4. IsFiniteSet(ToSet(q)) /\ Cardinality(ToSet(q)) <= Len(q)
  BY <1>2, <1>3, FS_Surjection
<1> QED
  BY <1>1, <1>4, FS_CardinalityType

-----------------------------------------------------------------------------
(* The crawl *)

\* The channels are as many as their codes.
LEMMA OrderOfChannels ==
  /\ Len(Order) \in Nat /\ DOMAIN Order = 1..Len(Order)
  /\ \A i \in DOMAIN Order : Order[i] \in Channels
  /\ \A c \in Channels : \E i \in DOMAIN Order : Order[i] = c
  /\ \A i, j \in DOMAIN Order : Order[i] = Order[j] => i = j
  /\ IsFiniteSet(Channels)
<1>1. /\ Len(Order) \in Nat /\ DOMAIN Order = 1..Len(Order)
      /\ \A i \in DOMAIN Order : Order[i] \in Channels
      /\ \A c \in Channels : \E i \in DOMAIN Order : Order[i] = c
  BY KeywordsAssumption DEF Channels, ToSet
<1>2. IsFiniteSet(DOMAIN Order) /\ Cardinality(DOMAIN Order) = Len(Order)
  BY <1>1, FS_Interval
<1>3. Order \in Surjection(DOMAIN Order, Channels)
  <2>1. Order \in [DOMAIN Order -> Channels]
    BY <1>1, KeywordsAssumption
  <2> QED
    BY <1>1, <2>1 DEF Surjection
<1>4. IsFiniteSet(Channels) /\ Order \in Injection(DOMAIN Order, Channels)
  BY <1>2, <1>3, FS_Surjection, KeywordsAssumption
<1> QED
  BY <1>1, <1>4 DEF Injection, IsInjective

\* Channels whose lists have a keyword.
ListsWith(ans, w) == {c \in Channels : \E k \in ToSet(ans[c].keywords) : k.word = w}

\* The results in their order tell them.
LEMMA ChannelsOfWord ==
  ASSUME NEW ans, NEW results, results = [i \in DOMAIN Order |-> ans[Order[i]]], NEW w,
         \A c \in Channels : ans[c].channel = c
  PROVE  /\ ListsWith(ans, w) = {results[r].channel : r \in ChannelsWith(results, w)}
         /\ ListsWith(ans, w) # {} => ChannelsWith(results, w) # {}
         /\ ChannelsWith(results, w) # {} => ListsWith(ans, w) # {}
         /\ Cardinality(ListsWith(ans, w)) = Cardinality(ChannelsWith(results, w))
<1> DEFINE on == ListsWith(ans, w)
           with == ChannelsWith(results, w)
<1>1. /\ DOMAIN results = DOMAIN Order
      /\ \A r \in DOMAIN Order : results[r].channel = Order[r] /\ Order[r] \in Channels
      /\ \A r \in DOMAIN Order : r \in with <=> Order[r] \in on
  BY OrderOfChannels DEF ChannelsWith, ListsWith
<1>2. with \subseteq DOMAIN Order /\ on \subseteq Channels
  BY <1>1 DEF ChannelsWith, ListsWith
<1> HIDE DEF on, with
<1>3. \A c \in on : \E r \in with : Order[r] = c
  BY <1>1, <1>2, OrderOfChannels
<1>4. on = {results[r].channel : r \in with}
  <2>1. \A r \in with : results[r].channel = Order[r] /\ Order[r] \in on
    BY <1>1, <1>2
  <2>2. ASSUME NEW c \in on PROVE \E r \in with : c = results[r].channel
    <3>1. PICK r \in with : Order[r] = c
      BY <1>3
    <3> QED
      BY <2>1, <3>1, Zenon
  <2>3. \A r \in with : results[r].channel \in on
    BY <2>1
  <2> QED
    BY <2>2, <2>3
<1>5. Cardinality(on) = Cardinality(with)
  <2>1. PICK f : f = [r \in with |-> Order[r]]
    OBVIOUS
  <2>2. f \in [with -> on] /\ \A r \in with : f[r] = Order[r]
    BY <1>1, <1>2, <2>1
  <2>3. f \in Bijection(with, on)
    <3>1. f \in Surjection(with, on)
      BY <1>3, <2>2 DEF Surjection
    <3>2. f \in Injection(with, on)
      BY <1>2, <2>2, OrderOfChannels DEF Injection, IsInjective
    <3> QED
      BY <3>1, <3>2 DEF Bijection
  <2>4. IsFiniteSet(with)
    <3>1. IsFiniteSet(DOMAIN Order)
      BY OrderOfChannels, FS_Interval
    <3> QED
      BY <1>2, <3>1, FS_Subset
  <2>5. Cardinality(on) = Cardinality(with)
    BY <2>3, <2>4, FS_Bijection, Zenon DEF ExistsBijection
  <2> QED
    BY <2>5
<1>6. on # {} <=> with # {}
  BY <1>4
<1> QED
  BY <1>4, <1>5, <1>6 DEF on, with

\* What the code selects are at most MaxKeywords phrases.
LEMMA SelectionType ==
  ASSUME output.shared \in Seq(Shared(Channels, Nouns)),
         output.aggregated \in Seq(KeywordResult(Nouns))
  PROVE  Cardinality(Selection) <= MaxKeywords /\ Selection \subseteq Seq(Nouns) \ {<<>>}
<1> DEFINE p == [i \in DOMAIN output.shared |-> output.shared[i].word]
           q == [i \in DOMAIN output.aggregated |-> output.aggregated[i].word]
           first == FirstOf(p, MaxKeywords)
           all   == Distinct(first \o q)
           taken == FirstOf(all, MaxKeywords)
           W == Phrase(Nouns)
<1>1. p \in Seq(W) /\ q \in Seq(W)
  <2>1. \A k \in Shared(Channels, Nouns) \cup KeywordResult(Nouns) : k.word \in W
    BY DEF Shared, KeywordResult
  <2>2. p \in [1..Len(output.shared) -> W] /\ q \in [1..Len(output.aggregated) -> W]
    BY <2>1, FunctionOf
  <2> QED
    BY <2>2, FunctionOf, SequenceOf
<1>2. Selection = ToSet(taken)
  BY DEF Selection
<1> HIDE DEF p, q, W
<1>3. first \in Seq(W)
  BY <1>1, FirstOfElements, KeywordsAssumption
<1> HIDE DEF first
<1>4. all \in Seq(W)
  <2>1. first \o q \in Seq(W)
    BY <1>1, <1>3, Concatenated
  <2> QED
    BY <2>1, DistinctElements
<1> HIDE DEF all
<1>5. taken \in Seq(W) /\ Len(taken) <= MaxKeywords
  BY <1>4, FirstOfElements, KeywordsAssumption
<1> HIDE DEF taken
<1>6. /\ ToSet(taken) \subseteq W /\ Cardinality(ToSet(taken)) \in Nat
      /\ Cardinality(ToSet(taken)) <= Len(taken)
  BY <1>5, FewElements
<1> QED
  BY <1>2, <1>5, <1>6, KeywordsAssumption, FunctionOf DEF W, Phrase

\* The rows of a list are as many as its keywords, and stand in its order.
LEMMA RanksAgree ==
  ASSUME NEW n \in Nat, NEW list \in KeywordLists(Nouns, n), NEW c, NEW r \in Ranks(list, c),
         NEW s \in Ranks(list, c), r # s
  PROVE  /\ r.rank # s.rank /\ r.word # s.word
         /\ r.rank < s.rank => r.count >= s.count /\ ~Nested(s.word, r.word)
<1>1. PICK i \in DOMAIN list : r = [crawl |-> crawl, channel |-> c, rank |-> i,
                                    word |-> list[i].word, count |-> list[i].count]
  BY DEF Ranks
<1>2. PICK j \in DOMAIN list : s = [crawl |-> crawl, channel |-> c, rank |-> j,
                                    word |-> list[j].word, count |-> list[j].count]
  BY DEF Ranks
<1>3. i # j /\ i \in Nat /\ j \in Nat
  BY <1>1, <1>2 DEF KeywordLists
<1>4. \A k, l \in DOMAIN list : k < l =>
        /\ list[k].word # list[l].word /\ list[k].count >= list[l].count
        /\ ~Nested(list[l].word, list[k].word)
  BY DEF KeywordLists
<1>5. i < j \/ j < i
  BY <1>3
<1>6. r.rank = i /\ s.rank = j /\ r.word = list[i].word /\ s.word = list[j].word
      /\ r.count = list[i].count /\ s.count = list[j].count
  BY <1>1, <1>2
<1> QED
  BY <1>3, <1>4, <1>5, <1>6

\* The rows of a list are rows of crawled_keywords.
LEMMA RanksType ==
  ASSUME NEW n \in Nat, n <= TopChannel + TopAll, NEW list \in KeywordLists(Nouns, n),
         NEW c \in Channels \cup {None}, crawl \in 1..MaxCrawls
  PROVE  Ranks(list, c) \subseteq CrawledKeyword
<1> SUFFICES ASSUME NEW i \in DOMAIN list
             PROVE  [crawl |-> crawl, channel |-> c, rank |-> i,
                     word |-> list[i].word, count |-> list[i].count] \in CrawledKeyword
  BY DEF Ranks
<1>1. list \in Seq(KeywordResult(Nouns)) /\ Len(list) <= n
  BY DEF KeywordLists
<1>2. list[i] \in KeywordResult(Nouns) /\ i \in 1..Len(list) /\ Len(list) \in Nat
  BY <1>1
<1>3. i \in 1..(TopChannel + TopAll)
  BY <1>1, <1>2, KeywordsAssumption
<1>4. list[i].word \in Seq(Nouns) /\ list[i].count \in Nat
  BY <1>2 DEF KeywordResult, Phrase
<1> QED
  BY <1>3, <1>4 DEF CrawledKeyword

\* What a channel answers with, and what a crawl combines (crawler.py:50-61, 77-86).
ChannelResult ==
  [channel : Channels, status : {"success", "blocked", "failed"},
   keywords : KeywordLists(Nouns, TopChannel), titles : Seq(Titles), items : Seq(Headline)]

CrawlOutput ==
  [aggregated : KeywordLists(Nouns, TopAll), shared : Seq(Shared(Channels, Nouns)),
   items : Seq(Headline)]

\* What a crawl has at hand until it is stored, under a number no row has yet.
Crawling ==
  /\ step # "idle" => crawl \in 1..MaxCrawls
  /\ DOMAIN answers = Channels
  /\ \A c \in Channels : answers[c] # None => answers[c] \in ChannelResult /\ answers[c].channel = c
  /\ output \in CrawlOutput
  /\ step = "save" => /\ \A c \in Channels : answers[c] # None
                      /\ output.shared = Intersections(Results, MinChannels)
  /\ \A r \in rows \cup sharedRows :
       r.crawl <= crawl /\ (step \in {"fetch", "save"} => r.crawl # crawl)

\* Channels on whose stored list of a crawl a word is.
OnLists(n, w) == {c \in Channels : \E r \in StoredList(n, c) : r.word = w}

\* StoredListsAgree, row by row.
Storing ==
  /\ \A r, s \in rows : r.crawl = s.crawl /\ r.channel = s.channel /\ r # s =>
       /\ r.rank # s.rank /\ r.word # s.word
       /\ r.rank < s.rank => r.count >= s.count /\ ~Nested(s.word, r.word)
  /\ \A r \in sharedRows :
       /\ r.channels = OnLists(r.crawl, r.word)
       /\ r.channels # {} /\ Cardinality(r.channels) >= MinChannels
  /\ \A r, s \in sharedRows : r.crawl = s.crawl /\ r.word = s.word => r = s
  /\ \A r \in rows : r.channel # None /\ Cardinality(OnLists(r.crawl, r.word)) >= MinChannels =>
       \E s \in sharedRows : s.crawl = r.crawl /\ s.word = r.word

\* The inductive invariant of the crawl.
KeywordsInv == KeywordsTypeOK /\ Crawling /\ Storing

\* The assumptions on the pages, with the names of the lemmas.
LEMMA PagesAsRead ==
  /\ \A h \in Titles : Tokens[h] \in Seq(Token(Nouns))
  /\ \A p \in Html \cup Feeds : p \in Seq(Entry)
BY PagesAssumption DEF Token, Entry, Places

\* The empty list is a list of keywords.
LEMMA NoKeywords ==
  ASSUME NEW F, NEW n \in Nat
  PROVE  <<>> \in KeywordLists(F, n)
<1>1. <<>> \in Seq(KeywordResult(F)) /\ Len(<<>>) = 0 /\ DOMAIN <<>> = {}
  OBVIOUS
<1> QED
  BY <1>1 DEF KeywordLists

\* What a channel answers with (crawler.py:50-61).
LEMMA ResultType ==
  ASSUME NEW c \in Channels, NEW status \in {"success", "blocked", "failed"},
         NEW texts \in Seq(Titles), NEW items \in Seq(Headline)
  PROVE  /\ Result(c, status, texts, items) \in ChannelResult
         /\ Result(c, status, texts, items).channel = c
<1>1. KeywordsOf(texts, TopChannel) \in KeywordLists(Nouns, TopChannel)
  BY PagesAsRead, KeywordsOfList, KeywordsAssumption
<1> QED
  BY <1>1 DEF Result, ChannelResult

\* The invariant holds at first.
LEMMA InitiallyCrawling == KeywordsInit => KeywordsInv
<1> SUFFICES ASSUME KeywordsInit PROVE KeywordsInv
  OBVIOUS
<1>1. rows = {} /\ sharedRows = {} /\ crawl = 0 /\ step = "idle" /\ 0 \in 0..MaxCrawls
  BY KeywordsAssumption DEF KeywordsInit
<1>2. KeywordsTypeOK
  <2>1. Cardinality({}) = 0
    BY FS_EmptySet
  <2> QED
    BY <1>1, <2>1, KeywordsAssumption DEF KeywordsInit, KeywordsTypeOK
<1>3. output \in CrawlOutput
  <2>1. <<>> \in KeywordLists(Nouns, TopAll)
    BY NoKeywords, KeywordsAssumption
  <2> QED
    BY <2>1 DEF KeywordsInit, NoOutput, CrawlOutput
<1>4. Crawling
  BY <1>1, <1>3 DEF KeywordsInit, Crawling
<1>5. Storing
  BY <1>1 DEF Storing
<1> QED
  BY <1>2, <1>4, <1>5 DEF KeywordsInv

\* The tables change with Save alone.
LEMMA StoringStays == Storing /\ UNCHANGED database => Storing'
BY DEF Storing, OnLists, StoredList, database

\* A cycle or a crawl begins.
LEMMA BeginKeeps == ASSUME KeywordsInv, NEW k \in {"news", "collect"}, Begin(k) PROVE KeywordsInv'
<1> USE DEF KeywordsInv
<1>1. /\ step = "idle" /\ crawl < MaxCrawls /\ crawl' = crawl + 1 /\ kind' = k /\ step' = "fetch"
      /\ answers' = [c \in Channels |-> None] /\ output' = NoOutput
      /\ selected' = {} /\ matched' = {} /\ outcome' = "none"
      /\ UNCHANGED <<rows, sharedRows, index, visible, collected>>
  BY DEF Begin, database, cluster
<1>2. crawl \in Nat /\ crawl' \in 1..MaxCrawls /\ crawl' \in 0..MaxCrawls /\ crawl < crawl'
  <2>1. crawl \in 0..MaxCrawls /\ MaxCrawls \in Nat
    BY KeywordsAssumption, Zenon DEF KeywordsTypeOK
  <2> QED
    BY <1>1, <2>1
<1>3. KeywordsTypeOK'
  <2>1. Cardinality(selected') <= MaxKeywords /\ selected' \subseteq Seq(Nouns) \ {<<>>}
    BY <1>1, FS_EmptySet, KeywordsAssumption
  <2>2. \A c \in Channels : answers'[c] = None
    BY <1>1
  <2>3. /\ collected' \subseteq [title : Titles, url : Urls]
        /\ rows' \subseteq CrawledKeyword /\ sharedRows' \subseteq KeywordIntersection
        /\ \A u \in Urls : index'[u] \in Titles \cup {None} /\ visible'[u] \in Titles \cup {None}
    BY <1>1, Zenon DEF KeywordsTypeOK
  <2>4. step' = "fetch" /\ outcome' = "none" /\ kind' = k
    BY <1>1
  <2> QED
    BY <1>2, <2>1, <2>2, <2>3, <2>4 DEF KeywordsTypeOK
<1>4. Crawling'
  <2>1. output' \in CrawlOutput
    <3>1. <<>> \in KeywordLists(Nouns, TopAll)
      BY NoKeywords, KeywordsAssumption
    <3> QED
      BY <1>1, <3>1 DEF NoOutput, CrawlOutput
  <2>2. \A r \in rows \cup sharedRows : r.crawl <= crawl /\ r.crawl \in Int
    <3>1. rows \subseteq CrawledKeyword /\ sharedRows \subseteq KeywordIntersection
      BY Zenon DEF KeywordsTypeOK
    <3>2. \A r \in CrawledKeyword \cup KeywordIntersection : r.crawl \in Int
      BY DEF CrawledKeyword, KeywordIntersection
    <3>3. \A r \in rows \cup sharedRows : r.crawl <= crawl
      BY Zenon DEF Crawling
    <3> QED
      BY <3>1, <3>2, <3>3
  <2>3. \A r \in (rows \cup sharedRows)' : r.crawl <= crawl' /\ r.crawl # crawl'
    BY <1>1, <1>2, <2>2
  <2> QED
    BY <1>1, <1>2, <2>1, <2>3 DEF Crawling
<1>5. Storing'
  BY <1>1, StoringStays DEF database
<1> QED
  BY <1>3, <1>4, <1>5

\* A channel answers.
LEMMA AnswerKeeps ==
  ASSUME KeywordsInv, NEW c \in Channels, NEW r, r \in ChannelResult, r.channel = c, Answer(c, r)
  PROVE  KeywordsInv'
<1> USE DEF KeywordsInv
<1>1. /\ step = "fetch" /\ answers' = [answers EXCEPT ![c] = r]
      /\ UNCHANGED <<crawl, kind, step, output, rows, sharedRows, index, visible, selected, matched,
                     outcome, collected>>
  BY DEF Answer, database, cluster, result
<1>2. Crawling'
  <2>1. DOMAIN answers' = Channels
    BY <1>1 DEF Crawling
  <2>2. \A d \in Channels :
          answers'[d] # None => answers'[d] \in ChannelResult /\ answers'[d].channel = d
    BY <1>1 DEF Crawling
  <2> QED
    BY <1>1, <2>1, <2>2 DEF Crawling
<1>3. KeywordsTypeOK'
  <2>1. \A d \in Channels :
          answers'[d] = None \/ answers'[d].status \in {"success", "blocked", "failed"}
    BY <1>2 DEF Crawling, ChannelResult
  <2> QED
    BY <1>1, <2>1 DEF KeywordsTypeOK
<1>4. Storing'
  BY <1>1, StoringStays DEF database
<1> QED
  BY <1>2, <1>3, <1>4

\* Each of the ways a channel can answer.
LEMMA FetchKeeps ==
  ASSUME KeywordsInv, NEW c \in Channels,
         FetchFeed(c) \/ FetchPage(c) \/ Blocked(c) \/ FetchFails(c)
  PROVE  KeywordsInv'
<1>1. CASE FetchFeed(c)
  <2>1. PICK p \in Feeds : Answer(c, Result(c, "success", FeedTitles(p), FeedItems(p)))
    BY <1>1 DEF FetchFeed
  <2>2. FeedTitles(p) \in Seq(Titles) /\ FeedItems(p) \in Seq(Headline)
    BY PagesAsRead, FeedTitlesType, FeedItemsType
  <2> QED
    BY <2>1, <2>2, ResultType, AnswerKeeps
<1>2. CASE FetchPage(c)
  <2>1. PICK p \in Html : Answer(c, Result(c, "success", HtmlTitles(p), HtmlItems(p)))
    BY <1>2 DEF FetchPage
  <2>2. HtmlTitles(p) \in Seq(Titles) /\ HtmlItems(p) \in Seq(Headline)
    BY PagesAsRead, HtmlTitlesType, HtmlItemsType
  <2> QED
    BY <2>1, <2>2, ResultType, AnswerKeeps
<1>3. <<>> \in Seq(Titles) /\ <<>> \in Seq(Headline)
  OBVIOUS
<1>4. CASE Blocked(c)
  BY <1>3, <1>4, ResultType, AnswerKeeps DEF Blocked
<1>5. CASE FetchFails(c)
  BY <1>3, <1>5, ResultType, AnswerKeeps DEF FetchFails
<1> QED
  BY <1>1, <1>2, <1>4, <1>5

\* The results of all channels, in their order.
LEMMA ResultsType ==
  ASSUME Crawling, \A c \in Channels : answers[c] # None
  PROVE  /\ DOMAIN Results = 1..Len(Order) /\ Len(Order) \in Nat
         /\ \A r \in 1..Len(Order) : Results[r] \in ChannelResult
         /\ Results = [i \in DOMAIN Order |-> answers[Order[i]]]
         /\ Answered(Results, Channels, Nouns)
<1>1. /\ DOMAIN Results = 1..Len(Order) /\ Len(Order) \in Nat
      /\ Results = [i \in DOMAIN Order |-> answers[Order[i]]]
  BY OrderOfChannels DEF Results
<1>2. \A r \in 1..Len(Order) : Results[r] \in ChannelResult
  <2>1. \A r \in 1..Len(Order) : Order[r] \in Channels /\ Results[r] = answers[Order[r]]
    BY <1>1, OrderOfChannels
  <2>2. \A c \in Channels : answers[c] \in ChannelResult
    BY Zenon DEF Crawling
  <2> QED
    BY <2>1, <2>2
<1>3. Answered(Results, Channels, Nouns)
  <2>1. \A x \in ChannelResult :
          x.channel \in Channels /\ x.keywords \in KeywordLists(Nouns, TopChannel)
    BY DEF ChannelResult
  <2>2. \A q \in KeywordLists(Nouns, TopChannel) : q \in Seq(KeywordResult(Nouns))
    BY DEF KeywordLists
  <2> QED
    BY <1>1, <1>2, <2>1, <2>2 DEF Answered
<1> QED
  BY <1>1, <1>2, <1>3

\* What the answers combine to.
LEMMA CombinedType ==
  ASSUME Crawling, \A c \in Channels : answers[c] # None
  PROVE  [aggregated |-> KeywordsOf(FlattenSeq([i \in DOMAIN Order |-> Results[i].titles]), TopAll),
          shared     |-> Intersections(Results, MinChannels),
          items      |-> AllItems(Results)] \in CrawlOutput
<1> DEFINE lists == [i \in DOMAIN Order |-> Results[i].titles]
           texts == FlattenSeq(lists)
<1>1. \A x \in ChannelResult : x.titles \in Seq(Titles) /\ x.items \in Seq(Headline)
  BY DEF ChannelResult
<1>2. lists \in Seq(Seq(Titles))
  <2>1. Len(Order) \in Nat /\ lists \in [1..Len(Order) -> Seq(Titles)]
    BY <1>1, ResultsType, OrderOfChannels
  <2> QED
    BY <2>1, SequenceOf
<1> HIDE DEF lists
<1>3. texts \in Seq(Titles)
  BY <1>2, FlattenElements
<1> HIDE DEF texts
<1>4. KeywordsOf(texts, TopAll) \in KeywordLists(Nouns, TopAll)
  BY <1>3, PagesAsRead, KeywordsOfList, KeywordsAssumption
<1>5. AllItems(Results) \in Seq(Headline)
  BY <1>1, ResultsType, AllItemsType
<1>6. Intersections(Results, MinChannels) \in Seq(Shared(Channels, Nouns))
  BY ResultsType, IntersectionRows, OrderOfChannels
<1> QED
  BY <1>4, <1>5, <1>6 DEF CrawlOutput, texts, lists

\* All channels have answered (crawler.py:294-371).
LEMMA CombineKeeps == ASSUME KeywordsInv, Combine PROVE KeywordsInv'
<1>1. Crawling /\ Storing /\ KeywordsTypeOK
  BY DEF KeywordsInv
<1>2. /\ step = "fetch" /\ \A c \in Channels : answers[c] # None
      /\ output' = [aggregated |->
                      KeywordsOf(FlattenSeq([i \in DOMAIN Order |-> Results[i].titles]), TopAll),
                    shared     |-> Intersections(Results, MinChannels),
                    items      |-> AllItems(Results)]
      /\ collected' = collected
                      \cup {[title |-> e.title, url |-> e.url] : e \in ToSet(output'.items)}
      /\ UNCHANGED <<crawl, kind, answers, rows, sharedRows, index, visible, selected, matched>>
  BY Zenon DEF Combine, database, cluster
<1>3. \/ step' = "idle" /\ outcome' = "no keywords"
      \/ step' = "save" /\ outcome' = outcome
  BY DEF Combine, EndCrawl
<1>4. output' \in CrawlOutput
  BY <1>1, <1>2, CombinedType
<1>5. output'.shared = Intersections(Results, MinChannels) /\ Results' = Results
  BY <1>2 DEF Results
<1>6. \A e \in ToSet(output'.items) :
        [title |-> e.title, url |-> e.url] \in [title : Titles, url : Urls]
  <2>1. output'.items \in Seq(Headline)
    BY <1>4 DEF CrawlOutput
  <2>2. ToSet(output'.items) \subseteq Headline
    BY <2>1, FewElements
  <2> QED
    BY <2>2 DEF Headline
<1>7. Crawling'
  <2>1. \A r \in rows' \cup sharedRows' : r.crawl <= crawl' /\ r.crawl # crawl'
    BY <1>1, <1>2 DEF Crawling
  <2> QED
    BY <1>1, <1>2, <1>3, <1>4, <1>5, <2>1 DEF Crawling
<1>8. KeywordsTypeOK'
  <2>1. collected' \subseteq [title : Titles, url : Urls]
    <3>1. collected \subseteq [title : Titles, url : Urls]
      BY <1>1, Zenon DEF KeywordsTypeOK
    <3> QED
      BY <1>2, <1>6, <3>1
  <2> QED
    BY <1>1, <1>2, <1>3, <2>1 DEF KeywordsTypeOK
<1>9. Storing'
  BY <1>1, <1>2, StoringStays DEF database
<1> QED
  BY <1>7, <1>8, <1>9 DEF KeywordsInv

\* Ends of a crawl that leave its output and the tables alone.
LEMMA EndingKeeps ==
  ASSUME KeywordsInv,
         \/ step' = "idle" /\ outcome' \in {"no keywords", "raised", "matched", "unmatched"}
         \/ step \in {"ping", "search"} /\ step' = "search" /\ outcome' = outcome
         \/ step' = step /\ outcome' = outcome,
         \A u \in Urls : index'[u] \in Titles \cup {None} /\ visible'[u] \in Titles \cup {None},
         UNCHANGED <<crawl, kind, answers, output, rows, sharedRows, selected, collected>>
  PROVE  KeywordsInv'
<1>1. Crawling /\ Storing /\ KeywordsTypeOK
  BY DEF KeywordsInv
<1>2. step' = step \/ step' \notin {"fetch", "save"}
  OBVIOUS
<1>3. step' # "idle" => step # "idle"
  OBVIOUS
<1>4. Results' = Results
  BY DEF Results
<1>5. Crawling'
  BY <1>1, <1>2, <1>3, <1>4 DEF Crawling
<1>6. KeywordsTypeOK'
  BY <1>1 DEF KeywordsTypeOK
<1>7. Storing'
  BY <1>1, StoringStays DEF database
<1> QED
  BY <1>5, <1>6, <1>7 DEF KeywordsInv

\* The steps of the matching, and those that fail, store no keyword.
LEMMA MatchingKeeps ==
  ASSUME KeywordsInv,
         LoadFails \/ SaveFails \/ PingFails \/ IndexArticles \/
         IndexFails \/ Refresh \/ Search \/ SearchFails
  PROVE  KeywordsInv'
<1>1. \A u \in Urls : index[u] \in Titles \cup {None} /\ visible[u] \in Titles \cup {None}
  BY Zenon DEF KeywordsInv, KeywordsTypeOK
<1>2. output.items \in Seq(Headline)
  BY DEF KeywordsInv, Crawling, CrawlOutput
<1>3. CASE LoadFails \/ SaveFails
  BY <1>1, <1>3, EndingKeeps DEF LoadFails, SaveFails, EndCrawl, database, cluster
<1>4. CASE PingFails
  BY <1>1, <1>4, EndingKeeps DEF PingFails, GoOn, EndCrawl, database, cluster
<1>5. CASE Search \/ SearchFails
  BY <1>1, <1>5, EndingKeeps DEF Search, SearchFails, GoOn, EndCrawl, database, cluster
<1>6. CASE IndexFails
  BY <1>1, <1>6, EndingKeeps DEF IndexFails, database, cluster, result
<1>7. CASE Refresh
  BY <1>1, <1>7, EndingKeeps DEF Refresh, database, cluster, result
<1>8. CASE IndexArticles
  <2>1. PICK kept \in SUBSET ToSet(output.items) :
          index' = [u \in Urls |-> IF \E e \in kept : e.url = u
                                   THEN (CHOOSE e \in kept : e.url = u).title ELSE index[u]]
    BY <1>8 DEF IndexArticles
  <2>2. ToSet(output.items) \subseteq Headline /\ kept \subseteq ToSet(output.items)
    BY <1>2, FewElements
  <2>3. \A e \in kept : e.title \in Titles
    BY <2>2 DEF Headline
  <2>4. ASSUME NEW u \in Urls PROVE index'[u] \in Titles \cup {None}
    <3>1. CASE \E e \in kept : e.url = u
      <4>1. (CHOOSE e \in kept : e.url = u) \in kept
        BY <3>1
      <4> QED
        BY <2>1, <2>3, <3>1, <4>1
    <3>2. CASE ~ \E e \in kept : e.url = u
      BY <1>1, <2>1, <3>2
    <3> QED
      BY <3>1, <3>2
  <2> QED
    BY <1>1, <1>8, <2>4, EndingKeeps DEF IndexArticles, database, result
<1> QED
  BY <1>3, <1>4, <1>5, <1>6, <1>7, <1>8

-----------------------------------------------------------------------------
(* Saving *)

\* The rows of the shared keywords of a crawl.
SharedRanks(list) ==
  {[crawl |-> crawl, rank |-> i, word |-> list[i].word, total |-> list[i].total,
    channels |-> list[i].channels] : i \in DOMAIN list}

\* The words of a list are those of its rows.
LEMMA RankedWords ==
  ASSUME NEW list, NEW c
  PROVE  /\ \A r \in Ranks(list, c) : \E i \in DOMAIN list : r.word = list[i].word
         /\ \A i \in DOMAIN list : \E r \in Ranks(list, c) : r.word = list[i].word
         /\ \A i \in DOMAIN list : \E r \in SharedRanks(list) : r.word = list[i].word
<1>1. ASSUME NEW i \in DOMAIN list
      PROVE  /\ \E r \in Ranks(list, c) : r.word = list[i].word
             /\ \E r \in SharedRanks(list) : r.word = list[i].word
  <2>1. [crawl |-> crawl, channel |-> c, rank |-> i, word |-> list[i].word, count |-> list[i].count]
          \in Ranks(list, c)
    BY DEF Ranks
  <2>2. [crawl |-> crawl, rank |-> i, word |-> list[i].word, total |-> list[i].total,
         channels |-> list[i].channels] \in SharedRanks(list)
    BY DEF SharedRanks
  <2> QED
    BY <2>1, <2>2
<1>2. \A r \in Ranks(list, c) : \E i \in DOMAIN list : r.word = list[i].word
  BY DEF Ranks
<1> QED
  BY <1>1, <1>2

\* The rows of the shared keywords are rows of keyword_intersections.
LEMMA SharedRanksType ==
  ASSUME NEW list \in Seq(Shared(Channels, Nouns)), crawl \in 1..MaxCrawls
  PROVE  SharedRanks(list) \subseteq KeywordIntersection
<1> SUFFICES ASSUME NEW i \in DOMAIN list
             PROVE  [crawl |-> crawl, rank |-> i, word |-> list[i].word, total |-> list[i].total,
                     channels |-> list[i].channels] \in KeywordIntersection
  BY DEF SharedRanks
<1>1. list[i] \in Shared(Channels, Nouns) /\ i \in Nat
  OBVIOUS
<1>2. list[i].word \in Seq(Nouns) /\ list[i].total \in Nat /\ list[i].channels \in SUBSET Channels
  BY <1>1 DEF Shared, Phrase
<1> QED
  BY <1>1, <1>2 DEF KeywordIntersection

\* The rows Save adds: those of each list stand together.
LEMMA SavedRows ==
  ASSUME Crawling, step = "save",
         NEW new, new = Ranks(output.aggregated, None)
                        \cup UNION {Ranks(answers[c].keywords, c) : c \in Channels}
  PROVE  /\ output.aggregated \in KeywordLists(Nouns, TopAll)
         /\ \A c \in Channels : answers[c].keywords \in KeywordLists(Nouns, TopChannel)
         /\ new \subseteq CrawledKeyword
         /\ \A r \in new : r.crawl = crawl
         /\ \A r \in new : r.channel = None => r \in Ranks(output.aggregated, None)
         /\ \A c \in Channels : \A r \in new : r.channel = c <=> r \in Ranks(answers[c].keywords, c)
<1>1. /\ output.aggregated \in KeywordLists(Nouns, TopAll)
      /\ \A c \in Channels : answers[c].keywords \in KeywordLists(Nouns, TopChannel)
  <2>1. \A c \in Channels : answers[c] \in ChannelResult
    BY Zenon DEF Crawling
  <2>2. output \in CrawlOutput
    BY Zenon DEF Crawling
  <2> QED
    BY <2>1, <2>2 DEF ChannelResult, CrawlOutput
<1>2. crawl \in 1..MaxCrawls
  BY Zenon DEF Crawling
<1>3. \A list, c : \A r \in Ranks(list, c) : r.crawl = crawl /\ r.channel = c
  BY DEF Ranks
<1>4. Ranks(output.aggregated, None) \subseteq CrawledKeyword
  BY <1>1, <1>2, RanksType, KeywordsAssumption
<1>5. \A c \in Channels : Ranks(answers[c].keywords, c) \subseteq CrawledKeyword
  BY <1>1, <1>2, RanksType, KeywordsAssumption
<1>6. \A r : r \in new <=> r \in Ranks(output.aggregated, None)
                           \/ \E c \in Channels : r \in Ranks(answers[c].keywords, c)
  OBVIOUS
<1>7. new \subseteq CrawledKeyword
  BY <1>4, <1>5, <1>6
<1>8. \A r \in new : r.crawl = crawl
  BY <1>3, <1>6
<1>9. \A r \in new : r.channel = None => r \in Ranks(output.aggregated, None)
  BY <1>3, <1>6, KeywordsAssumption
<1>10. \A c \in Channels : \A r \in new : r.channel = c <=> r \in Ranks(answers[c].keywords, c)
  BY <1>3, <1>6, KeywordsAssumption
<1> QED
  BY <1>1, <1>7, <1>8, <1>9, <1>10

\* A crawl is saved, and its lists with it (crawler.py:294-371).
LEMMA SaveKeeps == ASSUME KeywordsInv, Save PROVE KeywordsInv'
<1> DEFINE new == Ranks(output.aggregated, None)
                  \cup UNION {Ranks(answers[c].keywords, c) : c \in Channels}
           newShared == SharedRanks(output.shared)
           list == output.shared
           With(w) == ListsWith(answers, w)
<1>1. Crawling /\ Storing /\ KeywordsTypeOK
  BY DEF KeywordsInv
<1>2. /\ step = "save" /\ rows' = rows \cup new /\ sharedRows' = sharedRows \cup newShared
      /\ UNCHANGED <<crawl, kind, answers, output, index, visible, matched, collected>>
  BY DEF Save, SharedRanks, cluster
<1>3. /\ \/ step' = "idle" /\ outcome' \in {"collected", "unmatched"}
         \/ step' = "ping" /\ outcome' = outcome
      /\ selected' = selected \/ selected' = Selection
  BY DEF Save, EndCrawl
<1>4. /\ output.aggregated \in KeywordLists(Nouns, TopAll)
      /\ \A c \in Channels : answers[c].keywords \in KeywordLists(Nouns, TopChannel)
      /\ new \subseteq CrawledKeyword
      /\ \A r \in new : r.crawl = crawl
      /\ \A r \in new : r.channel = None => r \in Ranks(output.aggregated, None)
      /\ \A c \in Channels : \A r \in new : r.channel = c <=> r \in Ranks(answers[c].keywords, c)
  BY <1>1, <1>2, SavedRows
<1>5. /\ crawl \in 1..MaxCrawls /\ output \in CrawlOutput
      /\ \A c \in Channels : answers[c] # None /\ answers[c].channel = c
      /\ list = Intersections(Results, MinChannels)
  BY <1>1, <1>2, Zenon DEF Crawling
<1>6. list \in Seq(Shared(Channels, Nouns))
  BY <1>5 DEF CrawlOutput
<1>7. newShared \subseteq KeywordIntersection /\ \A r \in newShared : r.crawl = crawl
  BY <1>5, <1>6, SharedRanksType DEF SharedRanks
<1>8. \A r \in rows \cup sharedRows : r.crawl <= crawl /\ r.crawl # crawl
  BY <1>1, <1>2, Zenon DEF Crawling
<1>9. \A c \in Channels : \A w : (\E r \in new : r.channel = c /\ r.word = w)
                                 <=> \E k \in ToSet(answers[c].keywords) : k.word = w
  <2> SUFFICES ASSUME NEW c \in Channels, NEW w
               PROVE  (\E r \in new : r.channel = c /\ r.word = w)
                        <=> \E k \in ToSet(answers[c].keywords) : k.word = w
    OBVIOUS
  <2>1. (\E r \in new : r.channel = c /\ r.word = w)
        <=> \E r \in Ranks(answers[c].keywords, c) : r.word = w
    <3>1. \A r \in Ranks(answers[c].keywords, c) : r \in new
      OBVIOUS
    <3> HIDE DEF new
    <3> QED
      BY <1>4, <3>1
  <2>2. (\E r \in Ranks(answers[c].keywords, c) : r.word = w)
          <=> \E i \in DOMAIN answers[c].keywords : answers[c].keywords[i].word = w
    BY RankedWords
  <2>3. (\E k \in ToSet(answers[c].keywords) : k.word = w)
          <=> \E i \in DOMAIN answers[c].keywords : answers[c].keywords[i].word = w
    BY DEF ToSet
  <2> QED
    BY <2>1, <2>2, <2>3
<1>10. /\ \A i, j \in DOMAIN list : list[i].word = list[j].word => i = j
       /\ \A i \in DOMAIN list : list[i].channels = With(list[i].word)
       /\ \A w : (\E i \in DOMAIN list : list[i].word = w)
                   <=> With(w) # {} /\ Cardinality(With(w)) >= MinChannels
  <2>1. Answered(Results, Channels, Nouns) /\ Results = [i \in DOMAIN Order |-> answers[Order[i]]]
    BY <1>1, <1>5, ResultsType
  <2>2. PICK results, ans, rank :
          results = Results /\ ans = answers /\ rank = Intersections(results, MinChannels)
    OBVIOUS
  <2>3. /\ \A i, j \in DOMAIN rank : rank[i].word = rank[j].word => i = j
        /\ \A i \in DOMAIN rank :
             rank[i].channels = {results[r].channel : r \in ChannelsWith(results, rank[i].word)}
        /\ \A w : (\E i \in DOMAIN rank : rank[i].word = w)
                    <=> ChannelsWith(results, w) # {} /\ IsShared(results, w, MinChannels)
    <3>1. Answered(results, Channels, Nouns)
      BY <2>1, <2>2
    <3> QED
      BY <2>2, <3>1, IntersectionRows, OrderOfChannels
  <2>4. list = rank
    BY <1>5, <2>2
  <2>5. ASSUME NEW w
        PROVE  /\ With(w) = {results[r].channel : r \in ChannelsWith(results, w)}
               /\ (With(w) # {} <=> ChannelsWith(results, w) # {})
               /\ Cardinality(With(w)) = Cardinality(ChannelsWith(results, w))
    <3>1. \A c \in Channels : ans[c].channel = c
      BY <1>5, <2>2
    <3>2. results = [i \in DOMAIN Order |-> ans[Order[i]]]
      BY <2>1, <2>2
    <3>3. With(w) = ListsWith(ans, w)
      BY <2>2
    <3> HIDE DEF With
    <3> QED
      BY <3>1, <3>2, <3>3, ChannelsOfWord
  <2> HIDE DEF list, With
  <2> QED
    BY <2>3, <2>4, <2>5 DEF IsShared
<1>11. \A r \in newShared : \E i \in DOMAIN list : /\ r.rank = i /\ r.word = list[i].word
                                                   /\ r.channels = list[i].channels
  BY DEF SharedRanks
<1>12. \A r, s \in newShared : r.rank = s.rank => r = s
  BY DEF SharedRanks
<1>13. \A i \in DOMAIN list : \E r \in newShared : r.word = list[i].word
  BY RankedWords
<1> HIDE DEF new, newShared, list, With
<1>14. \A n, w : n # crawl => OnLists(n, w)' = OnLists(n, w)
  BY <1>2, <1>4 DEF OnLists, StoredList
<1>15. \A n, w : n = crawl => OnLists(n, w)' = With(w)
  BY <1>2, <1>4, <1>8, <1>9 DEF OnLists, StoredList, With, ListsWith
<1>16. crawl' = crawl
  BY <1>2
<1>17. ASSUME NEW r \in rows', NEW s \in rows', r.crawl = s.crawl, r.channel = s.channel, r # s
       PROVE  /\ r.rank # s.rank /\ r.word # s.word
              /\ r.rank < s.rank => r.count >= s.count /\ ~Nested(s.word, r.word)
  <2>1. CASE r \in rows
    <3>1. s \in rows
      BY <1>2, <1>4, <1>8, <1>17, <2>1
    <3> QED
      BY <1>1, <1>17, <2>1, <3>1, Zenon DEF Storing
  <2>2. CASE r \in new
    <3>1. s \in new
      BY <1>2, <1>4, <1>8, <1>17, <2>2
    <3>2. r.channel \in Channels \cup {None}
      BY <1>4, <2>2 DEF CrawledKeyword
    <3>3. CASE r.channel = None
      <4>1. r \in Ranks(output.aggregated, None) /\ s \in Ranks(output.aggregated, None)
        BY <1>4, <1>17, <2>2, <3>1, <3>3
      <4> QED
        BY <1>4, <1>17, <4>1, RanksAgree, KeywordsAssumption
    <3>4. CASE r.channel \in Channels
      <4> DEFINE c == r.channel
      <4>1. /\ r \in Ranks(answers[c].keywords, c) /\ s \in Ranks(answers[c].keywords, c)
            /\ answers[c].keywords \in KeywordLists(Nouns, TopChannel)
        BY <1>4, <1>17, <2>2, <3>1, <3>4
      <4> HIDE DEF c
      <4> QED
        BY <1>17, <4>1, RanksAgree, KeywordsAssumption
    <3> QED
      BY <3>2, <3>3, <3>4
  <2> QED
    BY <1>2, <2>1, <2>2
<1>18. ASSUME NEW r \in sharedRows'
       PROVE  /\ r.channels = OnLists(r.crawl, r.word)'
              /\ r.channels # {} /\ Cardinality(r.channels) >= MinChannels
  <2>1. CASE r \in sharedRows
    <3>1. /\ r.channels = OnLists(r.crawl, r.word)
          /\ r.channels # {} /\ Cardinality(r.channels) >= MinChannels
      BY <1>1, <2>1, Zenon DEF Storing
    <3> QED
      BY <1>8, <1>14, <2>1, <3>1
  <2>2. CASE r \in newShared
    <3>1. PICK i \in DOMAIN list : r.word = list[i].word /\ r.channels = list[i].channels
      BY <1>11, <2>2
    <3>2. r.crawl = crawl
      BY <1>7, <2>2
    <3>3. /\ r.channels = With(r.word)
          /\ With(r.word) # {} /\ Cardinality(With(r.word)) >= MinChannels
      BY <1>10, <3>1
    <3> QED
      BY <1>15, <3>2, <3>3
  <2> QED
    BY <1>2, <2>1, <2>2
<1>19. ASSUME NEW r \in sharedRows', NEW s \in sharedRows', r.crawl = s.crawl, r.word = s.word
       PROVE r = s
  <2>1. CASE r \in sharedRows
    <3>1. s \in sharedRows
      BY <1>2, <1>7, <1>8, <1>19, <2>1
    <3> QED
      BY <1>1, <1>19, <2>1, <3>1, Zenon DEF Storing
  <2>2. CASE r \in newShared
    <3>1. s \in newShared
      BY <1>2, <1>7, <1>8, <1>19, <2>2
    <3> QED
      BY <1>10, <1>11, <1>12, <1>19, <2>2, <3>1
  <2> QED
    BY <1>2, <2>1, <2>2
<1>20. ASSUME NEW r \in rows', r.channel # None,
              Cardinality(OnLists(r.crawl, r.word)') >= MinChannels
       PROVE  \E s \in sharedRows' : s.crawl = r.crawl /\ s.word = r.word
  <2>1. CASE r \in rows
    <3>1. Cardinality(OnLists(r.crawl, r.word)) >= MinChannels
      BY <1>8, <1>14, <1>20, <2>1
    <3>2. \E s \in sharedRows : s.crawl = r.crawl /\ s.word = r.word
      BY <1>1, <1>20, <2>1, <3>1, Zenon DEF Storing
    <3> QED
      BY <1>2, <3>2
  <2>2. CASE r \in new
    <3>1. r.crawl = crawl /\ r.channel \in Channels
      BY <1>4, <1>20, <2>2 DEF CrawledKeyword
    <3>2. r.channel \in With(r.word)
      BY <1>9, <2>2, <3>1 DEF With, ListsWith
    <3>3. PICK i \in DOMAIN list : list[i].word = r.word
      BY <1>10, <1>15, <1>20, <3>1, <3>2
    <3>4. PICK s \in newShared : s.word = list[i].word
      BY <1>13
    <3> QED
      BY <1>2, <1>7, <3>1, <3>3, <3>4
  <2> QED
    BY <1>2, <2>1, <2>2
<1>21. Storing'
  BY <1>17, <1>18, <1>19, <1>20 DEF Storing
<1>22. Crawling'
  <2>1. \A r \in rows' \cup sharedRows' : r.crawl <= crawl
    <3>1. crawl <= crawl
      BY <1>5
    <3> QED
      BY <1>2, <1>4, <1>7, <1>8, <3>1
  <2>2. step' \notin {"fetch", "save"}
    BY <1>3
  <2> QED
    BY <1>1, <1>2, <1>5, <2>1, <2>2 DEF Crawling
<1>23. KeywordsTypeOK'
  <2>1. rows \subseteq CrawledKeyword /\ sharedRows \subseteq KeywordIntersection
    BY <1>1, Zenon DEF KeywordsTypeOK
  <2>2. rows' \subseteq CrawledKeyword /\ sharedRows' \subseteq KeywordIntersection
    BY <1>2, <1>4, <1>7, <2>1
  <2>3. Cardinality(selected') <= MaxKeywords /\ selected' \subseteq Seq(Nouns) \ {<<>>}
    <3>1. CASE selected' = selected
      BY <1>1, <3>1, Zenon DEF KeywordsTypeOK
    <3>2. CASE selected' = Selection
      <4>1. output.aggregated \in Seq(KeywordResult(Nouns))
        BY <1>4 DEF KeywordLists
      <4>2. Cardinality(Selection) <= MaxKeywords /\ Selection \subseteq Seq(Nouns) \ {<<>>}
        BY <1>6, <4>1, SelectionType DEF list
      <4> QED
        BY <3>2, <4>2
    <3> QED
      BY <1>3, <3>1, <3>2
  <2> QED
    BY <1>1, <1>2, <1>3, <2>2, <2>3 DEF KeywordsTypeOK
<1> QED
  BY <1>21, <1>22, <1>23 DEF KeywordsInv

\* KeywordsInv is inductive, and holds at first.
LEMMA KeywordsInvariant == KeywordsSpec => []KeywordsInv
<1>1. KeywordsInit => KeywordsInv
  BY InitiallyCrawling
<1>2. KeywordsInv /\ [KeywordsNext]_crawlVars => KeywordsInv'
  <2> SUFFICES ASSUME KeywordsInv, [KeywordsNext]_crawlVars PROVE KeywordsInv'
    OBVIOUS
  <2>1. ASSUME NEW k \in {"news", "collect"}, Begin(k) PROVE KeywordsInv'
    BY <2>1, BeginKeeps
  <2>2. ASSUME NEW c \in Channels, FetchFeed(c) \/ FetchPage(c) \/ Blocked(c) \/ FetchFails(c)
        PROVE  KeywordsInv'
    BY <2>2, FetchKeeps
  <2>3. CASE Combine
    BY <2>3, CombineKeeps
  <2>4. CASE Save
    BY <2>4, SaveKeeps
  <2>5. CASE \/ LoadFails \/ SaveFails \/ PingFails \/ IndexArticles \/ IndexFails \/ Refresh
             \/ Search \/ SearchFails
    BY <2>5, MatchingKeeps
  <2>6. CASE UNCHANGED crawlVars
    <3>1. /\ step' = step /\ outcome' = outcome
          /\ UNCHANGED <<crawl, kind, answers, output, rows, sharedRows,
                         index, visible, selected, collected>>
      BY <2>6 DEF crawlVars, database, cluster, result
    <3>2. \A u \in Urls : index[u] \in Titles \cup {None} /\ visible[u] \in Titles \cup {None}
      BY Zenon DEF KeywordsInv, KeywordsTypeOK
    <3> QED
      BY <3>1, <3>2, EndingKeeps
  <2> QED
    BY <2>1, <2>2, <2>3, <2>4, <2>5, <2>6, Zenon DEF KeywordsNext
<1> QED
  BY <1>1, <1>2, PTL DEF KeywordsSpec

\* Every state of the crawl and the matching has its type, the stored rows and the indexed
\* documents among them (crawler.py:103-141, 294-371; keyword_analyzer.py:134-196).
THEOREM KeywordsTypes == KeywordsSpec => []KeywordsTypeOK
<1>1. KeywordsInv => KeywordsTypeOK
  BY DEF KeywordsInv
<1> QED
  BY <1>1, KeywordsInvariant, PTL

\* The stored lists of a crawl are ranked by count, name no phrase twice or below one it
\* is nested with, and its shared keywords are those on enough of its channels' lists,
\* with these channels (crawler.py:103-141, 294-371; keyword_analyzer.py:134-196).
THEOREM ListsAgree == KeywordsSpec => []StoredListsAgree
<1>1. KeywordsInv => StoredListsAgree
  <2> SUFFICES ASSUME Storing, Crawling PROVE StoredListsAgree
    BY DEF KeywordsInv
  <2>1. \A r, s \in rows : r.crawl = s.crawl /\ r.channel = s.channel /\ r # s =>
          /\ r.rank # s.rank /\ r.word # s.word
          /\ r.rank < s.rank => r.count >= s.count /\ ~Nested(s.word, r.word)
    BY Zenon DEF Storing
  <2> SUFFICES ASSUME NEW n \in {r.crawl : r \in rows \cup sharedRows},
                      NEW w \in {r.word : r \in rows \cup sharedRows}
               PROVE  LET on == {c \in Channels : \E r \in StoredList(n, c) : r.word = w}
                          of == {r \in sharedRows : r.crawl = n /\ r.word = w}
                      IN /\ \A r \in of : r.channels = on
                         /\ Cardinality(of) =
                                (IF on # {} /\ Cardinality(on) >= MinChannels THEN 1 ELSE 0)
    BY <2>1, Zenon DEF StoredListsAgree
  <2> DEFINE of == {r \in sharedRows : r.crawl = n /\ r.word = w}
  <2>2. \A r \in of : /\ r.channels = OnLists(n, w) /\ OnLists(n, w) # {}
                      /\ Cardinality(OnLists(n, w)) >= MinChannels
    BY DEF Storing
  <2>3. \A r, s \in of : r = s
    BY DEF Storing
  <2>4. ASSUME OnLists(n, w) # {}, Cardinality(OnLists(n, w)) >= MinChannels PROVE of # {}
    <3>1. PICK r \in rows : r.crawl = n /\ r.word = w /\ r.channel \in Channels
      BY <2>4 DEF OnLists, StoredList
    <3>2. r.channel # None
      BY <3>1, KeywordsAssumption
    <3> QED
      BY <2>4, <3>1, <3>2 DEF Storing
  <2> HIDE DEF of
  <2>5. /\ \A r \in of : r.channels = OnLists(n, w)
        /\ Cardinality(of) = (IF OnLists(n, w) # {} /\ Cardinality(OnLists(n, w)) >= MinChannels
                              THEN 1 ELSE 0)
    <3>1. CASE of = {}
      <4>1. Cardinality(of) = 0
        BY <3>1, FS_EmptySet
      <4> QED
        BY <2>4, <3>1, <4>1 DEF of
    <3>2. CASE of # {}
      <4>1. PICK r \in of : of = {r}
        BY <2>3, <3>2
      <4>2. Cardinality(of) = 1
        BY <4>1, FS_Singleton
      <4> QED
        BY <2>2, <4>1, <4>2 DEF of
    <3> QED
      BY <2>2, <3>1, <3>2
  <2> QED
    BY <2>5 DEF of, OnLists
<1> QED
  BY <1>1, KeywordsInvariant, PTL
=============================================================================
