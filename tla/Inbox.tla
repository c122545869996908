-------------------------------- MODULE Inbox --------------------------------
(***************************************************************************)
(* Keyword subscriptions, the matches and notifications the pipeline makes *)
(* of them (utils/pipeline/feed_builder.py), and the client that pages     *)
(* through its notifications: api/v1/users.py, with crud/subscription.py,  *)
(* crud/notification.py, sql/subscription.py, sql/notification.py and      *)
(* core/pagination.py under src/src.                                       *)
(*                                                                         *)
(* The pipeline's transaction loads subscriptions, then inserts and        *)
(* commits; the users' requests are single statements. A page is one       *)
(* SELECT with OFFSET and LIMIT. The rows of one batch of articles carry   *)
(* one created_at, and PostgreSQL may return equals in any order.          *)
(***************************************************************************)
EXTENDS Integers, FiniteSets, Sequences

CONSTANTS
  Readers,       \* users who subscribe and read
  Words,         \* keywords after lower() and strip(), as subscriptions store them
  Subscriptions, \* ids of the subscriptions ever made
  Articles,      \* articles the pipeline may store
  WordsOf,       \* article -> its normalized keywords
  PageSize,      \* limit of a page
  Nobody         \* no row, no client

ASSUME InboxArticlesAssumption == WordsOf \in [Articles -> SUBSET Words] /\ IsFiniteSet(Articles)
ASSUME InboxPageAssumption     == PageSize \in Nat \ {0}
ASSUME InboxNobodyAssumption   == Nobody \notin Readers \cup Subscriptions
ASSUME InboxIdsAssumption      == Readers \cap Subscriptions = {} /\ IsFiniteSet(Subscriptions)

VARIABLES
  subscription,  \* id -> its row, or Nobody
  usedIds,       \* subscription ids ever stored
  stored,        \* articles of the batches that were committed -> number of the batch
  batch,         \* articles of the batch being persisted
  matching,      \* subscriptions it loaded
  matches,       \* rows of keyword_matches
  notes,         \* rows of notifications
  unread,        \* those not read yet
  client,        \* who pages through their notifications, a subscription whose matches
                 \* its reader pages through, or Nobody
  cursor,        \* the offset of the next page, or -1 after the last one
  shown,         \* rows on the pages so far
  before         \* history: rows there when the client asked for the first page

subs      == <<subscription, usedIds>>
pipe      == <<stored, batch, matching>>
tables    == <<matches, notes, unread>>
paging    == <<client, cursor, shown, before>>
inboxVars == <<subs, pipe, tables, paging>>

BatchNumbers == 1..Cardinality(Articles)

Row  == [reader : Readers, word : Words, after : {0} \cup BatchNumbers]
Note == [reader : Readers, subscription : Subscriptions, article : Articles]
KeywordMatch == [subscription : Subscriptions, article : Articles]

Active == {b \in Subscriptions : subscription[b] # Nobody}

Committed == {a \in Articles : stored[a] > 0}
LastBatch == IF Committed = {} THEN 0 ELSE CHOOSE n \in BatchNumbers :
               (\E a \in Committed : stored[a] = n) /\ \A a \in Committed : stored[a] <= n

InboxInit ==
  /\ subscription = [b \in Subscriptions |-> Nobody]
  /\ usedIds = {}
  /\ stored = [a \in Articles |-> 0]
  /\ batch = {}
  /\ matching = {}
  /\ matches = {}
  /\ notes = {}
  /\ unread = {}
  /\ client = Nobody
  /\ cursor = -1
  /\ shown = {}
  /\ before = {}

-----------------------------------------------------------------------------
(* Subscriptions *)

\* create_subscription: no look-up before it; the unique key on user and keyword
\* refuses a second row. The row notes the last batch that may miss it (history).
Subscribe(u, w) ==
  /\ \A b \in Active : ~(subscription[b].reader = u /\ subscription[b].word = w)
  /\ \E b \in Subscriptions \ usedIds :
       /\ subscription' = [subscription EXCEPT ![b] = [reader |-> u, word |-> w,
                                                    after |-> IF batch = {} THEN LastBatch
                                                                            ELSE LastBatch + 1]]
       /\ usedIds' = usedIds \cup {b}
  /\ UNCHANGED <<pipe, tables, paging>>

\* Mutant of Unsubscribe: the notifications are deleted too, and still counted as unread.
UnsubscribeNotes(b) ==
  /\ b \in Active
  /\ subscription' = [subscription EXCEPT ![b] = Nobody]
  /\ matches' = {m \in matches : m.subscription # b}
  /\ notes' = {n \in notes : n.subscription # b}
  /\ UNCHANGED <<usedIds, pipe, unread, paging>>

\* delete_subscription: its matches go with it, the notifications stay.
Unsubscribe(b) ==
  /\ b \in Active
  /\ subscription' = [subscription EXCEPT ![b] = Nobody]
  /\ matches' = {m \in matches : m.subscription # b}
  /\ UNCHANGED <<usedIds, pipe, notes, unread, paging>>

-----------------------------------------------------------------------------
(* The pipeline *)

\* Mutant of Matching: a dictionary holds one subscription for each keyword.
MatchingOne(A) ==
  {(CHOOSE b \in Active : subscription[b].word = w) :
     w \in {subscription[b].word : b \in Active} \cap UNION {WordsOf[a] : a \in A}}

\* _match_keyword_subscriptions: the subscriptions to any keyword of the batch.
Matching(A) == {b \in Active : \E a \in A : subscription[b].word \in WordsOf[a]}

\* persist_results has a batch of new articles and looks for their subscribers.
Match ==
  /\ batch = {}
  /\ \E A \in SUBSET (Articles \ Committed) :
       /\ A # {}
       /\ batch' = A
       /\ matching' = {<<b, subscription[b].reader, subscription[b].word>> : b \in Matching(A)}
  /\ UNCHANGED <<subs, stored, tables, paging>>

Hits == {h \in batch \X matching : h[2][3] \in WordsOf[h[1]]}

NewNotes ==
  {[reader |-> h[2][2], subscription |-> h[2][1], article |-> h[1]] : h \in Hits}

\* The flush and the commit: every match refers to a subscription that is there.
Deliver ==
  /\ batch # {}
  /\ \A m \in matching : m[1] \in Active
  /\ matches' = matches \cup {[subscription |-> h[2][1], article |-> h[1]] : h \in Hits}
  /\ notes' = notes \cup NewNotes
  /\ unread' = unread \cup NewNotes
  /\ stored' = [a \in Articles |-> IF a \in batch THEN LastBatch + 1 ELSE stored[a]]
  /\ batch' = {}
  /\ matching' = {}
  /\ UNCHANGED <<subs, paging>>

\* A subscription was deleted meanwhile, or the transaction fails for another reason:
\* nothing of the batch is stored; a later cycle may collect its articles again.
DeliverFails ==
  /\ batch # {}
  /\ batch' = {}
  /\ matching' = {}
  /\ UNCHANGED <<subs, stored, tables, paging>>

-----------------------------------------------------------------------------
(* Reading *)

Mine(u) == {n \in notes : n.reader = u}

\* What a client pages through: get_subscription finds it, or the answer is 404.
ListOf(c) == IF c \in Readers THEN Mine(c) ELSE {m \in matches : m.subscription = c}

\* mark_read and mark_all_read.
MarkRead(n) ==
  /\ n \in unread
  /\ unread' = unread \ {n}
  /\ UNCHANGED <<subs, pipe, matches, notes, paging>>

MarkAllRead(u) ==
  /\ unread \cap Mine(u) # {}
  /\ unread' = unread \ Mine(u)
  /\ UNCHANGED <<subs, pipe, matches, notes, paging>>

\* The orders PostgreSQL may return rows N in: by created_at or matched_at, which are
\* those of the article's batch, the newest first, and equals in any order.
Sorted(N) ==
  {q \in [1..Cardinality(N) -> N] :
     \A i, j \in 1..Cardinality(N) :
       i < j => q[i] # q[j] /\ stored[q[i].article] >= stored[q[j].article]}

\* list_notifications, list_matches: LIMIT + 1 rows tell whether there is a next page.
Page(q, offset) == {q[i] : i \in {j \in DOMAIN q : offset < j /\ j <= offset + PageSize}}

\* Mutant of NextCursor: the row that showed there is a next page is skipped.
NextCursorPast(q, offset) ==
  IF Len(q) > offset + PageSize THEN offset + PageSize + 1 ELSE -1

NextCursor(q, offset) == IF Len(q) > offset + PageSize THEN offset + PageSize ELSE -1

FirstPage(c) ==
  /\ client = Nobody
  /\ \E q \in Sorted(ListOf(c)) :
       /\ shown' = Page(q, 0)
       /\ cursor' = NextCursor(q, 0)
  /\ client' = c
  /\ before' = ListOf(c)
  /\ UNCHANGED <<subs, pipe, tables>>

NextPage ==
  /\ client \in Readers \cup Active /\ cursor > 0
  /\ \E q \in Sorted(ListOf(client)) :
       /\ shown' = shown \cup Page(q, cursor)
       /\ cursor' = NextCursor(q, cursor)
  /\ UNCHANGED <<subs, pipe, tables, client, before>>

\* The client has seen the last page, its subscription is gone, or it leaves.
Leave ==
  /\ client # Nobody
  /\ client' = Nobody
  /\ cursor' = -1
  /\ shown' = {}
  /\ before' = {}
  /\ UNCHANGED <<subs, pipe, tables>>

InboxNext ==
  \/ \E u \in Readers : MarkAllRead(u) \/ \E w \in Words : Subscribe(u, w)
  \/ \E c \in Readers \cup Active : FirstPage(c)
  \/ \E b \in Subscriptions : Unsubscribe(b)
  \/ Match \/ Deliver \/ DeliverFails
  \/ \E n \in unread : MarkRead(n)
  \/ NextPage \/ Leave

InboxSpec == InboxInit /\ [][InboxNext]_inboxVars

-----------------------------------------------------------------------------
(* Properties *)

\* Every variable keeps its type.
InboxTypeOK ==
  /\ subscription \in [Subscriptions -> Row \cup {Nobody}]
  /\ usedIds \subseteq Subscriptions /\ Active \subseteq usedIds
  /\ stored \in [Articles -> {0} \cup BatchNumbers]
  /\ batch \subseteq Articles
  /\ matching \subseteq Subscriptions \X Readers \X Words
  /\ matches \subseteq KeywordMatch
  /\ notes \subseteq Note
  /\ unread \subseteq notes
  /\ client \in Readers \cup Subscriptions \cup {Nobody}
  /\ cursor \in {-1} \cup Nat
  /\ shown \cup before \subseteq notes \cup KeywordMatch

Wanted(b, a) == subscription[b].word \in WordsOf[a] /\ subscription[b].after < stored[a]

\* Whoever subscribed before a batch was begun, and still does, has a match and a
\* notification for each article of it with the keyword: a subscription deleted by
\* somebody else while the batch is persisted costs them nothing (feed_builder.py:250-330).
SubscribersAreTold ==
  \A b \in Active, a \in Committed :
    Wanted(b, a) => /\ [subscription |-> b, article |-> a] \in matches
                    /\ \E n \in notes : n.subscription = b /\ n.article = a

\* A client that follows the cursors to the end has been shown every notification, or
\* every match, that was there when it began and has its created_at to itself, however
\* many batches came meanwhile (sql/notification.py:68-85, sql/subscription.py:48-70).
PagesShowAll ==
  client # Nobody /\ cursor = -1 =>
    \A n \in before :
      (\A m \in before : stored[m.article] = stored[n.article] => m = n) => n \in shown
=============================================================================
