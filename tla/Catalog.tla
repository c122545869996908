------------------------------ MODULE Catalog ------------------------------
(***************************************************************************)
(* Events, issues, their tags and sources, and the users' lists of saved   *)
(* events and tracked issues: api/v1/events.py, api/v1/issues.py,          *)
(* api/v1/tags.py, api/v1/sources.py, with crud/events.py, crud/issues.py, *)
(* sql/events.py, sql/issues.py, sql/tags.py and sql/sources.py under      *)
(* src/src. Triggers are in IssueDesk; here one only takes sources.        *)
(*                                                                         *)
(* A request is a transaction in READ COMMITTED: it loads, may run         *)
(* statements on the association tables, then flushes and commits. What    *)
(* these statements lock makes others wait. Ids are never used again.      *)
(***************************************************************************)
EXTENDS Integers, FiniteSets

CONSTANTS
  Events, Issues, \* ids of events and issues
  Tags,           \* ids of tags
  Sources,        \* ids of sources
  Users,          \* members
  Slots,          \* bound: requests served at the same time
  MaxRequests,    \* bound: requests of several steps in a behaviour
  NoRow,          \* not created yet
  Gone,           \* deleted
  Keep            \* no id: what a field holds that a PATCH does not send

Topics == Events \cup Issues

Manual == "manual"     \* entity_id of a source no topic has taken
Trigger == "trigger"   \* entity_id of a source a trigger has taken

ASSUME TopicsAssumption   == Events \cap Issues = {} /\ Tags \cap Topics = {}
ASSUME RowsAssumption     == NoRow # Gone /\ {NoRow, Gone} \cap (Topics \cup Int \cup {"live"}) = {}
ASSUME OwnersAssumption   == {Manual, Trigger} \cap Topics = {}
ASSUME KeepAssumption     == Keep \notin Tags \cup Topics \cup Sources
ASSUME RequestsAssumption == MaxRequests \in Nat /\ IsFiniteSet(Sources) /\ IsFiniteSet(Users)

VARIABLES
  tag,       \* tag -> "live", or NoRow, Gone
  owner,     \* source -> entity_id, or NoRow, Gone
  count,     \* event -> source_count, issue -> tracker_count, or NoRow, Gone
  labels,    \* rows of event_tags, issue_tags and issue_events
  marks,     \* rows of user_saved_events and user_tracked_issues
  at,        \* slot -> how far its request has come
  ask,       \* slot -> what it asks for
  seen,      \* slot -> the count it loaded
  cleared,   \* slot -> label rows its DELETE found
  requests,  \* requests so far
  given,     \* history: topic -> labels the last request that gave some gave
  mixed,     \* history: topics whose labels two requests replaced at once
  raced,     \* history: issues two requests tracked or untracked at once
  disturbed  \* history: events whose sources came or went without source_count

tables  == <<tag, owner, count, labels, marks>>
session == <<at, ask, seen, cleared>>
history == <<given, mixed, raced, disturbed>>
vars    == <<tables, session, requests, history>>

Unsent == {Keep}

LabelsFor(t) == IF t \in Issues THEN Tags \cup Events ELSE Tags

Exists(t) == count[t] \notin {NoRow, Gone}
Stored(x) == owner[x] \notin {NoRow, Gone}
Live(l)   == IF l \in Tags THEN tag[l] = "live" ELSE Exists(l)

LabelsOf(t) == {l \in Tags \cup Events : <<t, l>> \in labels}
SourcesOf(t) == {x \in Sources : owner[x] = t}
Trackers(i) == {u \in Users : <<u, i>> \in marks}

\* Bounds: tag_ids and related_event_ids are sent together, and name an id once.
Ask ==
  {a \in [op : {"create"}, topic : Topics, labels : SUBSET (Tags \cup Events),
          sources : SUBSET Sources]
         \cup [op : {"update"}, topic : Topics, labels : {Unsent} \cup SUBSET (Tags \cup Events),
               sources : {Unsent} \cup SUBSET Sources]
     : a.labels \subseteq LabelsFor(a.topic) \cup Unsent}
  \cup [op : {"create_trigger"}, topic : Issues, sources : SUBSET Sources]
  \cup [op : {"delete"}, topic : Topics]
  \cup [op : {"mark", "unmark"}, topic : Topics, user : Users]

NoAsk == [op |-> "none"]

Running == {s \in Slots : at[s] # "idle"}

Init ==
  /\ tag = [g \in Tags |-> NoRow]
  /\ owner = [x \in Sources |-> NoRow]
  /\ count = [t \in Topics |-> NoRow]
  /\ labels = {}
  /\ marks = {}
  /\ at = [s \in Slots |-> "idle"]
  /\ ask = [s \in Slots |-> NoAsk]
  /\ seen = [s \in Slots |-> 0]
  /\ cleared = [s \in Slots |-> {}]
  /\ requests = 0
  /\ given = [t \in Topics |-> {}]
  /\ mixed = {}
  /\ raced = {}
  /\ disturbed = {}

-----------------------------------------------------------------------------
(* Tags and sources: one statement each *)

\* create_tag; two with one slug are refused, which is not modelled.
CreateTag(g) ==
  /\ tag[g] = NoRow
  /\ tag' = [tag EXCEPT ![g] = "live"]
  /\ UNCHANGED <<owner, count, labels, marks, session, requests, history>>

\* delete_tag: its rows of the association tables go with it. It waits for requests
\* that inserted such rows; here those commit in the step that inserts.
DeleteTag(g) ==
  /\ tag[g] = "live"
  /\ tag' = [tag EXCEPT ![g] = Gone]
  /\ labels' = {r \in labels : r[2] # g}
  /\ UNCHANGED <<owner, count, marks, session, requests, history>>

CreateSource(x) ==
  /\ owner[x] = NoRow
  /\ owner' = [owner EXCEPT ![x] = Manual]
  /\ UNCHANGED <<tag, count, labels, marks, session, requests, history>>

\* delete_source leaves the source_count of its event alone.
DeleteSource(x) ==
  /\ Stored(x)
  /\ owner' = [owner EXCEPT ![x] = Gone]
  /\ disturbed' = disturbed \cup ({owner[x]} \cap Events)
  /\ UNCHANGED <<tag, count, labels, marks, session, requests, given, mixed, raced>>

-----------------------------------------------------------------------------
(* Requests of several steps *)

Goto(s, stage) == at' = [at EXCEPT ![s] = stage]

\* What other requests deleted keeps its rows, less those inserted anew by this one.
Close(s, inserted) ==
  /\ Goto(s, "idle")
  /\ ask' = [ask EXCEPT ![s] = NoAsk]
  /\ seen' = [seen EXCEPT ![s] = 0]
  /\ cleared' = [r \in Slots |-> IF r = s THEN {} ELSE cleared[r] \ inserted]

Refuse(s) == Close(s, {}) /\ UNCHANGED <<tables, requests, history>>

\* Mutant of Found: a PATCH that does not answer 404 for a topic that is not there.
FoundUnchecked(a) ==
  IF a.op = "create" THEN count[a.topic] = NoRow ELSE a.op = "update" \/ Exists(a.topic)

\* The first SELECTs: a create counts the tags and sources it was given, but not the
\* events; the others look for their topic; tracking and saving also for the mark.
Found(a) ==
  IF a.op = "create"
    THEN /\ count[a.topic] = NoRow
         /\ \A l \in a.labels \cap Tags : Live(l)
         /\ \A x \in a.sources : Stored(x)
    ELSE Exists(a.topic) /\ (a.op = "mark" => <<a.user, a.topic>> \notin marks)

\* Replacing labels begins with a DELETE; tracking has statements before the flush.
FirstStage(a) ==
  CASE a.op = "update" -> IF a.labels = Unsent THEN "apply" ELSE "clear"
    [] a.op \in {"mark", "unmark"} /\ a.topic \in Issues -> "load"
    [] OTHER -> "apply"

\* A request that is refused here changes nothing.
Begin(s) ==
  /\ at[s] = "idle" /\ requests < MaxRequests
  /\ \E a \in Ask :
       /\ a.op = "create" => \A r \in Running : ~(ask[r].op = "create" /\ ask[r].topic = a.topic)
       /\ Found(a)
       /\ ask' = [ask EXCEPT ![s] = a]
       /\ Goto(s, FirstStage(a))
       /\ seen' = [seen EXCEPT ![s] = IF a.op = "update" THEN count[a.topic] ELSE 0]
  /\ requests' = requests + 1
  /\ UNCHANGED <<tables, cleared, history>>

\* update_event, update_issue: DELETE FROM event_tags WHERE event_id = ... finds the rows
\* that are committed. A row another request is deleting makes it wait; if that one
\* commits, the row is skipped, which is the same as finding it, but a row that one
\* inserted anew is not found.
Clear(s) ==
  /\ at[s] = "clear"
  /\ cleared' = [cleared EXCEPT ![s] = {r \in labels : r[1] = ask[s].topic}]
  /\ Goto(s, "apply")
  /\ UNCHANGED <<tables, ask, seen, requests, history>>

Counting == {"mark", "unmark"}

\* Another transaction holds the row of this user and this issue.
RowLocked(s) ==
  \E r \in Running \ {s} : /\ at[r] = "apply" /\ ask[r].op \in Counting
                           /\ ask[r].topic = ask[s].topic /\ ask[r].user = ask[s].user

\* Mutant of RowChanges: untracking does not look at the number of rows it deleted.
RowInserted(a) == Exists(a.topic) /\ (a.op = "unmark" \/ <<a.user, a.topic>> \notin marks)

\* There is a row to delete, or the INSERT violates no key.
RowChanges(a) == Exists(a.topic) /\ (<<a.user, a.topic>> \in marks <=> a.op = "unmark")

\* track_for_user and untrack_for_user: the INSERT or DELETE, then the count is loaded.
Load(s) ==
  /\ at[s] = "load"
  /\ ~RowLocked(s)
  /\ RowChanges(ask[s])
  /\ Goto(s, "apply")
  /\ seen' = [seen EXCEPT ![s] = count[ask[s].topic]]
  /\ UNCHANGED <<tables, ask, cleared, requests, history>>

LoadFails(s) ==
  /\ at[s] = "load"
  /\ ~RowLocked(s)
  /\ ~RowChanges(ask[s])
  /\ Refuse(s)

\* A topic is not deleted while a request has inserted or deleted one of its marks.
TopicLocked(s) ==
  \E r \in Running \ {s} : /\ at[r] = "apply" /\ ask[r].op \in Counting
                           /\ ask[r].topic = ask[s].topic /\ ask[r].topic \in Issues

\* Mutant of Left: the labels are added to the ones the topic has.
LeftAll(s) == labels

\* Label rows that are there when this request inserts its own.
Left(s) == labels \ cleared[s]
NewLabels(a) == {a.topic} \X a.labels

\* The foreign keys, the primary keys and the UPDATE of the flush.
CanApply(s) ==
  LET a == ask[s] IN
  CASE a.op = "create" -> \A l \in a.labels : Live(l)
    [] a.op = "update" -> /\ Exists(a.topic)
                          /\ a.labels # Unsent => /\ \A l \in a.labels : Live(l)
                                                  /\ NewLabels(a) \cap Left(s) = {}
    [] a.op = "mark" -> Exists(a.topic) /\ <<a.user, a.topic>> \notin marks
    [] a.op = "delete" -> Exists(a.topic)
    [] a.op = "create_trigger" -> Exists(a.topic)
    [] OTHER -> TRUE

\* The sources a request takes; those that do not exist are passed over in silence.
Taken(s) ==
  IF ask[s].op \in {"create", "update", "create_trigger"} /\ ask[s].sources # Unsent
    THEN {x \in ask[s].sources : Stored(x)} ELSE {}

OwnerAfter(s) ==
  [x \in Sources |-> IF x \notin Taken(s) THEN owner[x]
                     ELSE IF ask[s].op = "create_trigger" THEN Trigger ELSE ask[s].topic]

\* Mutant of ListLength: a PATCH takes the sources and leaves source_count alone.
ListLengthAtFirst(s) == IF ask[s].op = "create" THEN Cardinality(ask[s].sources) ELSE seen[s]

\* len(source_ids)
ListLength(s) == Cardinality(ask[s].sources)

\* tracker_count is computed from the count that was loaded; source_count is the
\* length of the list, and written if it differs from the count that was loaded.
CountAfter(s) ==
  LET a == ask[s]
      t == a.topic IN
  CASE a.op = "delete" -> Gone
    [] a.op = "create" -> IF t \in Events THEN ListLength(s) ELSE 0
    [] a.op = "mark" /\ t \in Issues -> seen[s] + 1
    [] a.op = "unmark" /\ t \in Issues /\ seen[s] > 0 -> seen[s] - 1
    [] a.op = "update" /\ t \in Events /\ a.sources # Unsent /\ ListLength(s) # seen[s]
         -> ListLength(s)
    [] OTHER -> count[t]

\* Mutant of LabelsWithout: a deleted event stays related to its issues.
LabelsWithoutTopic(t) == {r \in labels : r[1] # t}

\* What ON DELETE CASCADE leaves of the association tables.
LabelsWithout(t) == {r \in labels : r[1] # t /\ r[2] # t}
MarksWithout(t)  == {r \in marks : r[2] # t}

LabelsAfter(s) ==
  LET a == ask[s] IN
  CASE a.op = "delete" -> LabelsWithout(a.topic)
    [] a.op = "create" -> labels \cup NewLabels(a)
    [] a.op = "update" /\ a.labels # Unsent -> Left(s) \cup NewLabels(a)
    [] OTHER -> labels

MarksAfter(s) ==
  LET a == ask[s] IN
  CASE a.op = "delete" -> MarksWithout(a.topic)
    [] a.op = "mark" -> marks \cup {<<a.user, a.topic>>}
    [] a.op = "unmark" -> marks \ {<<a.user, a.topic>>}
    [] OTHER -> marks

\* History. Requests between their statements and their flush, on the same topic.
Replacing(s) == {r \in Running : /\ at[r] = "apply" /\ ask[r].topic = ask[s].topic
                                 /\ ask[r].op = "update" /\ ask[r].labels # Unsent}
CountingOn(s) == {r \in Running : /\ at[r] = "apply" /\ ask[r].topic = ask[s].topic
                                  /\ ask[r].op \in Counting}
Raced(S, s) == s \in S /\ S # {s}

\* Events that lose a source to another owner, or that keep one, or miss one, which
\* the list did not name, or named.
DisturbedBy(s) ==
  {e \in Events : e # ask[s].topic /\ SourcesOf(e) \cap Taken(s) # {}} \cup
  {e \in Events : /\ e = ask[s].topic /\ ask[s].op \in {"create", "update"}
                  /\ ask[s].sources # Unsent
                  /\ Taken(s) # ask[s].sources \/ ~(SourcesOf(e) \subseteq Taken(s))}

Apply(s) ==
  /\ at[s] = "apply"
  /\ CanApply(s)
  /\ ask[s].op = "delete" => ~TopicLocked(s)
  /\ owner' = OwnerAfter(s)
  /\ count' = [count EXCEPT ![ask[s].topic] = CountAfter(s)]
  /\ labels' = LabelsAfter(s)
  /\ marks' = MarksAfter(s)
  /\ given' = IF ask[s].op \in {"create", "update"} /\ ask[s].labels # Unsent
              THEN [given EXCEPT ![ask[s].topic] = ask[s].labels] ELSE given
  /\ mixed' = mixed \cup {t \in Topics : t = ask[s].topic /\ Raced(Replacing(s), s)}
  /\ raced' = raced \cup {i \in Issues : i = ask[s].topic /\ Raced(CountingOn(s), s)}
  /\ disturbed' = disturbed \cup DisturbedBy(s)
  /\ Close(s, LabelsAfter(s) \ Left(s))
  /\ UNCHANGED <<tag, requests>>

\* An error of the database; the transaction is rolled back.
ApplyFails(s) ==
  /\ at[s] = "apply"
  /\ ~CanApply(s)
  /\ Refuse(s)

\* The process is killed, or the request is the victim of a deadlock.
Abort(s) == at[s] # "idle" /\ Refuse(s)

Next ==
  \/ \E g \in Tags : CreateTag(g) \/ DeleteTag(g)
  \/ \E x \in Sources : CreateSource(x) \/ DeleteSource(x)
  \/ \E s \in Slots : Begin(s) \/ Clear(s) \/ Load(s) \/ LoadFails(s)
                          \/ Apply(s) \/ ApplyFails(s) \/ Abort(s)

Spec == Init /\ [][Next]_vars

-----------------------------------------------------------------------------
(* Properties *)

\* Every variable keeps its type; no count is ever negative.
TypeOK ==
  /\ tag \in [Tags -> {NoRow, Gone, "live"}]
  /\ owner \in [Sources -> Topics \cup {NoRow, Gone, Manual, Trigger}]
  /\ count \in [Topics -> Nat \cup {NoRow, Gone}]
  /\ labels \subseteq Topics \X (Tags \cup Events)
  /\ marks \subseteq Users \X Topics
  /\ at \in [Slots -> {"idle", "clear", "load", "apply"}]
  /\ ask \in [Slots -> Ask \cup {NoAsk}]
  /\ \A s \in Slots : at[s] # "idle" => ask[s] \in Ask
  /\ seen \in [Slots -> Nat]
  /\ cleared \in [Slots -> SUBSET (Topics \X (Tags \cup Events))]
  /\ requests \in 0..MaxRequests
  /\ given \in [Topics -> SUBSET (Tags \cup Events)]
  /\ mixed \subseteq Topics /\ raced \subseteq Issues /\ disturbed \subseteq Events

\* No label and no mark outlives its topic, its tag or its event, whatever deletions
\* overlap the requests that insert them (models/events.py, models/issues.py).
NoOrphanRows ==
  /\ \A r \in labels : Exists(r[1]) /\ Live(r[2])
  /\ \A r \in marks : Exists(r[2])

\* tracker_count is the number of trackers, unless two requests changed it at once
\* (sql/issues.py:128-131, 143-146).
TrackersExact ==
  \A i \in Issues : Exists(i) /\ i \notin raced => count[i] = Cardinality(Trackers(i))

\* A topic has the labels the last request gave it, less those that were deleted since,
\* unless two requests replaced them at once: then it may have the labels of both
\* (sql/events.py:162-168).
LabelsAsGiven ==
  \A t \in Topics : Exists(t) /\ t \notin mixed => LabelsOf(t) = {l \in given[t] : Live(l)}

\* source_count is the number of sources unless a source was taken from the event or
\* deleted, or a list did not name all the sources it has (sql/events.py:170-177).
SourcesCounted ==
  \A e \in Events : Exists(e) /\ e \notin disturbed => count[e] = Cardinality(SourcesOf(e))

\* The two counters that are stored agree with the rows they count, with the exceptions
\* of TrackersExact and of SourcesCounted: nothing else ever leaves them wrong.
CountersExact == TrackersExact /\ SourcesCounted
=============================================================================
