-------------------------- MODULE IssueDesk_proofs --------------------------
(***************************************************************************)
(* Theorems of IssueDesk, for any number of issues, triggers and requests, *)
(* overlapping in any way, with the reconcile job at work.                 *)
(***************************************************************************)
EXTENDS IssueDesk, WellFoundedInduction, TLAPS

USE DEF Days, When, IssueStatus, TriggerOps

-----------------------------------------------------------------------------
(* The newest trigger *)

\* A set of days that is not empty has a last one: the one the fewest days before LastDay.
LEMMA LastOne ==
  ASSUME NEW D \in SUBSET Days, D # {}
  PROVE  \E d \in D : \A e \in D : e <= d
<1> DEFINE left == {LastDay - d : d \in D}
<1>1. LastDay \in Nat
  BY DayAssumption
<1>2. left \subseteq Nat /\ left # {}
  <2>1. \A d \in D : d \in 0..LastDay /\ LastDay - d \in Nat
    BY <1>1
  <2>2. left # {}
    BY Zenon
  <2> QED
    BY <2>1, <2>2
<1> DEFINE less == {p \in Nat \X Nat : p[1] < p[2]}
<1>3. IsWellFoundedOn(less, Nat)
  BY NatLessThanWellFounded DEF OpToRel
<1>4. PICK x \in left : \A y \in left : ~(y < x)
  <2> HIDE DEF left
  <2>1. PICK x \in left : \A y \in left : <<y, x>> \notin less
    <3> HIDE DEF less
    <3> QED
      BY <1>2, <1>3, WFMin
  <2> QED
    BY <1>2, <2>1
<1>5. PICK d \in D : x = LastDay - d
  OBVIOUS
<1>6. \A e \in D : ~(LastDay - e < LastDay - d)
  BY <1>4, <1>5
<1> QED
  BY <1>1, <1>6

\* NewestOf is a date, or NULL.
LEMMA NewestType ==
  ASSUME NEW T \in SUBSET Triggers, occurredAt \in [Triggers -> Days]
  PROVE  NewestOf(T) \in When
<1> DEFINE D == {occurredAt[t] : t \in T}
<1>1. D \in SUBSET Days
  OBVIOUS
<1> HIDE DEF D
<1>2. CASE D = {}
  BY <1>2 DEF NewestOf, LatestOf, D
<1>3. CASE D # {}
  <2>1. \E d \in D : \A e \in D : e <= d
    BY <1>1, <1>3, LastOne
  <2>2. LatestOf(D) \in D
    BY <1>3, <2>1 DEF LatestOf
  <2> QED
    BY <1>1, <2>2 DEF NewestOf, D
<1> QED
  BY <1>2, <1>3

-----------------------------------------------------------------------------
(* Types *)

\* What the fields of a request hold.
LEMMA AskFields ==
  ASSUME NEW a \in Ask
  PROVE  /\ a.op = "create_trigger" => a.issue \in Issues /\ a.day \in Days
         /\ a.op = "update_trigger" => a.trigger \in Triggers /\ a.day \in Days
         /\ a.op = "delete_trigger" => a.trigger \in Triggers
         /\ a.op = "create_issue" => a.status \in IssueStatus
         /\ a.op = "update_issue" => a.issue \in Issues /\ a.status \in IssueStatus
         /\ a.op = "delete_issue" => a.issue \in Issues
         /\ a.op \in TriggerOps \cup {"create_issue", "update_issue", "delete_issue"}
  BY StatusAssumption DEF Ask

\* A request that is being served asks for something, and for ids that were stored once.
Served ==
  \A r \in Running :
    /\ ask[r] \in Ask
    /\ ask[r].op \in {"update_trigger", "delete_trigger"} => home[ask[r].trigger] # Never
    /\ ask[r].op \in {"create_trigger", "update_issue", "delete_issue"} =>
         ask[r].issue \in usedIssues

\* A trigger that is stored belongs to an issue.
Homes ==
  /\ \A t \in Triggers : home[t] \in usedIssues \cup {Never}
  /\ \A t \in triggers : home[t] # Never

TypeInv == TypeOK /\ Served /\ Homes

SessionOK ==
  /\ at \in [Requests -> {"idle", "find", "check", "list", "apply", "done"}]
  /\ ask \in [Requests -> Ask \cup {NoAsk}]
  /\ seen \in [Requests -> Row]
  /\ newest \in [Requests -> When]

\* No id is forgotten.
Remembers ==
  /\ usedIssues \subseteq usedIssues'
  /\ \A t \in Triggers : home[t] # Never => home'[t] = home[t]

\* Requests other than those that close keep what they ask for.
Serving == Running' \subseteq Running /\ \A s \in Running' : ask'[s] = ask[s]

LEMMA ServedStable ==
  ASSUME TypeInv, Remembers, Serving
  PROVE  Served'
  BY AskFields DEF TypeInv, Served, Remembers, Serving

LEMMA CloseType ==
  ASSUME TypeInv, NEW r \in Requests, Close(r)
  PROVE  SessionOK' /\ Serving
<1>1. NewRow("ongoing") \in Row
  BY DEF NewRow, Row
<1>2. SessionOK'
  BY <1>1 DEF Close, Goto, TypeInv, TypeOK, SessionOK
<1>3. Serving
  BY DEF Close, Goto, TypeInv, TypeOK, Running, Serving
<1> QED
  BY <1>2, <1>3

\* A step that leaves the tables alone.
LEMMA DeskKept ==
  ASSUME TypeInv, SessionOK', Serving, UNCHANGED <<now, desk, jobvars, raced>>
  PROVE  TypeInv'
<1>1. TypeOK'
  BY DEF TypeInv, TypeOK, SessionOK, desk, jobvars
<1>2. Remembers /\ Homes'
  BY DEF TypeInv, Homes, Remembers, desk
<1> QED
  BY <1>1, <1>2, ServedStable DEF TypeInv

\* The columns an UPDATE leaves are columns.
LEMMA WriteType ==
  ASSUME TypeInv, NEW i \in Issues, NEW old \in Row, NEW new \in Row, WriteRow(i, old, new)
  PROVE  row' \in [Issues -> Row]
<1>1. Flushed(i, old, new) \in Row
  BY DEF TypeInv, TypeOK, Flushed, Row
<1> QED
  BY <1>1 DEF TypeInv, TypeOK, WriteRow

LEMMA ApplyType ==
  ASSUME TypeInv, NEW r \in Requests, Apply(r)
  PROVE  TypeInv'
<1>1. SessionOK' /\ Serving
  BY CloseType DEF Apply
<1>2. ask[r] \in Ask /\ r \in Running /\ UNCHANGED <<now, jobvars, raced>>
  BY DEF Apply, TypeInv, Served, Running
<1>3. seen[r] \in Row /\ newest[r] \in When
  BY DEF TypeInv, TypeOK
<1> SUFFICES /\ issues' \in SUBSET usedIssues' /\ usedIssues' \in SUBSET Issues
             /\ row' \in [Issues -> Row]
             /\ triggers' \in SUBSET Triggers
             /\ home' \in [Triggers -> Issues \cup {Never}]
             /\ occurredAt' \in [Triggers -> Days]
             /\ Remembers /\ Homes'
  <2>1. TypeOK'
    BY <1>1, <1>2 DEF TypeInv, TypeOK, SessionOK, jobvars
  <2> QED
    BY <1>1, <2>1, ServedStable DEF TypeInv
<1>4. CASE CreateTrigger(r)
  <2>1. ask[r].issue \in usedIssues /\ ask[r].day \in Days
    BY <1>2, <1>4, AskFields DEF CreateTrigger, TypeInv, Served
  <2>2. [seen[r] EXCEPT !.latest = ask[r].day] \in Row
    BY <1>3, <2>1 DEF Row
  <2>3. row' \in [Issues -> Row]
    BY <1>3, <1>4, <2>1, <2>2, WriteType DEF CreateTrigger, TypeInv, TypeOK
  <2> QED
    BY <1>4, <2>1, <2>3, NeverAssumption
    DEF CreateTrigger, TypeInv, TypeOK, Homes, Remembers, UsedTriggers
<1>5. CASE UpdateTrigger(r)
  <2>1. ask[r].trigger \in Triggers /\ ask[r].day \in Days
    BY <1>2, <1>5, AskFields DEF UpdateTrigger
  <2> QED
    BY <1>5, <2>1 DEF UpdateTrigger, TypeInv, TypeOK, Homes, Remembers
<1>6. CASE DeleteTrigger(r)
  <2>1. About(ask[r]) \in Issues
    BY <1>2, <1>6, AskFields DEF DeleteTrigger, About, TypeInv, TypeOK, Served
  <2>2. [seen[r] EXCEPT !.latest = newest[r]] \in Row
    BY <1>3 DEF Row
  <2>3. row' \in [Issues -> Row]
    BY <1>3, <1>6, <2>1, <2>2, WriteType DEF DeleteTrigger
  <2> QED
    BY <1>6, <2>3 DEF DeleteTrigger, TypeInv, TypeOK, Homes, Remembers
<1>7. CASE CreateIssue(r)
  <2>1. NewRow(ask[r].status) \in Row
    BY <1>2, <1>7, AskFields DEF CreateIssue, NewRow, Row
  <2> QED
    BY <1>7, <2>1 DEF CreateIssue, TypeInv, TypeOK, Homes, Remembers
<1>8. CASE UpdateIssue(r)
  <2>1. ask[r].issue \in Issues /\ ask[r].status \in IssueStatus
    BY <1>2, <1>8, AskFields DEF UpdateIssue
  <2>2. [seen[r] EXCEPT !.status = ask[r].status] \in Row
    BY <1>3, <2>1 DEF Row
  <2>3. row' \in [Issues -> Row]
    BY <1>3, <1>8, <2>1, <2>2, WriteType DEF UpdateIssue
  <2> QED
    BY <1>8, <2>3 DEF UpdateIssue, TypeInv, TypeOK, Homes, Remembers
<1>9. CASE DeleteIssue(r)
  BY <1>9 DEF DeleteIssue, TypeInv, TypeOK, Homes, Remembers
<1> QED
  BY <1>4, <1>5, <1>6, <1>7, <1>8, <1>9 DEF Apply

\* Requests come, load and list.
LEMMA ArriveType ==
  ASSUME TypeInv, NEW r \in Requests, Arrive(r)
  PROVE  TypeInv'
<1>1. PICK a \in Ask :
        /\ "issue" \in DOMAIN a => a.issue \in usedIssues
        /\ "trigger" \in DOMAIN a => a.trigger \in UsedTriggers
        /\ ask' = [ask EXCEPT ![r] = a]
        /\ raced' = raced \cup
             {i \in {About(a)} : a.op \in TriggerOps /\
                \E s \in Running : ask[s].op \in TriggerOps /\ About(ask[s]) = i}
  BY DEF Arrive
<1>2. /\ a.op \in {"update_trigger", "delete_trigger"} =>
           home[a.trigger] \in Issues /\ home[a.trigger] # Never
      /\ a.op \in {"create_trigger", "update_issue", "delete_issue"} => a.issue \in usedIssues
  BY <1>1 DEF Ask, UsedTriggers, TypeInv, TypeOK
<1>3. raced' \in SUBSET Issues
  BY <1>1, <1>2 DEF About, TypeInv, TypeOK
<1>4. TypeOK'
  BY <1>1, <1>3 DEF Arrive, Goto, TypeInv, TypeOK, desk, jobvars
<1>5. Homes'
  BY DEF Arrive, TypeInv, Homes, desk
<1>6. Served'
  BY <1>1, <1>2 DEF Arrive, Goto, TypeInv, TypeOK, Served, Running, desk
<1> QED
  BY <1>4, <1>5, <1>6 DEF TypeInv

LEMMA ServeType ==
  ASSUME TypeInv, NEW r \in Requests, NotFound(r) \/ Find(r) \/ Check(r) \/ List(r)
                                        \/ FlushFails(r) \/ Abort(r)
  PROVE  TypeInv'
<1>1. CASE NotFound(r) \/ FlushFails(r) \/ Abort(r)
  BY <1>1, CloseType, DeskKept DEF NotFound, FlushFails, Abort
<1>2. CASE Find(r)
  <2>1. ask[r] \in Ask
    BY <1>2 DEF Find, TypeInv, Served, Running
  <2>2. (CASE ask[r].op \in {"create_trigger", "update_issue"} -> row[ask[r].issue]
           [] ask[r].op = "update_trigger" -> [seen[r] EXCEPT !.latest = occurredAt[ask[r].trigger]]
           [] OTHER -> seen[r]) \in Row
    BY <2>1, AskFields DEF TypeInv, TypeOK, Row
  <2>3. SessionOK' /\ Serving
    BY <1>2, <2>2 DEF Find, Goto, TypeInv, TypeOK, SessionOK, Running, Serving
  <2> QED
    BY <1>2, <2>3, DeskKept DEF Find
<1>3. CASE Check(r)
  <2>1. CASE About(ask[r]) \in issues
    <3>1. row[About(ask[r])] \in Row
      BY <2>1 DEF TypeInv, TypeOK
    <3>2. SessionOK' /\ Serving
      BY <1>3, <2>1, <3>1 DEF Check, Goto, TypeInv, TypeOK, SessionOK, Running, Serving
    <3> QED
      BY <1>3, <3>2, DeskKept DEF Check
  <2>2. CASE About(ask[r]) \notin issues
    BY <1>3, <2>2, CloseType, DeskKept DEF Check
  <2> QED
    BY <2>1, <2>2
<1>4. CASE List(r)
  <2>1. Rest(About(ask[r]), ask[r].trigger) \in SUBSET Triggers
    BY DEF Rest, Of, TypeInv, TypeOK
  <2>2. newest'[r] \in When /\ newest' \in [Requests -> When]
    BY <1>4, <2>1, NewestType DEF List, TypeInv, TypeOK
  <2>3. SessionOK' /\ Serving
    BY <1>4, <2>2 DEF List, Goto, TypeInv, TypeOK, SessionOK, Running, Serving
  <2> QED
    BY <1>4, <2>3, DeskKept DEF List
<1> QED
  BY <1>1, <1>2, <1>3, <1>4

LEMMA InitType == Init => TypeInv
<1> SUFFICES ASSUME Init PROVE TypeInv
  OBVIOUS
<1>1. TypeOK
  BY OldAssumption, DayAssumption DEF Init, TypeOK, Row, NewRow
<1>2. Served /\ Homes
  BY OldAssumption DEF Init, Served, Homes, Running
<1> QED
  BY <1>1, <1>2 DEF TypeInv

LEMMA NextType == TypeInv /\ [Next]_vars => TypeInv'
<1> SUFFICES ASSUME TypeInv, [Next]_vars PROVE TypeInv'
  OBVIOUS
<1>1. ASSUME NEW r \in Requests, Arrive(r) \/ Serve(r) \/ Abort(r) PROVE TypeInv'
  BY <1>1, ArriveType, ServeType, ApplyType DEF Serve
<1>2. CASE JobLoad
  BY <1>2, ServedStable DEF JobLoad, TypeInv, TypeOK, Homes, Served, Running, session, desk
<1>3. CASE JobSave
  <2>1. \A i \in Changed : Target(jobRow[i], jobDay) \in IssueStatus
    BY DEF Changed, Target, TypeInv, TypeOK, Row
  <2>2. row' \in [Issues -> Row]
    BY <1>3, <2>1 DEF JobSave, TypeInv, TypeOK, Row
  <2>3. TypeOK'
    BY <1>3, <2>2, DayAssumption DEF JobSave, TypeInv, TypeOK, session
  <2> QED
    BY <1>3, <2>3 DEF JobSave, TypeInv, Homes, Served, Running, session
<1>4. CASE Tick
  BY <1>4, DayAssumption DEF Tick, TypeInv, TypeOK, Homes, Served, Running, session, desk, jobvars
<1>5. CASE UNCHANGED vars
  BY <1>5 DEF vars, TypeInv, TypeOK, Homes, Served, Running, session, desk, jobvars
<1> QED
  BY <1>1, <1>2, <1>3, <1>4, <1>5 DEF Next, Reconcile

\* Every variable keeps its type: an issue never gets a status no enum has, whatever
\* the job computes from stale rows, and latest_trigger_at is a date or NULL.
THEOREM TypeCorrect == Spec => []TypeOK
<1>1. TypeInv => TypeOK
  BY DEF TypeInv
<1> QED
  BY InitType, NextType, <1>1, PTL DEF Spec

-----------------------------------------------------------------------------
(* Triggers and their issues *)

\* The foreign key of a new trigger, and the cascade of a deletion.
LEMMA NextNoOrphans == TypeInv /\ NoOrphanTriggers /\ [Next]_vars => NoOrphanTriggers'
<1> SUFFICES ASSUME TypeInv, NoOrphanTriggers, [Next]_vars PROVE NoOrphanTriggers'
  OBVIOUS
<1>1. CASE UNCHANGED <<issues, triggers, home>>
  BY <1>1 DEF NoOrphanTriggers
<1>2. ASSUME NEW r \in Requests, FlushSucceeds(r), CreateTrigger(r) PROVE NoOrphanTriggers'
  <2>1. ask[r].issue \in issues
    BY <1>2 DEF FlushSucceeds, CreateTrigger
  <2> QED
    BY <1>2, <2>1 DEF CreateTrigger, NoOrphanTriggers, TypeInv, TypeOK
<1>3. ASSUME NEW r \in Requests, UpdateTrigger(r) \/ DeleteTrigger(r) \/ CreateIssue(r) \/ UpdateIssue(r)
      PROVE  NoOrphanTriggers'
  BY <1>3 DEF UpdateTrigger, DeleteTrigger, CreateIssue, UpdateIssue, NoOrphanTriggers
<1>4. ASSUME NEW r \in Requests, DeleteIssue(r) PROVE NoOrphanTriggers'
  BY <1>4 DEF DeleteIssue, NoOrphanTriggers, Of
<1>5. ASSUME NEW r \in Requests, Apply(r) PROVE NoOrphanTriggers'
  BY <1>2, <1>3, <1>4, <1>5 DEF Apply
<1>6. CASE \E r \in Requests : Arrive(r) \/ NotFound(r) \/ Find(r) \/ Check(r) \/ List(r)
                                \/ FlushFails(r) \/ Abort(r)
  BY <1>1, <1>6 DEF Arrive, NotFound, Find, Check, List, FlushFails, Abort, desk
<1>7. CASE Reconcile \/ Tick \/ UNCHANGED vars
  BY <1>1, <1>7 DEF Reconcile, JobLoad, JobSave, Tick, vars, desk
<1> QED
  BY <1>5, <1>6, <1>7 DEF Next, Serve

\* However requests overlap, no trigger outlives its issue.
THEOREM NothingOrphaned == Spec => []NoOrphanTriggers
<1>1. Init => NoOrphanTriggers
  BY OldAssumption DEF Init, NoOrphanTriggers
<1> QED
  BY InitType, NextType, <1>1, NextNoOrphans, PTL DEF Spec

-----------------------------------------------------------------------------
(* What a deletion writes *)

On(r, i) == ask[r].op \in TriggerOps /\ About(ask[r]) = i

\* Two trigger requests on one issue are noticed.
RacesSeen ==
  \A r, s \in Running : \A i \in Issues : r # s /\ On(r, i) /\ On(s, i) => i \in raced

Deleting(r, i) == r \in Running /\ ask[r].op = "delete_trigger" /\ About(ask[r]) = i

RestDays(i, t) == {occurredAt[u] : u \in Rest(i, t)}

\* What delete_trigger has read is still so: the issue's latest_trigger_at, and the
\* newest trigger of the rest.
Fresh(r, i) ==
  /\ at[r] \in {"list", "apply"} => seen[r].latest = row[i].latest
  /\ at[r] = "apply" => newest[r] = LatestOf(RestDays(i, ask[r].trigger))

\* This is so unless another trigger request is at work on the issue.
ReadIsFresh ==
  \A r \in Requests : \A i \in issues : i \notin raced /\ Deleting(r, i) => Fresh(r, i)

FreshInv == TypeInv /\ RacesSeen /\ ReadIsFresh

\* What a request is about is settled when it arrives.
LEMMA AboutKept ==
  ASSUME TypeInv, Remembers, NEW s \in Running, ask'[s] = ask[s]
  PROVE  /\ ask[s].op \in TriggerOps => About(ask[s]) \in usedIssues
         /\ ask[s].op \in TriggerOps => About(ask[s])' = About(ask[s])
<1>1. ask[s] \in Ask
  BY DEF TypeInv, Served
<1>2. ask[s].op \in {"update_trigger", "delete_trigger"} =>
        /\ home[ask[s].trigger] \in usedIssues
        /\ home'[ask[s].trigger] = home[ask[s].trigger]
  BY <1>1, AskFields DEF TypeInv, Homes, Served, Remembers
<1> QED
  BY <1>1, <1>2, AskFields DEF About, TypeInv, Served

LEMMA RacesStaySeen ==
  ASSUME TypeInv, RacesSeen, Remembers, Serving, raced' = raced
  PROVE  RacesSeen'
<1>1. \A s \in Running' : s \in Running /\ ask'[s] = ask[s]
  BY DEF Serving
<1>2. \A s \in Running' : ask[s].op \in TriggerOps => About(ask[s])' = About(ask[s])
  BY <1>1, AboutKept
<1>3. ASSUME NEW s \in Running', NEW i \in Issues, On(s, i)' PROVE s \in Running /\ On(s, i)
  BY <1>1, <1>2, <1>3 DEF On
<1> QED
  BY <1>3 DEF RacesSeen

\* A step that changes neither what the request read nor what it is compared with.
LEMMA StaysFresh ==
  ASSUME FreshInv, Remembers, NEW s \in Running, ask'[s] = ask[s], NEW i \in issues, i \notin raced,
         Deleting(s, i)', at'[s] = at[s], seen'[s] = seen[s], newest'[s] = newest[s],
         row'[i].latest = row[i].latest,
         RestDays(i, ask[s].trigger)' = RestDays(i, ask[s].trigger)
  PROVE  Fresh(s, i)'
<1>1. Deleting(s, i)
  BY AboutKept DEF FreshInv, Deleting
<1>2. s \in Requests
  BY DEF Running
<1>3. Fresh(s, i)
  BY <1>1, <1>2 DEF FreshInv, ReadIsFresh
<1> QED
  BY <1>3 DEF Fresh

\* What a new trigger, a moved one or one less means for the rest of another issue.
LEMMA RestKept ==
  ASSUME TypeInv, Remembers, NEW s \in Running, ask'[s] = ask[s], NEW i \in issues, Deleting(s, i)',
         \A u \in Triggers : home[u] = i => (u \in triggers' <=> u \in triggers),
         \A u \in triggers : home[u] = i => occurredAt'[u] = occurredAt[u],
         \A u \in triggers' \ triggers : home'[u] # i,
         triggers' \subseteq Triggers
  PROVE  RestDays(i, ask[s].trigger)' = RestDays(i, ask[s].trigger)
<1>1. \A u \in triggers : home'[u] = home[u]
  BY DEF Remembers, TypeInv, TypeOK, Homes
<1>2. Of(i)' = Of(i)
  BY <1>1 DEF Of, TypeInv, TypeOK
<1>3. \A u \in Of(i) : occurredAt'[u] = occurredAt[u]
  BY DEF Of
<1>4. Rest(i, ask[s].trigger)' = Rest(i, ask[s].trigger) /\ Rest(i, ask[s].trigger) \subseteq Of(i)
  BY <1>2 DEF Rest
<1> QED
  BY <1>3, <1>4 DEF RestDays

\* A commit.
LEMMA ApplyFresh ==
  ASSUME FreshInv, NEW r \in Requests, Apply(r)
  PROVE  ReadIsFresh' /\ RacesSeen'
<1>1. SessionOK' /\ Serving /\ r \notin Running'
  BY CloseType DEF Apply, Close, Goto, FreshInv, TypeInv, TypeOK, Running
<1>2. ask[r] \in Ask /\ r \in Running /\ raced' = raced /\ TypeInv /\ RacesSeen
  BY DEF Apply, FreshInv, TypeInv, Served, Running
<1>3. TypeInv'
  BY <1>2, ApplyType
<1>4. Remembers
  BY <1>2 DEF Apply, CreateTrigger, UpdateTrigger, DeleteTrigger, CreateIssue, UpdateIssue,
              DeleteIssue, Remembers, UsedTriggers, TypeInv, TypeOK
<1>5. RacesSeen'
  BY <1>1, <1>2, <1>4, RacesStaySeen
<1> SUFFICES ASSUME NEW s \in Requests, NEW i \in issues', i \notin raced, Deleting(s, i)'
             PROVE  Fresh(s, i)'
  BY <1>2, <1>5 DEF ReadIsFresh
<1>6. s \in Running /\ s # r /\ ask'[s] = ask[s]
  BY <1>1 DEF Deleting, Serving
<1>7. at'[s] = at[s] /\ seen'[s] = seen[s] /\ newest'[s] = newest[s]
  BY <1>6 DEF Apply, Close, Goto, FreshInv, TypeInv, TypeOK
<1>8. i \in usedIssues /\ On(s, i)
  BY <1>2, <1>4, <1>6, AboutKept DEF Deleting, On
<1>9. i \in issues /\ i \in Issues
  BY <1>2, <1>8 DEF Apply, CreateTrigger, UpdateTrigger, DeleteTrigger, CreateIssue, UpdateIssue,
                    DeleteIssue, TypeInv, TypeOK
<1>10. ~On(r, i)
  BY <1>2, <1>6, <1>8, <1>9 DEF RacesSeen
<1>11. /\ row'[i].latest = row[i].latest
       /\ \A u \in Triggers : home[u] = i => (u \in triggers' <=> u \in triggers)
       /\ \A u \in triggers : home[u] = i => occurredAt'[u] = occurredAt[u]
       /\ \A u \in triggers' \ triggers : home'[u] # i
  <2>1. CASE CreateTrigger(r)
    <3>1. ask[r].issue # i
      BY <1>10, <2>1 DEF CreateTrigger, On, About
    <3>2. row'[i] = row[i]
      BY <1>2, <1>9, <2>1, <3>1 DEF CreateTrigger, WriteRow, TypeInv, TypeOK
    <3> QED
      BY <1>2, <1>9, <2>1, <3>1, <3>2, NeverAssumption
      DEF CreateTrigger, UsedTriggers, TypeInv, TypeOK, Homes
  <2>2. CASE UpdateTrigger(r)
    <3>1. home[ask[r].trigger] # i
      BY <1>10, <2>2 DEF UpdateTrigger, On, About
    <3> QED
      BY <1>2, <2>2, <3>1 DEF UpdateTrigger, TypeInv, TypeOK
  <2>3. CASE DeleteTrigger(r)
    <3>1. home[ask[r].trigger] # i
      BY <1>10, <2>3 DEF DeleteTrigger, On, About
    <3>2. row'[i] = row[i]
      BY <1>2, <1>9, <2>3, <3>1 DEF DeleteTrigger, WriteRow, About, TypeInv, TypeOK
    <3> QED
      BY <2>3, <3>1, <3>2 DEF DeleteTrigger
  <2>4. CASE CreateIssue(r)
    BY <1>2, <1>8, <1>9, <2>4 DEF CreateIssue, TypeInv, TypeOK
  <2>5. CASE UpdateIssue(r)
    <3>1. seen[r] \in Row /\ ask[r].issue \in Issues
      BY <1>2, <2>5, AskFields DEF UpdateIssue, TypeInv, TypeOK
    <3>2. Flushed(i, seen[r], [seen[r] EXCEPT !.status = ask[r].status]).latest = row[i].latest
      BY <1>2, <1>9, <3>1 DEF Flushed, Row, TypeInv, TypeOK
    <3>3. row'[i].latest = row[i].latest
      BY <1>2, <1>9, <2>5, <3>1, <3>2 DEF UpdateIssue, WriteRow, TypeInv, TypeOK
    <3> QED
      BY <2>5, <3>3 DEF UpdateIssue
  <2>6. CASE DeleteIssue(r)
    BY <1>9, <2>6 DEF DeleteIssue, Of
  <2> QED
    BY <2>1, <2>2, <2>3, <2>4, <2>5, <2>6 DEF Apply
<1>12. RestDays(i, ask[s].trigger)' = RestDays(i, ask[s].trigger)
  BY <1>2, <1>3, <1>4, <1>6, <1>9, <1>11, RestKept DEF TypeInv, TypeOK
<1> QED
  BY <1>4, <1>6, <1>7, <1>9, <1>11, <1>12, StaysFresh

\* A step of one request before its commit, or of one that closes.
LEMMA ServeFresh ==
  ASSUME FreshInv, NEW r \in Requests,
         Arrive(r) \/ NotFound(r) \/ Find(r) \/ Check(r) \/ List(r) \/ FlushFails(r) \/ Abort(r)
  PROVE  ReadIsFresh' /\ RacesSeen'
<1>1. /\ TypeInv /\ RacesSeen /\ UNCHANGED desk /\ Remembers
      /\ \A s \in Requests : s # r => /\ at'[s] = at[s] /\ ask'[s] = ask[s]
                                      /\ seen'[s] = seen[s] /\ newest'[s] = newest[s]
  BY DEF FreshInv, TypeInv, TypeOK, Arrive, NotFound, Find, Check, List, FlushFails, Abort, Close,
         Goto, desk, Remembers
<1>2. raced \subseteq raced' /\ RacesSeen'
  <2>1. CASE Arrive(r)
    <3>1. PICK a \in Ask :
            /\ ask' = [ask EXCEPT ![r] = a]
            /\ raced' = raced \cup
                 {i \in {About(a)} : a.op \in TriggerOps /\
                    \E s \in Running : ask[s].op \in TriggerOps /\ About(ask[s]) = i}
      BY <2>1 DEF Arrive
    <3>2. Running' = Running \cup {r} /\ r \notin Running /\ ask'[r] = a
      BY <1>1, <2>1, <3>1 DEF Arrive, Goto, Running, TypeInv, TypeOK
    <3>3. home' = home
      BY <1>1 DEF desk
    <3>4. \A s \in Running, i \in Issues : ask'[s] = ask[s] /\ (On(s, i)' => On(s, i))
      BY <1>1, <3>2, <3>3 DEF On, About, Running
    <3>5. \A i \in Issues : On(r, i)' => a.op \in TriggerOps /\ About(a) = i
      BY <3>2, <3>3 DEF On, About
    <3>6. \A s \in Running, i \in Issues : On(r, i)' /\ On(s, i)' => i \in raced'
      BY <3>1, <3>4, <3>5 DEF On
    <3> QED
      BY <1>1, <3>1, <3>2, <3>4, <3>6 DEF RacesSeen
  <2>2. CASE ~Arrive(r)
    <3>1. raced' = raced /\ Serving
      BY <1>1, <2>2, CloseType
      DEF NotFound, Find, Check, List, FlushFails, Abort, Goto, Running, Serving, TypeInv, TypeOK
    <3> QED
      BY <1>1, <3>1, RacesStaySeen
  <2> QED
    BY <2>1, <2>2
<1> SUFFICES ASSUME NEW s \in Requests, NEW i \in issues', i \notin raced', Deleting(s, i)'
             PROVE  Fresh(s, i)'
  BY <1>2 DEF ReadIsFresh
<1>3. i \in issues /\ i \in Issues /\ i \notin raced
  BY <1>1, <1>2 DEF desk, TypeInv, TypeOK
<1>4. CASE s # r
  <2>1. s \in Running /\ ask'[s] = ask[s]
    BY <1>1, <1>4 DEF Deleting, Running
  <2>2. RestDays(i, ask[s].trigger)' = RestDays(i, ask[s].trigger) /\ row'[i].latest = row[i].latest
    BY <1>1, <2>1 DEF RestDays, Rest, Of, desk
  <2> QED
    BY <1>1, <1>3, <1>4, <2>1, <2>2, StaysFresh
<1>5. CASE s = r
  <2>1. CASE Arrive(r) \/ NotFound(r) \/ FlushFails(r) \/ Abort(r)
    BY <1>1, <1>5, <2>1
    DEF Arrive, NotFound, FlushFails, Abort, Close, Goto, Fresh, TypeInv, TypeOK
  <2>2. CASE Find(r)
    BY <1>1, <1>5, <2>2 DEF Find, Goto, Deleting, Fresh, TypeInv, TypeOK
  <2>3. CASE Check(r)
    <3>1. About(ask[r]) \in issues /\ ask' = ask /\ at'[r] = "list" /\ seen'[r] = row[About(ask[r])]
      BY <1>1, <1>5, <2>3 DEF Check, Close, Goto, Deleting, Running, TypeInv, TypeOK
    <3>2. About(ask[r]) = i /\ row' = row
      BY <1>1, <1>5, <3>1 DEF Deleting, About, desk
    <3> QED
      BY <1>5, <3>1, <3>2 DEF Fresh
  <2>4. CASE List(r)
    <3>1. ask' = ask /\ at[r] = "list" /\ seen' = seen /\ UNCHANGED desk
      BY <2>4 DEF List, Goto
    <3>2. Deleting(r, i)
      BY <1>5, <3>1 DEF Deleting, Running, About, desk
    <3>3. seen'[r].latest = row'[i].latest
      BY <1>3, <3>1, <3>2 DEF FreshInv, ReadIsFresh, Fresh, desk
    <3>4. newest'[r] = LatestOf(RestDays(i, ask[r].trigger))
      <4>1. newest'[r] = NewestOf(Rest(About(ask[r]), ask[r].trigger))
        BY <1>1, <2>4 DEF List, TypeInv, TypeOK
      <4>2. About(ask[r]) = i
        BY <3>2 DEF Deleting
      <4> QED
        BY <4>1, <4>2 DEF NewestOf, RestDays
    <3>5. RestDays(i, ask[r].trigger)' = RestDays(i, ask[r].trigger)
      BY <3>1 DEF RestDays, Rest, Of, desk
    <3> QED
      BY <1>5, <3>3, <3>4, <3>5 DEF Fresh
  <2> QED
    BY <2>1, <2>2, <2>3, <2>4
<1> QED
  BY <1>4, <1>5

\* A run of the job writes statuses only.
LEMMA JobFresh ==
  ASSUME FreshInv, JobSave
  PROVE  ReadIsFresh' /\ RacesSeen'
<1>1. TypeInv /\ RacesSeen /\ UNCHANGED <<session, issues, usedIssues, triggers, home, occurredAt, raced>>
  BY DEF FreshInv, JobSave
<1>2. Remembers /\ Serving
  BY <1>1 DEF Remembers, Serving, Running, session
<1>3. \A i \in Issues : row'[i].latest = row[i].latest
  BY <1>1 DEF JobSave, TypeInv, TypeOK, Row
<1>4. ASSUME NEW s \in Requests, NEW i \in issues', i \notin raced, Deleting(s, i)'
      PROVE  Fresh(s, i)'
  <2>1. s \in Running /\ ask'[s] = ask[s] /\ i \in issues /\ i \in Issues
    BY <1>1, <1>4 DEF Deleting, Running, session, TypeInv, TypeOK
  <2>2. RestDays(i, ask[s].trigger)' = RestDays(i, ask[s].trigger)
    BY <1>1 DEF RestDays, Rest, Of, session
  <2>3. at'[s] = at[s] /\ seen'[s] = seen[s] /\ newest'[s] = newest[s]
    BY <1>1 DEF session
  <2> QED
    BY <1>2, <1>3, <1>4, <2>1, <2>2, <2>3, StaysFresh
<1> QED
  BY <1>1, <1>2, <1>4, RacesStaySeen DEF ReadIsFresh

LEMMA NextFresh == FreshInv /\ [Next]_vars => FreshInv'
<1> SUFFICES ASSUME FreshInv, [Next]_vars PROVE ReadIsFresh' /\ RacesSeen'
  BY NextType DEF FreshInv
<1>1. CASE UNCHANGED <<session, desk, raced>>
  <2>1. UNCHANGED <<at, ask, seen, newest, issues, usedIssues, row, triggers, home, occurredAt, raced>>
    BY <1>1 DEF session, desk
  <2>2. RacesSeen'
    BY <2>1 DEF FreshInv, RacesSeen, Running, On, About
  <2>3. ASSUME NEW s \in Requests, NEW i \in issues', i \notin raced, Deleting(s, i)'
        PROVE  Fresh(s, i)'
    <3>1. Deleting(s, i) /\ i \in issues
      BY <2>1, <2>3 DEF Deleting, Running, About
    <3>2. Fresh(s, i)
      BY <2>3, <3>1 DEF FreshInv, ReadIsFresh
    <3>3. RestDays(i, ask[s].trigger)' = RestDays(i, ask[s].trigger)
      BY <2>1 DEF RestDays, Rest, Of
    <3> QED
      BY <2>1, <3>2, <3>3 DEF Fresh
  <2> QED
    BY <2>1, <2>2, <2>3 DEF ReadIsFresh
<1>2. CASE JobLoad \/ Tick \/ UNCHANGED vars
  BY <1>1, <1>2 DEF JobLoad, Tick, vars
<1> QED
  BY <1>2, ApplyFresh, ServeFresh, JobFresh DEF Next, Serve, Reconcile

LEMMA InitFresh == Init => FreshInv
  BY InitType DEF Init, FreshInv, RacesSeen, ReadIsFresh, Deleting, Running

\* A commit of delete_trigger writes the date of the newest trigger left.
LEMMA DeletionStep ==
  ASSUME FreshInv, [Next]_vars, NEW t \in triggers \ triggers', home[t] \in issues' \ raced
  PROVE  row'[home[t]].latest = NewestOf(Of(home[t]))'
<1>1. TypeInv
  BY DEF FreshInv
<1>2. PICK r \in Requests : Apply(r)
  BY DEF Next, Serve, Arrive, NotFound, Find, Check, List, FlushFails, Abort, Reconcile, JobLoad,
         JobSave, Tick, vars, desk
<1>3. DeleteTrigger(r) /\ t = ask[r].trigger
  BY <1>1, <1>2 DEF Apply, CreateTrigger, UpdateTrigger, DeleteTrigger, CreateIssue, UpdateIssue,
              DeleteIssue, Of
<1> DEFINE i == home[t]
<1>4. /\ i \in issues /\ i \in Issues /\ i \notin raced /\ About(ask[r]) = i /\ Deleting(r, i)
      /\ at[r] = "apply"
  BY <1>1, <1>2, <1>3 DEF Apply, DeleteTrigger, About, Deleting, Running, TypeInv, TypeOK
<1>5. seen[r].latest = row[i].latest /\ newest[r] = LatestOf(RestDays(i, t))
  BY <1>3, <1>4 DEF FreshInv, ReadIsFresh, Fresh
<1>6. seen[r] \in Row /\ row[i] \in Row
  BY <1>1, <1>4 DEF TypeInv, TypeOK
<1>7. Flushed(i, seen[r], [seen[r] EXCEPT !.latest = newest[r]]).latest = newest[r]
  BY <1>5, <1>6 DEF Flushed, Row
<1>8. row'[i].latest = newest[r]
  BY <1>1, <1>3, <1>4, <1>7 DEF DeleteTrigger, WriteRow, TypeInv, TypeOK
<1>9. Of(i)' = Rest(i, t) /\ occurredAt' = occurredAt
  BY <1>3 DEF DeleteTrigger, Of, Rest
<1>10. NewestOf(Of(i))' = LatestOf(RestDays(i, t))
  BY <1>9 DEF NewestOf, RestDays
<1> QED
  BY <1>5, <1>8, <1>10

\* After a trigger is deleted, latest_trigger_at is the date of the newest trigger left,
\* although the request computed it from what it had read before its commit; unless two
\* trigger requests on the issue were in flight at the same time.
THEOREM DeletionRefreshes == Spec => DeleteRefreshes
<1>1. FreshInv /\ [Next]_vars =>
        [\A t \in triggers \ triggers' :
           home[t] \in issues' \ raced => row'[home[t]].latest = NewestOf(Of(home[t]))']_vars
  BY DeletionStep
<1> QED
  BY InitFresh, NextFresh, <1>1, PTL DEF Spec, DeleteRefreshes
=============================================================================
