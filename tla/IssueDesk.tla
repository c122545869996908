----------------------------- MODULE IssueDesk ------------------------------
(***************************************************************************)
(* Issues, their triggers and their status: the admin requests of          *)
(* api/v1/issues.py and api/v1/triggers.py (with crud/issues.py,           *)
(* sql/issues.py and sql/triggers.py under src/src), and the job           *)
(* reconcile_issue_status (scheduler/jobs/issue_jobs.py).                  *)
(*                                                                         *)
(* A request is one transaction in READ COMMITTED that loads its rows,     *)
(* then flushes and commits; a flush writes the columns that differ from   *)
(* what was loaded, and fails when the row is gone. One tick of the clock  *)
(* stands for the time after which statuses change.                        *)
(***************************************************************************)
EXTENDS Integers, FiniteSets

CONSTANTS
  Issues,        \* ids of the issues ever created
  Triggers,      \* ids of the triggers ever created
  Requests,      \* requests the API serves, one each
  OldIssues,     \* issues that exist at the start
  OldTriggers,   \* triggers that exist at the start
  Statuses,      \* statuses an admin gives
  Never,         \* NULL
  CloseAfter,    \* ticks without a trigger after which an issue is closed (30 days)
  ReigniteIn,    \* ticks within which a trigger reignites an issue (7 days)
  LastDay,       \* bound: the last tick of the model
  MaxOverlap     \* how many requests are served at the same time

IssueStatus == {"ongoing", "closed", "reignited", "unverified"}

ASSUME OldAssumption     == OldIssues \subseteq Issues /\ OldTriggers \subseteq Triggers
ASSUME FiniteAssumption  == IsFiniteSet(Issues) /\ IsFiniteSet(Triggers) /\ IsFiniteSet(Requests)
ASSUME StatusAssumption  == Statuses \subseteq IssueStatus
ASSUME DayAssumption     == CloseAfter \in Nat /\ ReigniteIn \in 0..CloseAfter /\ LastDay \in Nat
ASSUME NeverAssumption   == Never \notin Int /\ Never \notin Issues
ASSUME OverlapAssumption == MaxOverlap \in Nat \ {0}

VARIABLES
  now,         \* the time
  at,          \* request -> how far it has come
  ask,         \* request -> what it asks for
  seen,        \* request -> the columns of the issue it loaded (the date of the trigger)
  newest,      \* request -> the newest trigger delete_trigger listed
  issues,      \* issues that exist
  usedIssues,  \* issue ids ever stored
  row,         \* issue -> its columns status and latest_trigger_at
  triggers,    \* triggers that exist
  home,        \* trigger -> its issue, once stored
  occurredAt,  \* trigger -> its occurred_at
  job,         \* how far the reconcile job has come
  jobDay,      \* the time it started
  jobSeen,     \* the issues it loaded
  jobRow,      \* their columns
  raced        \* history: issues on which two trigger requests were in flight at once

session == <<at, ask, seen, newest>>
desk    == <<issues, usedIssues, row, triggers, home, occurredAt>>
jobvars == <<job, jobDay, jobSeen, jobRow>>
vars    == <<now, session, desk, jobvars, raced>>

Days == 0..LastDay
When == Days \cup {Never}

Row == [status : IssueStatus, latest : When]
NewRow(s) == [status |-> s, latest |-> Never]

TriggerOps == {"create_trigger", "update_trigger", "delete_trigger"}

Ask ==
       [op : {"create_trigger"}, issue : Issues, day : Days]
  \cup [op : {"update_trigger"}, trigger : Triggers, day : Days]
  \cup [op : {"delete_trigger"}, trigger : Triggers]
  \cup [op : {"create_issue"}, status : Statuses]
  \cup [op : {"update_issue"}, issue : Issues, status : Statuses]
  \cup [op : {"delete_issue"}, issue : Issues]

NoAsk == [op |-> "none"]

Running == {r \in Requests : at[r] \in {"find", "check", "list", "apply"}}

Of(i) == {t \in triggers : home[t] = i}

\* The issue a request is about (Never: none).
About(a) ==
  CASE a.op \in {"update_trigger", "delete_trigger"}                 -> home[a.trigger]
    [] a.op \in {"create_trigger", "update_issue", "delete_issue"} -> a.issue
    [] OTHER                                                         -> Never

\* The latest of a set of days.
LatestOf(D) == IF D = {} THEN Never ELSE CHOOSE d \in D : \A e \in D : e <= d

\* occurred_at of the first row of list_triggers, which sorts the newest first.
NewestOf(T) == LatestOf({occurredAt[t] : t \in T})

-----------------------------------------------------------------------------
(* A request, up to its commit *)

Init ==
  /\ now = 0
  /\ at = [r \in Requests |-> "idle"]
  /\ ask = [r \in Requests |-> NoAsk]
  /\ seen = [r \in Requests |-> NewRow("ongoing")]
  /\ newest = [r \in Requests |-> Never]
  /\ issues = OldIssues
  /\ usedIssues = OldIssues
  /\ triggers = OldTriggers
  /\ home \in [Triggers -> OldIssues \cup {Never}]
  /\ \A t \in Triggers : home[t] = Never <=> t \notin OldTriggers
  /\ occurredAt = [t \in Triggers |-> 0]
  /\ row = [i \in Issues |-> [status |-> "ongoing",
                              latest |-> IF \E t \in OldTriggers : home[t] = i THEN 0 ELSE Never]]
  /\ job = "idle"
  /\ jobDay = 0
  /\ jobSeen = {}
  /\ jobRow = row
  /\ raced = {}

Goto(r, stage) == at' = [at EXCEPT ![r] = stage]

\* The session is closed; what it loaded is forgotten.
Close(r) ==
  /\ Goto(r, "done")
  /\ ask' = [ask EXCEPT ![r] = NoAsk]
  /\ seen' = [seen EXCEPT ![r] = NewRow("ongoing")]
  /\ newest' = [newest EXCEPT ![r] = Never]

\* Bound: an id is left for every request that may need one.
IdLeft(op, taken, ids) ==
  Cardinality(taken) + Cardinality({r \in Running : ask[r].op = op}) < Cardinality(ids)

UsedTriggers == {t \in Triggers : home[t] # Never}

\* A request arrives; ids are known once they were stored, and a trigger is dated
\* on any day up to today.
Arrive(r) ==
  /\ at[r] = "idle"
  /\ Cardinality(Running) < MaxOverlap
  /\ \E a \in Ask :
       /\ "issue" \in DOMAIN a => a.issue \in usedIssues
       /\ "trigger" \in DOMAIN a => a.trigger \in UsedTriggers
       /\ "day" \in DOMAIN a => a.day <= now
       /\ a.op = "create_trigger" => IdLeft("create_trigger", UsedTriggers, Triggers)
       /\ a.op = "create_issue" => IdLeft("create_issue", usedIssues, Issues)
       /\ ask' = [ask EXCEPT ![r] = a]
       /\ raced' = raced \cup
            {i \in {About(a)} : a.op \in TriggerOps /\
               \E s \in Running : ask[s].op \in TriggerOps /\ About(ask[s]) = i}
  /\ Goto(r, "find")
  /\ UNCHANGED <<now, seen, newest, desk, jobvars>>

\* What the first SELECT looks for is there.
Found(r) ==
  LET a == ask[r]
  IN  CASE a.op \in {"update_trigger", "delete_trigger"} -> a.trigger \in triggers
        [] a.op = "create_issue"                          -> TRUE
        [] OTHER                                          -> a.issue \in issues

\* 404.
NotFound(r) ==
  /\ at[r] = "find"
  /\ ~Found(r)
  /\ Close(r)
  /\ UNCHANGED <<now, desk, jobvars, raced>>

\* The first SELECT loads the issue, or the trigger of update_trigger and
\* delete_trigger (which needs none of its columns but the issue's id).
Find(r) ==
  /\ at[r] = "find"
  /\ Found(r)
  /\ seen' = [seen EXCEPT ![r] =
       CASE ask[r].op \in {"create_trigger", "update_issue"} -> row[ask[r].issue]
         [] ask[r].op = "update_trigger" -> [@ EXCEPT !.latest = occurredAt[ask[r].trigger]]
         [] OTHER -> @]
  /\ Goto(r, IF ask[r].op = "delete_trigger" THEN "check" ELSE "apply")
  /\ UNCHANGED <<now, ask, newest, desk, jobvars, raced>>

\* delete_trigger loads the issue, unless it is gone, and the trigger with it.
Check(r) ==
  /\ at[r] = "check"
  /\ LET i == About(ask[r])
     IN  IF i \in issues
           THEN /\ seen' = [seen EXCEPT ![r] = row[i]]
                /\ Goto(r, "list")
                /\ UNCHANGED <<ask, newest>>
           ELSE Close(r)
  /\ UNCHANGED <<now, desk, jobvars, raced>>

\* The trigger row is locked by another transaction that has deleted it and not
\* committed yet.
Locked(r, t) ==
  \E s \in Requests \ {r} :
    at[s] = "apply" /\ ask[s].op = "delete_trigger" /\ ask[s].trigger = t

\* Mutant of Rest: the DELETE has not been flushed when the triggers are listed.
RestWithIt(i, t) == Of(i)

\* The triggers of i that a transaction sees after it deleted t.
Rest(i, t) == Of(i) \ {t}

\* delete_trigger flushes the DELETE and lists what is left; both see the rows
\* committed by now. No row to delete is only a warning.
List(r) ==
  /\ at[r] = "list"
  /\ ~Locked(r, ask[r].trigger)
  /\ newest' = [newest EXCEPT ![r] = NewestOf(Rest(About(ask[r]), ask[r].trigger))]
  /\ Goto(r, "apply")
  /\ UNCHANGED <<now, ask, seen, desk, jobvars, raced>>

-----------------------------------------------------------------------------
(* The commits *)

\* The columns after the UPDATE, which names those that were changed.
Flushed(i, old, new) ==
  [f \in DOMAIN new |-> IF new[f] # old[f] THEN new[f] ELSE row[i][f]]

WriteRow(i, old, new) == row' = [row EXCEPT ![i] = Flushed(i, old, new)]

\* The rows an UPDATE or a foreign key of the request needs.
FlushSucceeds(r) ==
  LET a == ask[r]
  IN  CASE a.op \in {"create_trigger", "update_issue"} -> a.issue \in issues
        [] a.op = "update_trigger"                       -> a.trigger \in triggers
        [] a.op = "delete_trigger"                       ->
             newest[r] # seen[r].latest => About(a) \in issues
        [] OTHER                                         -> TRUE

\* The update waits for a trigger that is being deleted, the deletion of an issue
\* for every trigger of the issue that is.
Waits(r) ==
  LET a == ask[r]
  IN  \/ a.op = "update_trigger" /\ Locked(r, a.trigger)
      \/ a.op = "delete_issue" /\ \E t \in Of(a.issue) : Locked(r, t)

\* 409 or 500, and rollback.
FlushFails(r) ==
  /\ at[r] = "apply"
  /\ ~Waits(r)
  /\ ~FlushSucceeds(r)
  /\ Close(r)
  /\ UNCHANGED <<now, desk, jobvars, raced>>

\* The request dies, or is the victim of a deadlock: nothing is written.
Abort(r) ==
  /\ r \in Running
  /\ Close(r)
  /\ UNCHANGED <<now, desk, jobvars, raced>>

\* The new trigger's date becomes latest_trigger_at, whatever it was.
CreateTrigger(r) ==
  LET a == ask[r]
  IN  /\ a.op = "create_trigger"
      /\ \E t \in Triggers \ UsedTriggers :
           /\ triggers' = triggers \cup {t}
           /\ home' = [home EXCEPT ![t] = a.issue]
           /\ occurredAt' = [occurredAt EXCEPT ![t] = a.day]
      /\ WriteRow(a.issue, seen[r], [seen[r] EXCEPT !.latest = a.day])
      /\ UNCHANGED <<issues, usedIssues>>

\* update_trigger leaves the issue alone. A request without a date is one with the
\* date it loaded.
UpdateTrigger(r) ==
  /\ ask[r].op = "update_trigger"
  /\ occurredAt' = [occurredAt EXCEPT ![ask[r].trigger] =
                      IF ask[r].day # seen[r].latest THEN ask[r].day ELSE @]
  /\ UNCHANGED <<issues, usedIssues, row, triggers, home>>

DeleteTrigger(r) ==
  LET i == About(ask[r])
  IN  /\ ask[r].op = "delete_trigger"
      /\ triggers' = triggers \ {ask[r].trigger}
      /\ WriteRow(i, seen[r], [seen[r] EXCEPT !.latest = newest[r]])
      /\ UNCHANGED <<issues, usedIssues, home, occurredAt>>

CreateIssue(r) ==
  /\ ask[r].op = "create_issue"
  /\ \E i \in Issues \ usedIssues :
       /\ issues' = issues \cup {i}
       /\ usedIssues' = usedIssues \cup {i}
       /\ row' = [row EXCEPT ![i] = NewRow(ask[r].status)]
  /\ UNCHANGED <<triggers, home, occurredAt>>

UpdateIssue(r) ==
  /\ ask[r].op = "update_issue"
  /\ WriteRow(ask[r].issue, seen[r], [seen[r] EXCEPT !.status = ask[r].status])
  /\ UNCHANGED <<issues, usedIssues, triggers, home, occurredAt>>

\* Mutant of DeleteIssue: the triggers are not deleted with their issue.
DeleteIssueOnly(r) ==
  /\ ask[r].op = "delete_issue"
  /\ issues' = issues \ {ask[r].issue}
  /\ UNCHANGED <<usedIssues, row, triggers, home, occurredAt>>

DeleteIssue(r) ==
  /\ ask[r].op = "delete_issue"
  /\ issues' = issues \ {ask[r].issue}
  /\ triggers' = triggers \ Of(ask[r].issue)
  /\ UNCHANGED <<usedIssues, row, home, occurredAt>>

Apply(r) ==
  /\ at[r] = "apply"
  /\ ~Waits(r)
  /\ FlushSucceeds(r)
  /\ \/ CreateTrigger(r) \/ UpdateTrigger(r) \/ DeleteTrigger(r)
     \/ CreateIssue(r) \/ UpdateIssue(r) \/ DeleteIssue(r)
  /\ Close(r)
  /\ UNCHANGED <<now, jobvars, raced>>

-----------------------------------------------------------------------------
(* reconcile_issue_status *)

\* Mutant of Target: closed issues are archived under a status of their own.
TargetArchives(r, day) ==
  IF r.latest # Never /\ r.status = "ongoing" /\ r.latest < day - CloseAfter
    THEN "archived" ELSE r.status

\* Mutant of Target: the reignition branch is missing.
TargetNeverReignites(r, day) ==
  IF r.latest # Never /\ r.status = "ongoing" /\ r.latest < day - CloseAfter
    THEN "closed" ELSE r.status

\* The status the job gives an issue with columns r on that day.
Target(r, day) ==
  CASE r.latest # Never /\ r.status = "ongoing" /\ r.latest < day - CloseAfter  -> "closed"
    [] r.latest # Never /\ r.status = "closed" /\ r.latest >= day - ReigniteIn -> "reignited"
    [] OTHER                                                                   -> r.status

JobLoad ==
  /\ job = "idle"
  /\ job' = "save"
  /\ jobDay' = now
  /\ jobSeen' = issues
  /\ jobRow' = row
  /\ UNCHANGED <<now, session, desk, raced>>

Changed == {i \in jobSeen : Target(jobRow[i], jobDay) # jobRow[i].status}

\* The commit writes the status of every issue that changes, or of none: one that
\* was deleted meanwhile fails the run.
JobSave ==
  /\ job = "save"
  /\ job' = "idle"
  /\ row' = [i \in Issues |->
               IF Changed \subseteq issues /\ i \in Changed
                 THEN [row[i] EXCEPT !.status = Target(jobRow[i], jobDay)] ELSE row[i]]
  /\ jobDay' = 0 /\ jobSeen' = {} /\ jobRow' = row'
  /\ UNCHANGED <<now, session, issues, usedIssues, triggers, home, occurredAt, raced>>

Tick ==
  /\ now < LastDay
  /\ now' = now + 1
  /\ UNCHANGED <<session, desk, jobvars, raced>>

-----------------------------------------------------------------------------

Serve(r) == NotFound(r) \/ Find(r) \/ Check(r) \/ List(r) \/ FlushFails(r) \/ Apply(r)

Reconcile == JobLoad \/ JobSave

Next == (\E r \in Requests : Arrive(r) \/ Serve(r) \/ Abort(r)) \/ Reconcile \/ Tick

Spec == Init /\ [][Next]_vars

\* A request that arrived is served to its end, cron starts the job again and again,
\* time passes. Nothing makes a request arrive.
FairSpec ==
  Spec /\ WF_vars(Reconcile) /\ WF_vars(Tick) /\ \A r \in Requests : WF_vars(Serve(r))
-----------------------------------------------------------------------------
(* Properties *)

\* Every variable keeps its type.
TypeOK ==
  /\ now \in Days
  /\ at \in [Requests -> {"idle", "find", "check", "list", "apply", "done"}]
  /\ ask \in [Requests -> Ask \cup {NoAsk}]
  /\ seen \in [Requests -> Row]
  /\ newest \in [Requests -> When]
  /\ issues \in SUBSET usedIssues
  /\ usedIssues \in SUBSET Issues
  /\ row \in [Issues -> Row]
  /\ triggers \in SUBSET Triggers
  /\ home \in [Triggers -> Issues \cup {Never}]
  /\ occurredAt \in [Triggers -> Days]
  /\ job \in {"idle", "save"}
  /\ jobDay \in Days
  /\ jobSeen \in SUBSET Issues
  /\ jobRow \in [Issues -> Row]
  /\ raced \in SUBSET Issues

\* A trigger never outlives its issue, although triggers are created, moved in time
\* and deleted while their issue is being deleted.
NoOrphanTriggers == \A t \in triggers : home[t] \in issues

\* api/v1/triggers.py:61: after a trigger is deleted, latest_trigger_at is the date
\* of the newest trigger left, whatever it was before and whatever the admins and
\* the job do to the issue's status meanwhile; unless two trigger requests on the
\* issue were in flight at the same time.
DeleteRefreshes ==
  [][\A t \in triggers \ triggers' :
       home[t] \in issues' \ raced =>
         row'[home[t]].latest = NewestOf(Of(home[t]))']_vars

\* No ongoing issue has been quiet for too long, no closed one has news.
Reconciled ==
  \A i \in {j \in issues : row[j].latest # Never} :
    /\ row[i].status = "ongoing" => row[i].latest >= now - CloseAfter
    /\ row[i].status = "closed" => row[i].latest < now - ReigniteIn

\* Once requests stop arriving and the last day has come, every issue gets the
\* status its latest trigger asks for, and keeps it: what a run does on stale rows,
\* or fails to do because an issue was deleted under it, a later run makes good.
Settled == <>[]Reconciled

\* docs/PRD.md:175: latest_trigger_at is the time of the latest trigger.
LatestIsLatest == \A i \in issues : row[i].latest = NewestOf(Of(i))
=============================================================================
