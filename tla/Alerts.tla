-------------------------------- MODULE Alerts --------------------------------
(***************************************************************************)
(* Who is told of a major update: the alert rules of users (api/v1/        *)
(* users.py, crud/notification.py, sql/notification.py) and what the news  *)
(* pipeline makes of them (_create_major_update_notifications of utils/    *)
(* pipeline/feed_builder.py), while users track issues and let go of them, *)
(* and write and delete rules.                                             *)
(*                                                                         *)
(* NewsPipeline takes trackers and rules as constants; here they change    *)
(* between the two queries that a batch makes. A request is one committed  *)
(* step: other sessions see nothing of it before. Of a batch only its      *)
(* major updates of issues are kept. The keyword of a rule is left out:    *)
(* nothing reads it.                                                       *)
(***************************************************************************)
EXTENDS Integers

CONSTANTS
  Users,
  Issues,    \* ids of issues
  Articles,  \* articles that become major updates
  Scores,    \* scores of major updates
  Minima,    \* what min_importance of a rule may be; 0 stands for NULL, too
  RuleIds,   \* bound: rules ever written
  Cycles,    \* processes that run the pipeline
  None       \* no row

ASSUME ScoresAssumption == Scores \subseteq Nat \ {0} /\ Minima \subseteq Nat
ASSUME NoneAssumption   == None \notin [user : Users, min : Minima]

VARIABLES
  issues,   \* issues that exist
  tracks,   \* user_tracked_issues: pairs <<user, issue>>
  rules,    \* id -> row of user_alert_rules, or None
  used,     \* ids of rules that were written: a uuid comes only once
  cycle,    \* process -> its batch
  stored,   \* articles of committed batches
  notes,    \* committed notifications of type major_update
  watch     \* history of a batch: who tracked and what rules allowed meanwhile

alertsVars == <<issues, tracks, rules, used, cycle, stored, notes, watch>>

Rule    == [user : Users, min : Minima]
Update  == [article : Articles, issue : Issues, score : Scores]
Note    == [user : Users, article : Articles, issue : Issues, score : Scores]

\* A batch: its major updates, the trackers it read, and the notifications it will insert.
Idle == [stage |-> "idle", updates |-> {}, trackers |-> {}, notes |-> {}]
Nobody  == [always |-> {}, tracked |-> {}, free |-> {}]

AlertsInit ==
  /\ issues = Issues
  /\ tracks = {}
  /\ rules = [r \in RuleIds |-> None]
  /\ used = {}
  /\ cycle = [c \in Cycles |-> Idle]
  /\ stored = {}
  /\ notes = {}
  /\ watch = [c \in Cycles |-> Nobody]

-----------------------------------------------------------------------------
(* A history *)

\* No rule has is_active FALSE: no code sets it.
RulesOf(u) == {rules[r] : r \in {q \in RuleIds : rules[q] # None /\ rules[q].user = u}}

\* History: the states of trackers and rules that a batch came through, of which only the
\* answers to the questions of the properties are kept.
Free(u, x) == RulesOf(u) = {} \/ \E rule \in RulesOf(u) : rule.min <= x.score
Moment(c) ==
  LET pairs   == Users \X cycle[c].updates
      tracked == {<<u, x>> \in pairs : <<u, x.issue>> \in tracks}
      free    == {<<u, x>> \in pairs : Free(u, x)}
  IN [always |-> tracked \cap free, tracked |-> tracked, free |-> free]

\* A part of every step.
Remember ==
  watch' = [c \in Cycles |->
    CASE cycle'[c].stage = "idle" -> Nobody
      [] cycle[c].stage = "idle" /\ cycle'[c].stage # "idle" -> Moment(c)'
      [] OTHER -> [always  |-> watch[c].always \cap Moment(c)'.always,
                   tracked |-> watch[c].tracked \cup Moment(c)'.tracked,
                   free    |-> watch[c].free \cup Moment(c)'.free]]

-----------------------------------------------------------------------------
(* What users do *)

Track(u, i) ==
  /\ i \in issues
  /\ tracks' = tracks \cup {<<u, i>>}
  /\ UNCHANGED <<issues, rules, used, cycle, stored, notes>> /\ Remember

Untrack(u, i) ==
  /\ <<u, i>> \in tracks
  /\ tracks' = tracks \ {<<u, i>>}
  /\ UNCHANGED <<issues, rules, used, cycle, stored, notes>> /\ Remember

\* A rule may have a minimum, or none.
NewRules(u) == {[user |-> u, min |-> m] : m \in Minima}

CreateAlertRule(r, u) ==
  /\ r \notin used
  /\ used' = used \cup {r}
  /\ \E row \in NewRules(u) : rules' = [rules EXCEPT ![r] = row]
  /\ UNCHANGED <<issues, tracks, cycle, stored, notes>> /\ Remember

\* What is not one's own is not found.
Owns(u, r) == rules[r] # None /\ rules[r].user = u

DeleteAlertRule(r, u) ==
  /\ Owns(u, r)
  /\ rules' = [rules EXCEPT ![r] = None]
  /\ UNCHANGED <<issues, tracks, used, cycle, stored, notes>> /\ Remember

\* Mutant of TracksWithout: no cascade.
TracksWithoutCascade(i) == tracks

\* Rows of user_tracked_issues go with their issue.
TracksWithout(i) == {t \in tracks : t[2] # i}

\* It waits for batches whose event_updates refer to the issue.
DeleteIssue(i) ==
  /\ i \in issues
  /\ \A c \in Cycles : cycle[c].stage \in {"trackers", "rules", "commit"} =>
       \A x \in cycle[c].updates : x.issue # i
  /\ issues' = issues \ {i}
  /\ tracks' = TracksWithout(i)
  /\ UNCHANGED <<rules, used, cycle, stored, notes>> /\ Remember

-----------------------------------------------------------------------------
(* What the pipeline does *)

\* classify_batch left articles that no other batch has, as major updates of issues it
\* read (NewsPipeline says how).
Classified(c) ==
  /\ cycle[c].stage = "idle"
  /\ \E A \in SUBSET (Articles \ stored) \ {{}} :
       /\ \A d \in Cycles : \A x \in cycle[d].updates : x.article \notin A
       /\ \E f \in [A -> [issue : issues, score : Scores]] :
            cycle' = [cycle EXCEPT ![c] = [Idle EXCEPT
              !.stage = "persist",
              !.updates = {[article |-> a, issue |-> f[a].issue, score |-> f[a].score] : a \in A}]]
  /\ UNCHANGED <<issues, tracks, rules, used, stored, notes>> /\ Remember

\* The rows of event_updates, which lock their issues.
Persist(c) ==
  /\ cycle[c].stage = "persist"
  /\ \A x \in cycle[c].updates : x.issue \in issues
  /\ cycle' = [cycle EXCEPT ![c].stage = "trackers"]
  /\ UNCHANGED <<issues, tracks, rules, used, stored, notes>> /\ Remember

\* A query of its own.
ReadTrackers(c) ==
  /\ cycle[c].stage = "trackers"
  /\ cycle' = [cycle EXCEPT
       ![c].trackers = {t \in tracks : \E x \in cycle[c].updates : x.issue = t[2]},
       ![c].stage = "rules"]
  /\ UNCHANGED <<issues, tracks, rules, used, stored, notes>> /\ Remember

Allows(rule, score) == rule.min = 0 \/ score >= rule.min

\* Mutant of Wants: every rule has to allow it.
WantsIfAll(u, score) == \A rule \in RulesOf(u) : Allows(rule, score)

\* Without a rule a user is told of everything, with rules if one of them allows it.
Wants(u, score) == RulesOf(u) # {} => \E rule \in RulesOf(u) : Allows(rule, score)

\* The rules of those trackers are read, and the notifications made.
ReadRules(c) ==
  /\ cycle[c].stage = "rules"
  /\ cycle' = [cycle EXCEPT
       ![c].notes = {n \in Note : /\ <<n.user, n.issue>> \in cycle[c].trackers
                                  /\ [article |-> n.article, issue |-> n.issue, score |-> n.score]
                                       \in cycle[c].updates
                                  /\ Wants(n.user, n.score)},
       ![c].stage = "commit"]
  /\ UNCHANGED <<issues, tracks, rules, used, stored, notes>> /\ Remember

Commit(c) ==
  /\ cycle[c].stage = "commit"
  /\ notes' = notes \cup cycle[c].notes
  /\ stored' = stored \cup {x.article : x \in cycle[c].updates}
  /\ cycle' = [cycle EXCEPT ![c] = Idle]
  /\ UNCHANGED <<issues, tracks, rules, used>> /\ Remember

\* An issue is gone, the subscriptions cannot be matched, the connection is lost, the process
\* is killed: the whole batch is rolled back, and the next cycle meets the articles again.
Fail(c) ==
  /\ cycle[c].stage # "idle"
  /\ cycle' = [cycle EXCEPT ![c] = Idle]
  /\ UNCHANGED <<issues, tracks, rules, used, stored, notes>> /\ Remember

-----------------------------------------------------------------------------
AlertsNext ==
  \/ \E u \in Users, i \in Issues : Track(u, i) \/ Untrack(u, i)
  \/ \E r \in RuleIds, u \in Users : CreateAlertRule(r, u) \/ DeleteAlertRule(r, u)
  \/ \E i \in Issues : DeleteIssue(i)
  \/ \E c \in Cycles : \/ Classified(c) \/ Persist(c) \/ ReadTrackers(c) \/ ReadRules(c)
                       \/ Commit(c) \/ Fail(c)

AlertsSpec == AlertsInit /\ [][AlertsNext]_alertsVars

-----------------------------------------------------------------------------
(* Properties *)

\* Every variable keeps its type; nobody tracks an issue that is gone.
AlertsTypeOK ==
  /\ issues \subseteq Issues
  /\ tracks \subseteq Users \X issues
  /\ rules \in [RuleIds -> Rule \cup {None}] /\ used \subseteq RuleIds
  /\ \A c \in Cycles : /\ cycle[c].updates \subseteq Update
                       /\ cycle[c].trackers \subseteq Users \X Issues
                       /\ cycle[c].notes \subseteq Note
  /\ stored \subseteq Articles
  /\ notes \subseteq Note

About(n) == <<n.user, [article |-> n.article, issue |-> n.issue, score |-> n.score]>>
Committed(c) == stored' # stored /\ cycle[c].stage = "commit" /\ cycle'[c] = Idle

\* A batch reads trackers and rules at two moments, while users change both. Whoever
\* tracked the issue all the time, with rules that would have let the update pass at every
\* moment, is told; and nobody is who tracked it at none, or whose rules forbade it at
\* every moment (feed_builder.py:181-225).
ToldAsRuled ==
  [][\A c \in Cycles : Committed(c) =>
       LET told == {About(n) : n \in notes' \ notes}
       IN /\ watch[c].always \subseteq told
          /\ told \subseteq watch[c].tracked \cap watch[c].free]_alertsVars
=============================================================================
