---------------------------- MODULE Jobs_proofs ----------------------------
(***************************************************************************)
(* Theorems of Jobs, for any number of issues, words and overlapping runs, *)
(* and for all limits of days that keep their order.                       *)
(***************************************************************************)
EXTENDS Jobs, FiniteSetTheorems, TLAPS

USE DEF Boards, JobNames

-----------------------------------------------------------------------------
(* Types *)

Stages == {"idle", "cool", "cooling", "closing", "match", "persist", "report", "read", "save",
           "record"}

Run ==
  [job : JobNames \cup {"none"}, stage : Stages, age : 0..MaxLag, at : 0..MaxRankings,
   todo : SUBSET Issues, wants : Issues \cup {Gone}, writes : [Issues -> Links \cup {Gone}],
   items : SUBSET ((Issues \cup Words) \X (1..TopN) \X Scores), applied : BOOLEAN,
   status : {"none", "success", "failed"}]

StagesOf(j) ==
  {"record"} \cup (IF j = "keyword_state_cleanup" THEN {"cool", "cooling", "closing"}
                   ELSE IF j = "news_collect" THEN {"match", "persist", "report"}
                   ELSE {"read", "save"})

\* What a run may look like when n rankings were begun: a stage of its job, a number if
\* it ranks, and a record of success only after its transaction was committed.
Shape(r, n) ==
  \/ r = Idle
  \/ /\ r.job \in JobNames /\ r.stage \in StagesOf(r.job)
     /\ r.job \in Boards => r.at \in 1..n
     /\ r.stage = "save" /\ r.job = "issue_rankings" => \A x \in r.items : x[1] \in Issues
     /\ r.wants \in r.todo \cup {Gone} /\ (r.todo # {} => r.stage \in {"cooling", "closing", "persist"})
     /\ r.status # "none" => r.stage = "record"
     /\ r.status = "success" /\ r.job # "news_collect" => r.applied

TypeInv ==
  /\ JobsTypeOK
  /\ run \in [Slots -> Run]
  /\ board \in [Boards -> SUBSET Rows]
  /\ \A s \in Slots : Shape(run[s], ranked)
  /\ \A r \in board["issue_rankings"] : r.item \in Issues

LEMMA Limits ==
  /\ {CoolAfter, CloseAfter, Window, Retention, MaxLag, MaxScore, MaxRankings, MaxFaults, MaxAge}
       \subseteq Nat
  /\ CoolAfter < MaxAge /\ CloseAfter < MaxAge /\ Retention < MaxAge /\ MaxLag < MaxAge
  /\ MaxLag <= Retention /\ TopN \in Nat \ {0}
  BY DaysAssumption DEF MaxAge

LEMMA OlderAges ==
  /\ \A n \in Ages : Older(n) \in Ages /\ n <= Older(n) /\ Older(n) <= n + 1
  /\ \A m, n \in Ages : m <= n => Older(m) <= Older(n)
  /\ \A n \in Ages : \A a \in 0..MaxLag : /\ a + 1 <= MaxLag /\ a <= n => a + 1 <= Older(n)
                                          /\ n <= a => Older(n) <= a + 1
  BY Limits DEF Ages, Older

LEMMA IdleRun == Idle \in Run
  BY Limits DEF Idle, Run, Stages, NoWrites

LEMMA RunValues ==
  /\ 0 \in 0..MaxLag /\ {} \in SUBSET Issues /\ Gone \in Issues \cup {Gone}
  /\ NoWrites \in [Issues -> Links \cup {Gone}]
  /\ {} \in SUBSET ((Issues \cup Words) \X (1..TopN) \X Scores)
  BY Limits DEF NoWrites

\* A step that changes one run keeps the types if its new state is one of a run.
LEMMA OneRun ==
  ASSUME TypeInv, NEW s \in Slots, NEW r \in Run, run' = [run EXCEPT ![s] = r],
         ranked' \in 0..MaxRankings, ranked <= ranked', Shape(r, ranked'), jobRuns' \subseteq 1..ranked',
         plan' \in Plans, issue' = issue, link' \in [Issues -> Links \cup {Gone}],
         board' \in [Boards -> SUBSET Rows], faults' \in 0..MaxFaults,
         \A q \in board'["issue_rankings"] : q.item \in Issues /\ issue[q.item] # Gone
  PROVE  TypeInv'
<1>1. run' \in [Slots -> Run] /\ \A t \in Slots : run'[t] = IF t = s THEN r ELSE run[t]
  BY DEF TypeInv
<1>2. \A t \in Slots : Shape(run'[t], ranked')
  <2> SUFFICES ASSUME NEW t \in Slots PROVE Shape(run'[t], ranked')
    OBVIOUS
  <2>1. CASE t = s
    BY <1>1, <2>1
  <2>2. CASE t # s
    <3>1. Shape(run[t], ranked) /\ run'[t] = run[t]
      BY <1>1, <2>2 DEF TypeInv
    <3> QED
      BY <3>1, Limits DEF Shape, TypeInv, JobsTypeOK
  <2> QED
    BY <2>1, <2>2
<1>3. \A t \in Slots : /\ run'[t].job \in JobNames \cup {"none"}
                       /\ run'[t].age \in 0..MaxLag /\ run'[t].at \in 0..MaxRankings
                       /\ run'[t].todo \subseteq Issues
                       /\ run'[t].writes \in [Issues -> Links \cup {Gone}]
  BY <1>1 DEF Run
<1>4. \A t \in Slots : run'[t].wants \in run'[t].todo \cup {Gone}
  BY <1>2 DEF Shape, Idle
<1> QED
  BY <1>1, <1>2, <1>3, <1>4 DEF TypeInv, JobsTypeOK

LEMMA InitTypeInv == Init => TypeInv
<1> SUFFICES ASSUME Init PROVE TypeInv
  OBVIOUS
<1>1. \A s \in Slots : run[s] = Idle
  BY DEF Init
<1>2. run \in [Slots -> Run] /\ \A s \in Slots : Shape(run[s], ranked)
  BY <1>1, IdleRun DEF Init, Shape
<1>3. link \in [Issues -> Links \cup {Gone}]
  BY Limits DEF Init, Links, Statuses, Ages
<1>4. \A s \in Slots : /\ run[s].job \in JobNames \cup {"none"}
                       /\ run[s].age \in 0..MaxLag /\ run[s].at \in 0..MaxRankings
                       /\ run[s].todo \subseteq Issues /\ run[s].wants \in run[s].todo \cup {Gone}
                       /\ run[s].writes \in [Issues -> Links \cup {Gone}]
  BY <1>1, Limits DEF Idle, NoWrites
<1> QED
  BY <1>2, <1>3, <1>4, Limits DEF Init, TypeInv, JobsTypeOK

\* What a stage says about the run it is a stage of.
LEMMA Kinds ==
  ASSUME TypeInv, NEW s \in Slots
  PROVE  /\ run[s] \in Run /\ Shape(run[s], ranked)
         /\ run[s].stage \in {"cool", "cooling", "closing"} => run[s].job = "keyword_state_cleanup"
         /\ run[s].stage \in {"match", "persist", "report"} => run[s].job = "news_collect"
         /\ run[s].stage \in {"read", "save"} => run[s].job \in Boards /\ run[s].at \in 1..ranked
         /\ run[s].stage # "record" => run[s].status = "none"
         /\ run[s].stage # "idle" => run[s].job \in JobNames
         /\ run[s].wants \in run[s].todo \cup {Gone}
  BY DEF TypeInv, Shape, StagesOf, Idle

LEMMA SeenType ==
  ASSUME TypeInv, NEW s \in Slots
  PROVE  /\ \A i \in Issues : Seen(s, i) \in Links \cup {Gone}
         /\ Committed(s) \in [Issues -> Links \cup {Gone}]
  BY DEF TypeInv, JobsTypeOK, Seen, Committed

LEMMA ReturnType ==
  ASSUME TypeInv, NEW s \in Slots, run[s].job \in JobNames,
         NEW ok \in BOOLEAN, NEW applied \in BOOLEAN,
         ok => applied \/ run[s].job = "news_collect"
  PROVE  LET r == [Returned(s, ok) EXCEPT !.applied = applied]
         IN  r \in Run /\ Shape(r, ranked) /\ r.job = run[s].job /\ r.at = run[s].at
             /\ r.stage = "record" /\ r.writes = NoWrites /\ r.applied = applied
             /\ r.status = IF ok THEN "success" ELSE "failed"
<1> DEFINE r == [Returned(s, ok) EXCEPT !.applied = applied]
<1>1. run[s] \in Run /\ Shape(run[s], ranked)
  BY Kinds
<1>2. r = [run[s] EXCEPT !.stage = "record", !.age = 0, !.todo = {}, !.wants = Gone,
                         !.writes = NoWrites, !.items = {},
                         !.status = IF ok THEN "success" ELSE "failed", !.applied = applied]
  BY <1>1 DEF Returned, Run
<1>3. (IF ok THEN "success" ELSE "failed") \in {"none", "success", "failed"}
      /\ "record" \in Stages
  BY DEF Stages
<1>4. r \in Run
  BY <1>1, <1>2, <1>3, RunValues DEF Run
<1>5. /\ r.job = run[s].job /\ r.at = run[s].at /\ r.stage = "record" /\ r.wants = Gone /\ r.todo = {}
      /\ r.writes = NoWrites /\ r.applied = applied
      /\ r.status = IF ok THEN "success" ELSE "failed"
  BY <1>1, <1>2 DEF Run
<1>6. run[s].job \in Boards => run[s].at \in 1..ranked
  BY <1>1 DEF Shape, Idle
<1> HIDE DEF r
<1>7. Shape(r, ranked)
  BY <1>5, <1>6 DEF Shape, StagesOf
<1> QED
  BY <1>4, <1>5, <1>7 DEF r

LEMMA RolledBackType ==
  ASSUME TypeInv, NEW s \in Slots, run[s].job = "news_collect", run[s].stage # "record",
         NEW applied \in BOOLEAN
  PROVE  LET r == [RolledBack(s) EXCEPT !.applied = applied]
         IN  /\ r \in Run /\ Shape(r, ranked) /\ r.stage = "report" /\ r.job = "news_collect"
             /\ r.writes = NoWrites
             /\ RolledBack(s) \in Run /\ Shape(RolledBack(s), ranked)
             /\ RolledBack(s).stage = "report" /\ RolledBack(s).job = "news_collect"
             /\ RolledBack(s).writes = NoWrites
<1>1. run[s] \in Run /\ Shape(run[s], ranked)
  BY Kinds
<1>2. RolledBack(s) = [run[s] EXCEPT !.stage = "report", !.age = 0, !.todo = {}, !.wants = Gone,
                                     !.writes = NoWrites]
  BY DEF RolledBack
<1>3. "report" \in Stages
  BY DEF Stages
<1>4. RolledBack(s) \in Run
  BY <1>1, <1>2, <1>3, RunValues DEF Run
<1>5. /\ RolledBack(s).job = "news_collect" /\ RolledBack(s).stage = "report"
      /\ RolledBack(s).todo = {} /\ RolledBack(s).wants = Gone /\ RolledBack(s).writes = NoWrites
      /\ RolledBack(s).status = "none"
  BY <1>1, <1>2, Kinds DEF Run
<1>6. Shape(RolledBack(s), ranked)
  BY <1>5 DEF Shape, StagesOf
<1> DEFINE r == [RolledBack(s) EXCEPT !.applied = applied]
<1>7. r \in Run
  BY <1>4 DEF Run
<1>8. r.job = "news_collect" /\ r.stage = "report" /\ r.todo = {} /\ r.wants = Gone
      /\ r.writes = NoWrites /\ r.status = "none"
  BY <1>4, <1>5 DEF Run
<1> HIDE DEF r
<1>9. Shape(r, ranked)
  BY <1>8 DEF Shape, StagesOf
<1> QED
  BY <1>4, <1>5, <1>6, <1>7, <1>8, <1>9 DEF r

-----------------------------------------------------------------------------
\* Steps that leave everything but one run alone.
LEMMA OnlyRun ==
  ASSUME TypeInv, NEW s \in Slots, NEW r \in Run, run' = [run EXCEPT ![s] = r],
         Shape(r, ranked), faults' \in 0..MaxFaults, link' \in [Issues -> Links \cup {Gone}],
         jobRuns' \subseteq 1..ranked, UNCHANGED <<plan, issue, board, ranked>>
  PROVE  TypeInv'
<1>1. ranked' \in 0..MaxRankings /\ ranked <= ranked' /\ plan' \in Plans
  BY Limits DEF TypeInv, JobsTypeOK
<1>2. Shape(r, ranked') /\ jobRuns' \subseteq 1..ranked'
  OBVIOUS
<1>3. board' \in [Boards -> SUBSET Rows]
      /\ \A q \in board'["issue_rankings"] : q.item \in Issues /\ issue[q.item] # Gone
  BY DEF TypeInv, JobsTypeOK
<1> QED
  BY <1>1, <1>2, <1>3, OneRun

LEMMA StartType ==
  ASSUME TypeInv, NEW s \in Slots, NEW j \in JobNames, Start(s, j)
  PROVE  TypeInv'
<1> DEFINE r == [Idle EXCEPT !.job = j, !.stage = FirstStage[j], !.at = ranked']
<1>1. FirstStage[j] \in (StagesOf(j) \cap Stages) \ {"idle", "save", "record"}
  BY DEF FirstStage, StagesOf, Stages
<1>2. ranked' \in 0..MaxRankings /\ ranked <= ranked' /\ (j \in Boards => ranked' \in 1..ranked')
  BY Limits DEF Start, TypeInv, JobsTypeOK
<1>3. r \in Run /\ Shape(r, ranked')
  BY <1>1, <1>2, IdleRun DEF Run, Shape, Idle
<1>4. jobRuns' \subseteq 1..ranked'
  BY <1>2, Limits DEF Start, TypeInv, JobsTypeOK
<1> QED
  BY <1>2, <1>3, <1>4, OneRun DEF Start, TypeInv, JobsTypeOK

LEMMA RecordType ==
  ASSUME TypeInv, NEW s \in Slots, Record(s) \/ Crash(s)
  PROVE  TypeInv'
<1>1. Shape(Idle, ranked)
  BY DEF Shape
<1>2. faults' \in 0..MaxFaults
  BY Limits DEF Record, Crash, Fault, TypeInv, JobsTypeOK
<1>3. jobRuns' \subseteq 1..ranked
  <2>1. jobRuns \subseteq 1..ranked
    BY DEF TypeInv, JobsTypeOK
  <2>2. run[s].job \in Boards => run[s].at \in 1..ranked
    BY Kinds DEF Shape, Idle
  <2> QED
    BY <2>1, <2>2 DEF Record, Crash, JobRun
<1> QED
  BY <1>1, <1>2, <1>3, IdleRun, OnlyRun DEF Record, Crash, TypeInv, JobsTypeOK

LEMMA ExecuteType ==
  ASSUME TypeInv, NEW s \in Slots, Cool(s) \/ Cooled(s)
  PROVE  TypeInv'
<1>1. PICK statement \in {"cooling", "closing"} : Execute(s, statement)
  BY DEF Cool, Cooled
<1>2. PICK r : r = [run[s] EXCEPT !.todo = {i \in Issues : Matches(s, statement, Seen(s, i))},
                                 !.stage = statement]
  OBVIOUS
<1>3. run[s] \in Run /\ run[s].job = "keyword_state_cleanup" /\ Shape(run[s], ranked)
      /\ run[s].status = "none" /\ run[s].stage \in {"cool", "cooling"}
      /\ run[s].wants \in run[s].todo \cup {Gone}
  BY Kinds DEF Cool, Cooled
<1>4. run' = [run EXCEPT ![s] = r]
  BY <1>1, <1>2, <1>3 DEF Execute, Run
<1>5. r \in Run
  BY <1>2, <1>3 DEF Run, Stages
<1>6. r.job = "keyword_state_cleanup" /\ r.stage = statement /\ r.status = "none"
      /\ r.wants = run[s].wants /\ r.todo = {i \in Issues : Matches(s, statement, Seen(s, i))}
  BY <1>2, <1>3 DEF Run
<1>7. run[s].wants = Gone
  BY <1>3, GoneAssumption DEF Cool, Cooled, Shape, Idle
<1>8. Shape(r, ranked)
  BY <1>6, <1>7 DEF Shape, StagesOf
<1> QED
  BY <1>4, <1>5, <1>8, OnlyRun DEF Cool, Cooled, TypeInv, JobsTypeOK

\* A statement that writes one row and goes on.
Wrote(s, i, row) == [run[s] EXCEPT !.todo = @ \ {i}, !.wants = Gone, !.writes[i] = row]

LEMMA WriteType ==
  ASSUME TypeInv, NEW s \in Slots, NEW i \in Issues, NEW row \in Links \cup {Gone},
         run[s].stage \in {"cooling", "closing", "persist"}
  PROVE  LET r == Wrote(s, i, row)
         IN  /\ r \in Run /\ Shape(r, ranked) /\ r.stage = run[s].stage /\ r.job = run[s].job
             /\ r.writes = [run[s].writes EXCEPT ![i] = row]
<1> DEFINE r == Wrote(s, i, row)
<1>1. run[s] \in Run /\ Shape(run[s], ranked) /\ run[s].status = "none"
      /\ run[s].job \in {"keyword_state_cleanup", "news_collect"}
  BY Kinds
<1>2. r = [run[s] EXCEPT !.todo = run[s].todo \ {i}, !.wants = Gone,
                         !.writes = [run[s].writes EXCEPT ![i] = row]]
  BY <1>1 DEF Run, Wrote
<1>3. run[s].todo \ {i} \in SUBSET Issues /\ run[s].writes \in [Issues -> Links \cup {Gone}]
  BY <1>1 DEF Run
<1>4. [run[s].writes EXCEPT ![i] = row] \in [Issues -> Links \cup {Gone}]
  BY <1>3
<1>5. r \in Run
  BY <1>1, <1>2, <1>3, <1>4, RunValues DEF Run
<1>6. /\ r.job = run[s].job /\ r.stage = run[s].stage /\ r.wants = Gone /\ r.status = "none"
      /\ r.writes = [run[s].writes EXCEPT ![i] = row]
  BY <1>1, <1>2 DEF Run
<1> HIDE DEF r
<1>7. run[s].stage \in StagesOf(run[s].job)
  BY <1>1 DEF Shape, Idle
<1>8. Shape(r, ranked)
  BY <1>1, <1>6, <1>7 DEF Shape
<1> QED
  BY <1>5, <1>6, <1>8 DEF r

LEMMA LinkStatus ==
  ASSUME NEW row \in Links, NEW status \in Statuses
  PROVE  /\ [row EXCEPT !.status = status] \in Links /\ [row EXCEPT !.age = 0] \in Links
         /\ [row EXCEPT !.status = status].status = status
         /\ [row EXCEPT !.status = status].age = row.age
         /\ [row EXCEPT !.age = 0].status = row.status
  BY Limits DEF Links, Ages

LEMMA AgedRow ==
  ASSUME NEW row \in Links \cup {Gone}
  PROVE  /\ Aged(row) \in Links \cup {Gone} /\ (Aged(row) = Gone <=> row = Gone)
         /\ row # Gone => Aged(row).status = row.status /\ Aged(row).age = Older(row.age)
  BY OlderAges, GoneAssumption DEF Links, Aged

\* What UpdateRow and Refresh write.
LEMMA UpdateWrites ==
  ASSUME TypeInv, NEW s \in Slots, NEW i \in Issues, UpdateRow(s, i)
  PROVE  \E row \in Links \cup {Gone} :
           /\ run' = [run EXCEPT ![s] = Wrote(s, i, row)]
           /\ row = IF StillMatches(s, i) THEN [Seen(s, i) EXCEPT !.status = NextStatus(s)]
                                          ELSE run[s].writes[i]
<1>1. run[s] \in Run /\ run \in [Slots -> Run]
  BY Kinds DEF TypeInv
<1> DEFINE row == IF StillMatches(s, i) THEN [Seen(s, i) EXCEPT !.status = NextStatus(s)]
                                        ELSE run[s].writes[i]
<1>2. NextStatus(s) \in Statuses
  BY DEF NextStatus, Statuses
<1>3. StillMatches(s, i) => Seen(s, i) \in Links
  BY SeenType DEF StillMatches, Matches
<1>4. run[s].writes[i] \in Links \cup {Gone}
  BY <1>1 DEF Run
<1>5. row \in Links \cup {Gone}
  BY <1>2, <1>3, <1>4, LinkStatus
<1>6. run' = [run EXCEPT ![s] = Wrote(s, i, row)]
  BY <1>1 DEF UpdateRow, Run, Wrote
<1> QED
  BY <1>5, <1>6

LEMMA WritesType ==
  ASSUME TypeInv, NEW s \in Slots, NEW i \in Issues, UpdateRow(s, i) \/ Refresh(s, i)
  PROVE  TypeInv'
<1>1. CASE UpdateRow(s, i)
  <2>1. PICK row \in Links \cup {Gone} :
          run' = [run EXCEPT ![s] = Wrote(s, i, row)]
    BY <1>1, UpdateWrites
  <2>2. PICK r : r = Wrote(s, i, row)
    OBVIOUS
  <2>3. r \in Run /\ Shape(r, ranked)
    BY <1>1, <2>2, WriteType DEF UpdateRow
  <2> QED
    BY <1>1, <2>1, <2>2, <2>3, OnlyRun DEF UpdateRow, TypeInv, JobsTypeOK
<1>2. CASE Refresh(s, i)
  <2>1. link[i] \in Links
    BY <1>2 DEF Refresh, TypeInv, JobsTypeOK
  <2>2. PICK row \in Links \cup {Gone} : row = [link[i] EXCEPT !.age = 0]
    BY <2>1, LinkStatus DEF Statuses
  <2>3. PICK r : r = Wrote(s, i, row)
    OBVIOUS
  <2>4. r \in Run /\ Shape(r, ranked)
    BY <1>2, <2>3, WriteType DEF Refresh
  <2>5. run' = [run EXCEPT ![s] = r]
    <3>1. run[s] \in Run /\ run \in [Slots -> Run]
      BY Kinds DEF TypeInv
    <3>2. run' = [run EXCEPT ![s] = Wrote(s, i, [link[i] EXCEPT !.age = 0])]
      BY <1>2, <3>1 DEF Refresh, Run, Wrote
    <3> QED
      BY <2>2, <2>3, <3>2
  <2> QED
    BY <1>2, <2>4, <2>5, OnlyRun DEF Refresh, TypeInv, JobsTypeOK
<1> QED
  BY <1>1, <1>2

LEMMA ReturnsType ==
  ASSUME TypeInv, NEW s \in Slots, Closed(s) \/ Report(s) \/ SaveFails(s)
  PROVE  TypeInv'
<1>1. run[s].job \in JobNames /\ Committed(s) \in [Issues -> Links \cup {Gone}]
      /\ link \in [Issues -> Links \cup {Gone}] /\ faults \in 0..MaxFaults
      /\ jobRuns \subseteq 1..ranked
  BY Kinds, SeenType DEF Closed, Report, SaveFails, TypeInv, JobsTypeOK
<1>2. PICK ok \in BOOLEAN, applied \in BOOLEAN :
        Return(s, ok, applied) /\ (ok => applied \/ run[s].job = "news_collect")
  <2>1. Closed(s) => Return(s, TRUE, TRUE)
    BY DEF Closed
  <2>2. Report(s) => run[s].job = "news_collect" /\ run[s].applied \in BOOLEAN
                     /\ \E ok \in BOOLEAN : Return(s, ok, run[s].applied)
    BY Kinds DEF Report, Run
  <2>3. SaveFails(s) => Return(s, FALSE, FALSE)
    BY DEF SaveFails
  <2> QED
    BY <2>1, <2>2, <2>3
<1>3. PICK r : r = [Returned(s, ok) EXCEPT !.applied = applied]
  OBVIOUS
<1>4. r \in Run /\ Shape(r, ranked) /\ run' = [run EXCEPT ![s] = r]
  BY <1>1, <1>2, <1>3, ReturnType DEF Return
<1>5. link' \in [Issues -> Links \cup {Gone}]
      /\ UNCHANGED <<plan, issue, board, ranked, jobRuns, faults>>
  <2>1. CASE Closed(s)
    BY <1>1, <2>1 DEF Closed
  <2>2. CASE Report(s) \/ SaveFails(s)
    BY <1>1, <2>2 DEF Report, SaveFails
  <2> QED
    BY <2>1, <2>2
<1> QED
  BY <1>1, <1>4, <1>5, OnlyRun

\* What a run whose connection is lost at the commit does: its ranking is saved all the
\* same, or no board changes, and then rows of keyword states may.
Saves(s) ==
  /\ run[s].stage = "save" /\ CanSave(s)
  /\ board' = Saved(s)
  /\ \E ok \in BOOLEAN : Return(s, ok, TRUE)
  /\ faults' \in 0..MaxFaults /\ faults <= faults'
  /\ UNCHANGED <<plan, issue, link, ranked, jobRuns>>

Loses(s) ==
  /\ run[s].stage \in {"closing", "persist", "read", "save"}
  /\ link' \in {link, Committed(s)}
  /\ \E applied \in BOOLEAN :
       \/ Return(s, FALSE, applied)
       \/ /\ run[s].stage = "persist"
          /\ run' = [run EXCEPT ![s] = [RolledBack(s) EXCEPT !.applied = applied]]
  /\ faults' \in 0..MaxFaults /\ faults <= faults'
  /\ UNCHANGED <<plan, issue, board, ranked, jobRuns>>

LEMMA SaveSaves ==
  ASSUME TypeInv, NEW s \in Slots, Save(s)
  PROVE  Saves(s)
<1>1. faults \in 0..MaxFaults /\ faults' = faults
  BY DEF Save, TypeInv, JobsTypeOK
<1>2. faults <= faults'
  BY <1>1, Limits
<1> QED
  BY <1>1, <1>2 DEF Save, Saves

LEMMA Failing ==
  ASSUME TypeInv, NEW s \in Slots, CommitFails(s)
  PROVE  Saves(s) \/ Loses(s)
<1>1. faults' \in 0..MaxFaults /\ faults <= faults' /\ UNCHANGED <<plan, issue, ranked, jobRuns>>
  BY Limits DEF CommitFails, Fault, TypeInv, JobsTypeOK
<1>2. CASE run[s].stage = "save"
  BY <1>1, <1>2 DEF CommitFails, NothingToRank, Saves, Loses
<1>3. CASE run[s].stage # "save"
  <2>1. /\ run[s].stage \in {"closing", "persist", "read"} /\ board' = board
        /\ link' \in {link, Committed(s)}
    BY <1>3 DEF CommitFails, NothingToRank
  <2>2. \E applied \in BOOLEAN :
          \/ Return(s, FALSE, applied)
          \/ /\ run[s].stage = "persist"
             /\ run' = [run EXCEPT ![s] = [RolledBack(s) EXCEPT !.applied = applied]]
    BY <1>3 DEF CommitFails
  <2> QED
    BY <1>1, <2>1, <2>2 DEF Loses
<1> QED
  BY <1>2, <1>3

LEMMA LosesType ==
  ASSUME TypeInv, NEW s \in Slots, Loses(s)
  PROVE  TypeInv'
<1>1. run[s].job \in JobNames /\ Committed(s) \in [Issues -> Links \cup {Gone}]
      /\ link \in [Issues -> Links \cup {Gone}] /\ jobRuns \subseteq 1..ranked
  BY Kinds, SeenType DEF Loses, TypeInv, JobsTypeOK
<1>2. PICK applied \in BOOLEAN :
        \/ Return(s, FALSE, applied)
        \/ /\ run[s].stage = "persist"
           /\ run' = [run EXCEPT ![s] = [RolledBack(s) EXCEPT !.applied = applied]]
  BY DEF Loses
<1>3. \E r \in Run : Shape(r, ranked) /\ run' = [run EXCEPT ![s] = r]
  <2>1. CASE Return(s, FALSE, applied)
    BY <1>1, <2>1, ReturnType DEF Return
  <2>2. CASE run[s].stage = "persist"
             /\ run' = [run EXCEPT ![s] = [RolledBack(s) EXCEPT !.applied = applied]]
    BY <2>2, Kinds, RolledBackType
  <2> QED
    BY <1>2, <2>1, <2>2
<1>4. PICK r \in Run : Shape(r, ranked) /\ run' = [run EXCEPT ![s] = r]
  BY <1>3
<1> QED
  BY <1>1, <1>4, OnlyRun DEF Loses

LEMMA VictimType ==
  ASSUME TypeInv, NEW s \in Slots, Victim(s)
  PROVE  TypeInv'
<1>1. run[s].wants # Gone
  <2>1. PICK r \in Slots : run[s].wants \in Written(r)
    BY DEF Victim, WaitsFor
  <2> QED
    BY <2>1, GoneAssumption DEF Written
<1>2. run[s].job \in JobNames /\ run[s] \in Run /\ Shape(run[s], ranked)
  BY <1>1, Kinds DEF Shape, Idle
<1>3. UNCHANGED <<plan, issue, link, board, ranked, jobRuns, faults>>
  BY DEF Victim
<1>4. CASE run[s].job = "news_collect"
  <2>1. run' = [run EXCEPT ![s] = RolledBack(s)]
    BY <1>4 DEF Victim
  <2>2. run[s].stage # "record"
    BY <1>1, <1>2 DEF Shape, Idle
  <2>3. RolledBack(s) \in Run /\ Shape(RolledBack(s), ranked)
    BY <1>4, <2>2, RolledBackType
  <2> QED
    BY <1>3, <2>1, <2>3, OnlyRun DEF TypeInv, JobsTypeOK
<1>5. CASE run[s].job # "news_collect"
  <2>1. PICK r : r = [Returned(s, FALSE) EXCEPT !.applied = FALSE]
    OBVIOUS
  <2>2. r \in Run /\ Shape(r, ranked) /\ run' = [run EXCEPT ![s] = r]
    BY <1>2, <1>5, <2>1, ReturnType DEF Victim, Return
  <2> QED
    BY <1>3, <2>2, OnlyRun DEF TypeInv, JobsTypeOK
<1> QED
  BY <1>4, <1>5

LEMMA RolledBackTypes ==
  ASSUME TypeInv, NEW s \in Slots, Persisted(s) \/ \E i \in Issues : RefreshFails(s, i)
  PROVE  TypeInv'
<1>1. run[s].job = "news_collect" /\ run[s].stage # "record"
      /\ Committed(s) \in [Issues -> Links \cup {Gone}]
      /\ link \in [Issues -> Links \cup {Gone}] /\ faults \in 0..MaxFaults
      /\ jobRuns \subseteq 1..ranked
  BY Kinds, SeenType DEF Persisted, RefreshFails, TypeInv, JobsTypeOK
<1>2. PICK r : /\ r \in Run /\ Shape(r, ranked) /\ run' = [run EXCEPT ![s] = r]
  BY <1>1, RolledBackType DEF Persisted, RefreshFails
<1>3. link' \in [Issues -> Links \cup {Gone}] /\ faults' \in 0..MaxFaults
      /\ jobRuns' \subseteq 1..ranked /\ UNCHANGED <<plan, issue, board, ranked>>
  BY <1>1 DEF Persisted, RefreshFails
<1> QED
  BY <1>2, <1>3, OnlyRun

LEMMA MatchType ==
  ASSUME TypeInv, NEW s \in Slots, Match(s)
  PROVE  TypeInv'
<1>1. PICK S \in SUBSET Issues : run' = [run EXCEPT ![s].todo = S, ![s].stage = "persist"]
  BY DEF Match, Candidates
<1>2. PICK r : r = [run[s] EXCEPT !.todo = S, !.stage = "persist"]
  OBVIOUS
<1>3. run[s] \in Run /\ run[s].job = "news_collect" /\ Shape(run[s], ranked)
      /\ run[s].status = "none" /\ run[s].wants = Gone
  BY Kinds, GoneAssumption DEF Match, Shape, Idle
<1>4. run' = [run EXCEPT ![s] = r]
  BY <1>1, <1>2, <1>3 DEF Run
<1>5. r \in Run
  BY <1>2, <1>3 DEF Run, Stages
<1>6. r.job = "news_collect" /\ r.stage = "persist" /\ r.status = "none" /\ r.wants = Gone
  BY <1>2, <1>3 DEF Run
<1>7. Shape(r, ranked)
  BY <1>6 DEF Shape, StagesOf
<1> QED
  BY <1>4, <1>5, <1>7, OnlyRun DEF Match, TypeInv, JobsTypeOK

LEMMA WaitType ==
  ASSUME TypeInv, NEW s \in Slots, NEW i \in Issues, Wait(s, i)
  PROVE  TypeInv'
<1>1. PICK r : r = [run[s] EXCEPT !.wants = i]
  OBVIOUS
<1>2. run[s] \in Run /\ run[s].job \in JobNames /\ Shape(run[s], ranked) /\ i \in run[s].todo
      /\ run[s] # Idle
  BY Kinds DEF Wait, Shape, Idle
<1>3. run' = [run EXCEPT ![s] = r]
  BY <1>1, <1>2 DEF Run, Wait
<1>4. r \in Run
  BY <1>1, <1>2 DEF Run
<1>5. r.wants = i /\ r.todo = run[s].todo /\ r.job = run[s].job /\ r.stage = run[s].stage
      /\ r.at = run[s].at /\ r.items = run[s].items /\ r.status = run[s].status
      /\ r.applied = run[s].applied
  BY <1>1, <1>2 DEF Run
<1>6. Shape(r, ranked)
  BY <1>2, <1>5 DEF Shape
<1> QED
  BY <1>3, <1>4, <1>6, OnlyRun DEF Wait, TypeInv, JobsTypeOK

-----------------------------------------------------------------------------
(* Rankings *)

\* A ranking has items of its set, at the positions of a top list.
LEMMA RankingsType ==
  ASSUME NEW S \in SUBSET (Issues \cup Words), IsFiniteSet(S), NEW R \in Rankings(S)
  PROVE  R \subseteq S \X (1..TopN) \X Scores
<1> DEFINE n == IF Cardinality(S) < TopN THEN Cardinality(S) ELSE TopN
<1>1. PICK score \in [S -> Scores] :
        R \in {{<<f[k], k, score[f[k]]>> : k \in DOMAIN f} : f \in Orders(S, score)}
  BY DEF Rankings
<1>2. PICK f \in Orders(S, score) : R = {<<f[k], k, score[f[k]]>> : k \in DOMAIN f}
  BY <1>1
<1>3. f \in [1..n -> S]
  BY <1>2 DEF Orders
<1>4. 1..n \subseteq 1..TopN
  BY FS_CardinalityType, Limits
<1> QED
  BY <1>1, <1>2, <1>3, <1>4

LEMMA RankedType ==
  ASSUME TypeInv, NEW s \in Slots, NEW R \in Ranked(s)
  PROVE  /\ R \in SUBSET ((Issues \cup Words) \X (1..TopN) \X Scores)
         /\ run[s].job = "issue_rankings" => \A x \in R : x[1] \in Issues
<1>1. CASE run[s].job = "issue_rankings"
  <2>1. R \in Rankings(Active) /\ Active \in SUBSET Issues
    BY <1>1 DEF Ranked, Active
  <2>2. IsFiniteSet(Active)
    BY <2>1, FS_Subset, FiniteAssumption
  <2>3. R \subseteq Active \X (1..TopN) \X Scores
    BY <2>1, <2>2, RankingsType
  <2> QED
    BY <2>1, <2>3
<1>2. CASE run[s].job # "issue_rankings"
  <2>1. PICK W \in SUBSET Words : R \in Rankings(W)
    BY <1>2 DEF Ranked
  <2>2. IsFiniteSet(W)
    BY FS_Subset, FiniteAssumption
  <2>3. R \subseteq W \X (1..TopN) \X Scores
    BY <2>1, <2>2, RankingsType
  <2> QED
    BY <1>2, <2>3
<1> QED
  BY <1>1, <1>2

LEMMA ReadType ==
  ASSUME TypeInv, NEW s \in Slots, Read(s)
  PROVE  TypeInv'
<1>1. run[s] \in Run /\ run[s].job \in Boards /\ Shape(run[s], ranked) /\ run[s].status = "none"
      /\ run[s].at \in 1..ranked /\ run[s].todo = {} /\ run[s].wants = Gone
  BY Kinds DEF Read, Shape, Idle
<1>2. CASE Return(s, TRUE, TRUE)
  <2>1. PICK r : r = [Returned(s, TRUE) EXCEPT !.applied = TRUE]
    OBVIOUS
  <2>2. r \in Run /\ Shape(r, ranked) /\ run' = [run EXCEPT ![s] = r]
    BY <1>1, <1>2, <2>1, ReturnType DEF Return
  <2> QED
    BY <2>2, OnlyRun DEF Read, TypeInv, JobsTypeOK
<1>3. CASE \E R \in Ranked(s) : run' = [run EXCEPT ![s].items = R, ![s].stage = "save"]
  <2>1. PICK R \in Ranked(s) : run' = [run EXCEPT ![s].items = R, ![s].stage = "save"]
    BY <1>3
  <2>2. PICK r : r = [run[s] EXCEPT !.items = R, !.stage = "save"]
    OBVIOUS
  <2>3. run' = [run EXCEPT ![s] = r]
    BY <1>1, <2>1, <2>2 DEF Run
  <2>4. r \in Run
    BY <1>1, <2>2, RankedType DEF Run, Stages
  <2>5. r.items = R /\ r.stage = "save" /\ r.job = run[s].job /\ r.at = run[s].at
        /\ r.todo = {} /\ r.wants = Gone /\ r.status = "none"
    BY <1>1, <2>2 DEF Run
  <2>6. Shape(r, ranked)
    BY <1>1, <2>5, RankedType DEF Shape, StagesOf
  <2> QED
    BY <2>3, <2>4, <2>6, OnlyRun DEF Read, TypeInv, JobsTypeOK
<1> QED
  BY <1>2, <1>3 DEF Read

LEMMA NewRowsType ==
  ASSUME TypeInv, NEW s \in Slots, run[s].stage = "save"
  PROVE  /\ run[s].job \in Boards /\ NewRows(s) \subseteq Rows
         /\ \A r \in NewRows(s) : r.at = run[s].at /\ r.age = run[s].age
         /\ CanSave(s) /\ run[s].job = "issue_rankings" =>
              \A r \in NewRows(s) : r.item \in Issues /\ issue[r.item] # Gone
<1>1. run[s] \in Run /\ run[s].job \in Boards /\ Shape(run[s], ranked)
      /\ run[s].at \in 1..ranked /\ ranked \in 0..MaxRankings
  BY Kinds DEF TypeInv, JobsTypeOK
<1>2. run[s].at \in 1..MaxRankings /\ run[s].age \in Ages
  BY <1>1, Limits DEF Run, Ages
<1>3. run[s].items \subseteq (Issues \cup Words) \X (1..TopN) \X Scores
  BY <1>1 DEF Run
<1>4. run[s].job = "issue_rankings" => \A x \in run[s].items : x[1] \in Issues
  BY <1>1 DEF Shape, Idle
<1> QED
  BY <1>1, <1>2, <1>3, <1>4 DEF NewRows, Rows, CanSave

LEMMA SaveType ==
  ASSUME TypeInv, NEW s \in Slots, Saves(s)
  PROVE  TypeInv'
<1>1. run[s].job \in Boards /\ CanSave(s) /\ run[s].stage = "save"
  BY Kinds DEF Saves
<1>2. PICK ok \in BOOLEAN : Return(s, ok, TRUE)
  BY DEF Saves
<1>3. PICK r \in Run : Shape(r, ranked) /\ run' = [run EXCEPT ![s] = r]
  BY <1>1, <1>2, ReturnType DEF Return
<1>4. board \in [Boards -> SUBSET Rows]
      /\ board' = [board EXCEPT ![run[s].job] = (board[run[s].job] \ OldRows(s)) \cup NewRows(s)]
  BY DEF Saves, Saved, TypeInv
<1>5. board' \in [Boards -> SUBSET Rows]
  BY <1>1, <1>4, NewRowsType
<1>6. \A q \in board'["issue_rankings"] : q.item \in Issues /\ issue[q.item] # Gone
  <2> SUFFICES ASSUME NEW q \in board'["issue_rankings"]
               PROVE  q.item \in Issues /\ issue[q.item] # Gone
    OBVIOUS
  <2>1. CASE q \in board["issue_rankings"]
    BY <2>1 DEF TypeInv, JobsTypeOK
  <2>2. CASE q \notin board["issue_rankings"]
    <3>1. q \in NewRows(s) /\ run[s].job = "issue_rankings"
      BY <1>1, <1>4, <2>2
    <3> QED
      BY <1>1, <3>1, NewRowsType
  <2> QED
    BY <2>1, <2>2
<1>7. faults' \in 0..MaxFaults /\ UNCHANGED <<plan, issue, link, ranked, jobRuns>>
  BY DEF Saves
<1>8. plan' \in Plans /\ link' \in [Issues -> Links \cup {Gone}] /\ ranked' \in 0..MaxRankings
      /\ jobRuns' \subseteq 1..ranked' /\ ranked <= ranked' /\ Shape(r, ranked')
  BY <1>3, <1>7, Limits DEF TypeInv, JobsTypeOK
<1> QED
  BY <1>3, <1>5, <1>6, <1>7, <1>8, OneRun

-----------------------------------------------------------------------------
(* A day *)

\* Runs keep their work, and what they wrote gets older.
LEMMA DayOfRun ==
  ASSUME TypeInv, Day, NEW s \in Slots
  PROVE  /\ run'[s] \in Run /\ Shape(run'[s], ranked)
         /\ run'[s].job = run[s].job /\ run'[s].stage = run[s].stage /\ run'[s].at = run[s].at
         /\ run[s].age < MaxLag /\ run'[s].age = IF Busy(s) THEN run[s].age + 1 ELSE run[s].age
         /\ \A i \in Issues : run'[s].writes[i] = Aged(run[s].writes[i])
<1>1. run[s] \in Run /\ Shape(run[s], ranked) /\ run[s].age < MaxLag
  BY Kinds DEF Day
<1>2. CASE ~Busy(s)
  <2>1. run[s] = Idle /\ run'[s] = Idle
    BY <1>2 DEF Busy, Day
  <2> QED
    BY <1>1, <2>1, <1>2 DEF Idle, NoWrites, Aged
<1>3. CASE Busy(s)
  <2>1. PICK w : w = [i \in Issues |-> Aged(run[s].writes[i])]
    OBVIOUS
  <2>2. run'[s] = [run[s] EXCEPT !.age = run[s].age + 1, !.writes = w]
    BY <1>1, <1>3, <2>1 DEF Day, Run
  <2>3. w \in [Issues -> Links \cup {Gone}]
    BY <1>1, <2>1, AgedRow DEF Run
  <2>4. run[s].age + 1 \in 0..MaxLag
    BY <1>1, Limits DEF Run
  <2>5. run'[s] \in Run
    BY <1>1, <2>2, <2>3, <2>4 DEF Run
  <2>6. /\ run'[s].job = run[s].job /\ run'[s].stage = run[s].stage /\ run'[s].at = run[s].at
        /\ run'[s].age = run[s].age + 1 /\ run'[s].writes = w /\ run'[s].todo = run[s].todo
        /\ run'[s].wants = run[s].wants /\ run'[s].items = run[s].items
        /\ run'[s].applied = run[s].applied /\ run'[s].status = run[s].status
    BY <1>1, <2>2 DEF Run
  <2>7. Shape(run'[s], ranked)
    BY <1>1, <1>3, <2>6 DEF Shape, Busy
  <2> QED
    BY <1>1, <1>3, <2>1, <2>5, <2>6, <2>7
<1> QED
  BY <1>2, <1>3

LEMMA DayOfRows ==
  ASSUME TypeInv, Day
  PROVE  /\ link' \in [Issues -> Links \cup {Gone}]
         /\ \A i \in Issues : link'[i] = Aged(link[i])
         /\ board' \in [Boards -> SUBSET Rows]
         /\ \A b \in Boards : \A q \in board'[b] : \E r \in board[b] :
              q.item = r.item /\ q.at = r.at /\ q.age = Older(r.age)
         /\ \A b \in Boards : \A r \in board[b] : \E q \in board'[b] : q.at = r.at
<1>1. link \in [Issues -> Links \cup {Gone}] /\ board \in [Boards -> SUBSET Rows]
  BY DEF TypeInv, JobsTypeOK
<1>2. \A i \in Issues : link'[i] = Aged(link[i])
  BY DEF Day
<1>4. link' \in [Issues -> Links \cup {Gone}]
  BY <1>1, AgedRow DEF Day
<1>5. \A b \in Boards : board'[b] = {[r EXCEPT !.age = Older(r.age)] : r \in board[b]}
  BY DEF Day
<1>6. \A r \in Rows : /\ [r EXCEPT !.age = Older(r.age)] \in Rows
                      /\ [r EXCEPT !.age = Older(r.age)].item = r.item
                      /\ [r EXCEPT !.age = Older(r.age)].at = r.at
                      /\ [r EXCEPT !.age = Older(r.age)].age = Older(r.age)
  BY OlderAges DEF Rows
<1>7. board' \in [Boards -> SUBSET Rows]
  <2>1. board' = [b \in Boards |-> board'[b]]
    BY DEF Day
  <2>2. \A b \in Boards : board'[b] \in SUBSET Rows
    BY <1>1, <1>5, <1>6
  <2> QED
    BY <2>1, <2>2
<1>8. ASSUME NEW b \in Boards, NEW q \in board'[b]
      PROVE  \E r \in board[b] : q.item = r.item /\ q.at = r.at /\ q.age = Older(r.age)
  <2>1. PICK r \in board[b] : q = [r EXCEPT !.age = Older(r.age)]
    BY <1>5
  <2>2. r \in Rows
    BY <1>1
  <2> QED
    BY <1>6, <2>1, <2>2
<1>9. \A b \in Boards : \A r \in board[b] : \E q \in board'[b] : q.at = r.at
  BY <1>1, <1>5, <1>6
<1> QED
  BY <1>2, <1>4, <1>7, <1>8, <1>9

LEMMA DayType == TypeInv /\ Day => TypeInv'
<1> SUFFICES ASSUME TypeInv, Day PROVE TypeInv'
  OBVIOUS
<1>1. UNCHANGED <<plan, issue, ranked, jobRuns, faults>>
  BY DEF Day
<1>2. run' \in [Slots -> Run]
  <2>1. run' = [s \in Slots |-> run'[s]]
    BY DEF Day
  <2> QED
    BY <2>1, DayOfRun
<1>3. \A s \in Slots : Shape(run'[s], ranked')
  BY <1>1, DayOfRun
<1>4. \A r \in board'["issue_rankings"] : r.item \in Issues /\ issue'[r.item] # Gone
  BY <1>1, DayOfRows DEF TypeInv, JobsTypeOK
<1>5. \A s \in Slots : /\ run'[s].job \in JobNames \cup {"none"}
                       /\ run'[s].age \in 0..MaxLag /\ run'[s].at \in 0..MaxRankings
                       /\ run'[s].todo \subseteq Issues
                       /\ run'[s].writes \in [Issues -> Links \cup {Gone}]
  BY <1>2 DEF Run
<1>6. \A s \in Slots : run'[s].wants \in run'[s].todo \cup {Gone}
  BY <1>3 DEF Shape, Idle
<1>7. \A b \in Boards : board'[b] \subseteq Rows
  BY DayOfRows
<1> QED
  BY <1>1, <1>2, <1>3, <1>4, <1>5, <1>6, <1>7, DayOfRows DEF TypeInv, JobsTypeOK

-----------------------------------------------------------------------------
(* The desk *)

LEMMA DeskType ==
  ASSUME TypeInv, NEW i \in Issues, DeleteIssue(i) \/ SetStatus(i)
  PROVE  TypeInv'
<1>1. issue \in [Issues -> {"active", "closed", Gone}] /\ link \in [Issues -> Links \cup {Gone}]
      /\ board \in [Boards -> SUBSET Rows]
      /\ \A r \in board["issue_rankings"] : r.item \in Issues /\ issue[r.item] # Gone
  BY DEF TypeInv, JobsTypeOK
<1>2. UNCHANGED <<plan, run, ranked, jobRuns, faults>>
  BY DEF DeleteIssue, SetStatus
<1>3. /\ issue' \in [Issues -> {"active", "closed", Gone}] /\ link' \in [Issues -> Links \cup {Gone}]
      /\ board' \in [Boards -> SUBSET Rows]
      /\ \A r \in board'["issue_rankings"] : r.item \in Issues /\ issue'[r.item] # Gone
  <2>1. CASE DeleteIssue(i)
    BY <1>1, <2>1 DEF DeleteIssue
  <2>2. CASE SetStatus(i)
    BY <1>1, <2>2, GoneAssumption DEF SetStatus
  <2> QED
    BY <2>1, <2>2
<1> QED
  BY <1>2, <1>3 DEF TypeInv, JobsTypeOK

LEMMA StepTypeInv == TypeInv /\ [Next]_vars => TypeInv'
<1> SUFFICES ASSUME TypeInv, [Next]_vars PROVE TypeInv'
  OBVIOUS
<1>1. CASE UNCHANGED vars
  BY <1>1 DEF vars, TypeInv, JobsTypeOK
<1>2. CASE Day
  BY <1>2, DayType
<1>3. ASSUME NEW s \in Slots, Proceed(s) PROVE TypeInv'
  <2>1. CASE Cool(s) \/ Cooled(s)
    BY <2>1, ExecuteType
  <2>2. CASE Closed(s) \/ Report(s) \/ SaveFails(s)
    BY <2>2, ReturnsType
  <2>3. CASE Match(s)
    BY <2>3, MatchType
  <2>4. CASE Read(s)
    BY <2>4, ReadType
  <2>5. CASE Save(s)
    BY <2>5, SaveSaves, SaveType
  <2>6. ASSUME NEW i \in Issues, UpdateRow(s, i) \/ Refresh(s, i) \/ RefreshFails(s, i) \/ Wait(s, i)
        PROVE  TypeInv'
    BY <2>6, WritesType, RolledBackTypes, WaitType
  <2>7. CASE Victim(s)
    BY <2>7, VictimType
  <2>8. CASE Record(s)
    BY <2>8, RecordType
  <2>9. CASE Persisted(s)
    BY <2>9, RolledBackTypes
  <2> QED
    BY <1>3, <2>1, <2>2, <2>3, <2>4, <2>5, <2>6, <2>7, <2>8, <2>9 DEF Proceed
<1>4. ASSUME NEW s \in Slots, Crash(s) \/ CommitFails(s) \/ \E j \in JobNames : Start(s, j)
      PROVE  TypeInv'
  BY <1>4, RecordType, Failing, SaveType, LosesType, StartType
<1>5. ASSUME NEW i \in Issues, DeleteIssue(i) \/ SetStatus(i) PROVE TypeInv'
  BY <1>5, DeskType
<1> QED
  BY <1>1, <1>2, <1>3, <1>4, <1>5 DEF Next

\* Every variable keeps its type, and a snapshot is of an issue that exists.
THEOREM TypeCorrect == Spec => []JobsTypeOK
<1>1. TypeInv => JobsTypeOK
  BY DEF TypeInv
<1> QED
  BY <1>1, InitTypeInv, StepTypeInv, PTL DEF Spec

-----------------------------------------------------------------------------
(* What steps do to runs and rows *)

AtWork(s) == run[s].stage \in {"read", "save"}

\* r may be the next state of the run s: it keeps its writes or gives them up, and a
\* ranking run that goes on is the run it was.
Goes(s, r) ==
  /\ r.writes = NoWrites \/ (r.writes = run[s].writes /\ r.job = run[s].job)
  /\ r.stage \in {"read", "save"} =>
       AtWork(s) /\ r.job = run[s].job /\ r.at = run[s].at /\ r.age = run[s].age

\* Steps of a run, but those that start it, write a row, or save a ranking.
Moves(s) ==
  \/ Cool(s) \/ Cooled(s) \/ Closed(s) \/ Match(s) \/ Persisted(s) \/ Report(s) \/ Read(s)
  \/ SaveFails(s) \/ (\E i \in Issues : RefreshFails(s, i) \/ Wait(s, i))
  \/ Victim(s) \/ Record(s) \/ Crash(s) \/ Loses(s)

LEMMA Steps ==
  ASSUME TypeInv, Next
  PROVE  \/ Day \/ (\E i \in Issues : DeleteIssue(i) \/ SetStatus(i))
         \/ \E s \in Slots : \/ Moves(s) \/ Saves(s)
                             \/ \E i \in Issues : UpdateRow(s, i) \/ Refresh(s, i)
                             \/ \E j \in JobNames : Start(s, j)
BY SaveSaves, Failing DEF Next, Proceed, Moves

LEMMA ReturnGoes ==
  ASSUME TypeInv, NEW s \in Slots, NEW ok \in BOOLEAN, NEW applied, Return(s, ok, applied)
  PROVE  \E r : run' = [run EXCEPT ![s] = r] /\ Goes(s, r) /\ r.writes = NoWrites
                /\ r.stage = "record"
<1>1. PICK r : r = [Returned(s, ok) EXCEPT !.applied = applied]
  OBVIOUS
<1>2. run[s] \in Run
  BY Kinds
<1>3. r.writes = NoWrites /\ r.stage = "record"
  BY <1>1, <1>2 DEF Returned, Run
<1> QED
  BY <1>1, <1>3 DEF Return, Goes

LEMMA RolledBackGoes ==
  ASSUME TypeInv, NEW s \in Slots, NEW applied,
         run' \in {[run EXCEPT ![s] = RolledBack(s)],
                   [run EXCEPT ![s] = [RolledBack(s) EXCEPT !.applied = applied]]}
  PROVE  \E r : run' = [run EXCEPT ![s] = r] /\ Goes(s, r) /\ r.writes = NoWrites
                /\ r.stage = "report"
<1>1. run[s] \in Run
  BY Kinds
<1>2. PICK r : r \in {RolledBack(s), [RolledBack(s) EXCEPT !.applied = applied]}
               /\ run' = [run EXCEPT ![s] = r]
  OBVIOUS
<1>3. r.writes = NoWrites /\ r.stage = "report"
  BY <1>1, <1>2 DEF RolledBack, Run
<1> QED
  BY <1>2, <1>3 DEF Goes

\* Only a commit changes rows, and it ends the transaction.
LEMMA MoveOfRun ==
  ASSUME TypeInv, NEW s \in Slots, Moves(s)
  PROVE  /\ \E r : /\ run' = [run EXCEPT ![s] = r] /\ Goes(s, r)
                   /\ link' # link => r.writes = NoWrites
         /\ link' \in {link, Committed(s)}
         /\ UNCHANGED <<issue, board, ranked>>
<1>0. run[s] \in Run /\ run \in [Slots -> Run]
  BY Kinds DEF TypeInv
<1>1. CASE Cool(s) \/ Cooled(s)
  <2>1. PICK statement \in {"cooling", "closing"} : Execute(s, statement)
    BY <1>1 DEF Cool, Cooled
  <2>2. PICK r : r = [run[s] EXCEPT !.todo = {i \in Issues : Matches(s, statement, Seen(s, i))},
                                   !.stage = statement]
    OBVIOUS
  <2>3. run' = [run EXCEPT ![s] = r]
    BY <1>0, <2>1, <2>2 DEF Execute, Run
  <2>4. r.writes = run[s].writes /\ r.stage = statement /\ r.job = run[s].job
    BY <1>0, <2>2 DEF Run
  <2> QED
    BY <1>1, <2>3, <2>4 DEF Cool, Cooled, Goes
<1>2. CASE Closed(s)
  <2>1. Return(s, TRUE, TRUE) /\ link' = Committed(s) /\ UNCHANGED <<issue, board, ranked>>
    BY <1>2 DEF Closed
  <2> QED
    BY <2>1, ReturnGoes
<1>11. CASE Loses(s)
  <2>1. link' \in {link, Committed(s)} /\ UNCHANGED <<issue, board, ranked>>
    BY <1>11 DEF Loses
  <2>2. PICK applied \in BOOLEAN :
          \/ Return(s, FALSE, applied)
          \/ run' = [run EXCEPT ![s] = [RolledBack(s) EXCEPT !.applied = applied]]
    BY <1>11 DEF Loses
  <2>3. \E r : run' = [run EXCEPT ![s] = r] /\ Goes(s, r) /\ r.writes = NoWrites
    <3>1. CASE Return(s, FALSE, applied)
      BY <3>1, ReturnGoes
    <3>2. CASE run' = [run EXCEPT ![s] = [RolledBack(s) EXCEPT !.applied = applied]]
      <4>1. run' \in {[run EXCEPT ![s] = RolledBack(s)],
                      [run EXCEPT ![s] = [RolledBack(s) EXCEPT !.applied = applied]]}
        BY <3>2
      <4> QED
        BY <4>1, RolledBackGoes
    <3> QED
      BY <2>2, <3>1, <3>2
  <2> QED
    BY <2>1, <2>3
<1>3. CASE Match(s)
  <2>1. PICK S : run' = [run EXCEPT ![s].todo = S, ![s].stage = "persist"]
    BY <1>3 DEF Match
  <2>2. PICK r : r = [run[s] EXCEPT !.todo = S, !.stage = "persist"]
    OBVIOUS
  <2>3. run' = [run EXCEPT ![s] = r]
    BY <1>0, <2>1, <2>2 DEF Run
  <2>4. r.writes = run[s].writes /\ r.stage = "persist" /\ r.job = run[s].job
    BY <1>0, <2>2 DEF Run
  <2> QED
    BY <1>3, <2>3, <2>4 DEF Match, Goes
<1>4. CASE Persisted(s)
  <2>1. link' = Committed(s) /\ UNCHANGED <<issue, board, ranked>>
        /\ run' = [run EXCEPT ![s] = [RolledBack(s) EXCEPT !.applied = TRUE]]
    BY <1>4 DEF Persisted
  <2>2. \E r : run' = [run EXCEPT ![s] = r] /\ Goes(s, r) /\ r.writes = NoWrites
    <3>1. run' \in {[run EXCEPT ![s] = RolledBack(s)],
                    [run EXCEPT ![s] = [RolledBack(s) EXCEPT !.applied = TRUE]]}
      BY <2>1
    <3> QED
      BY <3>1, RolledBackGoes
  <2> QED
    BY <2>1, <2>2
<1>5. CASE Report(s) \/ SaveFails(s)
  <2>1. \E ok \in BOOLEAN : \E applied : Return(s, ok, applied)
    BY <1>5 DEF Report, SaveFails
  <2>2. UNCHANGED <<link, issue, board, ranked>>
    BY <1>5 DEF Report, SaveFails
  <2> QED
    BY <2>1, <2>2, ReturnGoes
<1>6. CASE Read(s)
  <2>1. UNCHANGED <<link, issue, board, ranked>> /\ AtWork(s)
    BY <1>6 DEF Read, AtWork
  <2>2. CASE Return(s, TRUE, TRUE)
    BY <2>1, <2>2, ReturnGoes
  <2>3. CASE \E R \in Ranked(s) : run' = [run EXCEPT ![s].items = R, ![s].stage = "save"]
    <3>1. PICK R : run' = [run EXCEPT ![s].items = R, ![s].stage = "save"]
      BY <2>3
    <3>2. PICK r : r = [run[s] EXCEPT !.items = R, !.stage = "save"]
      OBVIOUS
    <3>3. run' = [run EXCEPT ![s] = r]
      BY <1>0, <3>1, <3>2 DEF Run
    <3>4. r.writes = run[s].writes /\ r.job = run[s].job /\ r.at = run[s].at /\ r.age = run[s].age
      BY <1>0, <3>2 DEF Run
    <3> QED
      BY <2>1, <3>3, <3>4 DEF Goes
  <2> QED
    BY <1>6, <2>2, <2>3 DEF Read
<1>7. CASE \E i \in Issues : RefreshFails(s, i)
  <2>1. run' = [run EXCEPT ![s] = RolledBack(s)] /\ UNCHANGED <<link, issue, board, ranked>>
    BY <1>7 DEF RefreshFails
  <2> QED
    BY <2>1, RolledBackGoes
<1>8. CASE \E i \in Issues : Wait(s, i)
  <2>1. PICK i \in Issues : Wait(s, i)
    BY <1>8
  <2>2. PICK r : r = [run[s] EXCEPT !.wants = i]
    OBVIOUS
  <2>3. run' = [run EXCEPT ![s] = r]
    BY <1>0, <2>1, <2>2 DEF Wait, Run
  <2>4. /\ r.writes = run[s].writes /\ r.stage = run[s].stage
        /\ r.job = run[s].job /\ r.at = run[s].at /\ r.age = run[s].age
    BY <1>0, <2>2 DEF Run
  <2> QED
    BY <2>1, <2>3, <2>4 DEF Wait, Goes, AtWork
<1>9. CASE Victim(s)
  <2>1. UNCHANGED <<link, issue, board, ranked>>
    BY <1>9 DEF Victim
  <2>2. Return(s, FALSE, FALSE) \/ run' = [run EXCEPT ![s] = RolledBack(s)]
    BY <1>9 DEF Victim
  <2> QED
    BY <2>1, <2>2, ReturnGoes, RolledBackGoes
<1>10. CASE Record(s) \/ Crash(s)
  BY <1>10 DEF Record, Crash, Goes, Idle
<1> QED
  BY <1>1, <1>2, <1>3, <1>4, <1>5, <1>6, <1>7, <1>8, <1>9, <1>10, <1>11 DEF Moves

-----------------------------------------------------------------------------
(* Rows that runs wrote *)

\* A row is locked by the run that wrote it.
Apart == \A s \in Slots : \A r \in Slots \ {s} : Written(s) \cap Written(r) = {}

\* What a run wrote may replace the row whenever it commits: nobody else changes a row
\* it wrote, and both get older on the same days.
Earned(row, write) ==
  \/ write.status = row.status
  \/ write.status = "COOLDOWN" /\ row.age > CoolAfter
  \/ write.status = "CLOSED" /\ row.age > CloseAfter

WritesEarned ==
  \A s \in Slots : \A i \in Written(s) :
    /\ link[i] # Gone /\ Earned(link[i], run[s].writes[i])
    /\ run[s].job = "keyword_state_cleanup" => run[s].writes[i].age = link[i].age

LockInv == TypeInv /\ Apart /\ WritesEarned

LEMMA InitLockInv == Init => LockInv
<1> SUFFICES ASSUME Init PROVE LockInv
  OBVIOUS
<1>1. \A s \in Slots : Written(s) = {}
  BY DEF Init, Written, Idle, NoWrites
<1> QED
  BY <1>1, InitTypeInv DEF LockInv, Apart, WritesEarned

\* Every other run keeps the rows it wrote, and they keep their versions.
LEMMA MoveKeepsLocks ==
  ASSUME LockInv, NEW s \in Slots, Moves(s)
  PROVE  (Apart /\ WritesEarned)'
<1>1. TypeInv /\ run \in [Slots -> Run]
  BY DEF LockInv, TypeInv
<1>2. PICK r : run' = [run EXCEPT ![s] = r] /\ Goes(s, r) /\ (link' # link => r.writes = NoWrites)
  BY <1>1, MoveOfRun
<1>3. link' \in {link, Committed(s)}
  BY <1>1, MoveOfRun
<1>4. \A t \in Slots : run'[t] = IF t = s THEN r ELSE run[t]
  BY <1>1, <1>2
<1>5. \A t \in Slots : Written(t)' \subseteq Written(t)
  BY <1>2, <1>4 DEF Written, Goes, NoWrites
<1>6. Apart'
  BY <1>5 DEF Apart, LockInv
<1>7. ASSUME NEW t \in Slots, NEW i \in Written(t)'
      PROVE  /\ link'[i] # Gone /\ Earned(link'[i], run'[t].writes[i])
             /\ run'[t].job = "keyword_state_cleanup" => run'[t].writes[i].age = link'[i].age
  <2>1. i \in Issues /\ i \in Written(t)
    BY <1>4, <1>5, <1>7 DEF Written, NoWrites
  <2>2. run'[t].writes[i] = run[t].writes[i] /\ run'[t].job = run[t].job
    BY <1>2, <1>4, <1>7 DEF Written, Goes, NoWrites
  <2>3. link'[i] = link[i]
    <3>1. CASE t = s
      BY <1>2, <1>4, <1>7, <3>1 DEF Written, NoWrites
    <3>2. CASE t # s
      <4>1. i \in Issues /\ i \in Written(t) /\ i \notin Written(s)
        BY <1>5, <1>7, <3>2 DEF Written, LockInv, Apart
      <4> QED
        BY <1>3, <4>1 DEF Committed, Seen
    <3> QED
      BY <3>1, <3>2
  <2> QED
    BY <1>5, <1>7, <2>2, <2>3 DEF WritesEarned, LockInv
<1> QED
  BY <1>6, <1>7 DEF WritesEarned

\* The lock is free, and the row was compared again.
LEMMA WriteKeepsLocks ==
  ASSUME LockInv, NEW s \in Slots, NEW i \in Issues, UpdateRow(s, i) \/ Refresh(s, i)
  PROVE  (Apart /\ WritesEarned)'
<1>1. TypeInv /\ run \in [Slots -> Run] /\ run[s] \in Run /\ UNCHANGED link
      /\ link \in [Issues -> Links \cup {Gone}]
  BY Kinds DEF LockInv, TypeInv, JobsTypeOK, UpdateRow, Refresh
<1>2. \A t \in Slots \ {s} : i \notin Written(t)
  BY DEF UpdateRow, Refresh, CanLock, LockedByOther
<1>3. PICK row \in Links \cup {Gone} :
        /\ run' = [run EXCEPT ![s] = Wrote(s, i, row)]
        /\ row # Gone => /\ link[i] # Gone /\ Earned(link[i], row)
                         /\ run[s].job = "keyword_state_cleanup" => row.age = link[i].age
  <2>1. CASE UpdateRow(s, i)
    <3>1. PICK row \in Links \cup {Gone} :
            /\ run' = [run EXCEPT ![s] = Wrote(s, i, row)]
            /\ row = IF StillMatches(s, i) THEN [Seen(s, i) EXCEPT !.status = NextStatus(s)]
                                           ELSE run[s].writes[i]
      BY <1>1, <2>1, UpdateWrites
    <3>2. CASE ~StillMatches(s, i)
      BY <3>1, <3>2 DEF LockInv, WritesEarned, Written
    <3>3. CASE StillMatches(s, i)
      <4>1. run[s].job = "keyword_state_cleanup" /\ run[s].stage \in {"cooling", "closing"}
        BY <1>1, <2>1, Kinds DEF UpdateRow
      <4>2. Seen(s, i) \in Links
        BY <1>1, <3>3, SeenType DEF StillMatches, Matches
      <4>3. link[i] # Gone /\ link[i] \in Links /\ Seen(s, i).age = link[i].age
        BY <1>1, <4>1, <4>2, GoneAssumption DEF Seen, LockInv, WritesEarned, Written
      <4>4. row.status = NextStatus(s) /\ row.age = link[i].age /\ NextStatus(s) \in Statuses
        BY <3>1, <3>3, <4>1, <4>2, <4>3, LinkStatus DEF NextStatus, Statuses
      <4>5. run[s].age \in Nat /\ link[i].age \in Nat
        BY <1>1, <4>3, Limits DEF Run, Links, Ages
      <4>6. Earned(link[i], row)
        <5>1. CASE run[s].stage = "cooling"
          BY <3>3, <4>3, <4>4, <4>5, <5>1, Limits
             DEF StillMatches, Matches, Unseen, NextStatus, Earned
        <5>2. CASE run[s].stage = "closing"
          BY <3>3, <4>3, <4>4, <4>5, <5>2, Limits
             DEF StillMatches, Matches, Unseen, NextStatus, Earned
        <5> QED
          BY <4>1, <5>1, <5>2
      <4> QED
        BY <3>1, <4>3, <4>4, <4>6
    <3> QED
      BY <3>2, <3>3
  <2>2. CASE Refresh(s, i)
    <3>1. link[i] \in Links /\ run[s].job = "news_collect"
      BY <1>1, <2>2, Kinds DEF Refresh
    <3>2. [link[i] EXCEPT !.age = 0] \in Links
          /\ [link[i] EXCEPT !.age = 0].status = link[i].status
      BY <3>1, LinkStatus DEF Statuses
    <3>3. run' = [run EXCEPT ![s] = Wrote(s, i, [link[i] EXCEPT !.age = 0])]
      BY <1>1, <2>2 DEF Refresh, Run, Wrote
    <3> QED
      BY <2>2, <3>1, <3>2, <3>3 DEF Refresh, Earned
  <2> QED
    BY <2>1, <2>2
<1>4. \A t \in Slots : run'[t] = IF t = s THEN Wrote(s, i, row) ELSE run[t]
  BY <1>1, <1>3
<1>5. Wrote(s, i, row).writes = [run[s].writes EXCEPT ![i] = row]
      /\ Wrote(s, i, row).job = run[s].job
  BY <1>1 DEF Wrote, Run
<1>6. \A t \in Slots \ {s} : Written(t)' = Written(t)
  BY <1>4 DEF Written
<1>7. Written(s)' \subseteq Written(s) \cup {i}
  BY <1>1, <1>4, <1>5 DEF Written, Run
<1>8. Apart'
  BY <1>2, <1>6, <1>7 DEF Apart, LockInv
<1>9. ASSUME NEW t \in Slots, NEW k \in Written(t)'
      PROVE  /\ link'[k] # Gone /\ Earned(link'[k], run'[t].writes[k])
             /\ run'[t].job = "keyword_state_cleanup" => run'[t].writes[k].age = link'[k].age
  <2>1. CASE t = s /\ k = i
    <3>1. run'[t].writes[k] = row /\ run'[t].job = run[s].job /\ row # Gone
      <4>1. run'[s].writes = [run[s].writes EXCEPT ![i] = row] /\ run'[s].job = run[s].job
        BY <1>4, <1>5
      <4>2. run[s].writes \in [Issues -> Links \cup {Gone}]
        BY <1>1 DEF Run
      <4>3. run'[t].writes[k] # Gone
        BY <1>9 DEF Written
      <4> QED
        BY <2>1, <4>1, <4>2, <4>3
    <3>2. link'[k] = link[i]
      BY <1>1, <2>1
    <3> QED
      BY <1>3, <2>1, <3>1, <3>2 DEF Earned
  <2>2. CASE ~(t = s /\ k = i)
    <3>1. k \in Written(t) /\ run'[t].writes[k] = run[t].writes[k] /\ run'[t].job = run[t].job
      BY <1>1, <1>4, <1>5, <1>6, <1>7, <1>9, <2>2 DEF Written, Run
    <3> QED
      BY <1>1, <3>1 DEF LockInv, WritesEarned
  <2> QED
    BY <2>1, <2>2
<1> QED
  BY <1>8, <1>9 DEF WritesEarned

LEMMA StartKeepsLocks ==
  ASSUME LockInv, NEW s \in Slots, NEW j \in JobNames, Start(s, j)
  PROVE  (Apart /\ WritesEarned)'
<1>1. run \in [Slots -> Run] /\ UNCHANGED link
  BY DEF LockInv, TypeInv, Start
<1>2. PICK r : r = [Idle EXCEPT !.job = j, !.stage = FirstStage[j], !.at = ranked']
  OBVIOUS
<1>3. r.writes = NoWrites
  BY <1>2 DEF Idle
<1>4. \A t \in Slots : run'[t] = IF t = s THEN r ELSE run[t]
  BY <1>1, <1>2 DEF Start
<1>5. \A t \in Slots : Written(t)' \subseteq Written(t) /\ Written(s)' = {}
  BY <1>3, <1>4 DEF Written, NoWrites
<1>6. Apart'
  BY <1>5 DEF Apart, LockInv
<1>7. WritesEarned'
  BY <1>1, <1>4, <1>5 DEF WritesEarned, LockInv
<1> QED
  BY <1>6, <1>7

LEMMA DayKeepsLocks ==
  ASSUME LockInv, Day
  PROVE  (Apart /\ WritesEarned)'
<1>1. TypeInv /\ link \in [Issues -> Links \cup {Gone}]
  BY DEF LockInv, TypeInv, JobsTypeOK
<1>2. \A s \in Slots : run[s] \in Run /\ run'[s].job = run[s].job
        /\ \A i \in Issues : run'[s].writes[i] = Aged(run[s].writes[i])
  BY <1>1, Kinds, DayOfRun
<1>3. \A s \in Slots : Written(s)' = Written(s)
  BY <1>2, AgedRow DEF Written, Run
<1>4. Apart'
  BY <1>3 DEF Apart, LockInv
<1>5. ASSUME NEW s \in Slots, NEW i \in Written(s)'
      PROVE  /\ link'[i] # Gone /\ Earned(link'[i], run'[s].writes[i])
             /\ run'[s].job = "keyword_state_cleanup" => run'[s].writes[i].age = link'[i].age
  <2>1. i \in Issues /\ i \in Written(s) /\ run[s].writes[i] \in Links /\ link[i] \in Links
        /\ link[i] # Gone /\ run[s].writes[i] # Gone
    BY <1>1, <1>2, <1>3, <1>5 DEF Written, LockInv, WritesEarned, Run
  <2>2. link'[i] = Aged(link[i]) /\ run'[s].writes[i] = Aged(run[s].writes[i])
    BY <1>1, <1>2, <2>1, DayOfRows
  <2>3. /\ link'[i] # Gone /\ link'[i].status = link[i].status /\ link'[i].age = Older(link[i].age)
        /\ run'[s].writes[i].status = run[s].writes[i].status
        /\ run'[s].writes[i].age = Older(run[s].writes[i].age)
    BY <2>1, <2>2, AgedRow
  <2>4. /\ Earned(link[i], run[s].writes[i])
        /\ run[s].job = "keyword_state_cleanup" => run[s].writes[i].age = link[i].age
    BY <2>1 DEF LockInv, WritesEarned
  <2>5. link[i].age \in Ages /\ link[i].age <= Older(link[i].age) /\ Older(link[i].age) \in Ages
    BY <2>1, OlderAges DEF Links
  <2> QED
    BY <1>2, <2>3, <2>4, <2>5, Limits DEF Earned, Ages
<1> QED
  BY <1>4, <1>5 DEF WritesEarned

LEMMA StepLockInv == LockInv /\ [Next]_vars => LockInv'
<1> SUFFICES ASSUME LockInv, [Next]_vars PROVE (Apart /\ WritesEarned)'
  BY StepTypeInv DEF LockInv
<1>1. CASE UNCHANGED vars
  BY <1>1 DEF vars, LockInv, Apart, WritesEarned, Written
<1>2. CASE Day
  BY <1>2, DayKeepsLocks
<1>3. ASSUME NEW s \in Slots, Moves(s) PROVE (Apart /\ WritesEarned)'
  BY <1>3, MoveKeepsLocks
<1>4. ASSUME NEW s \in Slots, NEW i \in Issues, UpdateRow(s, i) \/ Refresh(s, i)
      PROVE  (Apart /\ WritesEarned)'
  BY <1>4, WriteKeepsLocks
<1>5. ASSUME NEW s \in Slots, Saves(s) PROVE (Apart /\ WritesEarned)'
  <2>1. TypeInv /\ run \in [Slots -> Run] /\ UNCHANGED link
    BY <1>5 DEF LockInv, TypeInv, Saves
  <2>2. PICK r : run' = [run EXCEPT ![s] = r] /\ r.writes = NoWrites
    BY <1>5, <2>1, ReturnGoes DEF Saves
  <2>3. \A t \in Slots : run'[t] = IF t = s THEN r ELSE run[t]
    BY <2>1, <2>2
  <2>4. \A t \in Slots : Written(t)' \subseteq Written(t) /\ Written(s)' = {}
    BY <2>2, <2>3 DEF Written, NoWrites
  <2> QED
    BY <2>1, <2>3, <2>4 DEF Apart, WritesEarned, LockInv
<1>6. ASSUME NEW s \in Slots, NEW j \in JobNames, Start(s, j) PROVE (Apart /\ WritesEarned)'
  BY <1>6, StartKeepsLocks
<1>7. ASSUME NEW i \in Issues, DeleteIssue(i) PROVE (Apart /\ WritesEarned)'
  <2>1. UNCHANGED run /\ \A k \in Issues : k # i => link'[k] = link[k]
    BY <1>7 DEF DeleteIssue, LockInv, TypeInv, JobsTypeOK
  <2>2. \A s \in Slots : Written(s)' = Written(s) /\ i \notin Written(s) /\ Written(s) \subseteq Issues
    BY <1>7, <2>1 DEF DeleteIssue, Written
  <2> QED
    BY <2>1, <2>2 DEF Apart, WritesEarned, LockInv
<1>8. ASSUME NEW i \in Issues, SetStatus(i) PROVE (Apart /\ WritesEarned)'
  BY <1>8 DEF SetStatus, LockInv, Apart, WritesEarned, Written
<1> QED
  BY <1>1, <1>2, <1>3, <1>4, <1>5, <1>6, <1>7, <1>8, Steps DEF LockInv

\* A row of job_runs that says "success" is of a run whose changes were committed, and
\* no row is locked by two runs.
THEOREM Committing == Spec => []SuccessIsCommitted
<1>1. LockInv => SuccessIsCommitted
  <2> SUFFICES ASSUME LockInv, NEW s \in Slots
               PROVE  run[s].status = "success" /\ run[s].job # "news_collect" => run[s].applied
    BY DEF SuccessIsCommitted, LockInv, Apart
  <2> QED
    BY DEF LockInv, TypeInv, Shape, Idle
<1> QED
  BY <1>1, InitLockInv, StepLockInv, PTL DEF Spec

\* A keyword is cooled down or closed only if it was not seen for that many days when
\* this is committed, although news_collect refreshes the same rows meanwhile.
THEOREM OnlyUnseen == Spec => NoFreshCooled
<1>1. ASSUME LockInv, [Next]_vars, NEW i \in Issues
      PROVE  /\ Becomes(i, "COOLDOWN") => link[i].age > CoolAfter
             /\ Becomes(i, "CLOSED") => link[i].age > CloseAfter
  <2>1. link \in [Issues -> Links \cup {Gone}] /\ TypeInv
    BY <1>1 DEF LockInv, TypeInv, JobsTypeOK
  <2>2. CASE link' = link
    BY <2>2 DEF Becomes
  <2>3. CASE Day
    <3>1. link'[i] = Aged(link[i])
      BY <2>1, <2>3, DayOfRows
    <3> QED
      BY <2>1, <3>1, AgedRow DEF Becomes
  <2>4. CASE \E k \in Issues : DeleteIssue(k)
    BY <2>1, <2>4 DEF DeleteIssue, Becomes
  <2>5. ASSUME NEW s \in Slots, link' = Committed(s)
        PROVE  /\ Becomes(i, "COOLDOWN") => link[i].age > CoolAfter
               /\ Becomes(i, "CLOSED") => link[i].age > CloseAfter
    <3>1. link'[i] = Seen(s, i)
      BY <2>5 DEF Committed
    <3>2. CASE i \notin Written(s)
      BY <3>1, <3>2 DEF Seen, Becomes
    <3>3. CASE i \in Written(s)
      BY <1>1, <3>1, <3>3 DEF Seen, Becomes, LockInv, WritesEarned, Earned
    <3> QED
      BY <3>2, <3>3
  <2>6. ASSUME NEW s \in Slots, Moves(s) PROVE link' \in {link, Committed(s)}
    BY <2>1, <2>6, MoveOfRun
  <2>7. \/ link' = link \/ Day \/ (\E k \in Issues : DeleteIssue(k)) \/ \E s \in Slots : Moves(s)
    <3>1. ASSUME NEW s \in Slots, NEW k \in Issues, UpdateRow(s, k) \/ Refresh(s, k)
          PROVE  link' = link
      BY <3>1 DEF UpdateRow, Refresh
    <3>2. ASSUME NEW s \in Slots, NEW j \in JobNames, Saves(s) \/ Start(s, j) PROVE link' = link
      BY <3>2 DEF Saves, Start
    <3>3. ASSUME NEW k \in Issues, SetStatus(k) PROVE link' = link
      BY <3>3 DEF SetStatus
    <3>4. CASE UNCHANGED vars
      BY <3>4 DEF vars
    <3>5. CASE Next
      <4>1. \/ Day \/ (\E k \in Issues : DeleteIssue(k) \/ SetStatus(k))
            \/ \E s \in Slots : \/ Moves(s) \/ Saves(s)
                                \/ \E k \in Issues : UpdateRow(s, k) \/ Refresh(s, k)
                                \/ \E j \in JobNames : Start(s, j)
        BY <2>1, <3>5, Steps
      <4> QED
        BY <3>1, <3>2, <3>3, <4>1
    <3> QED
      BY <1>1, <3>4, <3>5
  <2> QED
    BY <2>2, <2>3, <2>4, <2>5, <2>6, <2>7
<1>2. LockInv /\ [Next]_vars =>
        [\A i \in Issues : /\ Becomes(i, "COOLDOWN") => link[i].age > CoolAfter
                           /\ Becomes(i, "CLOSED") => link[i].age > CloseAfter]_vars
  BY <1>1
<1> QED
  BY <1>2, InitLockInv, StepLockInv, PTL DEF Spec, NoFreshCooled

-----------------------------------------------------------------------------
(* Rankings expire *)

ExpireInv == TypeInv /\ BoardsExpire

\* What a save leaves on a board, and what is new.
LEMMA SavedRows ==
  ASSUME TypeInv, NEW s \in Slots, Saves(s)
  PROVE  /\ run[s].job \in Boards /\ run[s].at \in 1..ranked /\ run[s].age \in 0..MaxLag
         /\ \A b \in Boards \ {run[s].job} : board'[b] = board[b]
         /\ \A r \in board'[run[s].job] :
              \/ r \in board[run[s].job] /\ r.age <= run[s].age + Retention
              \/ r \in NewRows(s) /\ r.at = run[s].at /\ r.age = run[s].age
         /\ \A r \in board[run[s].job] :
              r.age <= run[s].age + Retention => r \in board'[run[s].job]
         /\ NewRows(s) \subseteq board'[run[s].job] /\ \A r \in NewRows(s) : r.at = run[s].at
<1>1. run[s].job \in Boards /\ run[s].at \in 1..ranked /\ run[s] \in Run /\ run[s].stage = "save"
  BY Kinds DEF Saves
<1>2. board \in [Boards -> SUBSET Rows]
      /\ board' = [board EXCEPT ![run[s].job] = (board[run[s].job] \ OldRows(s)) \cup NewRows(s)]
  BY DEF Saves, Saved, TypeInv
<1>3. \A r \in Rows : r.age \in Nat
  BY Limits DEF Rows, Ages
<1>4. run[s].age \in 0..MaxLag /\ run[s].age \in Nat
  BY <1>1, Limits DEF Run
<1>5. \A r \in board[run[s].job] : r \in OldRows(s) <=> ~(r.age <= run[s].age + Retention)
  BY <1>1, <1>2, <1>3, <1>4, Limits DEF OldRows
<1>6. \A r \in NewRows(s) : r.at = run[s].at /\ r.age = run[s].age
  BY <1>1, NewRowsType
<1> QED
  BY <1>1, <1>2, <1>4, <1>5, <1>6

LEMMA BoardSteps ==
  ASSUME TypeInv, [Next]_vars
  PROVE  \/ board' = board \/ Day \/ (\E s \in Slots : Saves(s))
         \/ \E i \in Issues : DeleteIssue(i)
<1>1. ASSUME NEW s \in Slots, Moves(s) PROVE board' = board
  BY <1>1, MoveOfRun
<1>2. ASSUME NEW s \in Slots, NEW k \in Issues, UpdateRow(s, k) \/ Refresh(s, k)
      PROVE  board' = board
  BY <1>2 DEF UpdateRow, Refresh
<1>3. ASSUME NEW s \in Slots, NEW j \in JobNames, Start(s, j) PROVE board' = board
  BY <1>3 DEF Start
<1>4. ASSUME NEW k \in Issues, SetStatus(k) PROVE board' = board
  BY <1>4 DEF SetStatus
<1>5. CASE UNCHANGED vars
  BY <1>5 DEF vars
<1>6. CASE Next
  <2>1. \/ Day \/ (\E k \in Issues : DeleteIssue(k) \/ SetStatus(k))
        \/ \E s \in Slots : \/ Moves(s) \/ Saves(s)
                            \/ \E k \in Issues : UpdateRow(s, k) \/ Refresh(s, k)
                            \/ \E j \in JobNames : Start(s, j)
    BY <1>6, Steps
  <2> QED
    BY <1>1, <1>2, <1>3, <1>4, <2>1
<1> QED
  BY <1>5, <1>6

LEMMA StepExpireInv == ExpireInv /\ [Next]_vars => ExpireInv'
<1> SUFFICES ASSUME ExpireInv, [Next]_vars PROVE BoardsExpire'
  BY StepTypeInv DEF ExpireInv
<1>1. TypeInv /\ BoardsExpire /\ \A b \in Boards : \A r \in board[b] : r.age \in Ages
  BY DEF ExpireInv, TypeInv, JobsTypeOK, Rows
<1>2. CASE board' = board
  BY <1>1, <1>2 DEF BoardsExpire
<1>3. CASE Day
  <2> SUFFICES ASSUME NEW b \in Boards, NEW r \in board'[b], NEW q \in board'[b]
               PROVE  r.age <= q.age + Retention
    BY DEF BoardsExpire
  <2>1. PICK r0 \in board[b] : r.age = Older(r0.age)
    BY <1>1, <1>3, DayOfRows
  <2>2. PICK q0 \in board[b] : q.age = Older(q0.age)
    BY <1>1, <1>3, DayOfRows
  <2>3. r0.age <= q0.age + Retention /\ r0.age \in Ages /\ q0.age \in Ages
    BY <1>1 DEF BoardsExpire
  <2> QED
    BY <2>1, <2>2, <2>3, Limits DEF Older, Ages
<1>4. ASSUME NEW s \in Slots, Saves(s) PROVE BoardsExpire'
  <2> SUFFICES ASSUME NEW b \in Boards, NEW r \in board'[b], NEW q \in board'[b]
               PROVE  r.age <= q.age + Retention
    BY DEF BoardsExpire
  <2>1. CASE b # run[s].job
    BY <1>1, <1>4, <2>1, SavedRows DEF BoardsExpire
  <2>2. CASE b = run[s].job
    <3>1. run[s].age \in Nat /\ run[s].age <= Retention
      BY <1>1, <1>4, SavedRows, Limits
    <3>2. \/ r \in board[b] /\ r.age <= run[s].age + Retention
          \/ r.age = run[s].age
      BY <1>1, <1>4, <2>2, SavedRows
    <3>3. q \in board[b] \/ q.age = run[s].age
      BY <1>1, <1>4, <2>2, SavedRows
    <3> QED
      BY <1>1, <3>1, <3>2, <3>3, Limits DEF BoardsExpire, Ages
  <2> QED
    BY <2>1, <2>2
<1>5. ASSUME NEW i \in Issues, DeleteIssue(i) PROVE BoardsExpire'
  <2>1. \A b \in Boards : board'[b] \subseteq board[b]
    BY <1>1, <1>5 DEF DeleteIssue, TypeInv
  <2> QED
    BY <1>1, <2>1 DEF BoardsExpire
<1> QED
  BY <1>1, <1>2, <1>3, <1>4, <1>5, BoardSteps

\* Rankings expire when others are made: no two that are kept are further apart than
\* Retention, although runs take their time and overlap.
THEOREM Expiring == Spec => []BoardsExpire
<1>1. Init => ExpireInv
  BY InitTypeInv DEF Init, ExpireInv, BoardsExpire
<1>2. ExpireInv => BoardsExpire
  BY DEF ExpireInv
<1> QED
  BY <1>1, <1>2, StepExpireInv, PTL DEF Spec

-----------------------------------------------------------------------------
(* Boards in order *)

\* Rankings are as old as the order of their numbers says, and so are the runs that
\* have yet to save theirs, each against the rows of its board.
RowsInOrder ==
  \A b \in Boards : \A r \in board[b] :
    r.at <= ranked /\ \A q \in board[b] : r.at <= q.at => q.age <= r.age

RunsInOrder ==
  \A s, t \in Slots : AtWork(s) /\ AtWork(t) /\ run[s].at <= run[t].at => run[t].age <= run[s].age

RowsAndRuns ==
  \A s \in Slots : AtWork(s) => \A r \in board[run[s].job] :
    /\ r.at <= run[s].at => run[s].age <= r.age
    /\ run[s].at <= r.at => r.age <= run[s].age

InOrder == RowsInOrder /\ RunsInOrder /\ RowsAndRuns
OrderInv == TypeInv /\ InOrder

LEMMA OrderNumbers ==
  ASSUME TypeInv
  PROVE  /\ ranked \in Nat
         /\ \A b \in Boards : \A r \in board[b] : r.at \in Nat /\ r.age \in Ages
         /\ \A s \in Slots : run[s].at \in Nat /\ run[s].age \in 0..MaxLag
         /\ \A s \in Slots : AtWork(s) => run[s].job \in Boards /\ run[s].at \in 1..ranked
<1>1. \A s \in Slots : run[s].at \in Nat /\ run[s].age \in 0..MaxLag
  BY Kinds, Limits DEF Run
<1>2. \A s \in Slots : AtWork(s) => run[s].job \in Boards /\ run[s].at \in 1..ranked
  BY Kinds DEF AtWork
<1> QED
  BY <1>1, <1>2, Limits DEF TypeInv, JobsTypeOK, Rows

\* A step that starts no ranking, saves none, and is no day, leaves what is in order.
LEMMA OthersKeepOrder ==
  ASSUME OrderInv, UNCHANGED ranked, \A b \in Boards : board'[b] \subseteq board[b],
         \A t \in Slots : AtWork(t)' => /\ AtWork(t) /\ run'[t].job = run[t].job
                                        /\ run'[t].at = run[t].at /\ run'[t].age = run[t].age
  PROVE  InOrder'
<1>1. \A t \in Slots : AtWork(t) => run[t].job \in Boards
  BY OrderNumbers DEF OrderInv
<1>2. RowsInOrder'
  BY DEF OrderInv, InOrder, RowsInOrder
<1>3. RunsInOrder'
  BY DEF OrderInv, InOrder, RunsInOrder
<1>4. RowsAndRuns'
  <2> SUFFICES ASSUME NEW t \in Slots, AtWork(t)', NEW r \in board'[run'[t].job]
               PROVE  /\ r.at <= run'[t].at => run'[t].age <= r.age
                      /\ run'[t].at <= r.at => r.age <= run'[t].age
    BY DEF RowsAndRuns
  <2>1. AtWork(t) /\ r \in board[run[t].job] /\ run'[t].at = run[t].at /\ run'[t].age = run[t].age
    BY <1>1
  <2> QED
    BY <2>1 DEF OrderInv, InOrder, RowsAndRuns
<1> QED
  BY <1>2, <1>3, <1>4 DEF InOrder

LEMMA DayKeepsOrder ==
  ASSUME OrderInv, Day
  PROVE  InOrder'
<1>1. TypeInv /\ RowsInOrder /\ RunsInOrder /\ RowsAndRuns /\ UNCHANGED ranked
  BY DEF OrderInv, InOrder, Day
<1>2. \A t \in Slots : AtWork(t)' => /\ AtWork(t) /\ run'[t].job = run[t].job
           /\ run'[t].at = run[t].at /\ run'[t].age = run[t].age + 1 /\ run[t].age + 1 <= MaxLag
  <2> SUFFICES ASSUME NEW t \in Slots, AtWork(t)'
               PROVE  /\ AtWork(t) /\ run'[t].job = run[t].job /\ run'[t].at = run[t].at
                      /\ run'[t].age = run[t].age + 1 /\ run[t].age + 1 <= MaxLag
    OBVIOUS
  <2>1. run'[t].stage = run[t].stage /\ run'[t].job = run[t].job /\ run'[t].at = run[t].at
        /\ run[t].age < MaxLag /\ run'[t].age = IF Busy(t) THEN run[t].age + 1 ELSE run[t].age
    BY <1>1, DayOfRun
  <2>2. AtWork(t) /\ Busy(t)
    BY <2>1 DEF AtWork, Busy, Idle
  <2> QED
    BY <1>1, <2>1, <2>2, OrderNumbers, Limits
<1>3. RowsInOrder'
  <2> SUFFICES ASSUME NEW b \in Boards, NEW r \in board'[b]
               PROVE  r.at <= ranked /\ \A q \in board'[b] : r.at <= q.at => q.age <= r.age
    BY <1>1 DEF RowsInOrder
  <2>1. PICK r0 \in board[b] : r.at = r0.at /\ r.age = Older(r0.age)
    BY <1>1, DayOfRows
  <2>2. ASSUME NEW q \in board'[b], r.at <= q.at PROVE q.age <= r.age
    <3>1. PICK q0 \in board[b] : q.at = q0.at /\ q.age = Older(q0.age)
      BY <1>1, DayOfRows
    <3>2. q0.age <= r0.age /\ q0.age \in Ages /\ r0.age \in Ages
      BY <1>1, <2>1, <2>2, <3>1, OrderNumbers DEF RowsInOrder
    <3> QED
      BY <2>1, <3>1, <3>2, OlderAges
  <2> QED
    BY <1>1, <2>1, <2>2 DEF RowsInOrder
<1>4. RunsInOrder'
  BY <1>1, <1>2, OrderNumbers, Limits DEF RunsInOrder
<1>5. RowsAndRuns'
  <2> SUFFICES ASSUME NEW t \in Slots, AtWork(t)', NEW r \in board'[run'[t].job]
               PROVE  /\ r.at <= run'[t].at => run'[t].age <= r.age
                      /\ run'[t].at <= r.at => r.age <= run'[t].age
    BY DEF RowsAndRuns
  <2>1. /\ AtWork(t) /\ run'[t].job = run[t].job /\ run'[t].at = run[t].at
        /\ run'[t].age = run[t].age + 1 /\ run[t].age + 1 <= MaxLag /\ run[t].job \in Boards
        /\ run[t].age \in 0..MaxLag
    BY <1>1, <1>2, OrderNumbers
  <2>2. PICK r0 \in board[run[t].job] : r.at = r0.at /\ r.age = Older(r0.age)
    BY <1>1, <2>1, DayOfRows
  <2>3. r0.age \in Ages /\ (r0.at <= run[t].at => run[t].age <= r0.age)
        /\ (run[t].at <= r0.at => r0.age <= run[t].age)
    BY <1>1, <2>1, OrderNumbers DEF RowsAndRuns
  <2> QED
    BY <2>1, <2>2, <2>3, OlderAges
<1> QED
  BY <1>3, <1>4, <1>5 DEF InOrder

\* A ranking that begins has the highest number, and no age.
LEMMA StartKeepsOrder ==
  ASSUME OrderInv, NEW s \in Slots, NEW j \in JobNames, Start(s, j)
  PROVE  InOrder'
<1>1. TypeInv /\ RowsInOrder /\ RunsInOrder /\ RowsAndRuns /\ run \in [Slots -> Run]
      /\ UNCHANGED board
  BY DEF OrderInv, InOrder, TypeInv, Start
<1>2. ranked \in Nat /\ ranked' = IF j \in Boards THEN ranked + 1 ELSE ranked
  BY <1>1, OrderNumbers DEF Start
<1>3. PICK r : /\ r = [Idle EXCEPT !.job = j, !.stage = FirstStage[j], !.at = ranked']
               /\ run' = [run EXCEPT ![s] = r]
  BY DEF Start
<1>4. r.at = ranked' /\ r.age = 0 /\ r.job = j /\ r.stage = FirstStage[j]
  BY <1>3 DEF Idle
<1>5. r.stage \in {"read", "save"} => j \in Boards
  BY <1>4 DEF FirstStage
<1>6. \A t \in Slots : run'[t] = IF t = s THEN r ELSE run[t]
  BY <1>1, <1>3
<1>7. RowsInOrder'
  BY <1>1, <1>2, OrderNumbers DEF RowsInOrder
<1>8. RunsInOrder'
  <2> SUFFICES ASSUME NEW p \in Slots, NEW q \in Slots, AtWork(p)', AtWork(q)',
                      run'[p].at <= run'[q].at
               PROVE  run'[q].age <= run'[p].age
    BY DEF RunsInOrder
  <2>1. CASE q = s
    <3>1. run'[p].age \in Nat
      BY <1>1, <1>4, <1>6, OrderNumbers, Limits
    <3> QED
      BY <1>4, <1>6, <2>1, <3>1
  <2>2. CASE q # s /\ p = s
    <3>1. AtWork(q) /\ run'[q].at <= ranked
      BY <1>1, <1>2, <1>6, <2>2, OrderNumbers DEF AtWork
    <3>2. run'[p].at = ranked + 1 /\ run'[q].at \in Nat
      BY <1>1, <1>2, <1>4, <1>5, <1>6, <2>2, OrderNumbers DEF AtWork
    <3> QED
      BY <1>2, <3>1, <3>2
  <2>3. CASE q # s /\ p # s
    BY <1>1, <1>6, <2>3 DEF RunsInOrder, AtWork
  <2> QED
    BY <2>1, <2>2, <2>3
<1>9. RowsAndRuns'
  <2> SUFFICES ASSUME NEW t \in Slots, AtWork(t)', NEW q \in board'[run'[t].job]
               PROVE  /\ q.at <= run'[t].at => run'[t].age <= q.age
                      /\ run'[t].at <= q.at => q.age <= run'[t].age
    BY DEF RowsAndRuns
  <2>1. CASE t = s
    <3>1. j \in Boards /\ run'[t].at = ranked + 1 /\ run'[t].age = 0 /\ q \in board[j]
      BY <1>1, <1>2, <1>4, <1>5, <1>6, <2>1 DEF AtWork
    <3>2. q.at <= ranked /\ q.at \in Nat /\ q.age \in Nat
      BY <1>1, <3>1, OrderNumbers, Limits DEF RowsInOrder, Ages
    <3> QED
      BY <1>2, <3>1, <3>2
  <2>2. CASE t # s
    BY <1>1, <1>6, <2>2 DEF RowsAndRuns, AtWork
  <2> QED
    BY <2>1, <2>2
<1> QED
  BY <1>7, <1>8, <1>9 DEF InOrder

LEMMA SaveKeepsOrder ==
  ASSUME OrderInv, NEW s \in Slots, Saves(s)
  PROVE  InOrder'
<1>1. TypeInv /\ RowsInOrder /\ RunsInOrder /\ RowsAndRuns /\ run \in [Slots -> Run]
      /\ UNCHANGED ranked /\ AtWork(s)
  BY DEF OrderInv, InOrder, TypeInv, Saves, AtWork
<1>2. PICK r : run' = [run EXCEPT ![s] = r] /\ r.stage = "record"
  BY <1>1, ReturnGoes DEF Saves
<1>3. \A t \in Slots : run'[t] = IF t = s THEN r ELSE run[t]
  BY <1>1, <1>2
<1>4. \A t \in Slots : AtWork(t)' => AtWork(t) /\ run'[t] = run[t]
  BY <1>2, <1>3 DEF AtWork
\* A row of a board after it: an old one, or one with the number and the age of the run.
<1>5. ASSUME NEW b \in Boards, NEW q \in board'[b]
      PROVE  q \in board[b] \/ (b = run[s].job /\ q.at = run[s].at /\ q.age = run[s].age)
  BY <1>1, SavedRows
<1>6. run[s].at <= ranked
  BY <1>1, OrderNumbers
<1>7. RowsInOrder'
  <2> SUFFICES ASSUME NEW b \in Boards, NEW p \in board'[b], NEW q \in board'[b]
               PROVE  p.at <= ranked /\ (p.at <= q.at => q.age <= p.age)
    BY <1>1 DEF RowsInOrder
  <2>1. p \in board[b] \/ (b = run[s].job /\ p.at = run[s].at /\ p.age = run[s].age)
    BY <1>5
  <2>2. q \in board[b] \/ (b = run[s].job /\ q.at = run[s].at /\ q.age = run[s].age)
    BY <1>5
  <2>3. run[s].age \in Nat
    BY <1>1, OrderNumbers, Limits
  <2> QED
    BY <1>1, <1>6, <2>1, <2>2, <2>3 DEF RowsInOrder, RowsAndRuns
<1>8. RunsInOrder'
  BY <1>1, <1>4 DEF RunsInOrder
<1>9. RowsAndRuns'
  <2> SUFFICES ASSUME NEW t \in Slots, AtWork(t)', NEW q \in board'[run'[t].job]
               PROVE  /\ q.at <= run'[t].at => run'[t].age <= q.age
                      /\ run'[t].at <= q.at => q.age <= run'[t].age
    BY DEF RowsAndRuns
  <2>1. AtWork(t) /\ run'[t] = run[t] /\ run[t].job \in Boards
    BY <1>1, <1>4, OrderNumbers
  <2>2. q \in board[run[t].job] \/ (q.at = run[s].at /\ q.age = run[s].age)
    BY <1>5, <2>1
  <2> QED
    BY <1>1, <2>1, <2>2 DEF RunsInOrder, RowsAndRuns
<1> QED
  BY <1>7, <1>8, <1>9 DEF InOrder

LEMMA StepOrderInv == OrderInv /\ [Next]_vars => OrderInv'
<1> SUFFICES ASSUME OrderInv, [Next]_vars PROVE InOrder'
  BY StepTypeInv DEF OrderInv
<1>1. TypeInv /\ run \in [Slots -> Run] /\ board \in [Boards -> SUBSET Rows]
  BY DEF OrderInv, TypeInv
<1>2. CASE UNCHANGED vars
  BY <1>2, OthersKeepOrder DEF vars, AtWork
<1>3. ASSUME NEW s \in Slots, Moves(s) PROVE InOrder'
  <2>1. PICK r : run' = [run EXCEPT ![s] = r] /\ Goes(s, r)
    BY <1>1, <1>3, MoveOfRun
  <2>2. \A t \in Slots : run'[t] = IF t = s THEN r ELSE run[t]
    BY <1>1, <2>1
  <2>3. UNCHANGED <<board, ranked>>
    BY <1>1, <1>3, MoveOfRun
  <2> QED
    BY <2>1, <2>2, <2>3, OthersKeepOrder DEF Goes, AtWork
<1>4. ASSUME NEW s \in Slots, NEW i \in Issues, UpdateRow(s, i) \/ Refresh(s, i) PROVE InOrder'
  <2>1. UNCHANGED <<board, ranked>>
    BY <1>4 DEF UpdateRow, Refresh
  <2>2. PICK r : run' = [run EXCEPT ![s] = r] /\ r.stage \notin {"read", "save"}
    <3>1. run[s].stage \notin {"read", "save"} /\ run[s] \in Run
      BY <1>1, <1>4, Kinds DEF UpdateRow, Refresh
    <3>2. PICK row : run' = [run EXCEPT ![s] = Wrote(s, i, row)]
      <4>1. CASE UpdateRow(s, i)
        BY <1>1, <4>1, UpdateWrites
      <4>2. CASE Refresh(s, i)
        BY <1>1, <3>1, <4>2 DEF Refresh, Run, Wrote
      <4> QED
        BY <1>4, <4>1, <4>2
    <3>3. Wrote(s, i, row).stage = run[s].stage
      BY <3>1 DEF Wrote, Run
    <3> QED
      BY <3>1, <3>2, <3>3
  <2>3. \A t \in Slots : run'[t] = IF t = s THEN r ELSE run[t]
    BY <1>1, <2>2
  <2> QED
    BY <2>1, <2>2, <2>3, OthersKeepOrder DEF AtWork
<1>5. ASSUME NEW i \in Issues, DeleteIssue(i) PROVE InOrder'
  BY <1>1, <1>5, OthersKeepOrder DEF DeleteIssue, AtWork
<1>6. ASSUME NEW i \in Issues, SetStatus(i) PROVE InOrder'
  BY <1>1, <1>6, OthersKeepOrder DEF SetStatus, AtWork
<1> QED
  BY <1>1, <1>2, <1>3, <1>4, <1>5, <1>6, Steps, DayKeepsOrder, StartKeepsOrder, SaveKeepsOrder

\* The board that readers see never goes back to an earlier ranking, even if a run that
\* began first ends last: what that run deletes is older than what it saves.
THEOREM NeverBack == Spec => BoardGoesForward
<1>1. Init => OrderInv
  BY InitTypeInv DEF Init, OrderInv, InOrder, RowsInOrder, RunsInOrder, RowsAndRuns, AtWork, Idle
<1>2. ASSUME OrderInv, [Next]_vars, NEW b \in Boards, NEW t \in ShownAt(b), NEW u \in ShownAt(b)'
      PROVE  u >= t \/ issue' # issue
  <2>1. TypeInv /\ RowsInOrder /\ RowsAndRuns
    BY <1>2 DEF OrderInv, InOrder
  <2>2. PICK r \in board[b] : t = r.at /\ \A q \in board[b] : q.at <= r.at
    BY DEF ShownAt, Shown
  <2>3. PICK w \in board'[b] : u = w.at /\ \A q \in board'[b] : q.at <= w.at
    BY DEF ShownAt, Shown
  <2>4. t \in Nat /\ u \in Nat
    <3>1. TypeInv'
      BY <1>2, <2>1, StepTypeInv
    <3> QED
      BY <2>1, <2>2, <2>3, <3>1, Limits DEF TypeInv, JobsTypeOK, Rows
  <2>5. CASE \E q \in board'[b] : q.at = t
    BY <2>3, <2>4, <2>5
  <2>6. CASE board' = board
    BY <2>2, <2>5, <2>6
  <2>7. CASE Day
    BY <2>1, <2>2, <2>5, <2>7, DayOfRows
  <2>8. CASE \E i \in Issues : DeleteIssue(i)
    <3>1. PICK i \in Issues : DeleteIssue(i)
      BY <2>8
    <3>2. issue \in [Issues -> {"active", "closed", Gone}] /\ issue[i] # Gone /\ issue'[i] = Gone
      BY <2>1, <3>1 DEF TypeInv, JobsTypeOK, DeleteIssue
    <3> QED
      BY <3>2
  <2>9. ASSUME NEW s \in Slots, Saves(s) PROVE u >= t \/ issue' # issue
    <3>1. CASE b # run[s].job
      BY <2>1, <2>2, <2>5, <2>9, <3>1, SavedRows
    <3>2. CASE b = run[s].job /\ r.age <= run[s].age + Retention
      BY <2>1, <2>2, <2>5, <2>9, <3>2, SavedRows
    <3>3. CASE b = run[s].job /\ ~(r.age <= run[s].age + Retention)
      <4>1. AtWork(s) /\ run[s].age \in Nat /\ run[s].at \in Nat /\ r.age \in Nat
        BY <2>1, <2>9, OrderNumbers, Limits DEF Saves, AtWork, Ages
      <4>2. ~(run[s].at <= r.at)
        BY <2>1, <3>3, <4>1, Limits DEF RowsAndRuns
      \* What it keeps is no older, and so not of an earlier ranking.
      <4>3. CASE w \in board[b] /\ w.age <= run[s].age + Retention
        <5>1. ~(w.at <= r.at)
          BY <2>1, <2>2, <3>3, <4>1, <4>3, OrderNumbers, Limits DEF RowsInOrder, Ages
        <5> QED
          BY <2>2, <2>3, <2>4, <5>1
      <4>4. CASE w.at = run[s].at
        BY <2>2, <2>3, <2>4, <4>1, <4>2, <4>4
      <4> QED
        BY <2>1, <2>9, <3>3, <4>3, <4>4, SavedRows
    <3> QED
      BY <3>1, <3>2, <3>3
  <2> QED
    BY <1>2, <2>1, <2>6, <2>7, <2>8, <2>9, BoardSteps
<1>3. OrderInv /\ [Next]_vars =>
        [\A b \in Boards : \A t \in ShownAt(b), u \in ShownAt(b)' : u >= t \/ issue' # issue]_vars
  BY <1>2
<1> QED
  BY <1>1, <1>3, StepOrderInv, PTL DEF Spec, BoardGoesForward

-----------------------------------------------------------------------------
(* Rows of job_runs *)

\* A step after which every ranking run goes on, or has its row, loses no record.
LEMMA KeepsRecords ==
  ASSUME RunsAreRecorded, TypeInv, TypeInv', ranked' = ranked, jobRuns \subseteq jobRuns',
         faults <= faults',
         \A t \in Slots : run[t].job \in Boards =>
           \/ run[t].at \in jobRuns'
           \/ run'[t].job = run[t].job /\ run'[t].at = run[t].at
  PROVE  RunsAreRecorded'
<1>1. Unrecorded' \subseteq Unrecorded
  BY DEF Unrecorded, Running
<1>2. IsFiniteSet(Unrecorded) /\ Cardinality(Unrecorded) \in Nat
  <2>1. IsFiniteSet(1..ranked)
    BY FS_Interval, Limits DEF TypeInv, JobsTypeOK
  <2>2. Unrecorded \in SUBSET (1..ranked)
    BY DEF Unrecorded
  <2> QED
    BY <2>1, <2>2, FS_Subset, FS_CardinalityType
<1>3. Cardinality(Unrecorded') <= Cardinality(Unrecorded) /\ Cardinality(Unrecorded') \in Nat
  BY <1>1, <1>2, FS_Subset, FS_CardinalityType
<1>4. faults \in Nat /\ faults' \in Nat
  BY Limits DEF TypeInv, JobsTypeOK
<1>5. Cardinality(Unrecorded) <= faults
  BY DEF RunsAreRecorded
<1>6. Cardinality(Unrecorded') <= faults'
  BY <1>2, <1>3, <1>4, <1>5
<1> QED
  BY <1>6 DEF RunsAreRecorded

\* A run that goes on, returns or fails is the run it was.
LEMMA SameRun ==
  ASSUME TypeInv, NEW s \in Slots, NEW r,
         \/ \E ok \in BOOLEAN : \E applied : r = [Returned(s, ok) EXCEPT !.applied = applied]
         \/ \E applied : r \in {RolledBack(s), [RolledBack(s) EXCEPT !.applied = applied]}
         \/ \E i, row : r = Wrote(s, i, row)
         \/ \E S, stage : r = [run[s] EXCEPT !.todo = S, !.stage = stage]
         \/ \E S, stage : r = [run[s] EXCEPT !.items = S, !.stage = stage]
         \/ \E i : r = [run[s] EXCEPT !.wants = i]
  PROVE  r.job = run[s].job /\ r.at = run[s].at
<1>1. run[s] \in Run
  BY Kinds
<1> QED
  BY <1>1 DEF Returned, RolledBack, Wrote, Run

\* Of all the steps of a run that is busy, only a crash may end it without a row.
Ends(s) == Record(s) \/ Crash(s)

LEMMA MoveRecords ==
  ASSUME TypeInv, NEW s \in Slots, Moves(s) \/ Saves(s), ~Ends(s)
  PROVE  /\ \E r : run' = [run EXCEPT ![s] = r] /\ r.job = run[s].job /\ r.at = run[s].at
         /\ ranked' = ranked /\ jobRuns' = jobRuns /\ faults <= faults'
<1>0. run[s] \in Run /\ run \in [Slots -> Run]
  BY Kinds DEF TypeInv
<1> DEFINE Goal == \E r : run' = [run EXCEPT ![s] = r] /\ r.job = run[s].job /\ r.at = run[s].at
<1>10. ranked' = ranked /\ jobRuns' = jobRuns /\ (faults' = faults \/ faults <= faults')
  <2>1. CASE Cool(s) \/ Cooled(s) \/ Closed(s) \/ Match(s) \/ Persisted(s) \/ Report(s)
    BY <2>1 DEF Cool, Cooled, Closed, Match, Persisted, Report
  <2>2. CASE Read(s) \/ SaveFails(s) \/ Victim(s) \/ Loses(s) \/ Saves(s)
    BY <2>2 DEF Read, SaveFails, Victim, Loses, Saves
  <2>3. CASE \E i \in Issues : RefreshFails(s, i) \/ Wait(s, i)
    BY <2>3 DEF RefreshFails, Wait
  <2> QED
    BY <2>1, <2>2, <2>3 DEF Moves, Ends
<1>11. faults <= faults'
  <2>1. faults \in Nat
    BY Limits DEF TypeInv, JobsTypeOK
  <2> QED
    BY <1>10, <2>1
<1>1. ASSUME NEW ok \in BOOLEAN, NEW applied, Return(s, ok, applied)
      PROVE  Goal
  <2>1. PICK r : r = [Returned(s, ok) EXCEPT !.applied = applied]
    OBVIOUS
  <2>2. r.job = run[s].job /\ r.at = run[s].at
    BY <2>1, SameRun
  <2> QED
    BY <1>1, <2>1, <2>2 DEF Return
<1>2. ASSUME NEW applied,
             run' \in {[run EXCEPT ![s] = RolledBack(s)],
                       [run EXCEPT ![s] = [RolledBack(s) EXCEPT !.applied = applied]]}
      PROVE  Goal
  <2>1. PICK r : r \in {RolledBack(s), [RolledBack(s) EXCEPT !.applied = applied]}
                 /\ run' = [run EXCEPT ![s] = r]
    BY <1>2
  <2>2. r.job = run[s].job /\ r.at = run[s].at
    BY <2>1, SameRun
  <2> QED
    BY <2>1, <2>2
<1>3. ASSUME Cool(s) \/ Cooled(s) PROVE Goal
  <2>1. PICK statement \in {"cooling", "closing"} : Execute(s, statement)
    BY <1>3 DEF Cool, Cooled
  <2>2. PICK r : r = [run[s] EXCEPT !.todo = {i \in Issues : Matches(s, statement, Seen(s, i))},
                                   !.stage = statement]
    OBVIOUS
  <2>3. run' = [run EXCEPT ![s] = r]
    BY <1>0, <2>1, <2>2 DEF Execute, Run
  <2>4. r.job = run[s].job /\ r.at = run[s].at
    BY <2>2, SameRun
  <2> QED
    BY <2>3, <2>4
<1>4. ASSUME Match(s) PROVE Goal
  <2>1. PICK S : run' = [run EXCEPT ![s].todo = S, ![s].stage = "persist"]
    BY <1>4 DEF Match
  <2>2. PICK r : r = [run[s] EXCEPT !.todo = S, !.stage = "persist"]
    OBVIOUS
  <2>3. run' = [run EXCEPT ![s] = r]
    BY <1>0, <2>1, <2>2 DEF Run
  <2>4. r.job = run[s].job /\ r.at = run[s].at
    BY <2>2, SameRun
  <2> QED
    BY <2>3, <2>4
<1>5. ASSUME NEW i \in Issues, Wait(s, i) PROVE Goal
  <2>2. PICK r : r = [run[s] EXCEPT !.wants = i]
    OBVIOUS
  <2>3. run' = [run EXCEPT ![s] = r]
    BY <1>0, <1>5, <2>2 DEF Wait, Run
  <2>4. r.job = run[s].job /\ r.at = run[s].at
    BY <2>2, SameRun
  <2> QED
    BY <2>3, <2>4
<1>6. ASSUME Read(s) PROVE Goal
  <2>1. CASE Return(s, TRUE, TRUE)
    BY <1>1, <2>1
  <2>2. CASE \E R \in Ranked(s) : run' = [run EXCEPT ![s].items = R, ![s].stage = "save"]
    <3>1. PICK R : run' = [run EXCEPT ![s].items = R, ![s].stage = "save"]
      BY <2>2
    <3>2. PICK r : r = [run[s] EXCEPT !.items = R, !.stage = "save"]
      OBVIOUS
    <3>3. run' = [run EXCEPT ![s] = r]
      BY <1>0, <3>1, <3>2 DEF Run
    <3>4. r.job = run[s].job /\ r.at = run[s].at
      BY <3>2, SameRun
    <3> QED
      BY <3>3, <3>4
  <2> QED
    BY <1>6, <2>1, <2>2 DEF Read
<1>7. ASSUME Closed(s) \/ Report(s) \/ SaveFails(s) \/ Saves(s) PROVE Goal
  <2>1. \E ok \in BOOLEAN : \E applied : Return(s, ok, applied)
    BY <1>7 DEF Closed, Report, SaveFails, Saves
  <2> QED
    BY <1>1, <2>1
<1>8. ASSUME Persisted(s) \/ \E i \in Issues : RefreshFails(s, i) PROVE Goal
  <2>1. run' \in {[run EXCEPT ![s] = RolledBack(s)],
                  [run EXCEPT ![s] = [RolledBack(s) EXCEPT !.applied = TRUE]]}
    BY <1>8 DEF Persisted, RefreshFails
  <2> QED
    BY <1>2, <2>1
<1>9. ASSUME Victim(s) \/ Loses(s) PROVE Goal
  <2>1. PICK applied : \/ Return(s, FALSE, applied)
                       \/ run' \in {[run EXCEPT ![s] = RolledBack(s)],
                                    [run EXCEPT ![s] = [RolledBack(s) EXCEPT !.applied = applied]]}
    BY <1>9 DEF Victim, Loses
  <2>2. CASE Return(s, FALSE, applied)
    BY <1>1, <2>2
  <2>3. CASE run' \in {[run EXCEPT ![s] = RolledBack(s)],
                       [run EXCEPT ![s] = [RolledBack(s) EXCEPT !.applied = applied]]}
    BY <1>2, <2>3
  <2> QED
    BY <2>1, <2>2, <2>3
<1> HIDE DEF Goal
<1>12. Goal
  BY <1>3, <1>4, <1>5, <1>6, <1>7, <1>8, <1>9 DEF Moves, Ends
<1> QED
  BY <1>10, <1>11, <1>12 DEF Goal

LEMMA CrashRecords ==
  ASSUME RunsAreRecorded, TypeInv, TypeInv', NEW s \in Slots, Crash(s)
  PROVE  RunsAreRecorded'
<1>1. Unrecorded' \subseteq Unrecorded \cup {run[s].at}
  BY DEF Crash, Unrecorded, Running, TypeInv
<1>2. IsFiniteSet(Unrecorded)
  <2>1. IsFiniteSet(1..ranked)
    BY FS_Interval, Limits DEF TypeInv, JobsTypeOK
  <2>2. Unrecorded \in SUBSET (1..ranked)
    BY DEF Unrecorded
  <2> QED
    BY <2>1, <2>2, FS_Subset
<1>3. Cardinality(Unrecorded) \in Nat
  BY <1>2, FS_CardinalityType
<1>4. /\ IsFiniteSet(Unrecorded \cup {run[s].at})
      /\ Cardinality(Unrecorded \cup {run[s].at}) <= Cardinality(Unrecorded) + 1
      /\ Cardinality(Unrecorded \cup {run[s].at}) \in Nat
  <2>1. IsFiniteSet(Unrecorded \cup {run[s].at})
    BY <1>2, FS_AddElement
  <2>2. Cardinality(Unrecorded \cup {run[s].at})
          \in {Cardinality(Unrecorded), Cardinality(Unrecorded) + 1}
    BY <1>2, FS_AddElement
  <2> QED
    BY <1>3, <2>1, <2>2
<1>5. /\ Cardinality(Unrecorded') <= Cardinality(Unrecorded \cup {run[s].at})
      /\ Cardinality(Unrecorded') \in Nat
  BY <1>1, <1>4, FS_Subset, FS_CardinalityType
<1>6. faults' = faults + 1 /\ faults \in Nat
  BY Limits DEF Crash, Fault, TypeInv, JobsTypeOK
<1>7. Cardinality(Unrecorded) <= faults
  BY DEF RunsAreRecorded
<1>8. Cardinality(Unrecorded') <= faults'
  BY <1>3, <1>4, <1>5, <1>6, <1>7
<1> QED
  BY <1>8 DEF RunsAreRecorded

LEMMA StartRecords ==
  ASSUME RunsAreRecorded, TypeInv, NEW s \in Slots, NEW j \in JobNames, Start(s, j)
  PROVE  RunsAreRecorded'
<1>1. run[s].job = "none" /\ run \in [Slots -> Run]
  BY DEF Start, Busy, Idle, TypeInv
<1>2. \A t \in Slots : run'[t] = IF t = s THEN [Idle EXCEPT !.job = j, !.stage = FirstStage[j],
                                                            !.at = ranked'] ELSE run[t]
  BY <1>1 DEF Start
<1>3. run'[s].job = j /\ run'[s].at = ranked'
  BY <1>2 DEF Idle
<1>6. \A t \in Slots \ {s} : run'[t] = run[t]
  BY <1>2
<1>4. ranked \in Nat /\ ranked' = IF j \in Boards THEN ranked + 1 ELSE ranked
  BY Limits DEF Start, TypeInv, JobsTypeOK
<1>5. Unrecorded' = Unrecorded
  <2>1. \A n \in 1..ranked : Running(n) <=> Running(n)'
    <3> SUFFICES ASSUME NEW n \in 1..ranked PROVE Running(n) <=> Running(n)'
      OBVIOUS
    <3>1. Running(n) => Running(n)'
      BY <1>1, <1>6 DEF Running
    <3>2. ASSUME NEW t \in Slots, run'[t].job \in Boards, run'[t].at = n PROVE t # s
      BY <1>3, <1>4, <3>2
    <3>3. Running(n)' => Running(n)
      BY <1>6, <3>2 DEF Running
    <3> QED
      BY <3>1, <3>3
  <2>2. ASSUME j \in Boards, NEW n \in {ranked'} PROVE Running(n)'
    <3>1. run'[s].job \in Boards /\ run'[s].at = n
      BY <1>3, <2>2
    <3> QED
      BY <3>1 DEF Running
  <2>3. \A n \in 1..ranked' : n \in 1..ranked \/ (j \in Boards /\ n = ranked')
    BY <1>4
  <2>4. \A n \in 1..ranked : n \in 1..ranked'
    BY <1>4
  <2>5. jobRuns' = jobRuns
    BY DEF Start
  <2>6. \A n : n \in Unrecorded' <=> n \in Unrecorded
    BY <2>1, <2>2, <2>3, <2>4, <2>5 DEF Unrecorded
  <2> QED
    BY <2>6 DEF Unrecorded
<1> QED
  BY <1>5 DEF RunsAreRecorded, Start

LEMMA StepRecorded == RunsAreRecorded /\ TypeInv /\ [Next]_vars => RunsAreRecorded'
<1> SUFFICES ASSUME RunsAreRecorded, TypeInv, [Next]_vars PROVE RunsAreRecorded'
  OBVIOUS
<1>0. TypeInv' /\ faults \in Nat /\ run \in [Slots -> Run]
  BY StepTypeInv, Limits DEF TypeInv, JobsTypeOK
<1>1. CASE UNCHANGED vars
  BY <1>0, <1>1, KeepsRecords DEF vars
<1>2. CASE Day
  <2>1. \A t \in Slots : run'[t].job = run[t].job /\ run'[t].at = run[t].at
    BY <1>2, DayOfRun
  <2>2. ranked' = ranked /\ jobRuns' = jobRuns /\ faults' = faults
    BY <1>2 DEF Day
  <2>3. jobRuns \subseteq jobRuns' /\ faults <= faults'
    BY <1>0, <2>2
  <2> QED
    BY <1>0, <2>1, <2>2, <2>3, KeepsRecords
<1>3. ASSUME NEW i \in Issues, DeleteIssue(i) \/ SetStatus(i) PROVE RunsAreRecorded'
  BY <1>0, <1>3, KeepsRecords DEF DeleteIssue, SetStatus
<1>4. ASSUME NEW s \in Slots, Moves(s) \/ Saves(s), ~Ends(s) PROVE RunsAreRecorded'
  <2>1. PICK r : run' = [run EXCEPT ![s] = r] /\ r.job = run[s].job /\ r.at = run[s].at
    BY <1>4, MoveRecords
  <2>2. ranked' = ranked /\ jobRuns' = jobRuns /\ faults <= faults'
    BY <1>4, MoveRecords
  <2>3. \A t \in Slots : run'[t] = IF t = s THEN r ELSE run[t]
    BY <1>0, <2>1
  <2> QED
    BY <1>0, <2>1, <2>2, <2>3, KeepsRecords
<1>5. ASSUME NEW s \in Slots, Record(s) PROVE RunsAreRecorded'
  <2>1. \A t \in Slots : run'[t] = IF t = s THEN Idle ELSE run[t]
    BY <1>0, <1>5 DEF Record
  <2>2. run[s].job \in Boards => run[s].at \in jobRuns'
    BY <1>5 DEF Record, JobRun
  <2>3. ranked' = ranked /\ jobRuns \subseteq jobRuns' /\ faults <= faults'
    BY <1>0, <1>5 DEF Record
  <2> QED
    BY <1>0, <2>1, <2>2, <2>3, KeepsRecords
<1>6. ASSUME NEW s \in Slots, Crash(s) PROVE RunsAreRecorded'
  BY <1>0, <1>6, CrashRecords
<1>7. ASSUME NEW s \in Slots, NEW i \in Issues, UpdateRow(s, i) \/ Refresh(s, i)
      PROVE  RunsAreRecorded'
  <2>0. run[s] \in Run
    BY Kinds
  <2>1. PICK row : run' = [run EXCEPT ![s] = Wrote(s, i, row)]
    <3>1. CASE UpdateRow(s, i)
      BY <3>1, UpdateWrites
    <3>2. CASE Refresh(s, i)
      BY <1>0, <2>0, <3>2 DEF Refresh, Run, Wrote
    <3> QED
      BY <1>7, <3>1, <3>2
  <2>2. PICK r : r = Wrote(s, i, row)
    OBVIOUS
  <2>3. r.job = run[s].job /\ r.at = run[s].at
    BY <2>2, SameRun
  <2>4. \A t \in Slots : run'[t] = IF t = s THEN r ELSE run[t]
    BY <1>0, <2>1, <2>2
  <2>5. ranked' = ranked /\ jobRuns' = jobRuns /\ faults <= faults'
    BY <1>0, <1>7 DEF UpdateRow, Refresh
  <2> QED
    BY <1>0, <2>3, <2>4, <2>5, KeepsRecords
<1>8. ASSUME NEW s \in Slots, NEW j \in JobNames, Start(s, j) PROVE RunsAreRecorded'
  BY <1>8, StartRecords
<1> QED
  BY <1>1, <1>2, <1>3, <1>4, <1>5, <1>6, <1>7, <1>8, Steps DEF Ends

\* No more ranking runs end without a row in job_runs than there were crashes, although
\* the row is of a second transaction (runner.py:18-44).
THEOREM Recording == Spec => []RunsAreRecorded
<1>1. Init => RunsAreRecorded
  <2> SUFFICES ASSUME Init PROVE RunsAreRecorded
    OBVIOUS
  <2>1. Unrecorded = {}
    BY DEF Init, Unrecorded
  <2> QED
    BY <2>1, FS_EmptySet DEF Init, RunsAreRecorded
<1> QED
  BY <1>1, InitTypeInv, StepTypeInv, StepRecorded, PTL DEF Spec
=============================================================================
