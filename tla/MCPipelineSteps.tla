--------------------------- MODULE MCPipelineSteps ---------------------------
(* Instances of Alerts and of Summaries for TLC: what NewsPipeline takes as one *)
(* step each, in detail. A behaviour is one of the summaries of a list of       *)
(* articles, or, if the list is empty, one of the alerts.                       *)
EXTENDS Alerts, Summaries

CONSTANTS u1, u2, i1, i2, a1, a2, ai, aiChip, aiChips, tax, p1, p2

\* Nothing tells users or issues apart.
MCSymmetry == Permutations(Users) \cup Permutations(Issues)

\* "AI" is part of "AI chip", and both of the model's "AI chips"; "tax" is not.
MCKeywords == {ai, aiChip, tax}
MCNames    == {ai, aiChips, tax}
MCInside   == {<<x, x>> : x \in MCKeywords \cup MCNames}
                \cup {<<ai, aiChip>>, <<ai, aiChips>>, <<aiChip, aiChips>>}

Article(url, confidence, ks, k) ==
  [url |-> url, confidence |-> confidence, matched_keywords |-> ks, keyword |-> k]
MCArticles ==
  {Article(p1, 1, <<ai, aiChip>>, tax), Article(p1, 2, <<aiChip>>, tax),
   Article(p2, 2, <<tax>>, tax), Article(NoUrl, 1, <<>>, ai), Article(NoUrl, 2, <<aiChip>>, ai)}
MCLists == UNION {[1..n -> MCArticles] : n \in 0..3}

MCAnswers == UNION {[1..n -> MCNames \cup {NoName, PassedOver}] : n \in 0..3}

AlertOrSummaryInit == AlertsInit /\ SummariesInit

AlertOrSummaryNext ==
  \/ AlertsNext /\ articles = <<>> /\ UNCHANGED summariesVars
  \/ SummariesNext /\ articles # <<>> /\ UNCHANGED alertsVars

AlertOrSummarySpec ==
  AlertOrSummaryInit /\ [][AlertOrSummaryNext]_<<alertsVars, summariesVars>>

\* The type invariants of both modules.
StepsTypeOK == AlertsTypeOK /\ SummariesTypeOK
=============================================================================
