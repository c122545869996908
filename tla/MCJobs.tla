------------------------------- MODULE MCJobs -------------------------------
(* Instances of Jobs for TLC. *)
EXTENDS Jobs

CONSTANTS i1, i2, w1, s1, s2

MCSearchPlan == {{"search_rankings"}}
MCPlans      == MCSearchPlan \cup {{"keyword_state_cleanup", "news_collect"}, {"issue_rankings"}}

\* Two runs of news_collect overlap in MCNewsPipeline. One clean-up runs at a time, as one
\* scheduler has it; the safety theorems of Jobs_proofs are for any number.
MCTwice == Boards
=============================================================================
