---------------------------- MODULE MCIssueDesk -----------------------------
(* Instances of IssueDesk for TLC: two issues, three triggers, three days. *)
EXTENDS IssueDesk

CONSTANTS i1, i2, t1, t2, t3, r1, r2, r3

\* The admins' requests alone, between two runs of the job.
BetweenRuns == Init /\ [][(\E r \in Requests : Arrive(r) \/ Serve(r)) \/ Tick]_vars
=============================================================================
