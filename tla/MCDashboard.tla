---------------------------- MODULE MCDashboard -----------------------------
(* Small instances of Dashboard for TLC. *)
EXTENDS Dashboard

CONSTANTS j1, j2

\* j1 is the later submission.
TwoJobs == <<j1, j2>>

RunningAndNew == {[j \in {j1, j2} |-> IF j = j2 THEN "running" ELSE "unborn"]}
=============================================================================
