----------------------------- MODULE MCServices ------------------------------
(* Small instances of Services for TLC. *)
EXTENDS Services

CONSTANTS d1, r1, r2

Managers == <<"job_manager_running", "data_convert">>

\* The same data set is asked for twice.
BothOfOne == [r \in {r1, r2} |-> d1]

\* A conversion takes as long as the watchdog waits.
AsLongAsPossible == [d \in {d1} |-> Tictoc]
=============================================================================
