------------------------------- MODULE JobLife ------------------------------
(***************************************************************************)
(* The life the platform promises a job that nobody interferes with, in    *)
(* terms of the statuses a user sees and of the devices the job holds.     *)
(* A job that users, preemption, crashes in the middle of work or failed   *)
(* clean-ups interfere with is "other", and nothing more is said of it.    *)
(* JobSystem implements this specification.                                *)
(***************************************************************************)
CONSTANTS
  Jobs,
  Distributed    \* the jobs of several pods

VARIABLES
  stage,     \* [Jobs -> status, or "other"]
  devices    \* the jobs that hold devices

vars == <<stage, devices>>

Init == stage = [j \in Jobs |-> "unborn"] /\ devices = {}

\* The stages a job enters only when it has given its devices back.  One pod of a
\* distributed job decides that the job waits again, or ends in order, while its
\* other pods hold devices still.
WithoutDevices(j) ==
  {"killed", "Killed"} \cup IF j \in Distributed THEN {} ELSE {"queued", "finished", "failed"}

\* Where a job goes next.  Nothing follows an end.
Follows(s) ==
  CASE s = "unborn"     -> {"unapproved"}
    [] s = "unapproved" -> {"queued", "Killed"}
    [] s = "queued"     -> {"scheduling", "error"}
    [] s = "scheduling" -> {"running", "queued", "finished", "failed", "error"}
    [] s = "running"    -> {"queued", "finished", "failed", "error", "killed"}
    [] OTHER            -> {}

\* After any other end the devices are given back later.
Moves(j) ==
  /\ stage'[j] \in Follows(stage[j])
  /\ stage'[j] \in WithoutDevices(j) => j \notin devices
  /\ j \in devices' <=> j \in devices

\* Only a job that waits for devices is given any, and only when it has none left
\* from an earlier attempt.
Takes(j) ==
  /\ stage[j] = "queued"
  /\ j \notin devices /\ j \in devices'
  /\ stage'[j] = stage[j]

Frees(j) ==
  /\ j \in devices /\ j \notin devices'
  /\ stage'[j] = stage[j]

Leaves(j) == stage'[j] = "other" /\ j \notin devices'

Stays(j) == stage'[j] = stage[j] /\ (j \in devices' <=> j \in devices)

\* Jobs live independently of each other.
Next == \A j \in Jobs : Moves(j) \/ Takes(j) \/ Frees(j) \/ Leaves(j) \/ Stays(j)

Spec == Init /\ [][Next]_vars
=============================================================================
