------------------------------ MODULE JobTable ------------------------------
(***************************************************************************)
(* The state shared by every process that handles jobs: the rows of the    *)
(* MySQL `jobs` table and the VC table, the pods Kubernetes keeps for each *)
(* job, the launcher tasks in flight, the four job_manager processes and   *)
(* the REST requests.  The actions are in JobLauncher, JobManager,         *)
(* JobRestAPI and JobSystem, which composes them.                          *)
(***************************************************************************)
EXTENDS JobStatus, Integers, FiniteSets

CONSTANTS
  Jobs,          \* job identifiers (a UUID each: never reused)
  VCs,           \* names of virtual clusters
  JobVC,         \* the VC each job is submitted to
  Preemptible,   \* the jobs with preemptionAllowed
  Distributed,   \* the jobs of several pods (jobtrainingtype PSDistJob)
  Family,        \* the rows one KillJob of a job updates (familyToken)
  SubmitLimit,   \* failed submissions before a job is given up (5)
  RestartLimit,  \* refused admissions before a job is given up (500)
  RestOps,       \* the REST operations users issue in this configuration
  MaxRequests,   \* bound: REST requests between their check and their write
  MaxDeaths,     \* bound: deaths of launcher workers
  MaxRestarts,   \* bound: kills of a manager that is not stuck
  DbMayFail,     \* may the status write of a backend process be lost?
  NoJob          \* the absence of a job

ASSUME JobVCAssumption == JobVC \in [Jobs -> VCs]
ASSUME PreemptibleAssumption == Preemptible \subseteq Jobs
ASSUME DistributedAssumption == Distributed \subseteq Jobs
ASSUME FamilyAssumption == Family \in [Jobs -> SUBSET Jobs]
ASSUME LimitAssumption ==
  /\ SubmitLimit \in Nat \ {0}
  /\ RestartLimit \in Nat \ {0}
  /\ SubmitLimit <= RestartLimit
ASSUME BoundAssumption == {MaxRequests, MaxDeaths, MaxRestarts} \subseteq Nat
ASSUME DbAssumption == DbMayFail \in BOOLEAN
ASSUME NoJobAssumption == NoJob \notin Jobs

\* The four job_manager processes, named after their --status argument
\* ("killing" stands for "killing,pausing,unapproved"), and the statuses
\* each of them selects from the table.
Managers == {"queued", "scheduling", "running", "killing"}
\* (Mutants: two processes that poll the same rows; a process that polls rows
\* of jobs that ended; one that polls rows of jobs being killed.)
WatchedTwice(m) ==
  CASE m = "queued"     -> {"queued", "scheduling", "running"}
    [] m = "killing"    -> {"killing", "pausing", "unapproved"}
    [] OTHER            -> {"scheduling", "running"}
WatchedEnded(m) ==
  CASE m = "queued"     -> {"queued", "scheduling", "running"}
    [] m = "scheduling" -> {"scheduling"}
    [] m = "running"    -> {"running", "finished"}
    [] m = "killing"    -> {"killing", "pausing", "unapproved"}
WatchedKilling(m) ==
  CASE m = "queued"     -> {"queued", "scheduling", "running"}
    [] m = "scheduling" -> {"scheduling"}
    [] m = "running"    -> {"running", "killing"}
    [] m = "killing"    -> {"killing", "pausing", "unapproved"}

Watched(m) ==
  CASE m = "queued"     -> {"queued", "scheduling", "running"}
    [] m = "scheduling" -> {"scheduling"}
    [] m = "running"    -> {"running"}
    [] m = "killing"    -> {"killing", "pausing", "unapproved"}

\* The phase of a job's pods, taken together.  "Pending": none has started;
\* "Running": one runs; "Lost": one that ran is on a node that does not answer;
\* "Terminating": running pods are being deleted, and no other is left.  A
\* distributed job can also be a mixture: of some pods that were refused, that
\* failed, or whose success ends the job, and of others that hold devices still.
Mixture == {"SomeRestart", "SomeFailed", "SomeSucceeded"}
Phase == {"NotFound", "Pending", "Running", "Succeeded", "Failed",
          "Restart", "Lost", "Terminating"} \cup Mixture
HoldsGpu == {"Pending", "Running", "Lost"} \cup Mixture

NoSeen == "none"
Observation == {"none", "Succeeded", "Running", "Restart", "Failed",
                "Unknown", "NotFound", "Pending", "ImagePullBackOff"}

\* A launcher task: which incarnation of which manager queued it, for which
\* job, what it does and how far its worker process has got.
Task == [mgr : Managers, gen : Nat, job : Jobs,
         kind : {"submit", "kill"},
         target : {"scheduling", "killed", "paused", "queued"},
         step : {"check", "create", "write", "fail", "cleanup", "delete", "dead"}]
NotStarted == {"check", "delete"}

Request == [op : {"kill", "pause", "resume", "approve", "delete"}, job : Jobs]

VARIABLES
  status,     \* [Jobs -> Status]          jobs.jobStatus
  deleted,    \* SUBSET Jobs               jobs.isDeleted = 1
  retries,    \* [Jobs -> 0..RestartLimit] jobs.retries, saturating
  vcs,        \* SUBSET VCs                rows of the VC table
  pods,       \* [Jobs -> Phase]           what Kubernetes holds
  tasks,      \* SUBSET Task               launcher tasks not done
  batch,      \* [Managers -> [Jobs -> Status \cup {NoSeen}]] rows read, to process
  seenVcs,    \* SUBSET VCs                ListVCs as read by TakeJobActions
  step,       \* [Managers -> ...]         where each manager loop is
  cur,        \* [Managers -> ...]         the job a manager is acting on
  unusual,    \* [Managers -> SUBSET Jobs] UnusualJobs, one per process
  gen,        \* [Managers -> Nat]         incarnation of each manager process
  rest,       \* SUBSET Request            REST requests that passed their check
  vcAdmin,    \* the AddVC or DeleteVC being executed
  crashes,    \* Nat                       crashes so far (bounded)
  disturbed   \* SUBSET Jobs               history: see QuietOneOperation in JobSystem

dbVars == <<status, deleted, retries, vcs>>
mgrVars == <<batch, seenVcs, step, cur, unusual, gen>>
restVars == <<rest, vcAdmin>>
vars == <<status, deleted, retries, vcs, pods, tasks, batch, seenVcs, step,
          cur, unusual, gen, rest, vcAdmin, crashes, disturbed>>

(***************************************************************************)
(* Writes.  Every update of the table is "UPDATE jobs SET ... WHERE jobId" *)
(* with no condition on the status the writer read: a row that is gone     *)
(* stays gone, any other row is overwritten.                               *)
(***************************************************************************)
HasRow(j) == status[j] \notin NoRow

Put(S, s) == [j \in Jobs |-> IF j \in S /\ HasRow(j) THEN s ELSE status[j]]

\* UpdateJobTextFields swallows a database exception and returns False,
\* and no backend caller looks at the result.
WriteStatus(S, s) ==
  \/ status' = Put(S, s)
  \/ DbMayFail /\ UNCHANGED status

Retried(j) == IF retries[j] < RestartLimit THEN retries[j] + 1 ELSE retries[j]

\* AddandGetJobRetries increments and then reads; without a row, or when the
\* database fails at either statement, it returns None, and in Python 2
\* None >= 5 is False.
RetriesCounted(j) == HasRow(j) /\ retries' = [retries EXCEPT ![j] = Retried(j)]
RetriesUnknown(j) ==
  \/ ~HasRow(j) /\ UNCHANGED retries
  \/ DbMayFail /\ (UNCHANGED retries \/ RetriesCounted(j))

\* ListVCs: a failed SELECT is logged and the list is empty.
ListedVCs == {vcs} \cup (IF DbMayFail THEN {{}} ELSE {})

(***************************************************************************)
(* delete_job on pods: a running pod gets its grace period, any other pod  *)
(* goes at once.                                                           *)
(***************************************************************************)
\* (Mutant: only the pods that run are deleted.)
PhaseDeletedRunning(p) ==
  IF p \in {"Running", "Lost", "Terminating"} \cup Mixture THEN "Terminating" ELSE p

PhaseDeleted(p) ==
  IF p \in {"Running", "Lost", "Terminating"} \cup Mixture THEN "Terminating" ELSE "NotFound"

SetPhase(j, p) == pods' = [pods EXCEPT ![j] = p]
DeletePods(j) == SetPhase(j, PhaseDeleted(pods[j]))

\* The pods of j could not be, or could only partly be, deleted: of a mixture
\* those that ended may be the ones that are gone.
DeleteIncomplete(j) ==
  UNCHANGED pods \/ DeletePods(j) \/ (pods[j] \in Mixture /\ SetPhase(j, "Running"))

NoCur == [job |-> NoJob, seen |-> NoSeen, obs |-> "none"]
NoBatch == [j \in Jobs |-> NoSeen]
NoAdmin == [pc |-> "idle", vc |-> "none", listed |-> {}]

Disturb(S) == disturbed' = disturbed \cup S

JobTableTypeOK ==
  /\ status \in [Jobs -> Status]
  /\ deleted \in SUBSET Jobs
  /\ retries \in [Jobs -> 0..RestartLimit]
  /\ vcs \in SUBSET VCs
  /\ pods \in [Jobs -> Phase]
  /\ \A j \in Jobs : pods[j] \in Mixture => j \in Distributed
  /\ tasks \in SUBSET Task
  /\ batch \in [Managers -> [Jobs -> RowStatus \cup {NoSeen}]]
  /\ seenVcs \in SUBSET VCs
  /\ step \in [Managers -> {"loop", "plan", "apply", "cleanup"}]
  /\ cur \in [Managers -> [job : Jobs \cup {NoJob}, seen : RowStatus \cup {NoSeen},
                           obs : Observation]]
  /\ \A m \in Managers : step[m] \in {"apply", "cleanup"} => cur[m].job \in Jobs
  /\ unusual \in [Managers -> SUBSET Jobs]
  /\ gen \in [Managers -> Nat]
  /\ rest \in SUBSET Request
  /\ vcAdmin \in [pc : {"idle", "dialog", "mark", "purge", "drop", "replace"},
                  vc : VCs \cup {"none"}, listed : SUBSET Jobs]
  /\ vcAdmin.pc # "idle" => vcAdmin.vc \in VCs
  /\ crashes \in Nat
  /\ disturbed \in SUBSET Jobs
=============================================================================
