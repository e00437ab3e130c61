----------------------------- MODULE JobManager -----------------------------
(***************************************************************************)
(* The four job_manager.py processes.  Each repeats: wait for the tasks of *)
(* its own launcher, read the jobs of its statuses, and act on each row it *)
(* read -- by the status it READ, whatever the row holds by then.          *)
(***************************************************************************)
EXTENDS JobLauncher

Forget(m, j) == batch' = [batch EXCEPT ![m][j] = NoSeen]
Processing(m, j) == step[m] = "loop" /\ batch[m][j] # NoSeen

\* Run: launcher.wait_tasks_done(), then GetJobList (isDeleted = 0).
Snapshot(m) ==
  LET Selected == {j \in Jobs \ deleted : status[j] \in Watched(m)} IN
  /\ step[m] = "loop"
  /\ batch[m] = NoBatch
  /\ Outstanding(m) = {}
  /\ Selected # {}
  /\ batch' = [batch EXCEPT ![m] =
                 [j \in Jobs |-> IF j \in Selected THEN status[j] ELSE NoSeen]]
  /\ IF m = "queued"
       THEN step' = [step EXCEPT ![m] = "plan"] /\ seenVcs' \in ListedVCs
       ELSE UNCHANGED <<step, seenVcs>>
  /\ UNCHANGED <<dbVars, pods, tasks, cur, unusual, gen, restVars, crashes, disturbed>>

-----------------------------------------------------------------------------
(***************************************************************************)
(* TakeJobActions, the --status queued process.  Its first pass moves the  *)
(* jobs of VCs it did not find out of the way; its second pass raises      *)
(* KeyError on such a job if it is preemptible, and the batch is dropped.  *)
(* Which of the others are allowed depends on quotas and priorities; here  *)
(* any choice may be made.                                                 *)
(***************************************************************************)
\* (Mutant: every VC is taken to exist.)
NoVCNever(j) == FALSE

NoVC(j) == batch["queued"][j] # NoSeen /\ JobVC[j] \notin seenVcs

TakeMissingVC ==
  LET Missing == {j \in Jobs : NoVC(j)}
      Active  == {j \in Missing : batch["queued"][j] # "queued"}
  IN
  /\ step["queued"] = "plan"
  /\ \E lost \in SUBSET Missing :
       /\ DbMayFail \/ lost = {}
       /\ status' = [j \in Jobs |->
                       IF j \in Missing \ lost /\ HasRow(j)
                         THEN IF j \in Active THEN "killing" ELSE "killed"
                         ELSE status[j]]
  /\ Disturb(Missing)
  /\ batch' = [batch EXCEPT !["queued"] =
                 [j \in Jobs |-> IF j \in Missing \/ Missing \cap Preemptible # {}
                                   THEN NoSeen ELSE batch["queued"][j]]]
  /\ step' = [step EXCEPT !["queued"] = "loop"]
  /\ UNCHANGED <<deleted, retries, vcs, pods, tasks, seenVcs, cur, unusual, gen,
                 restVars, crashes>>

TakeSubmit(j) ==
  /\ Processing("queued", j)
  /\ batch["queued"][j] = "queued"
  /\ tasks' = tasks \cup {submit_job("queued", j)}
  /\ Forget("queued", j)
  /\ UNCHANGED <<dbVars, pods, seenVcs, step, cur, unusual, gen, restVars, crashes,
                 disturbed>>

TakePreempt(j) ==
  /\ Processing("queued", j)
  /\ j \in Preemptible
  /\ batch["queued"][j] \in {"scheduling", "running"}
  /\ tasks' = tasks \cup {kill_job("queued", j, "queued")}
  /\ Forget("queued", j)
  /\ Disturb({j})
  /\ UNCHANGED <<dbVars, pods, seenVcs, step, cur, unusual, gen, restVars, crashes>>

\* A queued job that is not allowed gets a new message; any other job that
\* keeps its place is left alone.
TakeNothing(j) ==
  /\ Processing("queued", j)
  /\ Forget("queued", j)
  /\ UNCHANGED <<dbVars, pods, tasks, seenVcs, step, cur, unusual, gen, restVars,
                 crashes, disturbed>>

-----------------------------------------------------------------------------
(* The --status killing,pausing,unapproved process.                        *)

DesiredState(s) == IF s = "killing" THEN "killed" ELSE "paused"

KillOrPause(j) ==
  /\ Processing("killing", j)
  /\ batch["killing"][j] \in {"killing", "pausing"}
  /\ tasks' = tasks \cup {kill_job("killing", j, DesiredState(batch["killing"][j]))}
  /\ Forget("killing", j)
  /\ UNCHANGED <<dbVars, pods, seenVcs, step, cur, unusual, gen, restVars, crashes,
                 disturbed>>

ApproveJob(j) ==
  /\ Processing("killing", j)
  /\ batch["killing"][j] = "unapproved"
  /\ \E listed \in ListedVCs :
       WriteStatus({j}, IF j \in Preemptible \/ JobVC[j] \in listed
                          THEN "queued" ELSE "Killed")
  /\ Forget("killing", j)
  /\ UNCHANGED <<deleted, retries, vcs, pods, tasks, seenVcs, step, cur, unusual, gen,
                 restVars, crashes, disturbed>>

-----------------------------------------------------------------------------
(***************************************************************************)
(* UpdateJobStatus, the --status running and --status scheduling           *)
(* processes: check_job_status asks Kubernetes, and the answer is acted on *)
(* later.                                                                  *)
(***************************************************************************)
Pollers == {"running", "scheduling"}

\* A decisive success counts before everything else, then come "Failed", "Unknown",
\* "Pending" and only then "Restart"; "Running" is what is left.
ObservedMixture(p) ==
  CASE p = "SomeSucceeded" -> {"Succeeded"}
    [] p = "SomeFailed"    -> {"Failed"}
    [] p = "SomeRestart"   -> {"Restart", "Pending", "ImagePullBackOff", "Unknown"}

\* (Mutant: the phase is returned as Kubernetes reports it.)
ObservedRaw(j, p) == {p}
\* (Mutant: a pod on a node that does not answer has failed.)
ObservedLostFailed(j, p) ==
  CASE p = "Pending"     -> {"Pending", "ImagePullBackOff"}
    [] p = "Running"     -> {"Running", "Pending"}
    [] p = "Lost"        -> {"Failed"}
    [] p = "Terminating" -> {"Unknown"}
    [] p \in Mixture     -> ObservedMixture(p)
    [] OTHER             -> {p}

\* Beside a pod that runs another pod of a distributed job may wait for its image.
ObservedBeside(j) == IF j \in Distributed THEN {"ImagePullBackOff"} ELSE {}

\* Running pods whose user command has not started count as "Pending".
Observed(j, p) ==
  CASE p = "Pending"                 -> {"Pending", "ImagePullBackOff"}
    [] p = "Running"                 -> {"Running", "Pending"} \cup ObservedBeside(j)
    [] p \in {"Lost", "Terminating"} -> {"Unknown"}
    [] p \in Mixture                 -> ObservedMixture(p)
    [] OTHER                         -> {p}

CheckJobStatus(m, j) ==
  /\ m \in Pollers
  /\ Processing(m, j)
  /\ \E o \in Observed(j, pods[j]) :
       cur' = [cur EXCEPT ![m] = [job |-> j, seen |-> batch[m][j], obs |-> o]]
  /\ step' = [step EXCEPT ![m] = "apply"]
  /\ Forget(m, j)
  /\ UNCHANGED <<dbVars, pods, tasks, seenVcs, unusual, gen, restVars, crashes, disturbed>>

Applying(m, o) == step[m] = "apply" /\ cur[m].obs = o
NextJob(m) == step' = [step EXCEPT ![m] = "loop"] /\ cur' = [cur EXCEPT ![m] = NoCur]

\* (Mutant: delete_job is skipped.)
NoCleanup(m) == NextJob(m)

ThenCleanup(m) == step' = [step EXCEPT ![m] = "cleanup"] /\ UNCHANGED cur
NotUnusual(m) == unusual' = [unusual EXCEPT ![m] = @ \ {cur[m].job}]

\* The job ended: write the status, then delete what Kubernetes holds.
ApplyEnded(m) ==
  /\ \/ Applying(m, "Succeeded") /\ WriteStatus({cur[m].job}, "finished")
     \/ Applying(m, "Failed") /\ WriteStatus({cur[m].job}, "failed")
     \/ Applying(m, "ImagePullBackOff") /\ WriteStatus({cur[m].job}, "error")
  /\ ThenCleanup(m)
  /\ UNCHANGED <<deleted, retries, vcs, pods, tasks, batch, seenVcs, unusual, gen,
                 restVars, crashes, disturbed>>

\* delete_job: the errors it returns are ignored; what it raises (no row to look
\* the service name up in, a failed call that is not guarded) ends the batch.
Cleanup(m) ==
  LET j == cur[m].job IN
  /\ step[m] = "cleanup"
  /\ \/ /\ HasRow(j)
        /\ \/ DeletePods(j) /\ UNCHANGED disturbed
           \/ UNCHANGED pods /\ Disturb({j})
        /\ NotUnusual(m)
        /\ UNCHANGED batch
     \/ /\ IF HasRow(j) THEN DeleteIncomplete(j) ELSE UNCHANGED pods
        /\ Disturb({j})
        /\ batch' = [batch EXCEPT ![m] = NoBatch]
        /\ UNCHANGED unusual
  /\ NextJob(m)
  /\ UNCHANGED <<dbVars, tasks, seenVcs, gen, restVars, crashes>>

\* The time limit is checked after "running" is written: for a job just
\* found running only a limit of zero seconds can have passed.
ApplyRunning(m) ==
  LET j == cur[m].job IN
  /\ Applying(m, "Running")
  /\ IF cur[m].seen # "running" THEN WriteStatus({j}, "running") ELSE UNCHANGED status
  /\ \/ UNCHANGED <<tasks, disturbed>>
     \/ /\ tasks' = tasks \cup {kill_job(m, j, "killed")}
        /\ Disturb(IF m = "running" THEN {} ELSE {j})
  /\ NotUnusual(m)
  /\ NextJob(m)
  /\ UNCHANGED <<deleted, retries, vcs, pods, batch, seenVcs, gen, restVars, crashes>>

\* A node refused a pod: back to "queued", up to a limit.  The other pods of a
\* distributed job keep what they hold: nothing is deleted here.
ApplyRestart(m) ==
  LET j == cur[m].job IN
  /\ Applying(m, "Restart")
  /\ \/ /\ RetriesCounted(j)
        /\ WriteStatus({j}, IF Retried(j) >= RestartLimit THEN "error" ELSE "queued")
     \/ RetriesUnknown(j) /\ WriteStatus({j}, "queued")
  /\ NotUnusual(m)
  /\ NextJob(m)
  /\ UNCHANGED <<deleted, vcs, pods, tasks, batch, seenVcs, gen, restVars, crashes,
                 disturbed>>

\* First time: remember.  Later: either 30 seconds have not passed, or the
\* job is killed to be queued again.
ApplyUnusual(m) ==
  LET j == cur[m].job IN
  /\ Applying(m, "Unknown") \/ Applying(m, "NotFound")
  /\ \/ unusual' = [unusual EXCEPT ![m] = @ \cup {j}] /\ UNCHANGED tasks
     \/ /\ j \in unusual[m]
        /\ NotUnusual(m)
        /\ tasks' = tasks \cup {kill_job(m, j, "queued")}
  /\ NextJob(m)
  /\ UNCHANGED <<dbVars, pods, batch, seenVcs, gen, restVars, crashes, disturbed>>

\* Only jobStatusDetail is written.
ApplyPending(m) ==
  /\ Applying(m, "Pending")
  /\ NotUnusual(m)
  /\ NextJob(m)
  /\ UNCHANGED <<dbVars, pods, tasks, batch, seenVcs, gen, restVars, crashes, disturbed>>

\* An exception out of UpdateJobStatus drops the rest of the batch; one out of
\* TakeJobActions before its passes (the cluster status cannot be read) all of it.
BatchFails(m) ==
  /\ \/ m \in Pollers /\ (step[m] = "apply" \/ \E j \in Jobs : Processing(m, j))
     \/ step[m] = "plan" /\ DbMayFail
  /\ batch' = [batch EXCEPT ![m] = NoBatch]
  /\ NextJob(m)
  /\ UNCHANGED <<dbVars, pods, tasks, seenVcs, unusual, gen, restVars, crashes, disturbed>>

PollerStep(m) ==
  \/ ApplyEnded(m) \/ Cleanup(m) \/ ApplyRunning(m) \/ ApplyRestart(m)
  \/ ApplyUnusual(m) \/ ApplyPending(m)
  \/ \E j \in Jobs : CheckJobStatus(m, j)

ManagerStep ==
  \/ \E m \in Managers : Snapshot(m) \/ BatchFails(m)
  \/ TakeMissingVC
  \/ \E j \in Jobs : \/ TakeSubmit(j) \/ TakePreempt(j) \/ TakeNothing(j)
                     \/ KillOrPause(j) \/ ApproveJob(j)
  \/ \E m \in Pollers : PollerStep(m)
=============================================================================
