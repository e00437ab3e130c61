------------------------------ MODULE JobSystem -----------------------------
(***************************************************************************)
(* The job path of the platform: REST API, the four job managers with      *)
(* their launchers, the cluster_manager watchdog, and Kubernetes.          *)
(***************************************************************************)
EXTENDS JobManager, JobRestAPI

Init ==
  /\ status = [j \in Jobs |-> "unborn"]
  /\ deleted = {}
  /\ retries = [j \in Jobs |-> 0]
  /\ vcs = VCs
  /\ pods = [j \in Jobs |-> "NotFound"]
  /\ tasks = {}
  /\ batch = [m \in Managers |-> NoBatch]
  /\ seenVcs = VCs
  /\ step = [m \in Managers |-> "loop"]
  /\ cur = [m \in Managers |-> NoCur]
  /\ unusual = [m \in Managers |-> {}]
  /\ gen = [m \in Managers |-> 0]
  /\ rest = {}
  /\ vcAdmin = NoAdmin
  /\ crashes = 0
  /\ disturbed = {}

-----------------------------------------------------------------------------
(***************************************************************************)
(* Kubernetes, as check_job_status and delete_job see it.                  *)
(***************************************************************************)
PodNext(p) ==
  CASE p = "Pending"     -> {"Running", "Restart"}
    [] p = "Running"     -> {"Succeeded", "Failed", "Lost"}
    [] p = "Lost"        -> {"Running", "NotFound"}
    [] p = "Terminating" -> {"NotFound"}
    [] OTHER             -> {}

\* The pods of a distributed job are admitted, fail and end one by one.
MixtureNext(p) ==
  CASE p = "Pending"              -> {"SomeRestart"}
    [] p \in {"Running", "Lost"}  -> Mixture
    [] p = "SomeRestart"          -> {"Restart", "SomeFailed", "SomeSucceeded"}
    [] p = "SomeFailed"           -> {"Failed", "SomeSucceeded"}
    [] p = "SomeSucceeded"        -> {"Succeeded"}
    [] OTHER                      -> {}

PodStep(j) ==
  /\ \E p \in PodNext(pods[j]) \cup (IF j \in Distributed THEN MixtureNext(pods[j]) ELSE {}) :
       SetPhase(j, p)
  /\ UNCHANGED <<dbVars, tasks, mgrVars, restVars, crashes, disturbed>>

-----------------------------------------------------------------------------
(***************************************************************************)
(* cluster_manager.work kills and restarts a manager whose heartbeat file  *)
(* is too old: a manager that waits for a task nobody will finish, or one  *)
(* that is merely slow (bounded).  Only the manager process is killed; its *)
(* launcher workers live on and go through what reached their queue.       *)
(***************************************************************************)
\* (Mutant: the watchdog does not see the stopped heartbeat.)
StuckNever(m) == FALSE

Stuck(m) == \E t \in Outstanding(m) : t.step = "dead"

Restart(m) ==
  LET mine == Outstanding(m) IN
  /\ \/ Stuck(m) /\ UNCHANGED crashes
     \/ ~Stuck(m) /\ crashes < MaxRestarts /\ crashes' = crashes + 1
  /\ \E lost \in SUBSET {t \in mine : t.step \in NotStarted} :
       LET gone     == lost \cup {t \in mine : t.step = "dead"}
           orphaned == {t.job : t \in mine \ gone}
           halfDone == IF step[m] \in {"apply", "cleanup"} THEN {cur[m].job} ELSE {}
       IN /\ tasks' = tasks \ gone
          /\ Disturb(orphaned \cup halfDone)
  /\ gen' = [gen EXCEPT ![m] = @ + 1]
  /\ batch' = [batch EXCEPT ![m] = NoBatch]
  /\ step' = [step EXCEPT ![m] = "loop"]
  /\ cur' = [cur EXCEPT ![m] = NoCur]
  /\ unusual' = [unusual EXCEPT ![m] = {}]
  /\ UNCHANGED <<dbVars, pods, seenVcs, restVars>>

Next ==
  \/ RestStep
  \/ ManagerStep
  \/ \E t \in tasks : LauncherStep(t)
  \/ \E j \in Jobs : PodStep(j)
  \/ \E m \in Managers : Restart(m)

Spec == Init /\ [][Next]_vars

-----------------------------------------------------------------------------
TypeOK == JobTableTypeOK

(***************************************************************************)
(* wait_tasks_done at the head of Run's loop: one incarnation of a manager *)
(* never has two tasks for the same job, so that its three workers never   *)
(* submit or kill the same job side by side.                               *)
(***************************************************************************)
OneTaskPerJob ==
  \A t, u \in tasks :
    t.mgr = u.mgr /\ t.gen = u.gen /\ t.job = u.job => t = u

\* Why: a manager that has a job in hand -- read and not processed, or being
\* acted on -- has no task for it outstanding, and has it in hand once.
InHand(m, j) ==
  batch[m][j] # NoSeen \/ (step[m] \in {"apply", "cleanup"} /\ cur[m].job = j)

TasksOfTheirTime == \A t \in tasks : t.gen <= gen[t.mgr]
NoTaskInHand ==
  \A m \in Managers, j \in Jobs :
    InHand(m, j) => \A t \in tasks : ~(t.mgr = m /\ t.gen = gen[m] /\ t.job = j)
InHandOnce ==
  \A m \in Managers :
    step[m] \in {"apply", "cleanup"} => batch[m][cur[m].job] = NoSeen

OneTaskInv == TasksOfTheirTime /\ NoTaskInHand /\ InHandOnce /\ OneTaskPerJob

(***************************************************************************)
(* What is under way for a job: launcher tasks still being executed, and   *)
(* pollers that asked Kubernetes and have not acted on the answer yet.     *)
(***************************************************************************)
TasksOn(j) == {t \in tasks : t.job = j /\ t.step # "dead"}
ActingOn(j) == {m \in Managers : step[m] \in {"apply", "cleanup"} /\ cur[m].job = j}

(***************************************************************************)
(* The managers alone do not race.  A job is disturbed by a user request   *)
(* or VC administration after its submission, by preemption, by a VC that  *)
(* TakeJobActions did not find, by a restart of a manager in the middle of *)
(* work on it, by a failed clean-up, and by a time limit of zero seconds.  *)
(* On any other job the four processes and their twelve workers have at    *)
(* most one operation under way, although every update is unconditional    *)
(* and every decision is made on a stale row: the status says which        *)
(* process may touch the job.                                              *)
(***************************************************************************)
QuietOneOperation ==
  \A j \in Jobs \ disturbed :
    Cardinality(TasksOn(j)) + Cardinality(ActingOn(j)) <= 1

\* A distributed job that was refused so often that it was given up: "error" is
\* written without delete_job, and the pods that were admitted keep their devices.
GivenUp(j) ==
  j \in Distributed /\ status[j] = "error" /\ retries[j] = RestartLimit

\* An undisturbed job that has ended does not hold devices once the clean-up
\* that follows its last status write is over, although it may hold some when
\* the status is written -- unless it is a distributed job that was given up.
QuietEndFreesGpu ==
  \A j \in Jobs \ disturbed :
    status[j] \in Terminal /\ TasksOn(j) = {} /\ ActingOn(j) = {}
      => pods[j] \notin HoldsGpu \/ GivenUp(j)

\* An undisturbed job that has ended stays as it ended: no process brings a
\* finished, failed, killed or erroneous job back.
QuietEndIsFinal ==
  [][\A j \in Jobs : j \notin disturbed' /\ status[j] \in Terminal
       => status'[j] = status[j]]_vars

(***************************************************************************)
(* Why: to an undisturbed job the status is the lock.  A launcher task, a  *)
(* row read and a poller's answer each go with one status, that status is  *)
(* watched by one process, and the process has no two of them for a job.   *)
(***************************************************************************)
QuietStatus(j) ==
  /\ status[j] \notin {"killing", "pausing", "paused", "purged"}
  /\ status[j] \in {"unborn", "unapproved"} => pods[j] = "NotFound"

\* A submission works on a queued job -- only its clean-up comes after the end --
\* and a kill on a job in the status of the poller that ordered it.
QuietTasks(j) ==
  \A t \in TasksOn(j) :
    /\ t.gen = gen[t.mgr]
    /\ t.kind = "submit" =>
         /\ t.mgr = "queued"
         /\ status[j] = "queued" \/ (t.step = "cleanup" /\ status[j] = "error")
         /\ t.step = "create" => pods[j] = "NotFound"
    /\ t.kind = "kill" =>
         /\ t.mgr \in Pollers /\ status[j] = t.mgr
         /\ t.target = "queued" \/ (t.target = "killed" /\ t.mgr = "running")
         /\ t.step = "write" => pods[j] \notin HoldsGpu

\* A row in hand is not stale, but for the rows TakeJobActions reads in case it
\* must preempt their jobs.
QuietRows(j) ==
  \A m \in Managers :
    \/ batch[m][j] \in {NoSeen, status[j]}
    \/ m = "queued" /\ batch[m][j] \in Pollers

\* What a poller was answered still holds when it acts on it; of a distributed job
\* it only holds of some of its pods.
QuietAnswers(j) ==
  \A m \in ActingOn(j) :
    /\ m \in Pollers
    /\ step[m] = "apply" =>
         /\ status[j] = m /\ cur[m].seen = m
         /\ j \notin Distributed /\ cur[m].obs \in {"Succeeded", "Failed", "Restart"}
              => pods[j] = cur[m].obs
    /\ step[m] = "cleanup" => status[j] \in {m, "finished", "failed", "error"}

OneOperation(j) ==
  /\ \A t, u \in TasksOn(j) : t = u
  /\ \A m, n \in ActingOn(j) : m = n
  /\ TasksOn(j) = {} \/ ActingOn(j) = {}

EndFreesGpu(j) ==
  status[j] \in Terminal /\ TasksOn(j) = {} /\ ActingOn(j) = {}
    => pods[j] \notin HoldsGpu \/ GivenUp(j)

Quiet(j) ==
  /\ QuietStatus(j) /\ QuietTasks(j) /\ QuietRows(j) /\ QuietAnswers(j)
  /\ OneOperation(j) /\ EndFreesGpu(j)

QuietInv == \A j \in Jobs \ disturbed : Quiet(j)

\* What the platform promises of a job is JobLife; a disturbed job has left it.
Life == INSTANCE JobLife WITH
  stage   <- [j \in Jobs |-> IF j \in disturbed THEN "other" ELSE status[j]],
  devices <- {j \in Jobs \ disturbed : pods[j] \in HoldsGpu}

\* The job path implements it: four processes and twelve workers that poll,
\* submit, delete and overwrite rows are, to a job nobody interferes with, one
\* life in order, in which devices are taken once for each submission, only when
\* all earlier ones have been given back, and given back before the job is killed
\* -- and, if the job has one pod, before it is queued again, finishes or fails.
LivesAsPromised == Life!Spec

(***************************************************************************)
(* Work begun before job j was asked to stop (s is "killing" or "pausing") *)
(* that may still write another status: a task other than the one that     *)
(* stops it, a poller that has observed it, a batch that read another      *)
(* status, a REST request that has checked the old status, or an AddVC     *)
(* about to replace the VC.                                                *)
(***************************************************************************)
OlderTask(j, s) == \E t \in TasksOn(j) : t.kind # "kill" \/ t.target # DesiredState(s)
OlderBatch(j, s) == \E m \in Managers : batch[m][j] \notin {NoSeen, s}
OlderRequest(j) == \E r \in rest : r.job = j /\ r.op \notin {"kill", "delete"}
VCReplaced(j, s) == s = "killing" /\ vcAdmin.pc = "replace" /\ vcAdmin.vc = JobVC[j]

OlderWork(j, s) ==
  \/ OlderTask(j, s)
  \/ ActingOn(j) # {}
  \/ OlderBatch(j, s)
  \/ OlderRequest(j)
  \/ VCReplaced(j, s)

Settled(j, s) == status[j] = s /\ j \notin deleted /\ ~OlderWork(j, s)

(***************************************************************************)
(* A kill or a pause is only ever lost to work that was already under way: *)
(* once none is, "killing" becomes nothing but "killed" and "pausing"      *)
(* nothing but "paused" -- unless the user kills the job as well or its VC *)
(* is deleted or replaced -- and no new work that could bring the job back *)
(* is begun.                                                               *)
(***************************************************************************)
Superseded(s) == IF s = "pausing" THEN {"killing", "purged"} ELSE {}

StopLostOnlyToOlderWork ==
  [][\A j \in Jobs, s \in {"killing", "pausing"} : Settled(j, s)
       => \/ status'[j] \in {DesiredState(s)} \cup Superseded(s)
          \/ j \in deleted'
          \/ Settled(j, s)']_vars

(***************************************************************************)
(* ... and a job that stops gives its devices back: it does not become     *)
(* "killed" or "paused" with pods that hold devices, whichever process     *)
(* writes it, unless a submission came between the deletion of its pods    *)
(* and the write, before the job was asked to stop.                        *)
(***************************************************************************)
PodsGone(j) == \A t \in TasksOn(j) : t.step = "write" => pods[j] \notin HoldsGpu

Stopping(j, s) == Settled(j, s) /\ PodsGone(j)

StopFreesGpu ==
  [][\A j \in Jobs, s \in {"killing", "pausing"} : Stopping(j, s)
       => \/ status'[j] = DesiredState(s) /\ pods'[j] \notin HoldsGpu
          \/ status'[j] \in Superseded(s)
          \/ j \in deleted'
          \/ Stopping(j, s)']_vars

(***************************************************************************)
(* A job that has ended, with nothing under way for it: no launcher task,  *)
(* no row in hand, no request of its own and no VC being deleted that      *)
(* found it active.                                                        *)
(***************************************************************************)
EndSettled(j) ==
  /\ status[j] \in Terminal
  /\ TasksOn(j) = {} /\ ActingOn(j) = {}
  /\ \A m \in Managers : batch[m][j] = NoSeen
  /\ \A r \in rest : r.job = j => r.op = "delete"
  /\ j \notin vcAdmin.listed

\* It stays as it ended and takes no devices again, disturbed or not -- but for
\* the removal of its row with its VC, and for a kill of the parent of its family,
\* which is written to the members that have ended as well.
EndLostOnlyToFamily ==
  [][\A j \in Jobs : EndSettled(j)
       => \/ /\ EndSettled(j)' /\ status'[j] = status[j]
             /\ pods'[j] \in HoldsGpu => pods[j] \in HoldsGpu
          \/ status'[j] = "purged"
          \/ /\ status'[j] = "killing"
             /\ \E r \in rest : r.op = "kill" /\ r.job # j /\ j \in Family[r.job]]_vars

\* Why: a manager only has rows in hand of the statuses it selects.
BatchWatched ==
  \A m \in Managers, j \in Jobs : batch[m][j] \in Watched(m) \cup {NoSeen}

\* ... and the job does stop, although Kubernetes may fail, a worker may die
\* in the middle of it, and the manager has to be restarted then.
StopCompletes ==
  \A j \in Jobs, s \in {"killing", "pausing"} :
    Settled(j, s) ~> \/ status[j] \in {DesiredState(s)} \cup Superseded(s)
                     \/ j \in deleted

\* What the REST API answers to a kill request (dlwsrestapi.py: "Success,
\* the job is scheduled to be terminated."): a job marked for killing is
\* terminated, whatever was under way.
KillIsScheduled ==
  [][\A j \in Jobs : status[j] = "killing" => status'[j] \in {"killing", "killed"}]_vars

(***************************************************************************)
(* A job whose VC has been deleted does not wait for resources of that VC  *)
(* for ever, whatever was under way for it; and a job of one pod that runs *)
(* or is being scheduled, with nothing else under way, gives its devices   *)
(* back, unless it ends in an error with a failed clean-up.  Other pods    *)
(* may be left: of a submission that was under way when DeleteVC removed   *)
(* the row (without it delete_job raises IndexError), and of a job that is *)
(* queued with pods of a failed submission, or as a distributed job with a *)
(* refused pod ("killed" is written to it without delete_job).             *)
(***************************************************************************)
VCMissing(j) == JobVC[j] \notin vcs

RunsWithoutVC(j) ==
  /\ VCMissing(j) /\ j \notin Distributed
  /\ status[j] \in {"scheduling", "running"}
  /\ TasksOn(j) = {} /\ \A m \in Managers : ~InHand(m, j)

MissingVCJobEnds ==
  \A j \in Jobs :
    /\ (HasRow(j) /\ VCMissing(j)) ~> (status[j] \in Terminal \cup NoRow \/ ~VCMissing(j))
    /\ RunsWithoutVC(j)
         ~> (pods[j] \notin HoldsGpu \/ status[j] \in {"error", "purged"} \/ ~VCMissing(j))

\* What TakeJobActions logs when it kills the jobs of a VC it did not find
\* (job_manager.py: "belong to a no-exist vc"): as long as the VC of a job
\* exists, no manager marks the job for killing on account of its VC.
KilledOnlyWithoutVC ==
  [][\A j \in Jobs :
       /\ status[j] \in {"unapproved", "queued", "scheduling", "running"}
       /\ status'[j] \in {"killing", "Killed"}
       => JobVC[j] \notin vcs]_vars

\* "if there are job in the VC currently running, being scheduled, being
\* killed or paused, the Delete VC operation cannot be performed"
\* (DLDocs/handbook_en/Virtual Cluster.md): nothing of a VC is removed while
\* it has such a job.
DeleteVCRefusedWhileActive ==
  [][\A v \in VCs : v \in vcs /\ v \notin vcs'
       => \A j \in InVC(v) \ deleted :
            status[j] \notin {"running", "scheduling", "killing", "pausing"}]_vars

-----------------------------------------------------------------------------
(***************************************************************************)
(* Fairness.  The loops of Run never end, workers block only on their      *)
(* queue, and the watchdog restarts a manager that waits for a dead worker. *)
(* Kubernetes may refuse a deletion any number of times, but not for ever. *)
(* Users, pods and crashes are not fair.                                   *)
(***************************************************************************)
Take(j) == TakeSubmit(j) \/ TakePreempt(j) \/ TakeNothing(j)
TaskOf(m, j) == {t \in tasks : t.mgr = m /\ t.job = j}

Fairness ==
  /\ \A m \in Managers : /\ WF_vars(Snapshot(m))
                          /\ WF_vars(Stuck(m) /\ Restart(m))
  /\ WF_vars(TakeMissingVC)
  /\ \A m \in Pollers : WF_vars(PollerStep(m) \/ BatchFails(m))
  /\ \A j \in Jobs :
       /\ WF_vars(Take(j))
       /\ WF_vars(KillOrPause(j) \/ ApproveJob(j))
       /\ \A m \in Managers :
            /\ WF_vars(\E t \in TaskOf(m, j) : LauncherWork(t))
            /\ SF_vars(\E t \in TaskOf(m, j) : KillDelete(t))

FairSpec == Spec /\ Fairness
=============================================================================
