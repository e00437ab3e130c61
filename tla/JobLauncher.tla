----------------------------- MODULE JobLauncher ----------------------------
(***************************************************************************)
(* PythonLauncher (job_launcher.py): each manager owns a JoinableQueue and *)
(* a pool of worker processes.  A task is a submission or a kill; every    *)
(* call a worker makes to Kubernetes or to the database is a step of its   *)
(* own, because any other process may act in between.                      *)
(***************************************************************************)
EXTENDS JobTable

NewTask(m, j, kind, target) ==
  [mgr |-> m, gen |-> gen[m], job |-> j, kind |-> kind, target |-> target,
   step |-> IF kind = "submit" THEN "check" ELSE "delete"]

\* (Mutant: the desired state is ignored.)
kill_job_kills(m, j, desired_state) == NewTask(m, j, "kill", "killed")

submit_job(m, j) == NewTask(m, j, "submit", "scheduling")
kill_job(m, j, desired_state) == NewTask(m, j, "kill", desired_state)

\* (Mutant: Run does not wait for its tasks.)
OutstandingNone(m) == {}

\* The tasks queue.join() waits for: those this incarnation put there.
Outstanding(m) == {t \in tasks : t.mgr = m /\ t.gen = gen[m]}

At(t, kind, s) == t \in tasks /\ t.kind = kind /\ t.step = s
Goto(t, s) == tasks' = (tasks \ {t}) \cup {[t EXCEPT !.step = s]}
Done(t) == tasks' = tasks \ {t}

-----------------------------------------------------------------------------
(***************************************************************************)
(* kill_job_impl.  delete_job reads the row of the job first and raises    *)
(* IndexError when there is none; errors of Kubernetes end in a TypeError  *)
(* (b64encode of a list), so that the status is not written either.        *)
(***************************************************************************)
KillDelete(t) ==
  /\ At(t, "kill", "delete")
  /\ HasRow(t.job)
  /\ DeletePods(t.job)
  /\ Goto(t, "write")
  /\ UNCHANGED <<dbVars, mgrVars, restVars, crashes, disturbed>>

KillDeleteFails(t) ==
  /\ At(t, "kill", "delete")
  /\ IF HasRow(t.job) THEN DeleteIncomplete(t.job) ELSE UNCHANGED pods
  /\ Done(t)
  /\ UNCHANGED <<dbVars, mgrVars, restVars, crashes, disturbed>>

KillWrite(t) ==
  /\ At(t, "kill", "write")
  /\ WriteStatus({t.job}, t.target)
  /\ Done(t)
  /\ UNCHANGED <<deleted, retries, vcs, pods, mgrVars, restVars, crashes, disturbed>>

-----------------------------------------------------------------------------
(***************************************************************************)
(* submit_job_impl.  Pods left from an earlier attempt are deleted and the *)
(* job is left "queued" for the next round; the errors of that delete_job  *)
(* are only logged.                                                        *)
(***************************************************************************)
SubmitCheck(t) ==
  /\ At(t, "submit", "check")
  /\ \/ /\ pods[t.job] = "NotFound"
        /\ Goto(t, "create")
        /\ UNCHANGED pods
     \/ /\ pods[t.job] # "NotFound"
        /\ IF HasRow(t.job) THEN DeleteIncomplete(t.job) ELSE UNCHANGED pods
        /\ Done(t)
  /\ UNCHANGED <<dbVars, mgrVars, restVars, crashes, disturbed>>

\* An unknown jobtrainingtype or a template error: SetJobError.
SubmitInvalid(t) ==
  /\ At(t, "submit", "create")
  /\ WriteStatus({t.job}, "error")
  /\ Done(t)
  /\ UNCHANGED <<deleted, retries, vcs, pods, mgrVars, restVars, crashes, disturbed>>

\* create_pods deletes pods of the same name first; a pod still terminating
\* makes the creation fail with AlreadyExists.
SubmitCreate(t) ==
  /\ At(t, "submit", "create")
  /\ IF PhaseDeleted(pods[t.job]) = "NotFound"
       THEN SetPhase(t.job, "Pending") /\ Goto(t, "write")
       ELSE DeletePods(t.job) /\ Goto(t, "fail")
  /\ UNCHANGED <<dbVars, mgrVars, restVars, crashes, disturbed>>

\* An exception anywhere between the check and the write, with or without
\* some of the pods created.
SubmitCreateFails(t) ==
  /\ At(t, "submit", "create")
  /\ \/ UNCHANGED pods
     \/ PhaseDeleted(pods[t.job]) = "NotFound" /\ SetPhase(t.job, "Pending")
  /\ Goto(t, "fail")
  /\ UNCHANGED <<dbVars, mgrVars, restVars, crashes, disturbed>>

SubmitWrite(t) ==
  /\ At(t, "submit", "write")
  /\ WriteStatus({t.job}, "scheduling")
  /\ Done(t)
  /\ UNCHANGED <<deleted, retries, vcs, pods, mgrVars, restVars, crashes, disturbed>>

\* The except branch: count the failure, give up at the limit.
SubmitFail(t) ==
  /\ At(t, "submit", "fail")
  /\ \/ /\ RetriesCounted(t.job)
        /\ IF Retried(t.job) >= SubmitLimit
             THEN WriteStatus({t.job}, "error") /\ Goto(t, "cleanup")
             ELSE UNCHANGED status /\ Done(t)
     \/ RetriesUnknown(t.job) /\ UNCHANGED status /\ Done(t)
  /\ UNCHANGED <<deleted, vcs, pods, mgrVars, restVars, crashes, disturbed>>

SubmitCleanup(t) ==
  /\ At(t, "submit", "cleanup")
  /\ \/ HasRow(t.job) /\ DeletePods(t.job) /\ UNCHANGED disturbed
     \/ UNCHANGED pods /\ Disturb({t.job})
  /\ Done(t)
  /\ UNCHANGED <<dbVars, mgrVars, restVars, crashes>>

-----------------------------------------------------------------------------
(***************************************************************************)
(* A worker process dies inside a task: task_done is never called, so the  *)
(* task stays outstanding for its manager's queue.join().                  *)
(***************************************************************************)
WorkerDies(t) ==
  /\ t \in tasks /\ t.step # "dead"
  /\ crashes < MaxDeaths
  /\ crashes' = crashes + 1
  /\ IF t.gen = gen[t.mgr] THEN Goto(t, "dead") ELSE Done(t)
  /\ Disturb(IF t.step = "cleanup" THEN {t.job} ELSE {})
  /\ UNCHANGED <<dbVars, pods, mgrVars, restVars>>

LauncherWork(t) ==
  \/ KillDelete(t) \/ KillDeleteFails(t) \/ KillWrite(t)
  \/ SubmitCheck(t) \/ SubmitInvalid(t) \/ SubmitCreate(t) \/ SubmitCreateFails(t)
  \/ SubmitWrite(t) \/ SubmitFail(t) \/ SubmitCleanup(t)

LauncherStep(t) == LauncherWork(t) \/ WorkerDies(t)
=============================================================================
