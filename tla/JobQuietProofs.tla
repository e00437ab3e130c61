--------------------------- MODULE JobQuietProofs ---------------------------
(***************************************************************************)
(* Jobs nobody interferes with, for every value of the constants: at most  *)
(* one operation is under way for such a job, it has given its devices     *)
(* back once it has ended, it stays as it ended, and it lives the life     *)
(* JobLife promises.                                                       *)
(***************************************************************************)
EXTENDS JobSystemProofs, FiniteSetTheorems

USE DEF NoSeen

\* What a step does to the status and the devices of an undisturbed job.
Keeps(j) == status'[j] = status[j] /\ (pods'[j] \in HoldsGpu => pods[j] \in HoldsGpu)
Given(j) == status[j] = "queued" /\ status'[j] = status[j]
Advances(j) ==
  /\ status'[j] \in Life!Follows(status[j])
  /\ pods'[j] = pods[j]
  /\ status'[j] \in Life!WithoutDevices(j) => pods[j] \notin HoldsGpu

QuietMove(j) == Keeps(j) \/ Given(j) \/ Advances(j)

\* What is shown of each step.
StaysQuiet(j) == Quiet(j)' /\ QuietMove(j)

\* The row of j that the managers have in hand, if any, was in hand before, or
\* has just been read.
RowsKept(j) ==
  \A m \in Managers : batch'[m][j] \in {NoSeen, batch[m][j], status[j]}

\* A job that was given up, and keeps its status, stays given up: its refused
\* admissions are never forgotten.
LEMMA GivenUpStays ==
  ASSUME TypeOK, [Next]_vars, NEW j \in Jobs, status'[j] = status[j], GivenUp(j)
  PROVE  GivenUp(j)'
<1>t. /\ retries \in [Jobs -> 0..RestartLimit] /\ RestartLimit \in Nat
  BY LimitAssumption DEF TypeOK, JobTableTypeOK
<1>1. ASSUME NEW i \in Jobs, RetriesCounted(i) \/ RetriesUnknown(i)
      PROVE  retries'[j] = retries[j]
  BY <1>t, <1>1 DEF GivenUp, RetriesCounted, RetriesUnknown, Retried
<1>2. ASSUME NEW t \in tasks, LauncherStep(t) PROVE retries'[j] = retries[j]
  <2>1. t.job \in Jobs
    BY DEF TypeOK, JobTableTypeOK, Task
  <2> QED
    BY <1>1, <1>2, <2>1
       DEF dbVars, LauncherStep, LauncherWork, KillDelete, KillDeleteFails, KillWrite, SubmitCheck,
           SubmitInvalid, SubmitCreate, SubmitCreateFails, SubmitWrite, SubmitFail, SubmitCleanup,
           WorkerDies
<1>3. RestStep => retries'[j] = retries[j]
  BY DEF dbVars, RestStep, SubmitJob, RestCheck, RestWrite, AskDeleteVC, CloseDialog,
     DeleteVCBegin, DeleteVCMark, DeleteVCPurge, DeleteVCDrop, AddVCCheck, AddVCReplace
<1>4. ASSUME ManagerStep PROVE retries'[j] = retries[j]
  <2>1. ASSUME NEW m \in Pollers, PollerStep(m) PROVE retries'[j] = retries[j]
    <3>1. step[m] = "apply" => cur[m].job \in Jobs
      BY DEF TypeOK, JobTableTypeOK, Pollers, Managers
    <3> QED
      BY <1>1, <2>1, <3>1
         DEF dbVars, PollerStep, ApplyEnded, Cleanup, ApplyRunning, ApplyRestart, Applying,
             ApplyUnusual, ApplyPending, CheckJobStatus
  <2>2. ASSUME NEW m \in Managers, Snapshot(m) \/ BatchFails(m) PROVE retries'[j] = retries[j]
    BY <2>2 DEF dbVars, Snapshot, BatchFails
  <2>3. TakeMissingVC => retries'[j] = retries[j]
    BY DEF TakeMissingVC
  <2>4. ASSUME NEW i \in Jobs, \/ TakeSubmit(i) \/ TakePreempt(i) \/ TakeNothing(i)
                                \/ KillOrPause(i) \/ ApproveJob(i)
        PROVE  retries'[j] = retries[j]
    BY <2>4 DEF dbVars, TakeSubmit, TakePreempt, TakeNothing, KillOrPause, ApproveJob
  <2> QED
    BY <1>4, <2>1, <2>2, <2>3, <2>4 DEF ManagerStep
<1>5. ASSUME NEW i \in Jobs, PodStep(i) PROVE retries'[j] = retries[j]
  BY <1>5 DEF PodStep, dbVars
<1>6. ASSUME NEW m \in Managers, Restart(m) PROVE retries'[j] = retries[j]
  BY <1>6 DEF Restart, dbVars
<1>7. ASSUME UNCHANGED vars PROVE retries'[j] = retries[j]
  BY <1>7 DEF vars
<1>8. retries'[j] = retries[j]
  BY <1>2, <1>3, <1>4, <1>5, <1>6, <1>7 DEF Next
<1> QED
  BY <1>8 DEF GivenUp

\* A step that does nothing to j but end work on it leaves j quiet, if j has
\* not ended.
LEMMA WorkEnds ==
  ASSUME TypeOK, [Next]_vars, NEW j \in Jobs, Quiet(j),
         status'[j] = status[j], pods'[j] = pods[j],
         \A t \in TasksOn(j)' : t \in TasksOn(j) /\ gen'[t.mgr] = gen[t.mgr],
         \A m \in ActingOn(j)' :
           m \in ActingOn(j) /\ step'[m] = step[m] /\ cur'[m] = cur[m],
         RowsKept(j),
         status[j] \notin Terminal
           \/ (TasksOn(j) \subseteq TasksOn(j)' /\ ActingOn(j) \subseteq ActingOn(j)')
  PROVE  StaysQuiet(j)
<1> USE DEF Quiet
<1>1. QuietStatus(j)'
  BY DEF QuietStatus
<1>2. QuietTasks(j)'
  BY DEF QuietTasks
<1>3. QuietRows(j)'
  BY DEF QuietRows, RowsKept
<1>4. QuietAnswers(j)'
  BY DEF QuietAnswers
<1>5. OneOperation(j)'
  BY DEF OneOperation
<1>6. EndFreesGpu(j)'
  BY GivenUpStays DEF EndFreesGpu
<1> QED
  BY <1>1, <1>2, <1>3, <1>4, <1>5, <1>6 DEF StaysQuiet, QuietMove, Keeps

-----------------------------------------------------------------------------
\* Nothing calms a disturbed job.
LEMMA DisturbedGrows ==
  ASSUME [Next]_vars
  PROVE  disturbed \subseteq disturbed'
<1> USE DEF Disturb
<1>1. ASSUME NEW t \in tasks, LauncherStep(t) PROVE disturbed \subseteq disturbed'
  BY <1>1 DEF LauncherStep, LauncherWork, KillDelete, KillDeleteFails, KillWrite, SubmitCheck,
     SubmitInvalid, SubmitCreate, SubmitCreateFails, SubmitWrite, SubmitFail, SubmitCleanup,
     WorkerDies
<1>2. CASE RestStep
  BY <1>2 DEF RestStep, SubmitJob, RestCheck, RestWrite, AskDeleteVC, CloseDialog, DeleteVCBegin,
     DeleteVCMark, DeleteVCPurge, DeleteVCDrop, AddVCCheck, AddVCReplace
<1>3. CASE ManagerStep
  <2>1. ASSUME NEW m \in Pollers, PollerStep(m) PROVE disturbed \subseteq disturbed'
    BY <2>1 DEF PollerStep, ApplyEnded, Cleanup, ApplyRunning, ApplyRestart, ApplyUnusual,
       ApplyPending, CheckJobStatus
  <2> QED
    BY <1>3, <2>1 DEF ManagerStep, Snapshot, BatchFails, TakeMissingVC, TakeSubmit, TakePreempt,
       TakeNothing, KillOrPause, ApproveJob
<1> QED
  BY <1>1, <1>2, <1>3 DEF Next, PodStep, Restart, vars

\* The REST API either leaves a job alone, or submits it, or disturbs it.
LEMMA RestKeepsQuiet ==
  ASSUME TypeOK, NEW j \in Jobs, j \notin disturbed', Quiet(j), RestStep
  PROVE  StaysQuiet(j)
<1> USE DEF dbVars, mgrVars, restVars, Disturb
<1>x. [Next]_vars
  BY DEF Next
<1>t. status \in [Jobs -> Status]
  BY DEF TypeOK, JobTableTypeOK
<1>h. UNCHANGED <<pods, tasks, batch, step, cur, gen>>
  BY DEF RestStep, SubmitJob, RestCheck, RestWrite, AskDeleteVC, CloseDialog, DeleteVCBegin,
         DeleteVCMark, DeleteVCPurge, DeleteVCDrop, AddVCCheck, AddVCReplace
<1>1. CASE status'[j] = status[j]
  <2>1. TasksOn(j)' = TasksOn(j) /\ ActingOn(j)' = ActingOn(j)
    BY <1>h DEF TasksOn, ActingOn
  <2>2. RowsKept(j)
    BY <1>h DEF RowsKept
  <2> QED
    BY <1>1, <1>h, <2>1, <2>2, <1>x, WorkEnds
<1>2. CASE SubmitJob(j)
  <2>1. status[j] = "unborn" /\ status'[j] = "unapproved"
    BY <1>2, <1>t DEF SubmitJob
  <2>2. TasksOn(j) = {} /\ TasksOn(j)' = {}
    <3>1. TasksOn(j) = {}
      BY <2>1 DEF Quiet, QuietTasks, TypeOK, JobTableTypeOK, TasksOn, Task, Pollers
    <3> QED
      BY <1>h, <3>1 DEF TasksOn
  <2>3. ActingOn(j) = {} /\ ActingOn(j)' = {}
    <3>1. ActingOn(j) = {}
      BY <2>1 DEF Quiet, QuietAnswers, ActingOn, Pollers
    <3> QED
      BY <1>h, <3>1 DEF ActingOn
  <2>4. QuietStatus(j)' /\ QuietTasks(j)' /\ QuietAnswers(j)' /\ OneOperation(j)' /\ EndFreesGpu(j)'
    BY <1>h, <2>1, <2>2, <2>3
       DEF Quiet, QuietStatus, QuietTasks, QuietAnswers, OneOperation, EndFreesGpu, Terminal
  <2>5. QuietRows(j)'
    <3>1. batch \in [Managers -> [Jobs -> RowStatus \cup {NoSeen}]]
      BY DEF TypeOK, JobTableTypeOK
    <3>2. \A m \in Managers : batch[m][j] # "unborn"
      BY <3>1 DEF RowStatus, Terminal
    <3> QED
      BY <1>h, <2>1, <3>2 DEF Quiet, QuietRows
  <2>6. QuietMove(j)
    BY <1>h, <2>1 DEF QuietMove, Advances, Life!Follows, Life!WithoutDevices
  <2> QED
    BY <2>4, <2>5, <2>6 DEF StaysQuiet, Quiet
<1>3. ASSUME NEW i \in Jobs, SubmitJob(i), i # j PROVE status'[j] = status[j]
  BY <1>3, <1>t DEF SubmitJob
<1>4. ASSUME NEW r \in rest, RestWrite(r) PROVE status'[j] = status[j]
  BY <1>4 DEF RestWrite, Put
<1>5. ASSUME DeleteVCMark \/ DeleteVCPurge \/ DeleteVCDrop \/ AddVCReplace
      PROVE  status'[j] = status[j]
  <2>1. CASE DeleteVCMark
    <3>1. status' = Put(vcAdmin.listed, "killing") /\ j \notin vcAdmin.listed
      BY <2>1 DEF DeleteVCMark
    <3> QED
      BY <3>1 DEF Put
  <2> QED
    BY <1>5, <2>1 DEF DeleteVCPurge, DeleteVCDrop, AddVCReplace, Purged
<1>6. CASE CloseDialog \/ \E v \in VCs : AskDeleteVC(v) \/ DeleteVCBegin(v) \/ AddVCCheck(v)
  BY <1>6, <1>1 DEF CloseDialog, AskDeleteVC, DeleteVCBegin, AddVCCheck
<1>7. ASSUME NEW r \in Request, RestCheck(r) PROVE status'[j] = status[j]
  BY <1>7 DEF RestCheck
<1> QED
  BY <1>1, <1>2, <1>3, <1>4, <1>5, <1>6, <1>7 DEF RestStep

-----------------------------------------------------------------------------
\* Nobody has a row of j in hand, but for TakeJobActions in case it must preempt j.
RowsFree(j) ==
  \A m \in Managers : batch[m][j] = NoSeen \/ (m = "queued" /\ batch[m][j] \in Pollers)

\* While a task is at work on an undisturbed job, nothing else is.
LEMMA TaskAlone ==
  ASSUME TypeOK, OneTaskInv, BatchWatched, NEW j \in Jobs, Quiet(j), NEW t \in TasksOn(j)
  PROVE  /\ TasksOn(j) = {t} /\ ActingOn(j) = {}
         /\ t \in tasks /\ t \in Task /\ t.job = j /\ t.gen = gen[t.mgr]
         /\ RowsFree(j)
<1>1. TasksOn(j) = {t} /\ ActingOn(j) = {}
  BY DEF Quiet, OneOperation
<1>2. t \in tasks /\ t \in Task /\ t.job = j /\ t.mgr \in Managers /\ t.kind \in {"submit", "kill"}
  BY DEF TasksOn, TypeOK, JobTableTypeOK, Task
<1>3. /\ t.gen = gen[t.mgr]
      /\ \/ t.mgr = "queued" /\ status[j] \in {"queued", "error"}
         \/ t.mgr \in Pollers /\ status[j] = t.mgr
  BY <1>2 DEF Quiet, QuietTasks
<1>4. batch[t.mgr][j] = NoSeen
  BY <1>2, <1>3 DEF OneTaskInv, NoTaskInHand, InHand
<1>5. \A m \in Managers : batch[m][j] \in Watched(m) \cup {NoSeen}
  BY DEF BatchWatched
<1>6. RowsFree(j)
  <2> SUFFICES ASSUME NEW m \in Managers
               PROVE  batch[m][j] = NoSeen \/ (m = "queued" /\ batch[m][j] \in Pollers)
    BY DEF RowsFree
  <2>1. batch[m][j] \in {NoSeen, status[j]} \/ (m = "queued" /\ batch[m][j] \in Pollers)
    BY DEF Quiet, QuietRows
  <2>2. batch[m][j] \in Watched(m) \cup {NoSeen}
    BY <1>5
  <2> QED
    BY <1>3, <1>4, <2>1, <2>2 DEF Watched, Managers, Pollers
<1> QED
  BY <1>1, <1>2, <1>3, <1>6

\* A task that ends leaves j quiet if the step does.
LEMMA TaskEnds ==
  ASSUME TypeOK, OneTaskInv, BatchWatched, NEW j \in Jobs, Quiet(j), NEW t \in TasksOn(j),
         UNCHANGED mgrVars, Done(t) \/ Goto(t, "dead"),
         QuietStatus(j)', QuietMove(j), status'[j] \in Terminal => pods'[j] \notin HoldsGpu \/ GivenUp(j)'
  PROVE  StaysQuiet(j)
<1>1. /\ TasksOn(j) = {t} /\ ActingOn(j) = {} /\ t \in tasks /\ t \in Task /\ RowsFree(j)
  BY TaskAlone
<1>2. ~\E u \in tasks' : u.job = j /\ u.step # "dead"
  BY <1>1 DEF Done, Goto, TasksOn, Task
<1>3. TasksOn(j)' = {} /\ ActingOn(j)' = {}
  BY <1>1, <1>2 DEF TasksOn, ActingOn, mgrVars
<1>4. QuietTasks(j)' /\ QuietAnswers(j)' /\ OneOperation(j)' /\ EndFreesGpu(j)'
  BY <1>3 DEF QuietTasks, QuietAnswers, OneOperation, EndFreesGpu
<1>5. QuietRows(j)'
  BY <1>1 DEF RowsFree, QuietRows, mgrVars
<1> QED
  BY <1>4, <1>5 DEF StaysQuiet, Quiet

\* So does a task that goes on to a step it may be at.
LEMMA TaskGoes ==
  ASSUME TypeOK, OneTaskInv, BatchWatched, NEW j \in Jobs, Quiet(j), NEW t \in TasksOn(j),
         UNCHANGED mgrVars, NEW s \in {"create", "write", "fail", "cleanup"}, Goto(t, s),
         QuietStatus(j)', QuietMove(j),
         t.kind = "submit" => /\ status'[j] = "queued" \/ (s = "cleanup" /\ status'[j] = "error")
                              /\ s = "create" => pods'[j] = "NotFound",
         t.kind = "kill" => status'[j] = status[j] /\ (s = "write" => pods'[j] \notin HoldsGpu)
  PROVE  StaysQuiet(j)
<1> DEFINE u == [t EXCEPT !.step = s]
<1>1. /\ TasksOn(j) = {t} /\ ActingOn(j) = {} /\ t \in tasks /\ t \in Task /\ t.job = j
      /\ RowsFree(j)
  BY TaskAlone
<1>2. /\ u \in Task /\ u.job = j /\ u.step = s
      /\ u.mgr = t.mgr /\ u.gen = t.gen /\ u.kind = t.kind /\ u.target = t.target
  BY <1>1 DEF Task
<1>3. tasks' = (tasks \ {t}) \cup {u}
  BY DEF Goto
<1> HIDE DEF u
<1>4. TasksOn(j)' = {u} /\ ActingOn(j)' = {}
  BY <1>1, <1>2, <1>3 DEF TasksOn, ActingOn, mgrVars
<1>5. QuietTasks(j)'
  <2>1. /\ t.gen = gen[t.mgr]
        /\ t.kind = "submit" => t.mgr = "queued"
        /\ t.kind = "kill" => /\ t.mgr \in Pollers /\ status[j] = t.mgr
                              /\ t.target = "queued" \/ (t.target = "killed" /\ t.mgr = "running")
    BY DEF Quiet, QuietTasks
  <2> QED
    BY <1>2, <1>4, <2>1 DEF QuietTasks, mgrVars
<1>6. QuietAnswers(j)' /\ OneOperation(j)' /\ EndFreesGpu(j)'
  BY <1>4 DEF QuietAnswers, OneOperation, EndFreesGpu
<1>7. QuietRows(j)'
  BY <1>1 DEF RowsFree, QuietRows, mgrVars
<1> QED
  BY <1>5, <1>6, <1>7 DEF StaysQuiet, Quiet

\* The work of a launcher for an undisturbed job.
LEMMA TaskKeepsQuiet ==
  ASSUME TypeOK, OneTaskInv, BatchWatched, NEW j \in Jobs, j \notin disturbed', Quiet(j),
         NEW t \in TasksOn(j), LauncherStep(t)
  PROVE  StaysQuiet(j)
<1> USE DEF dbVars, restVars, At, Disturb, QuietMove
<1>t. /\ status \in [Jobs -> Status] /\ pods \in [Jobs -> Phase]
  BY DEF TypeOK, JobTableTypeOK
<1>a. t \in tasks /\ t \in Task /\ t.job = j
  BY TaskAlone
<1>q. /\ QuietStatus(j)
      /\ t.kind = "submit" =>
           /\ status[j] = "queued" \/ (t.step = "cleanup" /\ status[j] = "error")
           /\ t.step = "create" => pods[j] = "NotFound"
      /\ t.kind = "kill" =>
           /\ t.mgr \in Pollers /\ status[j] = t.mgr
           /\ t.target = "queued" \/ (t.target = "killed" /\ t.mgr = "running")
           /\ t.step = "write" => pods[j] \notin HoldsGpu
  BY DEF Quiet, QuietTasks
<1>p. \A p : PhaseDeleted(p) \notin HoldsGpu
  BY DEF PhaseDeleted, HoldsGpu, Mixture
<1>w. \A x \in Status : WriteStatus({j}, x) => status'[j] \in {status[j], x}
  BY <1>t DEF WriteStatus, Put
<1>d. DeletePods(j) => pods'[j] = PhaseDeleted(pods[j])
  BY <1>t DEF DeletePods, SetPhase
<1>c. SetPhase(j, "Pending") => pods'[j] = "Pending"
  BY <1>t DEF SetPhase
<1>s. \A x \in {"killed", "queued", "error", "scheduling"} : x \in Status
  BY DEF Status, RowStatus, Terminal
<1>n. ~(status[j] \in {"queued", "scheduling", "running"} /\ status[j] \in Terminal)
  BY DEF Terminal
<1> DEFINE Fewer == \/ pods'[j] = pods[j] \/ pods'[j] = PhaseDeleted(pods[j])
                    \/ pods[j] \in Mixture /\ pods'[j] = "Running"
<1>k. ASSUME Fewer, status'[j] = status[j]
      PROVE  QuietStatus(j)' /\ Keeps(j)
  BY <1>k, <1>p, <1>q DEF QuietStatus, Keeps, PhaseDeleted, HoldsGpu, Mixture
<1>1. CASE KillDelete(t)
  <2>1. status'[j] = status[j] /\ pods'[j] = PhaseDeleted(pods[j]) /\ Goto(t, "write") /\ UNCHANGED mgrVars
    BY <1>1, <1>a, <1>d DEF KillDelete
  <2>2. t.kind = "kill"
    BY <1>1 DEF KillDelete
  <2> QED
    BY <1>k, <1>p, <2>1, <2>2, TaskGoes
<1>2. CASE KillDeleteFails(t)
  <2>1. /\ status'[j] = status[j] /\ Done(t) /\ UNCHANGED mgrVars
        /\ Fewer
    BY <1>2, <1>a, <1>d, <1>t DEF KillDeleteFails, DeleteIncomplete, SetPhase
  <2>2. status'[j] \notin Terminal
    BY <1>2, <1>q, <1>n, <2>1 DEF KillDeleteFails, Pollers
  <2> QED
    BY <1>k, <2>1, <2>2, TaskEnds
<1>3. CASE KillWrite(t)
  <2>1. /\ t.kind = "kill" /\ t.step = "write" /\ Done(t) /\ UNCHANGED mgrVars
        /\ pods'[j] = pods[j] /\ status'[j] \in {status[j], t.target}
    BY <1>3, <1>a, <1>q, <1>w, <1>s DEF KillWrite
  <2>2. status'[j] = t.target => Advances(j)
    BY <1>q, <2>1 DEF Advances, Life!Follows, Life!WithoutDevices, Pollers
  <2>3. status'[j] = status[j] => Keeps(j)
    BY <2>1 DEF Keeps
  <2>4. QuietStatus(j)'
    BY <1>q, <2>1 DEF QuietStatus
  <2> QED
    BY <1>q, <2>1, <2>2, <2>3, <2>4, TaskEnds
<1>4. CASE SubmitCheck(t)
  <2>1. /\ status'[j] = status[j] /\ UNCHANGED mgrVars
        /\ Fewer
        /\ Done(t) \/ (Goto(t, "create") /\ pods'[j] = "NotFound")
    BY <1>4, <1>a, <1>d, <1>t DEF SubmitCheck, DeleteIncomplete, SetPhase
  <2>2. t.kind = "submit" /\ status[j] = "queued"
    BY <1>4, <1>q DEF SubmitCheck
  <2> QED
    BY <1>k, <1>n, <2>1, <2>2, TaskEnds, TaskGoes
<1>5. CASE SubmitInvalid(t)
  <2>1. /\ status[j] = "queued" /\ Done(t) /\ UNCHANGED mgrVars
        /\ pods[j] = "NotFound" /\ pods'[j] = pods[j] /\ status'[j] \in {status[j], "error"}
    BY <1>5, <1>a, <1>q, <1>w, <1>s DEF SubmitInvalid
  <2>2. Keeps(j) \/ Advances(j)
    BY <2>1 DEF Keeps, Advances, Life!Follows, Life!WithoutDevices
  <2>3. QuietStatus(j)' /\ pods'[j] \notin HoldsGpu
    BY <2>1 DEF QuietStatus, HoldsGpu, Mixture
  <2> QED
    BY <2>1, <2>2, <2>3, TaskEnds
<1>6. CASE SubmitCreate(t) \/ SubmitCreateFails(t)
  <2>1. /\ t.kind = "submit" /\ status[j] = "queued" /\ status'[j] = status[j]
        /\ UNCHANGED mgrVars /\ (Goto(t, "write") \/ Goto(t, "fail"))
    BY <1>6, <1>q DEF SubmitCreate, SubmitCreateFails
  <2>2. QuietStatus(j)' /\ Given(j)
    BY <2>1 DEF QuietStatus, Given
  <2> QED
    BY <2>1, <2>2, TaskGoes
<1>7. CASE SubmitWrite(t)
  <2>1. /\ status[j] = "queued" /\ Done(t) /\ UNCHANGED mgrVars
        /\ pods'[j] = pods[j] /\ status'[j] \in {status[j], "scheduling"}
    BY <1>7, <1>a, <1>q, <1>w, <1>s DEF SubmitWrite
  <2>2. Keeps(j) \/ Advances(j)
    BY <2>1 DEF Keeps, Advances, Life!Follows, Life!WithoutDevices
  <2>3. QuietStatus(j)' /\ status'[j] \notin Terminal
    BY <2>1 DEF QuietStatus, Terminal
  <2> QED
    BY <2>1, <2>2, <2>3, TaskEnds
<1>8. CASE SubmitFail(t)
  <2>1. /\ t.kind = "submit" /\ status[j] = "queued" /\ UNCHANGED mgrVars /\ pods'[j] = pods[j]
        /\ \/ Done(t) /\ status'[j] = status[j]
           \/ Goto(t, "cleanup") /\ status'[j] \in {status[j], "error"}
    BY <1>8, <1>a, <1>q, <1>w, <1>s DEF SubmitFail
  <2>2. Keeps(j) \/ Advances(j)
    BY <2>1 DEF Keeps, Advances, Life!Follows, Life!WithoutDevices
  <2>3. QuietStatus(j)'
    BY <2>1 DEF QuietStatus
  <2> QED
    BY <1>n, <2>1, <2>2, <2>3, TaskEnds, TaskGoes
<1>9. CASE SubmitCleanup(t)
  <2>1. /\ status'[j] = status[j] /\ UNCHANGED mgrVars /\ Done(t)
        /\ pods'[j] = PhaseDeleted(pods[j])
    BY <1>9, <1>a, <1>d DEF SubmitCleanup
  <2> QED
    BY <1>k, <1>p, <2>1, TaskEnds
<1>10. CASE WorkerDies(t)
  <2>1. /\ status'[j] = status[j] /\ pods'[j] = pods[j] /\ UNCHANGED mgrVars
        /\ Done(t) \/ Goto(t, "dead")
        /\ t.step # "cleanup"
    BY <1>10, <1>a DEF WorkerDies
  <2>2. status'[j] \notin Terminal
    BY <1>q, <1>n, <1>a, <2>1 DEF Task, Pollers
  <2> QED
    BY <1>k, <2>1, <2>2, TaskEnds
<1> QED
  BY <1>1, <1>2, <1>3, <1>4, <1>5, <1>6, <1>7, <1>8, <1>9, <1>10 DEF LauncherStep, LauncherWork

\* Launchers keep undisturbed jobs quiet, whichever job they work for.
LEMMA LauncherKeepsQuiet ==
  ASSUME TypeOK, OneTaskInv, BatchWatched, NEW j \in Jobs, j \notin disturbed', Quiet(j),
         NEW t \in tasks, LauncherStep(t)
  PROVE  StaysQuiet(j)
<1> USE DEF dbVars, restVars, At
<1>x. [Next]_vars
  BY DEF Next
<1>t. /\ status \in [Jobs -> Status] /\ pods \in [Jobs -> Phase]
      /\ t \in Task
  BY DEF TypeOK, JobTableTypeOK
<1>1. t.step # "dead"
  BY DEF LauncherStep, LauncherWork, KillDelete, KillDeleteFails, KillWrite, SubmitCheck,
     SubmitInvalid, SubmitCreate, SubmitCreateFails, SubmitWrite, SubmitFail, SubmitCleanup,
     WorkerDies
<1>2. CASE t.job = j
  BY <1>1, <1>2, TaskKeepsQuiet DEF TasksOn
<1>3. CASE t.job # j
  <2>1. status'[j] = status[j]
    <3>1. ASSUME NEW x, WriteStatus({t.job}, x) PROVE status'[j] = status[j]
      BY <1>t, <1>3, <3>1 DEF WriteStatus, Put
    <3> QED
      BY <3>1 DEF LauncherStep, LauncherWork, KillDelete, KillDeleteFails, KillWrite, SubmitCheck,
         SubmitInvalid, SubmitCreate, SubmitCreateFails, SubmitWrite, SubmitFail, SubmitCleanup,
         WorkerDies
  <2>2. pods'[j] = pods[j]
    <3>1. ASSUME \/ DeletePods(t.job) \/ DeleteIncomplete(t.job) \/ SetPhase(t.job, "Pending")
          PROVE  pods'[j] = pods[j]
      BY <1>t, <1>3, <3>1 DEF DeletePods, DeleteIncomplete, SetPhase
    <3> QED
      BY <3>1 DEF LauncherStep, LauncherWork, KillDelete, KillDeleteFails, KillWrite, SubmitCheck,
         SubmitInvalid, SubmitCreate, SubmitCreateFails, SubmitWrite, SubmitFail, SubmitCleanup,
         WorkerDies
  <2>3. Moves(t)
    BY LauncherMoves
  <2>4. TasksOn(j)' = TasksOn(j)
    BY <1>t, <1>3, <2>3 DEF Moves, Done, Goto, TasksOn, Task
  <2>5. ActingOn(j)' = ActingOn(j) /\ UNCHANGED mgrVars
    BY <2>3 DEF Moves, ActingOn, mgrVars
  <2> QED
    BY <2>1, <2>2, <2>4, <2>5, <1>x, WorkEnds DEF RowsKept, mgrVars
<1> QED
  BY <1>2, <1>3

\* Whatever becomes of the pods, only devices can be lost.
LEMMA PodKeepsQuiet ==
  ASSUME TypeOK, NEW j \in Jobs, Quiet(j), NEW i \in Jobs, PodStep(i)
  PROVE  StaysQuiet(j)
<1> USE DEF dbVars, mgrVars, restVars
<1>h. UNCHANGED <<status, tasks, batch, step, cur, gen>>
  BY DEF PodStep
<1>1. TasksOn(j)' = TasksOn(j) /\ ActingOn(j)' = ActingOn(j)
  BY <1>h DEF TasksOn, ActingOn
<1>2. pods'[j] = pods[j] \/ pods'[j] \in PodNext(pods[j]) \cup MixtureNext(pods[j])
  BY DEF PodStep, SetPhase, TypeOK, JobTableTypeOK
<1>3. /\ pods'[j] \in HoldsGpu => pods[j] \in HoldsGpu
      /\ \A p \in {"NotFound", "Succeeded", "Failed", "Restart"} : pods[j] = p => pods'[j] = p
  BY <1>2 DEF PodNext, MixtureNext, HoldsGpu, Mixture
<1>4. QuietStatus(j)' /\ QuietRows(j)' /\ OneOperation(j)'
  BY <1>h, <1>1, <1>3 DEF Quiet, QuietStatus, QuietRows, OneOperation
<1>5. QuietTasks(j)'
  BY <1>h, <1>1, <1>3 DEF Quiet, QuietTasks
<1>6. QuietAnswers(j)'
  BY <1>h, <1>1, <1>3 DEF Quiet, QuietAnswers
<1>7. EndFreesGpu(j)'
  BY <1>h, <1>1, <1>3, GivenUpStays DEF Quiet, EndFreesGpu, Next
<1>8. QuietMove(j)
  BY <1>h, <1>3 DEF QuietMove, Keeps
<1> QED
  BY <1>4, <1>5, <1>6, <1>7, <1>8 DEF StaysQuiet, Quiet

\* A restarted manager leaves nothing under way for an undisturbed job.
LEMMA RestartKeepsQuiet ==
  ASSUME TypeOK, OneTaskInv, NEW j \in Jobs, j \notin disturbed', Quiet(j),
         NEW m \in Managers, Restart(m)
  PROVE  StaysQuiet(j)
<1> USE DEF dbVars, restVars
<1>x. [Next]_vars
  BY DEF Next
<1>t. /\ batch \in [Managers -> [Jobs -> RowStatus \cup {NoSeen}]]
      /\ step \in [Managers -> {"loop", "plan", "apply", "cleanup"}]
      /\ DOMAIN cur = Managers /\ DOMAIN gen = Managers
      /\ \A t \in tasks : t.mgr \in Managers
  BY DEF TypeOK, JobTableTypeOK, Task
<1>1. /\ tasks' \subseteq tasks
      /\ \A t \in Outstanding(m) :
           t.job = j => t \notin tasks' /\ t.step \in NotStarted \cup {"dead"}
      /\ \A t \in tasks \ Outstanding(m) : t \in tasks'
      /\ ~(step[m] \in {"apply", "cleanup"} /\ cur[m].job = j)
  BY DEF Restart, Disturb
<1>2. /\ UNCHANGED <<status, pods>>
      /\ gen' = [gen EXCEPT ![m] = @ + 1]
      /\ batch' = [batch EXCEPT ![m] = NoBatch]
      /\ step' = [step EXCEPT ![m] = "loop"]
      /\ cur' = [cur EXCEPT ![m] = NoCur]
  BY DEF Restart
<1>3. \A t \in TasksOn(j)' : t \in TasksOn(j) /\ gen'[t.mgr] = gen[t.mgr]
  <2> SUFFICES ASSUME NEW t \in tasks', t.job = j, t.step # "dead"
               PROVE  t \in TasksOn(j) /\ gen'[t.mgr] = gen[t.mgr]
    BY DEF TasksOn
  <2>1. t \in TasksOn(j)
    BY <1>1 DEF TasksOn
  <2>2. t.gen = gen[t.mgr]
    BY <2>1 DEF Quiet, QuietTasks
  <2>3. t.mgr # m
    BY <1>1, <2>1, <2>2 DEF Outstanding, TasksOn
  <2> QED
    BY <1>t, <1>1, <1>2, <2>1, <2>3
<1>4. ActingOn(j)' = ActingOn(j)
      /\ \A n \in ActingOn(j)' : step'[n] = step[n] /\ cur'[n] = cur[n]
  BY <1>t, <1>1, <1>2 DEF ActingOn
<1>5. RowsKept(j)
  BY <1>t, <1>2 DEF RowsKept, NoBatch
<1>6. CASE status[j] \notin Terminal
  BY <1>2, <1>3, <1>4, <1>5, <1>6, <1>x, WorkEnds
<1>7. CASE status[j] \in Terminal
  <2>1. \A t \in TasksOn(j) : t.step = "cleanup" /\ t.mgr = "queued" /\ t.gen = gen["queued"]
    BY <1>7 DEF Quiet, QuietTasks, Terminal, Pollers, TypeOK, JobTableTypeOK, TasksOn, Task
  <2>2. TasksOn(j) \subseteq TasksOn(j)'
    BY <1>1, <2>1 DEF TasksOn, NotStarted
  <2> QED
    BY <1>2, <1>3, <1>4, <1>5, <2>2, <1>x, WorkEnds
<1> QED
  BY <1>6, <1>7

-----------------------------------------------------------------------------
\* While a poller acts on an undisturbed job, nothing else does.
LEMMA PollerAlone ==
  ASSUME TypeOK, OneTaskInv, BatchWatched, NEW j \in Jobs, Quiet(j), NEW m \in ActingOn(j)
  PROVE  /\ TasksOn(j) = {} /\ ActingOn(j) = {m}
         /\ m \in Managers /\ m \in Pollers /\ cur[m].job = j
         /\ RowsFree(j)
<1>1. TasksOn(j) = {} /\ ActingOn(j) = {m}
  BY DEF Quiet, OneOperation
<1>2. m \in Managers /\ cur[m].job = j /\ step[m] \in {"apply", "cleanup"}
  BY DEF ActingOn
<1>3. m \in Pollers /\ status[j] \in {m, "finished", "failed", "error"}
  BY <1>2 DEF Quiet, QuietAnswers
<1>4. batch[m][j] = NoSeen
  BY <1>2 DEF OneTaskInv, InHandOnce
<1>5. RowsFree(j)
  <2> SUFFICES ASSUME NEW n \in Managers
               PROVE  batch[n][j] = NoSeen \/ (n = "queued" /\ batch[n][j] \in Pollers)
    BY DEF RowsFree
  <2>1. batch[n][j] \in {NoSeen, status[j]} \/ (n = "queued" /\ batch[n][j] \in Pollers)
    BY DEF Quiet, QuietRows
  <2>2. batch[n][j] \in Watched(n) \cup {NoSeen}
    BY DEF BatchWatched
  <2> QED
    BY <1>3, <1>4, <2>1, <2>2 DEF Watched, Managers, Pollers
<1> QED
  BY <1>1, <1>2, <1>3, <1>5

\* A poller that is done with an undisturbed job, and begins no task for it, leaves
\* it quiet if the step does.
LEMMA PollerEnds ==
  ASSUME TypeOK, OneTaskInv, BatchWatched, NEW j \in Jobs, Quiet(j), NEW m \in ActingOn(j),
         NextJob(m), UNCHANGED <<tasks, batch>>,
         QuietStatus(j)', QuietMove(j), status'[j] \in Terminal => pods'[j] \notin HoldsGpu \/ GivenUp(j)'
  PROVE  StaysQuiet(j)
<1>1. TasksOn(j) = {} /\ ActingOn(j) = {m} /\ m \in Managers /\ RowsFree(j)
  BY PollerAlone
<1>2. \A n \in Managers : step'[n] = IF n = m THEN "loop" ELSE step[n]
  BY DEF NextJob, TypeOK, JobTableTypeOK
<1>3. \A n \in Managers : n # m => cur'[n] = cur[n]
  BY DEF NextJob, TypeOK, JobTableTypeOK
<1>4. TasksOn(j)' = {} /\ ActingOn(j)' = {}
  BY <1>1, <1>2, <1>3 DEF TasksOn, ActingOn
<1>5. QuietTasks(j)' /\ QuietAnswers(j)' /\ OneOperation(j)' /\ EndFreesGpu(j)'
  BY <1>4 DEF QuietTasks, QuietAnswers, OneOperation, EndFreesGpu
<1>6. QuietRows(j)'
  BY <1>1 DEF RowsFree, QuietRows
<1> QED
  BY <1>5, <1>6 DEF StaysQuiet, Quiet

\* The one task a poller may begin for an undisturbed job: it deletes the pods and
\* queues the job again, or, past its time limit, ends it.
LEMMA PollerKills ==
  ASSUME TypeOK, OneTaskInv, BatchWatched, NEW j \in Jobs, Quiet(j), NEW m \in ActingOn(j),
         NextJob(m), UNCHANGED <<batch, gen, pods>>, status'[j] = status[j], status[j] = m,
         NEW x \in {"queued", "killed"}, x = "killed" => m = "running",
         tasks' = tasks \cup {kill_job(m, j, x)}
  PROVE  StaysQuiet(j)
<1> DEFINE u == kill_job(m, j, x)
<1>1. /\ TasksOn(j) = {} /\ ActingOn(j) = {m} /\ m \in Managers /\ m \in Pollers
      /\ RowsFree(j)
  BY PollerAlone
<1>2. \A n \in Managers : step'[n] = IF n = m THEN "loop" ELSE step[n]
  BY DEF NextJob, TypeOK, JobTableTypeOK
<1>3. \A n \in Managers : n # m => cur'[n] = cur[n]
  BY DEF NextJob, TypeOK, JobTableTypeOK
<1>4. /\ u.mgr = m /\ u.gen = gen[m] /\ u.job = j /\ u.kind = "kill" /\ u.target = x
      /\ u.step = "delete"
  BY DEF kill_job, NewTask
<1> HIDE DEF u
<1>5. tasks' = tasks \cup {u}
  BY DEF u
<1>6. TasksOn(j)' = {u} /\ ActingOn(j)' = {}
  BY <1>1, <1>2, <1>3, <1>4, <1>5 DEF TasksOn, ActingOn
<1>7. QuietTasks(j)'
  BY <1>1, <1>4, <1>6 DEF QuietTasks
<1>8. QuietStatus(j)' /\ QuietAnswers(j)' /\ OneOperation(j)' /\ EndFreesGpu(j)' /\ QuietMove(j)
  BY <1>6 DEF Quiet, QuietStatus, QuietAnswers, OneOperation, EndFreesGpu, QuietMove, Keeps
<1>9. QuietRows(j)'
  BY <1>1 DEF RowsFree, QuietRows
<1> QED
  BY <1>7, <1>8, <1>9 DEF StaysQuiet, Quiet

\* A poller at work on an undisturbed job.
LEMMA AnswerKeepsQuiet ==
  ASSUME TypeOK, OneTaskInv, BatchWatched, NEW j \in Jobs, j \notin disturbed', Quiet(j),
         NEW m \in ActingOn(j),
         \/ ApplyEnded(m) \/ Cleanup(m) \/ ApplyRunning(m) \/ ApplyRestart(m)
         \/ ApplyUnusual(m) \/ ApplyPending(m)
  PROVE  StaysQuiet(j)
<1> USE DEF dbVars, restVars, Disturb, QuietMove, Applying
<1>t. /\ status \in [Jobs -> Status] /\ pods \in [Jobs -> Phase]
      /\ step \in [Managers -> {"loop", "plan", "apply", "cleanup"}]
  BY DEF TypeOK, JobTableTypeOK
<1>a. /\ TasksOn(j) = {} /\ ActingOn(j) = {m} /\ m \in Managers /\ m \in Pollers
      /\ cur[m].job = j /\ RowsFree(j)
  BY PollerAlone
<1>q. /\ QuietStatus(j)
      /\ step[m] = "apply" =>
           /\ status[j] = m /\ cur[m].seen = m
           /\ j \notin Distributed /\ cur[m].obs \in {"Succeeded", "Failed", "Restart"}
                => pods[j] = cur[m].obs
      /\ step[m] = "cleanup" => status[j] \in {m, "finished", "failed", "error"}
  BY DEF Quiet, QuietAnswers
<1>w. \A x \in Status : WriteStatus({j}, x) => status'[j] \in {status[j], x}
  BY <1>t DEF WriteStatus, Put
<1>s. \A x \in {"finished", "failed", "error", "queued", "running"} : x \in Status
  BY DEF Status, RowStatus, Terminal
<1>n. m \notin Terminal
  BY <1>a DEF Terminal, Pollers
<1>r. RetriesCounted(j) /\ Retried(j) >= RestartLimit => retries'[j] = RestartLimit
  <2>1. retries \in [Jobs -> 0..RestartLimit] /\ RestartLimit \in Nat
    BY LimitAssumption DEF TypeOK, JobTableTypeOK
  <2> QED
    BY <2>1 DEF RetriesCounted, Retried
<1>1. CASE ApplyEnded(m)
  <2>1. PICK x \in {"finished", "failed", "error"} :
          /\ WriteStatus({j}, x)
          /\ x \in {"finished", "failed"} => cur[m].obs \in {"Succeeded", "Failed"}
    BY <1>1, <1>a DEF ApplyEnded
  <2>2. /\ step[m] = "apply" /\ UNCHANGED <<tasks, batch, gen, pods, cur>>
        /\ \A n \in Managers : step'[n] = IF n = m THEN "cleanup" ELSE step[n]
    BY <1>1, <1>t DEF ApplyEnded, ThenCleanup
  <2>3. status'[j] \in {m, x} /\ status[j] = m
    BY <1>q, <1>w, <1>s, <2>1, <2>2
  <2>4. x \in Life!WithoutDevices(j) => pods[j] \notin HoldsGpu
    BY <1>q, <2>1, <2>2 DEF HoldsGpu, Mixture, Life!WithoutDevices
  <2>5. TasksOn(j)' = {} /\ ActingOn(j)' = {m}
    BY <1>a, <2>2 DEF TasksOn, ActingOn
  <2>6. QuietMove(j)
    BY <1>a, <2>2, <2>3, <2>4 DEF Keeps, Advances, Life!Follows, Pollers
  <2>7. QuietStatus(j)' /\ QuietTasks(j)' /\ OneOperation(j)' /\ EndFreesGpu(j)'
    BY <1>a, <2>3, <2>5 DEF QuietStatus, QuietTasks, OneOperation, EndFreesGpu, Pollers
  <2>8. QuietAnswers(j)'
    BY <1>a, <2>2, <2>3, <2>5 DEF QuietAnswers
  <2>9. QuietRows(j)'
    BY <1>a, <2>2 DEF RowsFree, QuietRows
  <2> QED
    BY <2>6, <2>7, <2>8, <2>9 DEF StaysQuiet, Quiet
<1>2. CASE Cleanup(m)
  <2>1. /\ NextJob(m) /\ UNCHANGED <<tasks, batch, status>> /\ DeletePods(j)
    BY <1>2, <1>a DEF Cleanup
  <2>2. pods'[j] = PhaseDeleted(pods[j])
    BY <1>t, <2>1 DEF DeletePods, SetPhase
  <2>3. pods'[j] \notin HoldsGpu
    BY <2>2 DEF PhaseDeleted, HoldsGpu, Mixture
  <2>4. QuietStatus(j)'
    BY <1>q, <2>1, <2>2 DEF QuietStatus, PhaseDeleted, Mixture
  <2> QED
    BY <2>1, <2>3, <2>4, PollerEnds DEF Keeps
<1>3. CASE ApplyRunning(m)
  <2>1. /\ step[m] = "apply" /\ NextJob(m) /\ UNCHANGED <<batch, gen, pods>> /\ status[j] = m
        /\ \/ UNCHANGED tasks
           \/ m = "running" /\ tasks' = tasks \cup {kill_job(m, j, "killed")}
    BY <1>3, <1>a, <1>q DEF ApplyRunning
  <2>2. status'[j] \in {m, "running"} /\ (m = "running" => status'[j] = status[j])
    BY <1>3, <1>a, <1>q, <1>w, <1>s DEF ApplyRunning
  <2>3. CASE UNCHANGED tasks
    <3>1. Keeps(j) \/ Advances(j)
      BY <1>a, <2>1, <2>2 DEF Keeps, Advances, Life!Follows, Life!WithoutDevices, Pollers
    <3>2. QuietStatus(j)' /\ status'[j] \notin Terminal
      BY <1>a, <2>2 DEF QuietStatus, Terminal, Pollers
    <3> QED
      BY <2>1, <2>3, <3>1, <3>2, PollerEnds
  <2>4. CASE m = "running" /\ tasks' = tasks \cup {kill_job(m, j, "killed")}
    BY <2>1, <2>2, <2>4, PollerKills
  <2> QED
    BY <2>1, <2>3, <2>4
<1>4. CASE ApplyRestart(m)
  <2>1. /\ step[m] = "apply" /\ NextJob(m) /\ UNCHANGED <<tasks, batch, pods>>
        /\ status[j] = m /\ (j \notin Distributed => pods[j] = "Restart")
    BY <1>4, <1>q DEF ApplyRestart
  <2>2. PICK x \in {"queued", "error"} :
          /\ WriteStatus({j}, x)
          /\ x = "error" => retries'[j] = RestartLimit
    BY <1>4, <1>a, <1>r DEF ApplyRestart, RetriesCounted
  <2>3. status'[j] \in {m, x}
    BY <1>w, <1>s, <2>1, <2>2
  <2>4. pods'[j] \notin HoldsGpu \/ j \in Distributed
    BY <2>1 DEF HoldsGpu, Mixture
  <2>5. Keeps(j) \/ Advances(j)
    BY <1>a, <2>1, <2>3, <2>4 DEF Keeps, Advances, Life!Follows, Life!WithoutDevices, Pollers
  <2>6. QuietStatus(j)'
    BY <1>a, <2>3 DEF QuietStatus, Pollers
  <2>7. status'[j] \in Terminal => pods'[j] \notin HoldsGpu \/ GivenUp(j)'
    BY <1>n, <2>2, <2>3, <2>4 DEF GivenUp, Terminal
  <2> QED
    BY <2>1, <2>5, <2>6, <2>7, PollerEnds
<1>5. CASE ApplyUnusual(m) \/ ApplyPending(m)
  <2>1. /\ step[m] = "apply" /\ NextJob(m) /\ UNCHANGED <<status, batch, gen, pods>>
        /\ status[j] = m
        /\ UNCHANGED tasks \/ tasks' = tasks \cup {kill_job(m, j, "queued")}
    BY <1>5, <1>a, <1>q DEF ApplyUnusual, ApplyPending
  <2>2. CASE UNCHANGED tasks
    <3>1. Keeps(j) /\ QuietStatus(j)'
      BY <1>q, <2>1 DEF Keeps, QuietStatus
    <3> QED
      BY <1>n, <2>1, <2>2, <3>1, PollerEnds
  <2>3. CASE tasks' = tasks \cup {kill_job(m, j, "queued")}
    BY <2>1, <2>3, PollerKills
  <2> QED
    BY <2>1, <2>2, <2>3
<1> QED
  BY <1>1, <1>2, <1>3, <1>4, <1>5

\* A poller that asks Kubernetes about an undisturbed job is the only one at work on it.
LEMMA CheckKeepsQuiet ==
  ASSUME TypeOK, OneTaskInv, BatchWatched, NEW j \in Jobs, Quiet(j),
         NEW m \in Managers, CheckJobStatus(m, j)
  PROVE  StaysQuiet(j)
<1> USE DEF dbVars, restVars
<1>t. /\ batch \in [Managers -> [Jobs -> RowStatus \cup {NoSeen}]]
      /\ DOMAIN step = Managers /\ DOMAIN cur = Managers
      /\ \A t \in tasks : t.mgr \in Managers /\ t.kind \in {"submit", "kill"}
  BY DEF TypeOK, JobTableTypeOK, Task
<1>1. /\ m \in Pollers /\ step[m] = "loop" /\ batch[m][j] # NoSeen
      /\ UNCHANGED <<status, pods, tasks, gen>>
      /\ Forget(m, j) /\ step' = [step EXCEPT ![m] = "apply"]
  BY DEF CheckJobStatus, Processing
<1>2. PICK o \in Observed(j, pods[j]) :
        cur' = [cur EXCEPT ![m] = [job |-> j, seen |-> batch[m][j], obs |-> o]]
  BY DEF CheckJobStatus
<1>3. batch[m][j] = m /\ status[j] = m
  <2>1. batch[m][j] \in Watched(m) \cup {NoSeen}
    BY DEF BatchWatched
  <2>2. batch[m][j] \in {NoSeen, status[j]} \/ m = "queued"
    BY DEF Quiet, QuietRows
  <2> QED
    BY <1>1, <2>1, <2>2 DEF Watched, Pollers
<1>4. TasksOn(j) = {}
  <2> SUFFICES ASSUME NEW t \in TasksOn(j) PROVE FALSE
    OBVIOUS
  <2>1. t \in tasks /\ t.job = j /\ t.gen = gen[t.mgr]
    BY TaskAlone DEF TasksOn
  <2>2. t.mgr = m
    BY <1>1, <1>3, <1>t, <2>1 DEF Quiet, QuietTasks, Pollers
  <2> QED
    BY <1>1, <2>1, <2>2 DEF OneTaskInv, NoTaskInHand, InHand
<1>5. ActingOn(j) = {}
  <2> SUFFICES ASSUME NEW n \in ActingOn(j) PROVE FALSE
    OBVIOUS
  <2>1. n \in Managers /\ step[n] \in {"apply", "cleanup"}
    BY DEF ActingOn
  <2>2. status[j] = n
    BY <1>1, <1>3, <2>1 DEF Quiet, QuietAnswers, Pollers
  <2> QED
    BY <1>1, <1>3, <2>1, <2>2
<1>6. /\ \A n \in Managers : step'[n] = IF n = m THEN "apply" ELSE step[n]
      /\ cur'[m] = [job |-> j, seen |-> m, obs |-> o]
      /\ \A n \in Managers : n # m => cur'[n] = cur[n]
  BY <1>t, <1>1, <1>2, <1>3
<1>7. TasksOn(j)' = {} /\ ActingOn(j)' = {m}
  <2>1. TasksOn(j)' = {}
    BY <1>1, <1>4 DEF TasksOn
  <2>2. \A n \in Managers : n \in ActingOn(j)' <=> n = m
    BY <1>5, <1>6 DEF ActingOn
  <2> QED
    BY <2>1, <2>2 DEF ActingOn
<1>8. QuietStatus(j)' /\ QuietTasks(j)' /\ OneOperation(j)' /\ EndFreesGpu(j)'
  BY <1>1, <1>7 DEF Quiet, QuietStatus, QuietTasks, OneOperation, EndFreesGpu
<1>9. QuietAnswers(j)'
  <2>1. pods[j] \in Mixture => j \in Distributed
    BY DEF TypeOK, JobTableTypeOK
  <2>2. j \notin Distributed /\ o \in {"Succeeded", "Failed", "Restart"} => pods[j] = o
    BY <1>2, <2>1 DEF Observed, ObservedBeside
  <2> QED
    BY <1>1, <1>3, <1>6, <1>7, <2>2 DEF QuietAnswers
<1>10. QuietRows(j)'
  <2>1. \A n \in Managers : batch'[n][j] \in {NoSeen, batch[n][j]}
    BY <1>t, <1>1 DEF Forget
  <2> QED
    BY <1>1, <2>1 DEF Quiet, QuietRows
<1>11. QuietMove(j)
  BY <1>1 DEF QuietMove, Keeps
<1> QED
  BY <1>8, <1>9, <1>10, <1>11 DEF StaysQuiet, Quiet

\* The pollers keep undisturbed jobs quiet, whichever job they act on.
LEMMA PollerKeepsQuiet ==
  ASSUME TypeOK, OneTaskInv, BatchWatched, NEW j \in Jobs, j \notin disturbed', Quiet(j),
         NEW m \in Pollers, PollerStep(m)
  PROVE  StaysQuiet(j)
<1> USE DEF dbVars, restVars, Applying
<1>x. [Next]_vars
  BY DEF Next, ManagerStep
<1>m. m \in Managers
  BY DEF Pollers, Managers
<1>t. /\ status \in [Jobs -> Status] /\ pods \in [Jobs -> Phase]
      /\ batch \in [Managers -> [Jobs -> RowStatus \cup {NoSeen}]]
      /\ DOMAIN step = Managers /\ DOMAIN cur = Managers
      /\ NoJob \notin Jobs
  BY NoJobAssumption DEF TypeOK, JobTableTypeOK
<1>1. ASSUME NEW i \in Jobs, i # j, CheckJobStatus(m, i) PROVE StaysQuiet(j)
  <2>1. /\ UNCHANGED <<status, pods, tasks, gen>> /\ step[m] = "loop"
        /\ \A n \in Managers : step'[n] = IF n = m THEN "apply" ELSE step[n]
        /\ \A n \in Managers : batch'[n][j] = batch[n][j]
    BY <1>1, <1>m, <1>t DEF CheckJobStatus, Forget, Processing
  <2>2. cur'[m].job = i /\ \A n \in Managers : n # m => cur'[n] = cur[n]
    BY <1>1, <1>m, <1>t DEF CheckJobStatus
  <2>3. TasksOn(j)' = TasksOn(j)
    BY <2>1 DEF TasksOn
  <2>4. \A n \in Managers :
          /\ n \in ActingOn(j)' <=> n \in ActingOn(j)
          /\ n \in ActingOn(j)' => step'[n] = step[n] /\ cur'[n] = cur[n]
    BY <1>1, <2>1, <2>2 DEF ActingOn
  <2>5. ActingOn(j)' = ActingOn(j)
    BY <2>4 DEF ActingOn
  <2> QED
    BY <2>1, <2>3, <2>4, <2>5, <1>x, WorkEnds DEF RowsKept, ActingOn
<1>2. ASSUME ~\E i \in Jobs : CheckJobStatus(m, i) PROVE StaysQuiet(j)
  <2>1. \/ ApplyEnded(m) \/ Cleanup(m) \/ ApplyRunning(m) \/ ApplyRestart(m)
        \/ ApplyUnusual(m) \/ ApplyPending(m)
    BY <1>2 DEF PollerStep
  <2>2. step[m] \in {"apply", "cleanup"}
    BY <2>1 DEF ApplyEnded, Cleanup, ApplyRunning, ApplyRestart, ApplyUnusual, ApplyPending
  <2>3. CASE cur[m].job = j
    BY <1>m, <2>1, <2>2, <2>3, AnswerKeepsQuiet DEF ActingOn
  <2>4. CASE cur[m].job # j
    <3> DEFINE i == cur[m].job
    <3>1. i \in Jobs
      BY <1>m, <2>2 DEF TypeOK, JobTableTypeOK
    <3>2. status'[j] = status[j]
      <4>1. ASSUME NEW x, WriteStatus({i}, x) PROVE status'[j] = status[j]
        BY <1>t, <2>4, <4>1 DEF WriteStatus, Put
      <4> QED
        BY <2>1, <4>1 DEF ApplyEnded, Cleanup, ApplyRunning, ApplyRestart, ApplyUnusual, ApplyPending
    <3>3. pods'[j] = pods[j]
      <4>1. ASSUME DeletePods(i) \/ DeleteIncomplete(i) PROVE pods'[j] = pods[j]
        BY <1>t, <2>4, <4>1 DEF DeletePods, DeleteIncomplete, SetPhase
      <4> QED
        BY <2>1, <4>1 DEF ApplyEnded, Cleanup, ApplyRunning, ApplyRestart, ApplyUnusual, ApplyPending
    <3>4. /\ UNCHANGED gen
          /\ UNCHANGED tasks \/ \E x : tasks' = tasks \cup {kill_job(m, i, x)}
          /\ NextJob(m) \/ ThenCleanup(m)
          /\ UNCHANGED batch \/ batch' = [batch EXCEPT ![m] = NoBatch]
      BY <2>1 DEF ApplyEnded, Cleanup, ApplyRunning, ApplyRestart, ApplyUnusual, ApplyPending
    <3>5. TasksOn(j)' = TasksOn(j)
      BY <2>4, <3>4 DEF TasksOn, kill_job, NewTask
    <3>6. \A n \in Managers :
            /\ n # m => step'[n] = step[n] /\ cur'[n] = cur[n]
            /\ n = m => cur'[n].job # j
      BY <1>t, <1>m, <2>4, <3>4 DEF NextJob, ThenCleanup, NoCur
    <3>7. \A n \in Managers :
            /\ n \in ActingOn(j)' <=> n \in ActingOn(j)
            /\ n \in ActingOn(j)' => step'[n] = step[n] /\ cur'[n] = cur[n]
      BY <2>4, <3>6 DEF ActingOn
    <3>8. ActingOn(j)' = ActingOn(j)
      BY <3>7 DEF ActingOn
    <3>9. RowsKept(j)
      BY <1>t, <3>4 DEF RowsKept, NoBatch
    <3> QED
      BY <3>2, <3>3, <3>4, <3>5, <3>7, <3>8, <3>9, <1>x, WorkEnds DEF ActingOn
  <2> QED
    BY <2>3, <2>4
<1> QED
  BY <1>1, <1>2, <1>m, CheckKeepsQuiet

\* Nothing is at work on an undisturbed job that waits.
LEMMA WaitingAlone ==
  ASSUME TypeOK, OneTaskInv, BatchWatched, NEW j \in Jobs, Quiet(j),
         status[j] \in {"unapproved", "queued"},
         status[j] = "queued" => batch["queued"][j] # NoSeen
  PROVE  TasksOn(j) = {} /\ ActingOn(j) = {}
<1>1. TasksOn(j) = {}
  <2> SUFFICES ASSUME NEW t \in TasksOn(j) PROVE FALSE
    OBVIOUS
  <2>1. t \in tasks /\ t.job = j /\ t.gen = gen[t.mgr] /\ t.kind \in {"submit", "kill"}
    BY TaskAlone DEF Task
  <2>2. t.mgr = "queued" /\ status[j] = "queued"
    BY <2>1 DEF Quiet, QuietTasks, Pollers
  <2> QED
    BY <2>1, <2>2 DEF OneTaskInv, NoTaskInHand, InHand, Managers
<1>2. ActingOn(j) = {}
  BY DEF Quiet, QuietAnswers, ActingOn, Pollers
<1> QED
  BY <1>1, <1>2

\* TakeJobActions submits an undisturbed job once at a time.
LEMMA SubmitKeepsQuiet ==
  ASSUME TypeOK, OneTaskInv, BatchWatched, NEW j \in Jobs, Quiet(j), TakeSubmit(j)
  PROVE  StaysQuiet(j)
<1> USE DEF dbVars, restVars
<1> DEFINE u == submit_job("queued", j)
<1>1. /\ UNCHANGED <<status, pods, step, cur, gen>>
      /\ tasks' = tasks \cup {u} /\ Forget("queued", j)
      /\ batch["queued"][j] = "queued"
  BY DEF TakeSubmit
<1>2. status[j] = "queued"
  BY <1>1 DEF Quiet, QuietRows, Pollers, Managers
<1>3. TasksOn(j) = {} /\ ActingOn(j) = {}
  BY <1>1, <1>2, WaitingAlone
<1>4. /\ u.mgr = "queued" /\ u.gen = gen["queued"] /\ u.job = j /\ u.kind = "submit"
      /\ u.step = "check"
  BY DEF submit_job, NewTask
<1> HIDE DEF u
<1>5. TasksOn(j)' = {u} /\ ActingOn(j)' = {}
  BY <1>1, <1>3, <1>4 DEF TasksOn, ActingOn
<1>6. QuietTasks(j)'
  BY <1>1, <1>2, <1>4, <1>5 DEF QuietTasks
<1>7. QuietStatus(j)' /\ QuietAnswers(j)' /\ OneOperation(j)' /\ EndFreesGpu(j)' /\ QuietMove(j)
  BY <1>1, <1>5 DEF Quiet, QuietStatus, QuietAnswers, OneOperation, EndFreesGpu, QuietMove, Keeps
<1>8. QuietRows(j)'
  <2>1. \A n \in Managers : batch'[n][j] \in {NoSeen, batch[n][j]}
    BY <1>1 DEF Forget, TypeOK, JobTableTypeOK
  <2> QED
    BY <1>1, <2>1 DEF Quiet, QuietRows
<1> QED
  BY <1>6, <1>7, <1>8 DEF StaysQuiet, Quiet

\* ApproveJob writes the status of an undisturbed job that nothing is at work on.
LEMMA ApproveKeepsQuiet ==
  ASSUME TypeOK, OneTaskInv, BatchWatched, NEW j \in Jobs, Quiet(j), ApproveJob(j)
  PROVE  StaysQuiet(j)
<1> USE DEF dbVars, restVars
<1>1. /\ UNCHANGED <<tasks, pods, step, cur, gen>>
      /\ Forget("killing", j)
      /\ batch["killing"][j] = "unapproved"
  BY DEF ApproveJob
<1>2. status[j] = "unapproved" /\ pods[j] = "NotFound"
  BY <1>1 DEF Quiet, QuietRows, QuietStatus, Managers
<1>3. TasksOn(j) = {} /\ ActingOn(j) = {}
  BY <1>2, WaitingAlone
<1>4. status'[j] \in {"unapproved", "queued", "Killed"}
  <2>1. PICK x \in {"queued", "Killed"} : WriteStatus({j}, x)
    BY DEF ApproveJob
  <2> QED
    BY <1>2, <2>1 DEF WriteStatus, Put, TypeOK, JobTableTypeOK
<1>5. TasksOn(j)' = {} /\ ActingOn(j)' = {}
  BY <1>1, <1>3 DEF TasksOn, ActingOn
<1>6. QuietStatus(j)' /\ QuietTasks(j)' /\ QuietAnswers(j)' /\ OneOperation(j)' /\ EndFreesGpu(j)'
  BY <1>1, <1>2, <1>4, <1>5
     DEF QuietStatus, QuietTasks, QuietAnswers, OneOperation, EndFreesGpu, HoldsGpu, Mixture
<1>7. QuietRows(j)'
  <2>1. \A n \in Managers :
          batch'[n][j] = IF n = "killing" THEN NoSeen ELSE batch[n][j]
    BY <1>1 DEF Forget, TypeOK, JobTableTypeOK
  <2>2. \A n \in Managers : batch[n][j] \in Watched(n) \cup {NoSeen}
    BY DEF BatchWatched
  <2>3. \A n \in Managers : \/ batch[n][j] \in {NoSeen, "unapproved"}
                            \/ n = "queued" /\ batch[n][j] \in Pollers
    BY <1>2 DEF Quiet, QuietRows
  <2>4. \A n \in Managers : n # "killing" => "unapproved" \notin Watched(n)
    BY DEF Watched, Managers
  <2> QED
    BY <2>1, <2>2, <2>3, <2>4 DEF QuietRows
<1>8. QuietMove(j)
  BY <1>1, <1>2, <1>4 DEF QuietMove, Keeps, Advances, Life!Follows, Life!WithoutDevices, HoldsGpu, Mixture
<1> QED
  BY <1>6, <1>7, <1>8 DEF StaysQuiet, Quiet

\* Every step of the managers keeps undisturbed jobs quiet.
LEMMA ManagerKeepsQuiet ==
  ASSUME TypeOK, OneTaskInv, BatchWatched, NEW j \in Jobs, j \notin disturbed', Quiet(j),
         ManagerStep
  PROVE  StaysQuiet(j)
<1> USE DEF dbVars, restVars
<1>x. [Next]_vars
  BY DEF Next
<1>t. /\ status \in [Jobs -> Status]
      /\ batch \in [Managers -> [Jobs -> RowStatus \cup {NoSeen}]]
      /\ DOMAIN step = Managers /\ DOMAIN cur = Managers
      /\ "queued" \in Managers /\ "killing" \in Managers
      /\ NoJob \notin Jobs
  BY NoJobAssumption DEF TypeOK, JobTableTypeOK, Managers
<1>1. ASSUME NEW m \in Managers, Snapshot(m) PROVE StaysQuiet(j)
  <2>1. /\ UNCHANGED <<status, pods, tasks, cur, gen>> /\ step[m] = "loop"
        /\ UNCHANGED step \/ step' = [step EXCEPT ![m] = "plan"]
    BY <1>1 DEF Snapshot
  <2>2. TasksOn(j)' = TasksOn(j)
    BY <2>1 DEF TasksOn
  <2>3. \A n \in Managers :
          /\ n \in ActingOn(j)' <=> n \in ActingOn(j)
          /\ n \in ActingOn(j)' => step'[n] = step[n]
    BY <1>t, <2>1 DEF ActingOn
  <2>4. ActingOn(j)' = ActingOn(j)
    BY <2>3 DEF ActingOn
  <2>5. RowsKept(j)
    <3> DEFINE rows == {k \in Jobs \ deleted : status[k] \in Watched(m)}
               read == [k \in Jobs |-> IF k \in rows THEN status[k] ELSE NoSeen]
    <3>1. batch' = [batch EXCEPT ![m] = read]
      BY <1>1 DEF Snapshot
    <3>2. read[j] \in {NoSeen, status[j]}
      OBVIOUS
    <3> QED
      BY <1>t, <3>1, <3>2 DEF RowsKept
  <2> QED
    BY <2>1, <2>2, <2>3, <2>4, <2>5, <1>x, WorkEnds DEF ActingOn
<1>2. ASSUME NEW m \in Managers, BatchFails(m) PROVE StaysQuiet(j)
  <2>1. /\ UNCHANGED <<status, pods, tasks, gen>> /\ step[m] # "cleanup" /\ NextJob(m)
        /\ batch' = [batch EXCEPT ![m] = NoBatch]
    BY <1>2 DEF BatchFails, Processing
  <2>2. TasksOn(j)' = TasksOn(j)
    BY <2>1 DEF TasksOn
  <2>3. \A n \in Managers :
          /\ n # m => step'[n] = step[n] /\ cur'[n] = cur[n]
          /\ n = m => step'[n] = "loop"
    BY <1>t, <2>1 DEF NextJob
  <2>4. \A n \in ActingOn(j)' :
          n \in ActingOn(j) /\ step'[n] = step[n] /\ cur'[n] = cur[n]
    BY <2>3 DEF ActingOn
  <2>5. RowsKept(j)
    BY <1>t, <2>1 DEF RowsKept, NoBatch
  <2>6. m \in ActingOn(j) => status[j] \notin Terminal
    BY <2>1 DEF Quiet, QuietAnswers, ActingOn, Pollers, Terminal
  <2>7. m \notin ActingOn(j) => ActingOn(j) \subseteq ActingOn(j)'
    BY <2>3 DEF ActingOn
  <2> QED
    BY <2>1, <2>2, <2>4, <2>5, <2>6, <2>7, <1>x, WorkEnds
<1>3. ASSUME UNCHANGED <<pods, step, cur, tasks, gen>>, status'[j] = status[j], RowsKept(j)
      PROVE  StaysQuiet(j)
  <2>1. TasksOn(j)' = TasksOn(j) /\ ActingOn(j)' = ActingOn(j)
    BY <1>3 DEF TasksOn, ActingOn
  <2> QED
    BY <1>3, <2>1, <1>x, WorkEnds
<1>4. CASE TakeMissingVC
  <2>1. ~NoVC(j)
    BY <1>4 DEF TakeMissingVC, Disturb
  <2>2. status'[j] = status[j] /\ RowsKept(j)
    BY <1>4, <1>t, <2>1 DEF TakeMissingVC, RowsKept
  <2>3. UNCHANGED <<pods, tasks, cur, gen>> /\ step["queued"] = "plan"
        /\ step' = [step EXCEPT !["queued"] = "loop"]
    BY <1>4 DEF TakeMissingVC
  <2>4. TasksOn(j)' = TasksOn(j)
    BY <2>3 DEF TasksOn
  <2>5. \A n \in Managers :
          /\ n \in ActingOn(j)' <=> n \in ActingOn(j)
          /\ n \in ActingOn(j)' => step'[n] = step[n]
    BY <1>t, <2>3 DEF ActingOn
  <2>6. ActingOn(j)' = ActingOn(j)
    BY <2>5 DEF ActingOn
  <2> QED
    BY <2>2, <2>3, <2>4, <2>5, <2>6, <1>x, WorkEnds DEF ActingOn
<1>5. ASSUME NEW i \in Jobs, i # j,
             TakeSubmit(i) \/ TakePreempt(i) \/ TakeNothing(i) \/ KillOrPause(i) \/ ApproveJob(i)
      PROVE  StaysQuiet(j)
  <2>1. /\ UNCHANGED <<pods, step, cur, gen>>
        /\ \/ UNCHANGED tasks
           \/ \E m, kind, target : tasks' = tasks \cup {NewTask(m, i, kind, target)}
        /\ Forget("queued", i) \/ Forget("killing", i)
    BY <1>5 DEF TakeSubmit, TakePreempt, TakeNothing, KillOrPause, ApproveJob, submit_job, kill_job
  <2>2. TasksOn(j)' = TasksOn(j) /\ ActingOn(j)' = ActingOn(j)
    BY <1>5, <2>1 DEF TasksOn, ActingOn, NewTask
  <2>3. status'[j] = status[j]
    <3>1. ASSUME NEW x, WriteStatus({i}, x) PROVE status'[j] = status[j]
      BY <1>t, <1>5, <3>1 DEF WriteStatus, Put
    <3> QED
      BY <1>5, <3>1 DEF TakeSubmit, TakePreempt, TakeNothing, KillOrPause, ApproveJob
  <2>4. RowsKept(j)
    BY <1>t, <2>1 DEF RowsKept, Forget
  <2> QED
    BY <2>1, <2>2, <2>3, <2>4, <1>x, WorkEnds
<1>6. CASE TakePreempt(j)
  BY <1>6 DEF TakePreempt, Disturb
<1>7. CASE TakeNothing(j)
  <2>1. UNCHANGED <<status, pods, step, cur, tasks, gen>> /\ Forget("queued", j)
    BY <1>7 DEF TakeNothing
  <2>2. RowsKept(j)
    BY <1>t, <2>1 DEF RowsKept, Forget
  <2> QED
    BY <1>3, <2>1, <2>2
<1>8. CASE KillOrPause(j)
  <2>1. batch["killing"][j] \in {"killing", "pausing"}
    BY <1>8 DEF KillOrPause
  <2>2. status[j] \in {"killing", "pausing"}
    BY <1>t, <2>1 DEF Quiet, QuietRows
  <2> QED
    BY <2>2 DEF Quiet, QuietStatus
<1> QED
  BY <1>1, <1>2, <1>4, <1>5, <1>6, <1>7, <1>8, SubmitKeepsQuiet, ApproveKeepsQuiet, PollerKeepsQuiet
     DEF ManagerStep

-----------------------------------------------------------------------------
\* Every step of the system does.
LEMMA NextKeepsQuiet ==
  ASSUME TypeOK, OneTaskInv, BatchWatched, NEW j \in Jobs, j \notin disturbed', Quiet(j),
         [Next]_vars
  PROVE  StaysQuiet(j)
<1>1. CASE UNCHANGED vars
  <2>1. UNCHANGED <<status, pods, tasks, batch, step, cur, gen>>
    BY <1>1 DEF vars
  <2>2. TasksOn(j)' = TasksOn(j) /\ ActingOn(j)' = ActingOn(j)
    BY <2>1 DEF TasksOn, ActingOn
  <2> QED
    BY <2>1, <2>2, WorkEnds DEF RowsKept
<1> QED
  BY <1>1, RestKeepsQuiet, ManagerKeepsQuiet, LauncherKeepsQuiet, PodKeepsQuiet, RestartKeepsQuiet
     DEF Next

\* The inductive invariant: the status is the lock of an undisturbed job.
LEMMA QuietInvHolds == Spec => []QuietInv
<1>1. Init => QuietInv
  BY DEF Init, QuietInv, Quiet, QuietStatus, QuietTasks, QuietRows, QuietAnswers, OneOperation,
         EndFreesGpu, TasksOn, ActingOn, NoBatch, Terminal
<1>2. TypeOK /\ OneTaskInv /\ BatchWatched /\ QuietInv /\ [Next]_vars => QuietInv'
  BY DisturbedGrows, NextKeepsQuiet DEF QuietInv, StaysQuiet
<1> QED
  BY <1>1, <1>2, TypeCorrect, OneTaskInvHolds, BatchWatchedHolds, PTL DEF Spec

\* A job nobody interferes with has at most one operation under way: the four
\* processes and their workers, which never look at the status when they write
\* it, do not race over such a job.
THEOREM QuietOneOperationHolds == Spec => []QuietOneOperation
<1>1. QuietInv => QuietOneOperation
  <2> SUFFICES ASSUME QuietInv, NEW j \in Jobs \ disturbed
               PROVE  Cardinality(TasksOn(j)) + Cardinality(ActingOn(j)) <= 1
    BY DEF QuietOneOperation
  <2>1. OneOperation(j)
    BY DEF QuietInv, Quiet
  <2>2. ASSUME NEW S, \A x, y \in S : x = y
        PROVE  Cardinality(S) \in {0, 1} /\ (S = {} => Cardinality(S) = 0)
    <3>1. CASE S = {}
      BY <3>1, FS_EmptySet
    <3>2. CASE S # {}
      <4>1. PICK x \in S : S = {x}
        BY <2>2, <3>2
      <4> QED
        BY <3>2, <4>1, FS_Singleton
    <3> QED
      BY <3>1, <3>2
  <2>3. Cardinality(TasksOn(j)) \in {0, 1} /\ (TasksOn(j) = {} => Cardinality(TasksOn(j)) = 0)
    BY <2>1, <2>2 DEF OneOperation
  <2>4. Cardinality(ActingOn(j)) \in {0, 1} /\ (ActingOn(j) = {} => Cardinality(ActingOn(j)) = 0)
    BY <2>1, <2>2 DEF OneOperation
  <2> QED
    BY <2>1, <2>3, <2>4 DEF OneOperation
<1> QED
  BY <1>1, QuietInvHolds, PTL

\* A job nobody interferes with holds no devices once it has ended and the delete_job
\* that follows its last write is over, although pods of a distributed job still hold
\* some when it is written -- unless the job was given up after its last refused
\* admission, which no delete_job follows.
THEOREM QuietEndFreesGpuHolds == Spec => []QuietEndFreesGpu
<1>1. QuietInv => QuietEndFreesGpu
  BY DEF QuietInv, Quiet, EndFreesGpu, QuietEndFreesGpu
<1> QED
  BY <1>1, QuietInvHolds, PTL

\* What a step may do to an undisturbed job.
LEMMA QuietMoves ==
  ASSUME TypeOK, OneTaskInv, BatchWatched, QuietInv, [Next]_vars, NEW j \in Jobs,
         j \notin disturbed'
  PROVE  j \notin disturbed /\ QuietMove(j)
  BY DisturbedGrows, NextKeepsQuiet DEF QuietInv, StaysQuiet

\* The end of a job nobody interferes with is final: no process brings it back.
THEOREM QuietEndIsFinalHolds == Spec => QuietEndIsFinal
<1>1. ASSUME TypeOK, OneTaskInv, BatchWatched, QuietInv, [Next]_vars, NEW j \in Jobs,
             j \notin disturbed', status[j] \in Terminal
      PROVE  status'[j] = status[j]
  <2>1. QuietMove(j)
    BY <1>1, QuietMoves
  <2>2. Life!Follows(status[j]) = {}
    BY <1>1 DEF Terminal, Life!Follows
  <2> QED
    BY <2>1, <2>2 DEF QuietMove, Keeps, Given, Advances
<1>2. TypeOK /\ OneTaskInv /\ BatchWatched /\ QuietInv /\ [Next]_vars
        => [\A j \in Jobs : j \notin disturbed' /\ status[j] \in Terminal
              => status'[j] = status[j]]_vars
  BY <1>1
<1> QED
  BY <1>2, TypeCorrect, OneTaskInvHolds, BatchWatchedHolds, QuietInvHolds, PTL
     DEF Spec, QuietEndIsFinal

\* The job path implements JobLife: every step of its processes is, to a job nobody
\* interferes with, a step of one life in order, or none.  Devices are given only to
\* a queued job that holds none, and are given back before it is killed -- and, if
\* it has one pod, before it is queued again, finishes or fails.
THEOREM LivesAsPromisedHolds == Spec => LivesAsPromised
<1>1. Init => Life!Init
  BY DEF Init, Life!Init, HoldsGpu, Mixture
<1>2. ASSUME TypeOK, OneTaskInv, BatchWatched, QuietInv, [Next]_vars
      PROVE  Life!Next
  <2> SUFFICES ASSUME NEW j \in Jobs
               PROVE  Life!Moves(j) \/ Life!Takes(j) \/ Life!Frees(j) \/ Life!Leaves(j)
                        \/ Life!Stays(j)
    BY DEF Life!Next
  <2>1. CASE j \in disturbed'
    BY <2>1 DEF Life!Leaves
  <2>2. CASE j \notin disturbed'
    <3>1. j \notin disturbed /\ QuietMove(j)
      BY <1>2, <2>2, QuietMoves
    <3>2. CASE Keeps(j)
      BY <2>2, <3>1, <3>2 DEF Keeps, Life!Stays, Life!Frees
    <3>3. CASE Given(j)
      BY <2>2, <3>1, <3>3 DEF Given, Life!Takes, Life!Stays, Life!Frees
    <3>4. CASE Advances(j)
      BY <2>2, <3>1, <3>4 DEF Advances, Life!Moves
    <3> QED
      BY <3>1, <3>2, <3>3, <3>4 DEF QuietMove
  <2> QED
    BY <2>1, <2>2
<1>3. TypeOK /\ OneTaskInv /\ BatchWatched /\ QuietInv /\ [Next]_vars => [Life!Next]_(Life!vars)
  BY <1>2
<1> QED
  BY <1>1, <1>3, TypeCorrect, OneTaskInvHolds, BatchWatchedHolds, QuietInvHolds, PTL
     DEF Spec, LivesAsPromised, Life!Spec
=============================================================================
