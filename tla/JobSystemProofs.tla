--------------------------- MODULE JobSystemProofs --------------------------
(***************************************************************************)
(* Theorems about JobSystem, for every value of its constants.             *)
(***************************************************************************)
EXTENDS JobSystem, TLAPS

USE DEF NoSeen

\* A row written with a status of the enumeration leaves the table well typed.
LEMMA PutType ==
  ASSUME TypeOK, NEW S \in SUBSET Jobs, NEW s \in Status
  PROVE  Put(S, s) \in [Jobs -> Status]
  BY DEF TypeOK, JobTableTypeOK, Put

\* So does a write that the database may lose.
LEMMA WriteType ==
  ASSUME TypeOK, NEW S \in SUBSET Jobs, NEW s \in Status, WriteStatus(S, s)
  PROVE  status' \in [Jobs -> Status]
<1>1. Put(S, s) \in [Jobs -> Status]
  BY PutType
<1>2. status \in [Jobs -> Status]
  BY DEF TypeOK, JobTableTypeOK
<1> QED
  BY <1>1, <1>2 DEF WriteStatus

\* Deleting pods, completely or not, leaves every job with pods in a known phase,
\* and makes no mixture.
LEMMA PodsType ==
  ASSUME TypeOK, NEW j \in Jobs, DeleteIncomplete(j) \/ DeletePods(j)
  PROVE  /\ pods' \in [Jobs -> Phase]
         /\ \A i \in Jobs : pods'[i] \in Mixture => i \in Distributed
  BY DEF TypeOK, JobTableTypeOK, DeleteIncomplete, DeletePods, SetPhase,
         PhaseDeleted, Phase, Mixture

\* A failure counted, or not, leaves the counter within RestartLimit.
LEMMA CountType ==
  ASSUME TypeOK, NEW j \in Jobs, RetriesCounted(j) \/ RetriesUnknown(j)
  PROVE  retries' \in [Jobs -> 0..RestartLimit]
  BY LimitAssumption
     DEF TypeOK, JobTableTypeOK, RetriesCounted, RetriesUnknown, Retried

\* Every step of a launcher worker, in hand or lost with its process, keeps the types.
LEMMA LauncherType ==
  ASSUME TypeOK, NEW t \in tasks, LauncherStep(t)
  PROVE  TypeOK'
<1> USE DEF TypeOK, JobTableTypeOK, At, Goto, Done, dbVars, mgrVars, restVars
<1>t. t \in Task /\ t.job \in Jobs /\ t.target \in Status
  BY DEF Task, Status, RowStatus, Terminal
<1>g. /\ Done(t) => tasks' \in SUBSET Task
      /\ \A s \in {"create", "write", "fail", "cleanup", "dead"} :
           Goto(t, s) => tasks' \in SUBSET Task
  BY <1>t DEF Task
<1>p. SetPhase(t.job, "Pending") =>
        /\ pods' \in [Jobs -> Phase]
        /\ \A i \in Jobs : pods'[i] \in Mixture => i \in Distributed
  BY <1>t DEF SetPhase, Phase, Mixture
<1>1. CASE KillDelete(t)
  BY <1>1, <1>t, <1>g, PodsType DEF KillDelete
<1>2. CASE KillDeleteFails(t)
  BY <1>2, <1>t, <1>g, PodsType DEF KillDeleteFails
<1>3. CASE KillWrite(t)
  BY <1>3, <1>t, <1>g, WriteType DEF KillWrite
<1>4. CASE SubmitCheck(t)
  BY <1>4, <1>t, <1>g, PodsType DEF SubmitCheck
<1>5. CASE SubmitInvalid(t)
  BY <1>5, <1>t, <1>g, WriteType DEF SubmitInvalid, Status, RowStatus, Terminal
<1>6. CASE SubmitCreate(t)
  BY <1>6, <1>t, <1>g, <1>p, PodsType DEF SubmitCreate
<1>7. CASE SubmitCreateFails(t)
  BY <1>7, <1>t, <1>g, <1>p DEF SubmitCreateFails
<1>8. CASE SubmitWrite(t)
  BY <1>8, <1>t, <1>g, WriteType DEF SubmitWrite, Status, RowStatus
<1>9. CASE SubmitFail(t)
  <2>1. status' \in [Jobs -> Status]
    BY <1>9, <1>t, WriteType DEF SubmitFail, Status, RowStatus, Terminal
  <2>2. retries' \in [Jobs -> 0..RestartLimit]
    BY <1>9, <1>t, CountType DEF SubmitFail
  <2> QED
    BY <1>9, <1>g, <2>1, <2>2 DEF SubmitFail
<1>10. CASE SubmitCleanup(t)
  BY <1>10, <1>t, <1>g, PodsType DEF SubmitCleanup, Disturb
<1>11. CASE WorkerDies(t)
  BY <1>11, <1>t, <1>g DEF WorkerDies, Disturb
<1> QED
  BY <1>1, <1>2, <1>3, <1>4, <1>5, <1>6, <1>7, <1>8, <1>9, <1>10, <1>11
     DEF LauncherStep, LauncherWork

\* Every request the REST API accepts keeps the types.
LEMMA RestType ==
  ASSUME TypeOK, RestStep
  PROVE  TypeOK'
<1> USE FamilyAssumption
    DEF TypeOK, JobTableTypeOK, dbVars, mgrVars, restVars, Disturb
<1>s. /\ {"unapproved", "killing", "pausing", "queued", "purged"} \subseteq Status
      /\ \A S \in SUBSET Jobs : Purged(S) \in [Jobs -> Status]
      /\ \A v : InVC(v) \in SUBSET Jobs
  BY DEF Status, RowStatus, Terminal, NoRow, Purged, InVC
<1>1. ASSUME NEW j \in Jobs, SubmitJob(j) PROVE TypeOK'
  BY <1>1, <1>s DEF SubmitJob
<1>2. ASSUME NEW r \in Request, RestCheck(r) PROVE TypeOK'
  BY <1>2 DEF RestCheck
<1>3. ASSUME NEW r \in rest, RestWrite(r) PROVE TypeOK'
  <2>1. /\ r.job \in Jobs
        /\ r.op \in {"kill", "pause", "resume", "approve", "delete"}
        /\ Target(r) \in SUBSET Jobs
    BY DEF Request, Target
  <2>2. r.op # "delete" => Put(Target(r), NewStatus(r.op)) \in [Jobs -> Status]
    BY <2>1, <1>s, PutType DEF NewStatus
  <2> QED
    BY <1>3, <2>1, <2>2 DEF RestWrite
<1>4. ASSUME NEW v \in VCs, AskDeleteVC(v) \/ DeleteVCBegin(v) \/ AddVCCheck(v)
      PROVE TypeOK'
  BY <1>4, <1>s DEF AskDeleteVC, DeleteVCBegin, AddVCCheck
<1>9. CASE CloseDialog
  BY <1>9, <1>s DEF CloseDialog, NoAdmin
<1>5. CASE DeleteVCMark
  <2>1. vcAdmin.listed \in SUBSET Jobs
    OBVIOUS
  <2>2. Put(vcAdmin.listed, "killing") \in [Jobs -> Status]
    BY <2>1, <1>s, PutType
  <2> QED
    BY <1>5, <2>1, <2>2 DEF DeleteVCMark
<1>6. CASE DeleteVCPurge
  BY <1>6, <1>s DEF DeleteVCPurge, Purged, InVC
<1>7. CASE DeleteVCDrop
  BY <1>7, <1>s DEF DeleteVCDrop, NoAdmin
<1>8. CASE AddVCReplace
  <2>1. vcAdmin.vc \in VCs
    BY <1>8 DEF AddVCReplace
  <2> QED
    BY <1>8, <1>s, <2>1 DEF AddVCReplace, NoAdmin
<1> QED
  BY <1>1, <1>2, <1>3, <1>4, <1>5, <1>6, <1>7, <1>8, <1>9 DEF RestStep

\* A task that a manager hands to the launcher is one of Task.
LEMMA NewTaskType ==
  ASSUME TypeOK, NEW m \in Managers, NEW j \in Jobs,
         NEW kind \in {"submit", "kill"},
         NEW target \in {"scheduling", "killed", "paused", "queued"}
  PROVE  NewTask(m, j, kind, target) \in Task
  BY DEF TypeOK, JobTableTypeOK, NewTask, Task

\* Every step of a manager keeps the types: the job it acts on comes from its snapshot.
LEMMA ManagerType ==
  ASSUME TypeOK, ManagerStep
  PROVE  TypeOK'
<1> USE DEF TypeOK, JobTableTypeOK, dbVars, mgrVars, restVars, Disturb, Processing
<1>s. /\ RowStatus \subseteq Status
      /\ \A s \in {"queued", "Killed", "running", "finished", "failed", "error",
                   "killing", "killed"} : s \in RowStatus
  BY DEF Status, RowStatus, Terminal
<1>m. /\ Pollers \subseteq Managers
      /\ "queued" \in Managers /\ "killing" \in Managers
  BY DEF Pollers, Managers
<1>n. NoBatch \in [Jobs -> RowStatus \cup {NoSeen}]
  BY DEF NoBatch
<1>c. NoCur \in [job : Jobs \cup {NoJob}, seen : RowStatus \cup {NoSeen}, obs : Observation]
  BY DEF NoCur, Observation
<1>f. \A m \in Managers, j \in Jobs :
        Forget(m, j) => batch' \in [Managers -> [Jobs -> RowStatus \cup {NoSeen}]]
  BY DEF Forget
<1>1. ASSUME NEW m \in Managers, Snapshot(m) PROVE TypeOK'
  <2> DEFINE rows == {j \in Jobs \ deleted : status[j] \in Watched(m)}
             read == [j \in Jobs |-> IF j \in rows THEN status[j] ELSE NoSeen]
  <2>1. Watched(m) \subseteq RowStatus
    BY DEF Watched, Managers, RowStatus, Terminal
  <2>2. read \in [Jobs -> RowStatus \cup {NoSeen}]
    BY <2>1
  <2>3. batch' = [batch EXCEPT ![m] = read]
    BY <1>1 DEF Snapshot
  <2>4. batch' \in [Managers -> [Jobs -> RowStatus \cup {NoSeen}]]
    BY <2>2, <2>3
  <2>5. seenVcs' \in SUBSET VCs /\ step' \in [Managers -> {"loop", "plan", "apply", "cleanup"}]
    BY <1>1 DEF Snapshot, ListedVCs
  <2> QED
    BY <1>1, <2>4, <2>5 DEF Snapshot
<1>2. ASSUME NEW m \in Managers, BatchFails(m) PROVE TypeOK'
  BY <1>2, <1>n, <1>c DEF BatchFails, NextJob
<1>3. CASE TakeMissingVC
  <2>1. status' \in [Jobs -> Status]
    BY <1>3, <1>s DEF TakeMissingVC
  <2>2. batch' \in [Managers -> [Jobs -> RowStatus \cup {NoSeen}]]
    BY <1>3, <1>m DEF TakeMissingVC
  <2>3. disturbed' \in SUBSET Jobs
    BY <1>3 DEF TakeMissingVC
  <2> QED
    BY <1>3, <1>m, <2>1, <2>2, <2>3 DEF TakeMissingVC
<1>4. ASSUME NEW j \in Jobs,
             TakeSubmit(j) \/ TakePreempt(j) \/ TakeNothing(j) \/ KillOrPause(j)
      PROVE  TypeOK'
  <2>1. tasks' \in SUBSET Task
    BY <1>4, <1>m, NewTaskType
       DEF TakeSubmit, TakePreempt, TakeNothing, KillOrPause, submit_job, kill_job, DesiredState
  <2>2. batch' \in [Managers -> [Jobs -> RowStatus \cup {NoSeen}]]
    BY <1>4, <1>m, <1>f DEF TakeSubmit, TakePreempt, TakeNothing, KillOrPause
  <2>3. disturbed' \in SUBSET Jobs
    BY <1>4 DEF TakeSubmit, TakePreempt, TakeNothing, KillOrPause
  <2> QED
    BY <1>4, <2>1, <2>2, <2>3 DEF TakeSubmit, TakePreempt, TakeNothing, KillOrPause
<1>5. ASSUME NEW j \in Jobs, ApproveJob(j) PROVE TypeOK'
  <2>1. status' \in [Jobs -> Status]
    <3>1. PICK s \in {"queued", "Killed"} : WriteStatus({j}, s)
      BY <1>5 DEF ApproveJob
    <3> QED
      BY <3>1, <1>s, WriteType
  <2> QED
    BY <1>5, <1>m, <1>f, <2>1 DEF ApproveJob
<1>6. ASSUME NEW m \in Pollers, PollerStep(m) PROVE TypeOK'
  <2> DEFINE j == cur[m].job
  <2>m. m \in Managers
    BY <1>m
  <2>j. ASSUME step[m] \in {"apply", "cleanup"} PROVE j \in Jobs
    BY <2>m, <2>j
  <2>n. NextJob(m) => /\ step' \in [Managers -> {"loop", "plan", "apply", "cleanup"}]
                      /\ cur' \in [Managers -> [job : Jobs \cup {NoJob},
                                                seen : RowStatus \cup {NoSeen},
                                                obs : Observation]]
                      /\ \A n \in Managers :
                           step'[n] \in {"apply", "cleanup"} => cur'[n].job \in Jobs
    BY <2>m, <1>c DEF NextJob
  <2>u. NotUnusual(m) => unusual' \in [Managers -> SUBSET Jobs]
    BY <2>m DEF NotUnusual
  <2>1. CASE ApplyEnded(m)
    <3>1. PICK s \in {"finished", "failed", "error"} : WriteStatus({j}, s)
      BY <2>1 DEF ApplyEnded
    <3>2. status' \in [Jobs -> Status]
      BY <3>1, <1>s, <2>1, <2>j, WriteType DEF ApplyEnded, Applying
    <3>3. \A n \in Managers : step'[n] \in {"apply", "cleanup"} => cur'[n].job \in Jobs
      BY <2>1, <2>j DEF ApplyEnded, ThenCleanup, Applying
    <3> QED
      BY <2>1, <3>2, <3>3 DEF ApplyEnded, ThenCleanup
  <2>2. CASE Cleanup(m)
    <3>1. j \in Jobs
      BY <2>2, <2>j DEF Cleanup
    <3>2. /\ pods' \in [Jobs -> Phase]
          /\ \A i \in Jobs : pods'[i] \in Mixture => i \in Distributed
      BY <2>2, <3>1, PodsType DEF Cleanup
    <3>3. batch' \in [Managers -> [Jobs -> RowStatus \cup {NoSeen}]]
      BY <2>2, <1>n DEF Cleanup
    <3>4. unusual' \in [Managers -> SUBSET Jobs]
      BY <2>2, <2>u DEF Cleanup
    <3>5. disturbed' \in SUBSET Jobs
      BY <2>2, <3>1 DEF Cleanup
    <3> QED
      BY <2>2, <2>n, <3>2, <3>3, <3>4, <3>5 DEF Cleanup
  <2>3. CASE ApplyRunning(m)
    <3>1. j \in Jobs
      BY <2>3, <2>j DEF ApplyRunning, Applying
    <3>2. status' \in [Jobs -> Status]
      BY <2>3, <3>1, <1>s, WriteType DEF ApplyRunning
    <3>3. tasks' \in SUBSET Task /\ disturbed' \in SUBSET Jobs
      BY <2>3, <2>m, <3>1, NewTaskType DEF ApplyRunning, kill_job
    <3> QED
      BY <2>3, <2>n, <2>u, <3>2, <3>3 DEF ApplyRunning
  <2>4. CASE ApplyRestart(m)
    <3>1. j \in Jobs
      BY <2>4, <2>j DEF ApplyRestart, Applying
    <3>2. status' \in [Jobs -> Status]
      BY <2>4, <3>1, <1>s, WriteType DEF ApplyRestart
    <3>3. retries' \in [Jobs -> 0..RestartLimit]
      BY <2>4, <3>1, CountType DEF ApplyRestart
    <3> QED
      BY <2>4, <2>n, <2>u, <3>2, <3>3 DEF ApplyRestart
  <2>5. CASE ApplyUnusual(m)
    <3>1. j \in Jobs
      BY <2>5, <2>j DEF ApplyUnusual, Applying
    <3>2. tasks' \in SUBSET Task
      BY <2>5, <2>m, <3>1, NewTaskType DEF ApplyUnusual, kill_job
    <3>3. unusual' \in [Managers -> SUBSET Jobs]
      BY <2>5, <2>m, <2>u, <3>1 DEF ApplyUnusual
    <3> QED
      BY <2>5, <2>n, <3>2, <3>3 DEF ApplyUnusual
  <2>6. CASE ApplyPending(m)
    BY <2>6, <2>n, <2>u DEF ApplyPending
  <2>7. ASSUME NEW i \in Jobs, CheckJobStatus(m, i) PROVE TypeOK'
    <3>1. \A p \in Phase : Observed(i, p) \subseteq Observation
      BY DEF Phase, Mixture, Observed, ObservedMixture, ObservedBeside, Observation
    <3>2. PICK o \in Observation :
            cur' = [cur EXCEPT ![m] = [job |-> i, seen |-> batch[m][i], obs |-> o]]
      BY <2>7, <3>1 DEF CheckJobStatus
    <3>3. /\ cur' \in [Managers -> [job : Jobs \cup {NoJob},
                                    seen : RowStatus \cup {NoSeen}, obs : Observation]]
          /\ cur'[m].job \in Jobs
          /\ \A n \in Managers \ {m} : cur'[n] = cur[n]
      BY <2>m, <3>2
    <3>4. step' = [step EXCEPT ![m] = "apply"]
      BY <2>7 DEF CheckJobStatus
    <3>5. batch' \in [Managers -> [Jobs -> RowStatus \cup {NoSeen}]]
      BY <2>7, <2>m, <1>f DEF CheckJobStatus
    <3> QED
      BY <2>7, <2>m, <3>3, <3>4, <3>5 DEF CheckJobStatus
  <2> QED
    BY <1>6, <2>1, <2>2, <2>3, <2>4, <2>5, <2>6, <2>7 DEF PollerStep
<1> QED
  BY <1>1, <1>2, <1>3, <1>4, <1>5, <1>6 DEF ManagerStep

\* The inductive step of TypeCorrect.
LEMMA NextType ==
  ASSUME TypeOK, [Next]_vars
  PROVE  TypeOK'
<1>1. ASSUME NEW j \in Jobs, PodStep(j) PROVE TypeOK'
  <2>1. \A p \in Phase : PodNext(p) \subseteq Phase \ Mixture /\ MixtureNext(p) \subseteq Phase
    BY DEF Phase, Mixture, PodNext, MixtureNext
  <2>2. PICK p \in Phase : SetPhase(j, p) /\ (p \in Mixture => j \in Distributed)
    BY <1>1, <2>1 DEF PodStep, TypeOK, JobTableTypeOK
  <2> QED
    BY <1>1, <2>2 DEF PodStep, SetPhase, TypeOK, JobTableTypeOK, dbVars, mgrVars, restVars
<1>2. ASSUME NEW m \in Managers, Restart(m) PROVE TypeOK'
  <2> USE DEF TypeOK, JobTableTypeOK, dbVars, restVars
  <2>1. tasks' \in SUBSET Task /\ disturbed' \in SUBSET Jobs
    BY <1>2 DEF Restart, Disturb, Outstanding, Task
  <2>2. crashes' \in Nat
    BY <1>2 DEF Restart
  <2>3. /\ NoBatch \in [Jobs -> RowStatus \cup {NoSeen}]
        /\ NoCur \in [job : Jobs \cup {NoJob}, seen : RowStatus \cup {NoSeen}, obs : Observation]
    BY DEF NoBatch, NoCur, Observation
  <2> QED
    BY <1>2, <2>1, <2>2, <2>3 DEF Restart
<1>3. CASE UNCHANGED vars
  BY <1>3 DEF vars, TypeOK, JobTableTypeOK
<1> QED
  BY <1>1, <1>2, <1>3, RestType, ManagerType, LauncherType DEF Next

\* Type correctness: every process reads, from the table and from the other
\* processes, only values it has a branch for, and the job a poller acts on is
\* always one it has read from the table.
THEOREM TypeCorrect == Spec => []TypeOK
<1>1. Init => TypeOK
  BY LimitAssumption
     DEF Init, TypeOK, JobTableTypeOK, Status, NoRow, Phase, Mixture, NoBatch, NoCur, NoAdmin,
         Observation
<1>2. TypeOK /\ [Next]_vars => TypeOK'
  BY NextType
<1> QED
  BY <1>1, <1>2, PTL DEF Spec

-----------------------------------------------------------------------------
(***************************************************************************)
(* One task per job.  A step changes the tasks in one of three ways: it    *)
(* moves or ends one, it leaves them alone, or it adds one for a job that  *)
(* its manager had in hand and now has not.                                *)
(***************************************************************************)
\* When a task goes on to its next step, or ends, no second one appears beside another.
LEMMA TaskMoves ==
  ASSUME TypeOK, OneTaskInv, NEW t \in tasks, NEW s,
         Done(t) \/ Goto(t, s), UNCHANGED mgrVars
  PROVE  OneTaskInv'
<1> USE DEF mgrVars
<1>1. /\ t \in Task
      /\ \A u \in tasks' : u \in tasks \ {t} \/ u = [t EXCEPT !.step = s]
  BY DEF TypeOK, JobTableTypeOK, Done, Goto
<1>2. \A u \in tasks' : \E v \in tasks : v.mgr = u.mgr /\ v.gen = u.gen /\ v.job = u.job
  BY <1>1 DEF Task
<1>3. TasksOfTheirTime'
  BY <1>2 DEF OneTaskInv, TasksOfTheirTime
<1>4. NoTaskInHand' /\ InHandOnce'
  BY <1>2 DEF OneTaskInv, NoTaskInHand, InHand, InHandOnce
<1>5. OneTaskPerJob'
  BY <1>1 DEF OneTaskInv, OneTaskPerJob, Task
<1> QED
  BY <1>3, <1>4, <1>5 DEF OneTaskInv

\* Neither does one when tasks end and managers put jobs down.
LEMMA TasksShrink ==
  ASSUME OneTaskInv, tasks' \subseteq tasks, UNCHANGED gen,
         \A m \in Managers, j \in Jobs : InHand(m, j)' => InHand(m, j),
         InHandOnce'
  PROVE  OneTaskInv'
  BY DEF OneTaskInv, TasksOfTheirTime, NoTaskInHand, OneTaskPerJob

\* Nor when a manager hands the launcher a job it had in hand and now has not.
LEMMA TaskAdded ==
  ASSUME TypeOK, OneTaskInv, NEW m \in Managers, NEW j \in Jobs, InHand(m, j),
         NEW kind, NEW target, tasks' = tasks \cup {NewTask(m, j, kind, target)},
         UNCHANGED gen,
         \A n \in Managers, i \in Jobs : InHand(n, i)' => InHand(n, i),
         ~InHand(m, j)', InHandOnce'
  PROVE  OneTaskInv'
<1> DEFINE new == NewTask(m, j, kind, target)
<1>1. new.mgr = m /\ new.gen = gen[m] /\ new.job = j
  BY DEF NewTask
<1>2. gen[m] \in Nat
  BY DEF TypeOK, JobTableTypeOK
<1>3. \A u \in tasks : ~(u.mgr = m /\ u.gen = gen[m] /\ u.job = j)
  BY DEF OneTaskInv, NoTaskInHand
<1> HIDE DEF new
<1>4. tasks' = tasks \cup {new}
  BY DEF new
<1>5. TasksOfTheirTime'
  BY <1>1, <1>2, <1>4 DEF OneTaskInv, TasksOfTheirTime
<1>6. NoTaskInHand'
  BY <1>1, <1>4 DEF OneTaskInv, NoTaskInHand
<1>7. OneTaskPerJob'
  BY <1>1, <1>3, <1>4 DEF OneTaskInv, OneTaskPerJob
<1> QED
  BY <1>5, <1>6, <1>7 DEF OneTaskInv

Moves(t) ==
  /\ UNCHANGED mgrVars
  /\ Done(t) \/ \E s \in {"create", "write", "fail", "cleanup", "dead"} : Goto(t, s)

\* Whatever a launcher worker does, one task moves on or ends.
LEMMA LauncherMoves ==
  ASSUME NEW t \in tasks, LauncherStep(t)
  PROVE  Moves(t)
<1> USE DEF Moves
<1>1. ASSUME KillDelete(t) PROVE Moves(t)
  BY <1>1 DEF KillDelete
<1>2. ASSUME KillDeleteFails(t) PROVE Moves(t)
  BY <1>2 DEF KillDeleteFails
<1>3. ASSUME KillWrite(t) PROVE Moves(t)
  BY <1>3 DEF KillWrite
<1>4. ASSUME SubmitCheck(t) PROVE Moves(t)
  BY <1>4 DEF SubmitCheck
<1>5. ASSUME SubmitInvalid(t) PROVE Moves(t)
  BY <1>5 DEF SubmitInvalid
<1>6. ASSUME SubmitCreate(t) PROVE Moves(t)
  BY <1>6 DEF SubmitCreate
<1>7. ASSUME SubmitCreateFails(t) PROVE Moves(t)
  BY <1>7 DEF SubmitCreateFails
<1>8. ASSUME SubmitWrite(t) PROVE Moves(t)
  BY <1>8 DEF SubmitWrite
<1>9. ASSUME SubmitFail(t) PROVE Moves(t)
  BY <1>9 DEF SubmitFail
<1>10. ASSUME SubmitCleanup(t) PROVE Moves(t)
  BY <1>10 DEF SubmitCleanup
<1>11. ASSUME WorkerDies(t) PROVE Moves(t)
  BY <1>11 DEF WorkerDies
<1> QED
  BY <1>1, <1>2, <1>3, <1>4, <1>5, <1>6, <1>7, <1>8, <1>9, <1>10, <1>11 DEF LauncherStep, LauncherWork

\* Hence the workers keep OneTaskInv.
LEMMA LauncherKeepsOneTask ==
  ASSUME TypeOK, OneTaskInv, NEW t \in tasks, LauncherStep(t)
  PROVE  OneTaskInv'
  BY LauncherMoves, TaskMoves DEF Moves

\* A job that has left a batch is not in hand any more.
LEMMA Forgotten ==
  ASSUME TypeOK, NEW m \in Managers, NEW j \in Jobs, Forget(m, j)
  PROVE  \A n \in Managers, i \in Jobs :
           batch'[n][i] = IF n = m /\ i = j THEN NoSeen ELSE batch[n][i]
  BY DEF TypeOK, JobTableTypeOK, Forget

\* The job that left the batch of m is no longer in hand, the others as before.
LEMMA ForgetHand ==
  ASSUME TypeOK, OneTaskInv, NEW m \in Managers, NEW j \in Jobs,
         Processing(m, j), Forget(m, j), UNCHANGED <<step, cur>>
  PROVE  /\ \A n \in Managers, i \in Jobs : InHand(n, i)' => InHand(n, i)
         /\ InHand(m, j) /\ ~InHand(m, j)'
         /\ InHandOnce'
<1>1. \A n \in Managers, i \in Jobs :
        batch'[n][i] = IF n = m /\ i = j THEN NoSeen ELSE batch[n][i]
  BY Forgotten
<1>2. \A n \in Managers : step[n] \in {"apply", "cleanup"} => cur[n].job \in Jobs
  BY DEF TypeOK, JobTableTypeOK
<1> QED
  BY <1>1, <1>2 DEF Processing, InHand, InHandOnce, OneTaskInv

\* The job m was acting on is no longer in hand, the others as before.
LEMMA NextJobHand ==
  ASSUME TypeOK, OneTaskInv, NEW m \in Managers, NEW j \in Jobs, cur[m].job = j,
         step[m] \in {"apply", "cleanup"}, NextJob(m), UNCHANGED batch
  PROVE  /\ \A n \in Managers, i \in Jobs : InHand(n, i)' => InHand(n, i)
         /\ InHand(m, j) /\ ~InHand(m, j)'
         /\ InHandOnce'
<1>1. \A n \in Managers : /\ step'[n] = IF n = m THEN "loop" ELSE step[n]
                          /\ n # m => cur'[n] = cur[n]
  BY DEF TypeOK, JobTableTypeOK, NextJob
<1>2. batch[m][cur[m].job] = NoSeen
  BY DEF OneTaskInv, InHandOnce
<1> QED
  BY <1>1, <1>2 DEF InHand, InHandOnce, OneTaskInv

\* A polling manager begins a task only for the job it acts on, and puts that job down.
LEMMA PollerKeepsOneTask ==
  ASSUME TypeOK, OneTaskInv, NEW m \in Pollers, PollerStep(m)
  PROVE  OneTaskInv'
<1> DEFINE j == cur[m].job
<1>m. m \in Managers
  BY DEF Pollers, Managers
<1>g. UNCHANGED gen
  BY DEF PollerStep, ApplyEnded, Cleanup, ApplyRunning, ApplyRestart, ApplyUnusual,
         ApplyPending, CheckJobStatus
<1>j. step[m] \in {"apply", "cleanup"} => j \in Jobs
  BY <1>m DEF TypeOK, JobTableTypeOK
<1>b. batch = [n \in Managers |-> batch[n]]
  BY DEF TypeOK, JobTableTypeOK
<1>1. CASE ApplyEnded(m)
  <2>1. /\ UNCHANGED <<tasks, batch, cur>>
        /\ step[m] = "apply" /\ step' = [step EXCEPT ![m] = "cleanup"]
    BY <1>1 DEF ApplyEnded, ThenCleanup, Applying
  <2>2. \A n \in Managers : step'[n] \in {"apply", "cleanup"} => step[n] \in {"apply", "cleanup"}
    BY <2>1, <1>m DEF TypeOK, JobTableTypeOK
  <2> QED
    BY <1>g, <2>1, <2>2, TasksShrink DEF InHand, InHandOnce, OneTaskInv
<1>2. CASE Cleanup(m)
  <2>1. /\ step[m] = "cleanup" /\ NextJob(m) /\ UNCHANGED tasks
        /\ batch' = batch \/ batch' = [batch EXCEPT ![m] = NoBatch]
    BY <1>2 DEF Cleanup
  <2>2. \A n \in Managers : /\ step'[n] = IF n = m THEN "loop" ELSE step[n]
                            /\ n # m => cur'[n] = cur[n]
    BY <2>1, <1>m DEF TypeOK, JobTableTypeOK, NextJob
  <2>3. \A n \in Managers, i \in Jobs : batch'[n][i] # NoSeen => batch'[n][i] = batch[n][i]
    BY <2>1, <1>m, <1>b DEF NoBatch
  <2>4. \A n \in Managers, i \in Jobs : InHand(n, i)' => InHand(n, i)
    BY <2>2, <2>3 DEF InHand
  <2>5. InHandOnce'
    BY <2>2, <2>3 DEF InHandOnce, OneTaskInv, TypeOK, JobTableTypeOK
  <2> QED
    BY <1>g, <2>1, <2>4, <2>5, TasksShrink
<1>3. CASE ApplyRestart(m) \/ ApplyPending(m)
  <2>1. step[m] = "apply" /\ NextJob(m) /\ UNCHANGED <<tasks, batch>>
    BY <1>3 DEF ApplyRestart, ApplyPending, Applying
  <2> QED
    BY <1>m, <1>g, <1>j, <2>1, NextJobHand, TasksShrink
<1>4. CASE ApplyRunning(m) \/ ApplyUnusual(m)
  <2>1. /\ step[m] = "apply" /\ NextJob(m) /\ UNCHANGED batch
        /\ \/ UNCHANGED tasks
           \/ \E s \in {"killed", "queued"} : tasks' = tasks \cup {kill_job(m, j, s)}
    BY <1>4 DEF ApplyRunning, ApplyUnusual, Applying
  <2>2. CASE UNCHANGED tasks
    BY <1>m, <1>g, <1>j, <2>1, <2>2, NextJobHand, TasksShrink
  <2>3. CASE \E s \in {"killed", "queued"} : tasks' = tasks \cup {kill_job(m, j, s)}
    <3>1. PICK i \in Jobs : i = j
      BY <1>j, <2>1
    <3>2. /\ \A n \in Managers, k \in Jobs : InHand(n, k)' => InHand(n, k)
          /\ InHand(m, i) /\ ~InHand(m, i)'
          /\ InHandOnce'
      BY <1>m, <2>1, <3>1, NextJobHand
    <3>3. PICK s : tasks' = tasks \cup {NewTask(m, i, "kill", s)}
      BY <2>3, <3>1 DEF kill_job
    <3> QED
      BY <1>m, <1>g, <3>2, <3>3, TaskAdded
  <2> QED
    BY <2>1, <2>2, <2>3
<1>5. ASSUME NEW i \in Jobs, CheckJobStatus(m, i) PROVE OneTaskInv'
  <2>1. /\ Processing(m, i) /\ Forget(m, i) /\ UNCHANGED tasks
        /\ step' = [step EXCEPT ![m] = "apply"]
        /\ \E o : cur' = [cur EXCEPT ![m] = [job |-> i, seen |-> batch[m][i], obs |-> o]]
    BY <1>5 DEF CheckJobStatus
  <2>2. \A n \in Managers, k \in Jobs :
          batch'[n][k] = IF n = m /\ k = i THEN NoSeen ELSE batch[n][k]
    BY <1>m, <2>1, Forgotten
  <2>3. \A n \in Managers : /\ step'[n] = IF n = m THEN "apply" ELSE step[n]
                            /\ n # m => cur'[n] = cur[n]
                            /\ n = m => cur'[n].job = i
    BY <1>m, <2>1 DEF TypeOK, JobTableTypeOK
  <2>4. \A n \in Managers, k \in Jobs : InHand(n, k)' => InHand(n, k)
    BY <2>1, <2>2, <2>3 DEF InHand, Processing
  <2>5. InHandOnce'
    BY <2>2, <2>3 DEF InHandOnce, OneTaskInv, TypeOK, JobTableTypeOK
  <2> QED
    BY <1>g, <2>1, <2>4, <2>5, TasksShrink
<1> QED
  BY <1>1, <1>2, <1>3, <1>4, <1>5 DEF PollerStep

\* So do the submitting, preempting and killing managers.
LEMMA ManagerKeepsOneTask ==
  ASSUME TypeOK, OneTaskInv, ManagerStep
  PROVE  OneTaskInv'
<1>m. "queued" \in Managers /\ "killing" \in Managers
  BY DEF Managers
<1>1. ASSUME NEW m \in Managers, Snapshot(m) PROVE OneTaskInv'
  <2>1. /\ UNCHANGED <<tasks, cur, gen>>
        /\ step[m] = "loop" /\ Outstanding(m) = {}
        /\ step' = [step EXCEPT ![m] = "plan"] \/ step' = step
        /\ \A n \in Managers : n # m => batch'[n] = batch[n]
    BY <1>1 DEF Snapshot, TypeOK, JobTableTypeOK
  <2>2. \A n \in Managers : /\ n # m => step'[n] = step[n]
                            /\ n = m => step'[n] \notin {"apply", "cleanup"}
    BY <2>1 DEF TypeOK, JobTableTypeOK
  <2>3. NoTaskInHand'
    BY <2>1, <2>2 DEF OneTaskInv, NoTaskInHand, InHand, Outstanding
  <2> QED
    BY <2>1, <2>2, <2>3
       DEF OneTaskInv, TasksOfTheirTime, InHandOnce, OneTaskPerJob
<1>2. ASSUME NEW m \in Managers, BatchFails(m) PROVE OneTaskInv'
  <2>1. /\ UNCHANGED <<tasks, gen>>
        /\ NextJob(m) /\ batch' = [batch EXCEPT ![m] = NoBatch]
    BY <1>2 DEF BatchFails
  <2>2. \A n \in Managers : /\ step'[n] = IF n = m THEN "loop" ELSE step[n]
                            /\ n # m => cur'[n] = cur[n] /\ batch'[n] = batch[n]
                            /\ n = m => batch'[n] = NoBatch
    BY <2>1 DEF TypeOK, JobTableTypeOK, NextJob
  <2>3. \A n \in Managers, i \in Jobs : InHand(n, i)' => InHand(n, i)
    BY <2>2 DEF InHand, NoBatch
  <2>4. InHandOnce'
    BY <2>2 DEF OneTaskInv, InHandOnce
  <2> QED
    BY <2>1, <2>3, <2>4, TasksShrink
<1>3. CASE TakeMissingVC
  <2>1. /\ UNCHANGED <<tasks, cur, gen>>
        /\ step["queued"] = "plan" /\ step' = [step EXCEPT !["queued"] = "loop"]
        /\ \E B \in [Jobs -> BOOLEAN] :
             batch' = [batch EXCEPT !["queued"] =
                         [j \in Jobs |-> IF B[j] THEN NoSeen ELSE batch["queued"][j]]]
    <3> DEFINE Missing == {j \in Jobs : NoVC(j)}
               B == [j \in Jobs |-> j \in Missing \/ Missing \cap Preemptible # {}]
    <3>1. B \in [Jobs -> BOOLEAN]
      OBVIOUS
    <3>2. batch' = [batch EXCEPT !["queued"] =
                      [j \in Jobs |-> IF B[j] THEN NoSeen ELSE batch["queued"][j]]]
      BY <1>3 DEF TakeMissingVC
    <3> QED
      BY <1>3, <3>1, <3>2 DEF TakeMissingVC
  <2>2. \A n \in Managers, i \in Jobs : batch'[n][i] # NoSeen => batch'[n][i] = batch[n][i]
    BY <1>m, <2>1 DEF TypeOK, JobTableTypeOK
  <2>3. \A n \in Managers : step'[n] \in {"apply", "cleanup"} => step'[n] = step[n]
    BY <1>m, <2>1 DEF TypeOK, JobTableTypeOK
  <2>4. \A n \in Managers, i \in Jobs : InHand(n, i)' => InHand(n, i)
    BY <2>1, <2>2, <2>3 DEF InHand
  <2>5. InHandOnce'
    BY <2>1, <2>2, <2>3 DEF OneTaskInv, InHandOnce, TypeOK, JobTableTypeOK
  <2> QED
    BY <2>1, <2>4, <2>5, TasksShrink
<1>4. ASSUME NEW j \in Jobs, TakeNothing(j) \/ ApproveJob(j) PROVE OneTaskInv'
  <2>1. PICK m \in Managers : /\ Processing(m, j) /\ Forget(m, j)
                              /\ UNCHANGED <<tasks, gen, step, cur>>
    BY <1>4, <1>m DEF TakeNothing, ApproveJob
  <2> QED
    BY <2>1, ForgetHand, TasksShrink
<1>5. ASSUME NEW j \in Jobs, TakeSubmit(j) \/ TakePreempt(j) \/ KillOrPause(j)
      PROVE  OneTaskInv'
  <2>1. PICK m \in Managers, kind \in {"submit", "kill"},
             target \in {"scheduling", "queued", "killed", "paused"} :
          /\ Processing(m, j) /\ Forget(m, j) /\ UNCHANGED <<gen, step, cur>>
          /\ tasks' = tasks \cup {NewTask(m, j, kind, target)}
    BY <1>5, <1>m
       DEF TakeSubmit, TakePreempt, KillOrPause, submit_job, kill_job, DesiredState
  <2> QED
    BY <2>1, ForgetHand, TaskAdded
<1> QED
  BY <1>1, <1>2, <1>3, <1>4, <1>5, PollerKeepsOneTask DEF ManagerStep

\* A restarted manager begins a new incarnation with nothing in hand.
LEMMA RestartKeepsOneTask ==
  ASSUME TypeOK, OneTaskInv, NEW m \in Managers, Restart(m)
  PROVE  OneTaskInv'
<1>1. /\ tasks' \subseteq tasks
      /\ gen' = [gen EXCEPT ![m] = @ + 1]
      /\ batch' = [batch EXCEPT ![m] = NoBatch]
      /\ step' = [step EXCEPT ![m] = "loop"]
      /\ cur' = [cur EXCEPT ![m] = NoCur]
  BY DEF Restart
<1>2. \A n \in Managers : /\ gen[n] \in Nat
                          /\ gen'[n] = IF n = m THEN gen[n] + 1 ELSE gen[n]
                          /\ n # m => /\ batch'[n] = batch[n]
                                      /\ step'[n] = step[n]
                                      /\ cur'[n] = cur[n]
                          /\ n = m => batch'[n] = NoBatch /\ step'[n] = "loop"
  BY <1>1 DEF TypeOK, JobTableTypeOK
<1>3. \A t \in tasks : t.mgr \in Managers /\ t.gen \in Nat
  BY DEF TypeOK, JobTableTypeOK, Task
<1>4. TasksOfTheirTime'
  BY <1>1, <1>2, <1>3 DEF OneTaskInv, TasksOfTheirTime
<1>5. NoTaskInHand'
  BY <1>1, <1>2 DEF OneTaskInv, NoTaskInHand, InHand, NoBatch
<1>6. InHandOnce' /\ OneTaskPerJob'
  BY <1>1, <1>2 DEF OneTaskInv, InHandOnce, OneTaskPerJob
<1> QED
  BY <1>4, <1>5, <1>6 DEF OneTaskInv

\* The requests, the pods and the restarts keep it too.
LEMMA OneTaskInvHolds == Spec => []OneTaskInv
<1>1. Init => OneTaskInv
  BY DEF Init, OneTaskInv, TasksOfTheirTime, NoTaskInHand, InHand, InHandOnce,
         OneTaskPerJob, NoBatch
<1>2. TypeOK /\ OneTaskInv /\ [Next]_vars => OneTaskInv'
  <2> SUFFICES ASSUME TypeOK, OneTaskInv, [Next]_vars PROVE OneTaskInv'
    OBVIOUS
  <2>1. CASE RestStep \/ (\E j \in Jobs : PodStep(j)) \/ UNCHANGED vars
    <3>1. UNCHANGED <<tasks, batch, step, cur, gen>>
      BY <2>1 DEF RestStep, SubmitJob, RestCheck, RestWrite, AskDeleteVC, CloseDialog, DeleteVCBegin,
         DeleteVCMark, DeleteVCPurge, DeleteVCDrop, AddVCCheck, AddVCReplace, PodStep,
         mgrVars, vars
    <3> QED
      BY <3>1, TasksShrink DEF InHand, OneTaskInv, InHandOnce
  <2> QED
    BY <2>1, ManagerKeepsOneTask, LauncherKeepsOneTask, RestartKeepsOneTask DEF Next
<1> QED
  BY <1>1, <1>2, TypeCorrect, PTL DEF Spec

\* wait_tasks_done at the head of Run's loop: however its workers and the rest of
\* the system interleave, one incarnation of a manager never has two launcher tasks
\* for one job.
THEOREM OneTaskPerJobHolds == Spec => []OneTaskPerJob
<1>1. OneTaskInv => OneTaskPerJob
  BY DEF OneTaskInv
<1> QED
  BY <1>1, OneTaskInvHolds, PTL

-----------------------------------------------------------------------------
(***************************************************************************)
(* Stopping a job.  Whatever the steps of the other processes, none of     *)
(* them begins work on a settled job that could bring it back.             *)
(***************************************************************************)
LEMMA BatchWatchedHolds == Spec => []BatchWatched
<1>1. Init => BatchWatched
  BY DEF Init, BatchWatched, NoBatch
<1>2. TypeOK /\ BatchWatched /\ [Next]_vars => BatchWatched'
  <2> SUFFICES ASSUME TypeOK, BatchWatched, [Next]_vars PROVE BatchWatched'
    OBVIOUS
  <2> DEFINE Kept == \A m \in Managers, j \in Jobs :
                       batch'[m][j] = batch[m][j] \/ batch'[m][j] = NoSeen
  <2>b. batch \in [Managers -> [Jobs -> RowStatus \cup {NoSeen}]]
    BY DEF TypeOK, JobTableTypeOK
  <2>k. Kept => BatchWatched'
    BY DEF BatchWatched
  <2>f. \A m \in Managers, j \in Jobs : Forget(m, j) => Kept
    BY <2>b DEF Forget
  <2>n. \A m \in Managers : batch' = [batch EXCEPT ![m] = NoBatch] => Kept
    BY <2>b DEF NoBatch
  <2>q. "queued" \in Managers /\ "killing" \in Managers /\ Pollers \subseteq Managers
    BY DEF Managers, Pollers
  <2>1. ASSUME RestStep \/ (\E t \in tasks : LauncherStep(t)) \/ (\E j \in Jobs : PodStep(j))
                \/ UNCHANGED vars
        PROVE  BatchWatched'
    <3>1. UNCHANGED batch
      BY <2>1, LauncherMoves
         DEF Moves, RestStep, SubmitJob, RestCheck, RestWrite, AskDeleteVC, CloseDialog, DeleteVCBegin,
         DeleteVCMark, DeleteVCPurge, DeleteVCDrop, AddVCCheck, AddVCReplace, PodStep,
         mgrVars, vars
    <3> QED
      BY <3>1, <2>k
  <2>2. ASSUME NEW m \in Managers, Snapshot(m) PROVE BatchWatched'
    <3> DEFINE rows == {j \in Jobs \ deleted : status[j] \in Watched(m)}
               read == [j \in Jobs |-> IF j \in rows THEN status[j] ELSE NoSeen]
    <3>1. batch' = [batch EXCEPT ![m] = read]
      BY <2>2 DEF Snapshot
    <3>2. \A j \in Jobs : read[j] \in Watched(m) \cup {NoSeen}
      OBVIOUS
    <3> QED
      BY <2>b, <3>1, <3>2 DEF BatchWatched
  <2>3. ASSUME NEW m \in Managers, BatchFails(m) \/ Restart(m) PROVE BatchWatched'
    BY <2>3, <2>n, <2>k DEF BatchFails, Restart
  <2>4. CASE TakeMissingVC
    <3>1. Kept
      BY <2>4, <2>b, <2>q DEF TakeMissingVC
    <3> QED
      BY <3>1, <2>k
  <2>5. ASSUME NEW j \in Jobs,
               TakeSubmit(j) \/ TakePreempt(j) \/ TakeNothing(j) \/ KillOrPause(j)
                 \/ ApproveJob(j)
        PROVE  BatchWatched'
    BY <2>5, <2>f, <2>k, <2>q DEF TakeSubmit, TakePreempt, TakeNothing, KillOrPause, ApproveJob
  <2>6. ASSUME NEW m \in Pollers, PollerStep(m) PROVE BatchWatched'
    <3>1. Kept
      BY <2>6, <2>f, <2>n, <2>q
         DEF PollerStep, ApplyEnded, Cleanup, ApplyRunning, ApplyRestart, ApplyUnusual,
             ApplyPending, CheckJobStatus
    <3> QED
      BY <3>1, <2>k
  <2> QED
    BY <2>1, <2>2, <2>3, <2>4, <2>5, <2>6 DEF Next, ManagerStep
<1> QED
  BY <1>1, <1>2, TypeCorrect, PTL DEF Spec

Stops == {"killing", "pausing"}

\* What StopLostOnlyToOlderWork allows a step to do to a settled job.
StopKept(j, s) ==
  \/ status'[j] \in {DesiredState(s)} \cup Superseded(s)
  \/ j \in deleted'
  \/ Settled(j, s)'

\* A step that writes no status and begins no work on the job keeps it settled.
LEMMA StaysSettled ==
  ASSUME NEW j \in Jobs, NEW s \in Stops, Settled(j, s),
         status'[j] = status[j], deleted' = deleted,
         OlderTask(j, s)' => OlderTask(j, s),
         \A m \in ActingOn(j)' : m \in ActingOn(j),
         \A m \in Managers : batch'[m][j] = NoSeen \/ batch'[m][j] = batch[m][j]
                               \/ batch'[m][j] = s,
         OlderRequest(j)' => OlderRequest(j),
         VCReplaced(j, s)' => VCReplaced(j, s)
  PROVE  StopKept(j, s)
<1>1. ~OlderBatch(j, s)'
  BY DEF Settled, OlderWork, OlderBatch
<1>2. ActingOn(j)' = {}
  BY DEF Settled, OlderWork
<1> QED
  BY <1>1, <1>2 DEF StopKept, Settled, OlderWork

\* A settled job has one kind of task: the one that stops it.
LEMMA SettledTask ==
  ASSUME NEW j \in Jobs, NEW s \in Stops, Settled(j, s),
         NEW t \in tasks, t.job = j, t.step # "dead"
  PROVE  t.kind = "kill" /\ t.target = DesiredState(s)
  BY DEF Settled, OlderWork, OlderTask, TasksOn

\* No launcher worker writes a status on a settled job other than the one that was asked for.
LEMMA LauncherKeepsStop ==
  ASSUME TypeOK, NEW j \in Jobs, NEW s \in Stops, Settled(j, s),
         NEW t \in tasks, LauncherStep(t)
  PROVE  StopKept(j, s)
<1> USE DEF Stops
<1>t. t \in Task
  BY DEF TypeOK, JobTableTypeOK
<1>h. Moves(t) /\ UNCHANGED <<deleted, rest, vcAdmin>>
  <2>1. UNCHANGED <<deleted, rest, vcAdmin>>
    BY DEF LauncherStep, LauncherWork, KillDelete, KillDeleteFails, KillWrite, SubmitCheck,
           SubmitInvalid, SubmitCreate, SubmitCreateFails, SubmitWrite, SubmitFail,
           SubmitCleanup, WorkerDies, dbVars, restVars
  <2> QED
    BY <2>1, LauncherMoves
<1>o. OlderTask(j, s)' => OlderTask(j, s)
  <2>1. t.step # "dead"
    BY DEF LauncherStep, LauncherWork, KillDelete, KillDeleteFails, KillWrite, SubmitCheck,
           SubmitInvalid, SubmitCreate, SubmitCreateFails, SubmitWrite, SubmitFail,
           SubmitCleanup, WorkerDies, At
  <2>2. \A u \in tasks' : u \in tasks \/ \E x : u = [t EXCEPT !.step = x]
    BY <1>h DEF Moves, Done, Goto
  <2> QED
    BY <1>t, <2>1, <2>2 DEF OlderTask, TasksOn, Task
<1>1. CASE status'[j] = status[j]
  <2>1. UNCHANGED <<batch, step, cur>>
    BY <1>h DEF Moves, mgrVars
  <2> QED
    BY <1>h, <1>o, <1>1, <2>1, StaysSettled DEF ActingOn, OlderRequest, VCReplaced
<1>2. CASE status'[j] # status[j]
  <2>1. \/ KillWrite(t) \/ SubmitInvalid(t) \/ SubmitWrite(t) \/ SubmitFail(t)
    BY <1>2 DEF LauncherStep, LauncherWork, KillDelete, KillDeleteFails, SubmitCheck,
           SubmitCreate, SubmitCreateFails, SubmitCleanup, WorkerDies, dbVars
  <2>2. /\ t.job = j
        /\ t.step # "dead"
        /\ t.kind = "submit" \/ (KillWrite(t) /\ status'[j] = t.target)
    BY <1>2, <1>t, <2>1
       DEF KillWrite, SubmitInvalid, SubmitWrite, SubmitFail, WriteStatus, Put, At, Task,
           TypeOK, JobTableTypeOK
  <2>3. status'[j] = DesiredState(s)
    BY <2>2, SettledTask
  <2> QED
    BY <2>3 DEF StopKept
<1> QED
  BY <1>1, <1>2

\* Only the killing manager has a settled job in hand.
LEMMA SettledHand ==
  ASSUME BatchWatched, NEW j \in Jobs, NEW s \in Stops, Settled(j, s), NEW m \in Managers
  PROVE  /\ batch[m][j] # NoSeen => m = "killing" /\ batch[m][j] = s
         /\ step[m] \in {"apply", "cleanup"} => cur[m].job # j
  BY DEF Stops, BatchWatched, Watched, Managers, Settled, OlderWork, OlderBatch, ActingOn

\* A polling manager has no settled job in hand.
LEMMA PollerKeepsStop ==
  ASSUME TypeOK, BatchWatched, NEW j \in Jobs, NEW s \in Stops, Settled(j, s),
         NEW m \in Pollers, PollerStep(m)
  PROVE  StopKept(j, s)
<1>m. m \in Managers /\ m # "killing"
  BY DEF Pollers, Managers
<1>t. /\ status \in [Jobs -> Status]
      /\ batch \in [Managers -> [Jobs -> RowStatus \cup {NoSeen}]]
      /\ step \in [Managers -> {"loop", "plan", "apply", "cleanup"}]
      /\ DOMAIN cur = Managers
  BY DEF TypeOK, JobTableTypeOK
<1>u. UNCHANGED <<deleted, rest, vcAdmin>>
  BY DEF PollerStep, ApplyEnded, Cleanup, ApplyRunning, ApplyRestart, ApplyUnusual,
         ApplyPending, CheckJobStatus, dbVars, restVars
<1>1. CASE step[m] \in {"apply", "cleanup"}
  <2>1. cur[m].job # j
    BY <1>1, <1>m, SettledHand
  <2>2. ~\E i \in Jobs : CheckJobStatus(m, i)
    BY <1>1 DEF CheckJobStatus, Processing
  <2>3. status'[j] = status[j]
    BY <1>t, <2>1, <2>2
       DEF PollerStep, ApplyEnded, Cleanup, ApplyRunning, ApplyRestart, ApplyUnusual,
           ApplyPending, WriteStatus, Put, dbVars
  <2>4. \/ UNCHANGED tasks
        \/ \E x : tasks' = tasks \cup {kill_job(m, cur[m].job, x)}
    BY <2>2 DEF PollerStep, ApplyEnded, Cleanup, ApplyRunning, ApplyRestart, ApplyUnusual,
                ApplyPending
  <2>5. OlderTask(j, s)' => OlderTask(j, s)
    BY <2>1, <2>4 DEF OlderTask, TasksOn, kill_job, NewTask
  <2>6. NextJob(m) \/ ThenCleanup(m)
    BY <2>2 DEF PollerStep, ApplyEnded, Cleanup, ApplyRunning, ApplyRestart, ApplyUnusual,
                ApplyPending
  <2>7. \A n \in ActingOn(j)' : n \in ActingOn(j)
    BY <1>m, <1>t, <1>1, <2>6 DEF NextJob, ThenCleanup, ActingOn, NoCur
  <2>8. \A n \in Managers : batch'[n][j] = NoSeen \/ batch'[n][j] = batch[n][j]
    BY <1>t, <2>2 DEF PollerStep, ApplyEnded, Cleanup, ApplyRunning, ApplyRestart,
                      ApplyUnusual, ApplyPending, NoBatch
  <2> QED
    BY <1>u, <2>3, <2>5, <2>7, <2>8, StaysSettled DEF OlderRequest, VCReplaced
<1>2. ASSUME NEW i \in Jobs, CheckJobStatus(m, i) PROVE StopKept(j, s)
  <2>1. i # j
    BY <1>2, <1>m, SettledHand DEF CheckJobStatus, Processing
  <2>2. UNCHANGED <<status, tasks>>
    BY <1>2 DEF CheckJobStatus, dbVars
  <2>3. \A n \in ActingOn(j)' : n \in ActingOn(j)
    <3>1. PICK o : cur' = [cur EXCEPT ![m] = [job |-> i, seen |-> batch[m][i], obs |-> o]]
      BY <1>2 DEF CheckJobStatus
    <3>2. step' = [step EXCEPT ![m] = "apply"]
      BY <1>2 DEF CheckJobStatus
    <3> QED
      BY <1>m, <1>t, <2>1, <3>1, <3>2 DEF ActingOn
  <2>4. \A n \in Managers : batch'[n][j] = NoSeen \/ batch'[n][j] = batch[n][j]
    BY <1>2, <1>t DEF CheckJobStatus, Forget
  <2> QED
    BY <1>u, <2>2, <2>3, <2>4, StaysSettled DEF OlderTask, TasksOn, OlderRequest, VCReplaced
<1>3. PollerStep(m) =>
        step[m] \in {"apply", "cleanup"} \/ \E i \in Jobs : CheckJobStatus(m, i)
  BY DEF PollerStep, ApplyEnded, Cleanup, ApplyRunning, ApplyRestart, ApplyUnusual,
         ApplyPending, Applying
<1> QED
  BY <1>1, <1>2, <1>3

\* No manager begins work on a settled job that could bring it back.
LEMMA ManagerKeepsStop ==
  ASSUME TypeOK, BatchWatched, NEW j \in Jobs, NEW s \in Stops, Settled(j, s), ManagerStep
  PROVE  StopKept(j, s)
<1>t. /\ status \in [Jobs -> Status]
      /\ batch \in [Managers -> [Jobs -> RowStatus \cup {NoSeen}]]
      /\ step \in [Managers -> {"loop", "plan", "apply", "cleanup"}]
      /\ DOMAIN cur = Managers
  BY DEF TypeOK, JobTableTypeOK
<1>q. "queued" \in Managers /\ "killing" \in Managers
  BY DEF Managers
<1>s. status[j] = s
  BY DEF Settled
<1>1. ASSUME NEW m \in Managers, Snapshot(m) PROVE StopKept(j, s)
  <2>1. UNCHANGED <<status, deleted, tasks, rest, vcAdmin, cur>>
    BY <1>1 DEF Snapshot, dbVars, restVars
  <2>2. \A n \in Managers : \/ batch'[n][j] = NoSeen
                            \/ batch'[n][j] = batch[n][j] \/ batch'[n][j] = s
    <3> DEFINE rows == {k \in Jobs \ deleted : status[k] \in Watched(m)}
               read == [k \in Jobs |-> IF k \in rows THEN status[k] ELSE NoSeen]
    <3>1. batch' = [batch EXCEPT ![m] = read]
      BY <1>1 DEF Snapshot
    <3>2. read[j] = NoSeen \/ read[j] = s
      BY <1>s
    <3> QED
      BY <1>t, <3>1, <3>2
  <2>3. \A n \in ActingOn(j)' : n \in ActingOn(j)
    BY <1>1, <1>t, <2>1 DEF Snapshot, ActingOn
  <2> QED
    BY <2>1, <2>2, <2>3, StaysSettled DEF OlderTask, TasksOn, OlderRequest, VCReplaced
<1>2. ASSUME NEW m \in Managers, BatchFails(m) PROVE StopKept(j, s)
  <2>1. UNCHANGED <<status, deleted, tasks, rest, vcAdmin>>
    BY <1>2 DEF BatchFails, dbVars, restVars
  <2>2. \A n \in Managers : batch'[n][j] = NoSeen \/ batch'[n][j] = batch[n][j]
    BY <1>2, <1>t DEF BatchFails, NoBatch
  <2>3. \A n \in ActingOn(j)' : n \in ActingOn(j)
    BY <1>2, <1>t DEF BatchFails, NextJob, ActingOn
  <2> QED
    BY <2>1, <2>2, <2>3, StaysSettled DEF OlderTask, TasksOn, OlderRequest, VCReplaced
<1>3. CASE TakeMissingVC
  <2>1. ~NoVC(j)
    BY <1>q, SettledHand DEF NoVC
  <2>2. status'[j] = status[j]
    BY <1>3, <1>t, <2>1 DEF TakeMissingVC
  <2>3. UNCHANGED <<deleted, tasks, rest, vcAdmin, cur>>
    BY <1>3 DEF TakeMissingVC, restVars
  <2>4. \A n \in Managers : batch'[n][j] = NoSeen \/ batch'[n][j] = batch[n][j]
    BY <1>3, <1>q, <1>t DEF TakeMissingVC
  <2>5. \A n \in ActingOn(j)' : n \in ActingOn(j)
    BY <1>3, <1>q, <1>t, <2>3 DEF TakeMissingVC, ActingOn
  <2> QED
    BY <2>2, <2>3, <2>4, <2>5, StaysSettled DEF OlderTask, TasksOn, OlderRequest, VCReplaced
<1>4. ASSUME NEW i \in Jobs,
             TakeSubmit(i) \/ TakePreempt(i) \/ TakeNothing(i) \/ KillOrPause(i) \/ ApproveJob(i)
      PROVE  StopKept(j, s)
  <2>1. /\ UNCHANGED <<deleted, rest, vcAdmin, step, cur>>
        /\ \E m \in Managers : Forget(m, i)
    BY <1>4, <1>q
       DEF TakeSubmit, TakePreempt, TakeNothing, KillOrPause, ApproveJob, dbVars, restVars
  <2>2. status'[j] = status[j]
    <3>1. CASE ApproveJob(i)
      <4>1. i # j
        BY <3>1, <1>q, SettledHand DEF ApproveJob, Processing, Stops
      <4> QED
        BY <3>1, <4>1, <1>t DEF ApproveJob, WriteStatus, Put
    <3> QED
      BY <1>4, <3>1 DEF TakeSubmit, TakePreempt, TakeNothing, KillOrPause, dbVars
  <2>3. OlderTask(j, s)' => OlderTask(j, s)
    <3>1. CASE TakeSubmit(i) \/ TakePreempt(i)
      <4>1. i # j
        BY <3>1, <1>q, SettledHand DEF TakeSubmit, TakePreempt, Processing
      <4> QED
        BY <3>1, <4>1
           DEF TakeSubmit, TakePreempt, OlderTask, TasksOn, submit_job, kill_job, NewTask
    <3>2. CASE KillOrPause(i)
      <4>1. i = j => batch["killing"][i] = s
        BY <3>2, <1>q, SettledHand DEF KillOrPause, Processing
      <4> QED
        BY <3>2, <4>1 DEF KillOrPause, OlderTask, TasksOn, kill_job, NewTask
    <3>3. CASE TakeNothing(i) \/ ApproveJob(i)
      BY <3>3 DEF TakeNothing, ApproveJob, OlderTask, TasksOn
    <3> QED
      BY <1>4, <3>1, <3>2, <3>3
  <2>4. \A n \in Managers : batch'[n][j] = NoSeen \/ batch'[n][j] = batch[n][j]
    BY <2>1, <1>t DEF Forget
  <2> QED
    BY <2>1, <2>2, <2>3, <2>4, StaysSettled DEF ActingOn, OlderRequest, VCReplaced
<1> QED
  BY <1>1, <1>2, <1>3, <1>4, PollerKeepsStop DEF ManagerStep

\* The REST API: what is accepted for a job that is being stopped can only stop it.
LEMMA RestKeepsStop ==
  ASSUME TypeOK, NEW j \in Jobs, NEW s \in Stops, Settled(j, s), RestStep
  PROVE  StopKept(j, s)
<1> USE DEF Stops, dbVars, mgrVars, restVars
<1>s. /\ status[j] = s /\ j \notin deleted /\ HasRow(j)
      /\ ~OlderRequest(j) /\ ~VCReplaced(j, s)
      /\ status \in [Jobs -> Status]
  BY DEF Settled, OlderWork, HasRow, NoRow, TypeOK, JobTableTypeOK
<1>h. UNCHANGED <<batch, step, cur, tasks>>
  BY DEF RestStep, SubmitJob, RestCheck, RestWrite, AskDeleteVC, CloseDialog, DeleteVCBegin,
         DeleteVCMark, DeleteVCPurge, DeleteVCDrop, AddVCCheck, AddVCReplace
<1>k. ASSUME UNCHANGED deleted, status'[j] = s, ~OlderRequest(j)', ~VCReplaced(j, s)'
      PROVE  StopKept(j, s)
  BY <1>h, <1>k, <1>s, StaysSettled DEF OlderTask, TasksOn, ActingOn
<1>1. ASSUME NEW i \in Jobs, SubmitJob(i) PROVE StopKept(j, s)
  <2>1. i # j
    BY <1>1, <1>s DEF SubmitJob
  <2>2. UNCHANGED <<deleted, rest, vcAdmin>> /\ status'[j] = s
    BY <1>1, <1>s, <2>1 DEF SubmitJob
  <2> QED
    BY <1>k, <1>s, <2>2 DEF OlderRequest, VCReplaced
<1>2. ASSUME NEW r \in Request, RestCheck(r) PROVE StopKept(j, s)
  <2>1. /\ UNCHANGED <<status, deleted, vcAdmin>>
        /\ rest' = rest \cup {r} /\ status[r.job] \in Accepts(r.op)
    BY <1>2 DEF RestCheck
  <2>2. r.job = j => r.op \in {"kill", "delete"}
    BY <1>s, <2>1 DEF Accepts, Request
  <2> QED
    BY <1>k, <1>s, <2>1, <2>2 DEF OlderRequest, VCReplaced
<1>3. ASSUME NEW r \in rest, RestWrite(r) PROVE StopKept(j, s)
  <2>1. /\ rest' = rest \ {r} /\ UNCHANGED vcAdmin
        /\ r \in Request
    BY <1>3 DEF RestWrite, TypeOK, JobTableTypeOK
  <2>2. r.job = j => r.op \in {"kill", "delete"}
    BY <1>s DEF OlderRequest
  <2>3. ~OlderRequest(j)' /\ ~VCReplaced(j, s)'
    BY <1>s, <2>1 DEF OlderRequest, VCReplaced
  <2>4. CASE r.op = "delete"
    <3>1. status'[j] = s
      BY <1>3, <1>s, <2>4 DEF RestWrite
    <3>2. CASE r.job = j
      BY <1>3, <1>s, <2>4, <3>2 DEF RestWrite, StopKept
    <3>3. CASE r.job # j
      <4>1. j \notin deleted'
        BY <1>3, <1>s, <2>4, <3>3 DEF RestWrite
      <4> QED
        BY <1>h, <1>s, <2>3, <3>1, <4>1
           DEF StopKept, Settled, OlderWork, OlderTask, TasksOn, ActingOn, OlderBatch
    <3> QED
      BY <3>2, <3>3
  <2>5. CASE r.op # "delete"
    <3>1. /\ UNCHANGED deleted
          /\ status'[j] = s \/ (j \in Target(r) /\ status'[j] = NewStatus(r.op))
      BY <1>3, <1>s, <2>5 DEF RestWrite, Put
    <3>2. CASE status'[j] = s
      BY <1>k, <2>3, <3>1, <3>2
    <3>3. CASE j \in Target(r) /\ status'[j] = NewStatus(r.op)
      <4>1. r.op = "kill"
        BY <2>2, <2>5, <3>3 DEF Target
      <4>2. status'[j] = "killing"
        BY <3>3, <4>1 DEF NewStatus
      <4> QED
        BY <1>k, <2>3, <3>1, <4>2 DEF StopKept, Superseded
    <3> QED
      BY <3>1, <3>2, <3>3
  <2> QED
    BY <2>4, <2>5
<1>4. ASSUME NEW v \in VCs, AskDeleteVC(v) \/ DeleteVCBegin(v) \/ AddVCCheck(v)
      PROVE StopKept(j, s)
  <2>1. UNCHANGED <<status, deleted, rest>>
    BY <1>4 DEF AskDeleteVC, DeleteVCBegin, AddVCCheck
  <2>2. ~VCReplaced(j, s)'
    BY <1>4, <1>s DEF AskDeleteVC, DeleteVCBegin, AddVCCheck, VCReplaced
  <2> QED
    BY <1>k, <1>s, <2>1, <2>2 DEF OlderRequest
<1>9. CASE CloseDialog
  <2>1. UNCHANGED <<status, deleted, rest>> /\ ~VCReplaced(j, s)'
    BY <1>9 DEF CloseDialog, VCReplaced, NoAdmin
  <2> QED
    BY <1>k, <1>s, <2>1 DEF OlderRequest
<1>5. CASE DeleteVCMark
  <2>1. UNCHANGED <<deleted, rest>> /\ ~VCReplaced(j, s)'
    BY <1>5 DEF DeleteVCMark, VCReplaced, TypeOK, JobTableTypeOK
  <2>2. status'[j] = s \/ status'[j] = "killing"
    BY <1>5, <1>s DEF DeleteVCMark, Put
  <2> QED
    BY <1>k, <1>s, <2>1, <2>2 DEF OlderRequest, StopKept, Superseded
<1>6. CASE DeleteVCPurge
  <2>1. UNCHANGED <<deleted, rest>> /\ ~VCReplaced(j, s)'
    BY <1>6 DEF DeleteVCPurge, VCReplaced, TypeOK, JobTableTypeOK
  <2>2. status'[j] = s \/ (s = "pausing" /\ status'[j] = "purged")
    BY <1>6, <1>s DEF DeleteVCPurge, Purged
  <2> QED
    BY <1>k, <1>s, <2>1, <2>2 DEF OlderRequest, StopKept, Superseded
<1>7. CASE DeleteVCDrop
  <2>1. UNCHANGED <<status, deleted, rest>> /\ ~VCReplaced(j, s)'
    BY <1>7 DEF DeleteVCDrop, VCReplaced, NoAdmin
  <2> QED
    BY <1>k, <1>s, <2>1 DEF OlderRequest
<1>8. CASE AddVCReplace
  <2>1. UNCHANGED <<deleted, rest>> /\ ~VCReplaced(j, s)'
    BY <1>8 DEF AddVCReplace, VCReplaced, NoAdmin
  <2>2. status'[j] = s \/ (s = "pausing" /\ status'[j] = "purged")
    BY <1>8, <1>s DEF AddVCReplace, Purged, InVC, VCReplaced
  <2> QED
    BY <1>k, <1>s, <2>1, <2>2 DEF OlderRequest, StopKept, Superseded
<1> QED
  BY <1>1, <1>2, <1>3, <1>4, <1>5, <1>6, <1>7, <1>8, <1>9 DEF RestStep

\* Nor does any other step of the system.
LEMMA StepKeepsStop ==
  ASSUME TypeOK, BatchWatched, [Next]_vars, NEW j \in Jobs, NEW s \in Stops, Settled(j, s)
  PROVE  StopKept(j, s)
<1>1. ASSUME NEW i \in Jobs, PodStep(i) PROVE StopKept(j, s)
  <2>1. UNCHANGED <<status, deleted, tasks, batch, step, cur, rest, vcAdmin>>
    BY <1>1 DEF PodStep, dbVars, mgrVars, restVars
  <2> QED
    BY <2>1, StaysSettled DEF OlderTask, TasksOn, ActingOn, OlderRequest, VCReplaced
<1>2. ASSUME NEW m \in Managers, Restart(m) PROVE StopKept(j, s)
  <2>1. /\ UNCHANGED <<status, deleted, rest, vcAdmin>>
        /\ tasks' \subseteq tasks
    BY <1>2 DEF Restart, dbVars, restVars
  <2>2. \A n \in Managers : batch'[n][j] = NoSeen \/ batch'[n][j] = batch[n][j]
    BY <1>2 DEF Restart, NoBatch, TypeOK, JobTableTypeOK
  <2>3. \A n \in ActingOn(j)' : n \in ActingOn(j)
    BY <1>2 DEF Restart, ActingOn, TypeOK, JobTableTypeOK
  <2> QED
    BY <2>1, <2>2, <2>3, StaysSettled DEF OlderTask, TasksOn, OlderRequest, VCReplaced
<1>3. CASE UNCHANGED vars
  BY <1>3, StaysSettled
     DEF vars, OlderTask, TasksOn, ActingOn, OlderRequest, VCReplaced
<1> QED
  BY <1>1, <1>2, <1>3, RestKeepsStop, ManagerKeepsStop, LauncherKeepsStop DEF Next

\* A kill or a pause of a job is only ever lost to work that was under way when it
\* was requested; REST handlers, managers, launcher workers and restarts begin none
\* that could bring the job back.
THEOREM StopLostOnlyToOlderWorkHolds == Spec => StopLostOnlyToOlderWork
<1>1. TypeOK /\ BatchWatched /\ [Next]_vars
        => [\A j \in Jobs, s \in {"killing", "pausing"} : Settled(j, s)
              => \/ status'[j] \in {DesiredState(s)} \cup Superseded(s)
                 \/ j \in deleted'
                 \/ Settled(j, s)']_vars
  BY StepKeepsStop DEF Stops, StopKept
<1> QED
  BY <1>1, TypeCorrect, BatchWatchedHolds, PTL DEF Spec, StopLostOnlyToOlderWork

-----------------------------------------------------------------------------
(***************************************************************************)
(* Devices.  Pods come to hold devices by a creation, of which a job that  *)
(* is being stopped and one that has ended have none left; and who writes  *)
(* that a job stopped has deleted its pods first.                          *)
(***************************************************************************)
\* Whoever deletes pods, and however much of them, takes no devices.
LEMMA DeletionFrees ==
  ASSUME TypeOK, NEW j \in Jobs, NEW i \in Jobs, DeletePods(i) \/ DeleteIncomplete(i),
         pods[j] \notin HoldsGpu
  PROVE  pods'[j] \notin HoldsGpu
  BY DEF TypeOK, JobTableTypeOK, DeletePods, DeleteIncomplete, SetPhase, PhaseDeleted, Mixture, HoldsGpu

\* A job takes devices only when a launcher worker creates its pods.
LEMMA TakenByCreation ==
  ASSUME TypeOK, [Next]_vars, NEW j \in Jobs,
         pods[j] \notin HoldsGpu, pods'[j] \in HoldsGpu
  PROVE  \E t \in tasks : t.job = j /\ t.kind = "submit" /\ t.step = "create"
<1>t. /\ pods \in [Jobs -> Phase] /\ tasks \subseteq Task
      /\ \A t \in tasks : t.job \in Jobs
      /\ \A m \in Managers : step[m] \in {"apply", "cleanup"} => cur[m].job \in Jobs
  BY DEF TypeOK, JobTableTypeOK, Task
<1>p. pods' # pods
  OBVIOUS
<1>1. CASE RestStep \/ UNCHANGED vars \/ \E m \in Managers : Restart(m)
  BY <1>1, <1>p
     DEF RestStep, SubmitJob, RestCheck, RestWrite, AskDeleteVC, CloseDialog, DeleteVCBegin,
         DeleteVCMark, DeleteVCPurge, DeleteVCDrop, AddVCCheck, AddVCReplace, Restart, vars
<1>2. ASSUME NEW i \in Jobs, PodStep(i) PROVE FALSE
  BY <1>2, <1>t DEF PodStep, PodNext, MixtureNext, SetPhase, Mixture, HoldsGpu
<1>3. CASE ManagerStep
  <2>1. PICK m \in Managers : Cleanup(m)
    BY <1>3, <1>p
       DEF ManagerStep, PollerStep, Snapshot, BatchFails, TakeMissingVC, TakeSubmit, TakePreempt,
           TakeNothing, KillOrPause, ApproveJob, ApplyEnded, ApplyRunning, ApplyRestart,
           ApplyUnusual, ApplyPending, CheckJobStatus, Pollers, Managers
  <2>2. cur[m].job \in Jobs
    BY <2>1, <1>t DEF Cleanup
  <2> QED
    BY <2>1, <2>2, <1>p, DeletionFrees DEF Cleanup
<1>4. ASSUME NEW t \in tasks, LauncherStep(t)
      PROVE  t.job = j /\ t.kind = "submit" /\ t.step = "create"
  <2>1. \/ KillDelete(t) \/ KillDeleteFails(t) \/ SubmitCheck(t) \/ SubmitCleanup(t)
        \/ SubmitCreate(t) \/ SubmitCreateFails(t)
    BY <1>4, <1>p
       DEF LauncherStep, LauncherWork, KillWrite, SubmitInvalid, SubmitWrite, SubmitFail, WorkerDies
  <2>2. ~(KillDelete(t) \/ KillDeleteFails(t) \/ SubmitCheck(t) \/ SubmitCleanup(t))
    BY <1>t, <1>p, DeletionFrees DEF KillDelete, KillDeleteFails, SubmitCheck, SubmitCleanup
  <2>3. t.job = j
    <3>1. t.job # j => pods'[j] = pods[j]
      BY <2>1, <2>2, <1>t DEF SubmitCreate, SubmitCreateFails, SetPhase, DeletePods
    <3> QED
      BY <3>1
  <2> QED
    BY <2>1, <2>2, <2>3 DEF SubmitCreate, SubmitCreateFails, At
<1> QED
  BY <1>1, <1>2, <1>3, <1>4 DEF Next

\* A kill task comes to its status write by deleting the pods.
LEMMA WriteAfterDeletion ==
  ASSUME TypeOK, [Next]_vars, NEW t \in tasks', t.kind = "kill", t.step = "write"
  PROVE  t \in tasks \/ pods'[t.job] \notin HoldsGpu
<1>t. /\ pods \in [Jobs -> Phase]
      /\ \A u \in tasks : u \in Task /\ u.job \in Jobs
  BY DEF TypeOK, JobTableTypeOK, Task
<1>1. CASE RestStep \/ UNCHANGED vars \/ (\E j \in Jobs : PodStep(j))
             \/ \E m \in Managers : Restart(m)
  BY <1>1
     DEF RestStep, SubmitJob, RestCheck, RestWrite, AskDeleteVC, CloseDialog, DeleteVCBegin,
         DeleteVCMark, DeleteVCPurge, DeleteVCDrop, AddVCCheck, AddVCReplace, Restart, PodStep, vars
<1>2. CASE ManagerStep
  <2>1. \/ tasks' = tasks
        \/ \E m, j, kind, target : tasks' = tasks \cup {NewTask(m, j, kind, target)}
    BY <1>2
       DEF ManagerStep, PollerStep, Snapshot, BatchFails, TakeMissingVC, TakeSubmit, TakePreempt,
           TakeNothing, KillOrPause, ApproveJob, ApplyEnded, ApplyRunning, ApplyRestart,
           ApplyUnusual, ApplyPending, CheckJobStatus, Cleanup, submit_job, kill_job
  <2> QED
    BY <2>1 DEF NewTask
<1>3. ASSUME NEW u \in tasks, LauncherStep(u)
      PROVE  t \in tasks \/ pods'[t.job] \notin HoldsGpu
  <2>1. CASE KillDelete(u)
    <3>1. t \in tasks \/ t.job = u.job
      BY <2>1, <1>t DEF KillDelete, Goto, Task
    <3>2. pods'[u.job] \notin HoldsGpu
      BY <2>1, <1>t DEF KillDelete, DeletePods, SetPhase, PhaseDeleted, Mixture, HoldsGpu
    <3> QED
      BY <3>1, <3>2
  <2>2. CASE u.kind = "kill" /\ ~KillDelete(u)
    <3>1. Done(u) \/ Goto(u, "dead")
      BY <1>3, <2>2
         DEF LauncherStep, LauncherWork, KillDeleteFails, KillWrite, SubmitCheck, SubmitInvalid,
             SubmitCreate, SubmitCreateFails, SubmitWrite, SubmitFail, SubmitCleanup, WorkerDies, At
    <3> QED
      BY <3>1, <1>t DEF Done, Goto, Task
  <2>3. CASE u.kind # "kill"
    BY <1>3, <2>3, <1>t, LauncherMoves DEF Moves, Done, Goto, Task
  <2> QED
    BY <2>1, <2>2, <2>3
<1> QED
  BY <1>1, <1>2, <1>3 DEF Next

\* "killed" and "paused" are written by a kill task, or by TakeJobActions for a job
\* whose VC it did not find.
LEMMA WhoWritesStopped ==
  ASSUME TypeOK, [Next]_vars, NEW j \in Jobs,
         status'[j] # status[j], status'[j] \in {"killed", "paused"}
  PROVE  \/ \E t \in tasks : KillWrite(t) /\ t.job = j
         \/ NoVC(j)
<1>t. /\ status \in [Jobs -> Status]
      /\ \A t \in tasks : t.job \in Jobs
  BY DEF TypeOK, JobTableTypeOK, Task
<1>1. CASE RestStep
  <2>1. \/ status' = status
        \/ \E S : status' = Purged(S)
        \/ \E S, s : status' = Put(S, s) /\ s \notin {"killed", "paused"}
        \/ \E i \in Jobs : status' = [status EXCEPT ![i] = "unapproved"]
    <3>1. ASSUME NEW r \in rest, RestWrite(r)
          PROVE  \/ status' = status
                 \/ \E S, s : status' = Put(S, s) /\ s \notin {"killed", "paused"}
      <4>1. r \in Request
        BY DEF TypeOK, JobTableTypeOK
      <4> QED
        BY <3>1, <4>1 DEF RestWrite, NewStatus, Request
    <3> QED
      BY <1>1, <3>1
         DEF RestStep, SubmitJob, RestCheck, AskDeleteVC, CloseDialog, DeleteVCBegin,
             DeleteVCMark, DeleteVCPurge, DeleteVCDrop, AddVCCheck, AddVCReplace, dbVars
  <2> QED
    BY <2>1, <1>t DEF Purged, Put
<1>2. CASE UNCHANGED vars \/ (\E i \in Jobs : PodStep(i)) \/ \E m \in Managers : Restart(m)
  BY <1>2 DEF vars, PodStep, Restart, dbVars
<1>3. CASE ManagerStep
  <2>1. CASE TakeMissingVC
    BY <2>1, <1>t DEF TakeMissingVC
  <2>2. CASE ~TakeMissingVC
    <3> DEFINE Other == \/ status' = status
                        \/ \E S, s : WriteStatus(S, s) /\ s \notin {"killed", "paused"}
    <3>1. ASSUME NEW i \in Jobs, ApproveJob(i) PROVE Other
      BY <3>1 DEF ApproveJob
    <3>2. ASSUME NEW m \in Managers, ApplyEnded(m) PROVE Other
      BY <3>2 DEF ApplyEnded
    <3>3. ASSUME NEW m \in Managers, ApplyRunning(m) PROVE Other
      BY <3>3 DEF ApplyRunning
    <3>4. ASSUME NEW m \in Managers, ApplyRestart(m) PROVE Other
      BY <3>4 DEF ApplyRestart
    <3>5. Pollers \subseteq Managers
      BY DEF Pollers, Managers
    <3> HIDE DEF Other
    <3>6. status' = status => Other
      BY DEF Other
    <3>7. Other
      BY <1>3, <2>2, <3>1, <3>2, <3>3, <3>4, <3>5, <3>6
         DEF ManagerStep, PollerStep, Snapshot, BatchFails, TakeSubmit, TakePreempt,
             TakeNothing, KillOrPause, ApplyUnusual, ApplyPending, CheckJobStatus, Cleanup, dbVars
    <3> QED
      BY <3>7 DEF Other, WriteStatus, Put
  <2> QED
    BY <2>1, <2>2
<1>4. ASSUME NEW t \in tasks, LauncherStep(t) PROVE KillWrite(t) /\ t.job = j
  <2>1. KillWrite(t) \/ SubmitInvalid(t) \/ SubmitWrite(t) \/ SubmitFail(t)
    BY <1>4 DEF LauncherStep, LauncherWork, KillDelete, KillDeleteFails, SubmitCheck,
           SubmitCreate, SubmitCreateFails, SubmitCleanup, WorkerDies, dbVars
  <2> QED
    BY <2>1, <1>t DEF KillWrite, SubmitInvalid, SubmitWrite, SubmitFail, WriteStatus, Put
<1> QED
  BY <1>1, <1>2, <1>3, <1>4 DEF Next

\* A job that is being stopped is written "killed" or "paused" only when its pods are
\* gone: no submission is left that could create them again after their deletion.
THEOREM StopFreesGpuHolds == Spec => StopFreesGpu
<1>1. ASSUME TypeOK, BatchWatched, [Next]_vars, NEW j \in Jobs, NEW s \in Stops, Stopping(j, s)
      PROVE  \/ status'[j] = DesiredState(s) /\ pods'[j] \notin HoldsGpu
             \/ status'[j] \in Superseded(s)
             \/ j \in deleted'
             \/ Stopping(j, s)'
  <2>1. Settled(j, s) /\ PodsGone(j) /\ StopKept(j, s)
    BY <1>1, StepKeepsStop DEF Stopping
  <2>2. pods[j] \notin HoldsGpu => pods'[j] \notin HoldsGpu
    BY <1>1, <2>1, TakenByCreation, SettledTask
  <2>3. CASE Settled(j, s)'
    <3>1. ASSUME NEW t \in TasksOn(j)', t.step = "write" PROVE pods'[j] \notin HoldsGpu
      <4>1. t.kind = "kill"
        BY <2>3, <3>1 DEF Settled, OlderWork, OlderTask
      <4>2. t \in tasks \/ pods'[j] \notin HoldsGpu
        BY <1>1, <3>1, <4>1, WriteAfterDeletion DEF TasksOn
      <4> QED
        BY <2>1, <2>2, <3>1, <4>2 DEF PodsGone, TasksOn
    <3> QED
      BY <2>3, <3>1 DEF Stopping, PodsGone
  <2>4. CASE status'[j] = DesiredState(s)
    <3>1. status'[j] # status[j] /\ status'[j] \in {"killed", "paused"}
      BY <2>1, <2>4 DEF Settled, DesiredState, Stops
    <3>2. "queued" \in Managers
      BY DEF Managers
    <3>3. ~NoVC(j)
      BY <1>1, <2>1, <3>2, SettledHand DEF NoVC
    <3>4. PICK t \in tasks : KillWrite(t) /\ t.job = j
      BY <1>1, <3>1, <3>3, WhoWritesStopped
    <3>5. t.step = "write" /\ pods' = pods
      BY <3>4 DEF KillWrite, At
    <3> QED
      BY <2>1, <2>4, <3>4, <3>5 DEF PodsGone, TasksOn
  <2> QED
    BY <2>1, <2>3, <2>4 DEF StopKept
<1>2. TypeOK /\ BatchWatched /\ [Next]_vars
        => [\A j \in Jobs, s \in {"killing", "pausing"} : Stopping(j, s)
              => \/ status'[j] = DesiredState(s) /\ pods'[j] \notin HoldsGpu
                 \/ status'[j] \in Superseded(s)
                 \/ j \in deleted'
                 \/ Stopping(j, s)']_vars
  BY <1>1 DEF Stops
<1> QED
  BY <1>2, TypeCorrect, BatchWatchedHolds, PTL DEF Spec, StopFreesGpu

-----------------------------------------------------------------------------
(***************************************************************************)
(* A job that has ended.  Workers act on their tasks, and managers on the  *)
(* rows they have in hand: neither touches any other job.                  *)
(***************************************************************************)
Untasked(j) == TasksOn(j) = {}
Unhanded(j) == ActingOn(j) = {} /\ \A m \in Managers : batch[m][j] = NoSeen

LEMMA LauncherLeavesAlone ==
  ASSUME TypeOK, NEW j \in Jobs, Untasked(j), NEW t \in tasks, LauncherStep(t)
  PROVE  /\ status'[j] = status[j] /\ Untasked(j)'
         /\ UNCHANGED <<batch, step, cur, rest, vcAdmin>>
<1>t. t \in Task /\ status \in [Jobs -> Status]
  BY DEF TypeOK, JobTableTypeOK
<1>1. t.step # "dead" /\ UNCHANGED restVars
  BY DEF LauncherStep, LauncherWork, KillDelete, KillDeleteFails, KillWrite, SubmitCheck,
         SubmitInvalid, SubmitCreate, SubmitCreateFails, SubmitWrite, SubmitFail,
         SubmitCleanup, WorkerDies, At
<1>2. t.job # j
  BY <1>1 DEF Untasked, TasksOn
<1>3. Moves(t)
  BY LauncherMoves
<1>4. Untasked(j)'
  BY <1>t, <1>2, <1>3 DEF Moves, Done, Goto, Untasked, TasksOn, Task
<1>5. status' = status \/ \E s : WriteStatus({t.job}, s)
  BY DEF LauncherStep, LauncherWork, KillDelete, KillDeleteFails, KillWrite, SubmitCheck,
         SubmitInvalid, SubmitCreate, SubmitCreateFails, SubmitWrite, SubmitFail,
         SubmitCleanup, WorkerDies, dbVars
<1>6. status'[j] = status[j]
  BY <1>t, <1>2, <1>5 DEF WriteStatus, Put
<1> QED
  BY <1>1, <1>3, <1>4, <1>6 DEF Moves, mgrVars, restVars

LEMMA PollerLeavesAlone ==
  ASSUME TypeOK, NEW j \in Jobs, Untasked(j), Unhanded(j), NEW m \in Pollers, PollerStep(m)
  PROVE  status'[j] = status[j] /\ Untasked(j)' /\ Unhanded(j)'
<1>t. /\ status \in [Jobs -> Status]
      /\ batch \in [Managers -> [Jobs -> RowStatus \cup {NoSeen}]]
      /\ step \in [Managers -> {"loop", "plan", "apply", "cleanup"}]
      /\ DOMAIN cur = Managers /\ m \in Managers
  BY DEF TypeOK, JobTableTypeOK, Pollers, Managers
<1>1. CASE step[m] \in {"apply", "cleanup"}
  <2>1. cur[m].job # j
    BY <1>1, <1>t DEF Unhanded, ActingOn
  <2>2. ~\E i \in Jobs : CheckJobStatus(m, i)
    BY <1>1 DEF CheckJobStatus, Processing
  <2>3. status'[j] = status[j]
    BY <1>t, <2>1, <2>2
       DEF PollerStep, ApplyEnded, Cleanup, ApplyRunning, ApplyRestart, ApplyUnusual,
           ApplyPending, WriteStatus, Put, dbVars
  <2>4. \/ UNCHANGED tasks
        \/ \E x : tasks' = tasks \cup {kill_job(m, cur[m].job, x)}
    BY <2>2 DEF PollerStep, ApplyEnded, Cleanup, ApplyRunning, ApplyRestart, ApplyUnusual,
                ApplyPending
  <2>5. Untasked(j)'
    BY <2>1, <2>4 DEF Untasked, TasksOn, kill_job, NewTask
  <2>6. NextJob(m) \/ ThenCleanup(m)
    BY <2>2 DEF PollerStep, ApplyEnded, Cleanup, ApplyRunning, ApplyRestart, ApplyUnusual,
                ApplyPending
  <2>7. ActingOn(j)' \subseteq ActingOn(j)
    BY <1>t, <1>1, <2>6 DEF NextJob, ThenCleanup, ActingOn, NoCur
  <2>8. \A n \in Managers : batch'[n][j] = NoSeen \/ batch'[n][j] = batch[n][j]
    BY <1>t, <2>2 DEF PollerStep, ApplyEnded, Cleanup, ApplyRunning, ApplyRestart,
                      ApplyUnusual, ApplyPending, NoBatch
  <2> QED
    BY <2>3, <2>5, <2>7, <2>8 DEF Unhanded
<1>2. ASSUME NEW i \in Jobs, CheckJobStatus(m, i)
      PROVE  status'[j] = status[j] /\ Untasked(j)' /\ Unhanded(j)'
  <2>1. i # j
    BY <1>2, <1>t DEF CheckJobStatus, Processing, Unhanded
  <2>2. UNCHANGED <<status, tasks>>
    BY <1>2 DEF CheckJobStatus, dbVars
  <2>3. PICK o : cur' = [cur EXCEPT ![m] = [job |-> i, seen |-> batch[m][i], obs |-> o]]
    BY <1>2 DEF CheckJobStatus
  <2>4. step' = [step EXCEPT ![m] = "apply"]
    BY <1>2 DEF CheckJobStatus
  <2>5. ActingOn(j)' \subseteq ActingOn(j)
    BY <1>t, <2>1, <2>3, <2>4 DEF ActingOn
  <2>6. \A n \in Managers : batch'[n][j] = NoSeen \/ batch'[n][j] = batch[n][j]
    BY <1>2, <1>t DEF CheckJobStatus, Forget
  <2> QED
    BY <2>2, <2>5, <2>6 DEF Untasked, TasksOn, Unhanded
<1>3. PollerStep(m) =>
        step[m] \in {"apply", "cleanup"} \/ \E i \in Jobs : CheckJobStatus(m, i)
  BY DEF PollerStep, ApplyEnded, Cleanup, ApplyRunning, ApplyRestart, ApplyUnusual,
         ApplyPending, Applying
<1> QED
  BY <1>1, <1>2, <1>3

\* A manager takes up a job it has not in hand only by reading its row in a status it
\* selects.
LEMMA ManagerLeavesAlone ==
  ASSUME TypeOK, NEW j \in Jobs, Untasked(j), Unhanded(j), ManagerStep,
         \A m \in Managers : status[j] \notin Watched(m)
  PROVE  /\ status'[j] = status[j] /\ Untasked(j)' /\ Unhanded(j)'
         /\ UNCHANGED <<rest, vcAdmin>>
<1>t. /\ status \in [Jobs -> Status]
      /\ batch \in [Managers -> [Jobs -> RowStatus \cup {NoSeen}]]
      /\ step \in [Managers -> {"loop", "plan", "apply", "cleanup"}]
      /\ DOMAIN cur = Managers
      /\ "queued" \in Managers /\ "killing" \in Managers
  BY DEF TypeOK, JobTableTypeOK, Managers
<1>u. UNCHANGED <<rest, vcAdmin>>
  BY DEF ManagerStep, PollerStep, Snapshot, BatchFails, TakeMissingVC, TakeSubmit, TakePreempt,
         TakeNothing, KillOrPause, ApproveJob, ApplyEnded, ApplyRunning, ApplyRestart,
         ApplyUnusual, ApplyPending, CheckJobStatus, Cleanup, restVars
<1> DEFINE Alone == status'[j] = status[j] /\ Untasked(j)' /\ Unhanded(j)'
<1>1. ASSUME NEW m \in Managers, Snapshot(m) PROVE Alone
  <2> DEFINE rows == {k \in Jobs \ deleted : status[k] \in Watched(m)}
             read == [k \in Jobs |-> IF k \in rows THEN status[k] ELSE NoSeen]
  <2>1. UNCHANGED <<status, tasks, cur>> /\ batch' = [batch EXCEPT ![m] = read]
    BY <1>1 DEF Snapshot, dbVars
  <2>2. read[j] = NoSeen
    OBVIOUS
  <2>3. ActingOn(j)' \subseteq ActingOn(j)
    BY <1>1, <1>t, <2>1 DEF Snapshot, ActingOn
  <2>4. \A n \in Managers : batch'[n][j] = NoSeen \/ batch'[n][j] = batch[n][j]
    BY <1>t, <2>1, <2>2
  <2> QED
    BY <2>1, <2>3, <2>4 DEF Untasked, TasksOn, Unhanded
<1>2. ASSUME NEW m \in Managers, BatchFails(m) PROVE Alone
  <2>1. UNCHANGED <<status, tasks>>
    BY <1>2 DEF BatchFails, dbVars
  <2>2. \A n \in Managers : batch'[n][j] = NoSeen \/ batch'[n][j] = batch[n][j]
    BY <1>2, <1>t DEF BatchFails, NoBatch
  <2>3. ActingOn(j)' \subseteq ActingOn(j)
    BY <1>2, <1>t DEF BatchFails, NextJob, ActingOn
  <2> QED
    BY <2>1, <2>2, <2>3 DEF Untasked, TasksOn, Unhanded
<1>3. CASE TakeMissingVC
  <2>1. ~NoVC(j)
    BY <1>t DEF NoVC, Unhanded
  <2>2. status'[j] = status[j]
    BY <1>3, <1>t, <2>1 DEF TakeMissingVC
  <2>3. UNCHANGED <<tasks, cur>>
    BY <1>3 DEF TakeMissingVC
  <2>4. \A n \in Managers : batch'[n][j] = NoSeen \/ batch'[n][j] = batch[n][j]
    BY <1>3, <1>t DEF TakeMissingVC
  <2>5. ActingOn(j)' \subseteq ActingOn(j)
    BY <1>3, <1>t, <2>3 DEF TakeMissingVC, ActingOn
  <2> QED
    BY <1>u, <2>2, <2>3, <2>4, <2>5 DEF Untasked, TasksOn, Unhanded
<1>4. ASSUME NEW i \in Jobs,
             TakeSubmit(i) \/ TakePreempt(i) \/ TakeNothing(i) \/ KillOrPause(i) \/ ApproveJob(i)
      PROVE  Alone
  <2>1. /\ UNCHANGED <<step, cur>>
        /\ \E m \in Managers : Processing(m, i) /\ Forget(m, i)
        /\ \/ tasks' = tasks
           \/ \E m, kind, target : tasks' = tasks \cup {NewTask(m, i, kind, target)}
        /\ status' = status \/ \E s : WriteStatus({i}, s)
    BY <1>4, <1>t
       DEF TakeSubmit, TakePreempt, TakeNothing, KillOrPause, ApproveJob, dbVars, submit_job,
           kill_job
  <2>2. i # j
    BY <2>1 DEF Processing, Unhanded
  <2>3. status'[j] = status[j]
    BY <1>t, <2>1, <2>2 DEF WriteStatus, Put
  <2>4. Untasked(j)'
    BY <2>1, <2>2 DEF Untasked, TasksOn, NewTask
  <2>5. \A n \in Managers : batch'[n][j] = NoSeen \/ batch'[n][j] = batch[n][j]
    BY <2>1, <1>t DEF Forget
  <2>6. ActingOn(j)' = ActingOn(j)
    BY <2>1 DEF ActingOn
  <2> QED
    BY <2>3, <2>4, <2>5, <2>6 DEF Unhanded
<1>5. Alone
  BY <1>1, <1>2, <1>3, <1>4, PollerLeavesAlone DEF ManagerStep
<1> QED
  BY <1>5, <1>u

\* What EndLostOnlyToFamily allows a step to do to the status of a job that has ended.
EndKept(j) ==
  \/ EndSettled(j)' /\ status'[j] = status[j]
  \/ status'[j] = "purged"
  \/ /\ status'[j] = "killing"
     /\ \E r \in rest : r.op = "kill" /\ r.job # j /\ j \in Family[r.job]

\* The requests a job that has ended accepts are deletions of its row.
LEMMA RestKeepsEnd ==
  ASSUME TypeOK, NEW j \in Jobs, EndSettled(j), RestStep
  PROVE  EndKept(j)
<1> USE DEF dbVars, mgrVars, restVars
<1>s. /\ status[j] \in Terminal /\ HasRow(j) /\ j \notin vcAdmin.listed
      /\ \A r \in rest : r.job = j => r.op = "delete"
      /\ status \in [Jobs -> Status]
      /\ vcAdmin \in [pc : {"idle", "dialog", "mark", "purge", "drop", "replace"},
                       vc : VCs \cup {"none"}, listed : SUBSET Jobs]
  BY DEF EndSettled, HasRow, NoRow, Terminal, TypeOK, JobTableTypeOK
<1>k. ASSUME status'[j] = status[j], j \notin vcAdmin'.listed,
             \A r \in rest' : r.job = j => r.op = "delete"
      PROVE  EndKept(j)
  <2>1. UNCHANGED <<batch, step, cur, tasks>>
    BY DEF RestStep, SubmitJob, RestCheck, RestWrite, AskDeleteVC, CloseDialog, DeleteVCBegin,
           DeleteVCMark, DeleteVCPurge, DeleteVCDrop, AddVCCheck, AddVCReplace
  <2> QED
    BY <1>k, <2>1 DEF EndKept, EndSettled, TasksOn, ActingOn
<1>1. ASSUME NEW i \in Jobs, SubmitJob(i) PROVE EndKept(j)
  <2>1. i # j
    BY <1>1, <1>s DEF SubmitJob, Terminal
  <2> QED
    BY <1>1, <1>s, <1>k, <2>1 DEF SubmitJob
<1>2. ASSUME NEW r \in Request, RestCheck(r) PROVE EndKept(j)
  <2>1. /\ UNCHANGED <<status, vcAdmin>>
        /\ rest' = rest \cup {r} /\ status[r.job] \in Accepts(r.op)
    BY <1>2 DEF RestCheck
  <2>2. r.job = j => r.op = "delete"
    BY <1>s, <2>1 DEF Accepts, Request, Terminal, Pending
  <2> QED
    BY <1>k, <1>s, <2>1, <2>2
<1>3. ASSUME NEW r \in rest, RestWrite(r) PROVE EndKept(j)
  <2>1. rest' = rest \ {r} /\ UNCHANGED vcAdmin
    BY <1>3 DEF RestWrite
  <2>2. CASE status'[j] = status[j]
    BY <1>k, <1>s, <2>1, <2>2
  <2>3. CASE status'[j] # status[j]
    <3>1. r.op # "delete" /\ j \in Target(r) /\ status'[j] = NewStatus(r.op)
      BY <1>3, <1>s, <2>3 DEF RestWrite, Put
    <3>2. r.job # j
      BY <1>s, <3>1
    <3>3. r.op = "kill" /\ j \in Family[r.job]
      BY <3>1, <3>2 DEF Target
    <3> QED
      BY <3>1, <3>2, <3>3 DEF EndKept, NewStatus
  <2> QED
    BY <2>2, <2>3
<1>4. ASSUME NEW v \in VCs, AskDeleteVC(v) \/ DeleteVCBegin(v) \/ AddVCCheck(v)
      PROVE EndKept(j)
  <2>1. UNCHANGED <<status, rest>> /\ j \notin vcAdmin'.listed
    BY <1>4, <1>s DEF AskDeleteVC, DeleteVCBegin, AddVCCheck, Terminal
  <2> QED
    BY <1>k, <1>s, <2>1
<1>5. CASE CloseDialog \/ DeleteVCDrop
  <2>1. UNCHANGED <<status, rest>> /\ j \notin vcAdmin'.listed
    BY <1>5 DEF CloseDialog, DeleteVCDrop, NoAdmin
  <2> QED
    BY <1>k, <1>s, <2>1
<1>6. CASE DeleteVCMark
  <2>1. UNCHANGED rest /\ status'[j] = status[j] /\ j \notin vcAdmin'.listed
    BY <1>6, <1>s DEF DeleteVCMark, Put
  <2> QED
    BY <1>k, <1>s, <2>1
<1>7. CASE DeleteVCPurge \/ AddVCReplace
  <2>1. UNCHANGED rest /\ j \notin vcAdmin'.listed
    BY <1>7, <1>s DEF DeleteVCPurge, AddVCReplace, NoAdmin
  <2>2. status'[j] = status[j] \/ status'[j] = "purged"
    BY <1>7, <1>s DEF DeleteVCPurge, AddVCReplace, Purged
  <2> QED
    BY <1>k, <1>s, <2>1, <2>2 DEF EndKept
<1> QED
  BY <1>1, <1>2, <1>3, <1>4, <1>5, <1>6, <1>7 DEF RestStep

\* No step of the system brings back a job that has ended, but for the kill of a parent.
LEMMA StepKeepsEnd ==
  ASSUME TypeOK, [Next]_vars, NEW j \in Jobs, EndSettled(j)
  PROVE  EndKept(j)
<1>s. /\ Untasked(j) /\ Unhanded(j)
      /\ \A m \in Managers : status[j] \notin Watched(m)
  BY DEF EndSettled, Untasked, Unhanded, Terminal, Watched, Managers
<1>k. ASSUME status'[j] = status[j], Untasked(j)', Unhanded(j)', UNCHANGED <<rest, vcAdmin>>
      PROVE  EndKept(j)
  BY <1>k DEF EndKept, EndSettled, Untasked, Unhanded
<1>1. ASSUME NEW i \in Jobs, PodStep(i) PROVE EndKept(j)
  <2>1. UNCHANGED <<status, tasks, batch, step, cur, rest, vcAdmin>>
    BY <1>1 DEF PodStep, dbVars, mgrVars, restVars
  <2> QED
    BY <1>k, <1>s, <2>1 DEF Untasked, Unhanded, TasksOn, ActingOn
<1>2. ASSUME NEW m \in Managers, Restart(m) PROVE EndKept(j)
  <2>1. UNCHANGED <<status, rest, vcAdmin>> /\ tasks' \subseteq tasks
    BY <1>2 DEF Restart, dbVars, restVars
  <2>2. \A n \in Managers : batch'[n][j] = NoSeen \/ batch'[n][j] = batch[n][j]
    BY <1>2 DEF Restart, NoBatch, TypeOK, JobTableTypeOK
  <2>3. ActingOn(j)' \subseteq ActingOn(j)
    BY <1>2 DEF Restart, ActingOn, TypeOK, JobTableTypeOK
  <2> QED
    BY <1>k, <1>s, <2>1, <2>2, <2>3 DEF Untasked, Unhanded, TasksOn
<1>3. CASE UNCHANGED vars
  BY <1>k, <1>s, <1>3 DEF vars, Untasked, Unhanded, TasksOn, ActingOn
<1>4. ASSUME NEW t \in tasks, LauncherStep(t) PROVE EndKept(j)
  <2>1. /\ status'[j] = status[j] /\ Untasked(j)'
        /\ UNCHANGED <<batch, step, cur, rest, vcAdmin>>
    BY <1>4, <1>s, LauncherLeavesAlone
  <2> QED
    BY <1>k, <1>s, <2>1 DEF Unhanded, ActingOn
<1>5. CASE ManagerStep
  BY <1>k, <1>s, <1>5, ManagerLeavesAlone
<1> QED
  BY <1>1, <1>2, <1>3, <1>4, <1>5, RestKeepsEnd DEF Next

\* A job that has ended, with nothing under way for it, stays as it ended and takes no
\* devices again, whatever happened to it before; only the removal of its VC and a kill
\* of the parent of its family change its row.
THEOREM EndLostOnlyToFamilyHolds == Spec => EndLostOnlyToFamily
<1>1. ASSUME TypeOK, [Next]_vars, NEW j \in Jobs, EndSettled(j)
      PROVE  /\ EndKept(j)
             /\ pods'[j] \in HoldsGpu => pods[j] \in HoldsGpu
  <2>1. EndKept(j)
    BY <1>1, StepKeepsEnd
  <2>2. ~\E t \in tasks : t.job = j /\ t.kind = "submit" /\ t.step = "create"
    BY <1>1 DEF EndSettled, TasksOn
  <2> QED
    BY <1>1, <2>1, <2>2, TakenByCreation
<1>2. TypeOK /\ [Next]_vars
        => [\A j \in Jobs : EndSettled(j)
              => \/ /\ EndSettled(j)' /\ status'[j] = status[j]
                    /\ pods'[j] \in HoldsGpu => pods[j] \in HoldsGpu
                 \/ status'[j] = "purged"
                 \/ /\ status'[j] = "killing"
                    /\ \E r \in rest : r.op = "kill" /\ r.job # j /\ j \in Family[r.job]]_vars
  BY <1>1 DEF EndKept
<1> QED
  BY <1>2, TypeCorrect, PTL DEF Spec, EndLostOnlyToFamily
=============================================================================
