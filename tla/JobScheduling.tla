---------------------------- MODULE JobScheduling ---------------------------
(***************************************************************************)
(* Admission and preemption: the rounds of the --status queued job_manager *)
(* (TakeJobActions), which divides what node_manager last reported of the  *)
(* cluster among the VCs and decides which jobs hold devices.  A round     *)
(* reads the jobs, then the cluster status and the active jobs, and then   *)
(* hands its decisions to launcher workers: jobs end, nodes come and go    *)
(* and administrators change quotas at each point in between.              *)
(*                                                                         *)
(* What happens to one job in detail is JobSystem; here a job is a request *)
(* for devices, and statuses are not overwritten by stale pollers.         *)
(***************************************************************************)
EXTENDS VCQuota

CONSTANTS
  Jobs,         \* numbers, in the order of submission (jobTime)
  Workloads,    \* [Jobs -> Request]: what the jobs ask for
  Users,
  Quotas,       \* the divisions of the cluster an administrator may choose
  UserQuota,    \* [VCs -> [Types -> Nat]] user_quota of a VC (9999: none)
  Nodes,        \* [node -> [type, capacity]]
  MaxEvents     \* bound: changes of quotas and nodes, failures and restarts

\* adjust_job_priority: what an administrator may choose; users have less choice.
Priorities == 1..1000

ASSUME JobsAssumption == Jobs \subseteq 0..99
ASSUME WorkloadsAssumption ==
  Workloads \subseteq [Jobs -> [vc : VCs, type : Types, size : Nat, user : Users,
                                preempt : BOOLEAN, priority : Priorities]]
ASSUME QuotasAssumption == Quotas \subseteq [VCs -> [Types -> Nat]]
ASSUME UserQuotaAssumption == UserQuota \in [VCs -> [Types -> Nat]]
ASSUME NodesAssumption ==
  /\ IsFiniteSet(DOMAIN Nodes)
  /\ \A n \in DOMAIN Nodes : Nodes[n].type \in Types /\ Nodes[n].capacity \in Nat
ASSUME EventsAssumption == MaxEvents \in Nat

VARIABLES
  job,       \* the workload
  status,    \* [Jobs -> ...]        jobs.jobStatus; "ended" is any terminal one
  pod,       \* [Jobs -> node | "waiting" | "none"] where Kubernetes has its pod
  quota,     \* the quota column of the VC table
  up,        \* nodes that are Ready and not cordoned
  report,    \* the clusterstatus row written by node_manager
  batch,     \* [Jobs -> status] the jobs TakeJobActions has read; "none" otherwise
  tasks,     \* launcher tasks: [job, kind, orphan]
  events,    \* Nat                 events so far (bounded)
  excused    \* history: VCs whose use is not bounded by the quota any more

Active == {"scheduling", "running"}
NoBatch == [j \in Jobs |-> "none"]

envVars == <<job, up>>
vars == <<job, status, pod, quota, up, report, batch, tasks, events, excused>>

Sizes(S) == Total(LAMBDA j : job[j].size, S)
Of(S, v, t) == {j \in S : job[j].vc = v /\ job[j].type = t}

Event == events < MaxEvents /\ events' = events + 1

ActiveJobs == {j \in Jobs : status[j] \in Active}

-----------------------------------------------------------------------------
(***************************************************************************)
(* node_manager: get_cluster_status.  A pod that no node runs yet is not   *)
(* counted; neither are the devices of nodes that are down.  When          *)
(* Kubernetes cannot be asked, the status is written without the counts.   *)
(***************************************************************************)
NoReport == [total |-> <<>>]

NodesOf(t) == {n \in DOMAIN Nodes : Nodes[n].type = t}
UsedOn(n) == Sizes({j \in Jobs : pod[j] = n})

\* (Never negative: Kubernetes does not overfill a node.)
FreeOn(n) == Nodes[n].capacity - UsedOn(n)

Counts ==
  [total    |-> [t \in Types |-> Total(LAMBDA n : Nodes[n].capacity, NodesOf(t))],
   free     |-> [t \in Types |-> Total(FreeOn, NodesOf(t) \cap up)],
   reserved |-> [t \in Types |-> Total(FreeOn, NodesOf(t) \ up)]]

Report ==
  /\ \/ report' = Counts /\ UNCHANGED events
     \/ report' = NoReport /\ Event
  /\ UNCHANGED <<job, status, pod, quota, up, batch, tasks, excused>>

-----------------------------------------------------------------------------
(***************************************************************************)
(* TakeJobActions.                                                         *)
(***************************************************************************)
Calculation(active) ==
  [quota    |-> quota,
   used     |-> [v \in VCs |-> [t \in Types |-> Sizes(Of(active, v, t))]],
   total    |-> report.total,
   reserved |-> report.reserved,
   free     |-> report.free]

\* (Mutant: a queued job goes before those that run.)
RankQueuedFirst(s) == CASE s = "queued" -> 0 [] s = "running" -> 1 [] s = "scheduling" -> 2

\* sortKey: non-preemptible first; then running, scheduling, queued; then by
\* priority; then by time of submission.
Rank(s) == CASE s = "running" -> 0 [] s = "scheduling" -> 1 [] s = "queued" -> 2

\* (Mutant: a smaller priority value goes first.)
SortKeyReversed(j) ==
  (((IF job[j].preempt THEN 3 ELSE 0) + Rank(batch[j])) * 1000000 + job[j].priority) * 100 + j

SortKey(j) ==
  (((IF job[j].preempt THEN 3 ELSE 0) + Rank(batch[j])) * 1000000
     + (999999 - job[j].priority)) * 100 + j

Batch == {j \in Jobs : batch[j] # "none"}

\* (Mutant: the second pass starts from the resources the first one started from.)
EarlierInPass(j) ==
  {i \in Batch : SortKey(i) < SortKey(j) /\ job[i].preempt = job[j].preempt}

Earlier(j) == {i \in Batch : SortKey(i) < SortKey(j)}

\* Passes 1 and 2 go through the jobs in the order of the sort keys, so that the
\* non-preemptible ones come first, and subtract what each allowed job takes from
\* its VC and, in pass 1, from its user: a job is allowed if it fits with the
\* allowed ones before it.
AllowedIn(left) ==
  LET fits[j \in Batch] ==
        LET with  == Of({i \in Earlier(j) : fits[i]} \cup {j}, job[j].vc, job[j].type)
            users == {i \in with : job[i].user = job[j].user}
        IN /\ Sizes(with) <= left[job[j].vc][job[j].type]
           /\ job[j].preempt \/ Sizes(users) <= UserQuota[job[j].vc][job[j].type]
  IN {j \in Batch : fits[j]}

Allowed(active) == AllowedIn(Schedulable(Calculation(active)))

\* (Mutant: the rows are not selected by their status.)
ReadJobsAll ==
  /\ batch = NoBatch
  /\ \A k \in tasks : k.orphan
  /\ \E j \in Jobs : status[j] \in Active \cup {"queued"}
  /\ batch' = status
  /\ UNCHANGED <<job, status, pod, quota, up, report, tasks, events, excused>>

\* Run: wait_tasks_done, then GetJobList.
ReadJobs ==
  /\ batch = NoBatch
  /\ \A k \in tasks : k.orphan
  /\ \E j \in Jobs : status[j] \in Active \cup {"queued"}
  /\ batch' = [j \in Jobs |->
                 IF status[j] \in Active \cup {"queued"} THEN status[j] ELSE "none"]
  /\ UNCHANGED <<job, status, pod, quota, up, report, tasks, events, excused>>

Task(j, kind) == [job |-> j, kind |-> kind, orphan |-> FALSE]

\* Pass 3.
Submitted(allowed) == {j \in allowed : batch[j] = "queued"}
Preempted(allowed) == {j \in Jobs \ allowed : batch[j] \in Active /\ job[j].preempt}

\* Active jobs that are not allowed, and go on: nothing is subtracted for them.
PassedOver(allowed) == {j \in ActiveJobs \ allowed : ~job[j].preempt}

\* GetActiveJobList answers with an empty list when its SELECT fails.
Decide ==
  /\ batch # NoBatch
  /\ report # NoReport
  /\ \E active \in {ActiveJobs, {}} :
       /\ IF active = ActiveJobs THEN UNCHANGED events ELSE Event
       /\ \E allowed \in {Allowed(active)} :
            /\ tasks' = tasks \cup {Task(j, "submit") : j \in Submitted(allowed)}
                             \cup {Task(j, "kill") : j \in Preempted(allowed)}
            /\ excused' = excused \cup {job[j].vc : j \in PassedOver(allowed)}
  /\ batch' = NoBatch
  /\ UNCHANGED <<job, status, pod, quota, up, report>>

\* The counts are missing: KeyError, and the batch is dropped.
DecideFails ==
  /\ batch # NoBatch
  /\ report = NoReport
  /\ batch' = NoBatch
  /\ UNCHANGED <<job, status, pod, quota, up, report, tasks, events, excused>>

-----------------------------------------------------------------------------
(***************************************************************************)
(* The launcher.  Pods of an earlier attempt are removed first and the job *)
(* stays "queued".  The writes do not look at what the status is by then.  *)
(***************************************************************************)
Submit(k) ==
  /\ k.kind = "submit"
  /\ IF pod[k.job] = "none"
       THEN /\ pod' = [pod EXCEPT ![k.job] = "waiting"]
            /\ status' = [status EXCEPT ![k.job] = "scheduling"]
       ELSE /\ pod' = [pod EXCEPT ![k.job] = "none"]
            /\ UNCHANGED status
  /\ tasks' = tasks \ {k}
  /\ UNCHANGED <<envVars, quota, report, batch, events, excused>>

Preempt(k) ==
  /\ k.kind = "kill"
  /\ pod' = [pod EXCEPT ![k.job] = "none"]
  /\ status' = [status EXCEPT ![k.job] = "queued"]
  /\ tasks' = tasks \ {k}
  /\ UNCHANGED <<envVars, quota, report, batch, events, excused>>

\* The task fails and the status stays as it is.
TaskFails(k) ==
  /\ Event
  /\ tasks' = tasks \ {k}
  /\ excused' = IF k.kind = "kill" THEN excused \cup {job[k.job].vc} ELSE excused
  /\ UNCHANGED <<envVars, status, pod, quota, report, batch>>

\* The manager is killed and restarted; its workers go on.
Restart ==
  /\ Event
  /\ \E alive \in SUBSET tasks : tasks' = {[k EXCEPT !.orphan = TRUE] : k \in alive}
  /\ excused' = excused \cup {job[k.job].vc : k \in tasks}
  /\ batch' = NoBatch
  /\ UNCHANGED <<envVars, status, pod, quota, report>>

-----------------------------------------------------------------------------
(* Users, administrators, Kubernetes and the other managers.               *)

Arrive(j) ==
  /\ status[j] = "new"
  /\ \A i \in Jobs : i < j => status[i] # "new"
  /\ status' = [status EXCEPT ![j] = "queued"]
  /\ UNCHANGED <<envVars, pod, quota, report, batch, tasks, events, excused>>

\* Kubernetes finds a node with room for the pod, and --status scheduling sees it run.
Start(j, n) ==
  /\ status[j] = "scheduling" /\ pod[j] = "waiting"
  /\ n \in up /\ Nodes[n].type = job[j].type
  /\ job[j].size <= FreeOn(n)
  /\ pod' = [pod EXCEPT ![j] = n]
  /\ status' = [status EXCEPT ![j] = "running"]
  /\ UNCHANGED <<envVars, quota, report, batch, tasks, events, excused>>

\* The job finishes or is killed, and later its pods are gone.
End(j) ==
  /\ status[j] \in Active \cup {"queued"}
  /\ status' = [status EXCEPT ![j] = "ended"]
  /\ UNCHANGED <<envVars, pod, quota, report, batch, tasks, events, excused>>

Release(j) ==
  /\ status[j] = "ended"
  /\ pod[j] # "none"
  /\ pod' = [pod EXCEPT ![j] = "none"]
  /\ UNCHANGED <<envVars, status, quota, report, batch, tasks, events, excused>>

\* UpdateVC does not look at the jobs of the VC.
UpdateVC(q) ==
  /\ Event
  /\ q # quota
  /\ quota' = q
  /\ excused' = excused \cup {v \in VCs : \E t \in Types : q[v][t] < quota[v][t]}
  /\ UNCHANGED <<envVars, status, pod, report, batch, tasks>>

NodeChange(n) ==
  /\ Event
  /\ up' = IF n \in up THEN up \ {n} ELSE up \cup {n}
  /\ UNCHANGED <<job, status, pod, quota, report, batch, tasks, excused>>

Init ==
  /\ job \in Workloads
  /\ status = [j \in Jobs |-> "new"]
  /\ pod = [j \in Jobs |-> "none"]
  /\ quota \in Quotas
  /\ up = DOMAIN Nodes
  /\ report = Counts
  /\ batch = NoBatch
  /\ tasks = {}
  /\ events = 0
  /\ excused = {}

Next ==
  \/ Report \/ ReadJobs \/ Decide \/ DecideFails \/ Restart
  \/ \E k \in tasks : Submit(k) \/ Preempt(k) \/ TaskFails(k)
  \/ \E j \in Jobs : \/ Arrive(j) \/ End(j) \/ Release(j)
                     \/ \E n \in DOMAIN Nodes : Start(j, n)
  \/ \E q \in Quotas : UpdateVC(q)
  \/ \E n \in DOMAIN Nodes : NodeChange(n)

Spec == Init /\ [][Next]_vars

-----------------------------------------------------------------------------
TypeOK ==
  /\ job \in Workloads
  /\ status \in [Jobs -> {"new", "queued", "ended"} \cup Active]
  /\ pod \in [Jobs -> DOMAIN Nodes \cup {"waiting", "none"}]
  /\ quota \in Quotas
  /\ up \subseteq DOMAIN Nodes
  /\ batch \in [Jobs -> {"none", "queued"} \cup Active]
  /\ tasks \subseteq [job : Jobs, kind : {"submit", "kill"}, orphan : BOOLEAN]
  /\ events \in Nat
  /\ excused \subseteq VCs

(***************************************************************************)
(* The jobs of a VC stay within its quota, and the non-preemptible jobs of *)
(* a user within the user's, although every round decides on an old report *)
(* of the cluster and jobs end and are resubmitted meanwhile.  Excused are *)
(* VCs whose quota was lowered, whose preempted job could not be killed,   *)
(* that had launcher tasks when the manager was restarted, or of which a   *)
(* round passed over an active job: what that job holds is given again.    *)
(* Jobs about to be preempted do not count.                                *)
(***************************************************************************)
Leaving == {k.job : k \in {k \in tasks : k.kind = "kill"}}
Coming == {k.job : k \in {k \in tasks : k.kind = "submit"}}
Holding == (ActiveJobs \ Leaving) \cup Coming

QuotaKept ==
  \A v \in VCs \ excused, t \in Types :
    /\ Sizes(Of(Holding, v, t)) <= quota[v][t]
    /\ \A u \in Users :
         Sizes({j \in Of(Holding, v, t) : ~job[j].preempt /\ job[j].user = u})
           <= UserQuota[v][t]

\* A step that is a Decide in which no SELECT fails.
Decides == batch # NoBatch /\ batch' = NoBatch /\ report # NoReport /\ UNCHANGED events

\* However the quotas and the report disagree, what a round allows in all VCs
\* together is no more than what the active jobs hold plus what was reported free.
AllowedWithinReport ==
  [][Decides =>
       \A allowed \in {Allowed(ActiveJobs)}, t \in Types :
         Sizes({j \in allowed : job[j].type = t})
           <= Sizes({j \in ActiveJobs : job[j].type = t}) + report.free[t]]_vars

(***************************************************************************)
(* A quota that was lowered under running jobs is kept again from the next *)
(* round on that neither passes over a job of the VC nor finds one started *)
(* since it read the jobs, or a task left by a manager that was restarted: *)
(* whatever is active then was allowed again, or is being preempted.       *)
(***************************************************************************)
Settled(v, allowed) ==
  /\ \A k \in tasks : job[k.job].vc # v
  /\ \A j \in ActiveJobs : job[j].vc = v => j \in allowed \cup Preempted(allowed)

LoweredQuotaKept ==
  [][Decides =>
       \A allowed \in {Allowed(ActiveJobs)}, v \in VCs, t \in Types :
         Settled(v, allowed) => Sizes(Of(Holding', v, t)) <= quota[v][t]]_vars

(***************************************************************************)
(* A job is preempted only to make room for a non-preemptible job of its   *)
(* VC: one the round submits, or one that had ended when the round counted *)
(* the devices in use (that job is in the batch, and no longer active).    *)
(* Rounds do not preempt each other's preemptible jobs in turns.           *)
(***************************************************************************)
PreemptedToMakeRoom ==
  [][Decides =>
       \A allowed \in {Allowed(ActiveJobs)} :
       LET Needs(i, j) == /\ job[i].vc = job[j].vc /\ job[i].type = job[j].type
                          /\ \/ i \in Submitted(allowed) /\ ~job[i].preempt
                             \/ batch[i] \in Active /\ i \notin ActiveJobs
       IN \A j \in Preempted(allowed) :
            job[j].vc \in excused \/ \E i \in Jobs : Needs(i, j)]_vars

(***************************************************************************)
(* An active non-preemptible job is passed over only because another such  *)
(* job of its VC was active when the round read the jobs, and was no more  *)
(* when it counted the devices in use.                                     *)
(***************************************************************************)
PassedOverForEnded ==
  [][Decides =>
       \A allowed \in {Allowed(ActiveJobs)} : \A j \in PassedOver(allowed) :
         \/ job[j].vc \in excused
         \/ \E i \in Batch \ ActiveJobs :
              /\ batch[i] \in Active /\ ~job[i].preempt
              /\ job[i].vc = job[j].vc /\ job[i].type = job[j].type]_vars

\* Among queued jobs of one user, VC and kind of device, a job is not passed by
\* one of lower priority, or of the same and submitted later, that needs as much.
Rivals(i, j) ==
  /\ batch[i] = "queued" /\ batch[j] = "queued"
  /\ [job[i] EXCEPT !.size = 0, !.priority = 0] = [job[j] EXCEPT !.size = 0, !.priority = 0]
  /\ job[i].size <= job[j].size
  /\ \/ job[i].priority > job[j].priority
     \/ job[i].priority = job[j].priority /\ i < j

NotOvertaken ==
  [][Decides =>
       \A allowed \in {Allowed(ActiveJobs)} : \A i \in Jobs, j \in allowed : Rivals(i, j) => i \in allowed]_vars
=============================================================================
