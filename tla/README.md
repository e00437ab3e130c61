# A verification of the Apulis AI platform's job path, services and dashboard

The Apulis AI platform (a fork of Microsoft's DLWorkspace) runs training jobs of many users on
a Kubernetes cluster whose devices are divided among *virtual clusters* (VCs).  This directory
holds TLA+ models of the processes that decide what happens to a job, the TLC runs that check
them on small instances, and TLAPS proofs of the properties that matter most.  Paths below are
those of `PROJECT.json`, which maps every definition to the lines it models.

## 1. The system

All state that the backend processes share is in a MySQL database, in Kubernetes and in a few
files.  No process sends another one a message: each polls rows of the database, asks Kubernetes,
and writes rows back.  Users see all this through pages that poll the REST API.

| part | state it keeps | operations | hard behaviour |
|---|---|---|---|
| REST API (`RestAPI/dlwsrestapi.py`, `utils/JobRestAPIUtils.py`) | none of its own but caches; rows of `jobs`, `vc`, `templates`, `commands` | SubmitJob, KillJob, PauseJob, ResumeJob, ApproveJob, DeleteJob; AddVC, UpdateVC, DeleteVC; endpoints, commands, priorities | each operation reads a row, checks its status, and then updates the row *unconditionally* |
| data handler (`utils/MySQLNewPoolDataHandler.py`) | the tables | one statement, one connection, one commit per method | errors are logged and swallowed; updates go by `jobId` alone; endpoints are rewritten as one document |
| job managers (`ClusterManager/job_manager.py`), four processes | a batch of rows; `UnusualJobs` | *killing,pausing,unapproved*: kill, pause, ApproveJob; *queued*: TakeJobActions; *scheduling* and *running*: UpdateJobStatus | decisions on rows read earlier; an exception drops the rest of a batch |
| launcher (`ClusterManager/job_launcher.py`), in each manager | a `JoinableQueue` and three worker processes | submit_job, kill_job, wait_tasks_done | workers die with a task, or outlive their manager; deletion is slow, partial or refused; retries |
| watchdog (`ClusterManager/cluster_manager.py`) | child processes and heartbeat files | starts managers, kills those with an old heartbeat | kills slow processes too; wrong file for one of them; age modulo a day |
| node manager (`ClusterManager/node_manager.py`) | the last cluster status | get_cluster_status every five seconds | reports are late, and without counts when Kubernetes fails |
| quota (`utils/quota.py`) | none | calculate_vc_gpu_counts | rounding, missing devices, several kinds of device |
| endpoint manager | `global_thread_dict`, threads | start_endpoints, cleanup_endpoints | long work on a snapshot, lost updates of the endpoints document |
| dataset conversion (`ClusterManager/dataset_convert.py`) | a row per request in `dataconvert`, the file that describes a data set | getConvertList, convert, write row, write file | killed in the middle of its work, again and again; row and file are written one after the other |
| job log, user, command managers | none | polling loops | a command is repeated for ever; a heartbeat is written once |
| dashboard (`dashboard/src`, `dashboard/server`) | what a page shows, its interval, a dialog, requests under way | poll, act on a job after a confirmation, ask for an endpoint | answers late, lost, out of order, compared with what was shown long ago; actions on outdated statuses; refusals that look like success |
| caches (`utils/cache.py`, `vc_cache`) | values and pending tasks | GetValue, Invalidate | nothing uses CacheManager |
| repair manager (`RepairManager/`) | alert cache of its one rule | ECCRule: cordon a node, send mail | the cache decides about mail only |
| storage manager (`StorageManager/`) | none | scans a tree, reports old files | a pure algorithm on trees |
| Kubernetes (external) | pods, nodes | | phases change at any time, calls fail |
| deployment, portals, dashboards, images | | | outside the job path; listed in `PROJECT.json` as not modelled |

What makes each part correct: a job is worked on by one process at a time, ends once and frees
its devices when it ends; an acknowledged kill is carried out; a VC never holds more than its
quota and a preemption always serves somebody; a job of a VC that is gone does not linger; a
manager that is stuck is restarted and a healthy one is not; a conversion ends, for the last
request; a page that stays open ends up showing what the server has, and offers what the server
accepts; the division of devices never promises more than there is.
The ways these can go wrong are listed, line by line, under `hazards` in `PROJECT.json`.

## 2. The modules

    JobStatus         statuses, what the REST API accepts in each and what it makes of it
      JobTable        shared state: rows, pods, tasks, manager loops; unconditional writes
        JobLauncher   PythonLauncher: submission and kill, call by call; death of a worker
          JobManager  the four job_manager loops
        JobRestAPI    the REST operations on jobs and VCs
      JobSystem       = JobManager + JobRestAPI + Kubernetes + watchdog; properties, fairness
        JobSystemProofs   types, tasks, stops, ends
          JobQuietProofs  jobs nobody interferes with; JobSystem implements JobLife
        MCJobSystem       instances for TLC
    JobLife           the abstract life of a job; JobSystem says `Life!Spec` under a refinement mapping
    VCQuota           calculate_vc_gpu_counts as a chain of operators
      JobScheduling   TakeJobActions in full, node_manager's reports, nodes, quotas
        SetLemmas         induction over finite sets, largest keys, counting
        SchedulingLemmas  sums of devices, the order of a round, the jobs a round allows
          SchedulingProofs  theorems about JobScheduling
        MCJobScheduling   instances for TLC
    Endpoints         endpoint manager, its threads, REST and launcher over jobs.endpoints
      EndpointsProofs   theorems about Endpoints; Endpoints implements EndpointLife
      MCEndpoints         instances for TLC
    EndpointLife      the abstract life of an endpoint; Endpoints says `Life!Spec` under a refinement mapping
    PollingPage       a page that polls: requests, answers, the interval
      JobPages        the tables of jobs, the page of a job, actions, gateway (also over JobStatus)
        EndpointPanel the endpoints on the page of a job
          Dashboard   all of these; properties, fairness
            DashboardProofs   theorems about Dashboard
            MCDashboard   instances for TLC
    Watchdog          cluster_manager: children, heartbeats, rounds
      DataConvert     dataset_convert and the requests for conversions
        Services      the two together; properties, fairness
          ServicesProofs  theorems about Services
          MCServices      instances for TLC

**JobTable.**  `status`, `deleted`, `retries` are columns of `jobs`, `vcs` the rows of `vc`.
A status `unborn` or `purged` means there is no row: DeleteVC and AddVC delete rows, and an
update of a row that is gone changes nothing (`Put`).  `WriteStatus` may lose its write where
`DbMayFail`, because `UpdateJobTextFields` catches the exception and no backend caller looks at
what it returns.  `pods[j]` is the phase of all pods of a job together; a deleted running pod is `Terminating` until
Kubernetes has finished with it.  The pods of a job of several (`Distributed`: PSDistJob) are admitted, fail and end one by one, so
they can also be a `Mixture`: one was refused, one has failed, or one whose success ends the job has succeeded
(`check_job_status` looks at the master first), and others hold devices.  `HoldsGpu` has the mixtures, and `Observed` in JobManager says
which one answer `check_job_status` makes of them.  A deletion that is not complete may leave the running ones.

**JobLauncher.**  A task is a record; `step` says which call its worker makes next.  Between any
two calls every other process may act.  `SubmitCheck` removes pods of an earlier attempt and
leaves the job queued; `SubmitCreate` and `SubmitWrite` are the creation of the pods and the
write of `scheduling`; `SubmitFail` counts the failure and gives up at `SubmitLimit` (5 in the
code), `SubmitCleanup` is the unchecked clean-up that follows.  `KillDelete` and `KillWrite` are the
halves of `kill_job_impl`; when the deletion reports errors, `base64.b64encode(errors)` of a list
raises `TypeError`, so that no status is written (`KillDeleteFails`).  `WorkerDies` leaves the
task outstanding: nobody calls `task_done`.

**JobManager.**  `Snapshot` is the head of `Run`'s loop: it waits for the manager's own tasks
and reads the rows.  Each row is then processed by the status that was *read* (`batch`), not by
what the row holds by then.  For a polled job the question to Kubernetes (`CheckJobStatus`), the
write that follows (`Apply...`) and the deletion (`Cleanup`) are three steps.  Which queued jobs
TakeJobActions allows is left open here (any choice), and is the subject of JobScheduling.

**JobRestAPI.**  A request is checked (`RestCheck`) and written later (`RestWrite`).  DeleteVC
is a question and a dialog on its page (`AskDeleteVC`), then four steps; AddVC is two.
Authorization is not modelled: a request that is refused does nothing.

**JobSystem.**  Adds the phases of pods and `Restart`: the watchdog kills a manager that waits for
a dead worker, or one that is merely slow.  Tasks already started, and those already in the queue's
pipe, are carried out by the orphaned workers under the old incarnation `gen`.

**JobLife** says, per job, in what order statuses may follow each other, that only a queued job is
given devices, only when it has none left from an earlier attempt, and before which stages it has given them back (`WithoutDevices`):
always before it is killed, and, if it has one pod, before it waits again and before it ends in order.  Of a distributed job the code writes `queued`,
`finished` and `failed` on account of one pod while others run (`job_manager.py:458`, 327, 479); they are deleted afterwards.
`LivesAsPromised` in JobSystem instantiates it: `stage` is the status of an undisturbed job and
`"other"` once it is disturbed, `devices` the undisturbed jobs whose pods hold devices.

**VCQuota** follows `quota.py` from top to bottom.  Floats are kept as whole part and fraction over
the common denominator, so the comparison of fractions is exact; the code compares floating-point
numbers, whose rounding is not modelled.

**JobScheduling** reads jobs, status and active jobs at different times as the code does
(`ReadJobs`, then `Decide` on the `report` of some earlier moment and on the jobs active now, or on none when
their SELECT fails), hands over submissions and
preemptions as tasks, and lets nodes, quotas, failures and restarts come between.  There, a job is
only a request for devices: stale pollers and REST requests are JobSystem's subject.  Each device
that a node has is allocatable, and every pod is on a known node; this is a simplification of
`node_manager.py` and is on the plan.

**Endpoints.**  `doc[j]` is the JSON document in `jobs.endpoints`.  Its writers are *actors*, each with
a place in its code (`pc`), what is left of its loop (`todo`) and the entry in hand (`item`): the main
thread of the endpoint manager, a worker thread per job, the launcher worker that submits the job
(`Submitter`), and the job manager that gives up its lost pods (`Reviver`).  `UpdateEndpoint` is two
steps, `UpdateRead` and `UpdateWrite`, and so is the REST request; worker threads hold `sql_lock`
around theirs, the others do not.  The services have a writer more: `delete_job` deletes all services labelled `run=<jobId>`, which the
endpoints' own are (`DeleteServices`), and looks at no document.  It is called by a kill, a pause, a time limit, preemption, the clean-up of an end and the
submission of a job with pods left over (`DeleteJob`), and when lost pods are given up (`ReviveEnd`); the job's status is
written before or after, or, when the deletion reports errors, not at all.  `takenDown` has the jobs for which it was
called since their last submission.  The manager may be killed anywhere and is started again (`ManagerDies`,
`ManagerStarts`): its threads and what they had in hand are gone.  A round of a worker either creates the NodePort service on a
random port (`CreateService`) or starts the server in the pod (`StartServer`); an exception leaves the
entry as it is.  `kubectl_exec` answers an empty string for an error and for "not found", and
`kubectl_create` returns the exception it caught, so that both may pass for success.  `kubectl_exec` has no timeout, and what it
runs in a pod may never return (`CallHangs`).  The pool of twenty threads (`ThreadPoolExecutor(max_workers=20)`) is no limit in
the model, so that hung threads do not use it up.  The
life of the job is an environment here: statuses from which `GetDeadEndpoints` cleans up are one
status, `stopped`, and pods are all there or all gone.  Servers differ only in the attempt and the port
they were started with; the ssh, inference and user-chosen ports are not distinguished from the
random ones.

**EndpointLife** says, per endpoint, in what order its statuses may follow each other, that of an active job
only an endpoint with a service is shown as running, that one is stopped, or its service taken away, only when its job is
not active (stopped, queued, or being taken down), and that it goes back to `pending` only when the pods it ran in are gone; and that no endpoint of an
earlier submission is left when its job becomes active, or gets pods, again (`Begins`).  `EndpointsLiveAsPromised` in
Endpoints instantiates it: `stage` is the status in the document, `"other"` once the job is disturbed, `open` the endpoints with
a service.

**PollingPage** is what every page of the dashboard does: ask when it is mounted and at each interval,
whether or not earlier requests were answered; `asking` and `replies` are the requests not yet read
by the server and the answers on their way, each with what its callback captured (the page as it
was when it asked).  Answers arrive in any order, or not at all.  `missed` and `restful` are history:
`missed` says that an answer was wrong, arrived out of order, was lost when no other was to come, or contradicts an earlier
one after which nothing was to come; `restful` is that one.  A port that is asked for begins anew.  An earlier form, in which they followed the answer that was last *sent*, held in the small instance and
was false with three requests under way, which the proofs of `JobPageRests` and `PanelRests` brought out.

**JobPages** has `MyJobs`, `AllJobs` and the page of one job: a table is replaced when the sequence of
statuses differs from the captured one (`Differs`), and a job's page stops its interval at certain statuses
(`StopsPolling`).  `Click` offers by the status shown (`Offers`), `AnswerYes` sends after the confirmation,
`PutCheck`/`PutWrite` are the two halves of the REST call, `PutRefused` its refusal, and `Tell` is what the
gateway and the page make of the answer.  `PlatformNext` is an abstraction of what JobSystem does to a row;
`JobStatus`, shared with JobTable, keeps the two in step.  **EndpointPanel** adds the panel of endpoints, which
decides by what it lists whether to poll, and asks for endpoints.  **Dashboard** puts the pages together: one
page is open at a time, and there is one user.

**Watchdog.**  `child[m]` is a manager's process, `age[m]` the age of the file the watchdog looks at for it,
modulo a day (`timedelta.seconds`), in minutes.  A round (`todo`) looks at each manager in turn:
`Leave`, or `Start` after killing what is left; `RoundFails` is an exception that ends the round.  `Prompt`
managers write their file in each loop (`Beat`).  Others do not: data_convert writes `DataConvert` where
`data_convert` is looked at, and joblog_manager's `update_job_logs` never returns to the loop that writes.

**DataConvert.**  Each request has a row, since the table has no key but its id; `batch` are the rows read as
queued, `cur` the one at hand, and `pc` the place in the loop between row and file.  Each write of the database may be
lost, each call may raise; `ForgetConversions` is what a kill leaves.  **Services** composes the two: a kill or
crash of data_convert (`Forget`) drops what it had in hand, and `MinutePasses` when it has nothing to do but convert.

Left out of the models: messages, details and latency records of jobs; rendering of pod
templates (it succeeds, is refused as invalid, or raises); `enable_jobmanager_debug_mode`; the
notifier.

## 3. The runs

Every configuration but Services says `CHECK_DEADLOCK FALSE`: those systems rest when every job has ended or,
in Dashboard, when the bounded moves are over and the page shows all there is.  In Services time always passes,
and TLC checks that it can.

| run | instance | shows |
|---|---|---|
| JobQuiet | two jobs, one of them distributed; a worker dies, a manager is restarted, database writes are lost | `QuietOneOperation`, `QuietEndFreesGpu`, `QuietEndIsFinal`, `LivesAsPromised` |
| JobStop | one preemptible distributed job and a child of its family, two VC names; all requests on jobs and VCs | `TypeOK`, `StopLostOnlyToOlderWork`, `StopFreesGpu`, `EndLostOnlyToFamily` |
| JobKillLive | kill, one worker dies; fair | `OneTaskPerJob`, `StopCompletes` |
| JobVCLive | DeleteVC; fair | `MissingVCJobEnds` |
| VCScheduling | two workloads of three jobs, two VCs, two nodes, two divisions of the cluster, one event | `TypeOK`, `QuotaKept`, `AllowedWithinReport`, `LoweredQuotaKept`, `PreemptedToMakeRoom`, `NotOvertaken`, `PassedOverForEnded` |
| EndpointLive | one endpoint, two ports, two submissions, one request; deletions, kills of the manager, hung calls; database and Kubernetes fail; fair | `TypeOK`, `RunningIsServed`, `StoppedIsGone`, `EndpointsLiveAsPromised`, `EndpointComesUp`, `DeadIsCleaned` |
| Dashboard | two jobs, one not the user's own, one switch and one port, two requests under way; fair | `TypeOK`, `RefusedOnlyIfMoved`, `JobPageRests`, `PanelRests`, `TableSettles`, `JobPageSettles`, `EndpointsSettle` |
| Services | a prompt manager and data_convert, a data set asked for twice, two faults; fair | `TypeOK`, `HealthyLooksAlive`, `EndedTogether`, `FinishedIsCurrent`, `AnsweredOnce`, `HungIsRestarted`, `ConversionEnds` |
| JobKillLost, JobDeleteVC, JobVCList, RequestAccepted | minimal | a violation each, see section 6 |

*The managers alone do not race.*  A job that nobody interferes with (`disturbed` is a history
variable that says who did) has at most one operation under way, although four processes and
twelve workers share its row without a lock; the status acts as the lock.  When it has ended, it
stays ended and holds no devices; and all its life it is a job of JobLife.  A deletion that fails after an end counts as
interference: the code ignores its errors, and nobody looks at the job again.  One more case is an exception in the statement of `QuietEndFreesGpu`
(`GivenUp`): of a distributed job that was refused 500 times `error` is written without `delete_job`, and the pods that were
admitted beside the refused one keep their devices.  Without the exception TLC finds this in JobQuiet.

*A job of a missing VC.*  `MissingVCJobEnds` has two parts.  No such job waits for ever: its row comes to an end, or is purged.
And one of one pod that was scheduled or running when its VC went, with nothing else under way for it, gives its devices back, unless it ends in an
error whose clean-up failed.  Of other pods nothing is claimed, and some are left: those of a submission that was under way when `DeleteVC`
purged the row (`delete_job` looks the job up and raises `IndexError` without it), and those of a queued job, left from a failed submission or
from a distributed job that was refused, to which `killed` is written without `delete_job` (`job_manager.py:748`).

*A stop is lost only to older work.*  Once a job is `killing` or `pausing` and nothing that was
begun earlier is still under way for it, its status can only become `killed` or `paused`, and no
new work begins that could bring it back.  The exceptions are part of the statement: the user
deletes the row, kills the paused job as well, or its VC goes.  `StopFreesGpu` adds that the job does
not become `killed` or `paused` with pods that hold devices, whoever writes it, and `StopCompletes` that the stop is
carried out in the end.  A stopping job whose row is deleted is an exception to all three: nobody selects the row any
more and its pods stay.

*An end is lost only to the family.*  `EndLostOnlyToFamily` is about jobs that ended after interference as
well, of which the properties of JobQuiet say nothing: once nothing is under way for such a job, it keeps its status and takes no
devices.  `KillJob` of a parent writes `killing` to its whole family, the members that have ended included; this, and the
removal of the row with its VC, are the exceptions.  The run reaches the first of them.

*Scheduling.*  `QuotaKept` counts jobs from the moment a round submits them.  It excuses a VC whose
quota was lowered, whose preemption failed, whose tasks outlived a restart, or of which a round passed over
an active job (`PassedOver`): in these cases the code does exceed the quota.  The last case needs no failure
(section 6), and `PassedOverForEnded` says that it has one cause only: another job of the VC ended after
the round had read the jobs and before it counted the devices in use.  `AllowedWithinReport` bounds what a round allows by what it knew.
`LoweredQuotaKept` says what becomes of an excuse: after a round that allows or preempts every active job of a VC, and finds no
task of an older manager for it, the VC is within its present quota, lowered or not.
`PreemptedToMakeRoom` says that preemption serves a non-preemptible job of the same VC, and
`NotOvertaken` that a queued job is not passed by a rival that needs as much and ranks lower.

*Endpoints.*  A running endpoint has its server in the present pods on the port its service forwards to
(`RunningIsServed`), a stopped one has no service (`StoppedIsGone`); what the user asked for comes up
and what outlived its job is cleaned up; and all its life an endpoint is one of EndpointLife.  This is claimed of a job until it is `disturbed`: somebody
wrote, or changed a service, on the strength of something read before another write or submission, a statement on the document
failed, a failed kubectl call passed for "there is none", or the manager was killed before it had recorded the port of a service.
`RunningIsServed` and `EndpointComesUp` are claimed of jobs that are not being taken down: after `delete_job` a job may go on being
shown as running, with endpoints shown as running, and have no services (section 6).  `EndpointComesUp` is not claimed while a
call of the job's worker hangs.  The history variable is precise enough
for an undisturbed job to have gone through failures that the code does repair: failed starts, refused
deletions (`unknown`), services created in an earlier attempt, resubmissions with a reset.  What a
disturbed job may suffer is a hazard in `PROJECT.json`: among other things the launcher's reset "so it would
restart when job is ready" (`job_launcher.py:1032`) may be overwritten by a thread that served the earlier pods.

*Pages.*  `RefusedOnlyIfMoved` relates two tables kept apart in two languages: what a page offers by status and what
the API accepts.  `JobPageRests` and `PanelRests` say for what a page stopped polling: it shows the first answer after
which nothing is to come, although each answer is compared with what the page showed when it asked.  The three `...Settle...` properties say what a page that stays open shows in the end.  Their
exceptions are what its code gives up: "all jobs" compares only the sequence of statuses, so that
other jobs with the same statuses may be on the server; the page of a job stops polling at `killing`, so that
it does not show `killed`; the panel stops polling once all it lists is running.

*Services.*  A healthy manager is never taken for a hung one (`HealthyLooksAlive`) and a hung or dead one runs again
(`HungIsRestarted`), although ages forget days and calls fail.  Conversions end although their manager is killed at
each timeout (`ConversionEnds`) if one takes no longer than the watchdog waits; a longer one is begun again for
ever.  Row and file agree unless a kill, exception or lost write came between them (`EndedTogether`), and a request
that comes while its data set is converted is not lost: when none is queued and the last conversion finished, it began after all of them (`FinishedIsCurrent`), and one that was answered is not converted
again (`AnsweredOnce`).

### Bounds

- One job suffices for most questions of the job path: jobs meet only in batches, in the failure of
  a batch and in a family's kill.  JobQuiet has two for the first two of these (`QuietBound`: one job
  with a crash and retries, or two without a crash and with none to try again, with `TwoUnderWay`).  One of the two is distributed, so they are not symmetric.  JobStop has a child for the third (`ParentFirst`, `ChildBound`): it is
  there while its parent is not approved and can only be killed, and one piece of work is under way.
- `MaxRequests = 1` request between its check and its write; a request may be followed by
  others without end, so a kill meets every stage of the others' work.
- `MaxDeaths`, `MaxRestarts` at most 1: a second crash meets the same kinds of state as the first,
  since a restarted manager keeps nothing.
- `SubmitLimit` and `RestartLimit` are 1 to 3 instead of 5 and 500: the counter only matters at,
  just below and just above its limits, and JobQuiet has a submission limit below the other.
- `TwoUnderWay` (JobStop, and two jobs in JobQuiet): managers with rows in hand, launcher tasks, requests and a change of VCs under
  way are at most two together.  Losing a stop needs one older piece of work; the proof covers every
  number.  `OthersStay`: the second VC is there because the last one cannot be deleted, and stays.  `VIEW ButHistory`
  identifies states that differ only in `disturbed`, which no action reads and no property of this run mentions.
- `AllQuiet`: nothing is claimed of a disturbed job, so states in which a job is disturbed are not continued.
- VCScheduling: the jobs are a preemptible one, the one it makes room for and a rival, or two that run side by side, of
  which one may end in the middle of a round, and one too large for its VC; two quotas
  let one be lowered or raised; two nodes let one be lost; `MaxEvents = 1` event of a rare kind.
- EndpointLive: two ports let a service forward to a port nobody listens on; two submissions
  (`MaxAttempts`) let pods of the first be outlived; `MaxRequests = 1` request adds the endpoint at any
  moment.  `Quiet` does not continue disturbed states, nor those in which all an actor can do is to write an outdated
  entry, which disturbs the job or is lost; the theorems, which have no such bound, cover them.  With one name the lost update of *another*
  entry does not occur; with two, TLC does not finish with fairness.  The theorems of `EndpointsProofs` cover the
  safety properties for any names, ports, submissions and requests.
- Dashboard: `MaxGets = 2` requests under way can overtake each other and outlive a change; `MaxMoves = 3` moves of
  platform, user and network are a click, a move that makes it outdated, and one more.  Of the ends that no page
  tells apart `PlatformNext` has one from each status; only the job whose page is open moves.  One user, one
  request at a time: concurrent requests on a row are JobStop's subject.
- Services: `Tictoc = 2`, `Day = 4` and `LoopTime = 1` leave room for an age below, at and above the limit and for
  one that wraps around; a conversion may take the whole of `Tictoc`.  `MaxFaults = 2` faults can hit a conversion and
  its error branch, or a start and the next round; kills at the timeout come on top and are not bounded.  The theorems cover
  every number of managers, data sets, requests and faults.

### Fairness

`FairSpec` assumes weak fairness of what the loops of the managers do next, of each worker, and of the
watchdog when a manager is stuck: `Run` never returns, workers block only on their queue, and
`cluster_manager.Run` looks at each manager every minute.  It assumes strong fairness of a
successful deletion: a kill is retried for as long as Kubernetes refuses it, and Kubernetes is
assumed not to refuse for ever.  Users, pods, crashes and lost writes are not fair.

In Endpoints the main loop, worker threads, updates and resets are weakly fair: `Run` never returns and
no thread waits for more than a call, which returns unless it hangs (`CallHangs` leaves a place no fair action leads out of), and `sql_lock`.
A call that hangs in the main thread ends with the watchdog's kill; the manager is started again, and is not killed for ever (`<>[][~ManagerDies]_vars`).  Strong fairness of `Begun`, `ServiceCreated`,
`ServerReady` and `Cleaned` says that neither the database nor Kubernetes fails at every attempt and that
a server started again and again becomes ready at last.  Jobs and requests are not fair.

In Dashboard intervals fire, the server reads for a request sooner or later and of the answers on the way one arrives
sooner or later.  Users, the platform and network faults are not fair.  In Services minutes pass, the watchdog goes
through its round (`work` does not block but in calls that end), prompt managers write their files, and the converter
does what it can between two minutes.  Requests and faults are not fair.

## 4. The proofs

`JobSystemProofs` proves for all jobs, VCs, families, limits and bounds, from the assumptions
named in `JobTable` alone:

- `TypeCorrect`: `Spec => []TypeOK`.  One lemma per group of operations (`PutType`, `WriteType`,
  `LauncherType`, `RestType`, `ManagerType`, ...), combined in `NextType`.
- `OneTaskPerJobHolds`: `Spec => []OneTaskPerJob`.  The property is not inductive: a manager could
  hold a row of a job it already has a task for.  `OneTaskInv` adds that tasks belong to past or
  present incarnations, that a manager with a job in hand has no task for it, and that it has the
  job in hand once.  `Snapshot` establishes this because it waits for its tasks; each step moves a
  job from `batch` to `cur` or to a task and never copies it.
- `StopLostOnlyToOlderWorkHolds`: `Spec => StopLostOnlyToOlderWork`.  It needs `BatchWatched`: a
  manager has rows in hand only of statuses it selects.  Then no manager but the killing one
  picks up a job that is `killing` or `pausing`, and each action is shown either to be that manager's,
  to belong to older work, or not to touch the job.
- `StopFreesGpuHolds`: `Spec => StopFreesGpu`.  `PodsGone` strengthens `Settled`: a task about to write has found the pods deleted.
  `TakenByCreation` says that only `SubmitCreate` gives a job devices, and a settled job has no submission;
  `WhoWritesStopped` that `killed` and `paused` are written by a kill task, after `KillDelete`, or by TakeJobActions for a job
  of a VC it did not find, which is not a job that is being stopped.
- `EndLostOnlyToFamilyHolds`: `Spec => EndLostOnlyToFamily`.  No manager selects an ended job (`BatchWatched`), so none takes it up
  (`ManagerLeavesAlone`, `PollerLeavesAlone`); workers act on their own task's job (`LauncherLeavesAlone`); and of the requests the
  API checks, only a deletion passes for a job that has ended (`RestKeepsEnd`).

`JobQuietProofs` adds, for jobs nobody interferes with:

- `QuietOneOperationHolds`, `QuietEndFreesGpuHolds`, `QuietEndIsFinalHolds`, `LivesAsPromisedHolds`.  The invariant is
  `QuietInv`: the status of an undisturbed job is the lock on it.  A launcher task for it exists only in a status that fits its
  kind and step, a manager's row of it still has the job's status or is an outdated one that its process
  will not act on, an answer in hand was given in the present status, at most one of all these is under way
  (`OneOperation`), and an end holds no devices once nobody works on the job (`EndFreesGpu`, with the exception of a job that was given up; `GivenUpStays`: it stays so).
  A poller's answer is the present phase of a job of one pod; the pods of a distributed one may have moved on.  Each step of each
  process is shown to keep this and to be, for the job, a step of JobLife or none (`QuietMove`): the refinement and
  the finality of ends follow from that at once.

`ServicesProofs` proves of the watchdog and the conversions, from the assumptions of `Watchdog` and `DataConvert`:

- `TypeCorrect`, and `HealthyLooksAliveHolds`, which is inductive with the types: a minute passes only when each prompt manager
  has had its loop, and an age below the limit is below a day, so that the remainder changes nothing.
- `EndedTogetherHolds` and `FinishedIsCurrentHolds`.  Neither is inductive.  `ConversionInv` adds that rows in the batch
  are still queued, that the conversion at hand is the last of its data set and the row being written is in its state
  (`NoteFollowsRow`), and that a request that came after the last conversion began has its row still queued
  (`UnseenQueued`).  `FinishedIsCurrent` speaks of a last conversion that finished: after one that failed, what stands in the output is an older one's.
- `AnsweredOnceHolds`, an action property from the same invariant: a row that has ended is in no batch.

`EndpointsProofs` proves of the endpoints of any jobs, from the assumptions of `Endpoints`:

- `TypeCorrect`, inductive with `Room` (a job being submitted has a submission left).
- `RunningIsServedHolds` and `StoppedIsGoneHolds`.  `ActorsInv` says what holds of every actor, disturbed or not: whose
  endpoints it has in hand, each once, in which state it has read them and what it will make of them.  `Advance` is
  what all steps have in common, a job gets pods or is active again only with its next submission; from it follows
  that what an actor has in hand stays true while others go on (`MainRests`, `WorkerRests`, `ResetRests`).
  `Kept(j)` holds of a job until it is disturbed: the service forwards to the port in the document or to the one on
  its way there (`PortKnown`), a running endpoint of a job that is active and not being taken down is served (`Served`), whoever still takes a running endpoint for pending knows its port (`RightPort`), a
  submission finds no running endpoint left (`ResetAll`), and an endpoint being cleaned up that is no longer
  running cannot run again in this submission (`Cleaning`).  The step that matters is a write: of an undisturbed
  job it changes one entry that is as it was read (`OwnWrite`).  `delete_job` only takes services away, and from a job that is not active from then
  on (`ServicesGone`, `DeletionKept`); a kill of the manager leaves an undisturbed job without a port on its way (`ManagerDiesKept`).
- `EndpointsLiveAsPromisedHolds`: Endpoints implements EndpointLife.  `EndpointMove` is what a step does to one endpoint: its status
  changes by a write (`WriteMove`, `RestWriteMove`) or its service by a call (`CleanServiceMove`, `CreateServiceMove`, a deletion), never
  both, and each change is shown to be one of the abstract life, from what `ActorsInv` and `Kept` say of the actor that makes it.
  `SubmissionBegins`: a job becomes active or gets pods only by `SubmitEnd`, when `ResetAll` holds.

`SchedulingProofs` proves every property that VCScheduling checks, for any VCs, kinds of device, jobs, quotas, nodes
and number of events, from the assumptions of `VCQuota` and `JobScheduling`:

- `TypeCorrect`, and `ReportCorrect`: whatever node_manager writes are counts.
- Which jobs a round allows is a recursive function over the order of the sort keys.  `SomeAllowed` shows by induction over sets
  of jobs closed under `Earlier` that such a function exists, and `AllowedFit` that a job is allowed if, and only if, it fits with the
  allowed jobs before it.  The induction takes a set of sets for its hypothesis (`SubsetInduction`), because the provers
  cannot instantiate an operator; sums are cardinalities of sets of cells (`Cells`).
- `QuotaKeptHolds`.  `SchedulableBounds`: what a VC is left lies between what it uses and its quota.  `AllowedWithinLeft`: the allowed
  jobs of a VC fit together, because the last one does.  `QuotaInv` adds that tasks from before a restart belong to excused
  VCs, that a round begins only without other tasks, and that a job that became active since belongs to an excused VC.
- `LoweredQuotaKeptHolds`: what a round allows is within the quota of every VC, excused or not (`AllowedKept`), and after it a VC it
  has settled holds devices for allowed jobs only (`SettledAllowed`).
- `PassedOverForEndedHolds`, `PreemptedToMakeRoomHolds`: an active job fits if only active jobs of its VC go before it (`ActiveFits`),
  since those are within the quota and what is left is no less than what is used.
- `NotOvertakenHolds` by `FitsSooner`, and `AllowedWithinReportHolds` by `SharesFit`: shares of m in the proportion of weights, each
  rounded down, are together at most m.

`DashboardProofs` proves of the pages, for any jobs, endpoints, moves and requests under way:

- `TypeCorrect`.  What a page asks, keeps and compares has its type.  Answers are taken out of the middle of a sequence
  (`RemovedAt`, `TakenTyped`), and a list of the REST API has the n-th job of those it selects in its n-th row (`CountedOff`, `ListedTyped`).
- `RefusedOnlyIfMovedHolds`, with `OfferInv`: what waits in the dialog or is under way was offered by the status that the user
  saw, and is carried with it.
- `JobPageRestsHolds`.  The property speaks of a page at rest; `JobRestInv` says what led there: the answers under way after one
  with a last status repeat it, a request was sent from a last status only if the page still shows it, and then all the
  answers under way repeat it.
- `PanelRestsHolds`.  `PanelRestInv` has four parts: endpoints are only added, from list to request to answer to server (`Grown`);
  answers after one with nothing to wait for repeat it (`Repeated`); a request sent before the panel had such a list is answered
  with that list (`OlderAsked`); a panel at rest shows it (`AtRest`).  The step that matters is an answer that does not
  look new: with as many endpoints as the panel knew when it asked, it is the list the panel had (`NotNew`).

Only model-checked: liveness (`StopCompletes`, `MissingVCJobEnds`, `EndpointComesUp`, `DeadIsCleaned`, `HungIsRestarted`,
`ConversionEnds`, `TableSettles`, `JobPageSettles`, `EndpointsSettle`), which is out of the proof system's reach.  Every other
property of a passing run is a theorem.  No module declares a RECURSIVE operator that a theorem would reach.

## 5. Hazards and mutants

`hazards` lists what can go wrong in this code and what a test would hardly reach, with the
properties that would catch it or the reason why none does yet.  Each property of a passing run has
a mutant: a definition with a plausible bug (a manager that polls one status too many, a
clean-up that is skipped, a second pass that forgets what the first one gave away, ...) kept beside
the definition it changes and marked `(Mutant: ...)`, under which TLC finds the property violated.

## 6. Where the code disagrees with what it says

1. **JobKillLost**: "Success, the job is scheduled to be terminated." (`dlwsrestapi.py:954`), but
   ApproveJob, a submission or a poller that read the row before overwrites `killing`.
2. **JobDeleteVC**: the handbook says that a VC with running, scheduling, killing or paused jobs
   cannot be deleted.  The page of VCs asks for active jobs before it opens its dialog; neither the
   confirmation nor `DeleteVC` asks again.
3. **JobVCList**: a failed read of the VC table is taken for an empty one: jobs are killed because
   they "belong to a no-exist vc".
4. **RequestAccepted**: the dashboard says "'s kill request is accepted." when the response is ok, and the REST API
   refuses with "Cannot Kill the job." and status 200.  An administrator is offered Pause and Resume for the jobs of
   others, which the API grants to owners only.

Other disagreements met while modelling, without a run of their own:

- A VC can hold more than its quota, "the number of devices allocated to the VC" (handbook, *Virtual Cluster*), without any failure:
  `TakeJobActions` reads the jobs first and counts the devices in use later.  A job that ends in between still takes its devices
  of what is left; an active job after it no longer fits and is passed over, nothing is subtracted for it, and a queued job
  gets devices beside it.  `PassedOverForEnded` says that in a VC that is not excused for another reason a
  round passes over an active job for no other cause.
- `quota.py:59` says that the indivisible remainder of the missing devices goes to the leading VCs; one device is assigned,
  whatever the remainder (`Leading` in VCQuota).
- `job_launcher.py:1032`, see *Endpoints* in section 3.
- A distributed job whose admission was refused for the 500th time becomes `error` "can't allocate resources" (`job_manager.py:448`) without
  `delete_job`: the pods that were admitted keep their devices, and nobody looks at the job again (`GivenUp`).  A refused one that goes back to `queued` holds
  devices while it waits, until the next submission deletes its pods.
- A job is shown as running, with endpoints shown as running, and its services are gone: `kill_job` deletes them before it writes the status (a
  preemption, a time limit, lost pods), and writes none when the deletion reports errors (`job_launcher.py:1217` to 1235).  Nobody puts the endpoints
  back to `pending`, so that their services are not created again while that job stays as it is.
- A kill of the endpoint manager between `create_node_port` and `UpdateEndpoint` (`endpoint_manager.py:318`, 323) leaves a service whose port nobody
  knows: each later round raises `KeyError` at `endpoint_manager.py:233`, and the endpoint stays pending until its job is taken down (`PortLost`).
- `kubectl_exec` "never timeout" (`endpoint_manager.py:124`): a call that hangs leaves its job in `global_thread_dict`, and the job's endpoints
  pending, until the manager is restarted.
- `delete_job` looks the job up as an inference job and raises `IndexError` without a row (`job_launcher.py:368`): pods created for a job whose row
  DeleteVC has purged stay.
- `dataset_convert.py:195` passes the path of the output where `updateConvertStatus` expects an error message: `outPath` is
  never set.
- Requests for other types or formats than image and coco stay queued for ever.
- `GetConvertDetail` answers the first row of a data set although each request inserts another: a repeated conversion
  looks finished while it is queued.
- `command_manager.py:47` calls `FinishCommand` with one argument too many: the command stays pending and is executed in each loop.

## 7. Not modelled

`components` in `PROJECT.json` gives the reason for each part.  In short: routes, templates, wrappers, portals and deployment have no
state of their own; authorization and identities live in an external service; CacheManager is dead code; the command
manager has no transition that succeeds; the repair manager's one configured rule only cordons and writes mail, and the rules
that migrate jobs are not configured and call methods that do not exist.  Of the job launcher, the in-process
launcher of inference jobs; of the REST API, templates, inference and labelling; of the node manager, all but the counts that
scheduling reads.

Most lines of the repository's JavaScript are vendored libraries of the older web portals (elasticsearch-js, angular, plugins); the
system's own logic is in Python and in the TypeScript of `dashboard/`.  The share of JavaScript and TypeScript lines that
the map covers is small for that reason.

## 8. Plan

Done in this order: the job path, its proofs, scheduling, endpoints and theirs; then the abstract life of a job and its refinement, the
watchdog with dataset conversion, the dashboard, and the proofs about scheduling; then the types and the rest of the pages, stops
and ends of disturbed jobs, the abstract life of an endpoint and its refinement.  Next:

1. *Abstract specifications* of the conversion of a data set and of the division of devices, with their refinements.
2. *Node manager in full*: allocatable devices, cordoned nodes, pods on unknown nodes.
3. *StorageManager's path tree* as a pure algorithm.
4. *The endpoint manager's pool* of twenty threads, which hung calls use up.
5. *Instances*: a preemptible job of a missing VC (too large for TLC with its fairness so far), several kinds of device.
