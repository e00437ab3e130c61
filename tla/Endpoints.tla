----------------------------- MODULE Endpoints ------------------------------
(***************************************************************************)
(* The interactive endpoints of a job (Jupyter, TensorBoard, VS Code): the *)
(* endpoint manager's main loop and its worker threads                     *)
(* (endpoint_manager.py), the REST request that adds endpoints, and the    *)
(* resets by the launcher and by the job manager.  All of them rewrite one *)
(* document per job, jobs.endpoints, and delete_job takes away the job's   *)
(* services, those of its endpoints included.  What else happens to a job  *)
(* is JobSystem's subject; here it is queued, run, deleted, stopped and    *)
(* resumed.                                                                *)
(***************************************************************************)
EXTENDS Integers, FiniteSets

CONSTANTS
  Jobs,         \* job identifiers
  Names,        \* the endpoints a user can ask for
  Ports,        \* what random.randint(40000, 49999) can return
  NoPort,       \* an endpoint without podPort; no NodePort service
  NoJob,        \* the job of the main thread
  MaxAttempts,  \* bound: submissions of a job
  MaxRequests,  \* bound: REST requests
  KubeMayFail,  \* may a kubectl call fail?
  DbMayFail     \* may a statement on the endpoints document fail?

ASSUME PortAssumption == NoPort \notin Ports /\ Ports # {}
ASSUME NoJobAssumption == NoJob \notin Jobs
ASSUME SomeAssumption == Jobs # {} /\ Names # {}
ASSUME BoundAssumption == {MaxAttempts, MaxRequests} \subseteq Nat
ASSUME FailAssumption == {KubeMayFail, DbMayFail} \subseteq BOOLEAN

Entry == [status : {"none", "pending", "running", "stopped", "unknown"},
          podPort : Ports \cup {NoPort}]
NoEntry == [status |-> "none", podPort |-> NoPort]
NewEntry == [status |-> "pending", podPort |-> NoPort]
Document == [Names -> Entry]
EmptyDocument == [n \in Names |-> NoEntry]

\* An endpoint somebody has read and works on: when it was read, what it was
\* then and what it is to become.
Item == [job : Jobs, name : Names, attempt : Nat, entry : Entry, new : Entry]

(***************************************************************************)
(* Who calls UpdateEndpoint: the main thread, the worker thread of a job   *)
(* (global_thread_dict has at most one), the launcher worker that submits  *)
(* the job, and the job manager that gives up its lost pods.               *)
(***************************************************************************)
MainThread == <<"main", NoJob>>
Worker(j) == <<"worker", j>>
Submitter(j) == <<"submit", j>>
Reviver(j) == <<"revive", j>>
Actors == {MainThread} \cup ({"worker", "submit", "revive"} \X Jobs)

Pc == {"idle", "down", "threads", "clean", "check", "kube", "hung", "reset",
       "update", "write"}

VARIABLES
  jobStatus,  \* [Jobs -> {...}]     jobs.jobStatus, "stopped" for all the others
  pods,       \* SUBSET Jobs         jobs whose pods answer
  attempt,    \* [Jobs -> Nat]       submissions so far that created pods
  takenDown,  \* SUBSET Jobs         delete_job was called since the last of them
  doc,        \* [Jobs -> Document]  jobs.endpoints
  service,    \* [Jobs -> [Names -> Ports \cup {NoPort}]] NodePort services' targetPort
  server,     \* [Jobs -> [Names -> Ports \cup {NoPort}]] where the server listens that
              \*   was last started in the pods of the present submission
  pc,         \* [Actors -> Pc]
  todo,       \* [Actors -> SUBSET Item]  what is left of the loop
  item,       \* [Actors -> Item]         what the loop is at
  read,       \* [Actors -> Document]     the document read by UpdateEndpoint
  requests,   \* the REST requests between their read and their write
  issued,     \* Nat, requests so far (bounded)
  disturbed   \* SUBSET Jobs, history: see RunningIsServed

jobVars == <<jobStatus, pods, attempt, takenDown>>
kubeVars == <<service, server>>
threadVars == <<pc, todo, item, read>>
restVars == <<requests, issued>>
vars == <<jobVars, doc, kubeVars, threadVars, restVars, disturbed>>

Goto(a, s) == pc' = [pc EXCEPT ![a] = s]
Loop(a, S) == todo' = [todo EXCEPT ![a] = S]
Disturb(S) == disturbed' = disturbed \cup S

Read(j, S) ==
  {[job |-> j, name |-> n, attempt |-> attempt[j], entry |-> doc[j][n], new |-> doc[j][n]]
     : n \in S}
InState(j, S) == {n \in Names : doc[j][n].status \in S}
Known == {"pending", "running", "stopped", "unknown"}

NoPorts == [n \in Names |-> NoPort]
NoItem == CHOOSE i \in [job : Jobs, name : Names, attempt : {0},
                        entry : {NoEntry}, new : {NoEntry}] : TRUE

Init ==
  /\ jobStatus = [j \in Jobs |-> "queued"]
  /\ pods = {}
  /\ attempt = [j \in Jobs |-> 0]
  /\ takenDown = {}
  /\ doc = [j \in Jobs |-> EmptyDocument]
  /\ service = [j \in Jobs |-> NoPorts]
  /\ server = [j \in Jobs |-> NoPorts]
  /\ pc = [a \in Actors |-> IF a = MainThread THEN "clean" ELSE "idle"]
  /\ todo = [a \in Actors |-> {}]
  /\ item = [a \in Actors |-> NoItem]
  /\ read = [a \in Actors |-> EmptyDocument]
  /\ requests = {}
  /\ issued = 0
  /\ disturbed = {}

-----------------------------------------------------------------------------
(***************************************************************************)
(* UpdateEndpoint(endpoint): read the whole document, replace one entry,   *)
(* write the whole document.  A read that fails returns {}, a write that   *)
(* fails is logged.  Workers hold sql_lock for it, nobody else does.       *)
(***************************************************************************)
Lockers == {Worker(j) : j \in Jobs}

LockFree == \A b \in Lockers : pc[b] # "write"

UpdateRead(a) ==
  /\ pc[a] = "update"
  /\ a \in Lockers => LockFree
  /\ Goto(a, "write")
  /\ \/ read' = [read EXCEPT ![a] = doc[item[a].job]] /\ UNCHANGED disturbed
     \/ DbMayFail /\ read' = [read EXCEPT ![a] = EmptyDocument] /\ Disturb({item[a].job})
  /\ UNCHANGED <<jobVars, doc, kubeVars, todo, item, restVars>>

\* The endpoint is not what it was when it was read, or its job has been, or
\* is being, submitted again by somebody else.
Stale(a, i) ==
  \/ doc[i.job][i.name] # i.entry
  \/ attempt[i.job] # i.attempt
  \/ a # Submitter(i.job) /\ pc[Submitter(i.job)] # "idle"

Overtaken(a, i) == IF Stale(a, i) THEN {i.job} ELSE {}

Back(a) ==
  CASE a = MainThread  -> "clean"
    [] a \in Lockers   -> "check"
    [] OTHER           -> "reset"

UpdateWrite(a) ==
  LET i == item[a] IN
  /\ pc[a] = "write"
  /\ \/ /\ doc' = [doc EXCEPT ![i.job] = [read[a] EXCEPT ![i.name] = i.new]]
        /\ Disturb(Overtaken(a, i) \cup IF read[a] # doc[i.job] THEN {i.job} ELSE {})
     \/ DbMayFail /\ UNCHANGED doc /\ Disturb({i.job})
  /\ Goto(a, Back(a))
  /\ item' = [item EXCEPT ![a] = NoItem]
  /\ read' = [read EXCEPT ![a] = EmptyDocument]
  /\ UNCHANGED <<jobVars, kubeVars, todo, restVars>>

-----------------------------------------------------------------------------
(***************************************************************************)
(* Run: start_endpoints hands the pending endpoints of each running job to *)
(* a worker thread, unless one is at work for that job;  cleanup_endpoints *)
(* then goes through the running endpoints of jobs that are not active.    *)
(***************************************************************************)
\* (Mutant: pending endpoints of jobs that are being scheduled.)
JobsToServeEarly == {j \in Jobs : jobStatus[j] = "scheduling"}
JobsToServe == {j \in Jobs : jobStatus[j] = "running"}

GetPendingEndpoints ==
  /\ pc[MainThread] = "clean"
  /\ todo[MainThread] = {}
  /\ Loop(MainThread, UNION {Read(j, InState(j, {"pending"})) : j \in JobsToServe})
  /\ Goto(MainThread, "threads")
  /\ UNCHANGED <<jobVars, doc, kubeVars, item, read, restVars, disturbed>>

StartThread(j) ==
  LET mine == {i \in todo[MainThread] : i.job = j}
      busy == pc[Worker(j)] # "idle" IN
  /\ pc[MainThread] = "threads"
  /\ mine # {}
  /\ todo' = [todo EXCEPT ![MainThread] = @ \ mine,
                          ![Worker(j)] = IF busy THEN @ ELSE mine]
  /\ IF busy THEN UNCHANGED pc ELSE Goto(Worker(j), "check")
  /\ UNCHANGED <<jobVars, doc, kubeVars, item, read, restVars, disturbed>>

\* (Mutant: paused and ended jobs are taken for active ones.)
JobsToCleanNone == {}
JobsToClean == {j \in Jobs : jobStatus[j] = "stopped"}

GetDeadEndpoints ==
  /\ pc[MainThread] = "threads"
  /\ todo[MainThread] = {}
  /\ Loop(MainThread, UNION {Read(j, InState(j, {"running"})) : j \in JobsToClean})
  /\ Goto(MainThread, "clean")
  /\ UNCHANGED <<jobVars, doc, kubeVars, item, read, restVars, disturbed>>

-----------------------------------------------------------------------------
Serves(i) == service[i.job][i.name]
SetService(i, p) == service' = [service EXCEPT ![i.job][i.name] = p]
Hold(a, i, status, port) ==
  item' = [item EXCEPT ![a] = [i EXCEPT !.new.status = status, !.new.podPort = port]]

\* (Mutants: an endpoint whose service could not be deleted is "stopped"; it
\* gets a status that nobody knows.)
DeleteFailedStopped == "stopped"
DeleteFailedError == "error"
DeleteFailed == "unknown"

(***************************************************************************)
(* cleanup_endpoints, one endpoint: delete its service if kubectl finds    *)
(* one.  kubectl_exec answers "" when it fails as when there is nothing.   *)
(***************************************************************************)
CleanService(i) ==
  LET done(status) == Hold(MainThread, i, status, i.entry.podPort) IN
  /\ pc[MainThread] = "clean"
  /\ i \in todo[MainThread]
  /\ \/ /\ Serves(i) = NoPort
        /\ done("stopped") /\ UNCHANGED <<service, disturbed>>
     \/ /\ Serves(i) # NoPort /\ KubeMayFail
        /\ done("stopped") /\ UNCHANGED service /\ Disturb({i.job})
     \/ /\ Serves(i) # NoPort
        /\ done("stopped") /\ SetService(i, NoPort) /\ Disturb(Overtaken(MainThread, i))
     \/ /\ Serves(i) # NoPort /\ KubeMayFail
        /\ done(DeleteFailed) /\ UNCHANGED <<service, disturbed>>
  /\ Loop(MainThread, todo[MainThread] \ {i})
  /\ Goto(MainThread, "update")
  /\ UNCHANGED <<jobVars, doc, server, read, restVars>>

(***************************************************************************)
(* start_endpoints_by_thread: a round per endpoint that the job's worker   *)
(* was given.  The first round creates the service and chooses a port, a   *)
(* later one starts the server; any exception leaves the endpoint as it is *)
(* for a later worker.                                                     *)
(***************************************************************************)
WorkerCheck(j, i) ==
  LET w == Worker(j) IN
  /\ pc[w] = "check" /\ LockFree
  /\ i \in todo[w]
  /\ Loop(w, todo[w] \ {i})
  /\ \/ jobStatus[j] = "running" /\ Goto(w, "kube") /\ item' = [item EXCEPT ![w] = i]
     \/ (jobStatus[j] # "running" \/ DbMayFail) /\ UNCHANGED <<pc, item>>
  /\ UNCHANGED <<jobVars, doc, kubeVars, read, restVars, disturbed>>

\* The thread ends and clear_done_job_id forgets it.
WorkerEnds(j) ==
  /\ pc[Worker(j)] = "check"
  /\ todo[Worker(j)] = {}
  /\ Goto(Worker(j), "idle")
  /\ UNCHANGED <<jobVars, doc, kubeVars, todo, item, read, restVars, disturbed>>

StartServer(j) ==
  LET w == Worker(j)
      i == item[w]
      p == i.entry.podPort IN
  /\ pc[w] = "kube"
  /\ Serves(i) # NoPort /\ p # NoPort /\ j \in pods
  /\ server' = [server EXCEPT ![j][i.name] = p]
  /\ \/ /\ \E status \in {"running", "pending"} : Hold(w, i, status, p)
        /\ Goto(w, "update")
     \/ KubeMayFail /\ item' = [item EXCEPT ![w] = NoItem] /\ Goto(w, "check")
  /\ UNCHANGED <<jobVars, doc, service, todo, read, restVars, disturbed>>

\* create_node_port.  kubectl_create returns the exception it caught, which
\* passes for success.
CreateService(j) ==
  LET w == Worker(j)
      i == item[w] IN
  /\ pc[w] = "kube"
  /\ \E p \in Ports :
       /\ Hold(w, i, i.entry.status, p)
       /\ \/ Serves(i) = NoPort /\ SetService(i, p) /\ Disturb(Overtaken(w, i))
          \/ Serves(i) = NoPort /\ KubeMayFail /\ UNCHANGED <<service, disturbed>>
          \/ Serves(i) # NoPort /\ KubeMayFail /\ UNCHANGED service /\ Disturb({j})
  /\ Goto(w, "update")
  /\ UNCHANGED <<jobVars, doc, server, todo, read, restVars>>

\* No podPort is a KeyError; without pods nothing can be executed in them.
WorkerFails(j) ==
  LET w == Worker(j) IN
  /\ pc[w] = "kube"
  /\ \/ KubeMayFail
     \/ Serves(item[w]) # NoPort /\ (item[w].entry.podPort = NoPort \/ j \notin pods)
  /\ Goto(w, "check")
  /\ item' = [item EXCEPT ![w] = NoItem]
  /\ UNCHANGED <<jobVars, doc, kubeVars, todo, read, restVars, disturbed>>

WorkerStep(j) ==
  \/ \E i \in todo[Worker(j)] : WorkerCheck(j, i)
  \/ WorkerEnds(j) \/ StartServer(j) \/ CreateService(j) \/ WorkerFails(j)

\* kubectl_exec has no timeout: what it runs, an apt-get or a pip install in the
\* pod for one, may never return.  A call that returns late is one in "kube".
CallHangs(j) ==
  /\ pc[Worker(j)] = "kube"
  /\ Goto(Worker(j), "hung")
  /\ UNCHANGED <<jobVars, doc, kubeVars, todo, item, read, restVars, disturbed>>

-----------------------------------------------------------------------------
(***************************************************************************)
(* The endpoint manager dies, or cluster_manager kills it because its loop *)
(* does not beat, and is started again.  Its threads end wherever they     *)
(* are: a worker that has created a service and not yet recorded its port  *)
(* leaves a service on a port that nobody knows.                           *)
(***************************************************************************)
PortLost(j) == \E n \in Names : service[j][n] \notin {NoPort, doc[j][n].podPort}

ManagerDies ==
  LET Process == {MainThread} \cup Lockers
      fresh(f, none) == [a \in Actors |-> IF a \in Process THEN none ELSE f[a]] IN
  /\ pc' = [fresh(pc, "idle") EXCEPT ![MainThread] = "down"]
  /\ todo' = fresh(todo, {})
  /\ item' = fresh(item, NoItem)
  /\ read' = fresh(read, EmptyDocument)
  /\ Disturb({j \in Jobs : PortLost(j)})
  /\ UNCHANGED <<jobVars, doc, kubeVars, restVars>>

ManagerStarts ==
  /\ pc[MainThread] = "down"
  /\ Goto(MainThread, "clean")
  /\ UNCHANGED <<jobVars, doc, kubeVars, todo, item, read, restVars, disturbed>>

-----------------------------------------------------------------------------
(***************************************************************************)
(* submit_job_impl, and UpdateJobStatus for pods that were lost: "before   *)
(* resubmit the job, reset the endpoints", one UpdateEndpoint for each.    *)
(***************************************************************************)
\* (Mutant: endpoints are left as they are.)
ResetNothing(j) == {}
ToReset(j) == Read(j, InState(j, Known))

ResetBegin(a, j) ==
  /\ pc[a] = "idle"
  /\ j \notin pods
  /\ \/ a = Submitter(j) /\ jobStatus[j] = "queued" /\ attempt[j] < MaxAttempts
     \/ a = Reviver(j) /\ jobStatus[j] = "running"
  /\ \/ Loop(a, ToReset(j)) /\ UNCHANGED disturbed
     \/ DbMayFail /\ Loop(a, {}) /\ Disturb({j})
  /\ Goto(a, "reset")
  /\ UNCHANGED <<jobVars, doc, kubeVars, item, read, restVars>>

ResetNext(a, i) ==
  /\ pc[a] = "reset"
  /\ i \in todo[a]
  /\ Loop(a, todo[a] \ {i})
  /\ Hold(a, i, "pending", i.entry.podPort)
  /\ Goto(a, "update")
  /\ UNCHANGED <<jobVars, doc, kubeVars, read, restVars, disturbed>>

SetStatus(j, s) == jobStatus' = [jobStatus EXCEPT ![j] = s]

\* The pods are created and the job is "scheduling", whatever it was meanwhile.
\* After an exception there may be pods, but the status is not written.
SubmitEnd(j) ==
  /\ pc[Submitter(j)] = "reset"
  /\ todo[Submitter(j)] = {}
  /\ Goto(Submitter(j), "idle")
  /\ \/ /\ SetStatus(j, "scheduling") \/ (KubeMayFail /\ UNCHANGED jobStatus)
        /\ pods' = pods \cup {j}
        /\ attempt' = [attempt EXCEPT ![j] = @ + 1]
        /\ takenDown' = takenDown \ {j}
        /\ server' = [server EXCEPT ![j] = NoPorts]
     \/ KubeMayFail /\ UNCHANGED <<jobVars, server>>
  /\ UNCHANGED <<doc, service, todo, item, read, restVars, disturbed>>

(***************************************************************************)
(* delete_job: pods are told to end, and every service with the label      *)
(* run=jobId is deleted, the endpoints' own among them; where a call fails *)
(* some services stay.  The status of the job is written before (an end),  *)
(* later (a kill, a preemption) or, if there were errors, not at all.      *)
(***************************************************************************)
DeleteServices(j) ==
  /\ \E S \in SUBSET Names :
       /\ KubeMayFail \/ S = Names
       /\ service' = [service EXCEPT ![j] =
                         [n \in Names |-> IF n \in S THEN NoPort ELSE service[j][n]]]
  /\ takenDown' = takenDown \cup {j}

\* launcher.kill_job(jobId, "queued"): the status follows in JobStep.
ReviveEnd(j) ==
  /\ pc[Reviver(j)] = "reset"
  /\ todo[Reviver(j)] = {}
  /\ Goto(Reviver(j), "idle")
  /\ DeleteServices(j)
  /\ UNCHANGED <<jobStatus, pods, attempt, doc, server, todo, item, read, restVars,
                 disturbed>>

ResetStep(j) ==
  \/ \E a \in {Submitter(j), Reviver(j)} :
       ResetBegin(a, j) \/ \E i \in todo[a] : ResetNext(a, i)
  \/ SubmitEnd(j) \/ ReviveEnd(j)

-----------------------------------------------------------------------------
(***************************************************************************)
(* UpdateEndpoints of the REST API: adds the requested endpoints that are  *)
(* not in the document it has read, and writes the document.               *)
(***************************************************************************)
RestRead(j, S) ==
  /\ issued < MaxRequests
  /\ issued' = issued + 1
  /\ requests' = requests \cup {[id |-> issued, job |-> j, names |-> S, read |-> doc[j]]}
  /\ UNCHANGED <<jobVars, doc, kubeVars, threadVars, disturbed>>

Added(r) ==
  [n \in Names |-> IF n \in r.names /\ r.read[n].status = "none" THEN NewEntry ELSE r.read[n]]

RestWrite(r) ==
  /\ requests' = requests \ {r}
  /\ doc' = [doc EXCEPT ![r.job] = Added(r)]
  /\ Disturb(IF r.read # doc[r.job] THEN {r.job} ELSE {})
  /\ UNCHANGED <<jobVars, kubeVars, threadVars, issued>>

-----------------------------------------------------------------------------
(***************************************************************************)
(* The rest of the platform, as far as endpoints can tell.                 *)
(***************************************************************************)
\* Any other delete_job: a kill or a pause, a time limit, preemption, the clean-up
\* of a job that ended or could not be submitted, pods left from an earlier attempt.
\* Before the first submission there is nothing to delete.
DeleteJob(j) ==
  /\ attempt[j] > 0
  /\ DeleteServices(j)
  /\ UNCHANGED <<jobStatus, pods, attempt, doc, server, threadVars, restVars, disturbed>>

NewStatus(j, from, to) ==
  jobStatus[j] \in from /\ SetStatus(j, to) /\ UNCHANGED pods

\* Pods that are being deleted, that ended, or that are lost.
PodsGo(j) ==
  /\ j \in pods
  /\ \/ jobStatus[j] \in {"stopped", "queued"} \/ j \in takenDown
     \/ jobStatus[j] = "running" /\ attempt[j] < MaxAttempts
  /\ pods' = pods \ {j}
  /\ UNCHANGED jobStatus

\* A running job is queued again only by a kill with that desired state, one that
\* is being scheduled also because its pods were refused.
JobStep(j) ==
  /\ \/ j \in pods /\ NewStatus(j, {"scheduling"}, "running")
     \/ NewStatus(j, {"queued", "scheduling", "running"}, "stopped")
     \/ NewStatus(j, {"scheduling"}, "queued")
     \/ j \in takenDown /\ NewStatus(j, {"running"}, "queued")
     \/ attempt[j] < MaxAttempts /\ NewStatus(j, {"stopped"}, "queued")
     \/ PodsGo(j)
  /\ UNCHANGED <<attempt, takenDown, doc, kubeVars, threadVars, restVars, disturbed>>

MainStep ==
  \/ ManagerStarts \/ GetPendingEndpoints \/ GetDeadEndpoints
  \/ \E j \in Jobs : StartThread(j)
  \/ \E i \in todo[MainThread] : CleanService(i)

Update(a) == UpdateRead(a) \/ UpdateWrite(a)

Next ==
  \/ MainStep \/ ManagerDies
  \/ \E j \in Jobs : WorkerStep(j) \/ CallHangs(j) \/ ResetStep(j) \/ DeleteJob(j) \/ JobStep(j)
  \/ \E a \in Actors : Update(a)
  \/ \E j \in Jobs, S \in SUBSET Names \ {{}} : RestRead(j, S)
  \/ \E r \in requests : RestWrite(r)

Spec == Init /\ [][Next]_vars

-----------------------------------------------------------------------------
TypeOK ==
  /\ jobStatus \in [Jobs -> {"queued", "scheduling", "running", "stopped"}]
  /\ pods \subseteq Jobs
  /\ attempt \in [Jobs -> 0..MaxAttempts]
  /\ takenDown \subseteq Jobs
  /\ doc \in [Jobs -> Document]
  /\ service \in [Jobs -> [Names -> Ports \cup {NoPort}]]
  /\ server \in [Jobs -> [Names -> Ports \cup {NoPort}]]
  /\ pc \in [Actors -> Pc]
  /\ todo \in [Actors -> SUBSET Item]
  /\ item \in [Actors -> Item]
  /\ read \in [Actors -> Document]
  /\ requests \subseteq [id : 0..MaxRequests, job : Jobs, names : SUBSET Names, read : Document]
  /\ issued \in 0..MaxRequests
  /\ disturbed \subseteq Jobs

(***************************************************************************)
(* A job is disturbed when somebody writes its document, or creates or     *)
(* deletes a service, on the strength of something read before another     *)
(* write or another submission; when a failed statement loses a document   *)
(* or an update; when a failed kubectl call passes for "there is none";    *)
(* and when the endpoint manager is killed before it has recorded the port *)
(* of a service.  Endpoints of any other job are what their status says,   *)
(* although five kinds of processes rewrite the document without a         *)
(* transaction -- as long as delete_job, which writes no document, has not *)
(* been called: from then on a job may be "running", with endpoints that   *)
(* are "running", and have no services.                                    *)
(***************************************************************************)
ActiveJobs == {j \in Jobs : jobStatus[j] \in {"scheduling", "running"}} \ takenDown

\* A running endpoint of a running job that is not being taken down has its server
\* in the pods of the present submission, on the port the service forwards to.
RunningIsServed ==
  \A j \in ActiveJobs \ disturbed, n \in Names :
    jobStatus[j] = "running" /\ doc[j][n].status = "running"
      => /\ service[j][n] = doc[j][n].podPort
         /\ server[j][n] = service[j][n]

\* A stopped endpoint has no service left.
StoppedIsGone ==
  \A j \in Jobs \ disturbed, n \in Names :
    doc[j][n].status = "stopped" => service[j][n] = NoPort

\* What the platform promises of an endpoint is EndpointLife; the endpoints of a
\* disturbed job have left it, and a job that is being taken down is not active.
Life == INSTANCE EndpointLife WITH
  stage  <- [j \in Jobs |->
               [n \in Names |-> IF j \in disturbed THEN "other" ELSE doc[j][n].status]],
  open   <- {e \in (Jobs \ disturbed) \X Names : service[e[1]][e[2]] # NoPort},
  active <- ActiveJobs,
  pods   <- pods

\* The loop of the endpoint manager, its threads and its restarts, the REST API, the
\* launcher and the job manager implement it, although each of them writes back whole
\* documents, or takes services away without looking at them.
EndpointsLiveAsPromised == Life!Spec

\* An endpoint the user asked for comes up if the job keeps running and nobody takes
\* it down, unless a call of its worker hangs; a restart of the endpoint manager,
\* which ends such a call, does not prevent it.
EndpointComesUp ==
  \A j \in Jobs, n \in Names :
    (jobStatus[j] = "running" /\ doc[j][n].status = "pending")
      ~> \/ doc[j][n].status = "running" \/ jobStatus[j] # "running"
         \/ j \in takenDown \/ pc[Worker(j)] = "hung" \/ j \in disturbed

\* A running endpoint of a job that has ended or is paused is cleaned up.
DeadIsCleaned ==
  \A j \in Jobs, n \in Names :
    (jobStatus[j] = "stopped" /\ doc[j][n].status = "running")
      ~> (doc[j][n].status # "running" \/ jobStatus[j] # "stopped" \/ j \in disturbed)

-----------------------------------------------------------------------------
(***************************************************************************)
(* Fairness.  Run never returns and never waits for a worker; a manager    *)
(* that is killed is started again, and is not killed for ever.  A worker  *)
(* whose call does not hang, the launcher and the job manager go on.  A    *)
(* server that is started often enough becomes ready, and neither the      *)
(* database nor Kubernetes fails every time.  Users, requests and the life *)
(* of the job are not fair, and a call that hangs never returns.           *)
(***************************************************************************)
Begun(j, n) ==
  \E i \in todo[Worker(j)] :
    i.name = n /\ WorkerCheck(j, i) /\ pc'[Worker(j)] = "kube"
ServerReady(j, n) ==
  /\ item[Worker(j)].name = n
  /\ StartServer(j)
  /\ item'[Worker(j)].new.status = "running"
ServiceCreated(j, n) ==
  /\ item[Worker(j)].name = n
  /\ CreateService(j)
  /\ service'[j][n] # NoPort
Cleaned(j) == UpdateWrite(MainThread) /\ doc'[j] # doc[j]

Fairness ==
  /\ <>[][~ManagerDies]_vars
  /\ WF_vars(MainStep \/ Update(MainThread))
  /\ \A j \in Jobs :
       /\ WF_vars(WorkerStep(j) \/ Update(Worker(j)))
       /\ WF_vars(ResetStep(j) \/ Update(Submitter(j)) \/ Update(Reviver(j)))
       /\ SF_vars(Cleaned(j))
       /\ \A n \in Names : /\ SF_vars(Begun(j, n))
                            /\ SF_vars(ServiceCreated(j, n))
                            /\ SF_vars(ServerReady(j, n))

FairSpec == Spec /\ Fairness
=============================================================================
