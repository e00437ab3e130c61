--------------------------- MODULE EndpointsProofs --------------------------
(***************************************************************************)
(* Theorems about Endpoints, for any jobs, endpoints, ports, submissions   *)
(* and requests, whatever fails, hangs or dies.                            *)
(***************************************************************************)
EXTENDS Endpoints, TLAPS

(***************************************************************************)
(* Actors have different names.  Below, the names are not looked into.     *)
(***************************************************************************)
LEMMA ActorNames ==
  /\ MainThread \in Actors
  /\ \A j \in Jobs :
       /\ {Worker(j), Submitter(j), Reviver(j)} \subseteq Actors
       /\ MainThread \notin {Worker(j), Submitter(j), Reviver(j)}
       /\ Worker(j) \notin {Submitter(j), Reviver(j)} /\ Submitter(j) # Reviver(j)
  /\ \A j, k \in Jobs :
       /\ Worker(j) = Worker(k) \/ Submitter(j) = Submitter(k) \/ Reviver(j) = Reviver(k) => j = k
       /\ Worker(j) \notin {Submitter(k), Reviver(k)} /\ Submitter(j) # Reviver(k)
  /\ \A a \in Actors :
       a = MainThread \/ \E j \in Jobs : a \in {Worker(j), Submitter(j), Reviver(j)}
  BY DEF Actors, MainThread, Worker, Submitter, Reviver

-----------------------------------------------------------------------------
(***************************************************************************)
(* Types.                                                                  *)
(***************************************************************************)
LEMMA NewTypes ==
  /\ NoEntry \in Entry /\ NewEntry \in Entry /\ EmptyDocument \in Document
  /\ NoItem \in Item
  /\ NoPorts \in [Names -> Ports \cup {NoPort}]
<1>1. NoEntry \in Entry /\ NewEntry \in Entry
  BY DEF NoEntry, NewEntry, Entry
<1>2. EmptyDocument \in Document
  BY <1>1 DEF EmptyDocument, Document
<1>3. NoItem \in Item
  <2>1. [job : Jobs, name : Names, attempt : {0}, entry : {NoEntry}, new : {NoEntry}] \subseteq Item
    BY <1>1 DEF Item
  <2>2. PICK j \in Jobs, n \in Names : TRUE
    BY SomeAssumption
  <2>3. [job |-> j, name |-> n, attempt |-> 0, entry |-> NoEntry, new |-> NoEntry]
          \in [job : Jobs, name : Names, attempt : {0}, entry : {NoEntry}, new : {NoEntry}]
    OBVIOUS
  <2>4. NoItem \in [job : Jobs, name : Names, attempt : {0}, entry : {NoEntry}, new : {NoEntry}]
    BY <2>3 DEF NoItem
  <2> QED
    BY <2>1, <2>4
<1>4. NoPorts \in [Names -> Ports \cup {NoPort}]
  BY DEF NoPorts
<1> QED
  BY <1>1, <1>2, <1>3, <1>4

LEMMA InitType == Init => TypeOK
<1> SUFFICES ASSUME Init PROVE TypeOK
  OBVIOUS
<1> USE NewTypes DEF Init
<1>1. /\ jobStatus \in [Jobs -> {"queued", "scheduling", "running", "stopped"}]
      /\ pods \subseteq Jobs /\ takenDown \subseteq Jobs /\ requests = {} /\ disturbed \subseteq Jobs
  OBVIOUS
<1>2. attempt \in [Jobs -> 0..MaxAttempts] /\ issued \in 0..MaxRequests
  BY BoundAssumption
<1>3. doc \in [Jobs -> Document]
  OBVIOUS
<1>4. /\ service \in [Jobs -> [Names -> Ports \cup {NoPort}]]
      /\ server \in [Jobs -> [Names -> Ports \cup {NoPort}]]
  OBVIOUS
<1>5. pc \in [Actors -> Pc]
  BY DEF Pc
<1>6. /\ todo \in [Actors -> SUBSET Item]
      /\ item \in [Actors -> Item] /\ read \in [Actors -> Document]
  OBVIOUS
<1> QED
  BY <1>1, <1>2, <1>3, <1>4, <1>5, <1>6 DEF TypeOK

LEMMA ReadType ==
  ASSUME TypeOK, NEW j \in Jobs, NEW S \in SUBSET Names
  PROVE  Read(j, S) \subseteq Item
<1> SUFFICES ASSUME NEW n \in S
             PROVE  [job |-> j, name |-> n, attempt |-> attempt[j], entry |-> doc[j][n],
                     new |-> doc[j][n]] \in Item
  BY DEF Read
<1>1. n \in Names /\ attempt[j] \in Nat
  BY BoundAssumption DEF TypeOK
<1>2. doc[j][n] \in Entry
  BY <1>1 DEF TypeOK, Document
<1> QED
  BY <1>1, <1>2 DEF Item

\* What an actor holds when it has decided about an endpoint.
LEMMA HoldType ==
  ASSUME NEW i \in Item, NEW status \in {"none", "pending", "running", "stopped", "unknown"},
         NEW port \in Ports \cup {NoPort}
  PROVE  [i EXCEPT !.new.status = status, !.new.podPort = port] \in Item
<1>1. [i.new EXCEPT !.status = status, !.podPort = port] \in Entry
  BY DEF Item, Entry
<1>2. [i EXCEPT !.new.status = status, !.new.podPort = port]
        = [i EXCEPT !.new = [i.new EXCEPT !.status = status, !.podPort = port]]
  BY DEF Item, Entry
<1> QED
  BY <1>1, <1>2 DEF Item

LEMMA ItemType ==
  ASSUME NEW i \in Item
  PROVE  /\ i.job \in Jobs /\ i.name \in Names /\ i.attempt \in Nat
         /\ i.entry \in Entry /\ i.new \in Entry
         /\ i.entry.podPort \in Ports \cup {NoPort}
         /\ i.entry.status \in {"none", "pending", "running", "stopped", "unknown"}
  BY DEF Item, Entry

\* What the actors of a job are made of.
LEMMA Held ==
  ASSUME TypeOK, NEW a \in Actors
  PROVE  /\ pc[a] \in Pc /\ item[a] \in Item /\ todo[a] \subseteq Item /\ read[a] \in Document
  BY DEF TypeOK

LEMMA OvertakenType ==
  ASSUME NEW a, NEW i \in Item
  PROVE  Overtaken(a, i) \subseteq Jobs
  BY ItemType DEF Overtaken

LEMMA PutType ==
  ASSUME NEW A, NEW B, NEW C, NEW f \in [A -> [B -> C]], NEW a \in A, NEW b \in B, NEW c \in C
  PROVE  [f EXCEPT ![a][b] = c] \in [A -> [B -> C]]
  OBVIOUS

LEMMA UpdateType ==
  ASSUME TypeOK, NEW a \in Actors, Update(a)
  PROVE  TypeOK'
<1> USE DEF Goto, Disturb, jobVars, kubeVars, restVars
<1>1. /\ item[a] \in Item /\ item[a].job \in Jobs /\ item[a].name \in Names
      /\ item[a].new \in Entry /\ read[a] \in Document
  BY Held, ItemType
<1>2. CASE UpdateRead(a)
  <2>1. doc[item[a].job] \in Document
    BY <1>1 DEF TypeOK
  <2>2. read' = [read EXCEPT ![a] = doc[item[a].job]] \/ read' = [read EXCEPT ![a] = EmptyDocument]
    BY <1>2 DEF UpdateRead
  <2>3. read' \in [Actors -> Document]
    BY <2>1, <2>2, NewTypes DEF TypeOK
  <2>4. disturbed' \subseteq Jobs
    BY <1>1, <1>2 DEF UpdateRead, TypeOK
  <2>5. pc' \in [Actors -> Pc]
    BY <1>2 DEF UpdateRead, Pc, TypeOK
  <2> QED
    BY <1>2, <2>3, <2>4, <2>5 DEF UpdateRead, TypeOK
<1>3. CASE UpdateWrite(a)
  <2>1. [read[a] EXCEPT ![item[a].name] = item[a].new] \in Document
    BY <1>1 DEF Document
  <2>2. Back(a) \in Pc
    BY DEF Back, Pc
  <2>3. Overtaken(a, item[a]) \subseteq Jobs
    BY <1>1, OvertakenType
  <2>4. doc' \in [Jobs -> Document] /\ disturbed' \subseteq Jobs
    BY <1>1, <1>3, <2>1, <2>3 DEF UpdateWrite, TypeOK
  <2>5. /\ pc' \in [Actors -> Pc] /\ item' \in [Actors -> Item] /\ read' \in [Actors -> Document]
    BY <1>3, <2>2, NewTypes DEF UpdateWrite, TypeOK
  <2> QED
    BY <1>3, <2>4, <2>5 DEF UpdateWrite, TypeOK
<1> QED
  BY <1>2, <1>3 DEF Update

LEMMA MainType ==
  ASSUME TypeOK, MainStep
  PROVE  TypeOK'
<1> USE DEF Goto, Loop, Disturb, jobVars, kubeVars, threadVars, restVars
<1>a. MainThread \in Actors /\ \A j \in Jobs : Worker(j) \in Actors
  BY ActorNames
<1>0. CASE ManagerStarts
  BY <1>0 DEF ManagerStarts, Pc, TypeOK
<1>1. CASE GetPendingEndpoints
  <2>1. \A j \in Jobs : Read(j, InState(j, {"pending"})) \subseteq Item
    BY ReadType DEF InState
  <2>2. UNION {Read(j, InState(j, {"pending"})) : j \in JobsToServe} \subseteq Item
    BY <2>1 DEF JobsToServe
  <2>3. todo' \in [Actors -> SUBSET Item]
    BY <1>1, <2>2 DEF GetPendingEndpoints, TypeOK
  <2>4. pc' \in [Actors -> Pc]
    BY <1>1 DEF GetPendingEndpoints, Pc, TypeOK
  <2> QED
    BY <1>1, <2>3, <2>4 DEF GetPendingEndpoints, TypeOK
<1>2. CASE GetDeadEndpoints
  <2>1. \A j \in Jobs : Read(j, InState(j, {"running"})) \subseteq Item
    BY ReadType DEF InState
  <2>2. UNION {Read(j, InState(j, {"running"})) : j \in JobsToClean} \subseteq Item
    BY <2>1 DEF JobsToClean
  <2>3. todo' \in [Actors -> SUBSET Item]
    BY <1>2, <2>2 DEF GetDeadEndpoints, TypeOK
  <2>4. pc' \in [Actors -> Pc]
    BY <1>2 DEF GetDeadEndpoints, Pc, TypeOK
  <2> QED
    BY <1>2, <2>3, <2>4 DEF GetDeadEndpoints, TypeOK
<1>3. ASSUME NEW j \in Jobs, StartThread(j) PROVE TypeOK'
  <2>1. {i \in todo[MainThread] : i.job = j} \subseteq Item
    BY <1>a, Held
  <2>2. todo' \in [Actors -> SUBSET Item]
    BY <1>a, <1>3, <2>1 DEF StartThread, TypeOK
  <2>3. pc' \in [Actors -> Pc]
    BY <1>3 DEF StartThread, Pc, TypeOK
  <2> QED
    BY <1>3, <2>2, <2>3 DEF StartThread, TypeOK
<1>4. ASSUME NEW i \in todo[MainThread], CleanService(i) PROVE TypeOK'
  <2>1. i \in Item
    BY <1>a, Held
  <2>2. \A s \in {"stopped", "unknown"} :
          [i EXCEPT !.new.status = s, !.new.podPort = i.entry.podPort] \in Item
    BY <2>1, HoldType, ItemType
  <2>3. item' \in [Actors -> Item]
    BY <1>4, <2>2 DEF CleanService, Hold, DeleteFailed, TypeOK
  <2>4. disturbed' \subseteq Jobs
    BY <1>4, <2>1, ItemType, OvertakenType DEF CleanService, TypeOK
  <2>5. service' \in [Jobs -> [Names -> Ports \cup {NoPort}]]
    <3>1. [service EXCEPT ![i.job][i.name] = NoPort] \in [Jobs -> [Names -> Ports \cup {NoPort}]]
      <4>1. i.job \in Jobs /\ i.name \in Names /\ NoPort \in Ports \cup {NoPort}
        BY <2>1, ItemType
      <4>2. service \in [Jobs -> [Names -> Ports \cup {NoPort}]]
        BY DEF TypeOK
      <4> QED
        BY <4>1, <4>2, PutType
    <3>2. service' = service \/ service' = [service EXCEPT ![i.job][i.name] = NoPort]
      BY <1>4 DEF CleanService, SetService
    <3> QED
      BY <3>1, <3>2 DEF TypeOK
  <2>6. pc' \in [Actors -> Pc] /\ todo' \in [Actors -> SUBSET Item]
    BY <1>4 DEF CleanService, Pc, TypeOK
  <2> QED
    BY <1>4, <2>3, <2>4, <2>5, <2>6 DEF CleanService, TypeOK
<1> QED
  BY <1>0, <1>1, <1>2, <1>3, <1>4 DEF MainStep

LEMMA WorkerType ==
  ASSUME TypeOK, NEW j \in Jobs, WorkerStep(j)
  PROVE  TypeOK'
<1> DEFINE w == Worker(j)
           i == item[w]
<1> USE DEF Goto, Loop, Disturb, jobVars, kubeVars, threadVars, restVars
<1>1. w \in Actors
  BY ActorNames
<1>2. i \in Item /\ i.name \in Names /\ i.job \in Jobs /\ i.entry.podPort \in Ports \cup {NoPort}
      /\ i.entry.status \in {"none", "pending", "running", "stopped", "unknown"}
  BY <1>1, Held, ItemType
<1>3. ASSUME NEW x \in todo[w], WorkerCheck(j, x) PROVE TypeOK'
  <2>1. x \in Item
    BY <1>1, Held
  <2>2. pc' \in [Actors -> Pc] /\ todo' \in [Actors -> SUBSET Item] /\ item' \in [Actors -> Item]
    BY <1>3, <2>1 DEF WorkerCheck, Pc, TypeOK
  <2> QED
    BY <1>3, <2>2 DEF WorkerCheck, TypeOK
<1>4. CASE WorkerEnds(j)
  <2>1. pc' \in [Actors -> Pc]
    BY <1>4 DEF WorkerEnds, Pc, TypeOK
  <2> QED
    BY <1>4, <2>1 DEF WorkerEnds, TypeOK
<1>5. CASE StartServer(j)
  <2>1. \A s \in {"running", "pending"} :
          [i EXCEPT !.new.status = s, !.new.podPort = i.entry.podPort] \in Item
    BY <1>2, HoldType
  <2>2. item' \in [Actors -> Item]
    <3>1. \/ item' = [item EXCEPT ![w] = NoItem]
          \/ \E s \in {"running", "pending"} : item' =
               [item EXCEPT ![w] = [i EXCEPT !.new.status = s, !.new.podPort = i.entry.podPort]]
      BY <1>5 DEF StartServer, Hold
    <3>2. item \in [Actors -> Item] /\ NoItem \in Item
      BY NewTypes DEF TypeOK
    <3> QED
      BY <2>1, <3>1, <3>2
  <2>3. pc' \in [Actors -> Pc]
    BY <1>5 DEF StartServer, Pc, TypeOK
  <2>4. server' \in [Jobs -> [Names -> Ports \cup {NoPort}]]
    BY <1>2, <1>5, PutType DEF StartServer, TypeOK
  <2> QED
    BY <1>5, <2>2, <2>3, <2>4 DEF StartServer, TypeOK
<1>6. CASE CreateService(j)
  <2>1. \A p \in Ports :
          [i EXCEPT !.new.status = i.entry.status, !.new.podPort = p] \in Item
    BY <1>2, HoldType
  <2>2. item' \in [Actors -> Item]
    BY <1>6, <2>1 DEF CreateService, Hold, TypeOK
  <2>3. pc' \in [Actors -> Pc]
    BY <1>6 DEF CreateService, Pc, TypeOK
  <2>4. service' \in [Jobs -> [Names -> Ports \cup {NoPort}]]
    <3>1. \A p \in Ports :
            [service EXCEPT ![i.job][i.name] = p] \in [Jobs -> [Names -> Ports \cup {NoPort}]]
      BY <1>2, PutType DEF TypeOK
    <3> QED
      BY <1>6, <3>1 DEF CreateService, SetService, TypeOK
  <2>5. disturbed' \subseteq Jobs
    BY <1>2, <1>6, OvertakenType DEF CreateService, TypeOK
  <2> QED
    BY <1>6, <2>2, <2>3, <2>4, <2>5 DEF CreateService, TypeOK
<1>7. CASE WorkerFails(j)
  <2>1. pc' \in [Actors -> Pc] /\ item' \in [Actors -> Item]
    BY <1>7, NewTypes DEF WorkerFails, Pc, TypeOK
  <2> QED
    BY <1>7, <2>1 DEF WorkerFails, TypeOK
<1> QED
  BY <1>3, <1>4, <1>5, <1>6, <1>7 DEF WorkerStep

LEMMA ManagerType ==
  ASSUME TypeOK
  PROVE  /\ ManagerDies => TypeOK'
         /\ \A j \in Jobs : CallHangs(j) => TypeOK'
<1> USE NewTypes DEF Goto, Disturb, jobVars, kubeVars, restVars
<1>1. ASSUME ManagerDies PROVE TypeOK'
  <2>1. pc' \in [Actors -> Pc]
    BY <1>1 DEF ManagerDies, Pc, TypeOK
  <2>2. /\ todo' \in [Actors -> SUBSET Item] /\ item' \in [Actors -> Item]
        /\ read' \in [Actors -> Document]
    BY <1>1 DEF ManagerDies, TypeOK
  <2> QED
    BY <1>1, <2>1, <2>2 DEF ManagerDies, TypeOK
<1>2. ASSUME NEW j \in Jobs, CallHangs(j) PROVE TypeOK'
  BY <1>2 DEF CallHangs, Pc, TypeOK
<1> QED
  BY <1>1, <1>2

LEMMA DeleteServicesType ==
  ASSUME TypeOK, NEW j \in Jobs, DeleteServices(j)
  PROVE  /\ service' \in [Jobs -> [Names -> Ports \cup {NoPort}]]
         /\ takenDown' \subseteq Jobs
<1>1. PICK S \in SUBSET Names :
        service' = [service EXCEPT ![j] = [n \in Names |-> IF n \in S THEN NoPort ELSE service[j][n]]]
  BY DEF DeleteServices
<1>2. [n \in Names |-> IF n \in S THEN NoPort ELSE service[j][n]] \in [Names -> Ports \cup {NoPort}]
  BY DEF TypeOK
<1> QED
  BY <1>1, <1>2 DEF DeleteServices, TypeOK

\* A job that is being submitted has a submission left.
Room == \A j \in Jobs : pc[Submitter(j)] # "idle" => attempt[j] < MaxAttempts

LEMMA ResetType ==
  ASSUME TypeOK, Room, NEW j \in Jobs, ResetStep(j)
  PROVE  TypeOK'
<1> USE DEF Goto, Loop, Disturb, jobVars, kubeVars, threadVars, restVars
<1>a. {Submitter(j), Reviver(j)} \subseteq Actors
  BY ActorNames
<1>1. ASSUME NEW a \in {Submitter(j), Reviver(j)}, ResetBegin(a, j) PROVE TypeOK'
  <2>1. ToReset(j) \subseteq Item
    BY ReadType DEF ToReset, InState
  <2>2. todo' \in [Actors -> SUBSET Item] /\ disturbed' \subseteq Jobs
    BY <1>1, <2>1 DEF ResetBegin, TypeOK
  <2>3. pc' \in [Actors -> Pc]
    BY <1>1 DEF ResetBegin, Pc, TypeOK
  <2> QED
    BY <1>1, <2>2, <2>3 DEF ResetBegin, TypeOK
<1>2. ASSUME NEW a \in {Submitter(j), Reviver(j)}, NEW i \in todo[a], ResetNext(a, i) PROVE TypeOK'
  <2>1. i \in Item
    BY <1>a, Held
  <2>2. [i EXCEPT !.new.status = "pending", !.new.podPort = i.entry.podPort] \in Item
    BY <2>1, HoldType, ItemType
  <2>3. item' \in [Actors -> Item]
    BY <1>2, <2>2 DEF ResetNext, Hold, TypeOK
  <2>4. pc' \in [Actors -> Pc] /\ todo' \in [Actors -> SUBSET Item]
    BY <1>2 DEF ResetNext, Pc, TypeOK
  <2> QED
    BY <1>2, <2>3, <2>4 DEF ResetNext, TypeOK
<1>3. CASE SubmitEnd(j)
  <2>1. pc' \in [Actors -> Pc]
    BY <1>3 DEF SubmitEnd, Pc, TypeOK
  <2>2. attempt' \in [Jobs -> 0..MaxAttempts]
    <3>0. attempt' = attempt \/ attempt' = [attempt EXCEPT ![j] = @ + 1]
      BY <1>3 DEF SubmitEnd
    <3>1. attempt[j] \in 0..MaxAttempts /\ attempt[j] < MaxAttempts
      BY <1>3 DEF SubmitEnd, Room, TypeOK
    <3>2. attempt[j] + 1 \in 0..MaxAttempts
      BY <3>1, BoundAssumption
    <3> QED
      BY <3>0, <3>2 DEF TypeOK
  <2>3. /\ jobStatus' \in [Jobs -> {"queued", "scheduling", "running", "stopped"}]
        /\ pods' \subseteq Jobs /\ takenDown' \subseteq Jobs
    <3>1. /\ jobStatus' \in {jobStatus, [jobStatus EXCEPT ![j] = "scheduling"]}
          /\ pods' \in {pods, pods \cup {j}} /\ takenDown' \in {takenDown, takenDown \ {j}}
      BY <1>3 DEF SubmitEnd, SetStatus
    <3> QED
      BY <3>1 DEF TypeOK
  <2>4. server' \in [Jobs -> [Names -> Ports \cup {NoPort}]]
    <3>1. server' \in {server, [server EXCEPT ![j] = NoPorts]}
      BY <1>3 DEF SubmitEnd
    <3> QED
      BY <3>1, NewTypes DEF TypeOK
  <2> QED
    BY <1>3, <2>1, <2>2, <2>3, <2>4 DEF SubmitEnd, TypeOK
<1>4. CASE ReviveEnd(j)
  <2>1. pc' \in [Actors -> Pc]
    BY <1>4 DEF ReviveEnd, Pc, TypeOK
  <2>2. /\ service' \in [Jobs -> [Names -> Ports \cup {NoPort}]]
        /\ takenDown' \subseteq Jobs
    BY <1>4, DeleteServicesType DEF ReviveEnd
  <2> QED
    BY <1>4, <2>1, <2>2 DEF ReviveEnd, TypeOK
<1> QED
  BY <1>1, <1>2, <1>3, <1>4 DEF ResetStep

LEMMA RestType ==
  ASSUME TypeOK
  PROVE  /\ \A j \in Jobs, S \in SUBSET Names : RestRead(j, S) => TypeOK'
         /\ \A r \in requests : RestWrite(r) => TypeOK'
         /\ \A j \in Jobs : JobStep(j) \/ DeleteJob(j) => TypeOK'
<1> USE BoundAssumption DEF TypeOK, Disturb, jobVars, kubeVars, threadVars, restVars
<1>1. ASSUME NEW j \in Jobs, NEW S \in SUBSET Names, RestRead(j, S) PROVE TypeOK'
  <2>1. [id |-> issued, job |-> j, names |-> S, read |-> doc[j]]
          \in [id : 0..MaxRequests, job : Jobs, names : SUBSET Names, read : Document]
    OBVIOUS
  <2> QED
    BY <1>1, <2>1 DEF RestRead
<1>2. ASSUME NEW r \in requests, RestWrite(r) PROVE TypeOK'
  <2>1. Added(r) \in Document
    BY NewTypes DEF Added, Document
  <2> QED
    BY <1>2, <2>1 DEF RestWrite
<1>3. ASSUME NEW j \in Jobs, JobStep(j) PROVE TypeOK'
  BY <1>3 DEF JobStep, NewStatus, SetStatus, PodsGo
<1>4. ASSUME NEW j \in Jobs, DeleteJob(j) PROVE TypeOK'
  <2>1. /\ service' \in [Jobs -> [Names -> Ports \cup {NoPort}]]
        /\ takenDown' \subseteq Jobs
    BY <1>4, DeleteServicesType DEF DeleteJob
  <2> QED
    BY <1>4, <2>1 DEF DeleteJob
<1> QED
  BY <1>1, <1>2, <1>3, <1>4

LEMMA NextRoom == TypeOK /\ Room /\ Next => Room'
<1> SUFFICES ASSUME TypeOK, Room, Next PROVE Room'
  OBVIOUS
<1> USE ActorNames DEF Room, Goto, jobVars, threadVars
<1>1. CASE MainStep
  <2>1. ASSUME NEW j \in Jobs, StartThread(j) PROVE Room'
    BY <2>1 DEF StartThread, TypeOK
  <2>2. ASSUME NEW i \in todo[MainThread], CleanService(i) PROVE Room'
    BY <2>2 DEF CleanService, TypeOK
  <2> QED
    BY <1>1, <2>1, <2>2 DEF MainStep, ManagerStarts, GetPendingEndpoints, GetDeadEndpoints, TypeOK
<1>2. ASSUME NEW j \in Jobs, WorkerStep(j) PROVE Room'
  <2>1. attempt' = attempt /\ \A k \in Jobs : pc'[Submitter(k)] = pc[Submitter(k)]
    <3>1. ASSUME NEW i \in todo[Worker(j)], WorkerCheck(j, i)
          PROVE  attempt' = attempt /\ (pc' = pc \/ pc' = [pc EXCEPT ![Worker(j)] = "kube"])
      BY <3>1 DEF WorkerCheck
    <3>2. attempt' = attempt /\ (pc' = pc \/ \E s : pc' = [pc EXCEPT ![Worker(j)] = s])
      BY <1>2, <3>1 DEF WorkerStep, WorkerEnds, StartServer, CreateService, WorkerFails
    <3> QED
      BY <3>2 DEF TypeOK
  <2> QED
    BY <2>1
<1>3. ASSUME NEW j \in Jobs, ResetStep(j) PROVE Room'
  <2>1. ASSUME NEW a \in {Submitter(j), Reviver(j)}, ResetBegin(a, j) PROVE Room'
    BY <2>1 DEF ResetBegin, TypeOK
  <2>2. ASSUME NEW a \in {Submitter(j), Reviver(j)}, NEW i \in todo[a], ResetNext(a, i) PROVE Room'
    BY <2>2 DEF ResetNext, TypeOK
  <2>3. CASE SubmitEnd(j)
    BY <2>3 DEF SubmitEnd, TypeOK
  <2>4. CASE ReviveEnd(j)
    BY <2>4 DEF ReviveEnd, TypeOK
  <2> QED
    BY <1>3, <2>1, <2>2, <2>3, <2>4 DEF ResetStep
<1>4. ASSUME NEW j \in Jobs, JobStep(j) \/ DeleteJob(j) \/ CallHangs(j) PROVE Room'
  BY <1>4 DEF JobStep, DeleteJob, CallHangs, TypeOK
<1>5. ASSUME NEW a \in Actors, Update(a) PROVE Room'
  BY <1>5 DEF Update, UpdateRead, UpdateWrite, TypeOK
<1>6. ASSUME NEW j \in Jobs, NEW S \in SUBSET Names, RestRead(j, S) PROVE Room'
  BY <1>6 DEF RestRead
<1>7. ASSUME NEW r \in requests, RestWrite(r) PROVE Room'
  BY <1>7 DEF RestWrite
<1>8. CASE ManagerDies
  <2>1. \A j \in Jobs : pc'[Submitter(j)] = pc[Submitter(j)] /\ attempt' = attempt
    BY <1>8 DEF ManagerDies, Lockers
  <2> QED
    BY <2>1
<1> QED
  BY <1>1, <1>2, <1>3, <1>4, <1>5, <1>6, <1>7, <1>8 DEF Next

LEMMA InitRoom == Init => Room
  BY ActorNames DEF Init, Room

LEMMA NextType == TypeOK /\ Room /\ [Next]_vars => TypeOK' /\ Room'
<1> SUFFICES ASSUME TypeOK, Room, [Next]_vars PROVE TypeOK' /\ Room'
  OBVIOUS
<1>1. CASE Next
  BY <1>1, UpdateType, MainType, WorkerType, ManagerType, ResetType, RestType, NextRoom DEF Next
<1>2. CASE UNCHANGED vars
  BY <1>2 DEF TypeOK, Room, vars, jobVars, kubeVars, threadVars, restVars
<1> QED
  BY <1>1, <1>2

(***************************************************************************)
(* Type correctness, whatever is stopped, resumed, requested or fails.     *)
(***************************************************************************)
THEOREM TypeCorrect == Spec => []TypeOK
<1>1. Spec => [](TypeOK /\ Room)
  BY InitType, InitRoom, NextType, PTL DEF Spec
<1> QED
  BY <1>1, PTL

-----------------------------------------------------------------------------
(***************************************************************************)
(* Why the endpoints of an undisturbed job are what they say.  First, what *)
(* holds of every actor and of every item, disturbed or not.               *)
(***************************************************************************)
\* An actor has an item in hand; it has decided what to write.
InHand(a) == pc[a] \in {"kube", "hung", "update", "write"}
Writing(a) == pc[a] \in {"update", "write"}
Items(a) == todo[a] \cup (IF InHand(a) THEN {item[a]} ELSE {})

ReadBefore(a) == \A x \in Items(a) : x.attempt <= attempt[x.job]

\* No endpoint is twice in the same hands.
Distinct(a) ==
  /\ \A x, y \in todo[a] : x.job = y.job /\ x.name = y.name => x = y
  /\ InHand(a) => \A x \in todo[a] : x.job = item[a].job => x.name # item[a].name

\* In the submission in which the main thread found a job stopped, the job is
\* not active again.
MainInv ==
  LET i == item[MainThread] IN
  /\ pc[MainThread] \in {"down", "threads", "clean", "update", "write"}
  /\ ReadBefore(MainThread) /\ Distinct(MainThread)
  /\ \A x \in Items(MainThread) :
       /\ x.entry.status = IF pc[MainThread] = "threads" THEN "pending" ELSE "running"
       /\ pc[MainThread] # "threads" /\ x.attempt = attempt[x.job]
            => jobStatus[x.job] \in {"stopped", "queued"}
  /\ Writing(MainThread) =>
       i.new.status \in {"stopped", "unknown"} /\ i.new.podPort = i.entry.podPort

\* A worker that says "running" has started the server.
WorkerInv(j) ==
  LET i == item[Worker(j)] IN
  /\ pc[Worker(j)] \in {"idle", "check", "kube", "hung", "update", "write"}
  /\ pc[Worker(j)] = "idle" => todo[Worker(j)] = {}
  /\ ReadBefore(Worker(j)) /\ Distinct(Worker(j))
  /\ \A x \in Items(Worker(j)) : x.job = j /\ x.entry.status = "pending"
  /\ Writing(Worker(j)) => i.new.status \in {"pending", "running"}
  /\ Writing(Worker(j)) /\ i.new.status = "running" =>
       /\ i.new.podPort = i.entry.podPort
       /\ i.attempt = attempt[j] => server[j][i.name] = i.new.podPort

\* While endpoints are reset there are no pods.
ResetInv(a, j) ==
  LET i == item[a] IN
  /\ pc[a] \in {"idle", "reset", "update", "write"}
  /\ ReadBefore(a)
  /\ \A x \in Items(a) : x.job = j /\ (x.attempt = attempt[j] => j \notin pods)
  /\ Writing(a) => i.new.status = "pending" /\ i.new.podPort = i.entry.podPort

ActorsInv ==
  /\ MainInv
  /\ \A j \in Jobs : WorkerInv(j) /\ ResetInv(Submitter(j), j) /\ ResetInv(Reviver(j), j)

\* A job gets pods, or is active again, only with its next submission.
Advance ==
  \A k \in Jobs :
    \/ /\ attempt'[k] = attempt[k]
       /\ k \in pods' => k \in pods
       /\ k \in takenDown => k \in takenDown'
       /\ jobStatus[k] \in {"stopped", "queued"} => jobStatus'[k] \in {"stopped", "queued"}
    \/ attempt'[k] > attempt[k]

LEMMA NextAdvance == TypeOK /\ Next => Advance
<1> SUFFICES ASSUME TypeOK, Next PROVE Advance
  OBVIOUS
<1> USE DEF Advance, jobVars
<1>a. \A k \in Jobs : attempt[k] \in Nat
  BY BoundAssumption DEF TypeOK
<1>1. CASE UNCHANGED jobVars
  BY <1>1
<1>2. ASSUME NEW j \in Jobs, SubmitEnd(j) PROVE Advance
  BY <1>a, <1>2 DEF SubmitEnd, SetStatus, TypeOK
<1>3. ASSUME NEW j \in Jobs, ReviveEnd(j) \/ DeleteJob(j) PROVE Advance
  BY <1>3 DEF ReviveEnd, DeleteJob, DeleteServices
<1>4. ASSUME NEW j \in Jobs, JobStep(j) PROVE Advance
  BY <1>4 DEF JobStep, NewStatus, SetStatus, PodsGo, TypeOK
<1>5. CASE MainStep
  BY <1>1, <1>5 DEF MainStep, ManagerStarts, GetPendingEndpoints, GetDeadEndpoints, StartThread,
                    CleanService
<1>6. ASSUME NEW j \in Jobs, WorkerStep(j) PROVE Advance
  BY <1>1, <1>6 DEF WorkerStep, WorkerCheck, WorkerEnds, StartServer, CreateService, WorkerFails
<1>7. ASSUME NEW j \in Jobs, ResetStep(j) PROVE Advance
  BY <1>1, <1>2, <1>3, <1>7 DEF ResetStep, ResetBegin, ResetNext
<1>8. ASSUME NEW a \in Actors, Update(a) PROVE Advance
  BY <1>1, <1>8 DEF Update, UpdateRead, UpdateWrite
<1> QED
  BY <1>1, <1>3, <1>4, <1>5, <1>6, <1>7, <1>8 DEF Next, ManagerDies, CallHangs, RestRead, RestWrite

\* What an actor has in hand stays true while the others go on.
Rests(a) == pc'[a] = pc[a] /\ todo'[a] = todo[a] /\ item'[a] = item[a]

LEMMA RestsItems ==
  ASSUME NEW a, Rests(a)
  PROVE  /\ Items(a)' = Items(a) /\ InHand(a)' = InHand(a) /\ Writing(a)' = Writing(a)
         /\ Distinct(a)' = Distinct(a)
  BY DEF Rests, Items, InHand, Writing, Distinct

LEMMA ItemsType ==
  ASSUME TypeOK, NEW a \in Actors
  PROVE  Items(a) \subseteq Item
  BY Held DEF Items

LEMMA RestsBefore ==
  ASSUME TypeOK, TypeOK', Advance, NEW a \in Actors, ReadBefore(a)
  PROVE  \A x \in Items(a) :
           /\ x.attempt <= attempt'[x.job]
           /\ x.attempt = attempt'[x.job] =>
                /\ x.attempt = attempt[x.job]
                /\ x.job \in pods' => x.job \in pods
                /\ jobStatus[x.job] \in {"stopped", "queued"}
                     => jobStatus'[x.job] \in {"stopped", "queued"}
<1> SUFFICES ASSUME NEW x \in Items(a)
             PROVE  /\ x.attempt <= attempt'[x.job]
                    /\ x.attempt = attempt'[x.job] =>
                         /\ x.attempt = attempt[x.job]
                         /\ x.job \in pods' => x.job \in pods
                         /\ jobStatus[x.job] \in {"stopped", "queued"}
                              => jobStatus'[x.job] \in {"stopped", "queued"}
  OBVIOUS
<1>1. x.job \in Jobs /\ x.attempt \in Nat
  BY ItemsType, ItemType
<1>2. attempt[x.job] \in Nat /\ attempt'[x.job] \in Nat
  BY <1>1, BoundAssumption DEF TypeOK
<1>3. x.attempt <= attempt[x.job]
  BY DEF ReadBefore
<1> QED
  BY <1>1, <1>2, <1>3 DEF Advance

LEMMA MainRests ==
  ASSUME TypeOK, TypeOK', Advance, MainInv, Rests(MainThread)
  PROVE  MainInv'
<1>1. MainThread \in Actors
  BY ActorNames
<1>2. Items(MainThread)' = Items(MainThread)
  BY RestsItems
<1>3. ReadBefore(MainThread)'
  BY <1>1, <1>2, RestsBefore DEF MainInv, ReadBefore
<1>4. \A x \in Items(MainThread)' :
        pc'[MainThread] # "threads" /\ x.attempt = attempt'[x.job]
          => jobStatus'[x.job] \in {"stopped", "queued"}
  BY <1>1, <1>2, RestsBefore DEF MainInv, Rests
<1> QED
  BY <1>2, <1>3, <1>4, RestsItems DEF MainInv, Rests

LEMMA WorkerRests ==
  ASSUME TypeOK, TypeOK', Advance, NEW j \in Jobs, WorkerInv(j), Rests(Worker(j)),
         attempt'[j] = attempt[j] => server'[j] = server[j]
  PROVE  WorkerInv(j)'
<1>1. Worker(j) \in Actors
  BY ActorNames
<1>2. /\ Items(Worker(j))' = Items(Worker(j)) /\ Writing(Worker(j))' = Writing(Worker(j))
      /\ Distinct(Worker(j))' = Distinct(Worker(j))
  BY RestsItems
<1>3. ReadBefore(Worker(j))'
  BY <1>1, <1>2, RestsBefore DEF WorkerInv, ReadBefore
<1>4. Writing(Worker(j)) /\ item[Worker(j)].attempt = attempt'[j]
        => item[Worker(j)].attempt = attempt[j]
  BY <1>1, RestsBefore DEF WorkerInv, Items, Writing, InHand
<1> QED
  BY <1>2, <1>3, <1>4 DEF WorkerInv, Rests

LEMMA ResetRests ==
  ASSUME TypeOK, TypeOK', Advance, NEW j \in Jobs, NEW a \in Actors, ResetInv(a, j), Rests(a)
  PROVE  ResetInv(a, j)'
<1>1. Items(a)' = Items(a) /\ Writing(a)' = Writing(a)
  BY RestsItems
<1>2. ReadBefore(a)'
  BY <1>1, RestsBefore DEF ResetInv, ReadBefore
<1>3. \A x \in Items(a)' : x.job = j /\ (x.attempt = attempt'[j] => j \notin pods')
  BY <1>1, RestsBefore DEF ResetInv
<1> QED
  BY <1>1, <1>2, <1>3 DEF ResetInv, Rests

LEMMA OthersRest ==
  ASSUME TypeOK, TypeOK', Advance, ActorsInv,
         Rests(MainThread) \/ MainInv',
         \A k \in Jobs :
           /\ \/ Rests(Worker(k)) /\ (attempt'[k] = attempt[k] => server'[k] = server[k])
              \/ WorkerInv(k)'
           /\ Rests(Submitter(k)) \/ ResetInv(Submitter(k), k)'
           /\ Rests(Reviver(k)) \/ ResetInv(Reviver(k), k)'
  PROVE  ActorsInv'
<1>1. \A k \in Jobs : {Submitter(k), Reviver(k)} \subseteq Actors
  BY ActorNames
<1>2. MainInv'
  BY MainRests DEF ActorsInv
<1>3. \A k \in Jobs : WorkerInv(k)'
  BY WorkerRests DEF ActorsInv
<1>4. \A k \in Jobs : ResetInv(Submitter(k), k)' /\ ResetInv(Reviver(k), k)'
  BY <1>1, ResetRests DEF ActorsInv
<1> QED
  BY <1>2, <1>3, <1>4 DEF ActorsInv

\* What has just been read.
LEMMA JustRead ==
  ASSUME TypeOK, NEW j \in Jobs, NEW S \in SUBSET Names
  PROVE  /\ \A x \in Read(j, S) :
              x.job = j /\ x.name \in S /\ x.attempt = attempt[j] /\ x.entry = doc[j][x.name]
         /\ \A x, y \in Read(j, S) : x.name = y.name => x = y
  BY DEF Read

\* What the main thread goes through.
Gather(J, s) == UNION {Read(j, InState(j, {s})) : j \in J}

LEMMA Gathered ==
  ASSUME TypeOK, NEW s, NEW J \in SUBSET Jobs
  PROVE  /\ \A x \in Gather(J, s) : /\ x.job \in J /\ x.attempt = attempt[x.job]
                                    /\ x.entry = doc[x.job][x.name] /\ x.entry.status = s
         /\ \A x, y \in Gather(J, s) : x.job = y.job /\ x.name = y.name => x = y
<1> DEFINE T == Gather(J, s)
<1>r. \A j \in J :
        /\ \A x \in Read(j, InState(j, {s})) :
             /\ x.job = j /\ x.attempt = attempt[j]
             /\ x.entry = doc[j][x.name] /\ x.entry.status = s
        /\ \A x, y \in Read(j, InState(j, {s})) : x.name = y.name => x = y
  <2> SUFFICES ASSUME NEW j \in J
               PROVE  /\ \A x \in Read(j, InState(j, {s})) :
                           /\ x.job = j /\ x.attempt = attempt[j]
                           /\ x.entry = doc[j][x.name] /\ x.entry.status = s
                      /\ \A x, y \in Read(j, InState(j, {s})) : x.name = y.name => x = y
    OBVIOUS
  <2> DEFINE S == InState(j, {s})
  <2>1. j \in Jobs /\ S \in SUBSET Names /\ \A n \in S : doc[j][n].status = s
    BY DEF InState
  <2> HIDE DEF S
  <2>2. /\ \A x \in Read(j, S) :
             x.job = j /\ x.name \in S /\ x.attempt = attempt[j] /\ x.entry = doc[j][x.name]
        /\ \A x, y \in Read(j, S) : x.name = y.name => x = y
    BY <2>1, JustRead
  <2>3. \A x \in Read(j, S) : x.entry.status = s
    BY <2>1, <2>2
  <2> QED
    BY <2>2, <2>3 DEF S
<1>2. \A x \in T : /\ x.job \in J /\ x.attempt = attempt[x.job]
                   /\ x.entry = doc[x.job][x.name] /\ x.entry.status = s
  <2> TAKE x \in T
  <2>1. PICK j \in J : x \in Read(j, InState(j, {s}))
    BY DEF Gather
  <2> HIDE DEF T
  <2> QED
    BY <1>r, <2>1
<1>3. \A x, y \in T : x.job = y.job /\ x.name = y.name => x = y
  <2>1. ASSUME NEW x \in T, NEW y \in T, x.job = y.job, x.name = y.name PROVE x = y
    <3>1. PICK j \in J : x \in Read(j, InState(j, {s}))
      BY DEF Gather
    <3>2. PICK k \in J : y \in Read(k, InState(k, {s}))
      BY DEF Gather
    <3> HIDE DEF T
    <3>3. j = k
      BY <1>r, <2>1, <3>1, <3>2
    <3>4. y \in Read(j, InState(j, {s}))
      BY <3>2, <3>3
    <3> QED
      BY <1>r, <2>1, <3>1, <3>4
  <2> QED
    BY <2>1
<1> QED
  BY <1>2, <1>3

LEMMA GatherActors ==
  ASSUME TypeOK, TypeOK', Advance, ActorsInv,
         NEW s \in {"pending", "running"}, NEW J \in SUBSET Jobs,
         Loop(MainThread, Gather(J, s)),
         Goto(MainThread, IF s = "pending" THEN "threads" ELSE "clean"),
         s = "running" => \A j \in J : jobStatus[j] = "stopped",
         UNCHANGED <<item, server, attempt, jobStatus>>
  PROVE  ActorsInv'
<1> DEFINE T == Gather(J, s)
<1>1. /\ todo'[MainThread] = T
      /\ pc'[MainThread] = IF s = "pending" THEN "threads" ELSE "clean"
      /\ \A a \in Actors : a # MainThread => Rests(a)
  BY ActorNames DEF Loop, Goto, Rests, TypeOK
<1>2. \A x \in T : /\ x.job \in J /\ x.attempt = attempt[x.job]
                   /\ x.entry = doc[x.job][x.name] /\ x.entry.status = s
  BY Gathered
<1>3. \A x, y \in T : x.job = y.job /\ x.name = y.name => x = y
  BY Gathered
<1> HIDE DEF T
<1>4. Items(MainThread)' = T /\ ~InHand(MainThread)' /\ ~Writing(MainThread)'
  BY <1>1 DEF Items, InHand, Writing
<1>5. ReadBefore(MainThread)'
  <2>1. \A x \in T : attempt[x.job] \in Nat
    <3>1. \A x \in T : x.job \in Jobs
      BY <1>2
    <3> QED
      BY <3>1, BoundAssumption DEF TypeOK
  <2> QED
    BY <1>2, <1>4, <2>1 DEF ReadBefore
<1>6. Distinct(MainThread)'
  BY <1>1, <1>3, <1>4 DEF Distinct
<1>7. \A x \in Items(MainThread)' :
        /\ x.entry.status = IF pc'[MainThread] = "threads" THEN "pending" ELSE "running"
        /\ pc'[MainThread] # "threads" /\ x.attempt = attempt'[x.job]
             => jobStatus'[x.job] \in {"stopped", "queued"}
  BY <1>1, <1>2, <1>4
<1>8. MainInv'
  BY <1>1, <1>4, <1>5, <1>6, <1>7 DEF MainInv
<1>9. \A k \in Jobs : Rests(Worker(k)) /\ Rests(Submitter(k)) /\ Rests(Reviver(k))
  BY <1>1, ActorNames
<1> QED
  BY <1>8, <1>9, OthersRest

LEMMA StartThreadActors ==
  ASSUME TypeOK, TypeOK', Advance, ActorsInv, NEW j \in Jobs, StartThread(j)
  PROVE  ActorsInv'
<1> DEFINE mine == {i \in todo[MainThread] : i.job = j}
           w == Worker(j)
<1>1. w \in Actors /\ MainThread \in Actors /\ w # MainThread
  BY ActorNames
<1>2. /\ pc[MainThread] = "threads" /\ pc'[MainThread] = "threads"
      /\ todo'[MainThread] = todo[MainThread] \ mine /\ item' = item /\ server' = server
      /\ attempt' = attempt
      /\ \A a \in Actors \ {MainThread, w} : Rests(a)
      /\ \/ pc[w] # "idle" /\ Rests(w)
         \/ pc[w] = "idle" /\ pc'[w] = "check" /\ todo'[w] = mine
  BY <1>1 DEF StartThread, Goto, Rests, TypeOK, jobVars, kubeVars
<1>3. /\ Items(MainThread) = todo[MainThread] /\ Items(MainThread)' = todo'[MainThread]
      /\ ~Writing(MainThread)' /\ ~InHand(MainThread)'
  BY <1>2 DEF Items, InHand, Writing
<1>4. MainInv'
  <2>1. ReadBefore(MainThread)' /\ Distinct(MainThread)'
    BY <1>2, <1>3 DEF ActorsInv, MainInv, ReadBefore, Distinct
  <2> QED
    BY <1>2, <1>3, <2>1 DEF ActorsInv, MainInv
<1>5. pc[w] = "idle" => WorkerInv(j)'
  <2> SUFFICES ASSUME pc[w] = "idle" PROVE WorkerInv(j)'
    OBVIOUS
  <2>1. /\ pc'[w] = "check" /\ todo'[w] = mine
        /\ Items(w)' = mine /\ ~InHand(w)' /\ ~Writing(w)'
    BY <1>2 DEF Items, InHand, Writing, Rests
  <2>2. ReadBefore(w)' /\ Distinct(w)'
    BY <1>2, <1>3, <2>1 DEF ActorsInv, MainInv, ReadBefore, Distinct
  <2>3. \A x \in Items(w)' : x.job = j /\ x.entry.status = "pending"
    BY <1>2, <1>3, <2>1 DEF ActorsInv, MainInv
  <2> QED
    BY <2>1, <2>2, <2>3 DEF WorkerInv
<1>6. \A k \in Jobs : /\ Rests(Submitter(k)) /\ Rests(Reviver(k))
                      /\ Rests(Worker(k)) \/ WorkerInv(k)'
  BY <1>2, <1>5, ActorNames
<1> QED
  BY <1>2, <1>4, <1>6, OthersRest

LEMMA CleanServiceActors ==
  ASSUME TypeOK, TypeOK', Advance, ActorsInv, NEW i \in todo[MainThread], CleanService(i)
  PROVE  ActorsInv'
<1>1. MainThread \in Actors /\ i \in Item
  BY ActorNames, Held
<1>2. PICK s \in {"stopped", "unknown"} :
        item' = [item EXCEPT ![MainThread] =
                   [i EXCEPT !.new.status = s, !.new.podPort = i.entry.podPort]]
  BY DEF CleanService, Hold, DeleteFailed
<1>3. /\ pc[MainThread] = "clean" /\ pc'[MainThread] = "update" /\ server' = server
      /\ attempt' = attempt /\ jobStatus' = jobStatus
      /\ todo'[MainThread] = todo[MainThread] \ {i}
      /\ \A a \in Actors \ {MainThread} : Rests(a)
  BY <1>1, <1>2 DEF CleanService, Goto, Loop, Rests, TypeOK, jobVars
<1>4. LET h == item'[MainThread] IN
      /\ h.job = i.job /\ h.name = i.name /\ h.attempt = i.attempt /\ h.entry = i.entry
      /\ h.new.status = s /\ h.new.podPort = i.entry.podPort
  BY <1>1, <1>2 DEF TypeOK, Item, Entry
<1>5. /\ Items(MainThread) = todo[MainThread]
      /\ Items(MainThread)' = (todo[MainThread] \ {i}) \cup {item'[MainThread]}
  BY <1>3 DEF Items, InHand
<1>6. ReadBefore(MainThread)'
  BY <1>3, <1>4, <1>5 DEF ActorsInv, MainInv, ReadBefore
<1>7. Distinct(MainThread)'
  BY <1>3, <1>4 DEF ActorsInv, MainInv, Distinct
<1>8. MainInv'
  BY <1>3, <1>4, <1>5, <1>6, <1>7 DEF ActorsInv, MainInv
<1>9. \A k \in Jobs : Rests(Worker(k)) /\ Rests(Submitter(k)) /\ Rests(Reviver(k))
  BY <1>3, ActorNames
<1> QED
  BY <1>3, <1>8, <1>9, OthersRest

LEMMA MainActors ==
  ASSUME TypeOK, TypeOK', Advance, ActorsInv, MainStep
  PROVE  ActorsInv'
<1> USE DEF jobVars, kubeVars
<1>0. CASE ManagerStarts
  <2>1. /\ pc[MainThread] = "down" /\ pc'[MainThread] = "clean"
        /\ \A a \in Actors \ {MainThread} : Rests(a)
        /\ UNCHANGED <<jobStatus, attempt, todo, item, server>>
    BY <1>0, ActorNames DEF ManagerStarts, Goto, Rests, TypeOK
  <2>2. /\ Items(MainThread)' = Items(MainThread) /\ ~Writing(MainThread)'
        /\ Distinct(MainThread)' = Distinct(MainThread)
    BY <2>1 DEF Items, InHand, Writing, Distinct
  <2>3. MainInv'
    BY <2>1, <2>2 DEF ActorsInv, MainInv, ReadBefore
  <2>4. \A k \in Jobs : Rests(Worker(k)) /\ Rests(Submitter(k)) /\ Rests(Reviver(k))
    BY <2>1, ActorNames
  <2> QED
    BY <2>1, <2>3, <2>4, OthersRest
<1>1. CASE GetPendingEndpoints
  BY <1>1, GatherActors DEF GetPendingEndpoints, JobsToServe, Gather
<1>2. CASE GetDeadEndpoints
  BY <1>2, GatherActors DEF GetDeadEndpoints, JobsToClean, Gather
<1> QED
  BY <1>0, <1>1, <1>2, StartThreadActors, CleanServiceActors DEF MainStep

LEMMA WorkerActors ==
  ASSUME TypeOK, TypeOK', Advance, ActorsInv, NEW j \in Jobs, WorkerStep(j)
  PROVE  ActorsInv'
<1> DEFINE w == Worker(j)
           i == item[w]
           h == item'[w]
<1>1. w \in Actors /\ i \in Item
  BY ActorNames, Held
<1>2. WorkerInv(j)
  BY DEF ActorsInv
<1>3. SUFFICES /\ attempt' = attempt
               /\ \A a \in Actors \ {w} : Rests(a)
               /\ \A k \in Jobs \ {j} : server'[k] = server[k]
               /\ WorkerInv(j)'
  <2>1. \A k \in Jobs : /\ {MainThread, Submitter(k), Reviver(k)} \subseteq Actors \ {w}
                        /\ k # j => Worker(k) \in Actors \ {w}
    BY ActorNames
  <2>2. MainThread \in Actors \ {w}
    BY ActorNames
  <2> QED
    BY <2>1, <2>2, OthersRest
<1> USE DEF Goto, Loop, jobVars, kubeVars
<1>4. ASSUME NEW x \in todo[w], WorkerCheck(j, x)
      PROVE  attempt' = attempt /\ (\A a \in Actors \ {w} : Rests(a)) /\ server' = server
             /\ WorkerInv(j)'
  <2>1. /\ pc[w] = "check" /\ todo'[w] = todo[w] \ {x} /\ attempt' = attempt /\ server' = server
        /\ \A a \in Actors \ {w} : Rests(a)
        /\ (pc'[w] = "kube" /\ h = x) \/ pc'[w] = "check"
    BY <1>1, <1>4 DEF WorkerCheck, Rests, TypeOK
  <2>2. Items(w) = todo[w] /\ Items(w)' \subseteq todo[w]
    BY <2>1 DEF Items, InHand
  <2>3. ReadBefore(w)' /\ ~Writing(w)'
    BY <1>2, <2>1, <2>2 DEF WorkerInv, ReadBefore, Writing
  <2>4. Distinct(w)'
    BY <1>2, <2>1 DEF WorkerInv, Distinct, InHand
  <2> QED
    BY <1>2, <2>1, <2>2, <2>3, <2>4 DEF WorkerInv
<1>5. ASSUME WorkerEnds(j)
      PROVE  attempt' = attempt /\ (\A a \in Actors \ {w} : Rests(a)) /\ server' = server
             /\ WorkerInv(j)'
  <2>1. /\ pc'[w] = "idle" /\ todo'[w] = {} /\ attempt' = attempt /\ server' = server
        /\ \A a \in Actors \ {w} : Rests(a)
    BY <1>1, <1>5 DEF WorkerEnds, Rests, TypeOK
  <2>2. Items(w)' = {} /\ ~InHand(w)' /\ ~Writing(w)'
    BY <2>1 DEF Items, InHand, Writing
  <2> QED
    BY <2>1, <2>2 DEF WorkerInv, ReadBefore, Distinct
<1>6. ASSUME pc[w] = "kube", pc'[w] \in {"check", "update"}, todo' = todo, attempt' = attempt,
             \A a \in Actors \ {w} : Rests(a),
             pc'[w] = "update" =>
               /\ h.job = i.job /\ h.name = i.name /\ h.attempt = i.attempt /\ h.entry = i.entry
               /\ h.new.status \in {"pending", "running"}
               /\ h.new.status = "running" =>
                    /\ h.new.podPort = i.entry.podPort
                    /\ server'[j][i.name] = h.new.podPort
      PROVE  WorkerInv(j)'
  <2>1. /\ Items(w) = todo[w] \cup {i}
        /\ Items(w)' = todo[w] \cup (IF pc'[w] = "update" THEN {h} ELSE {})
        /\ InHand(w) /\ InHand(w)' = (pc'[w] = "update") /\ Writing(w)' = (pc'[w] = "update")
    BY <1>6 DEF Items, InHand, Writing
  <2>2. ReadBefore(w)'
    BY <1>2, <1>6, <2>1 DEF WorkerInv, ReadBefore
  <2>3. Distinct(w)'
    BY <1>2, <1>6, <2>1 DEF WorkerInv, Distinct
  <2>4. \A x \in Items(w)' : x.job = j /\ x.entry.status = "pending"
    BY <1>2, <1>6, <2>1 DEF WorkerInv
  <2> QED
    BY <1>6, <2>1, <2>2, <2>3, <2>4 DEF WorkerInv
<1>7. CASE StartServer(j)
  <2>1. /\ pc[w] = "kube" /\ todo' = todo /\ attempt' = attempt
        /\ pc'[w] \in {"check", "update"}
        /\ \A a \in Actors \ {w} : Rests(a)
    BY <1>1, <1>7 DEF StartServer, Hold, Rests, TypeOK
  <2>2. /\ \A k \in Jobs \ {j} : server'[k] = server[k]
        /\ server'[j][i.name] = i.entry.podPort
    BY <1>1, <1>7, ItemType DEF StartServer, TypeOK
  <2>3. pc'[w] = "update" =>
          \E s \in {"running", "pending"} :
            item' = [item EXCEPT ![w] = [i EXCEPT !.new.status = s, !.new.podPort = i.entry.podPort]]
    BY <1>1, <1>7 DEF StartServer, Hold, TypeOK
  <2>4. pc'[w] = "update" =>
          /\ h.job = i.job /\ h.name = i.name /\ h.attempt = i.attempt /\ h.entry = i.entry
          /\ h.new.status \in {"pending", "running"} /\ h.new.podPort = i.entry.podPort
    <3> SUFFICES ASSUME pc'[w] = "update"
                 PROVE  /\ h.job = i.job /\ h.name = i.name /\ h.attempt = i.attempt
                        /\ h.entry = i.entry /\ h.new.status \in {"pending", "running"}
                        /\ h.new.podPort = i.entry.podPort
      OBVIOUS
    <3>1. PICK s \in {"running", "pending"} :
            item' = [item EXCEPT ![w] = [i EXCEPT !.new.status = s, !.new.podPort = i.entry.podPort]]
      BY <2>3
    <3>2. h = [i EXCEPT !.new.status = s, !.new.podPort = i.entry.podPort]
      BY <1>1, <3>1 DEF TypeOK
    <3> HIDE DEF h, i
    <3> QED
      BY <1>1, <3>2 DEF Item, Entry
  <2> QED
    BY <1>6, <2>1, <2>2, <2>4
<1>8. CASE CreateService(j)
  <2>1. /\ pc[w] = "kube" /\ todo' = todo /\ attempt' = attempt /\ server' = server
        /\ pc'[w] = "update"
        /\ \A a \in Actors \ {w} : Rests(a)
    BY <1>1, <1>8 DEF CreateService, Hold, Rests, TypeOK
  <2>2. PICK p \in Ports :
          item' = [item EXCEPT ![w] = [i EXCEPT !.new.status = i.entry.status, !.new.podPort = p]]
    BY <1>8 DEF CreateService, Hold
  <2>3. /\ h.job = i.job /\ h.name = i.name /\ h.attempt = i.attempt /\ h.entry = i.entry
        /\ h.new.status = i.entry.status
    BY <1>1, <2>2 DEF TypeOK, Item, Entry
  <2>4. i.entry.status = "pending"
    BY <1>2, <2>1 DEF WorkerInv, Items, InHand
  <2> QED
    BY <1>6, <2>1, <2>3, <2>4
<1>9. CASE WorkerFails(j)
  <2>1. /\ pc[w] = "kube" /\ todo' = todo /\ attempt' = attempt /\ server' = server
        /\ pc'[w] = "check"
        /\ \A a \in Actors \ {w} : Rests(a)
    BY <1>1, <1>9 DEF WorkerFails, Rests, TypeOK
  <2> QED
    BY <1>6, <2>1
<1> QED
  BY <1>4, <1>5, <1>7, <1>8, <1>9 DEF WorkerStep

LEMMA ResetActors ==
  ASSUME TypeOK, TypeOK', Advance, ActorsInv, NEW j \in Jobs, ResetStep(j)
  PROVE  ActorsInv'
<1> USE DEF Goto, Loop, jobVars, kubeVars
<1>1. ASSUME NEW a \in {Submitter(j), Reviver(j)}
      PROVE  a \in Actors /\ ResetInv(a, j)
  BY ActorNames DEF ActorsInv
<1>2. ASSUME NEW a \in {Submitter(j), Reviver(j)},
             \A k \in Jobs : attempt'[k] = attempt[k] => server'[k] = server[k],
             \A b \in Actors \ {a} : Rests(b), ResetInv(a, j)'
      PROVE  ActorsInv'
  <2>1. MainThread \in Actors \ {a}
    BY ActorNames
  <2>2. \A k \in Jobs :
          /\ Worker(k) \in Actors \ {a}
          /\ Submitter(k) \in Actors \ {a} \/ (Submitter(k) = a /\ k = j)
          /\ Reviver(k) \in Actors \ {a} \/ (Reviver(k) = a /\ k = j)
    BY ActorNames
  <2> QED
    BY <1>2, <2>1, <2>2, OthersRest
<1>3. ASSUME NEW a \in {Submitter(j), Reviver(j)}, ResetBegin(a, j) PROVE ActorsInv'
  <2>1. /\ pc'[a] = "reset" /\ todo'[a] \subseteq ToReset(j) /\ attempt' = attempt /\ pods' = pods
        /\ server' = server /\ j \notin pods
        /\ \A b \in Actors \ {a} : Rests(b)
    BY <1>1, <1>3 DEF ResetBegin, Rests, TypeOK
  <2>2. \A x \in ToReset(j) : x.job = j /\ x.attempt = attempt[j]
    BY JustRead DEF ToReset, InState
  <2>3. Items(a)' = todo'[a] /\ ~Writing(a)'
    BY <2>1 DEF Items, InHand, Writing
  <2>4. ReadBefore(a)'
    BY <2>1, <2>2, <2>3, BoundAssumption DEF ReadBefore, TypeOK
  <2>5. ResetInv(a, j)'
    BY <2>1, <2>2, <2>3, <2>4 DEF ResetInv
  <2> QED
    BY <1>2, <2>1, <2>5
<1>4. ASSUME NEW a \in {Submitter(j), Reviver(j)}, NEW i \in todo[a], ResetNext(a, i)
      PROVE  ActorsInv'
  <2>1. i \in Item
    BY <1>1, Held
  <2>2. /\ pc[a] = "reset" /\ pc'[a] = "update" /\ todo'[a] = todo[a] \ {i}
        /\ attempt' = attempt /\ pods' = pods /\ server' = server
        /\ item'[a] = [i EXCEPT !.new.status = "pending", !.new.podPort = i.entry.podPort]
        /\ \A b \in Actors \ {a} : Rests(b)
    BY <1>1, <1>4 DEF ResetNext, Hold, Rests, TypeOK
  <2> DEFINE h == item'[a]
  <2>3. /\ h.job = i.job /\ h.attempt = i.attempt /\ h.entry = i.entry
        /\ h.new.status = "pending" /\ h.new.podPort = i.entry.podPort
    <3>1. h = [i EXCEPT !.new.status = "pending", !.new.podPort = i.entry.podPort]
      BY <2>2
    <3> HIDE DEF h
    <3> QED
      BY <2>1, <3>1 DEF Item, Entry
  <2>4. Items(a) = todo[a] /\ Items(a)' = (todo[a] \ {i}) \cup {h}
    BY <2>2 DEF Items, InHand
  <2>5. \A x \in Items(a)' : \E y \in Items(a) : x.job = y.job /\ x.attempt = y.attempt
    BY <2>3, <2>4
  <2>6. ReadBefore(a)'
    BY <1>1, <2>2, <2>5 DEF ResetInv, ReadBefore
  <2>7. \A x \in Items(a)' : x.job = j /\ (x.attempt = attempt'[j] => j \notin pods')
    BY <1>1, <2>2, <2>5 DEF ResetInv
  <2>8. ResetInv(a, j)'
    BY <2>2, <2>3, <2>6, <2>7 DEF ResetInv
  <2> QED
    BY <1>2, <2>2, <2>8
<1>5. ASSUME NEW a \in {Submitter(j), Reviver(j)}, pc'[a] = "idle", todo[a] = {}, todo' = todo,
             \A k \in Jobs : attempt'[k] = attempt[k] => server'[k] = server[k],
             \A b \in Actors \ {a} : Rests(b)
      PROVE  ActorsInv'
  <2>1. Items(a)' = {} /\ ~Writing(a)'
    BY <1>5 DEF Items, InHand, Writing
  <2>2. ResetInv(a, j)'
    BY <1>5, <2>1 DEF ResetInv, ReadBefore
  <2> QED
    BY <1>2, <1>5, <2>2
<1>6. CASE SubmitEnd(j)
  <2>1. \A k \in Jobs : attempt'[k] = attempt[k] => server'[k] = server[k]
    BY <1>6, BoundAssumption DEF SubmitEnd, TypeOK
  <2> QED
    BY <1>1, <1>5, <1>6, <2>1 DEF SubmitEnd, Rests, TypeOK
<1>7. CASE ReviveEnd(j)
  BY <1>1, <1>5, <1>7 DEF ReviveEnd, Rests, TypeOK
<1> QED
  BY <1>3, <1>4, <1>6, <1>7 DEF ResetStep

LEMMA UpdateActors ==
  ASSUME TypeOK, TypeOK', Advance, ActorsInv, NEW a \in Actors, Update(a)
  PROVE  ActorsInv'
<1>1. /\ \A b \in Actors \ {a} : Rests(b)
      /\ todo' = todo /\ server' = server /\ attempt' = attempt /\ pods' = pods
      /\ jobStatus' = jobStatus /\ Writing(a)
      /\ \/ pc'[a] = "write" /\ item' = item
         \/ pc'[a] = Back(a)
  BY DEF Update, UpdateRead, UpdateWrite, Rests, TypeOK, Goto, Writing, jobVars, kubeVars
<1>2. \/ /\ Items(a)' = Items(a) /\ InHand(a)' = InHand(a) /\ Writing(a)' = Writing(a)
         /\ Distinct(a)' = Distinct(a) /\ item' = item /\ pc'[a] = "write"
      \/ /\ Items(a)' \subseteq Items(a) /\ ~InHand(a)' /\ ~Writing(a)' /\ pc'[a] = Back(a)
         /\ Distinct(a) => Distinct(a)'
  BY <1>1 DEF Items, InHand, Writing, Distinct, Back
<1>3. ReadBefore(a) => ReadBefore(a)'
  BY <1>1, <1>2 DEF ReadBefore
<1>4. CASE a = MainThread
  <2>1. pc[a] # "threads" /\ Back(a) = "clean"
    BY <1>1, <1>4, ActorNames DEF Writing, Back, Lockers
  <2>2. MainInv'
    BY <1>1, <1>2, <1>3, <1>4, <2>1 DEF ActorsInv, MainInv
  <2> QED
    BY <1>1, <1>4, <2>2, OthersRest, ActorNames
<1>5. ASSUME NEW j \in Jobs, a = Worker(j) PROVE ActorsInv'
  <2>1. Back(a) = "check"
    BY <1>5, ActorNames DEF Back, Lockers
  <2>2. WorkerInv(j) /\ pc'[a] \in {"check", "write"} /\ Items(a)' \subseteq Items(a)
        /\ (Writing(a)' => item' = item)
    BY <1>1, <1>2, <1>5, <2>1 DEF ActorsInv
  <2>4. ReadBefore(a)' /\ Distinct(a)'
    BY <1>2, <1>3, <1>5, <2>2 DEF WorkerInv
  <2>5. WorkerInv(j)'
    BY <1>1, <1>5, <2>2, <2>4 DEF WorkerInv
  <2>3. \A k \in Jobs : Rests(Submitter(k)) /\ Rests(Reviver(k)) /\ (k = j \/ Rests(Worker(k)))
    BY <1>1, <1>5, ActorNames
  <2> QED
    BY <1>1, <1>5, <2>5, <2>3, OthersRest, ActorNames
<1>6. ASSUME NEW j \in Jobs, a \in {Submitter(j), Reviver(j)} PROVE ActorsInv'
  <2>1. Back(a) = "reset"
    BY <1>6, ActorNames DEF Back, Lockers
  <2>5. ResetInv(a, j) /\ pc'[a] \in {"reset", "write"} /\ Items(a)' \subseteq Items(a)
        /\ (Writing(a)' => item' = item)
    BY <1>1, <1>2, <1>6, <2>1 DEF ActorsInv
  <2>6. ReadBefore(a)'
    BY <1>3, <2>5 DEF ResetInv
  <2>2. ResetInv(a, j)'
    BY <1>1, <2>5, <2>6 DEF ResetInv
  <2>3. \A k \in Jobs : /\ Rests(Worker(k))
                        /\ (Submitter(k) = a /\ k = j) \/ Rests(Submitter(k))
                        /\ (Reviver(k) = a /\ k = j) \/ Rests(Reviver(k))
    BY <1>1, <1>6, ActorNames
  <2>4. Rests(MainThread)
    BY <1>1, <1>6, ActorNames
  <2> QED
    BY <1>1, <2>2, <2>3, <2>4, OthersRest
<1> QED
  BY <1>4, <1>5, <1>6, ActorNames

\* A manager that died holds nothing; a call that hangs holds what it held.
LEMMA ManagerActors ==
  ASSUME TypeOK, TypeOK', Advance, ActorsInv
  PROVE  /\ ManagerDies => ActorsInv'
         /\ \A j \in Jobs : CallHangs(j) => ActorsInv'
<1>1. ASSUME ManagerDies PROVE ActorsInv'
  <2>1. /\ \A a \in {MainThread} \cup Lockers :
             /\ pc'[a] = (IF a = MainThread THEN "down" ELSE "idle")
             /\ todo'[a] = {}
        /\ \A a \in Actors \ ({MainThread} \cup Lockers) : Rests(a)
    BY <1>1, ActorNames DEF ManagerDies, Rests, Lockers
  <2>2. \A a \in {MainThread} \cup Lockers :
          /\ Items(a)' = {} /\ ~InHand(a)' /\ ~Writing(a)'
          /\ ReadBefore(a)' /\ Distinct(a)'
    BY <2>1 DEF Items, InHand, Writing, ReadBefore, Distinct
  <2>3. MainInv'
    BY <2>1, <2>2 DEF MainInv
  <2>4. \A k \in Jobs : WorkerInv(k)'
    BY <2>1, <2>2, ActorNames DEF WorkerInv, Lockers
  <2>5. \A k \in Jobs : Rests(Submitter(k)) /\ Rests(Reviver(k))
    BY <2>1, ActorNames DEF Lockers
  <2> QED
    BY <2>3, <2>4, <2>5, OthersRest
<1>2. ASSUME NEW j \in Jobs, CallHangs(j) PROVE ActorsInv'
  <2> DEFINE w == Worker(j)
  <2>1. /\ pc[w] = "kube" /\ pc'[w] = "hung" /\ UNCHANGED <<attempt, todo, item, server>>
        /\ \A a \in Actors \ {w} : Rests(a)
    BY <1>2, ActorNames DEF CallHangs, Goto, Rests, TypeOK, jobVars, kubeVars
  <2>2. /\ Items(w)' = Items(w) /\ InHand(w)' = InHand(w) /\ ~Writing(w)'
        /\ Distinct(w)' = Distinct(w)
    BY <2>1 DEF Items, InHand, Writing, Distinct
  <2>3. WorkerInv(j)'
    BY <2>1, <2>2 DEF ActorsInv, WorkerInv, ReadBefore
  <2>4. \A k \in Jobs : Rests(Submitter(k)) /\ Rests(Reviver(k)) /\ (k = j \/ Rests(Worker(k)))
    BY <2>1, ActorNames
  <2>5. Rests(MainThread)
    BY <2>1, ActorNames
  <2> QED
    BY <2>1, <2>3, <2>4, <2>5, OthersRest
<1> QED
  BY <1>1, <1>2

LEMMA NextActors ==
  ASSUME TypeOK, TypeOK', ActorsInv, [Next]_vars
  PROVE  ActorsInv'
<1>1. CASE Next
  <2>1. Advance
    BY <1>1, NextAdvance
  <2>2. CASE UNCHANGED <<threadVars, server>>
    BY <2>1, <2>2, OthersRest DEF Rests, threadVars
  <2> QED
    BY <1>1, <2>1, <2>2, MainActors, WorkerActors, ResetActors, UpdateActors, ManagerActors
    DEF Next, JobStep, DeleteJob, RestRead, RestWrite, kubeVars
<1>2. CASE UNCHANGED vars
  <2>1. Advance
    BY <1>2 DEF Advance, vars, jobVars
  <2> QED
    BY <1>2, <2>1, OthersRest DEF Rests, vars, threadVars, kubeVars
<1> QED
  BY <1>1, <1>2

LEMMA InitActors == Init => ActorsInv
<1> SUFFICES ASSUME Init PROVE ActorsInv
  OBVIOUS
<1>1. \A a \in Actors : /\ pc[a] = IF a = MainThread THEN "clean" ELSE "idle"
                        /\ todo[a] = {} /\ Items(a) = {} /\ ~InHand(a) /\ ~Writing(a)
                        /\ ReadBefore(a) /\ Distinct(a)
  BY DEF Init, Items, InHand, Writing, ReadBefore, Distinct
<1> QED
  BY <1>1, ActorNames DEF ActorsInv, MainInv, WorkerInv, ResetInv

-----------------------------------------------------------------------------
(***************************************************************************)
(* And what holds of a job until it is disturbed.                          *)
(***************************************************************************)
At(a, n) == Writing(a) /\ item[a].name = n
Running(j, n) == doc[j][n].status = "running"

NoneIsNew(j) == \A n \in Names : doc[j][n].status = "none" => doc[j][n].podPort = NoPort

\* A submission leaves no endpoint as the one before left it.
ResetAll(j) ==
  pc[Submitter(j)] # "idle" =>
    \A n \in Names :
      doc[j][n].status \in {"none", "pending"} \/ \E x \in Items(Submitter(j)) : x.name = n

\* The service forwards to the port in the document, or to the one on its way there.
PortKnown(j) ==
  LET w == Worker(j) IN
  /\ \A n \in Names :
       \/ service[j][n] \in {NoPort, doc[j][n].podPort}
       \/ At(w, n) /\ service[j][n] = item[w].new.podPort
  /\ Writing(w) /\ doc[j][item[w].name].podPort = item[w].entry.podPort
       => service[j][item[w].name] \in {NoPort, item[w].new.podPort}

Served(j) ==
  j \in ActiveJobs =>
    /\ \A n \in Names : Running(j, n) =>
         /\ service[j][n] = doc[j][n].podPort
         /\ service[j][n] # NoPort
         /\ server[j][n] = service[j][n]
    /\ LET i == item[Worker(j)] IN
       Writing(Worker(j)) /\ i.new.status = "running" /\ i.attempt = attempt[j]
         => service[j][i.name] # NoPort

\* Whoever still holds a pending endpoint that runs by now has its port.
RightPort(j) ==
  LET given == {x \in todo[MainThread] : pc[MainThread] = "threads" /\ x.job = j} IN
  /\ \A x \in Items(Worker(j)) \cup given :
       Running(j, x.name) => x.entry.podPort = doc[j][x.name].podPort
  /\ \A x \in Items(Worker(j)), y \in given :
       y.name = x.name => y.entry.podPort = doc[j][y.name].podPort

\* An endpoint that the main thread is cleaning up, and that was reset meanwhile,
\* does not run again before the job is submitted again.
Cleaning(j) ==
  pc[MainThread] # "threads" =>
    \A x \in Items(MainThread) : x.job = j /\ x.attempt = attempt[j] =>
      /\ Running(j, x.name) \/ j \notin pods
      /\ (Writing(MainThread) /\ x = item[MainThread] /\ x.new.status = "stopped"
            /\ service[j][x.name] # NoPort)
           => /\ ~Running(j, x.name)
              /\ ~(At(Worker(j), x.name) /\ item[Worker(j)].new.status = "running")

Gone(j) == \A n \in Names : doc[j][n].status = "stopped" => service[j][n] = NoPort

Kept(j) ==
  NoneIsNew(j) /\ ResetAll(j) /\ PortKnown(j) /\ Served(j) /\ RightPort(j) /\ Cleaning(j) /\ Gone(j)

EndpointsInv == \A j \in Jobs \ disturbed : Kept(j)

(***************************************************************************)
(* Each part depends on little of the state.                               *)
(***************************************************************************)
SameEndpoints(j) == doc'[j] = doc[j] /\ service'[j] = service[j] /\ server'[j] = server[j]
SameJob(j) ==
  /\ attempt'[j] = attempt[j]
  /\ j \in ActiveJobs' => j \in ActiveJobs
  /\ j \in pods' => j \in pods
SameWrite(j) ==
  /\ Writing(Worker(j))' = Writing(Worker(j))
  /\ Writing(Worker(j)) => item'[Worker(j)] = item[Worker(j)]
SameHands(j) ==
  /\ \A x \in Items(Worker(j))' : \E y \in Items(Worker(j)) : x.name = y.name /\ x.entry = y.entry
  /\ pc'[MainThread] = "threads" =>
       pc[MainThread] = "threads" /\ \A x \in todo'[MainThread] : x.job = j => x \in todo[MainThread]
SameCleaning(j) ==
  pc'[MainThread] # "threads" =>
    \A x \in Items(MainThread)' : x.job = j =>
      /\ pc[MainThread] # "threads" /\ x \in Items(MainThread)
      /\ Writing(MainThread)' /\ x = item'[MainThread] => Writing(MainThread) /\ x = item[MainThread]
SameReset(j) ==
  pc'[Submitter(j)] # "idle" =>
    /\ pc[Submitter(j)] # "idle"
    /\ \A x \in Items(Submitter(j)) : \E y \in Items(Submitter(j))' : x.name = y.name

LEMMA DocumentKept ==
  ASSUME NEW j \in Jobs, Kept(j), doc'[j] = doc[j]
  PROVE  /\ NoneIsNew(j)'
         /\ SameReset(j) => ResetAll(j)'
         /\ service'[j] = service[j] => Gone(j)'
<1>1. NoneIsNew(j)' /\ (service'[j] = service[j] => Gone(j)')
  BY DEF Kept, NoneIsNew, Gone
<1>2. ASSUME SameReset(j) PROVE ResetAll(j)'
  BY <1>2 DEF Kept, ResetAll, SameReset
<1> QED
  BY <1>1, <1>2

LEMMA ServiceKept ==
  ASSUME NEW j \in Jobs, Kept(j), doc'[j] = doc[j], service'[j] = service[j], SameWrite(j)
  PROVE  PortKnown(j)' /\ (server'[j] = server[j] /\ SameJob(j) => Served(j)')
<1>1. PortKnown(j)'
  BY DEF Kept, PortKnown, SameWrite, At
<1>2. ASSUME server'[j] = server[j], SameJob(j) PROVE Served(j)'
  BY <1>2 DEF Kept, Served, SameWrite, SameJob, Running
<1> QED
  BY <1>1, <1>2

LEMMA HandsKept ==
  ASSUME NEW j \in Jobs, Kept(j), doc'[j] = doc[j], SameHands(j)
  PROVE  RightPort(j)'
  BY DEF Kept, RightPort, SameHands, Running

LEMMA CleaningKept ==
  ASSUME NEW j \in Jobs, Kept(j), doc'[j] = doc[j], service'[j] = service[j], SameJob(j),
         SameWrite(j), SameCleaning(j)
  PROVE  Cleaning(j)'
  BY DEF Kept, Cleaning, SameJob, SameWrite, SameCleaning, Running, At

LEMMA AllKept ==
  ASSUME NEW j \in Jobs, Kept(j), SameEndpoints(j), SameJob(j), SameWrite(j), SameHands(j),
         SameCleaning(j), SameReset(j)
  PROVE  Kept(j)'
<1>1. doc'[j] = doc[j] /\ service'[j] = service[j] /\ server'[j] = server[j]
  BY DEF SameEndpoints
<1>2. NoneIsNew(j)' /\ ResetAll(j)' /\ Gone(j)'
  BY <1>1, DocumentKept
<1>3. PortKnown(j)' /\ Served(j)'
  BY <1>1, ServiceKept
<1>4. RightPort(j)' /\ Cleaning(j)'
  BY <1>1, HandsKept, CleaningKept
<1> QED
  BY <1>2, <1>3, <1>4 DEF Kept

\* What rests is the same.
LEMMA RestsSame ==
  ASSUME NEW j \in Jobs
  PROVE  /\ Rests(Worker(j)) => SameWrite(j)
         /\ Rests(MainThread) => SameCleaning(j)
         /\ Rests(Worker(j)) /\ Rests(MainThread) => SameHands(j)
         /\ Rests(Submitter(j)) => SameReset(j)
<1>1. Rests(Worker(j)) => SameWrite(j)
  BY RestsItems DEF Rests, SameWrite
<1>2. Rests(MainThread) => SameCleaning(j)
  BY RestsItems DEF Rests, SameCleaning
<1>3. Rests(Worker(j)) /\ Rests(MainThread) => SameHands(j)
  BY RestsItems DEF Rests, SameHands
<1>4. Rests(Submitter(j)) => SameReset(j)
  BY RestsItems DEF Rests, SameReset
<1> QED
  BY <1>1, <1>2, <1>3, <1>4

-----------------------------------------------------------------------------
(***************************************************************************)
(* The main thread: what it reads is what the documents say.               *)
(***************************************************************************)
LEMMA GetPendingKept ==
  ASSUME TypeOK, NEW j \in Jobs, Kept(j), GetPendingEndpoints
  PROVE  Kept(j)'
<1> DEFINE T == Gather(JobsToServe, "pending")
<1>1. /\ Rests(Worker(j)) /\ Rests(Submitter(j)) /\ SameEndpoints(j) /\ SameJob(j)
      /\ doc' = doc /\ service' = service /\ pc'[MainThread] = "threads" /\ todo'[MainThread] = T
  <2>1. /\ UNCHANGED <<jobStatus, takenDown, pods, attempt, doc, service, server, item>>
        /\ pc'[MainThread] = "threads" /\ todo'[MainThread] = T
        /\ \A a \in Actors : a # MainThread => Rests(a)
    BY ActorNames DEF GetPendingEndpoints, Gather, Goto, Loop, Rests, TypeOK, jobVars, kubeVars
  <2> HIDE DEF T
  <2>2. Rests(Worker(j)) /\ Rests(Submitter(j))
    BY <2>1, ActorNames
  <2> QED
    BY <2>1, <2>2 DEF SameEndpoints, SameJob, ActiveJobs
<1>2. \A x \in T : x.entry = doc[x.job][x.name]
  <2>1. JobsToServe \in SUBSET Jobs
    BY DEF JobsToServe
  <2> QED
    BY <2>1, Gathered
<1> HIDE DEF T
<1>3. Items(Worker(j))' = Items(Worker(j))
  BY <1>1, RestsItems
<1>4. RightPort(j)'
  BY <1>1, <1>2, <1>3 DEF Kept, RightPort, Running
<1>5. Cleaning(j)'
  BY <1>1 DEF Cleaning
<1> QED
  BY <1>1, <1>4, <1>5, RestsSame, DocumentKept, ServiceKept DEF Kept, SameEndpoints

LEMMA GetDeadKept ==
  ASSUME TypeOK, NEW j \in Jobs, Kept(j), GetDeadEndpoints
  PROVE  Kept(j)'
<1> DEFINE T == Gather(JobsToClean, "running")
<1>1. /\ Rests(Worker(j)) /\ Rests(Submitter(j)) /\ SameEndpoints(j) /\ SameJob(j)
      /\ doc' = doc /\ service' = service /\ pc'[MainThread] = "clean" /\ todo'[MainThread] = T
  <2>1. /\ UNCHANGED <<jobStatus, takenDown, pods, attempt, doc, service, server, item>>
        /\ pc'[MainThread] = "clean" /\ todo'[MainThread] = T
        /\ \A a \in Actors : a # MainThread => Rests(a)
    BY ActorNames DEF GetDeadEndpoints, Gather, Goto, Loop, Rests, TypeOK, jobVars, kubeVars
  <2> HIDE DEF T
  <2>2. Rests(Worker(j)) /\ Rests(Submitter(j))
    BY <2>1, ActorNames
  <2> QED
    BY <2>1, <2>2 DEF SameEndpoints, SameJob, ActiveJobs
<1>2. \A x \in T : Running(x.job, x.name)
  <2>1. JobsToClean \in SUBSET Jobs
    BY DEF JobsToClean
  <2>2. \A x \in T : x.entry = doc[x.job][x.name] /\ x.entry.status = "running"
    BY <2>1, Gathered
  <2> QED
    BY <2>2 DEF Running
<1> HIDE DEF T
<1>3. SameHands(j)
  BY <1>1, RestsItems DEF SameHands
<1>4. Cleaning(j)'
  BY <1>1, <1>2 DEF Cleaning, Items, InHand, Writing, Running
<1> QED
  BY <1>1, <1>3, <1>4, RestsSame, DocumentKept, ServiceKept, HandsKept DEF Kept, SameEndpoints

LEMMA StartThreadKept ==
  ASSUME TypeOK, ActorsInv, NEW j \in Jobs, Kept(j), NEW k \in Jobs, StartThread(k)
  PROVE  Kept(j)'
<1> DEFINE mine == {i \in todo[MainThread] : i.job = k}
           w == Worker(j)
<1>1. w \in Actors /\ MainThread \in Actors /\ w # MainThread
  BY ActorNames
<1>2. /\ SameEndpoints(j) /\ SameJob(j) /\ Rests(Submitter(j)) /\ doc' = doc
      /\ service' = service
      /\ pc[MainThread] = "threads" /\ pc'[MainThread] = "threads"
      /\ todo'[MainThread] = todo[MainThread] \ mine
      /\ Rests(w) \/ (k = j /\ pc[w] = "idle" /\ pc'[w] = "check" /\ todo'[w] = mine)
  BY <1>1, ActorNames DEF StartThread, Goto, Rests, SameEndpoints, SameJob, ActiveJobs, TypeOK, jobVars, kubeVars
<1>3. SameWrite(j)
  BY <1>2, RestsSame DEF SameWrite, Writing
<1>4. Cleaning(j)'
  BY <1>2 DEF Cleaning
<1>5. RightPort(j)'
  <2>1. CASE Rests(w)
    BY <1>2, <2>1, RestsItems, HandsKept DEF SameHands
  <2>2. CASE k = j /\ pc'[w] = "check" /\ todo'[w] = mine
    <3>1. Items(w)' = mine
      BY <2>2 DEF Items, InHand
    <3>2. \A x \in mine : Running(j, x.name) => x.entry.podPort = doc[j][x.name].podPort
      BY <1>2, <2>2 DEF Kept, RightPort
    <3> QED
      BY <1>2, <2>2, <3>1, <3>2 DEF RightPort, Running
  <2> QED
    BY <1>2, <2>1, <2>2
<1> QED
  BY <1>2, <1>3, <1>4, <1>5, RestsSame, DocumentKept, ServiceKept DEF Kept, SameEndpoints

LEMMA CleanServiceKept ==
  ASSUME TypeOK, ActorsInv, NEW j \in Jobs, Kept(j), j \notin disturbed',
         NEW i \in todo[MainThread], CleanService(i)
  PROVE  Kept(j)'
<1> DEFINE h == item'[MainThread]
<1>1. MainThread \in Actors /\ i \in Item
  BY ActorNames, Held
<1>2. PICK s \in {"stopped", "unknown"} :
        /\ item' = [item EXCEPT ![MainThread] =
                      [i EXCEPT !.new.status = s, !.new.podPort = i.entry.podPort]]
        /\ s = "stopped" /\ i.job = j => service'[j][i.name] = NoPort
        /\ \/ service' = service
           \/ service' = [service EXCEPT ![i.job][i.name] = NoPort] /\ (i.job = j => ~Stale(MainThread, i))
  BY <1>1, ItemType
  DEF CleanService, Hold, DeleteFailed, SetService, Disturb, Overtaken, Serves, TypeOK
<1>3. /\ Rests(Worker(j)) /\ Rests(Submitter(j)) /\ SameJob(j) /\ doc' = doc /\ server' = server
      /\ pc[MainThread] = "clean" /\ pc'[MainThread] = "update"
      /\ todo'[MainThread] = todo[MainThread] \ {i}
      /\ jobStatus' = jobStatus /\ attempt' = attempt
  BY <1>1, <1>2, ActorNames DEF CleanService, Goto, Loop, Rests, SameJob, ActiveJobs, TypeOK, jobVars
<1>4. h.job = i.job /\ h.name = i.name /\ h.attempt = i.attempt /\ h.new.status = s
  <2>1. h = [i EXCEPT !.new.status = s, !.new.podPort = i.entry.podPort]
    BY <1>1, <1>2 DEF TypeOK
  <2> HIDE DEF h
  <2> QED
    BY <1>1, <2>1 DEF Item, Entry
<1>5. /\ Items(MainThread) = todo[MainThread] /\ Items(MainThread)' = (todo[MainThread] \ {i}) \cup {h}
      /\ Writing(MainThread)'
  BY <1>3 DEF Items, InHand, Writing
<1>6. \A n \in Names : service'[j][n] \in {service[j][n], NoPort}
  <2>1. service \in [Jobs -> [Names -> Ports \cup {NoPort}]] /\ i.job \in Jobs /\ i.name \in Names
    BY <1>1, ItemType DEF TypeOK
  <2>2. service' = service \/ service' = [service EXCEPT ![i.job][i.name] = NoPort]
    BY <1>2
  <2> QED
    BY <2>1, <2>2
<1>7. SameWrite(j) /\ SameHands(j) /\ SameReset(j)
  BY <1>3, RestsSame, RestsItems DEF SameHands
<1> HIDE DEF h
<1>8. PortKnown(j)'
  <2>1. Writing(Worker(j)) => item[Worker(j)].name \in Names
    BY ActorNames, Held, ItemType
  <2> QED
    BY <1>3, <1>6, <1>7, <2>1 DEF Kept, PortKnown, SameWrite, At
<1>9. Served(j)'
  <2> SUFFICES ASSUME j \in ActiveJobs PROVE Served(j)'
    BY <1>3 DEF Served, SameJob
  <2>1. i.job = j => attempt[j] # i.attempt
    BY <1>3, <1>5 DEF ActorsInv, MainInv, ActiveJobs
  <2>2. service'[j] = service[j]
    BY <1>1, <1>2, <2>1, ItemType DEF Stale, TypeOK
  <2> QED
    BY <1>3, <1>7, <2>2, ServiceKept DEF SameEndpoints
<1>10. Cleaning(j)'
  <2> SUFFICES ASSUME NEW x \in Items(MainThread)', x.job = j, x.attempt = attempt[j]
               PROVE  /\ Running(j, x.name) \/ j \notin pods'
                      /\ x = h /\ x.new.status = "stopped" => service'[j][x.name] = NoPort
    BY <1>3 DEF Cleaning, Running, h
  <2>1. x = h => x.name = i.name /\ x.new.status = s /\ i.job = j /\ i.attempt = attempt[j]
    BY <1>4
  <2>2. Running(j, x.name) \/ j \notin pods
    BY <1>3, <1>5, <2>1 DEF Kept, Cleaning
  <2> QED
    BY <1>2, <1>3, <2>1, <2>2 DEF SameJob, ActiveJobs
<1>11. Gone(j)'
  BY <1>3, <1>6 DEF Kept, Gone
<1> QED
  BY <1>3, <1>7, <1>8, <1>9, <1>10, <1>11, DocumentKept, HandsKept DEF Kept

-----------------------------------------------------------------------------
(***************************************************************************)
(* The worker: it has the port before it starts the server.                *)
(***************************************************************************)
LEMMA WorkerLets ==
  ASSUME TypeOK, NEW k \in Jobs, WorkerStep(k)
  PROVE  /\ \A a \in Actors \ {Worker(k)} : Rests(a)
         /\ UNCHANGED <<jobStatus, takenDown, pods, attempt, doc>>
<1> USE DEF Goto, Loop, Rests, TypeOK, jobVars, kubeVars
<1>1. Worker(k) \in Actors
  BY ActorNames
<1>2. ASSUME NEW x \in todo[Worker(k)], WorkerCheck(k, x)
      PROVE  /\ \A a \in Actors \ {Worker(k)} : Rests(a)
             /\ UNCHANGED <<jobStatus, takenDown, pods, attempt, doc>>
  BY <1>1, <1>2 DEF WorkerCheck
<1>3. CASE WorkerEnds(k)
  BY <1>1, <1>3 DEF WorkerEnds
<1>4. CASE StartServer(k)
  BY <1>1, <1>4 DEF StartServer, Hold
<1>5. CASE CreateService(k)
  BY <1>1, <1>5 DEF CreateService, Hold
<1>6. CASE WorkerFails(k)
  BY <1>1, <1>6 DEF WorkerFails
<1> QED
  BY <1>2, <1>3, <1>4, <1>5, <1>6 DEF WorkerStep

LEMMA OtherWorkerKept ==
  ASSUME TypeOK, ActorsInv, NEW j \in Jobs, Kept(j), NEW k \in Jobs \ {j}, WorkerStep(k)
  PROVE  Kept(j)'
<1>1. /\ Rests(Worker(j)) /\ Rests(MainThread) /\ Rests(Submitter(j))
      /\ doc' = doc /\ SameJob(j)
  BY WorkerLets, ActorNames DEF SameJob, ActiveJobs
<1>2. service'[j] = service[j] /\ server'[j] = server[j]
  <2>1. ASSUME pc[Worker(k)] = "kube" PROVE item[Worker(k)].job = k
    BY <2>1 DEF ActorsInv, WorkerInv, Items, InHand
  <2>2. CASE StartServer(k)
    BY <2>2 DEF StartServer, TypeOK
  <2>3. CASE CreateService(k)
    BY <2>1, <2>3 DEF CreateService, SetService, TypeOK
  <2> QED
    BY <2>2, <2>3 DEF WorkerStep, WorkerCheck, WorkerEnds, WorkerFails, kubeVars
<1> QED
  BY <1>1, <1>2, RestsSame, AllKept DEF SameEndpoints

LEMMA StartServerKept ==
  ASSUME TypeOK, ActorsInv, NEW j \in Jobs, Kept(j), StartServer(j)
  PROVE  Kept(j)'
<1> DEFINE w == Worker(j)
           i == item[w]
           h == item'[w]
           p == i.entry.podPort
<1>1. w \in Actors /\ i \in Item /\ i.name \in Names
  BY ActorNames, Held, ItemType
<1>2. /\ Rests(MainThread) /\ Rests(Submitter(j)) /\ doc' = doc /\ SameJob(j)
      /\ attempt' = attempt /\ jobStatus' = jobStatus /\ pods' = pods
  <2>1. WorkerStep(j)
    BY DEF WorkerStep
  <2> QED
    BY <2>1, WorkerLets, ActorNames DEF SameJob, ActiveJobs
<1>3. /\ pc[w] = "kube" /\ todo' = todo /\ service' = service /\ j \in pods
      /\ pc'[w] \in {"check", "update"}
      /\ server' = [server EXCEPT ![j][i.name] = p]
      /\ p # NoPort
  BY <1>1 DEF StartServer, Goto, TypeOK
<1>4. i \in Items(w) /\ i.job = j /\ i.entry.status = "pending" /\ service[j][i.name] # NoPort
  BY <1>3 DEF StartServer, Serves, ActorsInv, WorkerInv, Items, InHand
<1>5. pc'[w] = "update" =>
        h.name = i.name /\ h.entry = i.entry /\ h.attempt = i.attempt /\ h.new.podPort = p
  <2> SUFFICES ASSUME pc'[w] = "update"
               PROVE h.name = i.name /\ h.entry = i.entry /\ h.attempt = i.attempt /\ h.new.podPort = p
    OBVIOUS
  <2>1. PICK s \in {"running", "pending"} :
          item' = [item EXCEPT ![w] = [i EXCEPT !.new.status = s, !.new.podPort = p]]
    BY <1>1 DEF StartServer, Hold, Goto, TypeOK
  <2>2. h = [i EXCEPT !.new.status = s, !.new.podPort = p]
    BY <1>1, <2>1 DEF TypeOK
  <2> HIDE DEF h, i
  <2> QED
    BY <1>1, <2>2 DEF Item, Entry
<1>6. /\ \A x \in Items(w)' : \E y \in Items(w) : x.name = y.name /\ x.entry = y.entry
      /\ ~Writing(w) /\ Writing(w)' = (pc'[w] = "update")
  BY <1>3, <1>5 DEF Items, InHand, Writing
<1> HIDE DEF h, i
<1>7. SameHands(j) /\ SameCleaning(j) /\ SameReset(j)
  BY <1>2, <1>6, RestsSame DEF SameHands, Rests
<1>8. PortKnown(j)'
  <2>1. \A n \in Names : service'[j][n] \in {NoPort, doc'[j][n].podPort}
    BY <1>2, <1>3, <1>6 DEF Kept, PortKnown, At
  <2>2. Writing(w)' /\ doc'[j][h.name].podPort = h.entry.podPort
          => service'[j][h.name] \in {NoPort, h.new.podPort}
    BY <1>1, <1>5, <1>6, <2>1
  <2> QED
    BY <2>1, <2>2 DEF PortKnown, h
<1>9. Served(j)'
  <2> SUFFICES ASSUME j \in ActiveJobs PROVE Served(j)'
    BY <1>2 DEF Served, SameJob
  <2>1. \A n \in Names : Running(j, n) =>
          /\ service[j][n] = doc[j][n].podPort /\ service[j][n] # NoPort
          /\ server[j][n] = service[j][n]
    BY DEF Kept, Served
  <2>2. Running(j, i.name) => p = doc[j][i.name].podPort
    BY <1>4 DEF Kept, RightPort
  <2>3. \A n \in Names : Running(j, n) =>
          server'[j][n] = service[j][n]
    BY <1>1, <1>3, <2>1, <2>2 DEF TypeOK
  <2>4. Writing(w)' => service'[j][h.name] # NoPort
    BY <1>3, <1>4, <1>5, <1>6
  <2> QED
    BY <1>2, <1>3, <2>1, <2>3, <2>4 DEF Served, Running, h
<1>10. Cleaning(j)'
  <2> SUFFICES ASSUME pc[MainThread] # "threads", NEW x \in Items(MainThread),
                      x.job = j, x.attempt = attempt[j]
               PROVE  /\ Running(j, x.name) \/ j \notin pods
                      /\ (Writing(MainThread) /\ x = item[MainThread] /\ x.new.status = "stopped"
                            /\ service[j][x.name] # NoPort)
                           => ~Running(j, x.name) /\ ~At(w, x.name)'
    BY <1>2, <1>3, RestsItems DEF Cleaning, Running, Rests, At
  <2> QED
    BY <1>3 DEF Kept, Cleaning
<1> QED
  BY <1>2, <1>3, <1>7, <1>8, <1>9, <1>10, DocumentKept, HandsKept DEF Kept

LEMMA CreateServiceKept ==
  ASSUME TypeOK, ActorsInv, NEW j \in Jobs, Kept(j), j \notin disturbed', CreateService(j)
  PROVE  Kept(j)'
<1> DEFINE w == Worker(j)
           i == item[w]
           h == item'[w]
<1>1. w \in Actors /\ i \in Item /\ i.name \in Names
  BY ActorNames, Held, ItemType
<1>2. /\ Rests(MainThread) /\ Rests(Submitter(j)) /\ doc' = doc /\ SameJob(j)
      /\ attempt' = attempt /\ jobStatus' = jobStatus /\ pods' = pods
  <2>1. WorkerStep(j)
    BY DEF WorkerStep
  <2> QED
    BY <2>1, WorkerLets, ActorNames DEF SameJob, ActiveJobs
<1>3. pc[w] = "kube" /\ todo' = todo /\ server' = server /\ pc'[w] = "update"
  BY <1>1 DEF CreateService, Goto, TypeOK, jobVars
<1>4. i \in Items(w) /\ i.job = j /\ i.entry.status = "pending"
  BY <1>3 DEF ActorsInv, WorkerInv, Items, InHand
<1>5. PICK p \in Ports :
        /\ item' = [item EXCEPT ![w] = [i EXCEPT !.new.status = i.entry.status, !.new.podPort = p]]
        /\ service[j][i.name] = NoPort
        /\ \/ service' = [service EXCEPT ![j][i.name] = p] /\ ~Stale(w, i)
           \/ service' = service
  BY <1>4 DEF CreateService, Hold, SetService, Disturb, Overtaken, Serves
<1>6. /\ h.name = i.name /\ h.entry = i.entry /\ h.new.podPort = p /\ h.new.status = "pending"
  <2>1. h = [i EXCEPT !.new.status = i.entry.status, !.new.podPort = p]
    BY <1>1, <1>5 DEF TypeOK
  <2> HIDE DEF h, i
  <2> QED
    BY <1>1, <1>4, <2>1 DEF Item, Entry
<1>7. /\ \A x \in Items(w)' : \E y \in Items(w) : x.name = y.name /\ x.entry = y.entry
      /\ ~Writing(w) /\ Writing(w)'
  BY <1>3, <1>6 DEF Items, InHand, Writing
<1> HIDE DEF h, i
<1>8. SameHands(j) /\ SameCleaning(j) /\ SameReset(j)
  BY <1>2, <1>7, RestsSame DEF SameHands, Rests
<1>9. /\ \A n \in Names \ {i.name} : service'[j][n] = service[j][n]
      /\ \/ service'[j][i.name] = NoPort
         \/ /\ service'[j][i.name] = p
            /\ doc[j][i.name].status = "pending"
  <2>1. ~Stale(w, i) => doc[j][i.name].status = "pending"
    BY <1>4 DEF Stale
  <2> QED
    BY <1>1, <1>5, <2>1 DEF TypeOK
<1>10. PortKnown(j)'
  <2>1. \A n \in Names : service[j][n] \in {NoPort, doc[j][n].podPort}
    BY <1>7 DEF Kept, PortKnown, At
  <2> QED
    BY <1>1, <1>2, <1>6, <1>7, <1>9, <2>1 DEF PortKnown, At, h
<1>11. Served(j)'
  <2> SUFFICES ASSUME j \in ActiveJobs PROVE Served(j)'
    BY <1>2 DEF Served, SameJob
  <2>1. \A n \in Names : Running(j, n) =>
          /\ service[j][n] = doc[j][n].podPort /\ service[j][n] # NoPort
          /\ server[j][n] = service[j][n]
    BY DEF Kept, Served
  <2>2. \A n \in Names : Running(j, n) => service'[j][n] = service[j][n]
    BY <1>5, <1>9, <2>1
  <2> QED
    BY <1>2, <1>3, <1>6, <2>1, <2>2 DEF Served, Running, h
<1>12. Cleaning(j)'
  <2> SUFFICES ASSUME pc[MainThread] # "threads", NEW x \in Items(MainThread),
                      x.job = j, x.attempt = attempt[j]
               PROVE  /\ Running(j, x.name) \/ j \notin pods
                      /\ (Writing(MainThread) /\ x = item[MainThread] /\ x.new.status = "stopped"
                            /\ service'[j][x.name] # NoPort)
                           => ~Running(j, x.name)
    <3>1. Items(MainThread)' = Items(MainThread) /\ Writing(MainThread)' = Writing(MainThread)
      BY <1>2, RestsItems
    <3>2. item'[w].new.status # "running"
      BY <1>6 DEF h
    <3> QED
      BY <1>2, <3>1, <3>2 DEF Cleaning, Running, Rests
  <2>1. MainThread \in Actors /\ x.name \in Names
    BY ActorNames, ItemsType, ItemType
  <2> QED
    BY <1>9, <2>1 DEF Kept, Cleaning, Running
<1>13. Gone(j)'
  BY <1>2, <1>9 DEF Kept, Gone
<1> QED
  BY <1>2, <1>8, <1>10, <1>11, <1>12, <1>13, DocumentKept, HandsKept DEF Kept

LEMMA WorkerKept ==
  ASSUME TypeOK, ActorsInv, NEW j \in Jobs, Kept(j), j \notin disturbed', WorkerStep(j)
  PROVE  Kept(j)'
<1> DEFINE w == Worker(j)
<1>1. w \in Actors
  BY ActorNames
<1>2. Rests(MainThread) /\ Rests(Submitter(j)) /\ doc' = doc /\ SameJob(j)
  BY WorkerLets, ActorNames DEF SameJob, ActiveJobs
<1>3. ASSUME ~Writing(w), ~Writing(w)', Items(w)' \subseteq Items(w), UNCHANGED kubeVars
      PROVE  Kept(j)'
  <2>1. SameCleaning(j) /\ SameReset(j)
    BY <1>2, RestsSame
  <2>2. SameHands(j)
    BY <1>2, <1>3 DEF SameHands, Rests
  <2>3. SameWrite(j)
    BY <1>3 DEF SameWrite, Writing
  <2> QED
    BY <1>2, <1>3, <2>1, <2>2, <2>3, AllKept DEF SameEndpoints, kubeVars
<1>4. ASSUME NEW x \in todo[w], WorkerCheck(j, x) PROVE Kept(j)'
  <2>1. /\ pc[w] = "check" /\ todo'[w] = todo[w] \ {x}
        /\ (pc'[w] = "kube" /\ item'[w] = x) \/ pc'[w] = "check"
    BY <1>1, <1>4 DEF WorkerCheck, Goto, Loop, TypeOK
  <2>2. ~Writing(w) /\ ~Writing(w)' /\ Items(w)' \subseteq Items(w)
    BY <2>1 DEF Items, InHand, Writing
  <2> QED
    BY <1>3, <1>4, <2>2 DEF WorkerCheck
<1>5. CASE WorkerEnds(j)
  BY <1>1, <1>3, <1>5 DEF WorkerEnds, Goto, Items, InHand, Writing, TypeOK
<1>6. CASE WorkerFails(j)
  BY <1>1, <1>3, <1>6 DEF WorkerFails, Goto, Items, InHand, Writing, TypeOK
<1> QED
  BY <1>4, <1>5, <1>6, StartServerKept, CreateServiceKept DEF WorkerStep

-----------------------------------------------------------------------------
(***************************************************************************)
(* The resets, and the job itself.                                         *)
(***************************************************************************)
LEMMA ResetBeginKept ==
  ASSUME TypeOK, NEW j \in Jobs, Kept(j), j \notin disturbed',
         NEW k \in Jobs, NEW a \in {Submitter(k), Reviver(k)}, ResetBegin(a, k)
  PROVE  Kept(j)'
<1>1. a \in Actors
  BY ActorNames
<1>2. /\ \A b \in Actors \ {a} : Rests(b)
      /\ UNCHANGED <<jobStatus, takenDown, pods, attempt, doc, service, server, item>>
      /\ pc'[a] = "reset" /\ (k = j => todo'[a] = ToReset(j))
  BY <1>1 DEF ResetBegin, Goto, Loop, Disturb, Rests, TypeOK, jobVars, kubeVars
<1>3. Rests(Worker(j)) /\ Rests(MainThread) /\ (Rests(Submitter(j)) \/ (a = Submitter(j) /\ k = j))
  BY <1>2, ActorNames
<1>4. SameEndpoints(j) /\ SameJob(j)
  BY <1>2 DEF SameEndpoints, SameJob, ActiveJobs
<1>5. CASE Rests(Submitter(j))
  BY <1>3, <1>4, <1>5, RestsSame, AllKept
<1>6. CASE a = Submitter(j) /\ k = j
  <2>1. Items(a)' = ToReset(j)
    BY <1>2, <1>6 DEF Items, InHand
  <2>2. ASSUME NEW n \in Names, doc[j][n].status \notin {"none", "pending"}
        PROVE  \E x \in ToReset(j) : x.name = n
    <3>1. doc[j][n] \in Entry
      BY DEF TypeOK, Document
    <3>2. n \in InState(j, Known)
      BY <2>2, <3>1 DEF InState, Known, Entry
    <3> DEFINE x == [job |-> j, name |-> n, attempt |-> attempt[j], entry |-> doc[j][n],
                     new |-> doc[j][n]]
    <3>3. x \in ToReset(j)
      BY <3>2 DEF ToReset, Read
    <3>4. x.name = n
      OBVIOUS
    <3> QED
      BY <3>3, <3>4
  <2>3. ResetAll(j)'
    BY <1>2, <1>6, <2>1, <2>2 DEF ResetAll
  <2> QED
    BY <1>2, <1>3, <1>4, <2>3, RestsSame, DocumentKept, ServiceKept, HandsKept, CleaningKept DEF Kept
<1> QED
  BY <1>3, <1>5, <1>6

LEMMA ResetNextKept ==
  ASSUME TypeOK, NEW j \in Jobs, Kept(j), NEW k \in Jobs, NEW a \in {Submitter(k), Reviver(k)},
         NEW i \in todo[a], ResetNext(a, i)
  PROVE  Kept(j)'
<1> DEFINE h == item'[a]
<1>1. a \in Actors /\ i \in Item
  BY ActorNames, Held
<1>2. /\ \A b \in Actors \ {a} : Rests(b)
      /\ UNCHANGED <<jobStatus, takenDown, pods, attempt, doc, service, server>>
      /\ pc[a] = "reset" /\ pc'[a] = "update" /\ todo'[a] = todo[a] \ {i}
      /\ h = [i EXCEPT !.new.status = "pending", !.new.podPort = i.entry.podPort]
  BY <1>1 DEF ResetNext, Hold, Goto, Loop, Rests, TypeOK, jobVars, kubeVars
<1>3. h.name = i.name
  <2> HIDE DEF h
  <2> QED
    BY <1>1, <1>2 DEF Item, Entry
<1>4. Rests(Worker(j)) /\ Rests(MainThread) /\ (Rests(Submitter(j)) \/ a = Submitter(j))
  BY <1>2, ActorNames
<1>5. SameEndpoints(j) /\ SameJob(j)
  BY <1>2 DEF SameEndpoints, SameJob, ActiveJobs
<1>6. Items(a) = todo[a] /\ Items(a)' = (todo[a] \ {i}) \cup {h}
  BY <1>2 DEF Items, InHand
<1> HIDE DEF h
<1>7. a = Submitter(j) => SameReset(j)
  BY <1>2, <1>3, <1>6 DEF SameReset
<1> QED
  BY <1>4, <1>5, <1>7, RestsSame, AllKept

LEMMA SubmitEndKept ==
  ASSUME TypeOK, ActorsInv, NEW j \in Jobs, Kept(j), NEW k \in Jobs, SubmitEnd(k)
  PROVE  Kept(j)'
<1>1. /\ Rests(Worker(j)) /\ Rests(MainThread)
      /\ k # j => Rests(Submitter(j))
      /\ k = j => pc[Submitter(j)] = "reset" /\ todo[Submitter(j)] = {} /\ pc'[Submitter(j)] = "idle"
      /\ UNCHANGED <<doc, service>>
  BY ActorNames DEF SubmitEnd, Goto, Rests, TypeOK
<1>2. SameWrite(j) /\ SameHands(j) /\ SameCleaning(j) /\ SameReset(j)
  BY <1>1, RestsSame DEF SameReset
<1>3. \/ SameJob(j) /\ server'[j] = server[j]
      \/ k = j /\ attempt'[j] = attempt[j] + 1
  BY DEF SubmitEnd, SetStatus, SameJob, ActiveJobs, TypeOK, jobVars
<1>4. CASE k = j /\ attempt'[j] = attempt[j] + 1
  <2>1. \A n \in Names : ~Running(j, n)
    BY <1>1, <1>4 DEF Kept, ResetAll, Items, InHand, Running
  <2>2. attempt[j] \in Nat
    BY BoundAssumption DEF TypeOK
  <2>3. ASSUME NEW a \in {MainThread, Worker(j)}, NEW x \in Items(a), x.job = j
        PROVE  x.attempt # attempt'[j]
    <3>1. x.attempt \in Nat
      <4>1. a \in Actors
        BY ActorNames
      <4>2. x \in Item
        BY <4>1, ItemsType
      <4> QED
        BY <4>2, ItemType
    <3>2. ReadBefore(a)
      <4>1. MainInv /\ WorkerInv(j)
        BY DEF ActorsInv
      <4> QED
        BY <4>1 DEF MainInv, WorkerInv
    <3>3. x.attempt <= attempt[j]
      BY <2>3, <3>2 DEF ReadBefore
    <3> QED
      BY <1>4, <2>2, <3>1, <3>3
  <2>4. Served(j)'
    <3>1. Writing(Worker(j)) =>
            item[Worker(j)] \in Items(Worker(j)) /\ item[Worker(j)].job = j
      BY DEF ActorsInv, WorkerInv, Items, InHand, Writing
    <3>2. Writing(Worker(j)) => item[Worker(j)].attempt # attempt'[j]
      BY <2>3, <3>1
    <3> QED
      BY <1>1, <1>2, <2>1, <3>2 DEF Served, Running, SameWrite
  <2>5. Cleaning(j)'
    BY <1>1, <2>3, RestsItems DEF Cleaning
  <2> QED
    BY <1>1, <1>2, <2>4, <2>5, DocumentKept, ServiceKept, HandsKept DEF Kept
<1> QED
  BY <1>1, <1>2, <1>3, <1>4, AllKept DEF SameEndpoints

\* delete_job takes services away, from a job that is not active from then on.
LEMMA ServicesGone ==
  ASSUME TypeOK, NEW j \in Jobs, NEW k \in Jobs, DeleteServices(k), jobStatus' = jobStatus
  PROVE  /\ \A n \in Names : service'[j][n] \in {service[j][n], NoPort}
         /\ j \in ActiveJobs' => j \in ActiveJobs /\ k # j
         /\ k # j => service'[j] = service[j]
<1>1. PICK S \in SUBSET Names :
        service' = [service EXCEPT ![k] = [n \in Names |-> IF n \in S THEN NoPort ELSE service[k][n]]]
  BY DEF DeleteServices
<1>2. service \in [Jobs -> [Names -> Ports \cup {NoPort}]]
  BY DEF TypeOK
<1>3. CASE k = j
  <2>1. service'[j] = [n \in Names |-> IF n \in S THEN NoPort ELSE service[j][n]]
    BY <1>1, <1>2, <1>3
  <2> QED
    BY <1>3, <2>1 DEF DeleteServices, ActiveJobs
<1>4. CASE k # j
  <2>1. service'[j] = service[j]
    BY <1>1, <1>2, <1>4
  <2> QED
    BY <1>4, <2>1 DEF DeleteServices, ActiveJobs
<1> QED
  BY <1>3, <1>4

LEMMA DeletionKept ==
  ASSUME TypeOK, NEW j \in Jobs, Kept(j), NEW k \in Jobs, ReviveEnd(k) \/ DeleteJob(k)
  PROVE  Kept(j)'
<1>1. /\ Rests(Worker(j)) /\ Rests(MainThread) /\ Rests(Submitter(j))
      /\ UNCHANGED <<jobStatus, pods, attempt, doc, server>>
      /\ DeleteServices(k)
  BY ActorNames DEF ReviveEnd, DeleteJob, Goto, Rests, TypeOK, threadVars
<1>2. /\ \A n \in Names : service'[j][n] \in {service[j][n], NoPort}
      /\ j \in ActiveJobs' => j \in ActiveJobs /\ k # j
      /\ k # j => service'[j] = service[j]
  BY <1>1, ServicesGone
<1>3. SameJob(j)
  BY <1>1, <1>2 DEF SameJob
<1>4. SameWrite(j) /\ SameHands(j) /\ SameCleaning(j) /\ SameReset(j)
  BY <1>1, RestsSame
<1>5. CASE k # j
  BY <1>1, <1>2, <1>3, <1>4, <1>5, AllKept DEF SameEndpoints
<1>6. CASE k = j
  <2>1. PortKnown(j)'
    <3>1. Writing(Worker(j)) => item[Worker(j)].name \in Names
      BY ActorNames, Held, ItemType
    <3> QED
      BY <1>1, <1>2, <1>4, <3>1 DEF Kept, PortKnown, SameWrite, At
  <2>2. Served(j)'
    BY <1>2, <1>6 DEF Served
  <2>3. Cleaning(j)'
    <3>1. \A x \in Items(MainThread) : x.name \in Names
      BY ActorNames, ItemsType, ItemType
    <3> QED
      BY <1>1, <1>2, <1>4, <3>1 DEF Kept, Cleaning, SameWrite, SameCleaning, Running, At
  <2>4. Gone(j)'
    BY <1>1, <1>2 DEF Kept, Gone
  <2> QED
    BY <1>1, <1>4, <2>1, <2>2, <2>3, <2>4, DocumentKept, HandsKept DEF Kept
<1> QED
  BY <1>5, <1>6

LEMMA ResetKept ==
  ASSUME TypeOK, ActorsInv, NEW j \in Jobs, Kept(j), j \notin disturbed',
         NEW k \in Jobs, ResetStep(k)
  PROVE  Kept(j)'
  BY DeletionKept, ResetBeginKept, ResetNextKept, SubmitEndKept DEF ResetStep

LEMMA JobKept ==
  ASSUME TypeOK, NEW j \in Jobs, Kept(j), NEW k \in Jobs, JobStep(k)
  PROVE  Kept(j)'
<1>1. /\ \A a \in Actors : Rests(a)
      /\ UNCHANGED <<attempt, doc, service, server>>
  BY DEF JobStep, Rests, threadVars, kubeVars
<1>2. SameEndpoints(j)
  BY <1>1 DEF SameEndpoints
<1>3. SameJob(j)
  BY DEF JobStep, NewStatus, SetStatus, PodsGo, SameJob, ActiveJobs, TypeOK
<1> QED
  BY <1>1, <1>2, <1>3, ActorNames, RestsSame, AllKept

(***************************************************************************)
(* A manager that dies loses the port of no service of a job that is not   *)
(* disturbed;  a call that hangs changes nothing.                          *)
(***************************************************************************)
LEMMA ManagerDiesKept ==
  ASSUME TypeOK, NEW j \in Jobs, Kept(j), j \notin disturbed', ManagerDies
  PROVE  Kept(j)'
<1>1. /\ UNCHANGED <<jobStatus, takenDown, pods, attempt, doc, service, server>>
      /\ Rests(Submitter(j))
      /\ pc'[MainThread] = "down" /\ todo'[MainThread] = {}
      /\ pc'[Worker(j)] = "idle" /\ todo'[Worker(j)] = {}
      /\ ~PortLost(j)
  <2>1. MainThread \notin Lockers /\ Worker(j) \in Lockers /\ Submitter(j) \notin Lockers
    BY ActorNames DEF Lockers
  <2> QED
    BY <2>1, ActorNames DEF ManagerDies, Rests, Disturb, jobVars, kubeVars
<1>2. /\ Items(MainThread)' = {} /\ Items(Worker(j))' = {}
      /\ ~Writing(Worker(j))' /\ ~Writing(MainThread)'
  BY <1>1 DEF Items, InHand, Writing
<1>3. SameReset(j)
  BY <1>1, RestsSame
<1>4. NoneIsNew(j)' /\ ResetAll(j)' /\ Gone(j)'
  BY <1>1, <1>3, DocumentKept
<1>5. PortKnown(j)'
  BY <1>1, <1>2 DEF PortKnown, PortLost, At
<1>6. Served(j)'
  BY <1>1, <1>2 DEF Kept, Served, ActiveJobs, Running
<1>7. RightPort(j)' /\ Cleaning(j)'
  BY <1>1, <1>2 DEF RightPort, Cleaning
<1> QED
  BY <1>4, <1>5, <1>6, <1>7 DEF Kept

LEMMA CallHangsKept ==
  ASSUME TypeOK, NEW j \in Jobs, Kept(j), NEW k \in Jobs, CallHangs(k)
  PROVE  Kept(j)'
<1>1. /\ UNCHANGED <<jobStatus, takenDown, pods, attempt, doc, service, server, todo, item>>
      /\ \A b \in Actors : pc'[b] = pc[b] \/ (pc[b] = "kube" /\ pc'[b] = "hung")
  BY DEF CallHangs, Goto, TypeOK, jobVars, kubeVars
<1>2. \A b \in Actors : Items(b)' = Items(b) /\ Writing(b)' = Writing(b)
  BY <1>1 DEF Items, InHand, Writing
<1>3. SameEndpoints(j) /\ SameJob(j)
  BY <1>1 DEF SameEndpoints, SameJob, ActiveJobs
<1>4. {MainThread, Worker(j), Submitter(j)} \subseteq Actors
  BY ActorNames
<1>5. SameWrite(j) /\ SameHands(j) /\ SameCleaning(j) /\ SameReset(j)
  BY <1>1, <1>2, <1>4 DEF SameWrite, SameHands, SameCleaning, SameReset
<1> QED
  BY <1>3, <1>5, AllKept

LEMMA ManagerStartsKept ==
  ASSUME TypeOK, NEW j \in Jobs, Kept(j), ManagerStarts
  PROVE  Kept(j)'
<1>1. /\ UNCHANGED <<jobStatus, takenDown, pods, attempt, doc, service, server, todo, item>>
      /\ \A b \in Actors : pc'[b] = pc[b] \/ (pc[b] = "down" /\ pc'[b] = "clean")
      /\ Rests(Submitter(j))
  BY ActorNames DEF ManagerStarts, Goto, Rests, TypeOK, jobVars, kubeVars
<1>2. \A b \in Actors : Items(b)' = Items(b) /\ Writing(b)' = Writing(b)
  BY <1>1 DEF Items, InHand, Writing
<1>3. SameEndpoints(j) /\ SameJob(j)
  BY <1>1 DEF SameEndpoints, SameJob, ActiveJobs
<1>4. {MainThread, Worker(j), Submitter(j)} \subseteq Actors
  BY ActorNames
<1>5. SameWrite(j) /\ SameHands(j) /\ SameCleaning(j) /\ SameReset(j)
  BY <1>1, <1>2, <1>4, RestsSame DEF SameWrite, SameHands, SameCleaning
<1> QED
  BY <1>3, <1>5, AllKept

-----------------------------------------------------------------------------
(***************************************************************************)
(* The documents: whoever writes the document of an undisturbed job has    *)
(* read what is in it.                                                     *)
(***************************************************************************)
LEMMA UpdateReadKept ==
  ASSUME TypeOK, NEW j \in Jobs, Kept(j), NEW a \in Actors, UpdateRead(a)
  PROVE  Kept(j)'
<1>1. /\ UNCHANGED <<jobStatus, takenDown, pods, attempt, doc, service, server, todo, item>>
      /\ \A b \in Actors : pc'[b] = pc[b] \/ (pc[b] = "update" /\ pc'[b] = "write")
  BY DEF UpdateRead, Goto, TypeOK, jobVars, kubeVars
<1>2. \A b \in Actors : Items(b)' = Items(b) /\ Writing(b)' = Writing(b)
  BY <1>1 DEF Items, InHand, Writing
<1>3. SameEndpoints(j) /\ SameJob(j)
  BY <1>1 DEF SameEndpoints, SameJob, ActiveJobs
<1>4. {MainThread, Worker(j), Submitter(j)} \subseteq Actors
  BY ActorNames
<1>5. SameWrite(j) /\ SameHands(j) /\ SameCleaning(j) /\ SameReset(j)
  BY <1>1, <1>2, <1>4 DEF SameWrite, SameHands, SameCleaning, SameReset
<1> QED
  BY <1>3, <1>5, AllKept

\* No port changes and nothing new runs.
LEMMA PortsKept ==
  ASSUME TypeOK, NEW j \in Jobs, Kept(j),
         \A n \in Names : /\ doc'[j][n].podPort = doc[j][n].podPort
                          /\ Running(j, n)' => Running(j, n),
         service'[j] = service[j], server'[j] = server[j], SameWrite(j), SameJob(j)
  PROVE  PortKnown(j)' /\ Served(j)' /\ (SameHands(j) => RightPort(j)')
<1>1. /\ Writing(Worker(j)) => item[Worker(j)].name \in Names
      /\ \A x \in Items(Worker(j)) \cup todo[MainThread] : x.name \in Names
  BY ActorNames, Held, ItemsType, ItemType
<1>2. PortKnown(j)'
  BY <1>1 DEF Kept, PortKnown, SameWrite, At
<1>3. Served(j)'
  BY DEF Kept, Served, SameWrite, SameJob
<1>4. ASSUME SameHands(j) PROVE RightPort(j)'
  BY <1>1, <1>4 DEF Kept, RightPort, SameHands
<1> QED
  BY <1>2, <1>3, <1>4

LEMMA RestWriteKept ==
  ASSUME TypeOK, NEW j \in Jobs, Kept(j), j \notin disturbed', NEW r \in requests, RestWrite(r)
  PROVE  Kept(j)'
<1>1. /\ \A a \in Actors : Rests(a)
      /\ UNCHANGED <<jobStatus, takenDown, pods, attempt, service, server>>
  BY DEF RestWrite, Rests, threadVars, kubeVars, jobVars
<1>2. Rests(Worker(j)) /\ Rests(MainThread) /\ Rests(Submitter(j))
  BY <1>1, ActorNames
<1>3. SameJob(j) /\ SameWrite(j) /\ SameHands(j) /\ SameCleaning(j) /\ SameReset(j)
  BY <1>1, <1>2, RestsSame DEF SameJob, ActiveJobs
<1>4. \A n \in Names :
        doc'[j][n] = doc[j][n] \/ (doc[j][n].status = "none" /\ doc'[j][n] = NewEntry)
  BY DEF RestWrite, Disturb, Added, TypeOK
<1>5. \A n \in Names : /\ doc'[j][n].podPort = doc[j][n].podPort
                       /\ Running(j, n)' => Running(j, n)
  BY <1>4 DEF Kept, NoneIsNew, NewEntry, Running
<1>6. PortKnown(j)' /\ Served(j)' /\ RightPort(j)'
  BY <1>1, <1>3, <1>5, PortsKept
<1>7. NoneIsNew(j)' /\ Gone(j)'
  BY <1>1, <1>4 DEF Kept, NoneIsNew, Gone, NewEntry
<1>8. ResetAll(j)'
  BY <1>3, <1>4 DEF Kept, ResetAll, SameReset, NewEntry
<1>9. Cleaning(j)'
  <2>1. \A n \in Names : Running(j, n)' = Running(j, n)
    BY <1>4 DEF Running, NewEntry
  <2>2. \A x \in Items(MainThread) : x.name \in Names
    BY ActorNames, ItemsType, ItemType
  <2> QED
    BY <1>1, <1>3, <2>1, <2>2 DEF Kept, Cleaning, SameJob, SameWrite, SameCleaning, At
<1> QED
  BY <1>6, <1>7, <1>8, <1>9 DEF Kept

\* The actors of a job write its document.
LEMMA OwnJob ==
  ASSUME ActorsInv, NEW j \in Jobs, NEW a \in {Worker(j), Submitter(j), Reviver(j)}, pc[a] = "write"
  PROVE  item[a].job = j
<1>1. item[a] \in Items(a)
  BY DEF Items, InHand
<1>2. CASE a = Worker(j)
  BY <1>1, <1>2 DEF ActorsInv, WorkerInv
<1>3. CASE a \in {Submitter(j), Reviver(j)}
  <2>1. ResetInv(a, j)
    BY <1>3 DEF ActorsInv
  <2> QED
    BY <1>1, <2>1 DEF ResetInv
<1> QED
  BY <1>2, <1>3

\* Somebody else's document.
LEMMA OtherWriteKept ==
  ASSUME TypeOK, ActorsInv, NEW j \in Jobs, Kept(j), NEW a \in Actors, UpdateWrite(a),
         item[a].job # j
  PROVE  Kept(j)'
<1>1. /\ \A b \in Actors \ {a} : Rests(b)
      /\ UNCHANGED <<jobStatus, takenDown, pods, attempt, service, server, todo>> /\ doc'[j] = doc[j]
      /\ pc[a] = "write" /\ pc'[a] = Back(a)
  BY DEF UpdateWrite, Goto, Rests, TypeOK, jobVars, kubeVars
<1>2. a # Worker(j) /\ a # Submitter(j)
  BY <1>1, OwnJob
<1>3. Rests(Worker(j)) /\ Rests(Submitter(j)) /\ (Rests(MainThread) \/ a = MainThread)
  BY <1>1, <1>2, ActorNames
<1>4. SameEndpoints(j) /\ SameJob(j) /\ SameWrite(j) /\ SameReset(j)
  BY <1>1, <1>3, RestsSame DEF SameEndpoints, SameJob, ActiveJobs
<1>5. CASE a = MainThread
  <2>1. pc'[a] = "clean"
    BY <1>1, <1>5, ActorNames DEF Back, Lockers
  <2>2. SameHands(j)
    BY <1>3, <1>5, <2>1, RestsItems DEF SameHands
  <2>3. SameCleaning(j)
    BY <1>1, <1>5, <2>1 DEF SameCleaning, Items, InHand, Writing
  <2> QED
    BY <1>4, <2>2, <2>3, AllKept
<1> QED
  BY <1>3, <1>4, <1>5, RestsSame, AllKept

\* What a write that disturbs nothing is.
LEMMA OwnWrite ==
  ASSUME TypeOK, NEW a \in Actors, UpdateWrite(a), item[a].job \notin disturbed'
  PROVE  LET i == item[a]
             j == i.job IN
         /\ \A b \in Actors \ {a} : Rests(b)
         /\ UNCHANGED <<jobStatus, takenDown, pods, attempt, service, server>>
         /\ pc[a] = "write" /\ pc'[a] = Back(a) /\ todo'[a] = todo[a]
         /\ \A n \in Names : n # i.name => doc'[j][n] = doc[j][n]
         /\ doc'[j][i.name] = i.new /\ doc[j][i.name] = i.entry
         /\ attempt[j] = i.attempt
         /\ a = Submitter(j) \/ pc[Submitter(j)] = "idle"
<1> DEFINE i == item[a]
           j == i.job
<1>1. i \in Item /\ j \in Jobs /\ i.name \in Names
  BY Held, ItemType
<1>2. /\ doc' = [doc EXCEPT ![j] = [read[a] EXCEPT ![i.name] = i.new]]
      /\ read[a] = doc[j] /\ ~Stale(a, i)
  BY <1>1 DEF UpdateWrite, Disturb, Overtaken
<1>3. /\ \A n \in Names : n # i.name => doc'[j][n] = doc[j][n]
      /\ doc'[j][i.name] = i.new
  BY <1>1, <1>2 DEF TypeOK, Document
<1>4. /\ doc[j][i.name] = i.entry /\ attempt[j] = i.attempt
      /\ a = Submitter(j) \/ pc[Submitter(j)] = "idle"
  BY <1>2 DEF Stale
<1>5. /\ \A b \in Actors \ {a} : Rests(b)
      /\ UNCHANGED <<jobStatus, takenDown, pods, attempt, service, server>>
      /\ pc[a] = "write" /\ pc'[a] = Back(a) /\ todo'[a] = todo[a]
  BY DEF UpdateWrite, Goto, Rests, TypeOK, jobVars, kubeVars
<1> QED
  BY <1>3, <1>4, <1>5

LEMMA MainWriteKept ==
  ASSUME TypeOK, ActorsInv, NEW j \in Jobs, Kept(j), j \notin disturbed',
         UpdateWrite(MainThread), item[MainThread].job = j
  PROVE  Kept(j)'
<1> DEFINE i == item[MainThread]
<1>1. MainThread \in Actors
  BY ActorNames
<1>2. /\ Rests(Worker(j)) /\ Rests(Submitter(j))
      /\ UNCHANGED <<jobStatus, takenDown, pods, attempt, service, server>>
      /\ pc[MainThread] = "write" /\ pc'[MainThread] = Back(MainThread)
      /\ todo'[MainThread] = todo[MainThread]
      /\ \A n \in Names : n # i.name => doc'[j][n] = doc[j][n]
      /\ doc'[j][i.name] = i.new /\ doc[j][i.name] = i.entry
      /\ attempt[j] = i.attempt /\ pc[Submitter(j)] = "idle"
  BY <1>1, OwnWrite, ActorNames
<1>3. pc'[MainThread] = "clean"
  BY <1>2, ActorNames DEF Back, Lockers
<1>4. /\ i.new.status \in {"stopped", "unknown"} /\ i.new.podPort = i.entry.podPort
      /\ i.entry.status = "running"
      /\ \A x \in todo[MainThread] : x.job = j => x.name # i.name
  BY <1>2 DEF ActorsInv, MainInv, Distinct, Items, InHand, Writing
<1>5. /\ Items(MainThread) = todo[MainThread] \cup {i} /\ Writing(MainThread)
      /\ Items(MainThread)' = todo[MainThread] /\ ~Writing(MainThread)'
  BY <1>2, <1>3 DEF Items, InHand, Writing
<1> HIDE DEF i
<1>6. SameJob(j) /\ SameWrite(j) /\ SameReset(j) /\ SameHands(j)
  BY <1>2, <1>3, RestsSame, RestsItems DEF SameJob, ActiveJobs, SameHands
<1>7. \A n \in Names : /\ doc'[j][n].podPort = doc[j][n].podPort
                       /\ Running(j, n)' => Running(j, n)
  BY <1>2, <1>4 DEF Running
<1>8. PortKnown(j)' /\ Served(j)' /\ RightPort(j)'
  BY <1>2, <1>6, <1>7, PortsKept
<1>9. NoneIsNew(j)'
  BY <1>2, <1>4 DEF Kept, NoneIsNew
<1>10. ResetAll(j)'
  BY <1>2 DEF ResetAll, Rests
<1>11. Cleaning(j)'
  <2> SUFFICES ASSUME NEW x \in todo[MainThread], x.job = j, x.attempt = attempt[j]
               PROVE  Running(j, x.name)' \/ j \notin pods
    BY <1>2, <1>5 DEF Cleaning
  <2>1. x.name \in Names /\ x.name # i.name
    BY <1>1, <1>4, Held, ItemType
  <2>2. Running(j, x.name) \/ j \notin pods
    BY <1>2, <1>5 DEF Kept, Cleaning
  <2> QED
    BY <1>2, <2>1, <2>2 DEF Running
<1>12. Gone(j)'
  <2>1. i.new.status = "stopped" => service[j][i.name] = NoPort
    BY <1>2, <1>4, <1>5 DEF Kept, Cleaning, Running, i
  <2> QED
    BY <1>2, <2>1 DEF Kept, Gone
<1> QED
  BY <1>8, <1>9, <1>10, <1>11, <1>12 DEF Kept

LEMMA ResetWriteKept ==
  ASSUME TypeOK, ActorsInv, NEW j \in Jobs, Kept(j), j \notin disturbed',
         NEW a \in {Submitter(j), Reviver(j)}, UpdateWrite(a), item[a].job = j
  PROVE  Kept(j)'
<1> DEFINE i == item[a]
<1>1. a \in Actors
  BY ActorNames
<1>2. /\ Rests(Worker(j)) /\ Rests(MainThread) /\ (a # Submitter(j) => Rests(Submitter(j)))
      /\ UNCHANGED <<jobStatus, takenDown, pods, attempt, service, server>>
      /\ pc[a] = "write" /\ pc'[a] = Back(a) /\ todo'[a] = todo[a]
      /\ \A n \in Names : n # i.name => doc'[j][n] = doc[j][n]
      /\ doc'[j][i.name] = i.new /\ doc[j][i.name] = i.entry
      /\ attempt[j] = i.attempt /\ (a = Submitter(j) \/ pc[Submitter(j)] = "idle")
  BY <1>1, OwnWrite, ActorNames
<1>3. pc'[a] = "reset"
  BY <1>2, ActorNames DEF Back, Lockers
<1>4. i.new.status = "pending" /\ i.new.podPort = i.entry.podPort /\ j \notin pods
  BY <1>2 DEF ActorsInv, ResetInv, Items, InHand, Writing
<1>5. Items(a) = todo[a] \cup {i} /\ Items(a)' = todo[a]
  BY <1>2, <1>3 DEF Items, InHand
<1> HIDE DEF i
<1>6. SameJob(j) /\ SameWrite(j) /\ SameHands(j) /\ SameCleaning(j)
  BY <1>2, RestsSame DEF SameJob, ActiveJobs
<1>7. \A n \in Names : /\ doc'[j][n].podPort = doc[j][n].podPort
                       /\ Running(j, n)' => Running(j, n)
  BY <1>2, <1>4 DEF Running
<1>8. PortKnown(j)' /\ Served(j)' /\ RightPort(j)'
  BY <1>2, <1>6, <1>7, PortsKept
<1>9. NoneIsNew(j)' /\ Gone(j)'
  BY <1>2, <1>4 DEF Kept, NoneIsNew, Gone
<1>10. ResetAll(j)'
  <2>1. CASE a = Submitter(j)
    <3> SUFFICES ASSUME NEW n \in Names
                 PROVE  \/ doc'[j][n].status \in {"none", "pending"}
                        \/ \E x \in todo[a] : x.name = n
      BY <1>5, <2>1 DEF ResetAll
    <3>1. \/ doc[j][n].status \in {"none", "pending"}
          \/ \E x \in Items(a) : x.name = n
      BY <1>2, <2>1 DEF Kept, ResetAll
    <3> QED
      BY <1>2, <1>4, <1>5, <3>1
  <2>2. CASE a # Submitter(j)
    BY <1>2, <2>2 DEF ResetAll, Rests
  <2> QED
    BY <2>1, <2>2
<1>11. Cleaning(j)'
  <2>1. \A x \in Items(MainThread) : x.name \in Names
    BY ActorNames, ItemsType, ItemType
  <2>2. SameCleaning(j) /\ SameWrite(j)
    BY <1>6
  <2> QED
    BY <1>2, <1>4, <1>7, <2>1, <2>2 DEF Kept, Cleaning, SameWrite, SameCleaning, At
<1> QED
  BY <1>8, <1>9, <1>10, <1>11 DEF Kept

LEMMA WorkerWriteKept ==
  ASSUME TypeOK, ActorsInv, NEW j \in Jobs, Kept(j), j \notin disturbed',
         UpdateWrite(Worker(j)), item[Worker(j)].job = j
  PROVE  Kept(j)'
<1> DEFINE w == Worker(j)
           i == item[w]
<1>1. w \in Actors /\ i.name \in Names
  BY ActorNames, Held, ItemType
<1>2. /\ Rests(MainThread) /\ Rests(Submitter(j))
      /\ UNCHANGED <<jobStatus, takenDown, pods, attempt, service, server>>
      /\ pc[w] = "write" /\ pc'[w] = Back(w) /\ todo'[w] = todo[w]
      /\ \A n \in Names : n # i.name => doc'[j][n] = doc[j][n]
      /\ doc'[j][i.name] = i.new /\ doc[j][i.name] = i.entry
      /\ attempt[j] = i.attempt /\ pc[Submitter(j)] = "idle"
  BY <1>1, OwnWrite, ActorNames
<1>3. pc'[w] = "check"
  BY <1>2, ActorNames DEF Back, Lockers
<1>4. /\ Items(w) = todo[w] \cup {i} /\ Items(w)' = todo[w] /\ Writing(w) /\ ~Writing(w)'
  BY <1>2, <1>3 DEF Items, InHand, Writing
<1>5. /\ i.entry.status = "pending" /\ i.new.status \in {"pending", "running"}
      /\ i.new.status = "running" =>
           /\ i.new.podPort = i.entry.podPort
           /\ server[j][i.name] = i.new.podPort
      /\ \A x \in todo[w] : x.job = j /\ x.name # i.name
  BY <1>2, <1>4 DEF ActorsInv, WorkerInv, Distinct, InHand
<1>6. service[j][i.name] \in {NoPort, i.new.podPort}
  BY <1>2, <1>4 DEF Kept, PortKnown
<1>7. j \in ActiveJobs /\ i.new.status = "running" => service[j][i.name] # NoPort
  BY <1>2, <1>4 DEF Kept, Served
<1>8. \A n \in Names : service[j][n] \in {NoPort, doc[j][n].podPort} \/ n = i.name
  BY DEF Kept, PortKnown, At
<1> HIDE DEF i
<1>9. NoneIsNew(j)' /\ Gone(j)'
  BY <1>2, <1>5 DEF Kept, NoneIsNew, Gone
<1>10. ResetAll(j)'
  BY <1>2 DEF ResetAll, Rests
<1>11. PortKnown(j)'
  BY <1>1, <1>2, <1>4, <1>6, <1>8 DEF PortKnown
<1>12. Served(j)'
  <2> SUFFICES ASSUME j \in ActiveJobs PROVE Served(j)'
    BY <1>2 DEF Served, ActiveJobs
  <2>1. \A n \in Names : n # i.name /\ Running(j, n) =>
          /\ service[j][n] = doc[j][n].podPort /\ service[j][n] # NoPort
          /\ server[j][n] = service[j][n]
    BY DEF Kept, Served
  <2> QED
    BY <1>2, <1>4, <1>5, <1>6, <1>7, <2>1 DEF Served, Running
<1>13. RightPort(j)'
  <2> DEFINE given == {x \in todo[MainThread] : pc[MainThread] = "threads" /\ x.job = j}
  <2>1. i \in Items(w)
    BY <1>4
  <2>2. /\ \A x \in Items(w) \cup given : Running(j, x.name) => x.entry.podPort = doc[j][x.name].podPort
        /\ \A x \in Items(w), y \in given : y.name = x.name => y.entry.podPort = doc[j][y.name].podPort
    BY DEF Kept, RightPort
  <2>3. \A x \in todo[w] \cup given : x.name \in Names
    BY <1>1, ActorNames, Held, ItemType
  <2>4. \A x \in todo[w] \cup given :
          Running(j, x.name)' => x.entry.podPort = doc'[j][x.name].podPort
    BY <1>2, <1>4, <1>5, <2>1, <2>2, <2>3 DEF Running
  <2>5. \A x \in todo[w], y \in given :
          y.name = x.name => y.entry.podPort = doc'[j][y.name].podPort
    BY <1>2, <1>4, <1>5, <2>2, <2>3
  <2> QED
    BY <1>2, <1>4, <2>4, <2>5 DEF RightPort, Rests
<1>14. Cleaning(j)'
  <2> SUFFICES ASSUME pc[MainThread] # "threads", NEW x \in Items(MainThread),
                      x.job = j, x.attempt = attempt[j]
               PROVE  /\ Running(j, x.name)' \/ j \notin pods
                      /\ (Writing(MainThread) /\ x = item[MainThread] /\ x.new.status = "stopped"
                            /\ service[j][x.name] # NoPort)
                           => ~Running(j, x.name)'
    BY <1>2, <1>4, RestsItems DEF Cleaning, Rests, At
  <2>1. x.name \in Names
    BY ActorNames, ItemsType, ItemType
  <2>2. /\ Running(j, x.name) \/ j \notin pods
        /\ (Writing(MainThread) /\ x = item[MainThread] /\ x.new.status = "stopped"
              /\ service[j][x.name] # NoPort)
             => ~Running(j, x.name) /\ ~(i.name = x.name /\ i.new.status = "running")
    BY <1>4 DEF Kept, Cleaning, At, i
  <2> QED
    BY <1>2, <1>5, <2>1, <2>2 DEF Running
<1> QED
  BY <1>9, <1>10, <1>11, <1>12, <1>13, <1>14 DEF Kept

LEMMA UpdateKept ==
  ASSUME TypeOK, ActorsInv, NEW j \in Jobs, Kept(j), j \notin disturbed',
         NEW a \in Actors, Update(a)
  PROVE  Kept(j)'
<1>1. CASE UpdateRead(a)
  BY <1>1, UpdateReadKept
<1>2. CASE UpdateWrite(a) /\ item[a].job # j
  BY <1>2, OtherWriteKept
<1>3. CASE UpdateWrite(a) /\ item[a].job = j
  <2>1. ASSUME NEW k \in Jobs, a \in {Worker(k), Submitter(k), Reviver(k)} PROVE k = j
    <3>1. pc[a] = "write"
      BY <1>3 DEF UpdateWrite
    <3> QED
      BY <1>3, <2>1, <3>1, OwnJob
  <2>2. a = MainThread \/ a = Worker(j) \/ a \in {Submitter(j), Reviver(j)}
    BY <2>1, ActorNames
  <2> QED
    BY <1>3, <2>2, MainWriteKept, WorkerWriteKept, ResetWriteKept
<1> QED
  BY <1>1, <1>2, <1>3 DEF Update

-----------------------------------------------------------------------------
LEMMA NextKept ==
  ASSUME TypeOK, ActorsInv, NEW j \in Jobs, Kept(j), j \notin disturbed', Next
  PROVE  Kept(j)'
<1>1. CASE MainStep
  BY <1>1, ManagerStartsKept, GetPendingKept, GetDeadKept, StartThreadKept, CleanServiceKept
  DEF MainStep
<1>2. ASSUME NEW k \in Jobs, WorkerStep(k) PROVE Kept(j)'
  BY <1>2, WorkerKept, OtherWorkerKept
<1>3. ASSUME NEW k \in Jobs, NEW S, RestRead(k, S) PROVE Kept(j)'
  <2>1. /\ SameEndpoints(j) /\ SameJob(j)
        /\ Rests(Worker(j)) /\ Rests(MainThread) /\ Rests(Submitter(j))
    BY <1>3 DEF RestRead, SameEndpoints, SameJob, ActiveJobs, Rests, jobVars, kubeVars, threadVars
  <2> QED
    BY <2>1, RestsSame, AllKept
<1> QED
  BY <1>1, <1>2, <1>3, ManagerDiesKept, CallHangsKept, ResetKept, DeletionKept, JobKept,
     UpdateKept, RestWriteKept DEF Next

LEMMA DisturbedGrows == Next => disturbed \subseteq disturbed'
<1> SUFFICES ASSUME Next PROVE disturbed \subseteq disturbed'
  OBVIOUS
<1>1. CASE MainStep
  BY <1>1 DEF MainStep, ManagerStarts, GetPendingEndpoints, GetDeadEndpoints, StartThread,
              CleanService, Disturb
<1>2. ASSUME NEW j \in Jobs, WorkerStep(j) PROVE disturbed \subseteq disturbed'
  BY <1>2 DEF WorkerStep, WorkerCheck, WorkerEnds, StartServer, CreateService, WorkerFails, Disturb
<1>3. ASSUME NEW j \in Jobs, ResetStep(j) PROVE disturbed \subseteq disturbed'
  BY <1>3 DEF ResetStep, ResetBegin, ResetNext, SubmitEnd, ReviveEnd, Disturb
<1>4. ASSUME NEW a \in Actors, Update(a) PROVE disturbed \subseteq disturbed'
  BY <1>4 DEF Update, UpdateRead, UpdateWrite, Disturb
<1> QED
  BY <1>1, <1>2, <1>3, <1>4
  DEF Next, ManagerDies, CallHangs, DeleteJob, JobStep, RestRead, RestWrite, Disturb

LEMMA InitKept == Init => EndpointsInv
<1> SUFFICES ASSUME Init, NEW j \in Jobs PROVE Kept(j)
  BY DEF EndpointsInv
<1>1. \A a \in Actors : /\ pc[a] = IF a = MainThread THEN "clean" ELSE "idle"
                        /\ Items(a) = {} /\ todo[a] = {} /\ ~Writing(a)
  BY DEF Init, Items, InHand, Writing
<1>2. \A n \in Names : doc[j][n] = NoEntry /\ service[j][n] = NoPort /\ ~Running(j, n)
  BY DEF Init, EmptyDocument, NoEntry, NoPorts, Running
<1>3. /\ Items(MainThread) = {} /\ todo[MainThread] = {}
      /\ Items(Worker(j)) = {} /\ ~Writing(Worker(j)) /\ pc[Submitter(j)] = "idle"
  BY <1>1, ActorNames
<1>4. NoneIsNew(j) /\ Gone(j)
  BY <1>2 DEF NoneIsNew, Gone, NoEntry
<1>5. ResetAll(j) /\ PortKnown(j) /\ Served(j) /\ RightPort(j) /\ Cleaning(j)
  BY <1>2, <1>3 DEF ResetAll, PortKnown, Served, RightPort, Cleaning
<1> QED
  BY <1>4, <1>5 DEF Kept

IInv == TypeOK /\ Room /\ ActorsInv /\ EndpointsInv

LEMMA Inductive == Spec => []IInv
<1>1. Init => IInv
  BY InitType, InitRoom, InitActors, InitKept DEF IInv
<1>2. IInv /\ [Next]_vars => IInv'
  <2> SUFFICES ASSUME IInv, [Next]_vars PROVE IInv'
    OBVIOUS
  <2>1. TypeOK' /\ Room' /\ ActorsInv'
    BY NextType, NextActors DEF IInv
  <2>2. CASE Next
    BY <2>1, <2>2, NextKept, DisturbedGrows DEF IInv, EndpointsInv
  <2>3. CASE UNCHANGED vars
    <3>1. ASSUME NEW j \in Jobs, Kept(j) PROVE Kept(j)'
      <4>1. /\ SameEndpoints(j) /\ SameJob(j)
            /\ Rests(Worker(j)) /\ Rests(MainThread) /\ Rests(Submitter(j))
        BY <2>3 DEF SameEndpoints, SameJob, ActiveJobs, Rests, vars, jobVars, kubeVars, threadVars
      <4> QED
        BY <3>1, <4>1, RestsSame, AllKept
    <3> QED
      BY <2>1, <2>3, <3>1 DEF IInv, EndpointsInv, vars
  <2> QED
    BY <2>2, <2>3
<1> QED
  BY <1>1, <1>2, PTL DEF Spec

(***************************************************************************)
(* However the five kinds of processes that rewrite the document take      *)
(* turns, and whenever the endpoint manager dies: as long as the job is    *)
(* not disturbed and delete_job is not called for it, an endpoint that is  *)
(* "running" in a running job has its server in the pods of the present    *)
(* submission, on the port the service forwards to.                        *)
(***************************************************************************)
THEOREM RunningIsServedHolds == Spec => []RunningIsServed
<1>1. IInv => RunningIsServed
  BY DEF IInv, EndpointsInv, Kept, Served, ActiveJobs, Running, RunningIsServed
<1> QED
  BY <1>1, Inductive, PTL

(***************************************************************************)
(* And an endpoint that is "stopped" has no service left.                  *)
(***************************************************************************)
THEOREM StoppedIsGoneHolds == Spec => []StoppedIsGone
<1>1. IInv => StoppedIsGone
  BY DEF IInv, EndpointsInv, Kept, Gone, StoppedIsGone
<1> QED
  BY <1>1, Inductive, PTL

-----------------------------------------------------------------------------
(***************************************************************************)
(* Endpoints implements EndpointLife.  Of an endpoint one step changes the *)
(* status or the service, never both.                                      *)
(***************************************************************************)
SameService(j, n) == service'[j][n] = NoPort <=> service[j][n] = NoPort

\* The status changes, when the document is written.
Shows(j, n) ==
  LET old == doc[j][n].status
      new == doc'[j][n].status IN
  \/ old = new
  \/ old = "none" /\ new = "pending"
  \/ /\ old = "pending" /\ new = "running"
     /\ j \in ActiveJobs => service[j][n] # NoPort
  \/ old = "running" /\ new = "stopped" /\ j \notin ActiveJobs /\ service[j][n] = NoPort
  \/ old = "running" /\ new = "unknown" /\ j \notin ActiveJobs
  \/ old \in {"running", "stopped", "unknown"} /\ new = "pending" /\ j \notin pods

\* The service changes, when kubectl is called.
Serving(j, n) ==
  /\ doc'[j][n].status = doc[j][n].status
  /\ \/ doc[j][n].status = "pending" /\ service[j][n] = NoPort /\ service'[j][n] # NoPort
     \/ j \notin ActiveJobs' /\ service[j][n] # NoPort /\ service'[j][n] = NoPort

EndpointMove(j, n) == (Shows(j, n) /\ SameService(j, n)) \/ Serving(j, n)

LEMMA QuietMove ==
  ASSUME NEW j \in Jobs, doc'[j] = doc[j], service'[j] = service[j], NEW n \in Names
  PROVE  EndpointMove(j, n)
  BY DEF EndpointMove, Shows, SameService

\* The main thread deletes the service of a running endpoint of a job that is not active.
LEMMA CleanServiceMove ==
  ASSUME TypeOK, ActorsInv, NEW j \in Jobs, j \notin disturbed', NEW n \in Names,
         NEW i \in todo[MainThread], CleanService(i)
  PROVE  EndpointMove(j, n)
<1>1. MainThread \in Actors /\ i \in Item
  BY ActorNames, Held
<1>2. /\ i.job \in Jobs /\ i.name \in Names /\ doc' = doc
      /\ pc[MainThread] = "clean" /\ service \in [Jobs -> [Names -> Ports \cup {NoPort}]]
  BY <1>1, ItemType DEF CleanService, TypeOK
<1>3. \/ service' = service
      \/ /\ service' = [service EXCEPT ![i.job][i.name] = NoPort]
         /\ Serves(i) # NoPort /\ (i.job = j => ~Stale(MainThread, i))
  BY DEF CleanService, SetService, Disturb, Overtaken
<1>4. CASE service'[j][n] = service[j][n]
  BY <1>2, <1>4 DEF EndpointMove, Shows, SameService
<1>5. CASE service'[j][n] # service[j][n]
  <2>1. i.job = j /\ i.name = n /\ ~Stale(MainThread, i)
    BY <1>2, <1>3, <1>5
  <2>2. service'[j][n] = NoPort /\ service[j][n] # NoPort
    BY <1>2, <1>3, <1>5, <2>1 DEF Serves
  <2>3. i \in Items(MainThread)
    BY DEF Items
  <2>4. doc[j][n] = i.entry /\ attempt[j] = i.attempt
    BY <2>1 DEF Stale
  <2>5. j \notin ActiveJobs'
    <3>1. jobStatus[j] \in {"stopped", "queued"}
      BY <1>2, <2>1, <2>3, <2>4 DEF ActorsInv, MainInv
    <3> QED
      BY <3>1 DEF ActiveJobs, CleanService, jobVars
  <2> QED
    BY <1>2, <2>2, <2>5 DEF EndpointMove, Serving
<1> QED
  BY <1>4, <1>5

\* The worker creates the service of a pending endpoint.
LEMMA CreateServiceMove ==
  ASSUME TypeOK, ActorsInv, NEW j \in Jobs, j \notin disturbed', NEW n \in Names,
         CreateService(j)
  PROVE  EndpointMove(j, n)
<1> DEFINE w == Worker(j)
           i == item[w]
<1>1. w \in Actors /\ i \in Item /\ i.name \in Names
  BY ActorNames, Held, ItemType
<1>2. /\ pc[w] = "kube" /\ doc' = doc
      /\ service \in [Jobs -> [Names -> Ports \cup {NoPort}]]
  BY DEF CreateService, TypeOK
<1>3. i \in Items(w) /\ i.job = j /\ i.entry.status = "pending"
  BY <1>2 DEF ActorsInv, WorkerInv, Items, InHand
<1>4. \/ service' = service
      \/ \E p \in Ports : /\ service' = [service EXCEPT ![j][i.name] = p]
                          /\ service[j][i.name] = NoPort /\ ~Stale(w, i)
  BY <1>3 DEF CreateService, SetService, Disturb, Overtaken, Serves
<1>5. CASE service'[j][n] = service[j][n]
  BY <1>2, <1>5 DEF EndpointMove, Shows, SameService
<1>6. CASE service'[j][n] # service[j][n]
  <2>1. PICK p \in Ports : /\ service' = [service EXCEPT ![j][i.name] = p]
                           /\ service[j][i.name] = NoPort /\ ~Stale(w, i)
    BY <1>4, <1>6
  <2>2. i.name = n /\ service'[j][n] = p
    BY <1>1, <1>2, <1>6, <2>1
  <2>3. p # NoPort
    BY PortAssumption
  <2>4. doc[j][n].status = "pending"
    BY <1>3, <2>1, <2>2 DEF Stale
  <2> QED
    BY <1>2, <2>1, <2>2, <2>3, <2>4 DEF EndpointMove, Serving
<1> QED
  BY <1>5, <1>6

\* A write that disturbs nothing shows what its actor decided.
LEMMA WriteMove ==
  ASSUME TypeOK, ActorsInv, NEW j \in Jobs, Kept(j), j \notin disturbed', NEW n \in Names,
         NEW a \in Actors, UpdateWrite(a)
  PROVE  EndpointMove(j, n)
<1> DEFINE i == item[a]
<1>s. UNCHANGED service
  BY DEF UpdateWrite, kubeVars
<1>0. i \in Item /\ i.name \in Names
  BY Held, ItemType
<1>1. CASE i.job # j
  <2>1. doc'[j] = doc[j]
    BY <1>1 DEF UpdateWrite, TypeOK
  <2> QED
    BY <1>s, <2>1, QuietMove
<1>2. CASE i.job = j
  <2>1. /\ pc[a] = "write"
        /\ \A m \in Names : m # i.name => doc'[j][m] = doc[j][m]
        /\ doc'[j][i.name] = i.new /\ doc[j][i.name] = i.entry
        /\ attempt[j] = i.attempt
    BY <1>2, OwnWrite
  <2>2. i \in Items(a) /\ Writing(a)
    BY <2>1 DEF Items, InHand, Writing
  <2>3. CASE n # i.name
    BY <1>s, <2>1, <2>3 DEF EndpointMove, Shows, SameService
  <2>4. CASE n = i.name /\ a = MainThread
    <3>1. /\ i.entry.status = "running" /\ i.new.status \in {"stopped", "unknown"}
          /\ j \notin ActiveJobs /\ pc[MainThread] # "threads"
      BY <1>2, <2>1, <2>2, <2>4 DEF ActorsInv, MainInv, ActiveJobs
    <3>2. i.new.status = "stopped" => service[j][n] = NoPort
      BY <1>2, <2>1, <2>2, <2>4, <3>1 DEF Kept, Cleaning, Running
    <3> QED
      BY <1>s, <2>1, <2>4, <3>1, <3>2 DEF EndpointMove, Shows, SameService
  <2>5. CASE n = i.name /\ a = Worker(j)
    <3>0. WorkerInv(j)
      BY DEF ActorsInv
    <3>1. i.entry.status = "pending" /\ i.new.status \in {"pending", "running"}
      BY <2>2, <2>5, <3>0 DEF WorkerInv
    <3>2. j \in ActiveJobs /\ i.new.status = "running" => service[j][n] # NoPort
      BY <2>1, <2>2, <2>5 DEF Kept, Served
    <3> QED
      BY <1>s, <2>1, <2>5, <3>1, <3>2 DEF EndpointMove, Shows, SameService
  <2>6. CASE n = i.name /\ a \in {Submitter(j), Reviver(j)}
    <3>1. i.new.status = "pending" /\ j \notin pods
      BY <1>2, <2>1, <2>2, <2>6 DEF ActorsInv, ResetInv
    <3>2. i.entry.status \in {"none", "pending", "running", "stopped", "unknown"}
      BY <1>0, ItemType
    <3> QED
      BY <1>s, <2>1, <2>6, <3>1, <3>2 DEF EndpointMove, Shows, SameService
  <2>7. a = MainThread \/ a = Worker(j) \/ a \in {Submitter(j), Reviver(j)}
    <3>1. ASSUME NEW k \in Jobs, a \in {Worker(k), Submitter(k), Reviver(k)} PROVE k = j
      BY <1>2, <2>1, <3>1, OwnJob
    <3> QED
      BY <3>1, ActorNames
  <2> QED
    BY <2>3, <2>4, <2>5, <2>6, <2>7
<1> QED
  BY <1>1, <1>2

LEMMA RestWriteMove ==
  ASSUME TypeOK, NEW j \in Jobs, j \notin disturbed', NEW n \in Names,
         NEW r \in requests, RestWrite(r)
  PROVE  EndpointMove(j, n)
<1>1. doc'[j][n] = doc[j][n] \/ (doc[j][n].status = "none" /\ doc'[j][n] = NewEntry)
  BY DEF RestWrite, Disturb, Added, TypeOK
<1>2. UNCHANGED service
  BY DEF RestWrite, kubeVars
<1> QED
  BY <1>1, <1>2 DEF NewEntry, EndpointMove, Shows, SameService

LEMMA NextMove ==
  ASSUME TypeOK, ActorsInv, NEW j \in Jobs, Kept(j), j \notin disturbed', [Next]_vars,
         NEW n \in Names
  PROVE  EndpointMove(j, n)
<1>1. CASE MainStep
  <2>1. CASE \E i \in todo[MainThread] : CleanService(i)
    BY <2>1, CleanServiceMove
  <2>2. CASE ~\E i \in todo[MainThread] : CleanService(i)
    <3>1. UNCHANGED <<doc, service>>
      BY <1>1, <2>2 DEF MainStep, ManagerStarts, GetPendingEndpoints, GetDeadEndpoints, StartThread, kubeVars
    <3> QED
      BY <3>1, QuietMove
  <2> QED
    BY <2>1, <2>2
<1>2. ASSUME NEW k \in Jobs, WorkerStep(k) PROVE EndpointMove(j, n)
  <2>1. CASE k = j /\ CreateService(k)
    BY <2>1, CreateServiceMove
  <2>2. CASE ~(k = j /\ CreateService(k))
    <3>1. doc'[j] = doc[j] /\ service'[j] = service[j]
      <4>1. CASE CreateService(k)
        <5>1. item[Worker(k)].job = k
          BY <4>1 DEF CreateService, ActorsInv, WorkerInv, Items, InHand
        <5>2. \E p : service' = service \/ service' = [service EXCEPT ![k][item[Worker(k)].name] = p]
          BY <4>1, <5>1 DEF CreateService, SetService
        <5>3. doc' = doc
          BY <4>1 DEF CreateService
        <5> QED
          BY <2>2, <4>1, <5>2, <5>3 DEF TypeOK
      <4>2. CASE ~CreateService(k)
        BY <1>2, <4>2 DEF WorkerStep, WorkerCheck, WorkerEnds, StartServer, WorkerFails, kubeVars
      <4> QED
        BY <4>1, <4>2
    <3> QED
      BY <3>1, QuietMove
  <2> QED
    BY <2>1, <2>2
<1>3. ASSUME NEW a \in Actors, Update(a) PROVE EndpointMove(j, n)
  <2>1. CASE UpdateRead(a)
    <3>1. UNCHANGED <<doc, service>>
      BY <2>1 DEF UpdateRead, kubeVars
    <3> QED
      BY <3>1, QuietMove
  <2>2. CASE UpdateWrite(a)
    BY <2>2, WriteMove
  <2> QED
    BY <1>3, <2>1, <2>2 DEF Update
<1>4. ASSUME NEW k \in Jobs, ReviveEnd(k) \/ DeleteJob(k) PROVE EndpointMove(j, n)
  <2>1. doc' = doc /\ jobStatus' = jobStatus /\ DeleteServices(k)
    BY <1>4 DEF ReviveEnd, DeleteJob
  <2>2. /\ service'[j][n] \in {service[j][n], NoPort}
        /\ k = j => j \notin ActiveJobs'
        /\ k # j => service'[j] = service[j]
    BY <2>1, ServicesGone
  <2> QED
    BY <2>1, <2>2 DEF EndpointMove, Shows, Serving, SameService
<1>5. CASE \/ ManagerDies
           \/ \E k \in Jobs : (ResetStep(k) /\ ~ReviveEnd(k)) \/ CallHangs(k) \/ JobStep(k)
           \/ \E k \in Jobs, S \in SUBSET Names \ {{}} : RestRead(k, S)
           \/ UNCHANGED vars
  <2>1. UNCHANGED <<doc, service>>
    BY <1>5 DEF ResetStep, ResetBegin, ResetNext, SubmitEnd, ManagerDies, CallHangs, JobStep,
                RestRead, kubeVars, vars
  <2> QED
    BY <2>1, QuietMove
<1>6. ASSUME NEW k \in Jobs, ResetStep(k) PROVE EndpointMove(j, n)
  BY <1>4, <1>5, <1>6
<1> QED
  BY <1>1, <1>2, <1>3, <1>4, <1>5, <1>6, RestWriteMove DEF Next

\* A job becomes active, or gets pods, by a submission, which has reset every endpoint.
LEMMA SubmissionBegins ==
  ASSUME TypeOK, TypeOK', NEW j \in Jobs, Kept(j), Next,
         \/ j \notin ActiveJobs /\ j \in ActiveJobs'
         \/ j \notin pods /\ j \in pods'
  PROVE  \A n \in Names : doc'[j][n].status \in {"none", "pending"}
<1>1. SubmitEnd(j)
  <2>1. attempt'[j] # attempt[j]
    <3>1. /\ jobStatus[j] \in {"scheduling", "running", "stopped", "queued"}
          /\ attempt[j] \in 0..MaxAttempts
      BY DEF TypeOK
    <3>2. \/ /\ j \in pods' => j \in pods
             /\ j \in takenDown => j \in takenDown'
             /\ jobStatus[j] \in {"stopped", "queued"} => jobStatus'[j] \in {"stopped", "queued"}
          \/ attempt'[j] > attempt[j]
      BY NextAdvance DEF Advance
    <3>3. attempt'[j] > attempt[j]
      BY <3>1, <3>2 DEF ActiveJobs
    <3> QED
      BY <3>1, <3>3, BoundAssumption
  <2>2. ~UNCHANGED attempt
    BY <2>1
  <2>3. PICK k \in Jobs : SubmitEnd(k)
    BY <2>2
       DEF Next, MainStep, ManagerStarts, GetPendingEndpoints, GetDeadEndpoints, StartThread,
           CleanService, ManagerDies, CallHangs,
           WorkerStep, WorkerCheck, WorkerEnds, StartServer, CreateService, WorkerFails,
           ResetStep, ResetBegin, ResetNext, ReviveEnd, DeleteJob, JobStep, Update, UpdateRead, UpdateWrite,
           RestRead, RestWrite, jobVars
  <2>4. k = j
    BY <2>1, <2>3 DEF SubmitEnd, TypeOK, jobVars
  <2> QED
    BY <2>3, <2>4
<1>2. pc[Submitter(j)] = "reset" /\ Items(Submitter(j)) = {} /\ doc' = doc
  BY <1>1 DEF SubmitEnd, Items, InHand
<1> QED
  BY <1>2 DEF Kept, ResetAll

(***************************************************************************)
(* Whatever fails and however the five kinds of processes take turns, each *)
(* endpoint of a job whose document is not disturbed lives one life in     *)
(* order: it is shown as running only with its service, ended only when    *)
(* its job is not active, and reset before the job is submitted again; and *)
(* delete_job, a restart of the endpoint manager or a call that hangs do   *)
(* not take a service from a job that stays active.                        *)
(***************************************************************************)
THEOREM EndpointsLiveAsPromisedHolds == Spec => EndpointsLiveAsPromised
<1>1. ASSUME Init PROVE Life!Init
  <2>1. \A j \in Jobs, n \in Names : doc[j][n].status = "none" /\ service[j][n] = NoPort
    BY <1>1 DEF Init, EmptyDocument, NoEntry, NoPorts
  <2>2. disturbed = {} /\ pods = {} /\ \A j \in Jobs : jobStatus[j] = "queued"
    BY <1>1 DEF Init
  <2> QED
    BY <2>1, <2>2 DEF Life!Init, ActiveJobs
<1>2. ASSUME IInv, IInv', [Next]_vars PROVE Life!Next
  <2> SUFFICES ASSUME NEW j \in Jobs
               PROVE  Life!Begins(j) /\ \A n \in Names : Life!Lives(j, n)
    BY DEF Life!Next
  <2>1. disturbed \subseteq disturbed'
    BY <1>2, DisturbedGrows DEF vars
  <2>2. CASE j \in disturbed'
    BY <2>2 DEF Life!Begins, Life!Lives, Life!Leaves
  <2>3. CASE j \notin disturbed'
    <3>1. j \notin disturbed /\ Kept(j) /\ TypeOK /\ ActorsInv /\ TypeOK'
      BY <1>2, <2>1, <2>3 DEF IInv, EndpointsInv
    <3>2. ASSUME NEW n \in Names PROVE Life!Lives(j, n)
      <4>1. EndpointMove(j, n)
        BY <1>2, <2>3, <3>1, NextMove
      <4> QED
        BY <2>3, <3>1, <4>1
           DEF EndpointMove, Shows, Serving, SameService, Life!Lives, Life!Asked,
               Life!ComesUp, Life!Ends, Life!IsReset, Life!Opens, Life!Closes, Life!Stays,
               Life!Becomes, Life!SameService
    <3>3. Life!Begins(j)
      <4> SUFFICES ASSUME \/ j \notin ActiveJobs /\ j \in ActiveJobs'
                          \/ j \notin pods /\ j \in pods'
                   PROVE  \A n \in Names : doc'[j][n].status \in {"none", "pending"}
        BY <2>3 DEF Life!Begins
      <4>1. Next
        BY <1>2 DEF ActiveJobs, vars, jobVars
      <4> QED
        BY <3>1, <4>1, SubmissionBegins
    <3> QED
      BY <3>2, <3>3
  <2> QED
    BY <2>2, <2>3
<1>3. IInv /\ IInv' /\ [Next]_vars => [Life!Next]_(Life!vars)
  BY <1>2
<1> QED
  BY <1>1, <1>3, Inductive, PTL DEF Spec, EndpointsLiveAsPromised, Life!Spec
=============================================================================
