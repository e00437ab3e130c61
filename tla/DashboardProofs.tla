--------------------------- MODULE DashboardProofs ---------------------------
(***************************************************************************)
(* Theorems about Dashboard, for any jobs, whoever's they are, any         *)
(* endpoints, and any number of moves and requests under way.              *)
(***************************************************************************)
EXTENDS Dashboard, SetLemmas, SequenceTheorems

-----------------------------------------------------------------------------
(***************************************************************************)
(* Type correctness.                                                       *)
(***************************************************************************)
\* An element is taken out of a sequence, those after it move up.
LEMMA RemovedAt ==
  ASSUME NEW S, NEW s \in Seq(S), NEW i \in DOMAIN s
  PROVE  /\ RemoveAt(s, i) \in Seq(S)
         /\ Len(RemoveAt(s, i)) = Len(s) - 1
         /\ \A k \in 1..(Len(s) - 1) :
              RemoveAt(s, i)[k] = IF k < i THEN s[k] ELSE s[k + 1]
<1>1. i \in 1..Len(s) /\ Len(s) \in Nat
  OBVIOUS
<1>2. /\ SubSeq(s, 1, i - 1) \in Seq(S) /\ Len(SubSeq(s, 1, i - 1)) = i - 1
      /\ \A k \in 1..(i - 1) : SubSeq(s, 1, i - 1)[k] = s[k]
  BY <1>1
<1>3. /\ SubSeq(s, i + 1, Len(s)) \in Seq(S) /\ Len(SubSeq(s, i + 1, Len(s))) = Len(s) - i
      /\ \A k \in 1..(Len(s) - i) : SubSeq(s, i + 1, Len(s))[k] = s[i + k]
  BY <1>1
<1> DEFINE a == SubSeq(s, 1, i - 1)
           b == SubSeq(s, i + 1, Len(s))
<1>4. RemoveAt(s, i) = a \o b
  BY DEF RemoveAt
<1> HIDE DEF a, b
<1>5. a \in Seq(S) /\ b \in Seq(S) /\ Len(a) = i - 1 /\ Len(b) = Len(s) - i
  BY <1>2, <1>3 DEF a, b
<1>6. /\ a \o b \in Seq(S) /\ Len(a \o b) = Len(a) + Len(b)
      /\ \A k \in 1..(Len(a) + Len(b)) :
           (a \o b)[k] = IF k <= Len(a) THEN a[k] ELSE b[k - Len(a)]
  BY <1>5, ConcatProperties
<1>7. ASSUME NEW k \in 1..(Len(s) - 1) PROVE (a \o b)[k] = IF k < i THEN s[k] ELSE s[k + 1]
  <2>1. CASE k < i
    <3>1. a[k] = s[k]
      BY <1>2, <2>1 DEF a
    <3> QED
      BY <1>1, <1>5, <1>6, <2>1, <3>1
  <2>2. CASE ~(k < i)
    <3>1. k - Len(a) \in 1..(Len(s) - i) /\ i + (k - Len(a)) = k + 1
      BY <1>1, <1>5, <2>2
    <3>2. b[k - Len(a)] = s[k + 1]
      BY <1>3, <3>1 DEF b
    <3>3. k \in 1..(Len(a) + Len(b)) /\ ~(k <= Len(a))
      BY <1>1, <1>5, <2>2
    <3> QED
      BY <1>6, <2>2, <3>2, <3>3
  <2> QED
    BY <2>1, <2>2
<1>8. Len(a) + Len(b) = Len(s) - 1
  BY <1>1, <1>5
<1> QED
  BY <1>4, <1>6, <1>7, <1>8

LEMMA ElementIn == ASSUME NEW S, NEW s \in Seq(S), NEW i \in DOMAIN s PROVE s[i] \in S
  OBVIOUS

LEMMA FunctionIsSeq == ASSUME NEW S, NEW n \in Nat, NEW f \in [1..n -> S] PROVE f \in Seq(S)
  OBVIOUS

LEMMA Appended ==
  ASSUME NEW S, NEW s \in Seq(S), NEW x \in S
  PROVE  /\ Append(s, x) \in Seq(S) /\ Len(Append(s, x)) = Len(s) + 1
         /\ \A k \in 1..(Len(s) + 1) :
              Append(s, x)[k] = IF k = Len(s) + 1 THEN x ELSE s[k]
  OBVIOUS

\* What is asked and answered on each page.
LEMMA PageData ==
  /\ \A p \in Tables :
       AskedOf(p) = [statuses : {Nothing} \cup Seq(RowStatus)] /\ DataOf(p) = Table
  /\ AskedOf("job") = [status : {Nothing, ""} \cup RowStatus]
  /\ DataOf("job") = {""} \cup RowStatus
  /\ AskedOf("endpoints") = [list : [Names -> EpStatus], status : RowStatus]
  /\ DataOf("endpoints") = [Names -> EpStatus]
  BY DEF AskedOf, DataOf, Tables

\* The part of TypeOK about polling, and the rest of it.
PollingTypeOK ==
  /\ page \in {"none", "job", "endpoints"} \cup Tables
  /\ polling \in BOOLEAN /\ missed \in BOOLEAN
  /\ asking \in Seq(AskedOf(page))
  /\ replies \in Seq([asked : AskedOf(page), data : DataOf(page)])
  /\ restful \in {Nothing} \cup DataOf(page)
  /\ UnderWay <= MaxGets
JobPageTypeOK ==
  /\ status \in [Jobs -> Status]
  /\ rows \in {Nothing} \cup Table
  /\ opened \in {Nothing} \cup Jobs
  /\ page \in {"job", "endpoints"} => opened \in Jobs /\ status[opened] \in RowStatus
  /\ shown \in {Nothing, ""} \cup RowStatus
  /\ page = "endpoints" => shown \in RowStatus
  /\ eps \in [Names -> EpStatus] /\ list \in [Names -> EpStatus]
ActionTypeOK ==
  /\ moves \in 0..MaxMoves
  /\ dialog \in {Nothing} \cup Request
  /\ puts \subseteq [request : Request, checked : BOOLEAN]
  /\ posts \subseteq [name : Names, written : BOOLEAN]

LEMMA TypeParts ==
  /\ TypeOK => PollingTypeOK /\ JobPageTypeOK /\ ActionTypeOK
  /\ PollingTypeOK' /\ JobPageTypeOK' /\ ActionTypeOK' => TypeOK'
  BY DEF TypeOK, PollingTypeOK, JobPageTypeOK, ActionTypeOK

LEMMA MountTyped ==
  ASSUME NEW p \in {"job", "endpoints"} \cup Tables, NEW showing \in AskedOf(p),
         NEW polls \in BOOLEAN, Mount(p, showing, polls)
  PROVE  PollingTypeOK'
<1>1. asking' \in Seq(AskedOf(p)) /\ Len(asking') = 1
  BY DEF Mount
<1>2. replies' \in Seq([asked : AskedOf(p), data : DataOf(p)]) /\ Len(replies') = 0
  BY DEF Mount
<1>3. UnderWay' <= MaxGets
  BY <1>1, <1>2, BoundAssumption DEF UnderWay
<1> QED
  BY <1>1, <1>2, <1>3 DEF Mount, PollingTypeOK

LEMMA PollTyped ==
  ASSUME PollingTypeOK, NEW showing \in AskedOf(page), Poll(showing)
  PROVE  PollingTypeOK'
<1>1. asking' \in Seq(AskedOf(page)) /\ Len(asking') = Len(asking) + 1
  BY Appended DEF Poll, PollingTypeOK
<1>2. Len(asking) \in Nat /\ Len(replies) \in Nat
  BY DEF PollingTypeOK
<1>3. UnderWay' <= MaxGets
  BY <1>1, <1>2, BoundAssumption DEF UnderWay, Poll
<1> QED
  BY <1>1, <1>3 DEF Poll, PollingTypeOK

LEMMA ServeTyped ==
  ASSUME PollingTypeOK, NEW i \in DOMAIN asking, NEW data \in DataOf(page), NEW isRestful,
         NEW wrong \in BOOLEAN, Serve(i, data, isRestful, wrong)
  PROVE  PollingTypeOK'
<1>1. asking' \in Seq(AskedOf(page)) /\ Len(asking') = Len(asking) - 1
  BY RemovedAt DEF Serve, PollingTypeOK
<1>2. [asked |-> asking[i], data |-> data] \in [asked : AskedOf(page), data : DataOf(page)]
  BY DEF PollingTypeOK
<1>3. /\ replies' \in Seq([asked : AskedOf(page), data : DataOf(page)])
      /\ Len(replies') = Len(replies) + 1
  BY <1>2, Appended DEF Serve, PollingTypeOK
<1>4. Len(asking) \in Nat /\ Len(replies) \in Nat
  BY DEF PollingTypeOK
<1>5. UnderWay' <= MaxGets
  BY <1>1, <1>3, <1>4, BoundAssumption DEF UnderWay, PollingTypeOK
<1>6. missed' \in BOOLEAN /\ restful' \in {Nothing} \cup DataOf(page)
  BY DEF Serve, PollingTypeOK
<1> QED
  BY <1>1, <1>3, <1>5, <1>6 DEF Serve, PollingTypeOK

\* An answer arrives or is lost.
LEMMA TakenTyped ==
  ASSUME PollingTypeOK, NEW i \in DOMAIN replies, replies' = RemoveAt(replies, i),
         UNCHANGED <<page, asking, restful>>, polling' \in BOOLEAN, missed' \in BOOLEAN
  PROVE  /\ PollingTypeOK'
         /\ replies[i] \in [asked : AskedOf(page), data : DataOf(page)]
<1>1. /\ replies' \in Seq([asked : AskedOf(page), data : DataOf(page)])
      /\ Len(replies') = Len(replies) - 1
  BY RemovedAt DEF PollingTypeOK
<1>2. Len(asking) \in Nat /\ Len(replies) \in Nat
  BY DEF PollingTypeOK
<1>3. UnderWay' <= MaxGets
  BY <1>1, <1>2, BoundAssumption DEF UnderWay, PollingTypeOK
<1>4. replies[i] \in [asked : AskedOf(page), data : DataOf(page)]
  BY ElementIn DEF PollingTypeOK
<1> QED
  BY <1>1, <1>3, <1>4 DEF PollingTypeOK

\* The lists of the REST API have rows of jobs.
LEMMA ListedTyped ==
  ASSUME status \in [Jobs -> Status], NEW p
  PROVE  Listed(p) \in Table
<1> DEFINE at == {i \in DOMAIN Order :
               /\ status[Order[i]] \notin NoRow
               /\ IF p = "my" THEN Order[i] \in Mine ELSE status[Order[i]] \in Pending}
           pick(n) == CHOOSE i \in at : Cardinality({k \in at : k <= i}) = n
           nth(n) == Order[pick(n)]
<1>1. DOMAIN Order = 1..Len(Order) /\ Len(Order) \in Nat
  BY OrderAssumption
<1>2. at \subseteq Int /\ IsFiniteSet(at)
  <2>1. IsFiniteSet(1..Len(Order))
    BY <1>1, FS_Interval
  <2> QED
    BY <1>1, <2>1, FS_Subset
<1>3. Cardinality(at) \in Nat
  BY <1>2, FS_CardinalityType
<1>4. \A i \in at : Order[i] \in Jobs /\ status[Order[i]] \in RowStatus
  BY <1>1, OrderAssumption DEF Status
<1> HIDE DEF at
<1>5. ASSUME NEW n \in 1..Cardinality(at) PROVE pick(n) \in at
  BY <1>2, CountedOff
<1> HIDE DEF pick
<1>6. \A n \in 1..Cardinality(at) :
        [job |-> nth(n), status |-> status[nth(n)]] \in TableRow
  BY <1>4, <1>5 DEF TableRow
<1>7. Listed(p) = [n \in 1..Cardinality(at) |-> [job |-> nth(n), status |-> status[nth(n)]]]
  BY DEF Listed, at, pick
<1> HIDE DEF nth
<1>8. [n \in 1..Cardinality(at) |-> [job |-> nth(n), status |-> status[nth(n)]]]
        \in [1..Cardinality(at) -> TableRow]
  BY <1>6
<1>9. Listed(p) \in Seq(TableRow)
  BY <1>3, <1>7, <1>8, FunctionIsSeq
<1> QED
  BY <1>9 DEF Table

\* What a page shows is what it may ask with, what the server has what it may answer.
LEMMA ShowingTyped ==
  ASSUME TypeOK, page \in Tables \cup {"job"}
  PROVE  Showing \in AskedOf(page)
<1>1. CASE page = "job"
  BY <1>1, PageData DEF Showing, TypeOK
<1>2. CASE page \in Tables
  <2>1. page # "job"
    BY <1>2 DEF Tables
  <2>2. ASSUME rows # Nothing PROVE Statuses(rows) \in Seq(RowStatus)
    <3>1. rows \in Seq(TableRow)
      BY <2>2 DEF TypeOK, Table
    <3>2. ASSUME NEW i \in DOMAIN rows PROVE rows[i].status \in RowStatus
      <4>1. rows[i] \in TableRow
        BY <3>1, ElementIn
      <4> QED
        BY <4>1 DEF TableRow
    <3>3. DOMAIN rows = 1..Len(rows) /\ Len(rows) \in Nat
      BY <3>1
    <3>4. Statuses(rows) \in [1..Len(rows) -> RowStatus]
      BY <3>2, <3>3 DEF Statuses
    <3> QED
      BY <3>3, <3>4, FunctionIsSeq
  <2> QED
    BY <1>2, <2>1, <2>2, PageData DEF Showing
<1> QED
  BY <1>1, <1>2

LEMMA AnswerTyped ==
  ASSUME TypeOK, page \in Tables \cup {"job"}
  PROVE  Answer \in DataOf(page) /\ NoAnswer \in DataOf(page)
<1>1. CASE page = "job"
  BY <1>1, PageData DEF Answer, NoAnswer, TypeOK
<1>2. CASE page \in Tables
  <2>1. page # "job"
    BY <1>2 DEF Tables
  <2>2. Listed(page) \in Table
    BY ListedTyped DEF TypeOK
  <2>3. Answer = Listed(page) /\ NoAnswer = <<>>
    BY <2>1 DEF Answer, NoAnswer
  <2>4. <<>> \in Table
    BY DEF Table
  <2>5. DataOf(page) = Table
    BY <1>2, PageData
  <2> QED
    BY <2>2, <2>3, <2>4, <2>5
<1> QED
  BY <1>1, <1>2

\* The jobs that can be clicked on are jobs.
LEMMA ShownTyped ==
  ASSUME TypeOK, page \in Tables \cup {"job"}, NEW r \in Shown
  PROVE  r.job \in Jobs
<1>1. CASE page = "job"
  <2>1. opened \in Jobs
    BY <1>1 DEF TypeOK
  <2>2. r = [job |-> opened, status |-> shown]
    BY <1>1 DEF Shown
  <2> QED
    BY <2>1, <2>2
<1>2. CASE page # "job"
  <2>1. rows # Nothing /\ rows \in Seq(TableRow)
    BY <1>2 DEF Shown, TypeOK, Table
  <2>2. PICK i \in DOMAIN rows : r = rows[i]
    BY <1>2, <2>1 DEF Shown, ToSet
  <2>3. r \in TableRow
    BY <2>1, <2>2, ElementIn
  <2> QED
    BY <2>3 DEF TableRow
<1> QED
  BY <1>1, <1>2

LEMMA MovesTyped == ASSUME TypeOK, Move \/ Turn \/ UNCHANGED moves PROVE moves' \in 0..MaxMoves
<1>1. moves \in 0..MaxMoves
  BY DEF TypeOK
<1> QED
  BY <1>1, BoundAssumption DEF Move, Turn

\* What becomes of the job whose page is open is a row again.
LEMMA StatusTyped ==
  ASSUME TypeOK, NEW j \in Jobs, NEW s \in RowStatus, status' = [status EXCEPT ![j] = s],
         UNCHANGED <<pageVars, jobPageVars, eps, list>>
  PROVE  PollingTypeOK' /\ JobPageTypeOK'
<1>1. PollingTypeOK'
  BY DEF TypeOK, PollingTypeOK, pageVars, UnderWay
<1>2. status' \in [Jobs -> Status]
  BY DEF TypeOK, Status
<1>3. ASSUME page \in {"job", "endpoints"} PROVE opened \in Jobs /\ status'[opened] \in RowStatus
  BY <1>3 DEF TypeOK
<1> QED
  BY <1>1, <1>2, <1>3 DEF TypeOK, JobPageTypeOK, pageVars, jobPageVars

LEMMA JobPagesTyped == ASSUME TypeOK, JobPagesNext, UNCHANGED panelVars PROVE TypeOK'
<1> USE DEF panelVars
<1>1. ASSUME NEW j \in Jobs, PlatformMoves(j) PROVE TypeOK'
  <2>1. PICK s \in PlatformNext(status[j]) : status' = [status EXCEPT ![j] = s]
    BY <1>1 DEF PlatformMoves
  <2>2. s \in RowStatus
    BY <2>1 DEF PlatformNext, RowStatus, Terminal
  <2>3. PollingTypeOK' /\ JobPageTypeOK'
    BY <1>1, <2>1, <2>2, StatusTyped DEF PlatformMoves
  <2>4. ActionTypeOK'
    BY <1>1, MovesTyped DEF PlatformMoves, actionVars, ActionTypeOK, TypeOK
  <2> QED
    BY <2>3, <2>4, TypeParts
<1>2. ASSUME NEW j \in Jobs, OpenJob(j) PROVE TypeOK'
  <2>1. [status |-> Nothing] \in AskedOf("job")
    BY PageData
  <2>2. PollingTypeOK'
    BY <1>2, <2>1, MountTyped DEF OpenJob
  <2>3. status[j] \in RowStatus
    BY <1>2 DEF OpenJob, TypeOK, Status
  <2>4. JobPageTypeOK'
    BY <1>2, <2>3 DEF OpenJob, Mount, JobPageTypeOK, TypeOK
  <2>5. ActionTypeOK'
    BY <1>2, MovesTyped DEF OpenJob, ActionTypeOK, TypeOK
  <2> QED
    BY <2>2, <2>4, <2>5, TypeParts
<1>3. ASSUME NEW p \in Tables, OpenTable(p) PROVE TypeOK'
  <2>1. [statuses |-> Nothing] \in AskedOf(p)
    BY PageData
  <2>2. PollingTypeOK'
    BY <1>3, <2>1, MountTyped DEF OpenTable
  <2>3. JobPageTypeOK'
    BY <1>3 DEF OpenTable, Mount, JobPageTypeOK, TypeOK, Tables
  <2>4. ActionTypeOK'
    BY <1>3, MovesTyped DEF OpenTable, ActionTypeOK, TypeOK
  <2> QED
    BY <2>2, <2>3, <2>4, TypeParts
<1>4. CASE PollJobs
  <2>1. PollingTypeOK'
    BY <1>4, ShowingTyped, PollTyped, TypeParts DEF PollJobs
  <2>2. JobPageTypeOK' /\ ActionTypeOK'
    BY <1>4 DEF PollJobs, Poll, jobPageVars, actionVars, TypeOK, JobPageTypeOK, ActionTypeOK
  <2> QED
    BY <2>1, <2>2, TypeParts
<1>5. ASSUME NEW i \in DOMAIN asking, ServeJobs(i) PROVE TypeOK'
  <2>1. PollingTypeOK'
    BY <1>5, AnswerTyped, ServeTyped, TypeParts DEF ServeJobs
  <2>2. UNCHANGED <<page, polling>> /\ moves' \in 0..MaxMoves
    BY <1>5, MovesTyped DEF ServeJobs, Serve
  <2>3. JobPageTypeOK' /\ ActionTypeOK'
    BY <1>5, <2>2 DEF ServeJobs, jobPageVars, actionVars, TypeOK, JobPageTypeOK, ActionTypeOK
  <2> QED
    BY <2>1, <2>3, TypeParts
<1>6. ASSUME NEW i \in DOMAIN replies, LoseJobs(i) PROVE TypeOK'
  <2>1. PollingTypeOK'
    BY <1>6, TakenTyped, TypeParts DEF LoseJobs, Lose, TypeOK
  <2>2. JobPageTypeOK' /\ ActionTypeOK'
    BY <1>6, MovesTyped
       DEF LoseJobs, Lose, jobPageVars, actionVars, TypeOK, JobPageTypeOK, ActionTypeOK
  <2> QED
    BY <2>1, <2>2, TypeParts
<1>7. ASSUME NEW i \in DOMAIN replies, TableArrives(i) PROVE TypeOK'
  <2>1. PollingTypeOK' /\ replies[i] \in [asked : AskedOf(page), data : DataOf(page)]
    BY <1>7, TakenTyped, TypeParts DEF TableArrives, Arrive, TypeOK
  <2>2. replies[i].data \in Table
    BY <1>7, <2>1, PageData DEF TableArrives
  <2>3. rows' \in {Nothing} \cup Table
    BY <1>7, <2>2 DEF TableArrives, TypeOK
  <2>4. JobPageTypeOK' /\ ActionTypeOK'
    BY <1>7, <2>3 DEF TableArrives, Arrive, actionVars, TypeOK, JobPageTypeOK, ActionTypeOK
  <2> QED
    BY <2>1, <2>4, TypeParts
<1>8. ASSUME NEW i \in DOMAIN replies, JobArrives(i) PROVE TypeOK'
  <2>1. PollingTypeOK' /\ replies[i] \in [asked : AskedOf(page), data : DataOf(page)]
    BY <1>8, TakenTyped, TypeParts DEF JobArrives, Arrive, TypeOK
  <2>2. replies[i].data \in {""} \cup RowStatus
    BY <1>8, <2>1, PageData DEF JobArrives
  <2>3. shown' \in {Nothing, ""} \cup RowStatus
    BY <1>8, <2>2 DEF JobArrives, TypeOK
  <2>4. JobPageTypeOK' /\ ActionTypeOK'
    BY <1>8, <2>3 DEF JobArrives, Arrive, actionVars, TypeOK, JobPageTypeOK, ActionTypeOK
  <2> QED
    BY <2>1, <2>4, TypeParts
<1>9. ASSUME NEW op \in Op, Click(op) PROVE TypeOK'
  <2>1. PICK r \in Shown : /\ r.status \in Offers(op)
                           /\ dialog' = [job |-> r.job, op |-> op, seen |-> r.status]
    BY <1>9 DEF Click
  <2>2. r.job \in Jobs /\ r.status \in RowStatus
    BY <1>9, <2>1, ShownTyped DEF Click, Offers, RowStatus, Op
  <2>3. dialog' \in Request
    BY <2>1, <2>2 DEF Request
  <2>4. ActionTypeOK'
    BY <1>9, <2>3, MovesTyped DEF Click, ActionTypeOK, TypeOK
  <2>5. PollingTypeOK' /\ JobPageTypeOK'
    BY <1>9 DEF Click, TypeOK, PollingTypeOK, JobPageTypeOK, pageVars, jobPageVars, UnderWay
  <2> QED
    BY <2>4, <2>5, TypeParts
<1>10. CASE AnswerNo \/ AnswerYes
  <2>1. ActionTypeOK'
    <3>1. dialog \in Request
      BY <1>10 DEF AnswerNo, AnswerYes, TypeOK
    <3>2. [request |-> dialog, checked |-> FALSE] \in [request : Request, checked : BOOLEAN]
      BY <3>1
    <3> QED
      BY <1>10, <3>2 DEF AnswerNo, AnswerYes, ActionTypeOK, TypeOK
  <2>2. PollingTypeOK' /\ JobPageTypeOK'
    BY <1>10 DEF AnswerNo, AnswerYes, TypeOK, PollingTypeOK, JobPageTypeOK, pageVars,
                 jobPageVars, UnderWay
  <2> QED
    BY <2>1, <2>2, TypeParts
<1>11. ASSUME NEW p \in puts, PutCheck(p) \/ PutRefused(p) \/ PutWrite(p) \/ PutFails(p)
       PROVE  TypeOK'
  <2>1. p \in [request : Request, checked : BOOLEAN] /\ p.request \in Request
    BY DEF TypeOK
  <2>2. [p EXCEPT !.checked = TRUE] \in [request : Request, checked : BOOLEAN]
    BY <2>1
  <2>3. ActionTypeOK'
    <3>1. puts' \subseteq [request : Request, checked : BOOLEAN] /\ UNCHANGED <<dialog, posts>>
      BY <1>11, <2>2 DEF PutCheck, PutRefused, PutWrite, PutFails, Tell, TypeOK
    <3>2. moves' \in 0..MaxMoves
      BY <1>11, MovesTyped DEF PutCheck, PutRefused, PutWrite, PutFails
    <3> QED
      BY <3>1, <3>2 DEF ActionTypeOK, TypeOK
  <2>4. CASE PutWrite(p)
    <3>1. p.request.job \in Jobs /\ NewStatus(p.request.op) \in RowStatus
      BY <2>1 DEF Request, Op, NewStatus, RowStatus
    <3> QED
      BY <2>3, <2>4, <3>1, StatusTyped, TypeParts DEF PutWrite
  <2>5. CASE ~PutWrite(p)
    <3>1. PollingTypeOK' /\ JobPageTypeOK'
      BY <1>11, <2>5 DEF PutCheck, PutRefused, PutFails, TypeOK, PollingTypeOK, JobPageTypeOK,
                         pageVars, jobPageVars, UnderWay
    <3> QED
      BY <2>3, <3>1, TypeParts
  <2> QED
    BY <2>4, <2>5
<1> QED
  BY <1>1, <1>2, <1>3, <1>4, <1>5, <1>6, <1>7, <1>8, <1>9, <1>10, <1>11 DEF JobPagesNext

LEMMA PanelTyped == ASSUME TypeOK, EndpointPanelNext PROVE TypeOK'
<1>1. ASSUME NEW n \in Names, EndpointMoves(n) \/ Ask(n) PROVE TypeOK'
  <2>1. eps' \in [Names -> EpStatus]
    BY <1>1 DEF EndpointMoves, Ask, EndpointNext, TypeOK, EpStatus
  <2>2. posts' \subseteq [name : Names, written : BOOLEAN]
    <3>1. [name |-> n, written |-> FALSE] \in [name : Names, written : BOOLEAN]
      OBVIOUS
    <3>2. posts \subseteq [name : Names, written : BOOLEAN]
      BY DEF TypeOK
    <3> QED
      BY <1>1, <3>1, <3>2 DEF EndpointMoves, Ask
  <2>3. PollingTypeOK' /\ JobPageTypeOK'
    BY <1>1, <2>1 DEF EndpointMoves, Ask, TypeOK, PollingTypeOK, JobPageTypeOK, pageVars,
                      jobPageVars, UnderWay
  <2>4. ActionTypeOK'
    BY <1>1, <2>2, MovesTyped DEF EndpointMoves, Ask, ActionTypeOK, TypeOK, actionVars
  <2> QED
    BY <2>3, <2>4, TypeParts
<1>2. CASE OpenEndpoints
  <2>1. NoEndpoints \in [Names -> EpStatus]
    BY DEF NoEndpoints, EpStatus
  <2>2. [list |-> NoEndpoints, status |-> shown] \in AskedOf("endpoints")
    BY <1>2, <2>1, PageData DEF OpenEndpoints
  <2>3. DecidesToPoll(shown, NoEndpoints, TRUE) \in BOOLEAN
    BY DEF DecidesToPoll, Unfinished
  <2>4. PollingTypeOK'
    BY <1>2, <2>2, <2>3, MountTyped DEF OpenEndpoints
  <2>5. eps' \in [Names -> EpStatus]
    BY <1>2 DEF OpenEndpoints, EpStatus
  <2>6. JobPageTypeOK'
    BY <1>2, <2>1, <2>5 DEF OpenEndpoints, TypeOK, JobPageTypeOK, jobPageVars, Mount
  <2>7. ActionTypeOK'
    BY <1>2 DEF OpenEndpoints, TypeOK, ActionTypeOK
  <2> QED
    BY <2>4, <2>6, <2>7, TypeParts
<1>3. CASE ShownFollows
  <2>1. polling' \in BOOLEAN
    BY <1>3 DEF ShownFollows, DecidesToPoll, Unfinished, TypeOK
  <2>2. restful' \in {Nothing} \cup DataOf(page)
    BY <1>3, PageData DEF ShownFollows, TypeOK
  <2>3. PollingTypeOK'
    BY <1>3, <2>1, <2>2 DEF ShownFollows, TypeOK, PollingTypeOK, UnderWay
  <2>4. shown' \in RowStatus
    BY <1>3 DEF ShownFollows, TypeOK
  <2>5. JobPageTypeOK' /\ ActionTypeOK'
    BY <1>3, <2>4
       DEF ShownFollows, TypeOK, JobPageTypeOK, ActionTypeOK, actionVars, panelVars
  <2> QED
    BY <2>3, <2>5, TypeParts
<1>4. CASE PollEndpoints
  <2>1. [list |-> list, status |-> shown] \in AskedOf(page)
    BY <1>4, PageData DEF PollEndpoints, TypeOK
  <2>2. PollingTypeOK'
    BY <1>4, <2>1, PollTyped, TypeParts DEF PollEndpoints
  <2>3. JobPageTypeOK' /\ ActionTypeOK'
    BY <1>4 DEF PollEndpoints, Poll, jobPageVars, actionVars, panelVars, TypeOK, JobPageTypeOK,
                ActionTypeOK
  <2> QED
    BY <2>2, <2>3, TypeParts
<1>5. ASSUME NEW i \in DOMAIN asking, ServeEndpoints(i) PROVE TypeOK'
  <2>1. eps \in DataOf(page) /\ NoEndpoints \in DataOf(page)
    BY <1>5, PageData DEF ServeEndpoints, TypeOK, NoEndpoints, EpStatus
  <2>2. PollingTypeOK'
    BY <1>5, <2>1, ServeTyped, TypeParts DEF ServeEndpoints
  <2>3. UNCHANGED <<page, polling>> /\ moves' \in 0..MaxMoves
    BY <1>5, MovesTyped DEF ServeEndpoints, Serve
  <2>4. JobPageTypeOK' /\ ActionTypeOK'
    BY <1>5, <2>3 DEF ServeEndpoints, jobPageVars, actionVars, panelVars, TypeOK, JobPageTypeOK,
                      ActionTypeOK
  <2> QED
    BY <2>2, <2>4, TypeParts
<1>6. ASSUME NEW i \in DOMAIN replies, LoseEndpoints(i) PROVE TypeOK'
  <2>1. PollingTypeOK'
    BY <1>6, TakenTyped, TypeParts DEF LoseEndpoints, Lose, TypeOK
  <2>2. JobPageTypeOK' /\ ActionTypeOK'
    BY <1>6, MovesTyped
       DEF LoseEndpoints, Lose, jobPageVars, actionVars, panelVars, TypeOK, JobPageTypeOK,
           ActionTypeOK
  <2> QED
    BY <2>1, <2>2, TypeParts
<1>7. ASSUME NEW i \in DOMAIN replies, EndpointsArrive(i) PROVE TypeOK'
  <2>1. polling' \in BOOLEAN /\ missed' \in BOOLEAN
    BY <1>7 DEF EndpointsArrive, Arrive, DecidesToPoll, Unfinished, TypeOK
  <2>2. PollingTypeOK' /\ replies[i] \in [asked : AskedOf(page), data : DataOf(page)]
    BY <1>7, <2>1, TakenTyped, TypeParts DEF EndpointsArrive, Arrive
  <2>3. replies[i].data \in [Names -> EpStatus]
    BY <1>7, <2>2, PageData DEF EndpointsArrive
  <2>4. list' \in [Names -> EpStatus]
    BY <1>7, <2>3 DEF EndpointsArrive, TypeOK
  <2>5. JobPageTypeOK' /\ ActionTypeOK'
    BY <1>7, <2>4 DEF EndpointsArrive, Arrive, jobPageVars, actionVars, TypeOK, JobPageTypeOK,
                      ActionTypeOK
  <2> QED
    BY <2>2, <2>5, TypeParts
<1>8. ASSUME NEW p \in posts, PostWrite(p) \/ PostAnswered(p) \/ PostFails(p) PROVE TypeOK'
  <2>1. p \in [name : Names, written : BOOLEAN]
    BY DEF TypeOK
  <2>2. [p EXCEPT !.written = TRUE] \in [name : Names, written : BOOLEAN]
    BY <2>1
  <2>3. ActionTypeOK'
    <3>1. posts' \subseteq [name : Names, written : BOOLEAN] /\ UNCHANGED <<dialog, puts>>
      BY <1>8, <2>2 DEF PostWrite, PostAnswered, PostFails, TypeOK, actionVars
    <3>2. moves' \in 0..MaxMoves
      BY <1>8, MovesTyped DEF PostWrite, PostAnswered, PostFails
    <3> QED
      BY <3>1, <3>2 DEF ActionTypeOK, TypeOK
  <2>4. eps' \in [Names -> EpStatus]
    BY <1>8 DEF PostWrite, PostAnswered, PostFails, TypeOK, EpStatus
  <2>5. JobPageTypeOK'
    BY <1>8, <2>4 DEF PostWrite, PostAnswered, PostFails, TypeOK, JobPageTypeOK, pageVars,
                      jobPageVars
  <2>6. /\ polling' \in BOOLEAN /\ missed' \in BOOLEAN
        /\ restful' \in {Nothing} \cup DataOf(page)
        /\ UNCHANGED <<page, asking, replies>>
    BY <1>8 DEF PostWrite, PostAnswered, PostFails, TypeOK, pageVars, LooksAgain
  <2>7. PollingTypeOK'
    BY <2>6 DEF PollingTypeOK, TypeOK, UnderWay
  <2> QED
    BY <2>3, <2>5, <2>7, TypeParts
<1> QED
  BY <1>1, <1>2, <1>3, <1>4, <1>5, <1>6, <1>7, <1>8 DEF EndpointPanelNext

LEMMA InitTyped == Init => TypeOK
<1> SUFFICES ASSUME Init PROVE TypeOK
  OBVIOUS
<1>1. /\ asking \in Seq(AskedOf(page)) /\ Len(asking) = 0
      /\ replies \in Seq([asked : AskedOf(page), data : DataOf(page)]) /\ Len(replies) = 0
  BY DEF Init
<1>2. UnderWay <= MaxGets /\ moves \in 0..MaxMoves
  BY <1>1, BoundAssumption DEF Init, UnderWay
<1>3. NoEndpoints \in [Names -> EpStatus]
  BY DEF NoEndpoints, EpStatus
<1> QED
  BY <1>1, <1>2, <1>3, FoundAssumption DEF Init, TypeOK

LEMMA StepTyped == TypeOK /\ [Next]_vars => TypeOK'
<1> SUFFICES ASSUME TypeOK, [Next]_vars PROVE TypeOK'
  OBVIOUS
<1>1. CASE UNCHANGED vars
  BY <1>1 DEF vars, TypeOK, pageVars, jobPageVars, actionVars, panelVars, UnderWay
<1> QED
  BY <1>1, JobPagesTyped, PanelTyped DEF Next

(***************************************************************************)
(* THEOREM.  Whatever the pages are told, in whatever order, what they     *)
(* keep and compare has its type: a table has rows of jobs, a dialog and   *)
(* a request are about a job in a status the page has shown, and the page  *)
(* of a job is about one that exists.                                      *)
(***************************************************************************)
THEOREM TypeCorrect == Spec => []TypeOK
  BY InitTyped, StepTyped, PTL DEF Spec

-----------------------------------------------------------------------------
(***************************************************************************)
(* The tables of what a row offers and of what the REST API accepts.       *)
(***************************************************************************)
\* A job that was seen in a status the dashboard offers the operation for.
SeenFitting(q) == q.op \in Op /\ q.seen \in Offers(q.op)

\* What waits for its confirmation, and what is under way, was offered.
OfferInv ==
  /\ dialog # Nothing => SeenFitting(dialog)
  /\ \A p \in puts : SeenFitting(p.request)
  /\ RefusedOnlyIfMoved

(***************************************************************************)
(* The two tables fit: the REST API accepts what the dashboard offers, and *)
(* refuses the owner nothing else.                                         *)
(***************************************************************************)
LEMMA OffersAccepted ==
  ASSUME NEW q, SeenFitting(q)
  PROVE  q.seen \in Accepts(q.op) /\ (q.job \in Mine => MayDo(q)) /\ q.seen # "failed"
  BY DEF SeenFitting, Op, Offers, Accepts, Pending, MayDo

\* A step that leaves the user's actions alone, or turns to another page.
LEMMA RestKeepsOffers ==
  ASSUME OfferInv, UNCHANGED <<dialog, puts>>, told' = told \/ told' = Nothing
  PROVE  OfferInv'
  BY DEF OfferInv, SeenFitting, RefusedOnlyIfMoved

\* Requests under way are forgotten one by one, or with their answer.
LEMMA TellKeepsOffers ==
  ASSUME OfferInv, NEW p \in puts, UNCHANGED dialog, puts' = puts \ {p},
         NEW a, NEW d, NEW s,
         told' = [request |-> p.request, accepted |-> a, done |-> d, now |-> s],
         d \/ (p.request.job \in Mine => s # p.request.seen)
  PROVE  OfferInv'
  BY DEF OfferInv, SeenFitting, RefusedOnlyIfMoved

LEMMA ActionKeepsOffers ==
  ASSUME OfferInv,
         (\E op \in Op : Click(op)) \/ AnswerNo \/ AnswerYes
           \/ \E p \in puts : PutCheck(p) \/ PutRefused(p) \/ PutWrite(p) \/ PutFails(p)
  PROVE  OfferInv'
<1>1. ASSUME NEW op \in Op, Click(op) PROVE OfferInv'
  BY <1>1 DEF Click, OfferInv, SeenFitting, RefusedOnlyIfMoved
<1>2. CASE AnswerNo
  BY <1>2 DEF AnswerNo, OfferInv, SeenFitting, RefusedOnlyIfMoved
<1>3. CASE AnswerYes
  BY <1>3 DEF AnswerYes, OfferInv, SeenFitting, RefusedOnlyIfMoved
<1>4. ASSUME NEW p \in puts, PutCheck(p) PROVE OfferInv'
  <2>1. [p EXCEPT !.checked = TRUE].request = p.request
    OBVIOUS
  <2> QED
    BY <1>4, <2>1 DEF PutCheck, OfferInv, SeenFitting, RefusedOnlyIfMoved
<1>5. ASSUME NEW p \in puts, PutRefused(p) PROVE OfferInv'
  <2>1. p.request.job \in Mine => status[p.request.job] # p.request.seen
    BY <1>5, OffersAccepted DEF PutRefused, OfferInv
  <2> QED
    BY <1>5, <2>1, TellKeepsOffers DEF PutRefused, Tell
<1>6. ASSUME NEW p \in puts, PutWrite(p) PROVE OfferInv'
  BY <1>6, TellKeepsOffers DEF PutWrite, Tell
<1>7. ASSUME NEW p \in puts, PutFails(p) PROVE OfferInv'
  <2>1. "failed" # p.request.seen
    BY OffersAccepted DEF OfferInv
  <2> QED
    BY <1>7, <2>1, TellKeepsOffers DEF PutFails
<1> QED
  BY <1>1, <1>2, <1>3, <1>4, <1>5, <1>6, <1>7

LEMMA StepKeepsOffers == OfferInv /\ [Next]_vars => OfferInv'
<1> SUFFICES ASSUME OfferInv, [Next]_vars PROVE OfferInv'
  OBVIOUS
<1>1. CASE UNCHANGED vars
  BY <1>1, RestKeepsOffers DEF vars, actionVars
<1>2. ASSUME NEW j \in Jobs, PlatformMoves(j) \/ OpenJob(j) PROVE OfferInv'
  BY <1>2, RestKeepsOffers DEF PlatformMoves, OpenJob, actionVars
<1>3. CASE PollJobs \/ \E p \in Tables : OpenTable(p)
  BY <1>3, RestKeepsOffers DEF PollJobs, OpenTable, actionVars
<1>4. ASSUME NEW i \in DOMAIN asking, ServeJobs(i) PROVE OfferInv'
  BY <1>4, RestKeepsOffers DEF ServeJobs, actionVars
<1>5. ASSUME NEW i \in DOMAIN replies, LoseJobs(i) \/ TableArrives(i) \/ JobArrives(i)
      PROVE  OfferInv'
  BY <1>5, RestKeepsOffers DEF LoseJobs, TableArrives, JobArrives, actionVars
<1>6. CASE JobPagesNext
  BY <1>2, <1>3, <1>4, <1>5, <1>6, ActionKeepsOffers DEF JobPagesNext
<1>7. CASE EndpointPanelNext
  BY <1>7, RestKeepsOffers
     DEF EndpointPanelNext, EndpointMoves, Ask, OpenEndpoints, ShownFollows, PollEndpoints,
         ServeEndpoints, LoseEndpoints, EndpointsArrive, PostWrite, PostAnswered, PostFails,
         actionVars
<1> QED
  BY <1>1, <1>6, <1>7 DEF Next

(***************************************************************************)
(* THEOREM.  A request of the owner of a job is refused only because the   *)
(* job is not any more as the user saw it when clicking, however long the  *)
(* dialog waits, whatever answers are lost, and whatever the page shows by *)
(* the time of the confirmation (useActions.ts, JobRestAPIUtils.py).       *)
(***************************************************************************)
THEOREM RefusedOnlyIfMovedHolds == Spec => []RefusedOnlyIfMoved
<1>1. Init => OfferInv
  BY DEF Init, OfferInv, RefusedOnlyIfMoved
<1>2. OfferInv => RefusedOnlyIfMoved
  BY DEF OfferInv
<1> QED
  BY <1>1, <1>2, StepKeepsOffers, PTL DEF Spec

-----------------------------------------------------------------------------
(***************************************************************************)
(* Pages that rest: what they stopped polling for.                         *)
(***************************************************************************)
\* The elements left keep their order.
LEMMA KeptIn ==
  ASSUME NEW S, NEW s \in Seq(S), NEW i \in DOMAIN s, NEW t, t = RemoveAt(s, i)
  PROVE  /\ \A k \in DOMAIN t : t[k] = s[IF k < i THEN k ELSE k + 1]
         /\ \A k \in DOMAIN t : (IF k < i THEN k ELSE k + 1) \in DOMAIN s
<1>1. /\ t \in Seq(S) /\ Len(t) = Len(s) - 1
      /\ \A k \in 1..(Len(s) - 1) : t[k] = IF k < i THEN s[k] ELSE s[k + 1]
  BY RemovedAt
<1>2. DOMAIN t = 1..(Len(s) - 1) /\ DOMAIN s = 1..Len(s) /\ Len(s) \in Nat
  BY <1>1
<1> QED
  BY <1>1, <1>2

\* One is added at the end.
LEMMA AddedTo ==
  ASSUME NEW S, NEW s \in Seq(S), NEW x \in S, NEW t, t = Append(s, x)
  PROVE  /\ DOMAIN t = 1..(Len(s) + 1) /\ DOMAIN s = 1..Len(s) /\ Len(s) \in Nat
         /\ \A k \in DOMAIN s : t[k] = s[k]
         /\ t[Len(s) + 1] = x
  BY Appended

\* A status after which a job has ended, or is about to.
Ending == Terminal \cup {"killing"}

(***************************************************************************)
(* On the page of a job, while no answer was missed: the answers under way *)
(* after one with a last status repeat it; a request was sent from a last  *)
(* status only if the page still shows it; a last status on the page is    *)
(* the one in restful, and all the answers under way repeat it.            *)
(***************************************************************************)
JobRestInv ==
  page = "job" /\ ~missed =>
    /\ restful \in Ending \cup {Nothing}
    /\ \A i, k \in DOMAIN replies :
         i <= k /\ replies[i].data \in Ending => replies[k].data = restful
    /\ \A i \in DOMAIN asking : asking[i].status \in Ending => shown \in Ending
    /\ \A i \in DOMAIN replies : replies[i].asked.status \in Ending => shown \in Ending
    /\ shown \in Ending => /\ shown = restful
                         /\ \A i \in DOMAIN replies : replies[i].data = restful
    /\ polling \/ shown \in Ending

LEMMA JobRestKept ==
  ASSUME JobRestInv, UNCHANGED <<page, polling, asking, replies, restful, missed, shown>>
  PROVE  JobRestInv'
  BY DEF JobRestInv

LEMMA OpenJobRests == ASSUME NEW j \in Jobs, OpenJob(j) PROVE JobRestInv'
<1>1. /\ DOMAIN replies' = {} /\ shown' = Nothing /\ restful' = Nothing /\ polling' = TRUE
      /\ asking' = <<[status |-> Nothing]>>
  BY DEF OpenJob, Mount
<1>2. Nothing \notin Ending
  BY NothingAssumption DEF Ending, Status, RowStatus
<1>3. \A i \in DOMAIN asking' : asking'[i].status = Nothing
  BY <1>1
<1> QED
  BY <1>1, <1>2, <1>3 DEF JobRestInv

LEMMA PollJobsRests == ASSUME TypeOK, JobRestInv, PollJobs PROVE JobRestInv'
<1> SUFFICES ASSUME page = "job" PROVE JobRestInv'
  BY DEF JobRestInv, PollJobs, Poll
<1>1. /\ asking \in Seq(AskedOf(page)) /\ [status |-> shown] \in AskedOf(page)
      /\ asking' = Append(asking, [status |-> shown])
  BY ShowingTyped DEF PollJobs, Poll, Showing, TypeOK
<1>2. /\ DOMAIN asking' = 1..(Len(asking) + 1) /\ DOMAIN asking = 1..Len(asking)
      /\ Len(asking) \in Nat
      /\ \A k \in DOMAIN asking : asking'[k] = asking[k]
      /\ asking'[Len(asking) + 1] = [status |-> shown]
  BY <1>1, AddedTo
<1>3. ASSUME NEW k \in DOMAIN asking', ~missed, asking'[k].status \in Ending PROVE shown \in Ending
  <2>1. k \in DOMAIN asking \/ k = Len(asking) + 1
    BY <1>2
  <2> QED
    BY <1>2, <1>3, <2>1 DEF JobRestInv
<1>4. UNCHANGED <<page, polling, replies, restful, missed, shown>>
  BY DEF PollJobs, Poll, jobPageVars
<1> QED
  BY <1>3, <1>4 DEF JobRestInv

LEMMA ServeJobsRests ==
  ASSUME TypeOK, JobRestInv, NEW n \in DOMAIN asking, ServeJobs(n)
  PROVE  JobRestInv'
<1> SUFFICES ASSUME page = "job", ~missed' PROVE JobRestInv'
  BY DEF JobRestInv, ServeJobs, Serve
<1> DEFINE d == status[opened]
           new == [asked |-> asking[n], data |-> d]
<1>1. Serve(n, d, d \in Ending, FALSE)
  BY DEF ServeJobs, Serve, Answer, Ending
<1>2. ~missed /\ (restful # Nothing => d = restful)
  BY <1>1 DEF Serve
<1>3. restful' = IF restful = Nothing /\ d \in Ending THEN d ELSE restful
  BY <1>1 DEF Serve
<1>4. Nothing \notin Ending
  BY NothingAssumption DEF Ending, Status, RowStatus
<1>5. /\ asking \in Seq(AskedOf(page)) /\ asking' = RemoveAt(asking, n)
      /\ replies \in Seq([asked : AskedOf(page), data : DataOf(page)])
      /\ replies' = Append(replies, new)
      /\ new \in [asked : AskedOf(page), data : DataOf(page)]
  <2>1. d \in DataOf(page)
    BY AnswerTyped DEF Answer
  <2>2. asking[n] \in AskedOf(page)
    BY ElementIn DEF TypeOK
  <2> QED
    BY <1>1, <2>1, <2>2 DEF Serve, TypeOK
<1>6. \A k \in DOMAIN asking' : \E m \in DOMAIN asking : asking'[k] = asking[m]
  BY <1>5, KeptIn
<1> HIDE DEF new
<1>7. /\ DOMAIN replies' = 1..(Len(replies) + 1) /\ DOMAIN replies = 1..Len(replies)
      /\ Len(replies) \in Nat
      /\ \A k \in DOMAIN replies : replies'[k] = replies[k]
      /\ replies'[Len(replies) + 1] = new
  BY <1>5, AddedTo
<1>8. new.asked = asking[n] /\ new.data = d
  BY DEF new
<1> HIDE DEF d
<1>9. UNCHANGED <<page, polling, shown>>
  BY <1>1 DEF Serve, ServeJobs, jobPageVars
<1>10. \A k \in DOMAIN replies' : k \in DOMAIN replies \/ k = Len(replies) + 1
  BY <1>7
<1>11. restful' \in Ending \cup {Nothing}
  BY <1>2, <1>3 DEF JobRestInv
<1>12. ASSUME NEW i \in DOMAIN replies', NEW k \in DOMAIN replies', i <= k,
              replies'[i].data \in Ending
       PROVE  replies'[k].data = restful'
  <2>1. CASE i \in DOMAIN replies
    <3>1. replies[i].data \in Ending /\ i <= i
      BY <1>7, <1>12, <2>1
    <3>2. restful = replies[i].data
      BY <1>2, <2>1, <3>1 DEF JobRestInv
    <3>3. restful # Nothing /\ restful' = restful /\ d = restful
      BY <1>2, <1>3, <1>4, <3>1, <3>2
    <3> QED
      BY <1>2, <1>7, <1>8, <1>10, <1>12, <2>1, <3>1, <3>3 DEF JobRestInv
  <2>2. CASE i = Len(replies) + 1
    <3>1. k = Len(replies) + 1
      BY <1>7, <1>12, <2>2
    <3> QED
      BY <1>2, <1>3, <1>7, <1>8, <1>12, <2>2, <3>1
  <2> QED
    BY <1>10, <2>1, <2>2
<1>13. ASSUME NEW i \in DOMAIN replies', replies'[i].asked.status \in Ending PROVE shown \in Ending
  BY <1>2, <1>7, <1>8, <1>10, <1>13 DEF JobRestInv
<1>14. ASSUME shown \in Ending
       PROVE  shown = restful' /\ \A i \in DOMAIN replies' : replies'[i].data = restful'
  <2>1. shown = restful /\ restful # Nothing
    BY <1>2, <1>4, <1>14 DEF JobRestInv
  <2>2. restful' = restful /\ d = restful
    BY <1>2, <1>3, <2>1
  <2> QED
    BY <1>2, <1>7, <1>8, <1>10, <1>14, <2>1, <2>2 DEF JobRestInv
<1> QED
  BY <1>2, <1>6, <1>9, <1>11, <1>12, <1>13, <1>14 DEF JobRestInv

\* An answer is lost, or is looked at.
LEMMA RepliesLeft ==
  ASSUME TypeOK, NEW n \in DOMAIN replies, replies' = RemoveAt(replies, n)
  PROVE  /\ \A k \in DOMAIN replies' : \E m \in DOMAIN replies : replies'[k] = replies[m]
         /\ \A i, k \in DOMAIN replies' : i <= k =>
              \E l, m \in DOMAIN replies :
                l <= m /\ replies'[i] = replies[l] /\ replies'[k] = replies[m]
<1>1. replies \in Seq([asked : AskedOf(page), data : DataOf(page)])
  BY DEF TypeOK
<1>2. /\ \A k \in DOMAIN replies' : replies'[k] = replies[IF k < n THEN k ELSE k + 1]
      /\ \A k \in DOMAIN replies' : (IF k < n THEN k ELSE k + 1) \in DOMAIN replies
  BY <1>1, KeptIn
<1>3. DOMAIN replies = 1..Len(replies) /\ Len(replies) \in Nat
  BY <1>1
<1>4. DOMAIN replies' \subseteq Nat
  <2>1. replies' \in Seq([asked : AskedOf(page), data : DataOf(page)])
    BY <1>1, RemovedAt
  <2> QED
    BY <2>1
<1>5. ASSUME NEW i \in DOMAIN replies', NEW k \in DOMAIN replies', i <= k
      PROVE  (IF i < n THEN i ELSE i + 1) <= (IF k < n THEN k ELSE k + 1)
  BY <1>3, <1>4, <1>5
<1> QED
  BY <1>2, <1>5

LEMMA LoseJobsRests ==
  ASSUME TypeOK, JobRestInv, NEW n \in DOMAIN replies, LoseJobs(n)
  PROVE  JobRestInv'
<1>1. /\ replies' = RemoveAt(replies, n)
      /\ UNCHANGED <<page, polling, asking, restful, missed, shown>>
  BY DEF LoseJobs, Lose, jobPageVars
<1> QED
  BY <1>1, RepliesLeft DEF JobRestInv

LEMMA JobArrivesRests ==
  ASSUME TypeOK, JobRestInv, NEW n \in DOMAIN replies, JobArrives(n)
  PROVE  JobRestInv'
<1> SUFFICES ASSUME ~missed' PROVE JobRestInv'
  BY DEF JobRestInv
<1> DEFINE d == replies[n].data
           a == replies[n].asked.status
<1>1. /\ page = "job" /\ ~missed /\ ~(n > 1)
      /\ replies' = RemoveAt(replies, n)
      /\ UNCHANGED <<page, asking, restful>>
      /\ polling' = (polling /\ d \notin StopsPolling)
      /\ shown' = IF a # d THEN d ELSE shown
  BY DEF JobArrives, Arrive, Differs
<1>2. DOMAIN replies \subseteq Nat \ {0}
  <2>1. replies \in Seq([asked : AskedOf(page), data : DataOf(page)])
    BY DEF TypeOK
  <2> QED
    BY <2>1
<1>3. n = 1 /\ \A k \in DOMAIN replies : n <= k
  BY <1>1, <1>2
<1>4. /\ \A k \in DOMAIN replies' : \E m \in DOMAIN replies : replies'[k] = replies[m]
      /\ \A i, k \in DOMAIN replies' : i <= k =>
           \E l, m \in DOMAIN replies :
             l <= m /\ replies'[i] = replies[l] /\ replies'[k] = replies[m]
  BY <1>1, RepliesLeft
<1>5. CASE d \in Ending
  <2>1. (\A k \in DOMAIN replies : replies[k].data = restful) /\ d = restful
    BY <1>1, <1>3, <1>5 DEF JobRestInv
  <2>2. shown' = restful /\ shown' \in Ending
    <3>1. CASE a = d
      BY <1>1, <1>5, <2>1, <3>1 DEF JobRestInv
    <3>2. CASE a # d
      BY <1>1, <1>5, <2>1, <3>2
    <3> QED
      BY <3>1, <3>2
  <2> QED
    BY <1>1, <1>4, <2>1, <2>2 DEF JobRestInv
<1>6. CASE d \notin Ending
  <2>1. shown \notin Ending
    BY <1>1, <1>6 DEF JobRestInv
  <2>2. shown' \notin Ending /\ a \notin Ending
    BY <1>1, <1>6, <2>1 DEF JobRestInv
  <2>3. polling'
    BY <1>1, <1>6, <2>1 DEF JobRestInv, StopsPolling, Ending, Terminal
  <2> QED
    BY <1>1, <1>4, <2>1, <2>2, <2>3 DEF JobRestInv
<1> QED
  BY <1>5, <1>6

LEMMA StepKeepsJobRest == TypeOK /\ JobRestInv /\ [Next]_vars => JobRestInv'
<1> SUFFICES ASSUME TypeOK, JobRestInv, [Next]_vars PROVE JobRestInv'
  OBVIOUS
<1>1. CASE UNCHANGED vars
  BY <1>1, JobRestKept DEF vars, pageVars, jobPageVars
<1>2. CASE EndpointPanelNext
  <2>1. page' # "job"
    BY <1>2 DEF EndpointPanelNext, EndpointMoves, Ask, OpenEndpoints, ShownFollows, PollEndpoints,
         ServeEndpoints, LoseEndpoints, EndpointsArrive, PostWrite, PostAnswered, PostFails,
         pageVars, Mount, Poll, Serve, Lose, Arrive
  <2> QED
    BY <2>1 DEF JobRestInv
<1>3. ASSUME NEW j \in Jobs, PlatformMoves(j) PROVE JobRestInv'
  BY <1>3, JobRestKept DEF PlatformMoves, pageVars, jobPageVars
<1>4. ASSUME NEW p \in Tables, OpenTable(p) PROVE JobRestInv'
  BY <1>4 DEF OpenTable, Mount, Tables, JobRestInv
<1>5. ASSUME NEW i \in DOMAIN replies, TableArrives(i) PROVE JobRestInv'
  BY <1>5 DEF TableArrives, Arrive, Tables, JobRestInv
<1>6. CASE \/ (\E op \in Op : Click(op)) \/ AnswerNo \/ AnswerYes
           \/ \E p \in puts : PutCheck(p) \/ PutRefused(p) \/ PutWrite(p) \/ PutFails(p)
  BY <1>6, JobRestKept DEF Click, AnswerNo, AnswerYes, PutCheck, PutRefused, PutWrite, PutFails,
                           pageVars, jobPageVars
<1> QED
  BY <1>1, <1>2, <1>3, <1>4, <1>5, <1>6, OpenJobRests, PollJobsRests, ServeJobsRests,
     LoseJobsRests, JobArrivesRests DEF Next, JobPagesNext

(***************************************************************************)
(* THEOREM.  The page of a job stops polling only when it shows the first  *)
(* answer after which nothing is to come, however many requests overlap    *)
(* and although each answer is compared with what the page showed when it  *)
(* asked (JobV2/index.tsx), unless answers were wrong or out of order, or  *)
(* the job moved on from a last status.                                    *)
(***************************************************************************)
THEOREM JobPageRestsHolds == Spec => []JobPageRests
<1>1. Init => JobRestInv
  BY DEF Init, JobRestInv
<1>2. JobRestInv => JobPageRests
  BY DEF JobRestInv, JobPageRests
<1> QED
  BY <1>1, <1>2, StepKeepsJobRest, InitTyped, StepTyped, PTL DEF Spec

(***************************************************************************)
(* On the page of a running job, or of one that may run again, while no    *)
(* answer was missed: endpoints are added and never forgotten; the answers *)
(* under way after one with nothing to wait for repeat it; a request that  *)
(* was sent before the panel got such a list is answered with that list;   *)
(* and a panel at rest shows it.                                           *)
(***************************************************************************)
Grown ==
  /\ Known(list) \subseteq Known(eps)
  /\ \A i \in DOMAIN asking : /\ asking[i].status \notin StopsPolling
                              /\ Known(asking[i].list) \subseteq Known(eps)
  /\ \A i \in DOMAIN replies : /\ replies[i].asked.status \notin StopsPolling
                               /\ Known(replies[i].asked.list) \subseteq Known(replies[i].data)
                               /\ Known(replies[i].data) \subseteq Known(eps)
Repeated ==
  /\ restful # Nothing => ~Unfinished(restful)
  /\ \A i, k \in DOMAIN replies :
       i <= k /\ ~Unfinished(replies[i].data) => replies[k].data = restful
OlderAsked ==
  ~Unfinished(list) =>
    /\ \A i \in DOMAIN asking : asking[i].list # list => restful = list
    /\ \A i \in DOMAIN replies : replies[i].asked.list # list => restful = list
AtRest ==
  /\ ~polling /\ ~Unfinished(list) /\ UnderWay = 0 => list = restful
  /\ shown = "running" /\ ~polling => ~Unfinished(list)
PanelRestInv ==
  page = "endpoints" /\ ~missed /\ shown \notin StopsPolling
    => Grown /\ Repeated /\ OlderAsked /\ AtRest

LEMMA UnderWayNone ==
  ASSUME TypeOK, UnderWay = 0 PROVE DOMAIN asking = {} /\ DOMAIN replies = {}
<1>1. asking \in Seq(AskedOf(page)) /\ replies \in Seq([asked : AskedOf(page), data : DataOf(page)])
  BY DEF TypeOK
<1>2. /\ DOMAIN asking = 1..Len(asking) /\ Len(asking) \in Nat
      /\ DOMAIN replies = 1..Len(replies) /\ Len(replies) \in Nat
  BY <1>1
<1>3. Len(asking) = 0 /\ Len(replies) = 0
  BY <1>2 DEF UnderWay
<1> QED
  BY <1>2, <1>3

LEMMA PanelTypes ==
  ASSUME TypeOK, page = "endpoints"
  PROVE  /\ \A i \in DOMAIN asking : asking[i].list \in [Names -> EpStatus]
         /\ \A i \in DOMAIN replies : /\ replies[i].asked.list \in [Names -> EpStatus]
                                      /\ replies[i].data \in [Names -> EpStatus]
         /\ list \in [Names -> EpStatus] /\ eps \in [Names -> EpStatus]
         /\ restful \in {Nothing} \cup [Names -> EpStatus]
<1>1. /\ asking \in Seq(AskedOf(page))
      /\ replies \in Seq([asked : AskedOf(page), data : DataOf(page)])
      /\ restful \in {Nothing} \cup DataOf(page)
      /\ list \in [Names -> EpStatus] /\ eps \in [Names -> EpStatus]
  BY DEF TypeOK
<1> DEFINE Asked == [list : [Names -> EpStatus], status : RowStatus]
<1>2. AskedOf(page) = Asked /\ DataOf(page) = [Names -> EpStatus]
  BY PageData
<1>3. ASSUME NEW r \in Asked PROVE r.list \in [Names -> EpStatus]
  OBVIOUS
<1> HIDE DEF Asked
<1>4. ASSUME NEW i \in DOMAIN asking PROVE asking[i].list \in [Names -> EpStatus]
  <2>1. asking[i] \in AskedOf(page)
    BY <1>1, ElementIn
  <2> QED
    BY <1>2, <1>3, <2>1
<1>5. ASSUME NEW i \in DOMAIN replies
      PROVE  /\ replies[i].asked.list \in [Names -> EpStatus]
             /\ replies[i].data \in [Names -> EpStatus]
  <2>1. replies[i] \in [asked : AskedOf(page), data : DataOf(page)]
    BY <1>1, ElementIn
  <2>2. replies[i].asked \in Asked /\ replies[i].data \in [Names -> EpStatus]
    BY <1>2, <2>1
  <2> QED
    BY <1>3, <2>2
<1> QED
  BY <1>1, <1>4, <1>5, <1>2

(***************************************************************************)
(* An answer that does not seem new to a panel that knew no more endpoints *)
(* is the list the panel had.                                              *)
(***************************************************************************)
LEMMA NotNew ==
  ASSUME NEW l \in [Names -> EpStatus], NEW d \in [Names -> EpStatus],
         Known(l) \subseteq Known(d), ~NewEndpoints(l, d)
  PROVE  l = d
<1>1. IsFiniteSet(Known(l)) /\ IsFiniteSet(Known(d))
  BY NamesAssumption, FS_Subset DEF Known
<1>2. Cardinality(Known(l)) = Cardinality(Known(d))
  BY DEF NewEndpoints
<1>3. Known(l) = Known(d)
  BY <1>1, <1>2, FS_Subset
<1>4. ASSUME NEW n \in Names PROVE l[n] = d[n]
  <2>1. CASE n \in Known(l)
    BY <1>3, <2>1 DEF NewEndpoints
  <2>2. CASE n \notin Known(l)
    BY <1>3, <2>2 DEF Known
  <2> QED
    BY <2>1, <2>2
<1> QED
  BY <1>4

\* Steps that move endpoints or posts only.
LEMMA PanelKept ==
  ASSUME PanelRestInv, UNCHANGED <<pageVars, shown, list>>, Known(eps) \subseteq Known(eps')
  PROVE  PanelRestInv'
<1>1. UNCHANGED <<page, polling, asking, replies, restful, missed, UnderWay>>
  BY DEF pageVars, UnderWay
<1>2. Grown => Grown'
  BY <1>1 DEF Grown, Known
<1>3. Repeated => Repeated'
  BY <1>1 DEF Repeated, Unfinished
<1>4. OlderAsked => OlderAsked'
  BY <1>1 DEF OlderAsked, Unfinished
<1>5. AtRest => AtRest'
  BY <1>1 DEF AtRest, Unfinished
<1> QED
  BY <1>1, <1>2, <1>3, <1>4, <1>5 DEF PanelRestInv

LEMMA OpenEndpointsRests == ASSUME OpenEndpoints PROVE PanelRestInv'
<1>1. /\ asking' = <<[list |-> NoEndpoints, status |-> shown]>> /\ replies' = <<>>
      /\ list' = NoEndpoints /\ shown' = shown /\ restful' = Nothing
  BY DEF OpenEndpoints, Mount, jobPageVars
<1>2. ~Unfinished(NoEndpoints) /\ Known(NoEndpoints) = {}
  BY DEF Unfinished, NoEndpoints, Known
<1>3. /\ DOMAIN asking' = {1} /\ Len(asking') = 1 /\ DOMAIN replies' = {} /\ Len(replies') = 0
      /\ asking'[1].list = NoEndpoints /\ asking'[1].status = shown
  BY <1>1
<1>4. UnderWay' # 0
  BY <1>3 DEF UnderWay
<1>5. shown \notin StopsPolling => Grown'
  BY <1>1, <1>2, <1>3 DEF Grown, Known
<1>6. Repeated'
  BY <1>1, <1>3 DEF Repeated
<1>7. OlderAsked'
  BY <1>1, <1>3 DEF OlderAsked
<1>8. AtRest'
  BY <1>1, <1>2, <1>4 DEF AtRest, Unfinished
<1> QED
  BY <1>1, <1>5, <1>6, <1>7, <1>8 DEF PanelRestInv

LEMMA ShownFollowsRests == ASSUME TypeOK, PanelRestInv, ShownFollows PROVE PanelRestInv'
<1> SUFFICES ASSUME ~missed PROVE PanelRestInv'
  BY DEF PanelRestInv, ShownFollows
<1>1. /\ page = "endpoints" /\ shown \notin StopsPolling
      /\ UNCHANGED <<page, asking, replies, missed, list, eps>>
      /\ polling' = IF shown' = "running" THEN Unfinished(list) ELSE polling
      /\ restful' = IF polling /\ ~polling' /\ UnderWay = 0 THEN list ELSE restful
  BY DEF ShownFollows, panelVars, DecidesToPoll
<1>2. Grown /\ Repeated /\ OlderAsked /\ AtRest
  BY <1>1 DEF PanelRestInv
<1>3. UnderWay' = UnderWay
  BY <1>1 DEF UnderWay
<1>4. Grown'
  BY <1>1, <1>2 DEF Grown, Known
<1>5. CASE polling /\ ~polling' /\ UnderWay = 0
  <2>1. ~Unfinished(list) /\ restful' = list
    BY <1>1, <1>5
  <2>2. DOMAIN asking' = {} /\ DOMAIN replies' = {}
    BY <1>1, <1>5, UnderWayNone
  <2>3. Repeated' /\ OlderAsked' /\ AtRest'
    BY <1>1, <2>1, <2>2 DEF Repeated, OlderAsked, AtRest, Unfinished
  <2> QED
    BY <1>4, <2>3 DEF PanelRestInv
<1>6. CASE ~(polling /\ ~polling' /\ UnderWay = 0)
  <2>1. Repeated' /\ OlderAsked'
    BY <1>1, <1>2, <1>6 DEF Repeated, OlderAsked, Unfinished
  <2>2. AtRest'
    BY <1>1, <1>2, <1>3, <1>6 DEF AtRest, Unfinished
  <2> QED
    BY <1>4, <2>1, <2>2 DEF PanelRestInv
<1> QED
  BY <1>5, <1>6

LEMMA PollEndpointsRests == ASSUME TypeOK, PanelRestInv, PollEndpoints PROVE PanelRestInv'
<1> DEFINE new == [list |-> list, status |-> shown]
<1> SUFFICES ASSUME ~missed, shown \notin StopsPolling PROVE PanelRestInv'
  BY DEF PanelRestInv, PollEndpoints, Poll, jobPageVars
<1>1. /\ page = "endpoints" /\ polling /\ asking' = Append(asking, new)
      /\ UNCHANGED <<page, polling, replies, missed, restful, shown, list, eps>>
  BY DEF PollEndpoints, Poll, jobPageVars, panelVars
<1>2. Grown /\ Repeated /\ OlderAsked
  BY <1>1 DEF PanelRestInv
<1>3. asking \in Seq(AskedOf(page)) /\ new \in AskedOf(page)
  BY <1>1, PageData DEF TypeOK
<1>4. new.list = list /\ new.status = shown
  OBVIOUS
<1> HIDE DEF new
<1>5. /\ DOMAIN asking' = 1..(Len(asking) + 1) /\ DOMAIN asking = 1..Len(asking)
      /\ Len(asking) \in Nat
      /\ \A k \in DOMAIN asking : asking'[k] = asking[k]
      /\ asking'[Len(asking) + 1] = new
  BY <1>1, <1>3, AddedTo
<1>6. \A k \in DOMAIN asking' : k \in DOMAIN asking \/ asking'[k] = new
  BY <1>5
<1>7. Grown'
  BY <1>1, <1>2, <1>4, <1>5, <1>6 DEF Grown, Known
<1>8. Repeated' /\ OlderAsked'
  BY <1>1, <1>2, <1>4, <1>5, <1>6 DEF Repeated, OlderAsked, Unfinished
<1>9. AtRest'
  BY <1>1 DEF AtRest
<1> QED
  BY <1>7, <1>8, <1>9 DEF PanelRestInv

LEMMA ServeEndpointsRests ==
  ASSUME TypeOK, TypeOK', PanelRestInv, NEW n \in DOMAIN asking, ServeEndpoints(n)
  PROVE  PanelRestInv'
<1> DEFINE new == [asked |-> asking[n], data |-> eps]
<1> SUFFICES ASSUME ~missed', shown \notin StopsPolling PROVE PanelRestInv'
  BY DEF PanelRestInv, ServeEndpoints, jobPageVars
<1>1. /\ page = "endpoints" /\ UNCHANGED <<page, polling, shown, list, eps>>
      /\ Serve(n, eps, ~Unfinished(eps) \/ asking[n].status \in StopsPolling, FALSE)
  BY DEF ServeEndpoints, Serve, jobPageVars, panelVars
<1>2. ~missed /\ (restful # Nothing => eps = restful)
  BY <1>1 DEF Serve
<1>3. Grown /\ Repeated /\ OlderAsked
  BY <1>1, <1>2 DEF PanelRestInv
<1>4. restful' = IF restful = Nothing /\ ~Unfinished(eps) THEN eps ELSE restful
  BY <1>1, <1>3 DEF Serve, Grown
<1>5. /\ asking \in Seq(AskedOf(page)) /\ asking' = RemoveAt(asking, n)
      /\ replies \in Seq([asked : AskedOf(page), data : DataOf(page)])
      /\ replies' = Append(replies, new)
      /\ new \in [asked : AskedOf(page), data : DataOf(page)]
  <2>1. eps \in DataOf(page)
    BY <1>1, PageData DEF TypeOK
  <2>2. asking[n] \in AskedOf(page)
    BY ElementIn DEF TypeOK
  <2> QED
    BY <1>1, <2>1, <2>2 DEF Serve, TypeOK
<1>6. \A k \in DOMAIN asking' : \E m \in DOMAIN asking : asking'[k] = asking[m]
  BY <1>5, KeptIn
<1>7. new.asked = asking[n] /\ new.data = eps
  OBVIOUS
<1> HIDE DEF new
<1>8. /\ DOMAIN replies' = 1..(Len(replies) + 1) /\ DOMAIN replies = 1..Len(replies)
      /\ Len(replies) \in Nat
      /\ \A k \in DOMAIN replies : replies'[k] = replies[k]
      /\ replies'[Len(replies) + 1] = new
  BY <1>5, AddedTo
<1>9. \A k \in DOMAIN replies' : k \in DOMAIN replies \/ replies'[k] = new
  BY <1>8
<1>10. /\ list # Nothing /\ eps # Nothing
       /\ \A i \in DOMAIN replies : replies[i].data # Nothing
  BY <1>1, PanelTypes, NoListAssumption
<1>11. Grown'
  BY <1>1, <1>3, <1>6, <1>7, <1>8, <1>9 DEF Grown, Known
<1>12. ASSUME NEW i \in DOMAIN replies', NEW k \in DOMAIN replies', i <= k,
              ~Unfinished(replies'[i].data)
       PROVE  replies'[k].data = restful'
  <2>1. CASE i \in DOMAIN replies
    <3>1. restful = replies[i].data
      BY <1>3, <1>8, <1>12, <2>1 DEF Repeated
    <3>2. restful # Nothing /\ restful' = restful /\ eps = restful
      BY <1>2, <1>4, <1>10, <2>1, <3>1
    <3> QED
      BY <1>3, <1>7, <1>8, <1>9, <1>12, <2>1, <3>2 DEF Repeated
  <2>2. CASE i \notin DOMAIN replies
    <3>1. i = Len(replies) + 1 /\ k = Len(replies) + 1
      BY <1>8, <1>12, <2>2
    <3>2. ~Unfinished(eps)
      BY <1>7, <1>8, <1>12, <3>1
    <3> QED
      BY <1>2, <1>4, <1>7, <1>8, <3>1, <3>2
  <2> QED
    BY <2>1, <2>2
<1>13. Repeated'
  <2>1. restful' # Nothing => ~Unfinished(restful')
    BY <1>3, <1>4 DEF Repeated
  <2> QED
    BY <1>12, <2>1 DEF Repeated, Unfinished
<1>14. OlderAsked'
  <2>1. restful = list => restful' = list
    BY <1>4, <1>10
  <2>2. \A k \in DOMAIN replies' :
          \/ k \in DOMAIN replies /\ replies'[k].asked.list = replies[k].asked.list
          \/ replies'[k].asked.list = asking[n].list
    BY <1>7, <1>8, <1>9
  <2> QED
    BY <1>1, <1>3, <1>6, <2>1, <2>2 DEF OlderAsked, Unfinished
<1>15. AtRest'
  <2>1. DOMAIN replies' # {}
    BY <1>8
  <2>2. UnderWay' # 0
    <3>1. /\ Len(asking') \in Nat /\ Len(replies') = Len(replies) + 1
      BY <1>5, RemovedAt, Appended
    <3> QED
      BY <1>8, <3>1 DEF UnderWay
  <2>3. (shown = "running" /\ ~polling => ~Unfinished(list))
    BY <1>1, <1>2 DEF PanelRestInv, AtRest
  <2> QED
    BY <1>1, <2>2, <2>3 DEF AtRest, Unfinished
<1> QED
  BY <1>11, <1>13, <1>14, <1>15 DEF PanelRestInv

\* What is left of the answers says no more than all of them did.
LEMMA LeftFit ==
  ASSUME TypeOK, NEW n \in DOMAIN replies, replies' = RemoveAt(replies, n),
         UNCHANGED <<asking, restful, eps>>, Repeated
  PROVE  /\ Repeated'
         /\ Grown => /\ \A i \in DOMAIN replies' :
                          /\ replies'[i].asked.status \notin StopsPolling
                          /\ Known(replies'[i].asked.list) \subseteq Known(replies'[i].data)
                          /\ Known(replies'[i].data) \subseteq Known(eps)
<1>1. /\ \A k \in DOMAIN replies' : \E m \in DOMAIN replies : replies'[k] = replies[m]
      /\ \A i, k \in DOMAIN replies' : i <= k =>
           \E l, m \in DOMAIN replies :
             l <= m /\ replies'[i] = replies[l] /\ replies'[k] = replies[m]
  BY RepliesLeft
<1>2. Repeated'
  BY <1>1 DEF Repeated, Unfinished
<1>3. ASSUME Grown, NEW i \in DOMAIN replies'
      PROVE  /\ replies'[i].asked.status \notin StopsPolling
             /\ Known(replies'[i].asked.list) \subseteq Known(replies'[i].data)
             /\ Known(replies'[i].data) \subseteq Known(eps)
  BY <1>1, <1>3 DEF Grown
<1> QED
  BY <1>2, <1>3

LEMMA LoseEndpointsRests ==
  ASSUME TypeOK, PanelRestInv, NEW n \in DOMAIN replies, LoseEndpoints(n)
  PROVE  PanelRestInv'
<1> SUFFICES ASSUME ~missed', shown \notin StopsPolling PROVE PanelRestInv'
  BY DEF PanelRestInv, LoseEndpoints, jobPageVars
<1>1. /\ page = "endpoints" /\ ~missed /\ polling /\ replies' = RemoveAt(replies, n)
      /\ UNCHANGED <<page, polling, asking, restful, shown, list, eps>>
  BY DEF LoseEndpoints, Lose, jobPageVars, panelVars
<1>2. Grown /\ Repeated /\ OlderAsked
  BY <1>1 DEF PanelRestInv
<1>3. Repeated' /\ Grown'
  BY <1>1, <1>2, LeftFit DEF Grown, Known
<1>4. OlderAsked'
  BY <1>1, <1>2, RepliesLeft DEF OlderAsked, Unfinished
<1>5. AtRest'
  BY <1>1 DEF AtRest
<1> QED
  BY <1>3, <1>4, <1>5 DEF PanelRestInv

LEMMA EndpointsArriveRests ==
  ASSUME TypeOK, PanelRestInv, NEW n \in DOMAIN replies, EndpointsArrive(n)
  PROVE  PanelRestInv'
<1> DEFINE d == replies[n].data
           a == replies[n].asked.list
<1> SUFFICES ASSUME ~missed', shown \notin StopsPolling PROVE PanelRestInv'
  BY DEF PanelRestInv, EndpointsArrive, jobPageVars
<1>1. /\ page = "endpoints" /\ ~missed /\ ~(n > 1) /\ replies' = RemoveAt(replies, n)
      /\ UNCHANGED <<page, asking, restful, shown, eps>>
  BY DEF EndpointsArrive, Arrive, jobPageVars
<1>2. Grown /\ Repeated /\ OlderAsked /\ AtRest
  BY <1>1 DEF PanelRestInv
<1>3. IF NewEndpoints(a, d)
        THEN list' = d /\ polling' = IF shown = "running" THEN Unfinished(d) ELSE polling
        ELSE polling' = polling /\ list' = list
  BY <1>2 DEF EndpointsArrive, DecidesToPoll, Grown, TypeOK
<1>4. \A k \in DOMAIN replies : n <= k
  <2>1. replies \in Seq([asked : AskedOf(page), data : DataOf(page)])
    BY DEF TypeOK
  <2>2. DOMAIN replies \subseteq Nat \ {0}
    BY <2>1
  <2> QED
    BY <1>1, <2>2
<1>5. ~Unfinished(d) => restful = d
  BY <1>2, <1>4 DEF Repeated
<1>6. ~NewEndpoints(a, d) => a = d
  BY <1>1, <1>2, PanelTypes, NotNew DEF Grown
<1>7. Repeated' /\ Grown'
  <2>1. Known(list') \subseteq Known(eps)
    BY <1>2, <1>3 DEF Grown
  <2> QED
    BY <1>1, <1>2, <2>1, LeftFit DEF Grown, Known
<1>8. \A k \in DOMAIN replies' : \E m \in DOMAIN replies : replies'[k] = replies[m]
  BY <1>1, RepliesLeft
<1> HIDE DEF d, a
<1>9. CASE NewEndpoints(a, d)
  <2>1. OlderAsked'
    BY <1>1, <1>3, <1>5, <1>9 DEF OlderAsked, Unfinished
  <2>2. AtRest'
    BY <1>1, <1>3, <1>5, <1>9 DEF AtRest, Unfinished
  <2> QED
    BY <1>7, <2>1, <2>2 DEF PanelRestInv
<1>10. CASE ~NewEndpoints(a, d)
  <2>1. OlderAsked'
    BY <1>1, <1>2, <1>3, <1>8, <1>10 DEF OlderAsked, Unfinished
  <2>2. ~Unfinished(list) => list = restful
    <3>1. a # list /\ ~Unfinished(list) => restful = list
      BY <1>2 DEF OlderAsked, a
    <3> QED
      BY <1>5, <1>6, <1>10, <3>1
  <2>3. AtRest'
    BY <1>1, <1>2, <1>3, <1>10, <2>2 DEF AtRest, Unfinished
  <2> QED
    BY <1>7, <2>1, <2>3 DEF PanelRestInv
<1> QED
  BY <1>9, <1>10

LEMMA PostAnsweredRests ==
  ASSUME TypeOK, PanelRestInv, NEW p \in posts, PostAnswered(p)
  PROVE  PanelRestInv'
<1>1. /\ page = "endpoints"
      /\ UNCHANGED <<page, asking, replies, shown, list, eps>>
      /\ polling' = (polling \/ LooksAgain(p.name))
      /\ IF p.name \in PortNames
           THEN /\ restful' = Nothing
                /\ missed' = (missed \/ replies # <<>> \/ \E i \in DOMAIN asking : asking[i].list # list)
           ELSE UNCHANGED <<restful, missed>>
  BY DEF PostAnswered, jobPageVars
<1>2. CASE p.name \notin PortNames
  <2>1. UNCHANGED <<pageVars, shown, list>> /\ Known(eps) \subseteq Known(eps')
    BY <1>1, <1>2 DEF pageVars, LooksAgain, TypeOK
  <2> QED
    BY <2>1, PanelKept
<1>3. CASE p.name \in PortNames
  <2> SUFFICES ASSUME ~missed', shown \notin StopsPolling PROVE PanelRestInv'
    BY <1>1 DEF PanelRestInv
  <2>1. /\ ~missed /\ polling' /\ restful' = Nothing /\ replies' = <<>>
        /\ \A i \in DOMAIN asking : asking[i].list = list
    BY <1>1, <1>3 DEF LooksAgain
  <2>2. Grown
    BY <1>1, <2>1 DEF PanelRestInv
  <2>3. Grown' /\ Repeated' /\ OlderAsked' /\ AtRest'
    BY <1>1, <2>1, <2>2 DEF Grown, Repeated, OlderAsked, AtRest, Known
  <2> QED
    BY <2>3 DEF PanelRestInv
<1> QED
  BY <1>2, <1>3

LEMMA StepKeepsPanelRest == TypeOK /\ PanelRestInv /\ [Next]_vars => PanelRestInv'
<1> SUFFICES ASSUME TypeOK, PanelRestInv, [Next]_vars PROVE PanelRestInv'
  OBVIOUS
<1>1. CASE UNCHANGED vars
  BY <1>1, PanelKept DEF vars, jobPageVars, panelVars
<1>2. ASSUME NEW n \in Names, EndpointMoves(n) \/ Ask(n) PROVE PanelRestInv'
  <2>1. Known(eps) \subseteq Known(eps')
    BY <1>2 DEF EndpointMoves, Ask, EndpointNext, Known, TypeOK
  <2> QED
    BY <1>2, <2>1, PanelKept DEF EndpointMoves, Ask, jobPageVars
<1>3. ASSUME NEW p \in posts, PostWrite(p) \/ PostFails(p) PROVE PanelRestInv'
  <2>1. Known(eps) \subseteq Known(eps')
    BY <1>3 DEF PostWrite, PostFails, Known, TypeOK
  <2> QED
    BY <1>3, <2>1, PanelKept DEF PostWrite, PostFails, jobPageVars
<1>4. CASE EndpointPanelNext
  BY <1>2, <1>3, <1>4, StepTyped, OpenEndpointsRests, ShownFollowsRests, PollEndpointsRests,
     ServeEndpointsRests, LoseEndpointsRests, EndpointsArriveRests, PostAnsweredRests
     DEF EndpointPanelNext
<1>5. CASE JobPagesNext /\ UNCHANGED panelVars
  <2>1. UNCHANGED <<pageVars, shown, list, eps>> \/ page' # "endpoints"
    BY <1>5 DEF JobPagesNext, PlatformMoves, OpenJob, OpenTable, PollJobs, ServeJobs, LoseJobs,
                TableArrives, JobArrives, Click, AnswerNo, AnswerYes, PutCheck, PutRefused,
                PutWrite, PutFails, Tables, Mount, Poll, Serve, Lose, Arrive, jobPageVars, panelVars
  <2> QED
    BY <2>1, PanelKept DEF PanelRestInv
<1> QED
  BY <1>1, <1>4, <1>5 DEF Next

(***************************************************************************)
(* THEOREM.  A panel that does not poll any more on the page of a running  *)
(* job shows the answer after which it had nothing to wait for, whatever   *)
(* endpoints were asked for and however requests, status changes and       *)
(* restarts of the job overlap (JobV2/Endpoints.tsx), unless an answer was *)
(* missed.                                                                 *)
(***************************************************************************)
THEOREM PanelRestsHolds == Spec => []PanelRests
<1>1. Init => PanelRestInv
  BY DEF Init, PanelRestInv
<1>2. PanelRestInv => PanelRests
  BY DEF PanelRestInv, AtRest, PanelRests, StopsPolling
<1> QED
  BY <1>1, <1>2, StepKeepsPanelRest, InitTyped, StepTyped, PTL DEF Spec
=============================================================================
