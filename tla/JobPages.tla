------------------------------ MODULE JobPages ------------------------------
(***************************************************************************)
(* The pages of the dashboard on which users watch jobs and act on them:   *)
(* the tables "my jobs" and "all jobs" (MyJobs.tsx, AllJobs.tsx), the page *)
(* of one job (JobV2/index.tsx), the actions they offer and the dialog     *)
(* that confirms them (useActions.ts, useConfirm.tsx), the gateway that    *)
(* turns an action into a call of the REST API (services/cluster.js), and  *)
(* that call.  What the managers do to a job is an abstract move.          *)
(***************************************************************************)
EXTENDS JobStatus, PollingPage, FiniteSets

CONSTANTS
  Order,    \* the jobs of the selected team, the latest submission first
  Mine,     \* the jobs of the user, who may view and manage all the others too
  Found     \* bound: the statuses the jobs may have when the user comes

Jobs == ToSet(Order)
ASSUME OrderAssumption == Order \in Seq(Jobs)
ASSUME MineAssumption == Mine \subseteq Jobs
ASSUME NothingAssumption == Nothing \notin Status \cup {""}
ASSUME FoundAssumption == Found \subseteq [Jobs -> Status]

Tables == {"my", "all"}
Op == {"approve", "pause", "resume", "kill"}

VARIABLES
  status,  \* [Jobs -> Status]  jobs.jobStatus
  rows,    \* jobs of MyJobs and AllJobs: the rows of the table, or Nothing
  opened,  \* the job whose page is open, or Nothing
  shown,   \* job.jobStatus of its page, or Nothing
  dialog,  \* the action waiting for its confirmation, or Nothing
  puts,    \* the confirmed requests under way
  told     \* the last answer to a request on this page: what the user is told,
           \* what was done

jobPageVars == <<rows, opened, shown>>
actionVars == <<dialog, puts, told>>

-----------------------------------------------------------------------------
(***************************************************************************)
(* The platform, and the lists the REST API makes of its rows.             *)
(***************************************************************************)
\* What the managers do to a job in this status.  (Bound: of the ends that no page
\* tells apart, one from each status.)
PlatformNext(s) ==
  CASE s = "unborn"     -> {"unapproved"}
    [] s = "unapproved" -> {"queued", "Killed"}
    [] s = "queued"     -> {"scheduling", "error"}
    [] s = "scheduling" -> {"running", "queued", "failed", "killing"}
    [] s = "running"    -> {"queued", "finished", "killing"}
    [] s = "pausing"    -> {"paused"}
    [] s = "killing"    -> {"killed"}
    [] OTHER            -> {}

\* Jobs are submitted in the order of their submission times.  (Bound: only the
\* job whose page is open moves, and none before a page is open.)
PlatformMoves(j) ==
  /\ Move
  /\ page # "none" /\ opened \in {j, Nothing}
  /\ status[j] = "unborn" =>
       \A i, k \in DOMAIN Order : Order[i] = j /\ i < k => status[Order[k]] # "unborn"
  /\ \E s \in PlatformNext(status[j]) : status' = [status EXCEPT ![j] = s]
  /\ UNCHANGED <<pageVars, jobPageVars, actionVars>>

\* ListJobsV2 and getJobs: the user's own jobs, or all that are pending, in the
\* order of their submission.
Listed(p) ==
  LET at == {i \in DOMAIN Order :
               /\ status[Order[i]] \notin NoRow
               /\ IF p = "my" THEN Order[i] \in Mine ELSE status[Order[i]] \in Pending}
      nth(n) == Order[CHOOSE i \in at : Cardinality({k \in at : k <= i}) = n]
  IN [n \in 1..Cardinality(at) |-> [job |-> nth(n), status |-> status[nth(n)]]]

\* A failed SELECT gives an empty list and a job without a status.
Answer == IF page = "job" THEN status[opened] ELSE Listed(page)
NoAnswer == IF page = "job" THEN "" ELSE <<>>

-----------------------------------------------------------------------------
(* Polling.                                                                *)

Statuses(table) == [i \in DOMAIN table |-> table[i].status]
Showing ==
  IF page = "job" THEN [status |-> shown]
  ELSE [statuses |-> IF rows = Nothing THEN Nothing ELSE Statuses(rows)]

\* (Mutant: only the number of rows is compared, as on the page of endpoints.)
DiffersInLength(asked, data) ==
  IF page = "job"
    THEN asked.status # data
    ELSE asked.statuses = Nothing \/ Len(asked.statuses) # Len(data)

\* Only the statuses are compared, in their order.
Differs(asked, data) ==
  IF page = "job" THEN asked.status # data ELSE asked.statuses # Statuses(data)

\* (Mutant: the page rests on a paused job, too.)
StopsPollingPaused == {"error", "failed", "finished", "killing", "killed", "paused"}

StopsPolling == {"error", "failed", "finished", "killing", "killed"}

OpenTable(p) ==
  /\ Turn
  /\ dialog = Nothing
  /\ rows' = Nothing /\ opened' = Nothing /\ shown' = Nothing
  /\ Mount(p, [statuses |-> Nothing], TRUE)
  /\ told' = Nothing
  /\ UNCHANGED <<status, dialog, puts>>

OpenJob(j) ==
  /\ Turn
  /\ dialog = Nothing
  /\ status[j] \notin NoRow
  /\ rows' = Nothing /\ opened' = j /\ shown' = Nothing
  /\ Mount("job", [status |-> Nothing], TRUE)
  /\ told' = Nothing
  /\ UNCHANGED <<status, dialog, puts>>

PollJobs ==
  /\ page \in Tables \cup {"job"}
  /\ Poll(Showing)
  /\ UNCHANGED <<status, jobPageVars, actionVars>>

ServeJobs(i) ==
  /\ page \in Tables \cup {"job"}
  /\ \/ /\ Serve(i, Answer, page = "job" /\ Answer \in Terminal \cup {"killing"}, FALSE)
        /\ UNCHANGED moves
     \/ Move /\ Serve(i, NoAnswer, FALSE, TRUE)
  /\ UNCHANGED <<status, jobPageVars, actionVars>>

LoseJobs(i) ==
  /\ page \in Tables \cup {"job"}
  /\ Lose(i)
  /\ UNCHANGED <<missed, status, jobPageVars, actionVars>>

TableArrives(i) ==
  LET r == replies[i] IN
  /\ page \in Tables
  /\ Arrive(i)
  /\ rows' = IF Differs(r.asked, r.data) THEN r.data ELSE rows
  /\ UNCHANGED <<polling, status, opened, shown, actionVars>>

JobArrives(i) ==
  LET r == replies[i] IN
  /\ page = "job"
  /\ Arrive(i)
  /\ polling' = (polling /\ r.data \notin StopsPolling)
  /\ shown' = IF Differs(r.asked, r.data) THEN r.data ELSE shown
  /\ UNCHANGED <<status, rows, opened, actionVars>>

-----------------------------------------------------------------------------
(***************************************************************************)
(* Actions.  A row, or the page of a job, offers what fits the status it   *)
(* shows; one dialog asks for confirmation.                                *)
(***************************************************************************)
\* (Mutant: a job that is being paused can be paused.)
OffersPausing(op) ==
  CASE op = "approve" -> {"unapproved"}
    [] op = "pause"   -> {"queued", "scheduling", "running", "pausing"}
    [] op = "resume"  -> {"paused"}
    [] op = "kill"    -> {"unapproved", "queued", "scheduling", "running",
                          "pausing", "paused"}

\* (Mutant: a job can be killed unless its page knows that it has ended.)
OffersUnlessEnded(op) ==
  CASE op = "approve" -> {"unapproved"}
    [] op = "pause"   -> {"queued", "scheduling", "running"}
    [] op = "resume"  -> {"paused"}
    [] op = "kill"    -> (RowStatus \cup {"", Nothing}) \ (Terminal \cup {"killing"})

Offers(op) ==
  CASE op = "approve" -> {"unapproved"}
    [] op = "pause"   -> {"queued", "scheduling", "running"}
    [] op = "resume"  -> {"paused"}
    [] op = "kill"    -> {"unapproved", "queued", "scheduling", "running",
                          "pausing", "paused"}

PageOps == IF page = "my" THEN {"pause", "resume", "kill"} ELSE Op

\* The jobs that can be clicked on, each with the status shown.
Shown ==
  IF page = "job" THEN {[job |-> opened, status |-> shown]}
  ELSE IF rows = Nothing THEN {} ELSE ToSet(rows)

Click(op) ==
  /\ Move
  /\ page \in Tables \cup {"job"}
  /\ dialog = Nothing
  /\ op \in PageOps
  /\ \E r \in Shown : /\ r.status \in Offers(op)
                      /\ dialog' = [job |-> r.job, op |-> op, seen |-> r.status]
  /\ UNCHANGED <<pageVars, status, jobPageVars, puts, told>>

AnswerNo ==
  /\ dialog # Nothing
  /\ dialog' = Nothing
  /\ UNCHANGED <<moves, pageVars, status, jobPageVars, puts, told>>

\* (Bound: one request of a user at a time.)
AnswerYes ==
  /\ dialog # Nothing
  /\ puts = {}
  /\ dialog' = Nothing
  /\ puts' = puts \cup {[request |-> dialog, checked |-> FALSE]}
  /\ UNCHANGED <<moves, pageVars, status, jobPageVars, told>>

\* The REST API looks at the row and at who asks: only the owner may pause and
\* resume a job.
MayDo(q) == q.op \in {"kill", "approve"} \/ q.job \in Mine

PutCheck(p) ==
  /\ p \in puts /\ ~p.checked
  /\ status[p.request.job] \in Accepts(p.request.op) /\ MayDo(p.request)
  /\ puts' = (puts \ {p}) \cup {[p EXCEPT !.checked = TRUE]}
  /\ UNCHANGED <<moves, pageVars, status, jobPageVars, dialog, told>>

(***************************************************************************)
(* The answer.  The REST API says "Success, ..." or "Cannot ...", both     *)
(* with status 200; the gateway passes the text on when the status is 200, *)
(* and the page looks at the status only.                                  *)
(***************************************************************************)
Tell(p, done, now) ==
  /\ puts' = puts \ {p}
  /\ told' = [request |-> p.request, accepted |-> TRUE, done |-> done, now |-> now]

PutRefused(p) ==
  LET s == status[p.request.job] IN
  /\ p \in puts /\ ~p.checked
  /\ s \notin Accepts(p.request.op) \/ ~MayDo(p.request)
  /\ Tell(p, FALSE, s)
  /\ UNCHANGED <<moves, pageVars, status, jobPageVars, dialog>>

PutWrite(p) ==
  /\ p \in puts /\ p.checked
  /\ status' = [status EXCEPT ![p.request.job] = NewStatus(p.request.op)]
  /\ Tell(p, TRUE, status[p.request.job])
  /\ UNCHANGED <<moves, pageVars, jobPageVars, dialog>>

\* The database refuses the update: "Cannot ...", again with status 200.  Or the
\* request fails on its way to the API or back: the user is told so.
PutFails(p) ==
  /\ p \in puts
  /\ Move
  /\ puts' = puts \ {p}
  /\ \E ok \in BOOLEAN :
       told' = [request |-> p.request, accepted |-> ok, done |-> FALSE, now |-> "failed"]
  /\ UNCHANGED <<pageVars, status, jobPageVars, dialog>>

JobPagesNext ==
  \/ \E j \in Jobs : PlatformMoves(j) \/ OpenJob(j)
  \/ \E p \in Tables : OpenTable(p)
  \/ PollJobs
  \/ \E i \in DOMAIN asking : ServeJobs(i)
  \/ \E i \in DOMAIN replies : LoseJobs(i) \/ TableArrives(i) \/ JobArrives(i)
  \/ \E op \in Op : Click(op)
  \/ AnswerNo \/ AnswerYes
  \/ \E p \in puts : PutCheck(p) \/ PutRefused(p) \/ PutWrite(p) \/ PutFails(p)
=============================================================================
