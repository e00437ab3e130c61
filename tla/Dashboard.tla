----------------------------- MODULE Dashboard ------------------------------
(***************************************************************************)
(* One user at the dashboard: a page is open at a time, the platform moves *)
(* on beneath it, and answers are late, lost or out of order.              *)
(***************************************************************************)
EXTENDS EndpointPanel

vars == <<pageVars, moves, status, jobPageVars, actionVars, panelVars>>

Init ==
  /\ status \in Found
  /\ page = "none" /\ polling = FALSE
  /\ asking = <<>> /\ replies = <<>>
  /\ missed = FALSE /\ restful = Nothing
  /\ moves = 0
  /\ rows = Nothing /\ opened = Nothing /\ shown = Nothing
  /\ dialog = Nothing /\ puts = {} /\ told = Nothing
  /\ eps = NoEndpoints /\ list = NoEndpoints /\ posts = {}

Next ==
  \/ JobPagesNext /\ UNCHANGED panelVars
  \/ EndpointPanelNext

Spec == Init /\ [][Next]_vars

(***************************************************************************)
(* Fairness.  Intervals fire, the server reads its database for a request  *)
(* sooner or later, and of the answers on the way one arrives sooner or    *)
(* later; each may still be late, overtaken or lost.  The page around the  *)
(* panel keeps following the status.  Users, platform and network faults   *)
(* are not fair, and bounded by MaxMoves.                                  *)
(***************************************************************************)
Fairness ==
  /\ WF_vars((PollJobs /\ UNCHANGED panelVars) \/ PollEndpoints)
  /\ WF_vars(\E i \in DOMAIN asking :
               (ServeJobs(i) /\ UNCHANGED panelVars) \/ ServeEndpoints(i))
  /\ WF_vars(\E i \in DOMAIN replies :
               \/ (TableArrives(i) \/ JobArrives(i)) /\ UNCHANGED panelVars
               \/ EndpointsArrive(i))
  /\ WF_vars(ShownFollows)

FairSpec == Spec /\ Fairness

-----------------------------------------------------------------------------
\* What the pages compare and show, and what the server answers.
TableRow == [job : Jobs, status : RowStatus]
Table == Seq(TableRow)
AskedOf(p) ==
  CASE p \in Tables     -> [statuses : {Nothing} \cup Seq(RowStatus)]
    [] p = "job"        -> [status : {Nothing, ""} \cup RowStatus]
    [] p = "endpoints"  -> [list : [Names -> EpStatus], status : RowStatus]
    [] OTHER            -> {}
DataOf(p) ==
  CASE p \in Tables     -> Table
    [] p = "job"        -> {""} \cup RowStatus
    [] p = "endpoints"  -> [Names -> EpStatus]
    [] OTHER            -> {}
Request == [job : Jobs, op : Op, seen : RowStatus]

TypeOK ==
  /\ status \in [Jobs -> Status]
  /\ page \in {"none", "job", "endpoints"} \cup Tables
  /\ polling \in BOOLEAN /\ missed \in BOOLEAN
  /\ asking \in Seq(AskedOf(page))
  /\ replies \in Seq([asked : AskedOf(page), data : DataOf(page)])
  /\ restful \in {Nothing} \cup DataOf(page)
  /\ UnderWay <= MaxGets /\ moves \in 0..MaxMoves
  /\ rows \in {Nothing} \cup Table
  /\ opened \in {Nothing} \cup Jobs
  /\ page \in {"job", "endpoints"} => opened \in Jobs /\ status[opened] \in RowStatus
  /\ shown \in {Nothing, ""} \cup RowStatus
  /\ page = "endpoints" => shown \in RowStatus
  /\ dialog \in {Nothing} \cup Request
  /\ puts \subseteq [request : Request, checked : BOOLEAN]
  /\ eps \in [Names -> EpStatus] /\ list \in [Names -> EpStatus]
  /\ posts \subseteq [name : Names, written : BOOLEAN]

(***************************************************************************)
(* The tables of what a row offers (useActions.ts) and of what the REST    *)
(* API accepts (JobRestAPIUtils.py) fit: a request of the owner is refused *)
(* only because the job is not any more as the user saw it when clicking.  *)
(***************************************************************************)
RefusedOnlyIfMoved ==
  told # Nothing /\ ~told.done /\ told.request.job \in Mine
    => told.now # told.request.seen

(***************************************************************************)
(* A table that stays open shows what the server has: "my jobs" the right  *)
(* jobs with the right statuses, "all jobs", from which jobs disappear, at *)
(* least the right statuses in the right order -- although answers are     *)
(* compared with what the table showed long ago, and arrive in any order.  *)
(***************************************************************************)
TableSettles ==
  /\ <>[](page = "my") => <>[](rows = Listed("my"))
  /\ <>[](page = "all") => <>[](rows # Nothing /\ Statuses(rows) = Statuses(Listed("all")))

(***************************************************************************)
(* The page of a job stops polling only when it shows what it stopped for: *)
(* the first answer after which nothing is to come.  So an answer that was *)
(* overtaken, or compared with what the page showed long ago, cannot leave *)
(* it resting on an older status, unless answers arrived out of order, or  *)
(* the job moved on from there.                                            *)
(***************************************************************************)
JobPageRests == page = "job" /\ ~polling /\ ~missed => shown = restful

(***************************************************************************)
(* On the page of a running job the panel that has stopped polling, with   *)
(* nothing under way, shows the answer after which it had nothing to wait  *)
(* for -- although it compares each answer with the list it had when it    *)
(* asked, and only counts the endpoints that are new.                      *)
(***************************************************************************)
PanelRests ==
  page = "endpoints" /\ shown = "running" /\ ~polling /\ UnderWay = 0 /\ ~missed
    => list = restful

(***************************************************************************)
(* The page of a job ends up showing its status -- although it stops       *)
(* polling -- unless the job moved on after the server had answered that   *)
(* it ended or was being killed ("killing" becomes "killed"), or answers   *)
(* arrived out of order.                                                   *)
(***************************************************************************)
JobPageSettles ==
  <>[](page = "job") =>
    <>[](page = "job" => \/ shown = status[opened]
                         \/ missed
                         \/ restful # Nothing /\ status[opened] # restful)

(***************************************************************************)
(* On the page of a running job the panel ends up showing its endpoints,   *)
(* and a port that was asked for comes up on it, unless something changed  *)
(* after the server had answered with nothing left to wait for, or an      *)
(* answer was missed.                                                      *)
(***************************************************************************)
EndpointsSettle ==
  <>[](page = "endpoints") =>
    <>[](page = "endpoints" /\ shown = "running" =>
           list = eps \/ missed \/ (restful # Nothing /\ eps # restful))

\* What the user is told ("'s kill request is accepted.",
\* src/locale/en-US/hooks/hooks.ts): an accepted request has been carried out.
AcceptedIsCarriedOut == told # Nothing /\ told.accepted => told.done
=============================================================================
