--------------------------- MODULE EndpointPanel ----------------------------
(***************************************************************************)
(* The endpoints of a job on its page (JobV2/Endpoints.tsx).  The panel    *)
(* polls until every endpoint it knows is running, asks for new endpoints, *)
(* and is shown a job status by the page around it, which polls by itself. *)
(* What the endpoint manager does is an abstract move.                     *)
(***************************************************************************)
EXTENDS JobPages

CONSTANTS
  Switches,  \* the endpoints with a switch: ssh, ipython, vscode, tensorboard
  PortNames  \* the endpoints asked for by their port number

Names == Switches \cup PortNames
ASSUME NamesAssumption == IsFiniteSet(Names)

VARIABLES
  eps,    \* [Names -> ...]  jobs.endpoints of the job whose page is open
  list,   \* endpoints of Endpoints.tsx, as a function of the name
  posts   \* the requests for endpoints under way

panelVars == <<eps, list, posts>>

EpStatus == {"absent", "pending", "running", "stopped"}
NoEndpoints == [n \in Names |-> "absent"]
ASSUME NoListAssumption == Nothing \notin [Names -> EpStatus]

\* The manager starts endpoints of a running job and stops those of others; a
\* new submission resets them.
EndpointNext(e) ==
  LET s == status[opened] IN
  CASE e = "pending" /\ s = "running"                       -> {"running"}
    [] e \in {"running", "stopped"} /\ s = "queued"         -> {"pending"}
    [] e \in {"pending", "running"} /\ s \in Terminal \cup {"paused"} -> {"stopped"}
    [] OTHER                                                -> {}

EndpointMoves(n) ==
  /\ page = "endpoints"
  /\ Move
  /\ \E e \in EndpointNext(eps[n]) : eps' = [eps EXCEPT ![n] = e]
  /\ UNCHANGED <<pageVars, status, jobPageVars, actionVars, list, posts>>

-----------------------------------------------------------------------------
(* Polling.                                                                *)

Unfinished(l) == \E n \in Names : l[n] \in {"pending", "stopped"}

\* (Mutant: only an endpoint that is pending is waited for.)
DecidesToPollPending(newShown, l, otherwise) ==
  IF newShown = "running" THEN \E n \in Names : l[n] = "pending" ELSE otherwise

\* EndpointsList is there while the page shows a running job; when it appears,
\* and whenever it has new endpoints, it decides whether to poll on.
DecidesToPoll(newShown, l, otherwise) ==
  IF newShown = "running" THEN Unfinished(l) ELSE otherwise

\* The tab is opened: endpoints with a switch may be there already.  (Bound: with
\* no request about the job under way, and no port asked for before.)
OpenEndpoints ==
  /\ page = "job"
  /\ dialog = Nothing /\ puts = {}
  /\ shown \in RowStatus
  /\ LET started == IF status[opened] = "running" THEN "running" ELSE "stopped" IN
     \E e \in [Switches -> {"absent", "pending", started}] :
       eps' = [n \in Names |-> IF n \in Switches THEN e[n] ELSE "absent"]
  /\ list' = NoEndpoints
  /\ posts' = {}
  /\ Mount("endpoints", [list |-> NoEndpoints, status |-> shown],
           DecidesToPoll(shown, NoEndpoints, TRUE))
  /\ told' = Nothing
  /\ UNCHANGED <<moves, status, jobPageVars, dialog, puts>>

\* The page around it follows the status until its own polling stops.
ShownFollows ==
  /\ page = "endpoints"
  /\ shown \notin StopsPolling
  /\ shown # status[opened]
  /\ shown' = status[opened]
  /\ polling' = DecidesToPoll(shown', list, polling)
  /\ restful' = IF polling /\ ~polling' /\ UnderWay = 0 THEN list ELSE restful
  /\ UNCHANGED <<page, asking, replies, moves, missed, status, rows, opened, actionVars,
                 panelVars>>

PollEndpoints ==
  /\ page = "endpoints"
  /\ Poll([list |-> list, status |-> shown])
  /\ UNCHANGED <<status, jobPageVars, actionVars, panelVars>>

\* GetEndpoints answers with an empty list when its SELECT fails.
ServeEndpoints(i) ==
  /\ page = "endpoints"
  /\ \/ /\ Serve(i, eps, ~Unfinished(eps) \/ asking[i].status \in StopsPolling, FALSE)
        /\ UNCHANGED moves
     \/ Move /\ Serve(i, NoEndpoints, FALSE, TRUE)
  /\ UNCHANGED <<status, jobPageVars, actionVars, panelVars>>

LoseEndpoints(i) ==
  /\ page = "endpoints"
  /\ Lose(i)
  /\ missed' = (missed \/ ~polling)
  /\ UNCHANGED <<status, jobPageVars, actionVars, panelVars>>

Known(l) == {n \in Names : l[n] # "absent"}

\* (Mutant: only the number of endpoints is compared.)
NewEndpointsCounted(l, data) == Cardinality(Known(l)) # Cardinality(Known(data))

\* The number of endpoints, or the status of one of them, has changed.
NewEndpoints(l, data) ==
  \/ Cardinality(Known(l)) # Cardinality(Known(data))
  \/ \E n \in Known(l) \cap Known(data) : l[n] # data[n]

EndpointsArrive(i) ==
  LET r == replies[i]
      goesOn == polling /\ r.asked.status \notin StopsPolling
  IN
  /\ page = "endpoints"
  /\ Arrive(i)
  /\ IF NewEndpoints(r.asked.list, r.data)
       THEN list' = r.data /\ polling' = DecidesToPoll(shown, r.data, goesOn)
       ELSE polling' = goesOn /\ UNCHANGED list
  /\ UNCHANGED <<status, jobPageVars, actionVars, eps, posts>>

-----------------------------------------------------------------------------
(* Requests for endpoints.                                                 *)

Disabled == shown \in {"error", "killed", "failed", "finished", "killing"}

\* A switch can be turned on if the panel does not know its endpoint; a port can
\* be asked for unless it is known to be running.  (Bound: one request at a time.)
Ask(n) ==
  /\ page = "endpoints"
  /\ Move
  /\ posts = {} /\ puts = {}
  /\ ~Disabled
  /\ IF n \in Switches THEN list[n] = "absent" ELSE list[n] # "running"
  /\ posts' = posts \cup {[name |-> n, written |-> FALSE]}
  /\ UNCHANGED <<pageVars, status, jobPageVars, actionVars, eps, list>>

\* UpdateEndpoints adds the endpoint unless it exists.
PostWrite(p) ==
  /\ p \in posts /\ ~p.written
  /\ page = "endpoints"
  /\ eps' = IF eps[p.name] = "absent" THEN [eps EXCEPT ![p.name] = "pending"] ELSE eps
  /\ posts' = (posts \ {p}) \cup {[p EXCEPT !.written = TRUE]}
  /\ UNCHANGED <<moves, pageVars, status, jobPageVars, actionVars, list>>

\* (Mutant: the panel does not look for the port it has asked for.)
LooksAgainNever(n) == FALSE

\* After a port was asked for the panel polls again, after a switch it does not.
LooksAgain(n) == n \in PortNames

PostAnswered(p) ==
  /\ p \in posts /\ p.written
  /\ page = "endpoints"
  /\ posts' = posts \ {p}
  /\ polling' = (polling \/ LooksAgain(p.name))
  /\ IF p.name \in PortNames
       THEN /\ restful' = Nothing
            /\ missed' = \/ missed \/ replies # <<>>
                         \/ \E i \in DOMAIN asking : asking[i].list # list
       ELSE UNCHANGED <<restful, missed>>
  /\ UNCHANGED <<moves, page, asking, replies, status, jobPageVars, actionVars, eps, list>>

\* The request fails, before or after it was carried out: the user is told so.
PostFails(p) ==
  /\ p \in posts
  /\ page = "endpoints"
  /\ Move
  /\ posts' = posts \ {p}
  /\ UNCHANGED <<pageVars, status, jobPageVars, actionVars, eps, list>>

EndpointPanelNext ==
  \/ \E n \in Names : EndpointMoves(n) \/ Ask(n)
  \/ OpenEndpoints \/ ShownFollows \/ PollEndpoints
  \/ \E i \in DOMAIN asking : ServeEndpoints(i)
  \/ \E i \in DOMAIN replies : LoseEndpoints(i) \/ EndpointsArrive(i)
  \/ \E p \in posts : PostWrite(p) \/ PostAnswered(p) \/ PostFails(p)
=============================================================================
