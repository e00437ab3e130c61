---------------------------- MODULE EndpointLife ----------------------------
(***************************************************************************)
(* The life the platform promises an interactive endpoint, in terms of the *)
(* status a user sees in the list, of the service through which the        *)
(* endpoint is reached, and of the job it belongs to.  An endpoint of a    *)
(* job whose document was overwritten, or lost, is "other", and nothing    *)
(* more is said of it.  Endpoints implements this specification.           *)
(***************************************************************************)
CONSTANTS Jobs, Names

VARIABLES
  stage,     \* [Jobs -> [Names -> status, or "other"]]
  open,      \* SUBSET (Jobs \X Names): the endpoints that have a service
  active,    \* SUBSET Jobs: being scheduled, or running, and not being taken down
  pods       \* SUBSET Jobs: whose pods answer

vars == <<stage, open, active, pods>>

Init ==
  /\ stage = [j \in Jobs |-> [n \in Names |-> "none"]]
  /\ open = {} /\ active = {} /\ pods = {}

Becomes(j, n, from, to) == stage[j][n] \in from /\ stage'[j][n] = to
SameService(j, n) == <<j, n>> \in open' <=> <<j, n>> \in open

Asked(j, n) == Becomes(j, n, {"none"}, "pending") /\ SameService(j, n)

\* Of an active job only an endpoint that can be reached is shown as running.
ComesUp(j, n) ==
  /\ Becomes(j, n, {"pending"}, "running")
  /\ j \in active => <<j, n>> \in open
  /\ SameService(j, n)

\* An endpoint is not taken from a job that is active.
Ends(j, n) ==
  /\ \/ Becomes(j, n, {"running"}, "stopped") /\ <<j, n>> \notin open
     \/ Becomes(j, n, {"running"}, "unknown")
  /\ j \notin active
  /\ SameService(j, n)

\* It goes back to the beginning only with the pods it ran in.
IsReset(j, n) ==
  /\ Becomes(j, n, {"running", "stopped", "unknown"}, "pending")
  /\ j \notin pods
  /\ SameService(j, n)

Opens(j, n) ==
  /\ Becomes(j, n, {"pending"}, "pending")
  /\ <<j, n>> \notin open /\ <<j, n>> \in open'

\* A service is not taken from a job that stays active.
Closes(j, n) ==
  /\ stage'[j][n] = stage[j][n]
  /\ j \notin active'
  /\ <<j, n>> \in open /\ <<j, n>> \notin open'

Stays(j, n) == stage'[j][n] = stage[j][n] /\ SameService(j, n)

Leaves(j, n) == stage'[j][n] = "other" /\ <<j, n>> \notin open'

Lives(j, n) ==
  \/ Asked(j, n) \/ ComesUp(j, n) \/ Ends(j, n) \/ IsReset(j, n)
  \/ Opens(j, n) \/ Closes(j, n) \/ Stays(j, n) \/ Leaves(j, n)

\* No endpoint of an earlier submission is shown as running, stopped or unknown
\* when the job is active again, or has pods again.
Begins(j) ==
  (j \in active' \ active) \/ (j \in pods' \ pods)
    => \A n \in Names : stage'[j][n] \in {"none", "pending", "other"}

\* Jobs and endpoints live independently of each other.
Next == \A j \in Jobs : Begins(j) /\ \A n \in Names : Lives(j, n)

Spec == Init /\ [][Next]_vars
=============================================================================
