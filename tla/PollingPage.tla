---------------------------- MODULE PollingPage -----------------------------
(***************************************************************************)
(* What the pages of the dashboard have in common (useInterval.ts and the  *)
(* getData/getJob of each page): a page asks the server when it is opened  *)
(* and then at an interval, whether or not earlier requests are answered.  *)
(* The callback of a request has captured what the page showed when it was *)
(* sent, and compares the answer with that.                                *)
(***************************************************************************)
EXTENDS Naturals, Sequences, SequencesExt

CONSTANTS
  MaxGets,   \* bound: requests of a page under way
  MaxMoves,  \* bound: moves of the users, the platform and the network
  Nothing    \* what a page shows before its first answer; no answer

ASSUME BoundAssumption == MaxGets \in Nat \ {0} /\ MaxMoves \in Nat

VARIABLES
  page,       \* the page that is open
  polling,    \* is its interval running?
  asking,     \* Seq: what the page showed when it sent each request not yet read
  replies,    \* Seq of [asked, data], in the order in which the data were read
  moves,      \* Nat (bounded)
  missed,     \* history: an answer was wrong, out of order, lost for good, or
              \* contradicts the one in restful
  restful     \* history: the first answer after which there is nothing to wait for

pageVars == <<page, polling, asking, replies, missed, restful>>

UnderWay == Len(asking) + Len(replies)

Move == moves < MaxMoves /\ moves' = moves + 1

\* The user turns to another page; the first one is not counted.
Turn == IF page = "none" THEN UNCHANGED moves ELSE Move

\* Mounting a page starts its interval and asks at once; answers to a page that
\* is not mounted any more go nowhere.
Mount(p, showing, polls) ==
  /\ page' = p
  /\ polling' = polls
  /\ asking' = <<showing>>
  /\ replies' = <<>>
  /\ missed' = FALSE
  /\ restful' = Nothing

Poll(showing) ==
  /\ polling
  /\ UnderWay < MaxGets
  /\ asking' = Append(asking, showing)
  /\ UNCHANGED <<page, polling, replies, moves, missed, restful>>

\* The server reads its database for the i-th request.
Serve(i, data, isRestful, wrong) ==
  /\ asking' = RemoveAt(asking, i)
  /\ replies' = Append(replies, [asked |-> asking[i], data |-> data])
  /\ restful' = IF restful = Nothing /\ isRestful THEN data ELSE restful
  /\ missed' = (missed \/ wrong \/ (restful # Nothing /\ data # restful))
  /\ UNCHANGED <<page, polling>>

\* The answer, or the request, is lost: only a message is shown.
Lose(i) ==
  /\ Move
  /\ replies' = RemoveAt(replies, i)
  /\ UNCHANGED <<page, polling, asking, restful>>

\* The i-th answer arrives.
Arrive(i) ==
  /\ replies' = RemoveAt(replies, i)
  /\ missed' = (missed \/ i > 1)
  /\ UNCHANGED <<page, asking, moves, restful>>
=============================================================================
