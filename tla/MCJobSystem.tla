----------------------------- MODULE MCJobSystem ----------------------------
(* Small instances of JobSystem for TLC. *)
EXTENDS JobSystem, TLC

CONSTANTS j1, j2, v1, v2

OneVC == [j \in Jobs |-> v1]
OwnFamily == [j \in Jobs |-> {j}]

\* Nothing is claimed of a job once it is disturbed: such states are not continued.
AllQuiet == disturbed = {}

\* Bound: at most two pieces of work under way together, counting managers
\* with rows in hand, launcher tasks, requests and changes of VCs.
Busy == {m \in Managers : batch[m] # NoBatch \/ step[m] # "loop"}
Changing == IF vcAdmin.pc \in {"idle", "dialog"} THEN 0 ELSE 1
TwoUnderWay ==
  Cardinality(Busy) + Cardinality(tasks) + Cardinality(rest) + Changing <= 2

\* Bound: a VC without jobs is there only because the last one cannot be deleted.
OthersStay == vcAdmin = NoAdmin \/ vcAdmin.vc = v1

\* j2 belongs to the family of j1.
ParentFirst == [j \in Jobs |-> IF j = j1 THEN Jobs ELSE {j}]

\* Bound: the child is there for the kill of its parent.  With it the parent is not
\* approved yet, nothing else is requested, and one piece of work is under way.
OneUnderWay == Cardinality(Busy) + Cardinality(tasks) <= 1
ChildBound ==
  status[j2] # "unborn" =>
    /\ status[j1] \in {"unborn", "unapproved"} /\ pods[j1] = "NotFound"
    /\ OneUnderWay
    /\ rest \subseteq {[op |-> "kill", job |-> j1]} /\ deleted = {}
    /\ vcAdmin = NoAdmin /\ vcs = VCs

StopBound == TwoUnderWay /\ OthersStay /\ ChildBound

\* States that differ only in their history are one: no action reads `disturbed`,
\* and nothing that is checked under this view speaks of it.
ButHistory ==
  <<status, deleted, retries, vcs, pods, tasks, batch, seenVcs, step, cur, unusual,
    gen, rest, vcAdmin, crashes>>

\* Bound: one job with a crash and refused admissions, or two without a crash of
\* which none is retried, with two pieces of work under way together.
Born == {j \in Jobs : status[j] # "unborn"}
GoesAgain(j) ==
  status[j] \notin Terminal /\ (retries[j] > 0 \/ \E m \in Managers : j \in unusual[m])
QuietBound ==
  /\ AllQuiet
  /\ Cardinality(Born) > 1 => crashes = 0 /\ TwoUnderWay /\ \A j \in Born : ~GoesAgain(j)
=============================================================================
