----------------------------- MODULE JobRestAPI -----------------------------
(***************************************************************************)
(* The REST operations that change job rows (JobRestAPIUtils.py).  Each    *)
(* reads the row, checks its status, and then updates the row without any  *)
(* condition on that status: two steps, with every other process between.  *)
(* An operation that fails at its check or loses its write changes nothing *)
(* and is an operation that was not issued.                                *)
(***************************************************************************)
EXTENDS JobTable

\* SubmitJob inserts the row; jobStatus defaults to "unapproved".  The VC
\* need not exist.
SubmitJob(j) ==
  /\ status[j] = "unborn"
  /\ status' = [status EXCEPT ![j] = "unapproved"]
  /\ UNCHANGED <<deleted, retries, vcs, pods, tasks, mgrVars, restVars, crashes,
                 disturbed>>

RestCheck(r) ==
  /\ r.op \in RestOps
  /\ Cardinality(rest) < MaxRequests
  /\ r \notin rest
  /\ status[r.job] \in Accepts(r.op)
  /\ rest' = rest \cup {r}
  /\ UNCHANGED <<dbVars, pods, tasks, mgrVars, vcAdmin, crashes, disturbed>>

\* The rows the request updates: a parent's kill goes to the whole family.
Target(r) == IF r.op = "kill" THEN Family[r.job] ELSE {r.job}

RestWrite(r) ==
  /\ r \in rest
  /\ rest' = rest \ {r}
  /\ IF r.op = "delete"
       THEN /\ deleted' = IF HasRow(r.job) THEN deleted \cup {r.job} ELSE deleted
            /\ UNCHANGED status
       ELSE /\ status' = Put(Target(r), NewStatus(r.op))
            /\ UNCHANGED deleted
  /\ Disturb(Target(r))
  /\ UNCHANGED <<retries, vcs, pods, tasks, mgrVars, vcAdmin, crashes>>

-----------------------------------------------------------------------------
(***************************************************************************)
(* DeleteVC, and the page of VCs (Vc/index.js) before it: list the jobs    *)
(* that hold resources, mark them "killing", hard-delete every other row   *)
(* of the VC, then drop the VC.  DeleteVC itself refuses no active jobs.   *)
(***************************************************************************)
InVC(v) == {j \in Jobs : JobVC[j] = v}

\* The page of VCs asks CountJobByStatus first, and opens its dialog if no job of
\* the VC is active; the dialog may stay open, or be closed.
AskDeleteVC(v) ==
  /\ "deletevc" \in RestOps
  /\ vcAdmin.pc = "idle"
  /\ v \in vcs
  /\ \A j \in InVC(v) : status[j] \notin {"running", "scheduling", "killing", "pausing"}
  /\ vcAdmin' = [pc |-> "dialog", vc |-> v, listed |-> {}]
  /\ UNCHANGED <<dbVars, pods, tasks, mgrVars, rest, crashes, disturbed>>

CloseDialog ==
  /\ vcAdmin.pc = "dialog"
  /\ vcAdmin' = NoAdmin
  /\ UNCHANGED <<dbVars, pods, tasks, mgrVars, rest, crashes, disturbed>>

DeleteVCBegin(v) ==
  /\ vcAdmin.pc = "dialog" /\ vcAdmin.vc = v
  /\ Cardinality(vcs) # 1
  /\ vcAdmin' = [pc |-> "mark", vc |-> v,
                 listed |-> {j \in InVC(v) \ deleted :
                               status[j] \in {"running", "scheduling", "pausing"}}]
  /\ UNCHANGED <<dbVars, pods, tasks, mgrVars, rest, crashes, disturbed>>

DeleteVCMark ==
  /\ vcAdmin.pc = "mark"
  /\ status' = Put(vcAdmin.listed, "killing")
  /\ vcAdmin' = [vcAdmin EXCEPT !.pc = "purge", !.listed = {}]
  /\ Disturb(vcAdmin.listed)
  /\ UNCHANGED <<deleted, retries, vcs, pods, tasks, mgrVars, rest, crashes>>

Purged(S) == [j \in Jobs |-> IF j \in S /\ HasRow(j) THEN "purged" ELSE status[j]]

DeleteVCPurge ==
  /\ vcAdmin.pc = "purge"
  /\ status' = Purged({j \in InVC(vcAdmin.vc) : status[j] # "killing"})
  /\ vcAdmin' = [vcAdmin EXCEPT !.pc = "drop"]
  /\ Disturb(InVC(vcAdmin.vc))
  /\ UNCHANGED <<deleted, retries, vcs, pods, tasks, mgrVars, rest, crashes>>

DeleteVCDrop ==
  /\ vcAdmin.pc = "drop"
  /\ vcs' = vcs \ {vcAdmin.vc}
  /\ vcAdmin' = NoAdmin
  /\ Disturb(InVC(vcAdmin.vc))
  /\ UNCHANGED <<status, deleted, retries, pods, tasks, mgrVars, rest, crashes>>

(***************************************************************************)
(* AddVC: refused while any job is "killing"; otherwise it hard-deletes    *)
(* the rows left under that VC name, and then inserts the VC.              *)
(***************************************************************************)
\* (Mutant: jobs being killed are not looked at.)
AddVCUnchecked(v) ==
  /\ "addvc" \in RestOps
  /\ vcAdmin.pc = "idle"
  /\ vcAdmin' = [pc |-> "replace", vc |-> v, listed |-> {}]
  /\ UNCHANGED <<dbVars, pods, tasks, mgrVars, rest, crashes, disturbed>>

AddVCCheck(v) ==
  /\ "addvc" \in RestOps
  /\ vcAdmin.pc = "idle"
  /\ \A j \in Jobs \ deleted : status[j] # "killing"
  /\ vcAdmin' = [pc |-> "replace", vc |-> v, listed |-> {}]
  /\ UNCHANGED <<dbVars, pods, tasks, mgrVars, rest, crashes, disturbed>>

AddVCReplace ==
  /\ vcAdmin.pc = "replace"
  /\ status' = Purged(InVC(vcAdmin.vc))
  /\ vcs' = vcs \cup {vcAdmin.vc}
  /\ vcAdmin' = NoAdmin
  /\ Disturb(InVC(vcAdmin.vc))
  /\ UNCHANGED <<deleted, retries, pods, tasks, mgrVars, rest, crashes>>

RestStep ==
  \/ \E j \in Jobs : SubmitJob(j)
  \/ \E r \in Request : RestCheck(r)
  \/ \E r \in rest : RestWrite(r)
  \/ \E v \in VCs : AskDeleteVC(v) \/ DeleteVCBegin(v) \/ AddVCCheck(v)
  \/ CloseDialog \/ DeleteVCMark \/ DeleteVCPurge \/ DeleteVCDrop \/ AddVCReplace
=============================================================================
