----------------------------- MODULE JobStatus ------------------------------
(***************************************************************************)
(* The statuses of a job and what the REST API does with them: shared by   *)
(* the job path and by the dashboard, which has tables of its own of what  *)
(* the API accepts.                                                        *)
(***************************************************************************)

\* A row that is not in the table is "unborn" (not submitted yet) or "purged"
\* (hard-deleted with its VC).  "Killed", with a capital, is what ApproveJob
\* writes for a job of a VC that does not exist.
NoRow == {"unborn", "purged"}
Terminal == {"finished", "failed", "error", "killed", "Killed"}
RowStatus == Terminal \cup
  {"unapproved", "queued", "scheduling", "running", "pausing", "paused", "killing"}
Status == RowStatus \cup NoRow

\* pendingStatus of JobRestAPIUtils.
Pending == {"running", "queued", "scheduling", "unapproved", "pausing", "paused"}

\* The statuses each operation accepts; pendingStatus for KillJob and
\* CanDeleteJobStatus for DeleteJob are compared in lower case.
Accepts(op) ==
  CASE op = "kill"    -> Pending
    [] op = "pause"   -> {"unapproved", "queued", "scheduling", "running"}
    [] op = "resume"  -> {"paused"}
    [] op = "approve" -> {"unapproved"}
    [] op = "delete"  -> {"failed", "error", "unapproved", "finished",
                          "killing", "killed", "Killed", "paused"}

NewStatus(op) ==
  CASE op = "kill"    -> "killing"
    [] op = "pause"   -> "pausing"
    [] op = "resume"  -> "unapproved"
    [] op = "approve" -> "queued"
=============================================================================
