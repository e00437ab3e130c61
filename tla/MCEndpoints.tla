----------------------------- MODULE MCEndpoints ----------------------------
(* Small instances of Endpoints for TLC. *)
EXTENDS Endpoints

\* Nothing is claimed of a disturbed job: such states are not continued, nor are
\* those in which an actor is left with nothing but to write an outdated entry.
Quiet ==
  /\ disturbed = {}
  /\ \A a \in Actors : pc[a] \in {"update", "write"} => ~Stale(a, item[a])
=============================================================================
