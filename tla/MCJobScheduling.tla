--------------------------- MODULE MCJobScheduling --------------------------
(* Small instances of JobScheduling for TLC. *)
EXTENDS JobScheduling

Request(v, size, user, preempt, priority) ==
  [vc |-> v, type |-> "gpu", size |-> size, user |-> user, preempt |-> preempt,
   priority |-> priority]

\* A preemptible job, a larger one that needs its device, and one of the same user
\* that goes first.
MakingRoom ==
  <<Request(1, 1, "bob", TRUE, 100), Request(1, 2, "ann", FALSE, 100),
    Request(1, 1, "ann", FALSE, 200)>>

\* Two jobs that run side by side, of which one may end while a round divides what
\* is left, and one that is too large for its VC.
SideBySide ==
  <<Request(1, 1, "bob", FALSE, 100), Request(1, 1, "ann", FALSE, 100),
    Request(2, 2, "ann", FALSE, 100)>>

TwoWorkloads == {MakingRoom, SideBySide}

Divide(q) == [v \in VCs |-> [t \in Types |-> q[v]]]
TwoQuotas == {Divide(<<2, 1>>), Divide(<<1, 1>>)}
UserLimit == [v \in VCs |-> [t \in Types |-> 2]]

TwoNodes == [n \in {"n1", "n2"} |-> [type |-> "gpu", capacity |-> IF n = "n1" THEN 2 ELSE 1]]
=============================================================================
