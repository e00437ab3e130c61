------------------------------- MODULE VCQuota ------------------------------
(***************************************************************************)
(* calculate_vc_gpu_counts (utils/quota.py): how the devices of a cluster  *)
(* are divided among its virtual clusters.  One device type t at a time,   *)
(* except where the code looks at all of them.                             *)
(*                                                                         *)
(* A calculation c is a record                                             *)
(*   quota, used          : [VCs -> [Types -> Nat]]                        *)
(*   total, reserved, free : [Types -> Int]   as node_manager reported them *)
(* VCs are numbers: their order is the alphabetical order of their names.  *)
(***************************************************************************)
EXTENDS Integers, FiniteSetsExt

CONSTANTS VCs, Types

ASSUME VCsAssumption == VCs \subseteq Nat /\ IsFiniteSet(VCs) /\ VCs # {}

AtLeast0(x) == IF x < 0 THEN 0 ELSE x
Least(x, y) == IF x < y THEN x ELSE y

\* The sum of count(x) >= 0 over a set: the number of the things counted.
Total(count(_), S) == Cardinality(UNION {{x} \X (1..count(x)) : x \in S})

SumOver(f, t) == Total(LAMBDA v : f[v][t], VCs)

\* The devices that were promised and are not there.
Missing(c, t) == AtLeast0(SumOver(c.quota, t) - (c.total[t] - c.reserved[t]))

\* Each VC misses its share of them: the whole part of it, and the fraction that
\* remains (in units of 1 / the sum of the quotas).
ShareOf(missing, q, sum) ==
  IF sum = 0
    THEN [whole |-> 0, fraction |-> 0]
    ELSE [whole |-> (missing * q) \div sum, fraction |-> (missing * q) % sum]

Shares(c) ==
  [v \in VCs |-> [t \in Types |->
     ShareOf(Missing(c, t), c.quota[v][t], SumOver(c.quota, t))]]

\* caculate_unschedulable: "all([all(fractions) == 0 for each type])" is true
\* when every type has some VC without a fraction.
NoFractions(share) == \A t \in Types : \E v \in VCs : share[v][t].fraction = 0

\* Otherwise each type withholds one more device from one VC: the first of
\* those with the largest fraction.
Leading(share, t) ==
  LET Largest == {v \in VCs : \A w \in VCs : share[w][t].fraction <= share[v][t].fraction}
  IN Min(Largest)

\* ratio_unschedulable
Withheld(share) ==
  [v \in VCs |-> [t \in Types |->
     share[v][t].whole + IF ~NoFractions(share) /\ v = Leading(share, t) THEN 1 ELSE 0]]

\* ratio: what each VC may still claim.
Claims(c, withheld) ==
  [v \in VCs |-> [t \in Types |-> AtLeast0(c.quota[v][t] - withheld[v][t] - c.used[v][t])]]

\* (Mutant: a VC may take all that it claims, free or not.)
AvailableWhole(c, claims) == claims

\* vc_available: the free devices in proportion to the claims.
Available(c, claims) ==
  [v \in VCs |-> [t \in Types |->
     LET sum == SumOver(claims, t)
     IN IF sum = 0 THEN 0 ELSE (Least(c.free[t], sum) * claims[v][t]) \div sum]]

\* (Mutant: the devices in use are forgotten.)
NotUnschedulableUnused(c, available) ==
  [v \in VCs |-> [t \in Types |-> c.quota[v][t] - AtLeast0(c.quota[v][t] - available[v][t])]]

\* (Mutant: what is missing may be less than nothing.)
NotUnschedulableBeyond(c, available) ==
  [v \in VCs |-> [t \in Types |-> c.used[v][t] + available[v][t]]]

\* vc_total - vc_unschedulable.
NotUnschedulable(c, available) ==
  [v \in VCs |-> [t \in Types |->
     c.quota[v][t] - AtLeast0(c.quota[v][t] - c.used[v][t] - available[v][t])]]

\* calculate_vc_gpu_counts: what TakeJobActions may give to the jobs of each VC.
Schedulable(c) ==
  NotUnschedulable(c, Available(c, Claims(c, Withheld(Shares(c)))))
=============================================================================
