-------------------------- MODULE SchedulingProofs ---------------------------
(***************************************************************************)
(* Theorems about JobScheduling, for any virtual clusters, kinds of        *)
(* devices, workloads, users, quotas and nodes, and any number of rare     *)
(* events.                                                                 *)
(***************************************************************************)
EXTENDS SchedulingLemmas

-----------------------------------------------------------------------------
(***************************************************************************)
(* What a VC is left, between what it uses and its quota.                  *)
(***************************************************************************)
LEMMA DivType == \A a \in Nat, b \in Nat : b # 0 => (a \div b) \in Nat
  OBVIOUS

LEMMA TimesType == \A a \in Nat, b \in Nat : a * b \in Nat
  OBVIOUS

LEMMA SumOverIs ==
  ASSUME NEW f, NEW t
  PROVE  SumOver(f, t) = Cardinality(Cells([v \in VCs |-> f[v][t]], VCs))
<1> DEFINE w == [v \in VCs |-> f[v][t]]
<1>1. {{v} \X (1..w[v]) : v \in VCs} = {{v} \X (1..f[v][t]) : v \in VCs}
  OBVIOUS
<1> HIDE DEF w
<1>2. SumOver(f, t) = Cardinality(Cells(w, VCs))
  BY <1>1, Zenon DEF SumOver, Total, Cells
<1> QED
  BY <1>2 DEF w

LEMMA SumOverType ==
  ASSUME NEW f, NEW t, \A v \in VCs : f[v][t] \in Int
  PROVE  SumOver(f, t) \in Nat
<1> DEFINE w == [v \in VCs |-> f[v][t]]
<1>1. \A v \in VCs : w[v] \in Int
  OBVIOUS
<1>2. SumOver(f, t) = Cardinality(Cells(w, VCs))
  BY SumOverIs
<1> HIDE DEF w
<1> QED
  BY <1>1, <1>2, CellsFinite, VCsAssumption

\* A calculation whose parts are of the types that the REST API and node_manager write.
Calculable(c) ==
  /\ \A v \in VCs, t \in Types : c.quota[v][t] \in Nat /\ c.used[v][t] \in Nat
  /\ \A t \in Types : c.total[t] \in Int /\ c.reserved[t] \in Int /\ c.free[t] \in Nat

LEMMA WithheldType ==
  ASSUME NEW c, Calculable(c), NEW v \in VCs, NEW t \in Types
  PROVE  Withheld(Shares(c))[v][t] \in Nat
<1> DEFINE share == Shares(c)
           missing == Missing(c, t)
           q == c.quota[v][t]
           sum == SumOver(c.quota, t)
<1>1. q \in Nat /\ sum \in Nat
  BY SumOverType DEF Calculable
<1>2. missing \in Nat
  <2> HIDE DEF q
  <2>1. c.total[t] \in Int /\ c.reserved[t] \in Int
    BY DEF Calculable
  <2> QED
    BY <1>1, <2>1 DEF Missing, AtLeast0
<1>3. share[v][t] = ShareOf(missing, q, sum)
  BY DEF Shares
<1> HIDE DEF missing, q, sum
<1>4. ShareOf(missing, q, sum).whole \in Nat
  <2>1. missing * q \in Nat
    BY <1>1, <1>2, TimesType
  <2> QED
    BY <1>1, <2>1, DivType DEF ShareOf
<1> HIDE DEF share
<1>5. Withheld(share)[v][t]
        = share[v][t].whole + IF ~NoFractions(share) /\ v = Leading(share, t) THEN 1 ELSE 0
  BY DEF Withheld
<1>6. share[v][t].whole \in Nat
  BY <1>3, <1>4
<1>7. Withheld(share)[v][t] \in Nat
  BY <1>5, <1>6
<1> QED
  BY <1>7 DEF share

LEMMA AvailableType ==
  ASSUME NEW c, Calculable(c), NEW v \in VCs, NEW t \in Types
  PROVE  Available(c, Claims(c, Withheld(Shares(c))))[v][t] \in Nat
<1> DEFINE withheld == Withheld(Shares(c))
           claims == Claims(c, withheld)
           sum == SumOver(claims, t)
<1>1. \A u \in VCs : withheld[u][t] \in Nat
  BY WithheldType
<1> HIDE DEF withheld
<1>2. \A u \in VCs : claims[u][t] \in Nat
  BY <1>1 DEF Claims, AtLeast0, Calculable
<1> HIDE DEF claims
<1>3. sum \in Nat
  BY <1>2, SumOverType
<1>4. Available(c, claims)[v][t]
        = IF sum = 0 THEN 0 ELSE (Least(c.free[t], sum) * claims[v][t]) \div sum
  BY DEF Available
<1> HIDE DEF sum
<1>5. Least(c.free[t], sum) \in Nat
  BY <1>3 DEF Least, Calculable
<1>6. Least(c.free[t], sum) * claims[v][t] \in Nat
  BY <1>2, <1>5, TimesType
<1>7. Available(c, claims)[v][t] \in Nat
  BY <1>3, <1>4, <1>6, DivType
<1> QED
  BY <1>7 DEF claims, withheld

LEMMA SchedulableBounds ==
  ASSUME NEW c, Calculable(c), NEW v \in VCs, NEW t \in Types
  PROVE  /\ Schedulable(c)[v][t] \in Int
         /\ Schedulable(c)[v][t] <= c.quota[v][t]
         /\ c.used[v][t] <= c.quota[v][t] => c.used[v][t] <= Schedulable(c)[v][t]
<1> DEFINE available == Available(c, Claims(c, Withheld(Shares(c))))
<1>1. available[v][t] \in Nat
  BY AvailableType
<1>2. Schedulable(c) = NotUnschedulable(c, available)
  BY DEF Schedulable
<1> HIDE DEF available
<1>3. Schedulable(c)[v][t]
        = c.quota[v][t] - AtLeast0(c.quota[v][t] - c.used[v][t] - available[v][t])
  BY <1>2 DEF NotUnschedulable
<1>4. c.quota[v][t] \in Nat /\ c.used[v][t] \in Nat
  BY DEF Calculable
<1> QED
  BY <1>1, <1>3, <1>4 DEF AtLeast0

-----------------------------------------------------------------------------
(***************************************************************************)
(* Types.                                                                  *)
(***************************************************************************)
LEMMA TypeInit == Init => TypeOK
  BY DEF Init, TypeOK, NoBatch

LEMMA TypeNext == TypeOK /\ [Next]_vars => TypeOK'
<1> SUFFICES ASSUME TypeOK, [Next]_vars PROVE TypeOK'
  OBVIOUS
<1> USE DEF TypeOK
<1>1. CASE Report
  BY <1>1 DEF Report, Event
<1>2. CASE ReadJobs
  BY <1>2 DEF ReadJobs
<1>3. CASE Decide
  <2>1. PICK active \in {ActiveJobs, {}} :
          /\ \/ UNCHANGED events
             \/ Event
          /\ \E allowed \in {Allowed(active)} :
               /\ tasks' = tasks \cup {Task(j, "submit") : j \in Submitted(allowed)}
                                \cup {Task(j, "kill") : j \in Preempted(allowed)}
               /\ excused' = excused \cup {job[j].vc : j \in PassedOver(allowed)}
    BY <1>3 DEF Decide
  <2> DEFINE allowed == Allowed(active)
  <2>2. allowed \subseteq Jobs
    BY AllowedFit, BatchType DEF Allowed
  <2> HIDE DEF allowed
  <2>3. \A j \in Jobs : /\ Task(j, "submit") \in [job : Jobs, kind : {"submit", "kill"},
                                                  orphan : BOOLEAN]
                        /\ Task(j, "kill") \in [job : Jobs, kind : {"submit", "kill"},
                                                orphan : BOOLEAN]
    BY DEF Task
  <2>4. Submitted(allowed) \subseteq Jobs /\ Preempted(allowed) \subseteq Jobs
          /\ PassedOver(allowed) \subseteq Jobs
    BY <2>2 DEF Submitted, Preempted, PassedOver, ActiveJobs
  <2>5. tasks' \subseteq [job : Jobs, kind : {"submit", "kill"}, orphan : BOOLEAN]
    BY <2>1, <2>3, <2>4 DEF allowed
  <2>6. excused' \subseteq VCs
    <3>1. \A j \in PassedOver(allowed) : job[j].vc \in VCs
      BY <2>4, JobType
    <3> QED
      BY <2>1, <3>1 DEF allowed
  <2>7. events' \in Nat
    BY <2>1 DEF Event
  <2> QED
    BY <1>3, <2>5, <2>6, <2>7 DEF Decide, NoBatch
<1>4. CASE DecideFails
  BY <1>4 DEF DecideFails, NoBatch
<1>5. CASE Restart
  <2>1. \A k \in tasks : job[k.job].vc \in VCs
    BY JobType
  <2>2. \A k \in tasks : [k EXCEPT !.orphan = TRUE]
                           \in [job : Jobs, kind : {"submit", "kill"}, orphan : BOOLEAN]
    OBVIOUS
  <2>3. tasks' \subseteq [job : Jobs, kind : {"submit", "kill"}, orphan : BOOLEAN]
    <3>1. PICK alive \in SUBSET tasks : tasks' = {[k EXCEPT !.orphan = TRUE] : k \in alive}
      BY <1>5 DEF Restart
    <3> QED
      BY <2>2, <3>1
  <2> QED
    BY <1>5, <2>1, <2>3 DEF Restart, Event, envVars, NoBatch
<1>6. ASSUME NEW k \in tasks, Submit(k) PROVE TypeOK'
  BY <1>6 DEF Submit, envVars, Active
<1>7. ASSUME NEW k \in tasks, Preempt(k) PROVE TypeOK'
  BY <1>7 DEF Preempt, envVars
<1>8. ASSUME NEW k \in tasks, TaskFails(k) PROVE TypeOK'
  <2>1. job[k.job].vc \in VCs
    BY JobType
  <2> QED
    BY <1>8, <2>1 DEF TaskFails, Event, envVars
<1>9. ASSUME NEW j \in Jobs, Arrive(j) PROVE TypeOK'
  BY <1>9 DEF Arrive, envVars
<1>10. ASSUME NEW j \in Jobs, End(j) PROVE TypeOK'
  BY <1>10 DEF End, envVars
<1>11. ASSUME NEW j \in Jobs, Release(j) PROVE TypeOK'
  BY <1>11 DEF Release, envVars
<1>12. ASSUME NEW j \in Jobs, NEW n \in DOMAIN Nodes, Start(j, n) PROVE TypeOK'
  BY <1>12 DEF Start, envVars, Active
<1>13. ASSUME NEW q \in Quotas, UpdateVC(q) PROVE TypeOK'
  BY <1>13 DEF UpdateVC, Event, envVars
<1>14. ASSUME NEW n \in DOMAIN Nodes, NodeChange(n) PROVE TypeOK'
  BY <1>14 DEF NodeChange, Event
<1>15. CASE UNCHANGED vars
  BY <1>15 DEF vars
<1> QED
  BY <1>1, <1>2, <1>3, <1>4, <1>5, <1>6, <1>7, <1>8, <1>9, <1>10, <1>11, <1>12, <1>13, <1>14,
     <1>15 DEF Next

\* Every variable stays within its type: in particular the jobs of a round, the launcher
\* tasks and the excused VCs are jobs and VCs of the system.
THEOREM TypeCorrect == Spec => []TypeOK
<1>1. Init => TypeOK
  BY TypeInit
<1>2. TypeOK /\ [Next]_vars => TypeOK'
  BY TypeNext
<1> QED
  BY <1>1, <1>2, PTL DEF Spec

\* Node_manager's report: counts of devices, or none at all.
ReportOK ==
  report # NoReport =>
    \A t \in Types : report.total[t] \in Int /\ report.reserved[t] \in Int /\ report.free[t] \in Nat

LEMMA CountsType ==
  ASSUME TypeOK, NEW t \in Types
  PROVE  Counts.total[t] \in Nat /\ Counts.reserved[t] \in Nat /\ Counts.free[t] \in Nat
<1> DEFINE capacity == [n \in DOMAIN Nodes |-> Nodes[n].capacity]
           free == [n \in DOMAIN Nodes |-> FreeOn(n)]
<1>1. \A n \in DOMAIN Nodes : capacity[n] \in Int
  BY NodesAssumption
<1>2. \A n \in DOMAIN Nodes : free[n] \in Int
  <2> SUFFICES ASSUME NEW n \in DOMAIN Nodes PROVE FreeOn(n) \in Int
    OBVIOUS
  <2>1. UsedOn(n) \in Nat
    BY SizesType DEF UsedOn
  <2> QED
    BY <2>1, NodesAssumption DEF FreeOn
<1>3. \A S \in SUBSET DOMAIN Nodes :
        /\ {{n} \X (1..capacity[n]) : n \in S} = {{n} \X (1..Nodes[n].capacity) : n \in S}
        /\ {{n} \X (1..free[n]) : n \in S} = {{n} \X (1..FreeOn(n)) : n \in S}
  OBVIOUS
<1> HIDE DEF capacity, free
<1>4. \A S \in SUBSET DOMAIN Nodes :
        /\ Total(LAMBDA n : Nodes[n].capacity, S) = Cardinality(Cells(capacity, S))
        /\ Total(FreeOn, S) = Cardinality(Cells(free, S))
  BY <1>3, Zenon DEF Total, Cells
<1>5. \A S \in SUBSET DOMAIN Nodes :
        Cardinality(Cells(capacity, S)) \in Nat /\ Cardinality(Cells(free, S)) \in Nat
  <2> SUFFICES ASSUME NEW S \in SUBSET DOMAIN Nodes
               PROVE  Cardinality(Cells(capacity, S)) \in Nat /\ Cardinality(Cells(free, S)) \in Nat
    OBVIOUS
  <2>1. IsFiniteSet(S) /\ (\A n \in S : capacity[n] \in Int) /\ (\A n \in S : free[n] \in Int)
    BY <1>1, <1>2, NodesAssumption, FS_Subset
  <2> QED
    BY <2>1, CellsFinite
<1>6. NodesOf(t) \in SUBSET DOMAIN Nodes
  BY DEF NodesOf
<1>7. /\ Counts.total[t] = Total(LAMBDA n : Nodes[n].capacity, NodesOf(t))
      /\ Counts.free[t] = Total(FreeOn, NodesOf(t) \cap up)
      /\ Counts.reserved[t] = Total(FreeOn, NodesOf(t) \ up)
  BY DEF Counts
<1> QED
  BY <1>4, <1>5, <1>6, <1>7

LEMMA ReportInit == Init => ReportOK
  BY TypeInit, CountsType DEF Init, ReportOK

LEMMA ReportNext == TypeOK /\ ReportOK /\ [Next]_vars => ReportOK'
<1> SUFFICES ASSUME TypeOK, ReportOK, [Next]_vars PROVE ReportOK'
  OBVIOUS
<1>1. CASE Report
  BY <1>1, CountsType DEF Report, ReportOK
<1>2. CASE UNCHANGED report
  BY <1>2 DEF ReportOK
<1>3. Report \/ UNCHANGED report
  BY DEF Next, vars, ReadJobs, Decide, DecideFails, Restart, Submit, Preempt, TaskFails, Arrive,
         End, Release, Start, UpdateVC, NodeChange
<1> QED
  BY <1>1, <1>2, <1>3

\* What a VC is left in a round that counted these active jobs.
Left(active) == Schedulable(Calculation(active))

LEMMA LeftBounds ==
  ASSUME TypeOK, ReportOK, report # NoReport, NEW active \in SUBSET Jobs,
         NEW v \in VCs, NEW t \in Types
  PROVE  /\ Left(active)[v][t] \in Int
         /\ Left(active)[v][t] <= quota[v][t]
         /\ Sizes(Of(active, v, t)) <= quota[v][t]
              => Sizes(Of(active, v, t)) <= Left(active)[v][t]
<1> DEFINE c == Calculation(active)
<1>1. \A u \in VCs, s \in Types : Of(active, u, s) \subseteq Jobs
  BY DEF Of
<1>2. \A u \in VCs, s \in Types : quota[u][s] \in Nat /\ Sizes(Of(active, u, s)) \in Nat
  BY <1>1, SizesType, QuotasAssumption DEF TypeOK
<1>3. \A u \in VCs, s \in Types :
        c.quota[u][s] = quota[u][s] /\ c.used[u][s] = Sizes(Of(active, u, s))
  BY DEF Calculation
<1>4. c.total = report.total /\ c.reserved = report.reserved /\ c.free = report.free
  BY DEF Calculation
<1> HIDE DEF c
<1>5. Calculable(c)
  BY <1>2, <1>3, <1>4 DEF Calculable, ReportOK
<1>6. /\ Schedulable(c)[v][t] \in Int
      /\ Schedulable(c)[v][t] <= c.quota[v][t]
      /\ c.used[v][t] <= c.quota[v][t] => c.used[v][t] <= Schedulable(c)[v][t]
  BY <1>5, SchedulableBounds
<1>7. Left(active) = Schedulable(c)
  BY DEF Left, c
<1> QED
  BY <1>3, <1>6, <1>7

LEMMA ReportCorrect == Spec => [](TypeOK /\ ReportOK)
<1>1. Init => TypeOK /\ ReportOK
  BY TypeInit, ReportInit
<1>2. TypeOK /\ ReportOK /\ [Next]_vars => (TypeOK /\ ReportOK)'
  BY TypeNext, ReportNext
<1> QED
  BY <1>1, <1>2, PTL DEF Spec

-----------------------------------------------------------------------------
(***************************************************************************)
(* Among equals, the better job is not overtaken.                          *)
(***************************************************************************)
\* A job that needs as much fits with fewer jobs before it.
LEMMA FitsSooner ==
  ASSUME TypeOK, NEW left, NEW A, NEW i \in Batch, NEW j \in Batch,
         SortKey(i) < SortKey(j),
         job[i].vc = job[j].vc, job[i].type = job[j].type, job[i].user = job[j].user,
         job[i].preempt = job[j].preempt, job[i].size <= job[j].size,
         left[job[j].vc][job[j].type] \in Int, Fits(A, left, j)
  PROVE  Fits(A, left, i)
<1> DEFINE v == job[j].vc
           t == job[j].type
           u == job[j].user
           Before == Of(Earlier(i) \cap A, v, t)
           Mine(S) == {x \in S : job[x].user = u}
           with(x) == Of((Earlier(x) \cap A) \cup {x}, v, t)
<1>1. i \in Jobs /\ j \in Jobs /\ Earlier(i) \subseteq Earlier(j) /\ Earlier(j) \subseteq Jobs
  BY SortKeyType, BatchType DEF Earlier
<1>2. i \notin Earlier(i) /\ j \notin Earlier(i)
  BY SortKeyType DEF Earlier
<1>3. with(i) = Before \cup {i} /\ Before \cup {j} \subseteq with(j)
  BY <1>1 DEF Of
<1>4. Mine(with(i)) = Mine(Before) \cup {i} /\ Mine(Before) \cup {j} \subseteq Mine(with(j))
  BY <1>3
<1>5. /\ Before \subseteq Jobs /\ i \notin Before /\ j \notin Before
      /\ Mine(Before) \subseteq Jobs /\ i \notin Mine(Before) /\ j \notin Mine(Before)
      /\ with(j) \subseteq Jobs /\ Mine(with(j)) \subseteq Jobs
  BY <1>1, <1>2 DEF Of
<1>6. Fits(A, left, j) <=> /\ Sizes(with(j)) <= left[v][t]
                           /\ job[j].preempt \/ Sizes(Mine(with(j))) <= UserQuota[v][t]
  BY Zenon DEF Fits
<1>7. Fits(A, left, i) <=> /\ Sizes(with(i)) <= left[v][t]
                           /\ job[i].preempt \/ Sizes(Mine(with(i))) <= UserQuota[v][t]
  BY Zenon DEF Fits
<1>8. job[i].size \in Nat /\ job[j].size \in Nat /\ UserQuota[v][t] \in Nat
  BY <1>1, JobType, UserQuotaAssumption
<1> HIDE DEF v, t, u, Before, Mine, with
<1>9. Sizes(with(i)) <= Sizes(with(j)) /\ Sizes(with(i)) \in Nat /\ Sizes(with(j)) \in Nat
  <2>1. /\ Sizes(Before \cup {i}) = Sizes(Before) + job[i].size
        /\ Sizes(Before \cup {j}) = Sizes(Before) + job[j].size
    BY <1>1, <1>5, SizesWith
  <2>2. Sizes(Before \cup {j}) <= Sizes(with(j))
    BY <1>3, <1>5, SizesGrow
  <2>3. Sizes(Before) \in Nat /\ Sizes(with(j)) \in Nat
    BY <1>5, SizesType
  <2> QED
    BY <1>3, <1>8, <2>1, <2>2, <2>3
<1>10. Sizes(Mine(with(i))) <= Sizes(Mine(with(j)))
         /\ Sizes(Mine(with(i))) \in Nat /\ Sizes(Mine(with(j))) \in Nat
  <2>1. /\ Sizes(Mine(Before) \cup {i}) = Sizes(Mine(Before)) + job[i].size
        /\ Sizes(Mine(Before) \cup {j}) = Sizes(Mine(Before)) + job[j].size
    BY <1>1, <1>5, SizesWith
  <2>2. Sizes(Mine(Before) \cup {j}) <= Sizes(Mine(with(j)))
    BY <1>4, <1>5, SizesGrow
  <2>3. Sizes(Mine(Before)) \in Nat /\ Sizes(Mine(with(j))) \in Nat
    BY <1>5, SizesType
  <2> QED
    BY <1>4, <1>8, <2>1, <2>2, <2>3
<1>11. left[v][t] \in Int
  BY DEF v, t
<1> QED
  BY <1>6, <1>7, <1>8, <1>9, <1>10, <1>11

LEMMA NotOvertakenStep ==
  ASSUME TypeOK, ReportOK, Decides, NEW i \in Jobs, NEW j \in Allowed(ActiveJobs), Rivals(i, j)
  PROVE  i \in Allowed(ActiveJobs)
<1> DEFINE left == Left(ActiveJobs)
<1>1. Allowed(ActiveJobs) = AllowedIn(left)
  BY DEF Allowed, Left
<1> HIDE DEF left
<1>2. /\ AllowedIn(left) \subseteq Batch
      /\ \A k \in Batch : k \in AllowedIn(left) <=> Fits(AllowedIn(left), left, k)
  BY AllowedFit
<1>3. i \in Batch /\ j \in Batch /\ i \in Jobs /\ j \in Jobs
  BY <1>1, <1>2, BatchType DEF Rivals, Batch
<1>4. /\ job[i].vc = job[j].vc /\ job[i].type = job[j].type /\ job[i].user = job[j].user
      /\ job[i].preempt = job[j].preempt
  <2>1. /\ job[i] \in [vc : VCs, type : Types, size : Nat, user : Users,
                       preempt : BOOLEAN, priority : Priorities]
        /\ job[j] \in [vc : VCs, type : Types, size : Nat, user : Users,
                       preempt : BOOLEAN, priority : Priorities]
    BY <1>3, WorkloadsAssumption DEF TypeOK
  <2> QED
    BY <2>1 DEF Rivals
<1>5. SortKey(i) < SortKey(j)
  BY <1>3, <1>4, SortKeyOrder DEF Rivals
<1>6. left[job[j].vc][job[j].type] \in Int
  BY <1>3, JobType, LeftBounds DEF Decides, left, ActiveJobs
<1>7. Fits(AllowedIn(left), left, j)
  BY <1>1, <1>2, <1>3
<1>8. Fits(AllowedIn(left), left, i)
  BY <1>3, <1>4, <1>5, <1>6, <1>7, FitsSooner DEF Rivals
<1> QED
  BY <1>1, <1>2, <1>3, <1>8

\* Among queued jobs of one user, VC and kind of device, a job is not passed by one of
\* lower priority, or of the same and submitted later, that needs as much.
THEOREM NotOvertakenHolds == Spec => NotOvertaken
<1>1. TypeOK /\ ReportOK /\ [Next]_vars
        => [Decides =>
              \A allowed \in {Allowed(ActiveJobs)} :
                \A i \in Jobs, j \in allowed : Rivals(i, j) => i \in allowed]_vars
  BY NotOvertakenStep
<1> QED
  BY <1>1, ReportCorrect, PTL DEF Spec, NotOvertaken

-----------------------------------------------------------------------------
(***************************************************************************)
(* Quotas.                                                                 *)
(***************************************************************************)
\* The allowed jobs of a VC fit with what it is left, because the last of them does.
LEMMA AllowedWithinLeft ==
  ASSUME TypeOK, NEW left, NEW A, A \subseteq Batch, \A j \in A : Fits(A, left, j),
         NEW v, NEW t, Of(A, v, t) # {}
  PROVE  Sizes(Of(A, v, t)) <= left[v][t]
<1> DEFINE S == Of(A, v, t)
           key == [j \in Batch |-> SortKey(j)]
<1>1. S \subseteq Batch /\ S \subseteq Jobs
  BY BatchType DEF Of
<1>2. IsFiniteSet(S) /\ \A j \in S : key[j] \in Int
  BY <1>1, JobsFinite, SortKeyType
<1> HIDE DEF key
<1>3. PICK x \in S : \A j \in S : key[j] <= key[x]
  BY <1>2, LargestKey
<1>4. \A j \in S : j = x \/ SortKey(j) < SortKey(x)
  <2> SUFFICES ASSUME NEW j \in S PROVE j = x \/ SortKey(j) < SortKey(x)
    OBVIOUS
  <2>1. SortKey(j) <= SortKey(x)
    BY <1>1, <1>3 DEF key
  <2>2. SortKey(j) = SortKey(x) => j = x
    BY <1>1, SortKeyOrder
  <2> QED
    BY <1>1, <2>1, <2>2, SortKeyType
<1>5. job[x].vc = v /\ job[x].type = t /\ x \in A
  BY DEF Of
<1>6. Of((Earlier(x) \cap A) \cup {x}, v, t) = S
  BY <1>1, <1>4, <1>5 DEF Of, Earlier
<1>7. Fits(A, left, x)
  BY <1>5
<1> QED
  BY <1>5, <1>6, <1>7, Zenon DEF Fits

\* So do the non-preemptible ones of a user.
LEMMA AllowedWithinUserQuota ==
  ASSUME TypeOK, NEW left, NEW A, A \subseteq Batch, \A j \in A : Fits(A, left, j),
         NEW v \in VCs, NEW t \in Types, NEW u
  PROVE  Sizes({j \in Of(A, v, t) : ~job[j].preempt /\ job[j].user = u}) <= UserQuota[v][t]
<1> DEFINE S == {j \in Of(A, v, t) : ~job[j].preempt /\ job[j].user = u}
           key == [j \in Batch |-> SortKey(j)]
<1>1. S \subseteq Batch /\ S \subseteq Jobs
  BY BatchType DEF Of
<1>2. IsFiniteSet(S) /\ \A j \in S : key[j] \in Int
  BY <1>1, JobsFinite, SortKeyType
<1>3. UserQuota[v][t] \in Nat
  BY UserQuotaAssumption
<1>4. CASE S = {}
  <2> HIDE DEF S
  <2>1. Sizes(S) <= UserQuota[v][t]
    BY <1>3, <1>4, SizesNone
  <2> QED
    BY <2>1 DEF S
<1>5. CASE S # {}
  <2> HIDE DEF key
  <2>1. PICK x \in S : \A j \in S : key[j] <= key[x]
    BY <1>2, <1>5, LargestKey
  <2>2. \A j \in S : j = x \/ SortKey(j) < SortKey(x)
    <3> SUFFICES ASSUME NEW j \in S PROVE j = x \/ SortKey(j) < SortKey(x)
      OBVIOUS
    <3>1. SortKey(j) <= SortKey(x)
      BY <1>1, <2>1 DEF key
    <3>2. SortKey(j) = SortKey(x) => j = x
      BY <1>1, SortKeyOrder
    <3> QED
      BY <1>1, <3>1, <3>2, SortKeyType
  <2> DEFINE with == Of((Earlier(x) \cap A) \cup {x}, v, t)
             users == {i \in with : job[i].user = u}
  <2>3. job[x].vc = v /\ job[x].type = t /\ x \in A /\ ~job[x].preempt /\ job[x].user = u
    BY DEF Of
  <2>4. S \subseteq users /\ users \subseteq Jobs
    <3>1. \A j \in S : j \in (Earlier(x) \cap A) \cup {x}
      BY <1>1, <2>2 DEF Earlier, Of
    <3>2. \A j \in S : j \in users
      BY <3>1 DEF Of
    <3>3. with \subseteq Jobs
      BY <1>1, <2>3, BatchType DEF Of
    <3> QED
      BY <3>2, <3>3
  <2>5. Fits(A, left, x)
    BY <2>3
  <2>6. Sizes(users) <= UserQuota[v][t]
    BY <2>3, <2>5, Zenon DEF Fits
  <2> HIDE DEF S, users
  <2>7. Sizes(S) <= Sizes(users) /\ Sizes(S) \in Nat /\ Sizes(users) \in Nat
    BY <2>4, SizesGrow, SizesType
  <2>8. Sizes(S) <= UserQuota[v][t]
    BY <1>3, <2>6, <2>7
  <2> QED
    BY <2>8 DEF S
<1> QED
  BY <1>4, <1>5

\* QuotaKept, of any sets of jobs and VCs and any quotas, for the jobs as they are.
Kept(holding, quotas, excusing) ==
  \A v \in VCs \ excusing, t \in Types :
    /\ Sizes(Of(holding, v, t)) <= quotas[v][t]
    /\ \A u \in Users :
         Sizes({j \in Of(holding, v, t) : ~job[j].preempt /\ job[j].user = u}) <= UserQuota[v][t]

LEMMA QuotaKeptIs == QuotaKept <=> Kept(Holding, quota, excused)
  BY Zenon DEF QuotaKept, Kept

LEMMA QuotaKeptNext ==
  ASSUME job' = job, Kept(Holding', quota', excused')
  PROVE  QuotaKept'
  BY SMT DEF QuotaKept, Kept, Of, Sizes, Total

\* Quotas are kept by fewer jobs, and by fewer VCs that have larger quotas.
LEMMA KeptGrow ==
  ASSUME TypeOK, NEW larger, larger \subseteq Jobs, NEW quotas, NEW excusing,
         Kept(larger, quotas, excusing),
         NEW smaller, NEW quotas2, NEW excusing2, excusing \subseteq excusing2,
         \A v \in VCs \ excusing2, t \in Types :
           /\ Of(smaller, v, t) \subseteq Of(larger, v, t)
           /\ quotas[v][t] \in Nat /\ quotas2[v][t] \in Nat /\ quotas[v][t] <= quotas2[v][t]
  PROVE  Kept(smaller, quotas2, excusing2)
<1> SUFFICES ASSUME NEW v \in VCs \ excusing2, NEW t \in Types
             PROVE  /\ Sizes(Of(smaller, v, t)) <= quotas2[v][t]
                    /\ \A u \in Users :
                         Sizes({j \in Of(smaller, v, t) : ~job[j].preempt /\ job[j].user = u})
                           <= UserQuota[v][t]
  BY DEF Kept
<1> DEFINE new == Of(smaller, v, t)
           old == Of(larger, v, t)
           mine(S, u) == {j \in S : ~job[j].preempt /\ job[j].user = u}
<1>1. new \subseteq old /\ old \subseteq Jobs
  BY DEF Of
<1>2. Sizes(old) <= quotas[v][t] /\ \A u \in Users : Sizes(mine(old, u)) <= UserQuota[v][t]
  BY DEF Kept
<1>3. quotas[v][t] \in Nat /\ quotas2[v][t] \in Nat /\ quotas[v][t] <= quotas2[v][t]
        /\ UserQuota[v][t] \in Nat
  BY UserQuotaAssumption
<1> HIDE DEF new, old
<1>4. Sizes(new) <= Sizes(old) /\ Sizes(new) \in Nat /\ Sizes(old) \in Nat
  BY <1>1, SizesGrow, SizesType
<1>5. ASSUME NEW u \in Users PROVE Sizes(mine(new, u)) <= UserQuota[v][t]
  <2>1. mine(new, u) \subseteq mine(old, u) /\ mine(old, u) \subseteq Jobs
    BY <1>1
  <2>2. Sizes(mine(old, u)) <= UserQuota[v][t]
    BY <1>2
  <2> HIDE DEF mine
  <2>3. Sizes(mine(new, u)) <= Sizes(mine(old, u))
          /\ Sizes(mine(new, u)) \in Nat /\ Sizes(mine(old, u)) \in Nat
    BY <2>1, SizesGrow, SizesType
  <2> QED
    BY <1>3, <2>2, <2>3
<1>6. Sizes(new) <= quotas2[v][t]
  BY <1>2, <1>3, <1>4
<1> QED
  BY <1>5, <1>6 DEF new

(***************************************************************************)
(* The invariant: the launcher tasks left from before a restart belong to  *)
(* excused VCs, a round begins only when no other tasks are left, and the  *)
(* jobs that have become active since it began belong to excused VCs.      *)
(***************************************************************************)
OrphansExcused == \A k \in tasks : k.orphan => job[k.job].vc \in excused

RoundAlone == batch # NoBatch => \A k \in tasks : k.orphan

BatchKnowsActive ==
  batch # NoBatch => \A j \in ActiveJobs : job[j].vc \in excused \/ batch[j] \in Active

QuotaInv ==
  /\ TypeOK
  /\ ReportOK
  /\ OrphansExcused
  /\ RoundAlone
  /\ BatchKnowsActive
  /\ QuotaKept

LEMMA JobConstant == [Next]_vars => job' = job
  BY DEF Next, vars, envVars, Report, ReadJobs, Decide, DecideFails, Restart, Submit, Preempt,
         TaskFails, Arrive, End, Release, Start, UpdateVC, NodeChange

LEMMA HoldingType == TypeOK => Holding \subseteq Jobs
  BY DEF TypeOK, Holding, ActiveJobs, Coming

LEMMA QuotaType ==
  ASSUME TypeOK, NEW v \in VCs, NEW t \in Types
  PROVE  quota[v][t] \in Nat
  BY QuotasAssumption DEF TypeOK
LEMMA QuotaInit == Init => QuotaInv
<1> SUFFICES ASSUME Init PROVE QuotaInv
  OBVIOUS
<1>1. TypeOK /\ ReportOK
  BY TypeInit, ReportInit
<1>2. tasks = {} /\ ActiveJobs = {} /\ batch = NoBatch
  BY DEF Init, ActiveJobs, Active
<1>3. Holding = {}
  BY <1>2 DEF Holding, Coming, Leaving
<1>4. QuotaKept
  <2> SUFFICES ASSUME NEW v \in VCs, NEW t \in Types
               PROVE  /\ Sizes(Of(Holding, v, t)) <= quota[v][t]
                      /\ \A u \in Users :
                           Sizes({j \in Of(Holding, v, t) : ~job[j].preempt /\ job[j].user = u})
                             <= UserQuota[v][t]
    BY DEF QuotaKept
  <2>1. Of(Holding, v, t) = {}
    BY <1>3 DEF Of
  <2>2. \A u : {j \in Of(Holding, v, t) : ~job[j].preempt /\ job[j].user = u} = {}
    BY <2>1
  <2>3. 0 <= quota[v][t] /\ 0 <= UserQuota[v][t]
    BY <1>1, QuotaType, UserQuotaAssumption
  <2> QED
    BY <2>1, <2>2, <2>3, SizesNone
<1> QED
  BY <1>1, <1>2, <1>4 DEF QuotaInv, OrphansExcused, RoundAlone, BatchKnowsActive

LEMMA TasksNext ==
  ASSUME QuotaInv, [Next]_vars
  PROVE  OrphansExcused' /\ RoundAlone'
<1> USE DEF QuotaInv, OrphansExcused, RoundAlone
<1>0. job' = job
  BY JobConstant
<1>1. CASE Report
  BY <1>1 DEF Report, Event
<1>2. CASE ReadJobs
  BY <1>2 DEF ReadJobs
<1>3. CASE Decide
  <2>1. \A k \in tasks' \ tasks : ~k.orphan
    BY <1>3 DEF Decide, Task
  <2>2. excused \subseteq excused' /\ batch' = NoBatch
    BY <1>3 DEF Decide
  <2> QED
    BY <1>0, <2>1, <2>2
<1>4. CASE DecideFails
  BY <1>4 DEF DecideFails
<1>5. CASE Restart
  <2>1. \A k \in tasks : [k EXCEPT !.orphan = TRUE].job = k.job
    BY DEF TypeOK
  <2>2. /\ \A k \in tasks' : \E l \in tasks : k = [l EXCEPT !.orphan = TRUE]
        /\ \A l \in tasks : job[l.job].vc \in excused'
        /\ batch' = NoBatch
    BY <1>5 DEF Restart
  <2>3. \A k \in tasks' : job[k.job].vc \in excused'
    <3> SUFFICES ASSUME NEW k \in tasks' PROVE job[k.job].vc \in excused'
      OBVIOUS
    <3>1. PICK l \in tasks : k = [l EXCEPT !.orphan = TRUE]
      BY <2>2
    <3>2. k.job = l.job
      BY <2>1, <3>1
    <3> QED
      BY <2>2, <3>2
  <2> QED
    BY <1>0, <2>2, <2>3
<1>6. ASSUME NEW k \in tasks, Submit(k) \/ Preempt(k) \/ TaskFails(k)
      PROVE  OrphansExcused' /\ RoundAlone'
  <2>1. tasks' \subseteq tasks /\ excused \subseteq excused' /\ batch' = batch
    BY <1>6 DEF Submit, Preempt, TaskFails
  <2> QED
    BY <1>0, <2>1
<1>7. ASSUME NEW j \in Jobs, \/ Arrive(j) \/ End(j) \/ Release(j)
                             \/ \E n \in DOMAIN Nodes : Start(j, n)
      PROVE  OrphansExcused' /\ RoundAlone'
  BY <1>0, <1>7 DEF Arrive, End, Release, Start
<1>8. ASSUME NEW q \in Quotas, UpdateVC(q) PROVE OrphansExcused' /\ RoundAlone'
  BY <1>0, <1>8 DEF UpdateVC
<1>9. ASSUME NEW n \in DOMAIN Nodes, NodeChange(n) PROVE OrphansExcused' /\ RoundAlone'
  BY <1>9 DEF NodeChange
<1>10. CASE UNCHANGED vars
  BY <1>10 DEF vars
<1> QED
  BY <1>1, <1>2, <1>3, <1>4, <1>5, <1>6, <1>7, <1>8, <1>9, <1>10 DEF Next

LEMMA BatchNext ==
  ASSUME QuotaInv, [Next]_vars
  PROVE  BatchKnowsActive'
<1>0. job' = job /\ TypeOK /\ BatchKnowsActive
  BY JobConstant DEF QuotaInv
<1>1. CASE batch' = NoBatch
  BY <1>1 DEF BatchKnowsActive, NoBatch
<1>2. CASE ReadJobs
  BY <1>2, <1>0 DEF ReadJobs, BatchKnowsActive, ActiveJobs
<1>3. CASE batch' = batch /\ ActiveJobs' \subseteq ActiveJobs /\ excused \subseteq excused'
  BY <1>0, <1>3 DEF BatchKnowsActive, NoBatch
<1>4. ASSUME NEW k \in tasks, Submit(k), batch # NoBatch PROVE BatchKnowsActive'
  <2>1. job[k.job].vc \in excused
    BY <1>4 DEF QuotaInv, RoundAlone, OrphansExcused
  <2>2. excused' = excused /\ batch' = batch /\ ActiveJobs' \subseteq ActiveJobs \cup {k.job}
    BY <1>4, <1>0 DEF Submit, ActiveJobs, TypeOK
  <2> QED
    BY <1>0, <1>4, <2>1, <2>2 DEF BatchKnowsActive, NoBatch
<1>5. ASSUME NEW k \in tasks, Submit(k), batch = NoBatch PROVE batch' = NoBatch
  BY <1>5 DEF Submit
<1>6. ASSUME NEW k \in tasks, Preempt(k) \/ TaskFails(k)
      PROVE  batch' = batch /\ ActiveJobs' \subseteq ActiveJobs /\ excused \subseteq excused'
  BY <1>0, <1>6 DEF Preempt, TaskFails, ActiveJobs, Active, TypeOK
<1>7. ASSUME NEW j \in Jobs, Arrive(j) \/ End(j) \/ Release(j)
      PROVE  batch' = batch /\ ActiveJobs' \subseteq ActiveJobs /\ excused \subseteq excused'
  BY <1>0, <1>7 DEF Arrive, End, Release, ActiveJobs, Active, TypeOK
<1>8. ASSUME NEW j \in Jobs, NEW n \in DOMAIN Nodes, Start(j, n)
      PROVE  batch' = batch /\ ActiveJobs' \subseteq ActiveJobs /\ excused \subseteq excused'
  BY <1>0, <1>8 DEF Start, ActiveJobs, Active, TypeOK
<1>9. ASSUME Report \/ (\E q \in Quotas : UpdateVC(q)) \/ (\E n \in DOMAIN Nodes : NodeChange(n))
      PROVE  batch' = batch /\ ActiveJobs' \subseteq ActiveJobs /\ excused \subseteq excused'
  BY <1>9 DEF Report, UpdateVC, NodeChange, ActiveJobs
<1>10. CASE UNCHANGED vars
  BY <1>3, <1>10 DEF vars, ActiveJobs
<1>11. Decide \/ DecideFails \/ Restart => batch' = NoBatch
  BY DEF Decide, DecideFails, Restart
<1> QED
  BY <1>1, <1>2, <1>3, <1>4, <1>5, <1>6, <1>7, <1>8, <1>9, <1>10, <1>11 DEF Next
\* Between rounds, a VC that is not excused holds devices only for jobs that held some
\* before, and its quota is not lowered.
LEMMA HoldingNext ==
  ASSUME QuotaInv, [Next]_vars, ~Decide
  PROVE  /\ excused \subseteq excused'
         /\ \A j \in Holding' : job[j].vc \notin excused' => j \in Holding
         /\ \A v \in VCs \ excused', t \in Types : quota[v][t] <= quota'[v][t]
<1> DEFINE Goal == /\ excused \subseteq excused'
                   /\ \A j \in Holding' : job[j].vc \notin excused' => j \in Holding
                   /\ \A v \in VCs \ excused', t \in Types : quota[v][t] <= quota'[v][t]
<1>0. TypeOK
  BY DEF QuotaInv
<1>a. \A v \in VCs, t \in Types : quota[v][t] \in Nat /\ quota[v][t] <= quota[v][t]
  BY <1>0, QuotaType
<1>b. CASE excused \subseteq excused' /\ quota' = quota /\ tasks' = tasks
             /\ ActiveJobs' \subseteq ActiveJobs
  BY <1>a, <1>b DEF Holding, Leaving, Coming
<1>1. CASE Report \/ ReadJobs \/ DecideFails \/ \E n \in DOMAIN Nodes : NodeChange(n)
  BY <1>b, <1>1 DEF Report, ReadJobs, DecideFails, NodeChange, ActiveJobs
<1>2. CASE Restart
  <2>1. \A k \in tasks : [k EXCEPT !.orphan = TRUE].job = k.job
    BY <1>0 DEF TypeOK
  <2>2. PICK alive \in SUBSET tasks : tasks' = {[k EXCEPT !.orphan = TRUE] : k \in alive}
    BY <1>2 DEF Restart
  <2>3. \A k \in tasks' : \E l \in tasks : k.job = l.job
    BY <2>1, <2>2
  <2>4. /\ \A l \in tasks : job[l.job].vc \in excused'
        /\ excused \subseteq excused' /\ quota' = quota /\ ActiveJobs' = ActiveJobs
    BY <1>2 DEF Restart, ActiveJobs
  <2>5. \A j \in Holding' : job[j].vc \notin excused' => j \in Holding
    BY <2>3, <2>4 DEF Holding, Leaving, Coming
  <2> QED
    BY <1>a, <2>4, <2>5
<1>3. ASSUME NEW k \in tasks, Submit(k) PROVE Goal
  <2>1. /\ k.kind = "submit" /\ tasks' = tasks \ {k} /\ excused' = excused /\ quota' = quota
        /\ ActiveJobs' \subseteq ActiveJobs \cup {k.job}
    BY <1>0, <1>3 DEF Submit, ActiveJobs, TypeOK
  <2>2. k.job \in Coming /\ Coming' \subseteq Coming /\ Leaving' = Leaving
    BY <2>1 DEF Coming, Leaving
  <2> QED
    BY <1>a, <2>1, <2>2 DEF Holding
<1>4. ASSUME NEW k \in tasks, Preempt(k) PROVE Goal
  <2>1. /\ k.kind = "kill" /\ tasks' = tasks \ {k} /\ excused' = excused /\ quota' = quota
        /\ ActiveJobs' \subseteq ActiveJobs \ {k.job}
    BY <1>0, <1>4 DEF Preempt, ActiveJobs, TypeOK, Active
  <2>2. Coming' = Coming /\ Leaving \subseteq Leaving' \cup {k.job}
    BY <2>1 DEF Coming, Leaving
  <2> QED
    BY <1>a, <2>1, <2>2 DEF Holding
<1>5. ASSUME NEW k \in tasks, TaskFails(k) PROVE Goal
  <2>1. /\ tasks' = tasks \ {k} /\ excused \subseteq excused' /\ quota' = quota
        /\ ActiveJobs' = ActiveJobs
        /\ k.kind = "kill" => job[k.job].vc \in excused'
    BY <1>5 DEF TaskFails, ActiveJobs
  <2>2. Coming' \subseteq Coming
    BY <2>1 DEF Coming
  <2>3. \A j \in Leaving : job[j].vc \notin excused' => j \in Leaving'
    BY <2>1 DEF Leaving
  <2> QED
    BY <1>a, <2>1, <2>2, <2>3 DEF Holding
<1>6. ASSUME NEW j \in Jobs, Arrive(j) \/ End(j) \/ Release(j) PROVE Goal
  <2>1. /\ tasks' = tasks /\ excused' = excused /\ quota' = quota
        /\ ActiveJobs' \subseteq ActiveJobs
    BY <1>0, <1>6 DEF Arrive, End, Release, ActiveJobs, Active, TypeOK
  <2> QED
    BY <1>b, <2>1
<1>7. ASSUME NEW j \in Jobs, NEW n \in DOMAIN Nodes, Start(j, n) PROVE Goal
  <2>1. /\ tasks' = tasks /\ excused' = excused /\ quota' = quota
        /\ ActiveJobs' \subseteq ActiveJobs
    BY <1>0, <1>7 DEF Start, ActiveJobs, Active, TypeOK
  <2> QED
    BY <1>b, <2>1
<1>8. ASSUME NEW q \in Quotas, UpdateVC(q) PROVE Goal
  <2>1. /\ tasks' = tasks /\ excused \subseteq excused' /\ ActiveJobs' = ActiveJobs
        /\ quota' = q
        /\ \A v \in VCs \ excused', t \in Types : ~(q[v][t] < quota[v][t])
    BY <1>8 DEF UpdateVC, ActiveJobs
  <2>2. \A v \in VCs, t \in Types : q[v][t] \in Nat
    BY QuotasAssumption
  <2>3. \A v \in VCs \ excused', t \in Types : quota[v][t] <= quota'[v][t]
    BY <1>a, <2>1, <2>2
  <2>4. Holding' = Holding
    BY <2>1 DEF Holding, Leaving, Coming
  <2> QED
    BY <2>1, <2>3, <2>4
<1>9. CASE UNCHANGED vars
  BY <1>b, <1>9 DEF vars, ActiveJobs
<1> QED
  BY <1>1, <1>2, <1>3, <1>4, <1>5, <1>6, <1>7, <1>8, <1>9 DEF Next
\* When a round begins, a VC that is not excused has no launcher tasks.
LEMMA NoTasks ==
  ASSUME QuotaInv, batch # NoBatch, NEW k \in tasks
  PROVE  job[k.job].vc \in excused
  BY DEF QuotaInv, RoundAlone, OrphansExcused

\* What a round allows of a VC, it allows within the quota and the users' quotas.
LEMMA AllowedKept ==
  ASSUME TypeOK, ReportOK, report # NoReport, NEW active \in SUBSET Jobs
  PROVE  Kept(Allowed(active), quota, {})
<1> DEFINE left == Left(active)
           A == AllowedIn(left)
<1>1. Allowed(active) = A
  BY DEF Allowed, Left
<1>2. \A v \in VCs, t \in Types : left[v][t] \in Int /\ left[v][t] <= quota[v][t]
  BY LeftBounds
<1> HIDE DEF left
<1>3. A \subseteq Batch /\ \A j \in A : Fits(A, left, j)
  BY AllowedFit
<1> HIDE DEF A
<1> SUFFICES ASSUME NEW v \in VCs, NEW t \in Types
             PROVE  /\ Sizes(Of(A, v, t)) <= quota[v][t]
                    /\ \A u \in Users :
                         Sizes({j \in Of(A, v, t) : ~job[j].preempt /\ job[j].user = u})
                           <= UserQuota[v][t]
  BY <1>1 DEF Kept
<1>4. quota[v][t] \in Nat
  BY QuotaType
<1>5. Of(A, v, t) \subseteq Jobs
  BY <1>3, BatchType DEF Of
<1>6. Sizes(Of(A, v, t)) <= quota[v][t]
  <2>1. CASE Of(A, v, t) = {}
    BY <1>4, <2>1, SizesNone
  <2>2. CASE Of(A, v, t) # {}
    <3>1. Sizes(Of(A, v, t)) <= left[v][t]
      BY <1>3, <2>2, AllowedWithinLeft
    <3>2. Sizes(Of(A, v, t)) \in Nat
      BY <1>5, SizesType
    <3> QED
      BY <1>2, <1>4, <3>1, <3>2
  <2> QED
    BY <2>1, <2>2
<1>7. \A u \in Users :
        Sizes({j \in Of(A, v, t) : ~job[j].preempt /\ job[j].user = u}) <= UserQuota[v][t]
  BY <1>3, AllowedWithinUserQuota
<1> QED
  BY <1>6, <1>7

\* After a round, a VC that is not excused holds devices only for allowed jobs.
LEMMA HoldingAllowed ==
  ASSUME QuotaInv, batch # NoBatch, NEW allowed, allowed \subseteq Jobs,
         job' = job, ActiveJobs' = ActiveJobs,
         tasks' = tasks \cup {Task(j, "submit") : j \in Submitted(allowed)}
                        \cup {Task(j, "kill") : j \in Preempted(allowed)},
         excused' = excused \cup {job[j].vc : j \in PassedOver(allowed)},
         NEW j \in Holding', job[j].vc \notin excused'
  PROVE  j \in allowed
<1>0. TypeOK
  BY DEF QuotaInv
<1>1. CASE j \in Coming'
  <2>1. PICK k \in tasks' : k.kind = "submit" /\ k.job = j
    BY <1>1 DEF Coming
  <2>2. k \notin tasks
    BY <2>1, NoTasks
  <2>3. PICK i \in Jobs : \/ i \in Submitted(allowed) /\ k = Task(i, "submit")
                          \/ i \in Preempted(allowed) /\ k = Task(i, "kill")
    BY <2>2 DEF Submitted, Preempted
  <2>4. i = j /\ i \in Submitted(allowed)
    BY <2>1, <2>3 DEF Task
  <2> QED
    BY <2>4 DEF Submitted
<1>2. CASE j \in ActiveJobs /\ j \notin Leaving'
  <2>1. j \in Jobs /\ job[j].preempt \in BOOLEAN
    BY <1>0, <1>2, JobType DEF ActiveJobs
  <2>2. batch[j] \in Active
    BY <1>2 DEF QuotaInv, BatchKnowsActive
  <2>3. j \notin Preempted(allowed)
    <3> SUFFICES ASSUME j \in Preempted(allowed) PROVE FALSE
      OBVIOUS
    <3>1. Task(j, "kill") \in tasks'
      OBVIOUS
    <3>2. Task(j, "kill").kind = "kill" /\ Task(j, "kill").job = j
      BY DEF Task
    <3>3. j \in Leaving'
      BY <3>1, <3>2 DEF Leaving
    <3> QED
      BY <1>2, <3>3
  <2>4. j \notin PassedOver(allowed)
    OBVIOUS
  <2> QED
    BY <1>2, <2>1, <2>2, <2>3, <2>4 DEF Preempted, PassedOver
<1> QED
  BY <1>1, <1>2 DEF Holding

LEMMA DecideKept ==
  ASSUME QuotaInv, Decide
  PROVE  QuotaKept'
<1>0. TypeOK /\ ReportOK /\ batch # NoBatch /\ report # NoReport
  BY DEF QuotaInv, Decide
<1>1. PICK active \in {ActiveJobs, {}} :
        \E allowed \in {Allowed(active)} :
          /\ tasks' = tasks \cup {Task(j, "submit") : j \in Submitted(allowed)}
                           \cup {Task(j, "kill") : j \in Preempted(allowed)}
          /\ excused' = excused \cup {job[j].vc : j \in PassedOver(allowed)}
  BY DEF Decide
<1> DEFINE allowed == Allowed(active)
<1>2. active \in SUBSET Jobs
  BY DEF ActiveJobs
<1>3. allowed \subseteq Jobs
  BY <1>0, AllowedFit, BatchType DEF Allowed
<1>4. Kept(allowed, quota, {})
  BY <1>0, <1>2, AllowedKept
<1>5. /\ tasks' = tasks \cup {Task(j, "submit") : j \in Submitted(allowed)}
                       \cup {Task(j, "kill") : j \in Preempted(allowed)}
      /\ excused' = excused \cup {job[j].vc : j \in PassedOver(allowed)}
  BY <1>1
<1> HIDE DEF allowed
<1>6. job' = job /\ ActiveJobs' = ActiveJobs /\ quota' = quota
  BY DEF Decide, ActiveJobs
<1>7. \A j \in Holding' : job[j].vc \notin excused' => j \in allowed
  BY <1>0, <1>3, <1>5, <1>6, HoldingAllowed
<1> DEFINE h == Holding'
           q == quota'
           e == excused'
<1>8. q = quota
  BY <1>6
<1>9. \A j \in h : job[j].vc \notin e => j \in allowed
  BY <1>7
<1> HIDE DEF h, q, e
<1>10. \A v \in VCs \ e, t \in Types :
         /\ Of(h, v, t) \subseteq Of(allowed, v, t)
         /\ quota[v][t] \in Nat /\ q[v][t] \in Nat /\ quota[v][t] <= q[v][t]
  BY <1>0, <1>8, <1>9, QuotaType DEF Of
<1>11. Kept(h, q, e)
  BY <1>0, <1>3, <1>4, <1>10, KeptGrow
<1> QED
  BY <1>6, <1>11, QuotaKeptNext DEF h, q, e

LEMMA QuotaNext == QuotaInv /\ [Next]_vars => QuotaInv'
<1> SUFFICES ASSUME QuotaInv, [Next]_vars PROVE QuotaInv'
  OBVIOUS
<1>0. TypeOK /\ ReportOK /\ QuotaKept
  BY DEF QuotaInv
<1>1. TypeOK' /\ ReportOK'
  BY <1>0, TypeNext, ReportNext
<1>2. OrphansExcused' /\ RoundAlone' /\ BatchKnowsActive'
  BY TasksNext, BatchNext
<1>3. QuotaKept'
  <2>1. CASE Decide
    BY <2>1, DecideKept
  <2>2. CASE ~Decide
    <3> DEFINE h == Holding'
               q == quota'
               e == excused'
    <3>1. /\ excused \subseteq e
          /\ \A j \in h : job[j].vc \notin e => j \in Holding
          /\ \A v \in VCs \ e, t \in Types : quota[v][t] <= q[v][t]
      BY <2>2, HoldingNext
    <3>2. \A v \in VCs, t \in Types : q[v][t] \in Nat
      BY <1>1, QuotasAssumption DEF TypeOK
    <3>3. Kept(Holding, quota, excused) /\ Holding \subseteq Jobs
      BY <1>0, QuotaKeptIs, HoldingType
    <3> HIDE DEF h, q, e
    <3>4. \A v \in VCs \ e, t \in Types :
            /\ Of(h, v, t) \subseteq Of(Holding, v, t)
            /\ quota[v][t] \in Nat /\ q[v][t] \in Nat /\ quota[v][t] <= q[v][t]
      BY <1>0, <3>1, <3>2, QuotaType DEF Of
    <3>5. Kept(h, q, e)
      BY <1>0, <3>1, <3>3, <3>4, KeptGrow
    <3> QED
      BY <3>5, JobConstant, QuotaKeptNext DEF h, q, e
  <2> QED
    BY <2>1, <2>2
<1> QED
  BY <1>1, <1>2, <1>3 DEF QuotaInv

LEMMA QuotaCorrect == Spec => []QuotaInv
<1>1. Init => QuotaInv
  BY QuotaInit
<1>2. QuotaInv /\ [Next]_vars => QuotaInv'
  BY QuotaNext
<1> QED
  BY <1>1, <1>2, PTL DEF Spec

\* The jobs of a VC that is not excused stay within its quota, and the non-preemptible
\* jobs of a user within the user's, whatever the reports a round decides on say.
THEOREM QuotaKeptHolds == Spec => []QuotaKept
<1>1. QuotaInv => QuotaKept
  BY DEF QuotaInv
<1> QED
  BY <1>1, QuotaCorrect, PTL
-----------------------------------------------------------------------------
(***************************************************************************)
(* Quotas that were lowered.                                               *)
(***************************************************************************)
\* A round in which no SELECT fails adds the tasks of what it allows.
LEMMA DecidesIs ==
  ASSUME TypeOK, Decides, [Next]_vars
  PROVE  LET allowed == Allowed(ActiveJobs) IN
         /\ tasks' = tasks \cup {Task(j, "submit") : j \in Submitted(allowed)}
                          \cup {Task(j, "kill") : j \in Preempted(allowed)}
         /\ UNCHANGED <<job, status, quota>>
<1>1. ~Event
  BY DEF Event, Decides, TypeOK
<1>2. Decide
  BY <1>1
     DEF Decides, Next, vars, envVars, Report, ReadJobs, DecideFails, Restart, Submit, Preempt,
         TaskFails, Arrive, End, Release, Start, UpdateVC, NodeChange
<1>3. PICK active \in {ActiveJobs, {}} :
        /\ active = ActiveJobs
        /\ \E allowed \in {Allowed(active)} :
             tasks' = tasks \cup {Task(j, "submit") : j \in Submitted(allowed)}
                            \cup {Task(j, "kill") : j \in Preempted(allowed)}
  BY <1>1, <1>2 DEF Decide
<1>4. tasks' = tasks \cup {Task(j, "submit") : j \in Submitted(Allowed(ActiveJobs))}
                     \cup {Task(j, "kill") : j \in Preempted(Allowed(ActiveJobs))}
  BY <1>3
<1> QED
  BY <1>2, <1>4 DEF Decide

\* After a round that settles a VC, the VC holds devices for allowed jobs only.
LEMMA SettledAllowed ==
  ASSUME NEW v, NEW allowed, allowed \subseteq Jobs, Settled(v, allowed),
         job' = job, ActiveJobs' = ActiveJobs,
         tasks' = tasks \cup {Task(j, "submit") : j \in Submitted(allowed)}
                        \cup {Task(j, "kill") : j \in Preempted(allowed)},
         NEW j \in Holding', job[j].vc = v
  PROVE  j \in allowed
<1>1. CASE j \in Coming'
  <2>1. PICK k \in tasks' : k.kind = "submit" /\ k.job = j
    BY <1>1 DEF Coming
  <2>2. k \notin tasks
    BY <2>1 DEF Settled
  <2>3. PICK i \in Jobs : \/ i \in Submitted(allowed) /\ k = Task(i, "submit")
                          \/ i \in Preempted(allowed) /\ k = Task(i, "kill")
    BY <2>2 DEF Submitted, Preempted
  <2> QED
    BY <2>1, <2>3 DEF Task, Submitted
<1>2. CASE j \in ActiveJobs /\ j \notin Leaving'
  <2> SUFFICES ASSUME j \in Preempted(allowed) PROVE FALSE
    BY <1>2 DEF Settled
  <2>1. Task(j, "kill") \in tasks'
    OBVIOUS
  <2>2. Task(j, "kill").kind = "kill" /\ Task(j, "kill").job = j
    BY DEF Task
  <2> QED
    BY <1>2, <2>1, <2>2 DEF Leaving
<1> QED
  BY <1>1, <1>2 DEF Holding

LEMMA LoweredStep ==
  ASSUME TypeOK, ReportOK, Decides, [Next]_vars, NEW v \in VCs, NEW t \in Types,
         Settled(v, Allowed(ActiveJobs))
  PROVE  Sizes(Of(Holding', v, t)) <= quota[v][t]
<1> DEFINE allowed == Allowed(ActiveJobs)
           h == Holding'
<1>1. /\ tasks' = tasks \cup {Task(j, "submit") : j \in Submitted(allowed)}
                       \cup {Task(j, "kill") : j \in Preempted(allowed)}
      /\ UNCHANGED <<job, status, quota>>
  BY DecidesIs
<1>2. ActiveJobs \subseteq Jobs /\ allowed \subseteq Jobs
  BY AllowedFit, BatchType DEF Allowed, ActiveJobs
<1>3. Kept(allowed, quota, {})
  BY <1>2, AllowedKept DEF Decides
<1>4. Settled(v, allowed) /\ ActiveJobs' = ActiveJobs
  BY <1>1 DEF ActiveJobs
<1> HIDE DEF allowed
<1>5. \A j \in h : job[j].vc = v => j \in allowed
  BY <1>1, <1>2, <1>4, SettledAllowed
<1> HIDE DEF h
<1>6. Of(h, v, t) \subseteq Of(allowed, v, t) /\ Of(allowed, v, t) \subseteq Jobs
  BY <1>2, <1>5 DEF Of
<1>7. Sizes(Of(h, v, t)) <= Sizes(Of(allowed, v, t))
  BY <1>6, SizesGrow
<1>8. Sizes(Of(allowed, v, t)) <= quota[v][t]
  BY <1>3 DEF Kept
<1>9. /\ Sizes(Of(h, v, t)) \in Nat /\ Sizes(Of(allowed, v, t)) \in Nat
      /\ quota[v][t] \in Nat
  BY <1>6, SizesType, QuotaType
<1>10. Sizes(Of(h, v, t)) <= quota[v][t]
  BY <1>7, <1>8, <1>9
<1> QED
  BY <1>10 DEF h

\* A quota that was lowered under running jobs is kept again from the next round on that
\* neither passes over a job of the VC nor finds one started, or a task left over.
THEOREM LoweredQuotaKeptHolds == Spec => LoweredQuotaKept
<1>1. TypeOK /\ ReportOK /\ [Next]_vars
        => [Decides =>
              \A allowed \in {Allowed(ActiveJobs)}, v \in VCs, t \in Types :
                Settled(v, allowed) => Sizes(Of(Holding', v, t)) <= quota[v][t]]_vars
  BY LoweredStep
<1> QED
  BY <1>1, ReportCorrect, PTL DEF Spec, LoweredQuotaKept

-----------------------------------------------------------------------------
(***************************************************************************)
(* Whom a round passes over and preempts.                                  *)
(***************************************************************************)
\* An active job of a VC that is not excused fits, if the allowed ones before it are active.
LEMMA ActiveFits ==
  ASSUME QuotaInv, batch # NoBatch, report # NoReport, NEW j \in ActiveJobs,
         job[j].vc \notin excused,
         \A i \in Earlier(j) \cap Allowed(ActiveJobs) :
           job[i].vc = job[j].vc /\ job[i].type = job[j].type
             => i \in ActiveJobs /\ (job[i].preempt => job[j].preempt)
  PROVE  j \in Allowed(ActiveJobs)
<1> DEFINE left == Left(ActiveJobs)
           A == AllowedIn(left)
           v == job[j].vc
           t == job[j].type
           u == job[j].user
           with == Of((Earlier(j) \cap A) \cup {j}, v, t)
           users == {i \in with : job[i].user = u}
           active == Of(ActiveJobs, v, t)
           mine == {i \in active : ~job[i].preempt /\ job[i].user = u}
<1>0. TypeOK /\ ReportOK /\ QuotaKept
  BY DEF QuotaInv
<1>1. Allowed(ActiveJobs) = A
  BY DEF Allowed, Left
<1>2. j \in Jobs /\ v \in VCs /\ t \in Types /\ u \in Users /\ job[j].preempt \in BOOLEAN
  BY <1>0, JobType DEF ActiveJobs
<1>3. batch[j] \in Active /\ j \in Batch
  BY <1>2 DEF QuotaInv, BatchKnowsActive, Batch, Active
<1>4. ActiveJobs \subseteq Jobs
  BY DEF ActiveJobs
<1>5. with \subseteq active /\ active \subseteq Jobs
  BY <1>1, <1>4 DEF Of
<1>6. ~job[j].preempt => users \subseteq mine
  BY <1>1 DEF Of
<1>7. Of(Holding, v, t) = active
  <2>1. \A i \in Leaving \cup Coming : job[i].vc \in excused
    BY NoTasks DEF Leaving, Coming
  <2> QED
    BY <2>1 DEF Of, Holding
<1>8. Sizes(active) <= quota[v][t] /\ Sizes(mine) <= UserQuota[v][t]
  <2>1. /\ Sizes(Of(Holding, v, t)) <= quota[v][t]
        /\ Sizes({i \in Of(Holding, v, t) : ~job[i].preempt /\ job[i].user = u}) <= UserQuota[v][t]
    BY <1>0, <1>2 DEF QuotaKept
  <2> HIDE DEF active, v, t, u
  <2> QED
    BY <1>7, <2>1
<1>9. left[v][t] \in Int /\ Sizes(active) <= left[v][t]
  BY <1>0, <1>2, <1>4, <1>8, LeftBounds
<1>10. users \subseteq Jobs /\ mine \subseteq Jobs /\ UserQuota[v][t] \in Nat
  BY <1>2, <1>5, UserQuotaAssumption
<1> HIDE DEF left
<1>11. A \subseteq Batch /\ \A k \in Batch : k \in A <=> Fits(A, left, k)
  BY <1>0, AllowedFit
<1>12. Fits(A, left, j) <=> /\ Sizes(with) <= left[v][t]
                            /\ job[j].preempt \/ Sizes(users) <= UserQuota[v][t]
  BY Zenon DEF Fits
<1> HIDE DEF A, v, t, u, with, users, active, mine
<1>13. Sizes(with) <= left[v][t]
  <2>1. Sizes(with) <= Sizes(active) /\ Sizes(with) \in Nat /\ Sizes(active) \in Nat
    BY <1>0, <1>5, SizesGrow, SizesType
  <2> QED
    BY <1>9, <2>1
<1>14. ~job[j].preempt => Sizes(users) <= UserQuota[v][t]
  <2> SUFFICES ASSUME ~job[j].preempt PROVE Sizes(users) <= UserQuota[v][t]
    OBVIOUS
  <2>1. Sizes(users) <= Sizes(mine) /\ Sizes(users) \in Nat /\ Sizes(mine) \in Nat
    BY <1>0, <1>6, <1>10, SizesGrow, SizesType
  <2> QED
    BY <1>8, <1>10, <2>1
<1> QED
  BY <1>1, <1>3, <1>11, <1>12, <1>13, <1>14

LEMMA PassedOverStep ==
  ASSUME QuotaInv, Decides, NEW j \in PassedOver(Allowed(ActiveJobs)), job[j].vc \notin excused
  PROVE  \E i \in Batch \ ActiveJobs :
           /\ batch[i] \in Active /\ ~job[i].preempt
           /\ job[i].vc = job[j].vc /\ job[i].type = job[j].type
<1> SUFFICES ASSUME \A i \in Batch \ ActiveJobs :
                      ~(/\ batch[i] \in Active /\ ~job[i].preempt
                        /\ job[i].vc = job[j].vc /\ job[i].type = job[j].type)
             PROVE  FALSE
  OBVIOUS
<1>0. TypeOK /\ batch # NoBatch /\ report # NoReport
  BY DEF QuotaInv, Decides
<1>1. j \in ActiveJobs /\ j \in Jobs /\ j \notin Allowed(ActiveJobs) /\ ~job[j].preempt
  BY DEF PassedOver, ActiveJobs
<1>2. batch[j] \in Active /\ j \in Batch
  BY <1>0, <1>1 DEF QuotaInv, BatchKnowsActive, Batch, Active
<1>3. ASSUME NEW i \in Earlier(j), job[i].vc = job[j].vc, job[i].type = job[j].type
      PROVE  i \in ActiveJobs /\ ~job[i].preempt
  <2>1. i \in Batch /\ SortKey(i) < SortKey(j) /\ i \in Jobs
    BY <1>0, BatchType DEF Earlier
  <2>2. ~job[i].preempt
    BY <1>0, <1>1, <1>2, <2>1, SortKeyOrder
  <2>3. job[i].preempt = job[j].preempt
    BY <1>0, <1>1, <2>1, <2>2, JobType
  <2>4. batch[i] \in Active
    BY <1>0, <1>2, <2>1, <2>3, SortKeyOrder
  <2> QED
    BY <1>3, <2>1, <2>2, <2>4
<1>4. j \in Allowed(ActiveJobs)
  BY <1>0, <1>1, <1>3, ActiveFits
<1> QED
  BY <1>1, <1>4

\* An active non-preemptible job of a VC that is not excused is passed over only because
\* another such job of its VC ended after the round read the jobs.
THEOREM PassedOverForEndedHolds == Spec => PassedOverForEnded
<1>1. QuotaInv /\ [Next]_vars
        => [Decides =>
              \A allowed \in {Allowed(ActiveJobs)} : \A j \in PassedOver(allowed) :
                \/ job[j].vc \in excused
                \/ \E i \in Batch \ ActiveJobs :
                     /\ batch[i] \in Active /\ ~job[i].preempt
                     /\ job[i].vc = job[j].vc /\ job[i].type = job[j].type]_vars
  BY PassedOverStep
<1> QED
  BY <1>1, QuotaCorrect, PTL DEF Spec, PassedOverForEnded

LEMMA PreemptedStep ==
  ASSUME QuotaInv, Decides, NEW j \in Preempted(Allowed(ActiveJobs)), job[j].vc \notin excused
  PROVE  \E i \in Jobs :
           /\ job[i].vc = job[j].vc /\ job[i].type = job[j].type
           /\ \/ i \in Submitted(Allowed(ActiveJobs)) /\ ~job[i].preempt
              \/ batch[i] \in Active /\ i \notin ActiveJobs
<1> SUFFICES ASSUME \A i \in Jobs :
                      ~(/\ job[i].vc = job[j].vc /\ job[i].type = job[j].type
                        /\ \/ i \in Submitted(Allowed(ActiveJobs)) /\ ~job[i].preempt
                           \/ batch[i] \in Active /\ i \notin ActiveJobs)
             PROVE  FALSE
  OBVIOUS
<1>0. TypeOK /\ batch # NoBatch /\ report # NoReport
  BY DEF QuotaInv, Decides
<1>1. j \in Jobs /\ j \notin Allowed(ActiveJobs) /\ job[j].preempt /\ batch[j] \in Active
  BY DEF Preempted
<1>2. j \in ActiveJobs /\ j \in Batch
  BY <1>1 DEF Batch, Active
<1>3. ASSUME NEW i \in Earlier(j) \cap Allowed(ActiveJobs),
             job[i].vc = job[j].vc, job[i].type = job[j].type
      PROVE  i \in ActiveJobs
  <2>1. i \in Batch /\ SortKey(i) < SortKey(j) /\ i \in Jobs
    BY <1>0, BatchType DEF Earlier
  <2>2. CASE batch[i] \in Active
    BY <1>3, <2>1, <2>2
  <2>3. CASE batch[i] = "queued"
    <3>1. job[i].preempt
      BY <1>3, <2>1, <2>3 DEF Submitted
    <3>2. job[i].preempt = job[j].preempt
      BY <1>0, <1>1, <2>1, <3>1, JobType
    <3>3. batch[i] \in Active
      BY <1>0, <1>1, <1>2, <2>1, <3>2, SortKeyOrder
    <3> QED
      BY <1>3, <2>1, <3>3
  <2> QED
    BY <1>0, <2>1, <2>2, <2>3, BatchType
<1>4. j \in Allowed(ActiveJobs)
  BY <1>0, <1>1, <1>2, <1>3, ActiveFits
<1> QED
  BY <1>1, <1>4

\* A job of a VC that is not excused is preempted only to make room for a non-preemptible
\* job the round submits, or for one that ended after the round read the jobs.
THEOREM PreemptedToMakeRoomHolds == Spec => PreemptedToMakeRoom
<1>1. QuotaInv /\ [Next]_vars
        => [Decides =>
              \A allowed \in {Allowed(ActiveJobs)} :
              LET Needs(i, j) == /\ job[i].vc = job[j].vc /\ job[i].type = job[j].type
                                 /\ \/ i \in Submitted(allowed) /\ ~job[i].preempt
                                    \/ batch[i] \in Active /\ i \notin ActiveJobs
              IN \A j \in Preempted(allowed) :
                   job[j].vc \in excused \/ \E i \in Jobs : Needs(i, j)]_vars
  BY PreemptedStep
<1> QED
  BY <1>1, QuotaCorrect, PTL DEF Spec, PreemptedToMakeRoom
-----------------------------------------------------------------------------
(***************************************************************************)
(* What a round allows in all VCs together.                                *)
(***************************************************************************)
LEMMA DivTimes == \A a \in Nat, b \in Nat : b # 0 => b * (a \div b) <= a
  OBVIOUS

LEMMA TimesAdd == \A a, b, c \in Nat : a * (b + c) = a * b + a * c
  OBVIOUS

LEMMA TimesCancel == \A a, b, c \in Nat : c # 0 /\ c * a <= b * c => a <= b
  OBVIOUS
LEMMA CellsType ==
  ASSUME NEW w, \A v \in VCs : w[v] \in Nat
  PROVE  Cardinality(Cells(w, VCs)) \in Nat
<1>1. \A v \in VCs : w[v] \in Int
  OBVIOUS
<1> QED
  BY <1>1, VCsAssumption, CellsFinite

LEMMA CellsWith ==
  ASSUME NEW U, U \subseteq VCs, NEW v \in U, NEW w, \A x \in VCs : w[x] \in Nat
  PROVE  /\ Cardinality(Cells(w, U)) = Cardinality(Cells(w, U \ {v})) + w[v]
         /\ Cardinality(Cells(w, U)) \in Nat /\ Cardinality(Cells(w, U \ {v})) \in Nat
<1>1. IsFiniteSet(U) /\ IsFiniteSet(U \ {v}) /\ IsFiniteSet({v})
  BY VCsAssumption, FS_Subset, FS_Singleton
<1>2. (U \ {v}) \cap {v} = {} /\ (U \ {v}) \cup {v} = U
  OBVIOUS
<1>3. \A x \in U : w[x] \in Int
  OBVIOUS
<1>4. Cardinality(Cells(w, (U \ {v}) \cup {v}))
        = Cardinality(Cells(w, U \ {v})) + Cardinality(Cells(w, {v}))
  BY <1>1, <1>2, <1>3, CellsAdd
<1>5. Cardinality(Cells(w, {v})) = w[v]
  BY CellsOne
<1>6. Cardinality(Cells(w, U)) \in Nat /\ Cardinality(Cells(w, U \ {v})) \in Nat
  BY <1>1, <1>3, CellsFinite
<1> QED
  BY <1>2, <1>4, <1>5, <1>6

\* Shares of m in the proportion of weights that sum to s are together no more than m.
LEMMA SharesFit ==
  ASSUME NEW w, \A v \in VCs : w[v] \in Nat, NEW a, \A v \in VCs : a[v] \in Nat,
         NEW m \in Nat, NEW s \in Nat, s # 0, s = Cardinality(Cells(w, VCs)),
         \A v \in VCs : s * a[v] <= m * w[v]
  PROVE  Cardinality(Cells(a, VCs)) <= m
<1> DEFINE B == {U \in SUBSET VCs : s * Cardinality(Cells(a, U)) <= m * Cardinality(Cells(w, U))}
<1>1. {} \in B
  <2>1. Cardinality(Cells(a, {})) = 0 /\ Cardinality(Cells(w, {})) = 0
    BY CellsNone
  <2>2. s * 0 <= m * 0
    OBVIOUS
  <2> QED
    BY <2>1, <2>2
<1>2. ASSUME NEW U \in SUBSET VCs, U # {}, \A v \in U : U \ {v} \in B PROVE U \in B
  <2>1. PICK v \in U : v \in VCs
    BY <1>2
  <2> DEFINE x == Cardinality(Cells(a, U \ {v}))
             y == Cardinality(Cells(w, U \ {v}))
  <2>2. Cardinality(Cells(a, U)) = x + a[v] /\ x \in Nat
    BY CellsWith
  <2>3. Cardinality(Cells(w, U)) = y + w[v] /\ y \in Nat
    BY CellsWith
  <2>4. s * x <= m * y /\ s * a[v] <= m * w[v]
    BY <1>2, <2>1
  <2>5. a[v] \in Nat /\ w[v] \in Nat
    BY <2>1
  <2> HIDE DEF x, y
  <2>6. s * (x + a[v]) = s * x + s * a[v] /\ m * (y + w[v]) = m * y + m * w[v]
    BY <2>2, <2>3, <2>5, TimesAdd
  <2>7. s * x \in Nat /\ s * a[v] \in Nat /\ m * y \in Nat /\ m * w[v] \in Nat
    BY <2>2, <2>3, <2>5, TimesType
  <2>8. s * (x + a[v]) <= m * (y + w[v])
    BY <2>4, <2>6, <2>7
  <2> QED
    BY <2>2, <2>3, <2>8
<1> HIDE DEF B
<1>3. VCs \in B
  <2>1. \A U \in SUBSET VCs : U # {} /\ (\A v \in U : U \ {v} \in B) => U \in B
    BY <1>2
  <2> QED
    BY <1>1, <2>1, VCsAssumption, SubsetInduction
<1>4. Cardinality(Cells(a, VCs)) \in Nat
  BY CellsType
<1>5. s * Cardinality(Cells(a, VCs)) <= m * s
  BY <1>3 DEF B
<1> QED
  BY <1>4, <1>5, TimesCancel

\* The devices that are made available to the VCs are free.
Availables(c, t) == [v \in VCs |-> Available(c, Claims(c, Withheld(Shares(c))))[v][t]]

LEMMA AvailableFree ==
  ASSUME NEW c, Calculable(c), NEW t \in Types
  PROVE  Cardinality(Cells(Availables(c, t), VCs)) <= c.free[t]
<1> DEFINE claims == Claims(c, Withheld(Shares(c)))
           w == [v \in VCs |-> claims[v][t]]
           a == Availables(c, t)
           s == SumOver(claims, t)
           m == Least(c.free[t], s)
<1>1. \A v \in VCs : claims[v][t] \in Nat
  <2> DEFINE withheld == Withheld(Shares(c))
  <2>1. \A v \in VCs : withheld[v][t] \in Nat
    BY WithheldType
  <2>2. claims = Claims(c, withheld)
    OBVIOUS
  <2> HIDE DEF withheld, claims
  <2> QED
    BY <2>1, <2>2 DEF Claims, AtLeast0, Calculable
<1>2. \A v \in VCs : a[v] \in Nat
  BY AvailableType DEF Availables
<1>3. \A v \in VCs : a[v] = IF s = 0 THEN 0 ELSE (m * claims[v][t]) \div s
  <2> HIDE DEF claims
  <2>1. a = [v \in VCs |-> Available(c, claims)[v][t]]
    BY DEF claims, Availables
  <2> QED
    BY <2>1 DEF Available
<1> HIDE DEF claims
<1>4. s \in Nat
  BY <1>1, SumOverType
<1>5. s = Cardinality(Cells(w, VCs))
  BY SumOverIs
<1> HIDE DEF s, a
<1>6. c.free[t] \in Nat /\ m \in Nat /\ m <= c.free[t]
  BY <1>4 DEF Least, Calculable
<1> HIDE DEF m
<1>7. CASE s = 0
  <2>1. \A v \in VCs : a[v] = 0
    BY <1>3, <1>7
  <2>2. Cells(a, VCs) = {}
    BY <2>1 DEF Cells
  <2> QED
    BY <1>6, <2>2, FS_EmptySet DEF a
<1>8. CASE s # 0
  <2>1. ASSUME NEW v \in VCs PROVE w[v] \in Nat /\ s * a[v] <= m * w[v]
    <3>1. w[v] = claims[v][t] /\ w[v] \in Nat
      BY <1>1
    <3>2. m * w[v] \in Nat
      BY <1>6, <3>1, TimesType
    <3>3. a[v] = (m * w[v]) \div s
      BY <1>3, <1>8, <3>1
    <3> QED
      BY <1>4, <1>8, <3>1, <3>2, <3>3, DivTimes
  <2>2. Cardinality(Cells(a, VCs)) \in Nat
    BY <1>2, CellsType
  <2> HIDE DEF w
  <2>3. Cardinality(Cells(a, VCs)) <= m
    BY <1>2, <1>4, <1>5, <1>6, <1>8, <2>1, SharesFit
  <2>4. Cardinality(Cells(a, VCs)) <= c.free[t]
    BY <1>6, <2>2, <2>3
  <2> QED
    BY <2>4 DEF a
<1> QED
  BY <1>7, <1>8

LEMMA SchedulableAvailable ==
  ASSUME NEW c, Calculable(c), NEW v \in VCs, NEW t \in Types
  PROVE  /\ Availables(c, t)[v] \in Nat
         /\ Schedulable(c)[v][t] <= c.used[v][t] + Availables(c, t)[v]
<1> DEFINE available == Available(c, Claims(c, Withheld(Shares(c))))
<1>1. Availables(c, t)[v] = available[v][t] /\ available[v][t] \in Nat
  BY AvailableType DEF Availables
<1>2. Schedulable(c) = NotUnschedulable(c, available)
  BY DEF Schedulable
<1> HIDE DEF available
<1>3. Schedulable(c)[v][t]
        = c.quota[v][t] - AtLeast0(c.quota[v][t] - c.used[v][t] - available[v][t])
  BY <1>2 DEF NotUnschedulable
<1>4. c.quota[v][t] \in Nat /\ c.used[v][t] \in Nat
  BY DEF Calculable
<1> QED
  BY <1>1, <1>3, <1>4 DEF AtLeast0
LEMMA ReportStep ==
  ASSUME TypeOK, ReportOK, Decides, NEW t \in Types
  PROVE  Sizes({j \in Allowed(ActiveJobs) : job[j].type = t})
           <= Sizes({j \in ActiveJobs : job[j].type = t}) + report.free[t]
<1> DEFINE c == Calculation(ActiveJobs)
           left == Left(ActiveJobs)
           A == AllowedIn(left)
           a == Availables(c, t)
           In(S, U) == {j \in S : job[j].type = t /\ job[j].vc \in U}
           B == {U \in SUBSET VCs :
                   Sizes(In(A, U)) <= Sizes(In(ActiveJobs, U)) + Cardinality(Cells(a, U))}
<1>1. /\ Allowed(ActiveJobs) = A /\ left = Schedulable(c)
      /\ c.free = report.free
      /\ \A v \in VCs, s \in Types : /\ c.quota[v][s] = quota[v][s]
                                     /\ c.used[v][s] = Sizes(Of(ActiveJobs, v, s))
      /\ c.total = report.total /\ c.reserved = report.reserved
  BY DEF Allowed, Left, Calculation
<1> HIDE DEF c, left
<1>2. ActiveJobs \subseteq Jobs /\ A \subseteq Batch /\ A \subseteq Jobs
        /\ \A j \in A : Fits(A, left, j)
  BY AllowedFit, BatchType DEF ActiveJobs
<1> HIDE DEF A
<1>3. \A v \in VCs, s \in Types : Sizes(Of(ActiveJobs, v, s)) \in Nat /\ quota[v][s] \in Nat
  <2> SUFFICES ASSUME NEW v \in VCs, NEW s \in Types
               PROVE  Sizes(Of(ActiveJobs, v, s)) \in Nat /\ quota[v][s] \in Nat
    OBVIOUS
  <2>1. Of(ActiveJobs, v, s) \subseteq Jobs
    BY <1>2 DEF Of
  <2> QED
    BY <2>1, SizesType, QuotaType
<1>4. Calculable(c)
  BY <1>1, <1>3 DEF Calculable, ReportOK, Decides
<1>5. \A v \in VCs : a[v] \in Nat /\ left[v][t] \in Int
                       /\ left[v][t] <= Sizes(Of(ActiveJobs, v, t)) + a[v]
  BY <1>1, <1>4, SchedulableAvailable, SchedulableBounds
<1>6. Cardinality(Cells(a, VCs)) <= report.free[t] /\ Cardinality(Cells(a, VCs)) \in Nat
        /\ report.free[t] \in Nat
  BY <1>1, <1>4, <1>5, AvailableFree, CellsType DEF Calculable
<1> HIDE DEF a
<1>7. ASSUME NEW v \in VCs
      PROVE  Sizes(Of(A, v, t)) <= Sizes(Of(ActiveJobs, v, t)) + a[v]
  <2>1. Of(A, v, t) \subseteq Jobs
    BY <1>2 DEF Of
  <2>2. CASE Of(A, v, t) = {}
    BY <1>3, <1>5, <2>2, SizesNone
  <2>3. CASE Of(A, v, t) # {}
    <3>1. Sizes(Of(A, v, t)) <= left[v][t]
      BY <1>2, <2>3, AllowedWithinLeft
    <3>2. Sizes(Of(A, v, t)) \in Nat
      BY <2>1, SizesType
    <3> QED
      BY <1>3, <1>5, <3>1, <3>2
  <2> QED
    BY <2>2, <2>3
<1>8. {} \in B
  <2>1. In(A, {}) = {} /\ In(ActiveJobs, {}) = {}
    OBVIOUS
  <2>2. Sizes({}) <= Sizes({}) + Cardinality(Cells(a, {}))
    BY SizesNone, CellsNone
  <2> HIDE DEF In
  <2> QED
    BY <2>1, <2>2
<1>9. ASSUME NEW U \in SUBSET VCs, NEW v \in U, U \ {v} \in B PROVE U \in B
  <2>1. \A S \in SUBSET Jobs : /\ In(S, U) = In(S, U \ {v}) \cup Of(S, v, t)
                               /\ In(S, U \ {v}) \cap Of(S, v, t) = {}
                               /\ In(S, U \ {v}) \subseteq Jobs /\ Of(S, v, t) \subseteq Jobs
    BY DEF Of
  <2> HIDE DEF In
  <2>2. \A S \in SUBSET Jobs :
          /\ Sizes(In(S, U)) = Sizes(In(S, U \ {v})) + Sizes(Of(S, v, t))
          /\ Sizes(In(S, U \ {v})) \in Nat /\ Sizes(Of(S, v, t)) \in Nat
    BY <2>1, SizesAdd, SizesType
  <2>3. /\ Sizes(In(A, U)) = Sizes(In(A, U \ {v})) + Sizes(Of(A, v, t))
        /\ Sizes(In(A, U \ {v})) \in Nat /\ Sizes(Of(A, v, t)) \in Nat
        /\ Sizes(In(ActiveJobs, U)) = Sizes(In(ActiveJobs, U \ {v})) + Sizes(Of(ActiveJobs, v, t))
        /\ Sizes(In(ActiveJobs, U \ {v})) \in Nat /\ Sizes(Of(ActiveJobs, v, t)) \in Nat
    BY <1>2, <2>2
  <2>4. /\ Cardinality(Cells(a, U)) = Cardinality(Cells(a, U \ {v})) + a[v]
        /\ Cardinality(Cells(a, U \ {v})) \in Nat
    BY <1>5, CellsWith
  <2>5. Sizes(In(A, U \ {v})) <= Sizes(In(ActiveJobs, U \ {v})) + Cardinality(Cells(a, U \ {v}))
    BY <1>9
  <2>6. Sizes(Of(A, v, t)) <= Sizes(Of(ActiveJobs, v, t)) + a[v] /\ a[v] \in Nat
    BY <1>5, <1>7
  <2>7. Sizes(In(A, U)) <= Sizes(In(ActiveJobs, U)) + Cardinality(Cells(a, U))
    BY <2>3, <2>4, <2>5, <2>6
  <2> QED
    BY <2>7
<1>10. /\ In(A, VCs) = {j \in A : job[j].type = t}
       /\ In(ActiveJobs, VCs) = {j \in ActiveJobs : job[j].type = t}
  BY <1>2, JobType
<1>11. Sizes(In(ActiveJobs, VCs)) \in Nat /\ Sizes(In(A, VCs)) \in Nat
  BY <1>2, <1>10, SizesType
<1> HIDE DEF B, In
<1>12. VCs \in B
  <2>1. \A U \in SUBSET VCs : U # {} /\ (\A v \in U : U \ {v} \in B) => U \in B
    BY <1>9
  <2> QED
    BY <1>8, <2>1, VCsAssumption, SubsetInduction
<1>13. Sizes(In(A, VCs)) <= Sizes(In(ActiveJobs, VCs)) + Cardinality(Cells(a, VCs))
  BY <1>12 DEF B
<1>14. Sizes(In(A, VCs)) <= Sizes(In(ActiveJobs, VCs)) + report.free[t]
  BY <1>6, <1>11, <1>13
<1> QED
  BY <1>1, <1>10, <1>14

\* However the quotas and the report disagree, what a round allows in all VCs together is
\* no more than what the active jobs hold plus what was reported free.
THEOREM AllowedWithinReportHolds == Spec => AllowedWithinReport
<1>1. TypeOK /\ ReportOK /\ [Next]_vars
        => [Decides =>
              \A allowed \in {Allowed(ActiveJobs)}, t \in Types :
                Sizes({j \in allowed : job[j].type = t})
                  <= Sizes({j \in ActiveJobs : job[j].type = t}) + report.free[t]]_vars
  BY ReportStep
<1> QED
  BY <1>1, ReportCorrect, PTL DEF Spec, AllowedWithinReport
=============================================================================
