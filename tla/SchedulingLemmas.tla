-------------------------- MODULE SchedulingLemmas ---------------------------
(***************************************************************************)
(* What the operators of JobScheduling compute, for any virtual clusters,  *)
(* kinds of devices, workloads, users and quotas: sums of devices, the     *)
(* order of a round, and the jobs a round allows.                          *)
(***************************************************************************)
EXTENDS JobScheduling, SetLemmas

-----------------------------------------------------------------------------
(***************************************************************************)
(* Sums over finite sets.                                                  *)
(***************************************************************************)
\* What a sum counts: w[x] cells for each x.
Cells(w, S) == UNION {{x} \X (1..w[x]) : x \in S}

LEMMA CellsFinite ==
  ASSUME NEW S, IsFiniteSet(S), NEW w, \A x \in S : w[x] \in Int
  PROVE  IsFiniteSet(Cells(w, S)) /\ Cardinality(Cells(w, S)) \in Nat
<1> DEFINE Parts == {{x} \X (1..w[x]) : x \in S}
           f == [x \in S |-> {x} \X (1..w[x])]
<1>1. f \in Surjection(S, Parts)
  BY DEF Surjection
<1>2. IsFiniteSet(Parts)
  BY <1>1, FS_Surjection
<1>3. ASSUME NEW x \in S PROVE IsFiniteSet({x} \X (1..w[x]))
  <2>1. IsFiniteSet({x})
    BY FS_Singleton
  <2>2. w[x] \in Int /\ IsFiniteSet(1..w[x])
    BY FS_Interval
  <2> QED
    BY <2>1, <2>2, FS_Product
<1> QED
  BY <1>2, <1>3, FS_UNION, FS_CardinalityType DEF Cells

LEMMA CellsNone == ASSUME NEW w PROVE Cardinality(Cells(w, {})) = 0
<1>1. Cells(w, {}) = {}
  BY DEF Cells
<1> QED
  BY <1>1, FS_EmptySet

LEMMA CellsOne ==
  ASSUME NEW w, NEW x, w[x] \in Nat
  PROVE  Cardinality(Cells(w, {x})) = w[x]
<1>1. Cells(w, {x}) = {x} \X (1..w[x])
  BY DEF Cells
<1>2. IsFiniteSet({x}) /\ Cardinality({x}) = 1
  BY FS_Singleton
<1>3. IsFiniteSet(1..w[x]) /\ Cardinality(1..w[x]) = w[x]
  BY FS_Interval
<1>4. Cardinality({x} \X (1..w[x])) = Cardinality({x}) * Cardinality(1..w[x])
  BY <1>2, <1>3, FS_Product
<1>5. \A n \in Nat : 1 * n = n
  OBVIOUS
<1>6. Cardinality({x} \X (1..w[x])) = w[x]
  BY <1>2, <1>3, <1>4, <1>5
<1> QED
  BY <1>1, <1>6, Zenon

LEMMA CellsGrow ==
  ASSUME NEW T, IsFiniteSet(T), NEW S, S \subseteq T, NEW w, \A x \in T : w[x] \in Int
  PROVE  Cardinality(Cells(w, S)) <= Cardinality(Cells(w, T))
<1>1. Cells(w, S) \subseteq Cells(w, T)
  BY DEF Cells
<1> QED
  BY <1>1, CellsFinite, FS_Subset

LEMMA CellsAdd ==
  ASSUME NEW S, IsFiniteSet(S), NEW T, IsFiniteSet(T), S \cap T = {},
         NEW w, \A x \in S \cup T : w[x] \in Int
  PROVE  Cardinality(Cells(w, S \cup T)) = Cardinality(Cells(w, S)) + Cardinality(Cells(w, T))
<1>1. Cells(w, S \cup T) = Cells(w, S) \cup Cells(w, T)
  BY DEF Cells
<1>2. Cells(w, S) \cap Cells(w, T) = {}
  BY DEF Cells
<1>3. /\ IsFiniteSet(Cells(w, S)) /\ Cardinality(Cells(w, S)) \in Nat
      /\ IsFiniteSet(Cells(w, T)) /\ Cardinality(Cells(w, T)) \in Nat
  <2>1. (\A x \in S : w[x] \in Int) /\ (\A x \in T : w[x] \in Int)
    OBVIOUS
  <2> QED
    BY <2>1, CellsFinite
<1>4. Cardinality(Cells(w, S) \cup Cells(w, T))
        = Cardinality(Cells(w, S)) + Cardinality(Cells(w, T))
            - Cardinality(Cells(w, S) \cap Cells(w, T))
  BY <1>3, FS_Union
<1>5. Cardinality(Cells(w, S) \cap Cells(w, T)) = 0
  BY <1>2, FS_EmptySet
<1>6. \A a, b \in Nat : a + b - 0 = a + b
  OBVIOUS
<1>7. Cardinality(Cells(w, S) \cup Cells(w, T))
        = Cardinality(Cells(w, S)) + Cardinality(Cells(w, T))
  BY <1>3, <1>4, <1>5, <1>6
<1> QED
  BY <1>1, <1>7, Zenon

-----------------------------------------------------------------------------
(***************************************************************************)
(* The devices that jobs ask for.                                          *)
(***************************************************************************)
SizeOf == [j \in Jobs |-> job[j].size]

LEMMA JobType ==
  ASSUME TypeOK, NEW j \in Jobs
  PROVE  /\ job[j].vc \in VCs /\ job[j].type \in Types /\ job[j].size \in Nat
         /\ job[j].user \in Users /\ job[j].preempt \in BOOLEAN
         /\ job[j].priority \in Priorities
<1>1. job \in [Jobs -> [vc : VCs, type : Types, size : Nat, user : Users,
                        preempt : BOOLEAN, priority : Priorities]]
  BY WorkloadsAssumption DEF TypeOK
<1> QED
  BY <1>1

LEMMA JobsFinite == IsFiniteSet(Jobs) /\ \A S \in SUBSET Jobs : IsFiniteSet(S)
<1>1. PICK n \in Int : Jobs \in SUBSET (0..n)
  BY JobsAssumption, SMT
<1>2. IsFiniteSet(0..n)
  BY FS_Interval
<1>3. IsFiniteSet(Jobs)
  BY <1>1, <1>2, FS_Subset
<1> QED
  BY <1>3, FS_Subset

LEMMA SizesAreCells ==
  ASSUME NEW S, S \subseteq Jobs
  PROVE  Sizes(S) = Cardinality(Cells(SizeOf, S))
<1>1. {{x} \X (1..SizeOf[x]) : x \in S} = {{x} \X (1..job[x].size) : x \in S}
  BY DEF SizeOf
<1> QED
  BY <1>1, Zenon DEF Sizes, Total, Cells

LEMMA SizeOfType == TypeOK => \A j \in Jobs : SizeOf[j] = job[j].size /\ SizeOf[j] \in Nat
<1> SUFFICES ASSUME TypeOK, NEW j \in Jobs
             PROVE  SizeOf[j] = job[j].size /\ SizeOf[j] \in Nat
  OBVIOUS
<1> QED
  BY JobType DEF SizeOf

LEMMA SizesType ==
  ASSUME TypeOK, NEW S, S \subseteq Jobs
  PROVE  Sizes(S) \in Nat
<1>1. \A j \in S : SizeOf[j] \in Int
  BY SizeOfType
<1> QED
  BY <1>1, JobsFinite, SizesAreCells, CellsFinite

LEMMA SizesNone == Sizes({}) = 0
  BY SizesAreCells, CellsNone

LEMMA SizesGrow ==
  ASSUME TypeOK, NEW T, T \subseteq Jobs, NEW S, S \subseteq T
  PROVE  Sizes(S) <= Sizes(T)
<1>1. \A j \in T : SizeOf[j] \in Int
  BY SizeOfType
<1>2. Cardinality(Cells(SizeOf, S)) <= Cardinality(Cells(SizeOf, T))
  BY <1>1, JobsFinite, CellsGrow
<1>3. Sizes(S) = Cardinality(Cells(SizeOf, S)) /\ Sizes(T) = Cardinality(Cells(SizeOf, T))
  BY SizesAreCells
<1> QED
  BY <1>2, <1>3

LEMMA SizesAdd ==
  ASSUME TypeOK, NEW S, S \subseteq Jobs, NEW T, T \subseteq Jobs, S \cap T = {}
  PROVE  Sizes(S \cup T) = Sizes(S) + Sizes(T)
<1>1. \A j \in S \cup T : SizeOf[j] \in Int
  BY SizeOfType
<1>2. Cardinality(Cells(SizeOf, S \cup T))
        = Cardinality(Cells(SizeOf, S)) + Cardinality(Cells(SizeOf, T))
  BY <1>1, JobsFinite, CellsAdd
<1>3. /\ Sizes(S) = Cardinality(Cells(SizeOf, S)) /\ Sizes(T) = Cardinality(Cells(SizeOf, T))
      /\ Sizes(S \cup T) = Cardinality(Cells(SizeOf, S \cup T))
  BY SizesAreCells
<1> QED
  BY <1>2, <1>3

LEMMA SizesWith ==
  ASSUME TypeOK, NEW S, S \subseteq Jobs, NEW j \in Jobs, j \notin S
  PROVE  Sizes(S \cup {j}) = Sizes(S) + job[j].size
<1>1. Sizes(S \cup {j}) = Sizes(S) + Sizes({j})
  BY SizesAdd
<1>2. Sizes({j}) = Cardinality(Cells(SizeOf, {j}))
  BY SizesAreCells
<1>3. Cardinality(Cells(SizeOf, {j})) = SizeOf[j]
  BY SizeOfType, CellsOne
<1> QED
  BY <1>1, <1>2, <1>3, SizeOfType

-----------------------------------------------------------------------------
(***************************************************************************)
(* The order of a round, and whom it allows.                               *)
(***************************************************************************)
LEMMA BatchType ==
  ASSUME TypeOK
  PROVE  /\ Batch \subseteq Jobs
         /\ \A j \in Batch : batch[j] \in {"queued"} \cup Active
  BY DEF TypeOK, Batch

\* A sort key, as a number made of three columns.
Key(p, r, q, j) == ((p + r) * 1000000 + (999999 - q)) * 100 + j

Column(j) == IF job[j].preempt THEN 3 ELSE 0

LEMMA SortKeyIs ==
  ASSUME TypeOK, NEW j \in Batch
  PROVE  /\ j \in Jobs /\ j \in 0..99 /\ job[j].priority \in 1..1000
         /\ Rank(batch[j]) \in 0..2 /\ (Rank(batch[j]) = 2 <=> batch[j] = "queued")
         /\ (batch[j] = "queued" <=> batch[j] \notin Active)
         /\ Column(j) \in {0, 3} /\ (Column(j) = 3 <=> job[j].preempt)
         /\ SortKey(j) = Key(Column(j), Rank(batch[j]), job[j].priority, j)
<1>1. /\ Rank(batch[j]) \in 0..2 /\ (Rank(batch[j]) = 2 <=> batch[j] = "queued")
      /\ (batch[j] = "queued" <=> batch[j] \notin Active)
  BY BatchType DEF Rank, Active
<1>2. j \in Jobs /\ j \in 0..99
  BY BatchType, JobsAssumption
<1>3. job[j].priority \in 1..1000 /\ job[j].preempt \in BOOLEAN
  BY <1>2, JobType DEF Priorities
<1>4. SortKey(j) = Key(Column(j), Rank(batch[j]), job[j].priority, j)
  BY SMT DEF SortKey, Key, Column
<1> QED
  BY <1>1, <1>2, <1>3, <1>4 DEF Column

LEMMA SortKeyType == ASSUME TypeOK, NEW j \in Batch PROVE SortKey(j) \in Int
<1> DEFINE p == Column(j)
           r == Rank(batch[j])
           q == job[j].priority
<1>1. p \in {0, 3} /\ r \in 0..2 /\ q \in 1..1000 /\ j \in 0..99 /\ SortKey(j) = Key(p, r, q, j)
  BY SortKeyIs
<1> HIDE DEF p, r, q
<1>2. Key(p, r, q, j) \in Int
  BY <1>1, SMT DEF Key
<1> QED
  BY <1>1, <1>2

\* What the sort keys compare: a preemptible job never precedes another, a queued job no
\* active one of its kind, and of two queued jobs of a kind the better one goes first.
LEMMA SortKeyOrder ==
  ASSUME TypeOK, NEW i \in Batch, NEW j \in Batch
  PROVE  /\ SortKey(i) = SortKey(j) => i = j
         /\ SortKey(i) < SortKey(j) /\ job[i].preempt => job[j].preempt
         /\ SortKey(i) < SortKey(j) /\ job[i].preempt = job[j].preempt /\ batch[j] \in Active
              => batch[i] \in Active
         /\ job[i].preempt = job[j].preempt /\ batch[i] = batch[j]
              /\ (\/ job[i].priority > job[j].priority
                  \/ job[i].priority = job[j].priority /\ i < j)
              => SortKey(i) < SortKey(j)
<1> DEFINE pi == Column(i)
           pj == Column(j)
           ri == Rank(batch[i])
           rj == Rank(batch[j])
           qi == job[i].priority
           qj == job[j].priority
<1>1. /\ pi \in {0, 3} /\ ri \in 0..2 /\ qi \in 1..1000 /\ i \in 0..99
      /\ pj \in {0, 3} /\ rj \in 0..2 /\ qj \in 1..1000 /\ j \in 0..99
      /\ SortKey(i) = Key(pi, ri, qi, i) /\ SortKey(j) = Key(pj, rj, qj, j)
  BY SortKeyIs
<1>2. /\ (pi = 3 <=> job[i].preempt) /\ (pj = 3 <=> job[j].preempt)
      /\ (ri = 2 <=> batch[i] \notin Active) /\ (rj = 2 <=> batch[j] \notin Active)
  BY SortKeyIs
<1>3. /\ job[i].preempt = job[j].preempt => pi = pj
      /\ batch[i] = batch[j] => ri = rj
      /\ qi = job[i].priority /\ qj = job[j].priority
  BY DEF Column
<1> HIDE DEF pi, pj, ri, rj, qi, qj
<1>4. /\ Key(pi, ri, qi, i) = Key(pj, rj, qj, j) => i = j
      /\ Key(pi, ri, qi, i) < Key(pj, rj, qj, j) => pi <= pj
      /\ Key(pi, ri, qi, i) < Key(pj, rj, qj, j) /\ pi = pj => ri <= rj
      /\ pi = pj /\ ri = rj /\ (qi > qj \/ (qi = qj /\ i < j))
           => Key(pi, ri, qi, i) < Key(pj, rj, qj, j)
  <2>1. /\ pi \in {0, 3} /\ ri \in 0..2 /\ qi \in 1..1000 /\ i \in 0..99
        /\ pj \in {0, 3} /\ rj \in 0..2 /\ qj \in 1..1000 /\ j \in 0..99
    BY <1>1
  <2>2. Key(pi, ri, qi, i) = Key(pj, rj, qj, j) => i = j
    <3> DEFINE hi == (pi + ri) * 1000000 + (999999 - qi)
               hj == (pj + rj) * 1000000 + (999999 - qj)
    <3>1. hi \in Int /\ hj \in Int /\ i \in 0..99 /\ j \in 0..99
      BY <2>1, SMT
    <3>2. Key(pi, ri, qi, i) = hi * 100 + i /\ Key(pj, rj, qj, j) = hj * 100 + j
      BY SMT DEF Key
    <3> HIDE DEF hi, hj
    <3>3. hi * 100 + i = hj * 100 + j => i = j
      BY <3>1, SMT
    <3> QED
      BY <3>2, <3>3
  <2>3. Key(pi, ri, qi, i) < Key(pj, rj, qj, j) => pi <= pj
    BY <2>1, SMTT(30) DEF Key
  <2>4. Key(pi, ri, qi, i) < Key(pj, rj, qj, j) /\ pi = pj => ri <= rj
    BY <2>1, SMTT(30) DEF Key
  <2>5. pi = pj /\ ri = rj /\ (qi > qj \/ (qi = qj /\ i < j))
          => Key(pi, ri, qi, i) < Key(pj, rj, qj, j)
    BY <2>1, SMTT(30) DEF Key
  <2> QED
    BY <2>2, <2>3, <2>4, <2>5
<1>5. SortKey(i) = SortKey(j) => i = j
  BY <1>1, <1>4
<1>6. SortKey(i) < SortKey(j) /\ job[i].preempt => job[j].preempt
  <2>1. SortKey(i) < SortKey(j) => pi <= pj
    BY <1>1, <1>4
  <2>2. pi <= pj /\ pi = 3 => pj = 3
    BY <1>1
  <2> QED
    BY <1>2, <2>1, <2>2
<1>7. SortKey(i) < SortKey(j) /\ job[i].preempt = job[j].preempt /\ batch[j] \in Active
        => batch[i] \in Active
  <2>1. SortKey(i) < SortKey(j) /\ pi = pj => ri <= rj
    BY <1>1, <1>4
  <2>2. ri <= rj /\ ri = 2 => rj = 2
    BY <1>1
  <2> QED
    BY <1>2, <1>3, <2>1, <2>2
<1>8. job[i].preempt = job[j].preempt /\ batch[i] = batch[j]
        /\ (\/ job[i].priority > job[j].priority
            \/ job[i].priority = job[j].priority /\ i < j)
        => SortKey(i) < SortKey(j)
  <2> SUFFICES ASSUME job[i].preempt = job[j].preempt, batch[i] = batch[j],
                      \/ job[i].priority > job[j].priority
                      \/ job[i].priority = job[j].priority /\ i < j
               PROVE  SortKey(i) < SortKey(j)
    OBVIOUS
  <2>1. pi = pj /\ ri = rj /\ (qi > qj \/ (qi = qj /\ i < j))
    BY <1>3
  <2>2. Key(pi, ri, qi, i) < Key(pj, rj, qj, j)
    BY <1>4, <2>1
  <2> QED
    BY <1>1, <2>2
<1> QED
  BY <1>5, <1>6, <1>7, <1>8

\* A job fits with the allowed jobs A before it.
Fits(A, left, j) ==
  LET with  == Of((Earlier(j) \cap A) \cup {j}, job[j].vc, job[j].type)
      users == {i \in with : job[i].user = job[j].user}
  IN /\ Sizes(with) <= left[job[j].vc][job[j].type]
     /\ job[j].preempt \/ Sizes(users) <= UserQuota[job[j].vc][job[j].type]

\* The recursive function in AllowedIn is well defined: jobs can be gone through in the
\* order of the keys.
LEMMA SomeAllowed ==
  ASSUME TypeOK, NEW left
  PROVE  \E A \in SUBSET Batch : \A j \in Batch : j \in A <=> Fits(A, left, j)
<1> DEFINE Closed(U) == \A j \in U : Earlier(j) \subseteq U
           Right(U) == \E A \in SUBSET U : \A j \in U : j \in A <=> Fits(A, left, j)
           B == {U \in SUBSET Batch : Closed(U) => Right(U)}
<1>1. ASSUME NEW U \in SUBSET Batch, U # {}, \A v \in U : U \ {v} \in B, Closed(U)
      PROVE  Right(U)
  <2> DEFINE key == [j \in Batch |-> SortKey(j)]
  <2>1. IsFiniteSet(U) /\ \A j \in U : key[j] \in Int
    BY JobsFinite, BatchType, SortKeyType
  <2> HIDE DEF key
  <2>2. PICK v \in U : \A j \in U : key[j] <= key[v]
    BY <2>1, <1>1, LargestKey
  <2>3. \A j \in U : SortKey(j) <= SortKey(v)
    BY <2>2 DEF key
  <2>4. \A j \in U : v \notin Earlier(j)
    BY <2>3, SortKeyType DEF Earlier
  <2>5. Closed(U \ {v})
    BY <1>1, <2>4
  <2>6. PICK A \in SUBSET (U \ {v}) : \A j \in U \ {v} : j \in A <=> Fits(A, left, j)
    BY <1>1, <2>5
  <2> DEFINE AA == IF Fits(A, left, v) THEN A \cup {v} ELSE A
  <2>7. \A j \in U : Earlier(j) \cap AA = Earlier(j) \cap A
    BY <2>4
  <2>8. \A j \in U : Fits(AA, left, j) <=> Fits(A, left, j)
    BY <2>7, Zenon DEF Fits
  <2>9. \A j \in U : j \in AA <=> Fits(AA, left, j)
    BY <2>6, <2>8
  <2> QED
    BY <2>9
<1> HIDE DEF Closed, Right
<1>2. {} \in B
  BY DEF Right
<1>3. \A U \in SUBSET Batch : U # {} /\ (\A v \in U : U \ {v} \in B) => U \in B
  BY <1>1
<1>4. IsFiniteSet(Batch)
  BY JobsFinite, BatchType
<1> HIDE DEF B
<1>5. Batch \in B
  BY <1>2, <1>3, <1>4, SubsetInduction
<1>6. Closed(Batch)
  BY DEF Closed, Earlier
<1> QED
  BY <1>5, <1>6 DEF B, Right

\* A job is allowed if, and only if, it fits with the allowed ones before it.
LEMMA AllowedFit ==
  ASSUME TypeOK, NEW left
  PROVE  /\ AllowedIn(left) \subseteq Batch
         /\ \A j \in Batch : j \in AllowedIn(left) <=> Fits(AllowedIn(left), left, j)
<1> DEFINE Body(f, j) ==
             LET with  == Of({i \in Earlier(j) : f[i]} \cup {j}, job[j].vc, job[j].type)
                 users == {i \in with : job[i].user = job[j].user}
             IN /\ Sizes(with) <= left[job[j].vc][job[j].type]
                /\ job[j].preempt \/ Sizes(users) <= UserQuota[job[j].vc][job[j].type]
           fits == CHOOSE f : f = [j \in Batch |-> Body(f, j)]
<1>1. AllowedIn(left) = {j \in Batch : fits[j]}
  BY DEF AllowedIn
<1>2. \A f, j : Body(f, j) <=> Fits({i \in Earlier(j) : f[i]}, left, j)
  <2> SUFFICES ASSUME NEW f, NEW j
               PROVE  Body(f, j) <=> Fits({i \in Earlier(j) : f[i]}, left, j)
    OBVIOUS
  <2>1. Earlier(j) \cap {i \in Earlier(j) : f[i]} = {i \in Earlier(j) : f[i]}
    OBVIOUS
  <2> QED
    BY <2>1, Zenon DEF Fits
<1>3. \A f, j : Body(f, j) \in BOOLEAN
  OBVIOUS
<1>4. \E f : f = [j \in Batch |-> Body(f, j)]
  <2>1. PICK A \in SUBSET Batch : \A j \in Batch : j \in A <=> Fits(A, left, j)
    BY SomeAllowed
  <2> DEFINE f == [j \in Batch |-> j \in A]
  <2>2. \A j : {i \in Earlier(j) : f[i]} = Earlier(j) \cap A
    BY DEF Earlier
  <2>3. \A j : Fits(Earlier(j) \cap A, left, j) <=> Fits(A, left, j)
    <3>1. \A j : Earlier(j) \cap (Earlier(j) \cap A) = Earlier(j) \cap A
      OBVIOUS
    <3> QED
      BY <3>1, Zenon DEF Fits
  <2>4. \A j \in Batch : Body(f, j) = (j \in A)
    <3> SUFFICES ASSUME NEW j \in Batch PROVE Body(f, j) = (j \in A)
      OBVIOUS
    <3>1. Body(f, j) <=> Fits({i \in Earlier(j) : f[i]}, left, j)
      BY <1>2
    <3>2. Fits({i \in Earlier(j) : f[i]}, left, j) <=> Fits(Earlier(j) \cap A, left, j)
      BY <2>2, Zenon
    <3>3. Body(f, j) <=> j \in A
      <4> HIDE DEF f, Body
      <4> QED
        BY <2>1, <2>3, <3>1, <3>2, Zenon
    <3>4. Body(f, j) \in BOOLEAN
      BY <1>3
    <3> HIDE DEF f, Body
    <3> QED
      BY <3>3, <3>4
  <2> HIDE DEF Body
  <2>5. f = [j \in Batch |-> Body(f, j)]
    BY <2>4
  <2> QED
    BY <2>5
<1>5. fits = [j \in Batch |-> Body(fits, j)]
  <2> HIDE DEF Body
  <2> QED
    BY <1>4
<1> HIDE DEF fits, Body
<1>6. \A j \in Batch : fits[j] <=> Body(fits, j)
  BY <1>5
<1>7. \A j \in Batch : {i \in Earlier(j) : fits[i]} = Earlier(j) \cap AllowedIn(left)
  BY <1>1 DEF Earlier
<1>8. \A j : Fits(Earlier(j) \cap AllowedIn(left), left, j) <=> Fits(AllowedIn(left), left, j)
  <2>1. \A j : Earlier(j) \cap (Earlier(j) \cap AllowedIn(left)) = Earlier(j) \cap AllowedIn(left)
    OBVIOUS
  <2> QED
    BY <2>1, Zenon DEF Fits
<1> QED
  BY <1>1, <1>2, <1>6, <1>7, <1>8
=============================================================================
