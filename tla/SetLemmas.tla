----------------------------- MODULE SetLemmas ------------------------------
(***************************************************************************)
(* Lemmas about finite sets that the proofs of several components rest on. *)
(***************************************************************************)
EXTENDS Integers, FiniteSetTheorems, TLAPS

\* Induction over the subsets of a finite set: B are those of which something holds.
LEMMA SubsetInduction ==
  ASSUME NEW V, IsFiniteSet(V), NEW B, {} \in B,
         \A U \in SUBSET V : U # {} /\ (\A v \in U : U \ {v} \in B) => U \in B
  PROVE  V \in B
<1> DEFINE Bad == (SUBSET V) \ B
<1> SUFFICES ASSUME V \notin B PROVE FALSE
  OBVIOUS
<1>1. Bad \subseteq FiniteSubsetsOf(V) /\ Bad # {}
  BY FS_FiniteSubsetsOfFinite
<1>2. IsWellFoundedOn(StrictSubsetOrdering(V), FiniteSubsetsOf(V))
  BY FS_StrictSubsetOrderingWellFounded
<1> HIDE DEF Bad
<1>3. PICK U \in Bad : \A W \in Bad : <<W, U>> \notin StrictSubsetOrdering(V)
  BY <1>1, <1>2, WFMin
<1> USE DEF Bad
<1>4. ASSUME NEW v \in U PROVE U \ {v} \in B
  <2>1. U \ {v} \in SUBSET V /\ U \ {v} \subseteq U /\ U \ {v} # U
    OBVIOUS
  <2>2. <<U \ {v}, U>> \in StrictSubsetOrdering(V)
    BY <2>1 DEF StrictSubsetOrdering
  <2> QED
    BY <1>3, <2>1, <2>2
<1> QED
  BY <1>4

\* A finite set that is not empty has an element with the largest key.
LEMMA LargestKey ==
  ASSUME NEW S, IsFiniteSet(S), S # {}, NEW key, \A x \in S : key[x] \in Int
  PROVE  \E x \in S : \A y \in S : key[y] <= key[x]
<1> DEFINE Has(U) == U = {} \/ \E x \in U : \A y \in U : key[y] <= key[x]
           B == {U \in SUBSET S : Has(U)}
<1>1. ASSUME NEW U \in SUBSET S, NEW v \in U, Has(U \ {v}) PROVE Has(U)
  <2>1. CASE U \ {v} = {}
    BY <2>1
  <2>2. ASSUME NEW x \in U \ {v}, \A y \in U \ {v} : key[y] <= key[x] PROVE Has(U)
    <3>1. CASE key[v] <= key[x]
      BY <2>2, <3>1
    <3>2. CASE ~(key[v] <= key[x])
      <4>1. \A y \in U : key[y] <= key[v]
        BY <2>2, <3>2
      <4> QED
        BY <4>1
    <3> QED
      BY <3>1, <3>2
  <2> QED
    BY <1>1, <2>1, <2>2
<1> HIDE DEF Has
<1>2. {} \in B
  BY DEF Has
<1>3. \A U \in SUBSET S : U # {} /\ (\A v \in U : U \ {v} \in B) => U \in B
  BY <1>1
<1> HIDE DEF B
<1>4. S \in B
  BY <1>2, <1>3, SubsetInduction
<1> QED
  BY <1>4 DEF B, Has

\* The elements of a finite set of numbers can be counted off in their order.
LEMMA CountedOff ==
  ASSUME NEW S, IsFiniteSet(S), S \subseteq Int, NEW n \in 1..Cardinality(S)
  PROVE  \E i \in S : Cardinality({k \in S : k <= i}) = n
<1> DEFINE UpTo(U, i) == {k \in U : k <= i}
           Counted(U) == \A m \in 1..Cardinality(U) : \E i \in U : Cardinality(UpTo(U, i)) = m
           B == {U \in SUBSET S : Counted(U)}
<1>1. Counted({})
  BY FS_EmptySet
<1>2. ASSUME NEW U \in SUBSET S, U # {}, \A v \in U : U \ {v} \in B PROVE Counted(U)
  <2>1. IsFiniteSet(U) /\ U \subseteq Int
    BY FS_Subset
  <2>2. PICK v \in U : \A k \in U : k <= v
    <3> DEFINE key == [k \in U |-> k]
    <3>1. \A x \in U : key[x] \in Int
      BY <2>1
    <3> HIDE DEF key
    <3>2. \E x \in U : \A y \in U : key[y] <= key[x]
      BY <1>2, <2>1, <3>1, LargestKey
    <3> QED
      BY <3>2 DEF key
  <2> DEFINE W == U \ {v}
  <2>3. Counted(W)
    BY <1>2
  <2>4. /\ Cardinality(U) \in Nat /\ Cardinality(W) = Cardinality(U) - 1
        /\ IsFiniteSet(W)
    BY <2>1, FS_RemoveElement, FS_CardinalityType
  <2>5. UpTo(U, v) = U
    BY <2>2
  <2>6. ASSUME NEW i \in W PROVE UpTo(U, i) = UpTo(W, i)
    <3>1. ~(v <= i)
      BY <2>1, <2>2
    <3> QED
      BY <3>1
  <2>7. ASSUME NEW m \in 1..Cardinality(U) PROVE \E i \in U : Cardinality(UpTo(U, i)) = m
    <3>1. CASE m = Cardinality(U)
      BY <2>5, <3>1
    <3>2. CASE m # Cardinality(U)
      <4>1. m \in 1..Cardinality(W)
        BY <2>4, <3>2
      <4>2. PICK i \in W : Cardinality(UpTo(W, i)) = m
        BY <2>3, <4>1
      <4> QED
        BY <2>6, <4>2
    <3> QED
      BY <3>1, <3>2
  <2> QED
    BY <2>7
<1> HIDE DEF Counted
<1>3. {} \in B
  BY <1>1
<1>4. \A U \in SUBSET S : U # {} /\ (\A v \in U : U \ {v} \in B) => U \in B
  BY <1>2
<1> HIDE DEF B
<1>5. S \in B
  BY <1>3, <1>4, SubsetInduction
<1> QED
  BY <1>5 DEF B, Counted
=============================================================================
