----------------------------- MODULE SetLemmas -----------------------------
(***************************************************************************)
(* Facts about finite sets of numbers that the proofs about the modules    *)
(* share: greatest and least elements, and counting.                       *)
(***************************************************************************)
EXTENDS Integers, FiniteSetsExt, FiniteSetTheorems, WellFoundedInduction, TLAPS

\* Of the values a function from a finite set to its subsets takes, one is
\* minimal for inclusion.
LEMMA SmallestImage ==
  ASSUME NEW H, IsFiniteSet(H), H # {}, NEW f \in [H -> SUBSET H]
  PROVE  \E h \in H : \A k \in H : ~(f[k] \subseteq f[h] /\ f[k] # f[h])
<1> DEFINE T == {f[h] : h \in H}
<1>1. T \subseteq FiniteSubsetsOf(H) /\ T # {}
  BY FS_FiniteSubsetsOfFinite
<1>2. \E U \in T : \A V \in T : ~(<<V, U>> \in StrictSubsetOrdering(H))
  <2> HIDE DEF T
  <2> QED BY <1>1, FS_StrictSubsetOrderingWellFounded, WFMin
<1>3. PICK h \in H : \A k \in H : ~(<<f[k], f[h]>> \in StrictSubsetOrdering(H))
  BY <1>2
<1>4. \A k \in H : ~(f[k] \subseteq f[h] /\ f[k] # f[h])
  BY <1>3 DEF StrictSubsetOrdering
<1> QED BY <1>4

\* A non-empty finite set of numbers has a greatest element, and Max is it.
LEMMA GreatestElement ==
  ASSUME NEW H, H \subseteq Int, IsFiniteSet(H), H # {}
  PROVE  Max(H) \in H /\ \A h \in H : Max(H) >= h
<1> DEFINE f == [h \in H |-> {k \in H : k > h}]
<1>1. PICK h \in H : \A k \in H : ~(f[k] \subseteq f[h] /\ f[k] # f[h])
  <2>1. f \in [H -> SUBSET H]
    OBVIOUS
  <2>2. \A g \in [H -> SUBSET H] :
         \E h \in H : \A k \in H : ~(g[k] \subseteq g[h] /\ g[k] # g[h])
    <3> HIDE DEF f
    <3> QED BY SmallestImage
  <2> HIDE DEF f
  <2> QED BY <2>1, <2>2
<1>2. ASSUME NEW k \in H PROVE h >= k
  <2>1. h \in Int /\ k \in Int
    OBVIOUS
  <2>2. CASE ~(h >= k)
    <3>1. k > h
      BY <2>1, <2>2
    <3>2. k \in f[h] /\ k \notin f[k]
      BY <3>1, <2>1
    <3>3. ASSUME NEW j \in f[k] PROVE j \in f[h]
      <4>1. j \in H /\ j \in Int /\ j > k
        BY <3>3
      <4> QED BY <4>1, <3>1, <2>1
    <3> QED BY <3>2, <3>3, <1>1
  <2> QED BY <2>2
<1>3. \E x \in H : \A y \in H : x >= y
  BY <1>2
<1>4. Max(H) \in H /\ \A y \in H : Max(H) >= y
  <2> HIDE DEF f
  <2> QED BY <1>3 DEF Max
<1> QED BY <1>4

\* A non-empty finite set of numbers has a least element, and Min is it.
LEMMA LeastElement ==
  ASSUME NEW H, H \subseteq Int, IsFiniteSet(H), H # {}
  PROVE  Min(H) \in H /\ \A h \in H : Min(H) =< h
<1> DEFINE f == [h \in H |-> {k \in H : k < h}]
<1>1. PICK h \in H : \A k \in H : ~(f[k] \subseteq f[h] /\ f[k] # f[h])
  <2>1. f \in [H -> SUBSET H]
    OBVIOUS
  <2>2. \A g \in [H -> SUBSET H] :
         \E h \in H : \A k \in H : ~(g[k] \subseteq g[h] /\ g[k] # g[h])
    <3> HIDE DEF f
    <3> QED BY SmallestImage
  <2> HIDE DEF f
  <2> QED BY <2>1, <2>2
<1>2. ASSUME NEW k \in H PROVE h =< k
  <2>1. h \in Int /\ k \in Int
    OBVIOUS
  <2>2. CASE ~(h =< k)
    <3>1. k < h
      BY <2>1, <2>2
    <3>2. k \in f[h] /\ k \notin f[k]
      BY <3>1, <2>1
    <3>3. ASSUME NEW j \in f[k] PROVE j \in f[h]
      <4>1. j \in H /\ j \in Int /\ j < k
        BY <3>3
      <4> QED BY <4>1, <3>1, <2>1
    <3> QED BY <3>2, <3>3, <1>1
  <2> QED BY <2>2
<1>3. \E x \in H : \A y \in H : x =< y
  BY <1>2
<1>4. Min(H) \in H /\ \A y \in H : Min(H) =< y
  <2> HIDE DEF f
  <2> QED BY <1>3 DEF Min
<1> QED BY <1>4

\* What a function covers from a finite set is finite.
LEMMA FiniteImage ==
  ASSUME NEW S, IsFiniteSet(S), NEW T, NEW f \in [S -> T],
         \A t \in T : \E s \in S : f[s] = t
  PROVE  IsFiniteSet(T)
<1>1. f \in Surjection(S, T)
  BY DEF Surjection
<1> QED BY <1>1, FS_Surjection

\* A part that misses an element of the whole is smaller.
LEMMA SmallerPart ==
  ASSUME NEW S, IsFiniteSet(S), NEW T \in SUBSET S, NEW x \in S, x \notin T
  PROVE  /\ IsFiniteSet(T)
         /\ Cardinality(T) \in Nat /\ Cardinality(S) \in Nat
         /\ Cardinality(T) < Cardinality(S)
<1>1. Cardinality(T) <= Cardinality(S) /\ Cardinality(T) # Cardinality(S) /\ IsFiniteSet(T)
  BY FS_Subset
<1>2. Cardinality(T) \in Nat /\ Cardinality(S) \in Nat
  BY <1>1, FS_CardinalityType
<1> QED BY <1>1, <1>2
=============================================================================
