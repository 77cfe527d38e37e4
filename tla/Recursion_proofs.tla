-------------------------- MODULE Recursion_proofs --------------------------
(***************************************************************************)
(* Induction without an operator as a parameter: a set of numbers has a    *)
(* least element, a bounded one a greatest, and a function that is defined *)
(* by recursion exists, whose step is given as a function.                 *)
(***************************************************************************)
EXTENDS Naturals, WellFoundedInduction, TLAPS

\* Every set of numbers has a least element: of the counterexamples to a fact
\* about a recursive helper there is a first.
LEMMA Least ==
    ASSUME NEW T, T \subseteq Nat, T # {}
    PROVE  \E x \in T : \A y \in T : x <= y
<1> DEFINE R == OpToRel(<, Nat)
<1>1. IsWellFoundedOn(R, Nat)
  BY NatLessThanWellFounded
<1>2. R = {ss \in Nat \X Nat : ss[1] < ss[2]}
  BY DEF OpToRel
<1> HIDE DEF R
<1>3. PICK x \in T : \A y \in T : ~(<<y, x>> \in R)
  BY <1>1, WFMin
<1>4. \A y \in Nat : y < x => <<y, x>> \in R
  BY <1>2
<1>5. \A y \in T : x <= y
  <2> TAKE y \in T
  <2>1. x \in Nat /\ y \in Nat
    OBVIOUS
  <2>2. ~(y < x)
    BY <1>3, <1>4, <2>1
  <2> QED
    BY <2>1, <2>2
<1> QED
  BY <1>5

\* Every set of numbers up to N has a greatest element, as the last block that is
\* not empty is.
LEMMA Greatest ==
    ASSUME NEW N \in Nat, NEW T, T \subseteq 0 .. N, T # {}
    PROVE  \E x \in T : \A y \in T : y <= x
<1> DEFINE D == {d \in Nat : N - d \in T}
<1>1. D # {}
  <2>1. PICK t \in T : TRUE
    OBVIOUS
  <2>2. N - t \in Nat /\ N - (N - t) = t
    BY <2>1
  <2> QED
    BY <2>2
<1>2. PICK d \in D : \A e \in D : d <= e
  <2> D \subseteq Nat
    OBVIOUS
  <2> HIDE DEF D
  <2> QED
    BY <1>1, Least
<1>3. \A y \in T : y <= N - d
  <2> TAKE y \in T
  <2>1. y \in 0 .. N /\ N - y \in Nat /\ N - (N - y) = y
    OBVIOUS
  <2>2. N - y \in D
    BY <2>1
  <2>3. d <= N - y
    BY <1>2, <2>2
  <2> QED
    BY <2>1, <2>3
<1> QED
  BY <1>3

\* f starts with v at m, and every later value is what G makes of the one before.
Follows(f, m, N, v, G) == \A n \in m .. N : f[n] = IF n = m THEN v ELSE G[<<n, f[n - 1]>>]

\* There is a function with a given first value and a given step, as the functions
\* that go along the blocks of a list are.
LEMMA Recursive ==
    ASSUME NEW V, NEW m \in Nat, NEW N \in Nat, NEW v \in V, NEW G \in [Nat \X V -> V]
    PROVE  \E f \in [m .. N -> V] : Follows(f, m, N, v, G)
<1> USE DEF Follows
<1> DEFINE Good(k, f) == Follows(f, m, k, v, G)
           T == {k \in Nat : m <= k /\ ~\E f \in [m .. k -> V] : Good(k, f)}
<1>1. T = {}
  <2> SUFFICES ASSUME T # {} PROVE FALSE
    OBVIOUS
  <2>1. PICK k \in T : \A l \in T : k <= l
    <3> T \subseteq Nat
      OBVIOUS
    <3> HIDE DEF T
    <3> QED
      BY Least
  <2>2. CASE k = m
    <3> DEFINE f == [n \in m .. k |-> v]
    <3>1. f \in [m .. k -> V] /\ Good(k, f)
      BY <2>2
    <3> QED
      BY <2>1, <3>1
  <2>3. CASE k # m
    <3>1. k \in Nat /\ k - 1 \in Nat /\ m <= k - 1 /\ ~(k <= k - 1)
      BY <2>1, <2>3
    <3>2. k - 1 \notin T
      <4> HIDE DEF T
      <4> QED
        BY <2>1, <3>1
    <3>3. PICK g \in [m .. k - 1 -> V] : Good(k - 1, g)
      BY <3>1, <3>2
    <3> DEFINE f == [n \in m .. k |-> IF n = k THEN G[<<k, g[k - 1]>>] ELSE g[n]]
    <3>4. f \in [m .. k -> V]
      <4>1. g[k - 1] \in V
        BY <3>1
      <4>2. G[<<k, g[k - 1]>>] \in V
        BY <3>1, <4>1
      <4> QED
        BY <3>1, <4>2
    <3>5. Good(k, f)
      <4> SUFFICES ASSUME NEW n \in m .. k
                   PROVE  f[n] = IF n = m THEN v ELSE G[<<n, f[n - 1]>>]
        OBVIOUS
      <4>1. CASE n = k
        <5>1. f[k - 1] = g[k - 1]
          BY <3>1
        <5> QED
          BY <2>3, <4>1, <5>1
      <4>2. CASE n # k
        <5>1. n \in m .. k - 1
          BY <3>1, <4>2
        <5>2. f[n] = g[n]
          BY <4>2
        <5>3. n # m => n - 1 \in m .. k /\ n - 1 # k
          BY <3>1, <5>1
        <5>4. n # m => f[n - 1] = g[n - 1]
          BY <5>3
        <5>5. g[n] = IF n = m THEN v ELSE G[<<n, g[n - 1]>>]
          BY <3>3, <5>1
        <5> QED
          BY <5>2, <5>4, <5>5
      <4> QED
        BY <4>1, <4>2
    <3> QED
      BY <2>1, <3>4, <3>5
  <2> QED
    BY <2>2, <2>3
<1>2. CASE m <= N
  BY <1>1, <1>2
<1>3. CASE ~(m <= N)
  <2> DEFINE f == [n \in m .. N |-> v]
  <2>1. f \in [m .. N -> V] /\ m .. N = {}
    BY <1>3
  <2> QED
    BY <2>1
<1> QED
  BY <1>2, <1>3
=============================================================================
