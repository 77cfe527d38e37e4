--------------------------- MODULE FlowGraph_proofs ---------------------------
(***************************************************************************)
(* For any blocks and any function: what is a target of a branch is, as    *)
(* often, among the children of its block and has that block, as often,    *)
(* among its parents; and no edit lets the side effects happen in an order *)
(* that was not possible before.                                           *)
(* Lists are compared by how often an element is in them; every edit of    *)
(* the graph is a lemma of its own that says what it does to these counts, *)
(* and the edits that take several steps to move an edge (insert_branch,   *)
(* kill_unreachable_bbs) have an invariant for the time between.           *)
(* Paths are compared block by block: after an edit each block that may    *)
(* still be run stands for one before it, or for two of which the second   *)
(* always came next, and goes on to what could come after that without a   *)
(* side effect (Mimics).                                                   *)
(***************************************************************************)
EXTENDS FlowGraph, Recursion_proofs, FiniteSetTheorems, Integers

-----------------------------------------------------------------------------
\* Lists and graphs.

\* The loops of the module put what a step makes of the result in a set.
LEMMA OnlyOne == \A v : (CHOOSE r \in {v} : TRUE) = v
  OBVIOUS

Stepwise(f, h, N) == f[0] = h[0] /\ \A n \in 1 .. N : f[n - 1] = h[n - 1] => f[n] = h[n]
Alike(f, h, N) == \A n \in 0 .. N : f[n] = h[n]

\* Two functions that go on in the same way are the same.
LEMMA SameSteps ==
    ASSUME NEW N \in Nat, NEW f, NEW h, Stepwise(f, h, N)
    PROVE  Alike(f, h, N)
<1> USE DEF Stepwise, Alike
<1> DEFINE T == {n \in 0 .. N : f[n] # h[n]}
<1>1. T = {}
  <2> SUFFICES ASSUME T # {} PROVE FALSE
    OBVIOUS
  <2>1. PICK k \in T : \A l \in T : k <= l
    <3> T \subseteq Nat
      OBVIOUS
    <3> HIDE DEF T
    <3> QED
      BY Least
  <2>2. k # 0 /\ k \in 1 .. N
    BY <2>1
  <2>3. k - 1 \in 0 .. N /\ ~(k <= k - 1)
    BY <2>2
  <2>4. k - 1 \notin T
    <3> HIDE DEF T
    <3> QED
      BY <2>1, <2>3
  <2>5. f[k - 1] = h[k - 1]
    BY <2>3, <2>4
  <2> QED
    BY <2>1, <2>2, <2>5
<1> QED
  BY <1>1

\* What holds at first and after every step of a loop (J, of the step and the
\* result so far) holds in the end.
LEMMA Looped ==
    ASSUME NEW V, NEW N \in Nat, NEW start \in V, NEW G \in [Nat \X V -> V], NEW J,
           <<0, start>> \in J,
           \A n \in 1 .. N : \A x \in V : <<n - 1, x>> \in J => <<n, G[<<n, x>>]>> \in J,
           NEW f \in [0 .. N -> V], Follows(f, 0, N, start, G)
    PROVE  f[N] \in V /\ <<N, f[N]>> \in J
<1> DEFINE T == {n \in 0 .. N : <<n, f[n]>> \notin J}
<1>1. T = {}
  <2> SUFFICES ASSUME T # {} PROVE FALSE
    OBVIOUS
  <2>1. PICK k \in T : \A l \in T : k <= l
    <3> T \subseteq Nat
      OBVIOUS
    <3> HIDE DEF T
    <3> QED
      BY Least
  <2>2. k # 0
    BY <2>1 DEF Follows
  <2>3. k \in 1 .. N /\ k - 1 \in 0 .. N /\ ~(k <= k - 1)
    BY <2>1, <2>2
  <2>4. k - 1 \notin T
    <3> HIDE DEF T
    <3> QED
      BY <2>1, <2>3
  <2>5. <<k - 1, f[k - 1]>> \in J /\ f[k - 1] \in V
    BY <2>3, <2>4
  <2>6. f[k] = G[<<k, f[k - 1]>>]
    BY <2>2, <2>3 DEF Follows
  <2> QED
    BY <2>1, <2>3, <2>5, <2>6
<1>2. N \in 0 .. N
  OBVIOUS
<1> QED
  BY <1>1, <1>2

Where(s, x) == {i \in DOMAIN s : s[i] = x}

\* Positions in a list are finitely many.
LEMMA WhereFinite ==
    ASSUME NEW K, NEW s \in Seq(K), NEW x
    PROVE  IsFiniteSet(Where(s, x)) /\ Count(s, x) = Cardinality(Where(s, x)) /\ Count(s, x) \in Nat
<1>1. Where(s, x) \in SUBSET (1 .. Len(s)) /\ Len(s) \in Nat
  BY DEF Where
<1>2. IsFiniteSet(1 .. Len(s))
  BY <1>1, FS_Interval
<1>3. IsFiniteSet(Where(s, x))
  BY <1>1, <1>2, FS_Subset
<1> QED
  BY <1>3, FS_CardinalityType DEF Where, Count

\* What is in a list is counted at least once.
LEMMA CountZero ==
    ASSUME NEW K, NEW s \in Seq(K), NEW x
    PROVE  /\ Count(s, x) = 0 <=> x \notin ToSet(s)
           /\ Contains(s, x) <=> x \in ToSet(s)
<1>1. Count(s, x) = 0 <=> Where(s, x) = {}
  BY WhereFinite, FS_EmptySet
<1>2. Where(s, x) = {} <=> x \notin ToSet(s)
  BY DEF Where, ToSet
<1>3. Contains(s, x) <=> x \in ToSet(s)
  BY DEF Contains, ToSet
<1> QED
  BY <1>1, <1>2, <1>3

\* Nothing is in the empty list.
LEMMA CountEmpty == \A x : Count(<<>>, x) = 0 /\ ToSet(<<>>) = {}
<1> TAKE x
<1>1. <<>> \in Seq({}) /\ ToSet(<<>>) = {}
  BY DEF ToSet
<1> QED
  BY <1>1, CountZero

\* One element more.
LEMMA CountAppend ==
    ASSUME NEW K, NEW s \in Seq(K), NEW y \in K, NEW x
    PROVE  Append(s, y) \in Seq(K) /\ Count(Append(s, y), x) = Count(s, x) + IF y = x THEN 1 ELSE 0
<1>1. Append(s, y) \in Seq(K) /\ Len(s) \in Nat
  OBVIOUS
<1>2. DOMAIN Append(s, y) = DOMAIN s \cup {Len(s) + 1} /\ Len(s) + 1 \notin DOMAIN s
  OBVIOUS
<1>3. \A i \in DOMAIN s : Append(s, y)[i] = s[i]
  OBVIOUS
<1>4. Append(s, y)[Len(s) + 1] = y
  OBVIOUS
<1>5. CASE y = x
  <2>1. Where(Append(s, y), x) = Where(s, x) \cup {Len(s) + 1} /\ Len(s) + 1 \notin Where(s, x)
    BY <1>2, <1>3, <1>4, <1>5 DEF Where
  <2>2. Cardinality(Where(Append(s, y), x)) = Cardinality(Where(s, x)) + 1
    BY <2>1, WhereFinite, FS_AddElement
  <2> QED
    BY <1>1, <1>5, <2>2, WhereFinite
<1>6. CASE y # x
  <2>1. Where(Append(s, y), x) = Where(s, x)
    BY <1>2, <1>3, <1>4, <1>6 DEF Where
  <2>2. Count(Append(s, y), x) = Count(s, x) /\ Count(s, x) \in Nat
    BY <1>1, <2>1, WhereFinite
  <2> QED
    BY <1>1, <1>6, <2>2
<1> QED
  BY <1>5, <1>6

Replaced(K, t, s, old, y) ==
    /\ t \in Seq(K) /\ Len(t) = Len(s)
    /\ \A x : Count(t, x) = Count(s, x) - (IF old = x THEN 1 ELSE 0) + (IF y = x THEN 1 ELSE 0)

\* An element in place of another.
LEMMA CountReplaced ==
    ASSUME NEW K, NEW s \in Seq(K), NEW i \in 1 .. Len(s), NEW y \in K
    PROVE  Replaced(K, ReplaceAt(s, i, y), s, s[i], y)
<1> SUFFICES ASSUME NEW x
             PROVE  /\ ReplaceAt(s, i, y) \in Seq(K) /\ Len(ReplaceAt(s, i, y)) = Len(s)
                    /\ Count(ReplaceAt(s, i, y), x) =
                          Count(s, x) - (IF s[i] = x THEN 1 ELSE 0) + (IF y = x THEN 1 ELSE 0)
  BY DEF Replaced
<1> DEFINE t == ReplaceAt(s, i, y)
<1>1. t \in Seq(K) /\ Len(t) = Len(s) /\ DOMAIN t = DOMAIN s
  BY DEF ReplaceAt
<1>2. t[i] = y /\ \A j \in DOMAIN s : j # i => t[j] = s[j]
  BY DEF ReplaceAt
<1> HIDE DEF t
<1> DEFINE W == Where(s, x) \ {i}
<1>3. IsFiniteSet(W) /\ Cardinality(W) = IF s[i] = x THEN Count(s, x) - 1 ELSE Count(s, x)
  <2>1. IsFiniteSet(Where(s, x)) /\ Count(s, x) = Cardinality(Where(s, x))
    BY WhereFinite
  <2>2. i \in Where(s, x) <=> s[i] = x
    BY DEF Where
  <2>3. /\ IsFiniteSet(Where(s, x) \ {i})
        /\ Cardinality(Where(s, x) \ {i}) =
              IF i \in Where(s, x) THEN Cardinality(Where(s, x)) - 1 ELSE Cardinality(Where(s, x))
    BY <2>1, FS_RemoveElement
  <2> QED
    BY <2>1, <2>2, <2>3
<1>4. Where(t, x) = IF y = x THEN W \cup {i} ELSE W
  BY <1>1, <1>2 DEF Where
<1>5. i \notin W
  OBVIOUS
<1>6. Cardinality(Where(t, x)) = IF y = x THEN Cardinality(W) + 1 ELSE Cardinality(W)
  <2> HIDE DEF W
  <2> QED
    BY <1>3, <1>4, <1>5, FS_AddElement
<1>7. Count(t, x) = Cardinality(Where(t, x)) /\ Count(s, x) \in Nat
  BY <1>1, WhereFinite
<1> QED
  BY <1>1, <1>3, <1>6, <1>7 DEF t

\* The first element that is y: SelectInSeq finds it.
LEMMA SelectFirst ==
    ASSUME NEW K, NEW s \in Seq(K), NEW y, y \in ToSet(s)
    PROVE  SelectInSeq(s, LAMBDA v : v = y) \in {i \in 1 .. Len(s) : s[i] = y}
<1> DEFINE I == {i \in 1 .. Len(s) : s[i] = y}
<1>1. I \subseteq Nat /\ I # {}
  BY DEF ToSet
<1>2. PICK k \in I : \A j \in I : k <= j
  BY <1>1, Least
<1>3. Min(I) \in I
  BY <1>2 DEF Min
<1> QED
  BY <1>1, <1>3 DEF SelectInSeq

IsJoined(K, t, u, v) ==
    /\ t \in Seq(K) /\ Len(t) = Len(u) + Len(v)
    /\ \A i \in 1 .. Len(u) : t[i] = u[i]
    /\ \A i \in 1 .. Len(v) : t[Len(u) + i] = v[i]

\* Two lists one after the other.
LEMMA Joined ==
    ASSUME NEW K, NEW u \in Seq(K), NEW v \in Seq(K)
    PROVE  IsJoined(K, u \o v, u, v)
<1> USE DEF IsJoined
<1>1. u \o v \in Seq(K) /\ Len(u \o v) = Len(u) + Len(v) /\ Len(u) \in Nat /\ Len(v) \in Nat
  OBVIOUS
<1>2. \A i \in 1 .. Len(u) : (u \o v)[i] = u[i]
  OBVIOUS
<1>3. ASSUME NEW i \in 1 .. Len(v) PROVE (u \o v)[Len(u) + i] = v[i]
  <2>1. Len(u) + i \in 1 .. Len(u) + Len(v) /\ ~(Len(u) + i <= Len(u)) /\ (Len(u) + i) - Len(u) = i
    BY <1>1
  <2> QED
    BY <2>1
<1> QED
  BY <1>1, <1>2, <1>3

\* An element less.
LEMMA CountRemoved ==
    ASSUME NEW K, NEW s \in Seq(K), NEW k \in 1 .. Len(s), NEW x, NEW t,
           t = RemoveAt(s, k)
    PROVE  t \in Seq(K) /\ Count(t, x) = Count(s, x) - IF s[k] = x THEN 1 ELSE 0
<1> DEFINE u == SubSeq(s, 1, k - 1)
           v == SubSeq(s, k + 1, Len(s))
<1>1. k \in Nat /\ Len(s) \in Nat /\ k - 1 \in Nat /\ k - 1 <= Len(s) /\ k # 0
  OBVIOUS
<1>2. u \in Seq(K) /\ Len(u) = k - 1 /\ \A i \in 1 .. k - 1 : u[i] = s[i]
  BY <1>1
<1>3. v \in Seq(K) /\ Len(v) = Len(s) - k /\ \A i \in 1 .. Len(s) - k : v[i] = s[i + k]
  BY <1>1
<1>4. t = u \o v
  BY DEF RemoveAt
<1>5. t \in Seq(K) /\ Len(t) = Len(s) - 1
  <2>1. u \o v \in Seq(K) /\ Len(u \o v) = Len(u) + Len(v)
    <3> HIDE DEF u, v
    <3> QED
      BY <1>2, <1>3, Joined DEF IsJoined
  <2>2. Len(u) + Len(v) = Len(s) - 1
    <3> HIDE DEF u, v
    <3> QED
      BY <1>1, <1>2, <1>3
  <2> HIDE DEF u, v
  <2> QED
    BY <1>4, <2>1, <2>2
<1>6. \A i \in 1 .. Len(s) - 1 : t[i] = IF i < k THEN s[i] ELSE s[i + 1]
  <2> TAKE i \in 1 .. Len(s) - 1
  <2>1. CASE i < k
    <3>1. i \in 1 .. Len(u)
      BY <1>1, <1>2, <2>1
    <3>2. t[i] = u[i]
      <4> HIDE DEF u, v
      <4> QED
        BY <1>2, <1>3, <1>4, <3>1, Joined DEF IsJoined
    <3> QED
      BY <1>2, <2>1, <3>1, <3>2
  <2>2. CASE ~(i < k)
    <3> HIDE DEF u, v
    <3>1. i - (k - 1) \in 1 .. Len(v) /\ Len(u) + (i - (k - 1)) = i
      BY <1>1, <1>2, <1>3, <2>2
    <3>2. t[i] = v[i - (k - 1)]
      BY <1>2, <1>3, <1>4, <3>1, Joined DEF IsJoined
    <3>3. i - (k - 1) \in 1 .. Len(s) - k /\ (i - (k - 1)) + k = i + 1
      BY <1>1, <2>2
    <3> QED
      BY <1>3, <2>2, <3>2, <3>3
  <2> QED
    BY <2>1, <2>2
<1> HIDE DEF u, v
<1> DEFINE W == Where(s, x) \ {k}
           f == [i \in W |-> IF i < k THEN i ELSE i - 1]
<1>7. W \subseteq 1 .. Len(s) /\ \A i \in W : i # k /\ s[i] = x
  BY DEF Where
<1>8. \A j \in Where(t, x) : j \in 1 .. Len(s) - 1 /\ t[j] = x
  BY <1>5 DEF Where
<1>9. f \in Bijection(W, Where(t, x))
  <2>1. ASSUME NEW i \in W PROVE f[i] \in Where(t, x)
    <3>1. i \in 1 .. Len(s) /\ i # k /\ s[i] = x
      BY <1>7
    <3>2. CASE i < k
      <4>1. i \in 1 .. Len(s) - 1 /\ t[i] = x
        BY <1>1, <1>6, <3>1, <3>2
      <4> QED
        BY <1>5, <3>2, <4>1 DEF Where
    <3>3. CASE ~(i < k)
      <4>1. i - 1 \in 1 .. Len(s) - 1 /\ ~(i - 1 < k) /\ (i - 1) + 1 = i
        BY <1>1, <3>1, <3>3
      <4>2. t[i - 1] = x
        BY <1>6, <3>1, <4>1
      <4> QED
        BY <1>5, <3>3, <4>1, <4>2 DEF Where
    <3> QED
      BY <3>2, <3>3
  <2>2. f \in [W -> Where(t, x)]
    BY <2>1
  <2>3. ASSUME NEW i \in W, NEW j \in W, f[i] = f[j] PROVE i = j
    <3>1. i \in 1 .. Len(s) /\ i # k /\ j \in 1 .. Len(s) /\ j # k
      BY <1>7
    <3>2. (IF i < k THEN i ELSE i - 1) = (IF j < k THEN j ELSE j - 1)
      BY <2>3
    <3> HIDE DEF W, f
    <3> QED
      BY <1>1, <3>1, <3>2
  <2>4. ASSUME NEW j \in Where(t, x) PROVE \E i \in W : f[i] = j
    <3>1. j \in 1 .. Len(s) - 1 /\ t[j] = x
      BY <1>8
    <3>2. CASE j < k
      <4>1. j \in 1 .. Len(s) /\ s[j] = x /\ j # k
        BY <1>1, <1>6, <3>1, <3>2
      <4>2. j \in W
        BY <4>1 DEF Where
      <4> QED
        BY <3>2, <4>2
    <3>3. CASE ~(j < k)
      <4>1. j + 1 \in 1 .. Len(s) /\ s[j + 1] = x /\ j + 1 # k /\ ~(j + 1 < k) /\ (j + 1) - 1 = j
        BY <1>1, <1>6, <3>1, <3>3
      <4>2. j + 1 \in W
        BY <4>1 DEF Where
      <4> QED
        BY <4>1, <4>2
    <3> QED
      BY <3>2, <3>3
  <2> HIDE DEF W, f
  <2> QED
    BY <2>2, <2>3, <2>4 DEF Bijection, Injection, Surjection, IsInjective
<1>10. IsFiniteSet(W) /\ Cardinality(W) = Count(s, x) - IF s[k] = x THEN 1 ELSE 0
  <2>1. IsFiniteSet(Where(s, x)) /\ Count(s, x) = Cardinality(Where(s, x)) /\ Count(s, x) \in Nat
    BY WhereFinite
  <2>2. k \in Where(s, x) <=> s[k] = x
    BY DEF Where
  <2>3. /\ IsFiniteSet(Where(s, x) \ {k})
        /\ Cardinality(Where(s, x) \ {k}) =
              IF k \in Where(s, x) THEN Cardinality(Where(s, x)) - 1 ELSE Cardinality(Where(s, x))
    BY <2>1, FS_RemoveElement
  <2> HIDE DEF f
  <2> QED
    BY <2>1, <2>2, <2>3
<1>11. Cardinality(Where(t, x)) = Cardinality(W)
  <2>1. ExistsBijection(W, Where(t, x))
    BY <1>9 DEF ExistsBijection
  <2> HIDE DEF W, f
  <2> QED
    BY <1>10, <2>1, FS_Bijection
<1>12. Count(t, x) = Cardinality(Where(t, x))
  BY <1>5, WhereFinite
<1> HIDE DEF W, f
<1> QED
  BY <1>5, <1>10, <1>11, <1>12

\* RemoveFirst and ReplaceAt where the first y is.
LEMMA CountRemoveFirst ==
    ASSUME NEW K, NEW s \in Seq(K), NEW y, NEW x
    PROVE  /\ RemoveFirst(s, y) \in Seq(K)
           /\ y \in ToSet(s) => Count(RemoveFirst(s, y), x) = Count(s, x) - IF y = x THEN 1 ELSE 0
           /\ y \notin ToSet(s) => RemoveFirst(s, y) = s
<1>1. CASE y \in ToSet(s)
  <2>1. SelectInSeq(s, LAMBDA v : v = y) \in {i \in 1 .. Len(s) : s[i] = y}
    BY <1>1, SelectFirst
  <2>2. RemoveFirst(s, y) = RemoveAt(s, SelectInSeq(s, LAMBDA v : v = y))
    BY <2>1 DEF RemoveFirst
  <2>3. PICK k \in 1 .. Len(s) : s[k] = y /\ RemoveFirst(s, y) = RemoveAt(s, k)
    BY <2>1, <2>2
  <2> QED
    BY <1>1, <2>3, CountRemoved
<1>2. CASE y \notin ToSet(s)
  <2>1. ~\E i \in 1 .. Len(s) : s[i] = y
    BY <1>2 DEF ToSet
  <2> QED
    BY <1>2, <2>1 DEF RemoveFirst
<1> QED
  BY <1>1, <1>2

\* Every y becomes z.
LEMMA CountReplaceAll ==
    ASSUME NEW K, NEW s \in Seq(K), NEW y, NEW z \in K, y # z, NEW x
    PROVE  /\ ReplaceAll(s, y, z) \in Seq(K)
           /\ Count(ReplaceAll(s, y, z), x) = IF x = z THEN Count(s, y) + Count(s, z)
                                              ELSE IF x = y THEN 0 ELSE Count(s, x)
<1> DEFINE t == ReplaceAll(s, y, z)
<1>1. t \in Seq(K) /\ Len(t) = Len(s) /\ \A i \in 1 .. Len(s) : t[i] = IF s[i] = y THEN z ELSE s[i]
  BY DEF ReplaceAll
<1>2. \A i : i \in Where(t, x) <=> i \in 1 .. Len(s) /\ x = IF s[i] = y THEN z ELSE s[i]
  <2> HIDE DEF t
  <2> QED
    BY <1>1 DEF Where
<1>3. Count(t, x) = Cardinality(Where(t, x))
  <2> HIDE DEF t
  <2> QED
    BY <1>1, WhereFinite
<1> HIDE DEF t
<1>4. \A w : \A i : i \in Where(s, w) <=> i \in 1 .. Len(s) /\ s[i] = w
  BY DEF Where
<1>5. CASE x = z
  <2>1. Where(t, x) = Where(s, y) \cup Where(s, z)
    BY <1>2, <1>4, <1>5
  <2>2. Where(s, y) \cap Where(s, z) = {}
    BY <1>4
  <2>3. /\ Cardinality(Where(s, y) \cup Where(s, z)) =
              Cardinality(Where(s, y)) + Cardinality(Where(s, z)) - Cardinality(Where(s, y) \cap Where(s, z))
    BY WhereFinite, FS_Union
  <2>4. Count(s, y) = Cardinality(Where(s, y)) /\ Count(s, z) = Cardinality(Where(s, z))
        /\ Count(s, y) \in Nat /\ Count(s, z) \in Nat
    BY WhereFinite
  <2>5. Cardinality({}) = 0
    BY FS_EmptySet
  <2>6. Count(t, x) = Count(s, y) + Count(s, z)
    <3>1. Count(t, x) = Cardinality(Where(s, y)) + Cardinality(Where(s, z)) - Cardinality({})
      BY <1>3, <2>1, <2>2, <2>3
    <3> QED
      BY <2>4, <2>5, <3>1
  <2> QED
    BY <1>1, <1>5, <2>6 DEF t
<1>6. CASE x # z /\ x = y
  <2>1. Where(t, x) = {}
    BY <1>2, <1>6
  <2>2. Count(t, x) = 0
    BY <1>3, <2>1, FS_EmptySet
  <2> QED
    BY <1>1, <1>6, <2>2 DEF t
<1>7. CASE x # z /\ x # y
  <2>1. Where(t, x) = Where(s, x)
    BY <1>2, <1>4, <1>7
  <2>2. Count(t, x) = Count(s, x)
    BY <1>3, <2>1, WhereFinite
  <2> QED
    BY <1>1, <1>7, <2>2 DEF t
<1> QED
  BY <1>5, <1>6, <1>7

\* Some copies of p more.
LEMMA CountCopies ==
    ASSUME NEW K, NEW s \in Seq(K), NEW p \in K, NEW n \in Nat, NEW x
    PROVE  /\ s \o [i \in 1 .. n |-> p] \in Seq(K)
           /\ Count(s \o [i \in 1 .. n |-> p], x) = Count(s, x) + IF x = p THEN n ELSE 0
<1> DEFINE v == [i \in 1 .. n |-> p]
           t == s \o v
<1>1. v \in Seq(K) /\ Len(v) = n /\ \A i \in 1 .. n : v[i] = p
  OBVIOUS
<1> HIDE DEF v
<1>2. t \in Seq(K) /\ Len(t) = Len(s) + n /\ Len(s) \in Nat
      /\ (\A i \in 1 .. Len(s) : t[i] = s[i]) /\ (\A i \in 1 .. n : t[Len(s) + i] = p)
  <2>1. /\ s \o v \in Seq(K) /\ Len(s \o v) = Len(s) + Len(v)
        /\ \A i \in 1 .. Len(s) : (s \o v)[i] = s[i]
        /\ \A i \in 1 .. Len(v) : (s \o v)[Len(s) + i] = v[i]
    <3>1. IsJoined(K, s \o v, s, v)
      BY <1>1, Joined
    <3> QED
      BY <3>1 DEF IsJoined
  <2>2. Len(s) \in Nat
    OBVIOUS
  <2> QED
    BY <1>1, <2>1, <2>2
<1> HIDE DEF t
<1>3. \A i \in Len(s) + 1 .. Len(s) + n : t[i] = p
  <2> TAKE i \in Len(s) + 1 .. Len(s) + n
  <2>1. i - Len(s) \in 1 .. n /\ Len(s) + (i - Len(s)) = i
    BY <1>2
  <2> QED
    BY <1>2, <2>1
<1>4. \A i : i \in 1 .. Len(s) + n <=> i \in 1 .. Len(s) \/ i \in Len(s) + 1 .. Len(s) + n
  BY <1>2
<1>5. \A i : i \in Where(s, x) <=> i \in 1 .. Len(s) /\ s[i] = x
  BY DEF Where
<1>6. \A i : i \in Where(t, x) <=> i \in 1 .. Len(s) + n /\ t[i] = x
  BY <1>2 DEF Where
<1>7. Count(t, x) = Cardinality(Where(t, x)) /\ Count(s, x) = Cardinality(Where(s, x))
      /\ Count(s, x) \in Nat /\ IsFiniteSet(Where(s, x))
  BY <1>2, WhereFinite
<1>8. CASE x # p
  <2>1. Where(t, x) = Where(s, x)
    <3>1. \A i : i \in Where(t, x) <=> i \in Where(s, x)
      <4> TAKE i
      <4>1. i \in Len(s) + 1 .. Len(s) + n => t[i] # x
        BY <1>3, <1>8
      <4>2. i \in 1 .. Len(s) => t[i] = s[i]
        BY <1>2
      <4> QED
        BY <1>4, <1>5, <1>6, <4>1, <4>2
    <3> QED
      BY <3>1 DEF Where
  <2>2. Count(t, x) = Count(s, x)
    BY <1>7, <2>1
  <2> QED
    BY <1>2, <1>7, <1>8, <2>2 DEF t, v
<1>9. CASE x = p
  <2> DEFINE I == Len(s) + 1 .. Len(s) + n
  <2>1. Where(t, x) = Where(s, x) \cup I
    BY <1>2, <1>3, <1>4, <1>5, <1>6, <1>9
  <2>2. Where(s, x) \cap I = {}
    <3>1. \A i \in I : i \notin 1 .. Len(s)
      BY <1>2
    <3> QED
      BY <1>5, <3>1
  <2>3. IsFiniteSet(I) /\ Cardinality(I) = n
    <3>1. Len(s) + 1 \in Int /\ Len(s) + n \in Int
      BY <1>2
    <3>2. IsFiniteSet(I) /\ Cardinality(I) = IF Len(s) + 1 > Len(s) + n THEN 0 ELSE (Len(s) + n) - (Len(s) + 1) + 1
      BY <3>1, FS_Interval
    <3> HIDE DEF I
    <3> QED
      BY <1>2, <3>2
  <2> HIDE DEF I
  <2>4. Cardinality(Where(s, x) \cup I) = Cardinality(Where(s, x)) + Cardinality(I) - Cardinality(Where(s, x) \cap I)
    BY <1>7, <2>3, FS_Union
  <2>5. Count(t, x) = Count(s, x) + n
    <3>1. Count(t, x) = Cardinality(Where(s, x)) + n - Cardinality({})
      BY <1>7, <2>1, <2>2, <2>3, <2>4
    <3>2. Cardinality({}) = 0
      BY FS_EmptySet
    <3> QED
      BY <1>7, <3>1, <3>2
  <2> QED
    BY <1>2, <1>9, <2>5 DEF t, v
<1> QED
  BY <1>8, <1>9

\* Without takes all of D out, and nothing else.
LEMMA CountWithout ==
    ASSUME NEW K, NEW s \in Seq(K), NEW D
    PROVE  /\ Without(s, D) \in Seq(K)
           /\ \A x : Count(Without(s, D), x) = IF x \in D THEN 0 ELSE Count(s, x)
<1> DEFINE N == Len(s)
           step(n, k) == IF n \in 1 .. N /\ s[n] \notin D THEN Append(k, s[n]) ELSE k
           G == [y \in Nat \X Seq(K) |-> step(y[1], y[2])]
           Upto(x, n) == {i \in Where(s, x) : i <= n}
           Fits(n, k) == \A x : Count(k, x) = IF x \in D THEN 0 ELSE Cardinality(Upto(x, n))
           J == {y \in (0 .. N) \X Seq(K) : Fits(y[1], y[2])}
<1>1. N \in Nat /\ <<>> \in Seq(K) /\ 0 \in Nat
  OBVIOUS
<1>2. G \in [Nat \X Seq(K) -> Seq(K)]
  OBVIOUS
<1>3. \A n \in 1 .. N : \A k \in Seq(K) : G[<<n, k>>] = IF s[n] \in D THEN k ELSE Append(k, s[n])
  OBVIOUS
<1>4. PICK f \in [0 .. N -> Seq(K)] : Follows(f, 0, N, <<>>, G)
  <2> HIDE DEF N, G
  <2> QED
    BY <1>1, <1>2, Recursive
<1>5. Without(s, D) = f[N]
  <2> DEFINE Val(h, n) ==
                 IF n = 0 THEN <<>>
                 ELSE CHOOSE r \in {IF s[n] \in D THEN k ELSE Append(k, s[n]) : k \in {h[n - 1]}} : TRUE
             E(h) == h = [n \in 0 .. N |-> Val(h, n)]
             after == CHOOSE h : E(h)
  <2>1. Without(s, D) = after[N]
    BY DEF Without, Loop
  <2>2. \A n \in 1 .. N : \A h : Val(h, n) = IF s[n] \in D THEN h[n - 1] ELSE Append(h[n - 1], s[n])
    <3> TAKE n \in 1 .. N
    <3> TAKE h
    <3>1. n # 0
      BY <1>1
    <3>2. {IF s[n] \in D THEN k ELSE Append(k, s[n]) : k \in {h[n - 1]}} =
             {IF s[n] \in D THEN h[n - 1] ELSE Append(h[n - 1], s[n])}
      OBVIOUS
    <3> QED
      BY <3>1, <3>2, OnlyOne
  <2>3. \A h : Val(h, 0) = <<>>
    OBVIOUS
  <2> HIDE DEF Val, G, N
  <2>4. \A n \in 0 .. N : f[n] = Val(f, n)
    <3> TAKE n \in 0 .. N
    <3>1. f[n] = IF n = 0 THEN <<>> ELSE G[<<n, f[n - 1]>>]
      BY <1>4 DEF Follows
    <3>2. n # 0 => n \in 1 .. N /\ n - 1 \in 0 .. N
      BY <1>1
    <3>3. n # 0 => G[<<n, f[n - 1]>>] = Val(f, n)
      <4>1. n # 0 => f[n - 1] \in Seq(K)
        BY <1>4, <3>2
      <4>2. n # 0 => Val(f, n) = IF s[n] \in D THEN f[n - 1] ELSE Append(f[n - 1], s[n])
        BY <2>2, <3>2
      <4> QED
        BY <1>3, <3>2, <4>1, <4>2
    <3> QED
      BY <2>3, <3>1, <3>3
  <2>5. E(f)
    BY <2>4
  <2>6. E(after)
    <3> HIDE DEF E
    <3> QED
      BY <2>5
  <2> HIDE DEF after
  <2>7. \A n \in 0 .. N : after[n] = Val(after, n)
    BY <2>6
  <2> HIDE DEF E
  <2>8. f[0] = after[0]
    BY <1>1, <2>3, <2>4, <2>7
  <2>9. \A n \in 1 .. N : f[n - 1] = after[n - 1] => f[n] = after[n]
    <3> TAKE n \in 1 .. N
    <3>1. n \in 0 .. N
      BY <1>1
    <3> QED
      BY <2>2, <2>4, <2>7, <3>1
  <2>10. Alike(f, after, N)
    BY <1>1, <2>8, <2>9, SameSteps DEF Stepwise
  <2> QED
    BY <1>1, <2>1, <2>10 DEF Alike
<1>6. \A x : /\ Upto(x, 0) = {} /\ Upto(x, N) = Where(s, x)
             /\ \A n \in 1 .. N : /\ IsFiniteSet(Upto(x, n - 1))
                                  /\ n \notin Upto(x, n - 1)
                                  /\ Upto(x, n) = IF s[n] = x THEN Upto(x, n - 1) \cup {n} ELSE Upto(x, n - 1)
  <2> TAKE x
  <2>1. \A i : i \in Where(s, x) <=> i \in 1 .. N /\ s[i] = x
    BY DEF Where
  <2>2. Upto(x, 0) = {} /\ Upto(x, N) = Where(s, x)
    BY <1>1, <2>1
  <2>3. ASSUME NEW n \in 1 .. N
        PROVE  /\ IsFiniteSet(Upto(x, n - 1)) /\ n \notin Upto(x, n - 1)
               /\ Upto(x, n) = IF s[n] = x THEN Upto(x, n - 1) \cup {n} ELSE Upto(x, n - 1)
    <3>1. n \in Nat /\ \A i \in Nat : i <= n <=> i <= n - 1 \/ i = n
      OBVIOUS
    <3>2. ~(n <= n - 1)
      BY <3>1
    <3>3. Upto(x, n - 1) \in SUBSET Where(s, x)
      OBVIOUS
    <3>4. IsFiniteSet(Upto(x, n - 1))
      <4> HIDE DEF Upto
      <4> QED
        BY <3>3, WhereFinite, FS_Subset
    <3>5. \A i : i \in Upto(x, n) <=> i \in Upto(x, n - 1) \/ (i = n /\ s[n] = x)
      <4> TAKE i
      <4>1. i \in Where(s, x) => i \in Nat
        BY <2>1
      <4> QED
        BY <2>1, <3>1, <4>1
    <3>6. n \notin Upto(x, n - 1)
      BY <3>2
    <3>7. s[n] = x => Upto(x, n) = Upto(x, n - 1) \cup {n}
      BY <3>5
    <3>8. s[n] # x => Upto(x, n) = Upto(x, n - 1)
      BY <3>5
    <3> HIDE DEF Upto
    <3> QED
      BY <3>4, <3>6, <3>7, <3>8
  <2> QED
    BY <2>2, <2>3
<1> HIDE DEF Upto
<1>7. <<0, <<>> >> \in J
  <2>1. Fits(0, <<>>)
    BY <1>6, CountEmpty, FS_EmptySet
  <2>2. 0 \in 0 .. N
    BY <1>1
  <2> HIDE DEF Fits, N
  <2> QED
    BY <1>1, <2>1, <2>2
<1>8. ASSUME NEW n \in 1 .. N, NEW k \in Seq(K), Fits(n - 1, k)
      PROVE  G[<<n, k>>] \in Seq(K) /\ Fits(n, G[<<n, k>>])
  <2> DEFINE u == G[<<n, k>>]
  <2>1. s[n] \in K /\ u = IF s[n] \in D THEN k ELSE Append(k, s[n])
    BY <1>3
  <2>2. u \in Seq(K)
    BY <2>1
  <2>3. ASSUME NEW x PROVE Count(u, x) = IF x \in D THEN 0 ELSE Cardinality(Upto(x, n))
    <3>1. Count(k, x) = IF x \in D THEN 0 ELSE Cardinality(Upto(x, n - 1))
      BY <1>8
    <3>2. Count(u, x) = Count(k, x) + IF s[n] \notin D /\ s[n] = x THEN 1 ELSE 0
      <4>1. Count(Append(k, s[n]), x) = Count(k, x) + IF s[n] = x THEN 1 ELSE 0
        BY <2>1, CountAppend
      <4>2. Count(k, x) \in Nat
        BY WhereFinite
      <4> HIDE DEF u, Fits
      <4> QED
        BY <2>1, <4>1, <4>2
    <3>3. Cardinality(Upto(x, n)) = Cardinality(Upto(x, n - 1)) + IF s[n] = x THEN 1 ELSE 0
      <4>1. IsFiniteSet(Upto(x, n - 1)) /\ n \notin Upto(x, n - 1)
            /\ Upto(x, n) = IF s[n] = x THEN Upto(x, n - 1) \cup {n} ELSE Upto(x, n - 1)
        BY <1>6
      <4>2. Cardinality(Upto(x, n - 1) \cup {n}) = Cardinality(Upto(x, n - 1)) + 1
        BY <4>1, FS_AddElement
      <4>3. Cardinality(Upto(x, n - 1)) \in Nat
        BY <4>1, FS_CardinalityType
      <4> QED
        BY <4>1, <4>2, <4>3
    <3> HIDE DEF u
    <3> QED
      BY <3>1, <3>2, <3>3
  <2> HIDE DEF u
  <2> QED
    BY <2>2, <2>3 DEF u
<1>9. \A n \in 1 .. N : \A k \in Seq(K) : <<n - 1, k>> \in J => <<n, G[<<n, k>>]>> \in J
  <2> TAKE n \in 1 .. N
  <2> TAKE k \in Seq(K)
  <2>1. <<n - 1, k>> \in J => Fits(n - 1, k)
    <3> HIDE DEF Fits
    <3> QED
      OBVIOUS
  <2>2. n \in 0 .. N
    BY <1>1
  <2> HIDE DEF Fits, G
  <2> QED
    BY <1>8, <2>1, <2>2
<1>10. f[N] \in Seq(K) /\ <<N, f[N]>> \in J
  <2> HIDE DEF J, G, N
  <2> QED
    BY <1>1, <1>2, <1>4, <1>7, <1>9, Looped
<1>11. Fits(N, f[N])
  <2> HIDE DEF Fits, N
  <2> QED
    BY <1>10
<1> QED
  BY <1>5, <1>6, <1>10, <1>11, WhereFinite

\* A graph, its blocks ended as they may be.
Typed(h) == h \in Graph /\ \A b \in BB : Formed(h.term[b])

\* How often c is a child of b, b a parent of c, c a target of b.
C(h, b, c) == Count(h.children[b], c)
P(h, b, c) == Count(h.parents[c], b)
T(h, b, c) == Count(h.term[b].to, c)

Agree(h) == \A b, c \in BB : C(h, b, c) = T(h, b, c) /\ P(h, b, c) = T(h, b, c)

\* A block that is not in ep->bbs any more has been killed.
Unlisted(h) == \A b \in BB : h.term[b] # NoTerm => b \in ToSet(h.bbs)

Sound(h) == Agree(h) /\ Unlisted(h)

\* What a graph consists of.
LEMMA Parts ==
    ASSUME NEW h \in Graph
    PROVE  /\ h.bbs \in Seq(BB) /\ h.children \in [BB -> Seq(BB)] /\ h.parents \in [BB -> Seq(BB)]
           /\ h.term \in [BB -> Term] /\ h.pure \in [BB -> BOOLEAN] /\ h.effects \in [BB -> Seq(BB)]
           /\ h.repeat \in BOOLEAN /\ h.asserts \in BOOLEAN
           /\ \A b \in BB : /\ h.children[b] \in Seq(BB) /\ h.parents[b] \in Seq(BB)
                            /\ h.term[b] \in Term /\ h.term[b].to \in Seq(BB) /\ h.term[b].cond \in Conds
BY DEF Graph, Term

\* Counts are numbers.
LEMMA CountsAre ==
    ASSUME NEW h \in Graph, NEW b \in BB, NEW c \in BB
    PROVE  /\ C(h, b, c) \in Nat /\ P(h, b, c) \in Nat /\ T(h, b, c) \in Nat
           /\ C(h, b, c) = 0 <=> c \notin ToSet(h.children[b])
           /\ P(h, b, c) = 0 <=> b \notin ToSet(h.parents[c])
           /\ T(h, b, c) = 0 <=> c \notin ToSet(h.term[b].to)
BY Parts, WhereFinite, CountZero DEF C, P, T

\* How a killed block ends.
LEMMA NoTermIs == NoTerm \in Term /\ Formed(NoTerm) /\ NoTerm.to = <<>> /\ NoTerm.op = "none"
BY DEF NoTerm, Term, Formed, Conds

-----------------------------------------------------------------------------
\* Paths: what edges lead to.

\* What the edges lead to from W, and W.
Spread(edges, W) == W \cup {q[2] : q \in {q \in edges : q[1] \in W}}

Grows(f, edges, S, N) == f[0] = S /\ \A n \in 1 .. N : f[n] = Spread(edges, f[n - 1])

\* From goes on as often as there are blocks.
LEMMA FromGrows ==
    ASSUME NEW edges, NEW S
    PROVE  /\ Cardinality(BB) \in Nat
           /\ \E f : Grows(f, edges, S, Cardinality(BB)) /\ From(edges, S) = f[Cardinality(BB)]
<1> DEFINE M == Cardinality(BB)
           s == [i \in 1 .. Cardinality(BB) |-> i]
           U == S \cup {q[2] : q \in edges}
           V == SUBSET U
           G == [y \in Nat \X V |-> Spread(edges, y[2])]
           N == Len(s)
<1>1. M \in Nat
  BY FS_CardinalityType, FlowAssumption
<1>2. N = M /\ \A n \in 1 .. M : s[n] = n
  BY <1>1
<1> HIDE DEF s, M
<1>3. S \in V /\ 0 \in Nat
  OBVIOUS
<1>4. \A W \in V : Spread(edges, W) \in V
  BY DEF Spread
<1>5. G \in [Nat \X V -> V] /\ \A n \in 1 .. N : \A W \in V : G[<<n, W>>] = Spread(edges, W)
  <2> HIDE DEF V
  <2>1. \A n \in 1 .. N : n \in Nat
    BY <1>1, <1>2
  <2> QED
    BY <1>4, <2>1
<1>6. PICK f \in [0 .. N -> V] : Follows(f, 0, N, S, G)
  <2> HIDE DEF N, G, V
  <2> QED
    BY <1>1, <1>2, <1>3, <1>5, Recursive
<1>7. f[0] = S /\ \A n \in 1 .. N : f[n] = Spread(edges, f[n - 1])
  <2>1. 0 \in 0 .. N
    BY <1>1, <1>2
  <2>2. \A n \in 1 .. N : n \in 0 .. N /\ n # 0 /\ n - 1 \in 0 .. N
    BY <1>1, <1>2
  <2>3. f[0] = S
    BY <1>6, <2>1 DEF Follows
  <2>4. ASSUME NEW n \in 1 .. N PROVE f[n] = Spread(edges, f[n - 1])
    <3>1. f[n] = G[<<n, f[n - 1]>>]
      BY <1>6, <2>2 DEF Follows
    <3>2. f[n - 1] \in V
      BY <2>2
    <3> HIDE DEF G, V
    <3> QED
      BY <1>5, <3>1, <3>2
  <2> QED
    BY <2>3, <2>4
<1>8. From(edges, S) = f[N]
  <2> DEFINE Val(hh, n) ==
                 IF n = 0 THEN S
                 ELSE CHOOSE r \in {Spread(edges, k) : k \in {hh[n - 1]}} : TRUE
             E(hh) == hh = [n \in 0 .. N |-> Val(hh, n)]
             after == CHOOSE hh : E(hh)
  <2>1. From(edges, S) = after[N]
    BY DEF From, Loop, Spread, s
  <2>2. \A n \in 1 .. N : \A hh : Val(hh, n) = Spread(edges, hh[n - 1])
    <3> TAKE n \in 1 .. N
    <3> TAKE hh
    <3>1. n # 0
      BY <1>1, <1>2
    <3>2. {Spread(edges, k) : k \in {hh[n - 1]}} = {Spread(edges, hh[n - 1])}
      OBVIOUS
    <3> QED
      BY <3>1, <3>2, OnlyOne
  <2>3. \A hh : Val(hh, 0) = S
    OBVIOUS
  <2> HIDE DEF Val, G, N, V
  <2>4. \A n \in 0 .. N : f[n] = Val(f, n)
    <3> TAKE n \in 0 .. N
    <3>1. n # 0 => n \in 1 .. N
      BY <1>1, <1>2
    <3> QED
      BY <1>7, <2>2, <2>3, <3>1
  <2>5. E(f)
    BY <2>4
  <2>6. E(after)
    <3> HIDE DEF E
    <3> QED
      BY <2>5
  <2> HIDE DEF after
  <2>7. \A n \in 0 .. N : after[n] = Val(after, n)
    BY <2>6
  <2> HIDE DEF E
  <2>8. f[0] = after[0]
    BY <1>1, <1>2, <2>3, <2>4, <2>7
  <2>9. \A n \in 1 .. N : f[n - 1] = after[n - 1] => f[n] = after[n]
    <3> TAKE n \in 1 .. N
    <3>1. n \in 0 .. N
      BY <1>1, <1>2
    <3> QED
      BY <2>2, <2>4, <2>7, <3>1
  <2>10. Alike(f, after, N)
    BY <1>1, <1>2, <2>8, <2>9, SameSteps DEF Stepwise
  <2>11. N \in 0 .. N
    BY <1>1, <1>2
  <2> QED
    BY <2>1, <2>10, <2>11 DEF Alike
<1> QED
  BY <1>1, <1>2, <1>7, <1>8 DEF Grows, M

\* It keeps what it starts with.
LEMMA FromHas ==
    ASSUME NEW edges, NEW S
    PROVE  S \subseteq From(edges, S)
<1> DEFINE N == Cardinality(BB)
<1>1. N \in Nat
  BY FromGrows
<1>2. PICK f : Grows(f, edges, S, N) /\ From(edges, S) = f[N]
  BY FromGrows
<1> HIDE DEF N
<1> DEFINE W == {n \in 0 .. N : ~(S \subseteq f[n])}
<1>3. W = {}
  <2> SUFFICES ASSUME W # {} PROVE FALSE
    OBVIOUS
  <2>1. PICK k \in W : \A l \in W : k <= l
    <3> W \subseteq Nat
      OBVIOUS
    <3> HIDE DEF W
    <3> QED
      BY Least
  <2>2. k # 0
    BY <1>2, <2>1 DEF Grows
  <2>3. k \in 1 .. N /\ k - 1 \in 0 .. N /\ ~(k <= k - 1)
    BY <1>1, <2>2
  <2>4. k - 1 \notin W
    <3> HIDE DEF W
    <3> QED
      BY <2>1, <2>3
  <2>5. S \subseteq f[k - 1] /\ f[k] = Spread(edges, f[k - 1])
    BY <1>2, <2>3, <2>4 DEF Grows
  <2> QED
    BY <2>1, <2>5 DEF Spread
<1>4. N \in 0 .. N
  BY <1>1
<1> QED
  BY <1>2, <1>3, <1>4

\* It stays within what the edges do not leave.
LEMMA FromLeast ==
    ASSUME NEW edges, NEW S, NEW X, S \subseteq X, \A q \in edges : q[1] \in X => q[2] \in X
    PROVE  From(edges, S) \subseteq X
<1> DEFINE N == Cardinality(BB)
<1>1. N \in Nat
  BY FromGrows
<1>2. PICK f : Grows(f, edges, S, N) /\ From(edges, S) = f[N]
  BY FromGrows
<1> HIDE DEF N
<1> DEFINE W == {n \in 0 .. N : ~(f[n] \subseteq X)}
<1>3. W = {}
  <2> SUFFICES ASSUME W # {} PROVE FALSE
    OBVIOUS
  <2>1. PICK k \in W : \A l \in W : k <= l
    <3> W \subseteq Nat
      OBVIOUS
    <3> HIDE DEF W
    <3> QED
      BY Least
  <2>2. k # 0
    BY <1>2, <2>1 DEF Grows
  <2>3. k \in 1 .. N /\ k - 1 \in 0 .. N /\ ~(k <= k - 1)
    BY <1>1, <2>2
  <2>4. k - 1 \notin W
    <3> HIDE DEF W
    <3> QED
      BY <2>1, <2>3
  <2>5. f[k - 1] \subseteq X /\ f[k] = Spread(edges, f[k - 1])
    BY <1>2, <2>3, <2>4 DEF Grows
  <2> QED
    BY <2>1, <2>5 DEF Spread
<1>4. N \in 0 .. N
  BY <1>1
<1> QED
  BY <1>2, <1>3, <1>4

\* The edges lead from a block to a block.
Hops(edges) == \A q \in edges : q[1] \in BB /\ q[2] \in BB

\* As often as there are blocks is often enough: nothing is new any more.
LEMMA FromClosed ==
    ASSUME NEW edges, NEW S, Hops(edges), S \subseteq BB, NEW q \in edges, q[1] \in From(edges, S)
    PROVE  q[2] \in From(edges, S)
<1> DEFINE N == Cardinality(BB)
<1>1. N \in Nat /\ IsFiniteSet(BB)
  BY FromGrows, FlowAssumption
<1>2. PICK f : Grows(f, edges, S, N) /\ From(edges, S) = f[N]
  BY FromGrows
<1> DEFINE Done(W) == \A p \in edges : p[1] \in W => p[2] \in W
           Fine(n) == f[n] \subseteq BB /\ (Done(f[n]) \/ n <= Cardinality(f[n]))
           W == {n \in 0 .. N : ~Fine(n)}
<1>3. \A X \in SUBSET BB : IsFiniteSet(X) /\ Cardinality(X) \in Nat
  BY <1>1, FS_Subset, FS_CardinalityType
<1>8. ASSUME NEW X \in SUBSET BB, N <= Cardinality(X) PROVE X = BB
  <2>1. X \subseteq BB /\ Cardinality(X) <= N
    BY <1>1, FS_Subset
  <2>2. Cardinality(X) = Cardinality(BB)
    BY <1>1, <1>3, <1>8, <2>1
  <2> QED
    BY <1>1, <2>1, <2>2, FS_Subset
<1> HIDE DEF N
<1>4. W = {}
  <2> SUFFICES ASSUME W # {} PROVE FALSE
    OBVIOUS
  <2>1. PICK k \in W : \A l \in W : k <= l
    <3> W \subseteq Nat
      OBVIOUS
    <3> HIDE DEF W
    <3> QED
      BY Least
  <2>2. k # 0
    <3>1. f[0] = S
      BY <1>2 DEF Grows
    <3>2. Fine(0)
      BY <1>3, <3>1
    <3> HIDE DEF Fine
    <3> QED
      BY <2>1, <3>2
  <2>3. k \in 1 .. N /\ k - 1 \in 0 .. N /\ ~(k <= k - 1)
    BY <1>1, <2>2
  <2>4. k - 1 \notin W
    <3> HIDE DEF W
    <3> QED
      BY <2>1, <2>3
  <2> DEFINE X == f[k - 1]
             Y == f[k]
  <2>5. Fine(k - 1)
    <3> HIDE DEF Fine
    <3> QED
      BY <2>3, <2>4
  <2>6. X \subseteq BB /\ (Done(X) \/ k - 1 <= Cardinality(X)) /\ Y = Spread(edges, X)
    BY <1>2, <2>3, <2>5 DEF Grows
  <2>7. ~Fine(k)
    <3> HIDE DEF Fine
    <3> QED
      BY <2>1
  <2> HIDE DEF X
  <2>8. Y \subseteq BB /\ X \subseteq Y
    BY <2>6 DEF Spread, Hops
  <2>9. CASE Done(X)
    <3>1. Y = X
      BY <2>6, <2>9 DEF Spread
    <3> QED
      BY <2>6, <2>7, <2>9, <3>1
  <2>10. CASE ~Done(X)
    <3>1. PICK p \in edges : p[1] \in X /\ p[2] \notin X
      BY <2>10
    <3>2. p[2] \in Y
      BY <2>6, <3>1 DEF Spread
    <3>3. X \cup {p[2]} \subseteq Y
      BY <2>8, <3>2
    <3>4. IsFiniteSet(Y) /\ Cardinality(Y) \in Nat /\ IsFiniteSet(X) /\ Cardinality(X) \in Nat
      BY <1>3, <2>6, <2>8
    <3>5. Cardinality(X \cup {p[2]}) = Cardinality(X) + 1
      BY <3>1, <3>4, FS_AddElement
    <3>6. Cardinality(X \cup {p[2]}) <= Cardinality(Y)
      BY <3>3, <3>4, FS_Subset
    <3>7. k - 1 <= Cardinality(X)
      BY <2>6, <2>10
    <3>8. k <= Cardinality(Y)
      BY <2>3, <3>4, <3>5, <3>6, <3>7
    <3> QED
      BY <2>7, <2>8, <3>8
  <2> QED
    BY <2>9, <2>10
<1>5. Fine(N)
  <2>1. N \in 0 .. N
    BY <1>1
  <2> HIDE DEF Fine
  <2> QED
    BY <1>4, <2>1
<1>6. CASE Done(f[N])
  BY <1>2, <1>6
<1>7. CASE N <= Cardinality(f[N])
  <2>1. f[N] = BB
    BY <1>5, <1>7, <1>8
  <2> QED
    BY <1>2, <2>1 DEF Hops
<1> QED
  BY <1>5, <1>6, <1>7

\* What b leads to before any side effect, and at it.
Ahead(h, v, b) == From(Steps(h, v), Ways(h, b, v))

\* A branch goes to some of its targets, and to none only if it has none.
LEMMA WaysAre ==
    ASSUME NEW h, Typed(h), NEW v \in BOOLEAN, NEW b \in BB
    PROVE  /\ Ways(h, b, v) \subseteq ToSet(h.term[b].to)
           /\ ToSet(h.term[b].to) \subseteq BB
           /\ Ways(h, b, v) = {} <=> h.term[b].to = <<>>
<1> DEFINE t == h.term[b]
           to == h.term[b].to
           i == IF t.cond = "true" \/ t.cond = IF v THEN "c" ELSE "notc" THEN 1 ELSE 2
<1>1. to \in Seq(BB) /\ Formed(t) /\ Len(to) \in Nat
  BY Parts DEF Typed
<1>2. ToSet(to) \subseteq BB /\ (ToSet(to) = {} <=> to = <<>>)
  <2> HIDE DEF to
  <2>1. ToSet(to) \subseteq BB
    BY <1>1 DEF ToSet
  <2>2. to # <<>> => to[1] \in ToSet(to)
    BY <1>1 DEF ToSet
  <2>3. to = <<>> => ToSet(to) = {}
    BY CountEmpty
  <2> QED
    BY <2>1, <2>2, <2>3
<1>3. CASE t.cond \in {"none", "other"} \/ t.op # "br"
  BY <1>2, <1>3 DEF Ways
<1>4. CASE ~(t.cond \in {"none", "other"} \/ t.op # "br")
  <2>1. Ways(h, b, v) = {to[i]}
    BY <1>4 DEF Ways
  <2>2. Len(to) = 2
    <3>1. t.op = "br" /\ t.cond # "none"
      BY <1>4
    <3>2. t.op = "br" => Len(to) = IF t.cond = "none" THEN 1 ELSE 2
      BY <1>1 DEF Formed
    <3> HIDE DEF t, to
    <3> QED
      BY <3>1, <3>2
  <2>3. i \in 1 .. 2
    OBVIOUS
  <2> HIDE DEF i, to
  <2>4. DOMAIN to = 1 .. 2
    BY <1>1, <2>2
  <2>5. to[i] \in ToSet(to)
    BY <2>3, <2>4 DEF ToSet
  <2>6. to # <<>>
    BY <2>2
  <2> QED
    BY <1>2, <2>1, <2>5, <2>6 DEF to
<1> QED
  BY <1>3, <1>4

\* The steps from blocks without side effects.
LEMMA StepsAre ==
    ASSUME NEW h, Typed(h), NEW v \in BOOLEAN
    PROVE  /\ Hops(Steps(h, v))
           /\ \A q : q \in Steps(h, v) <=> \E x \in Silent(h) : \E c \in Ways(h, x, v) : q = <<x, c>>
<1>1. \A q : q \in Steps(h, v) <=> \E x \in Silent(h) : \E c \in Ways(h, x, v) : q = <<x, c>>
  BY DEF Steps
<1>2. \A x \in Silent(h) : x \in BB /\ Ways(h, x, v) \subseteq BB
  BY WaysAre DEF Silent
<1> QED
  BY <1>1, <1>2 DEF Hops

\* Ahead is closed, until there is a side effect.
IsAhead(h, v, b) ==
    /\ Ahead(h, v, b) \subseteq BB
    /\ Ways(h, b, v) \subseteq Ahead(h, v, b)
    /\ \A x \in Ahead(h, v, b) \cap Silent(h) : Ways(h, x, v) \subseteq Ahead(h, v, b)

\* It is the least such set.
LEMMA AheadLeast ==
    ASSUME NEW h, Typed(h), NEW v \in BOOLEAN, NEW b \in BB, NEW X,
           Ways(h, b, v) \subseteq X, \A x \in X \cap Silent(h) : Ways(h, x, v) \subseteq X
    PROVE  Ahead(h, v, b) \subseteq X
<1>1. \A q \in Steps(h, v) : q[1] \in X => q[2] \in X
  BY StepsAre
<1> QED
  BY <1>1, FromLeast DEF Ahead

\* Ahead is closed.
LEMMA AheadIs ==
    ASSUME NEW h, Typed(h), NEW v \in BOOLEAN, NEW b \in BB
    PROVE  IsAhead(h, v, b)
<1>1. Ways(h, b, v) \subseteq BB
  BY WaysAre
<1>2. Ways(h, b, v) \subseteq Ahead(h, v, b)
  BY FromHas DEF Ahead
<1>3. ASSUME NEW x \in Ahead(h, v, b) \cap Silent(h), NEW c \in Ways(h, x, v)
      PROVE  c \in Ahead(h, v, b)
  <2> DEFINE q == <<x, c>>
  <2>1. q \in Steps(h, v) /\ q[1] = x /\ q[2] = c
    BY <1>3, StepsAre
  <2> HIDE DEF q
  <2> QED
    BY <1>1, <1>3, <2>1, StepsAre, FromClosed DEF Ahead
<1>4. Ahead(h, v, b) \subseteq BB
  <2>1. \A x \in BB : Ways(h, x, v) \subseteq BB
    BY WaysAre
  <2> QED
    BY <2>1, AheadLeast
<1> QED
  BY <1>2, <1>3, <1>4 DEF IsAhead

\* What is ahead of a silent block that is ahead.
LEMMA AheadOn ==
    ASSUME NEW h, Typed(h), NEW v \in BOOLEAN, NEW b \in BB, NEW c \in Ahead(h, v, b), c \in Silent(h)
    PROVE  Ahead(h, v, c) \subseteq Ahead(h, v, b)
<1>1. IsAhead(h, v, b)
  BY AheadIs
<1>2. c \in BB /\ Ways(h, c, v) \subseteq Ahead(h, v, b)
  BY <1>1 DEF IsAhead
<1>3. \A x \in Ahead(h, v, b) \cap Silent(h) : Ways(h, x, v) \subseteq Ahead(h, v, b)
  BY <1>1 DEF IsAhead
<1> DEFINE X == Ahead(h, v, b)
<1> HIDE DEF X
<1>4. Ways(h, c, v) \subseteq X /\ \A x \in X \cap Silent(h) : Ways(h, x, v) \subseteq X
  BY <1>2, <1>3 DEF X
<1>5. Ahead(h, v, c) \subseteq X
  BY <1>2, <1>4, AheadLeast
<1> QED
  BY <1>5 DEF X

\* What may happen next after b.
ComesNext(h, v, b, n) ==
    \/ \E x \in Ahead(h, v, b) \ Silent(h) : n = h.effects[x][1]
    \/ \E x \in {b} \cup (Ahead(h, v, b) \cap Silent(h)) : h.term[x].to = <<>> /\ n = h.term[x].op
    \/ n = "forever" /\ \E x \in Ahead(h, v, b) \cap Silent(h) : x \in Ahead(h, v, x)

\* That is Next_effects.
LEMMA NextEffectsAre ==
    ASSUME NEW h, Typed(h), NEW v \in BOOLEAN, NEW b \in BB, NEW n
    PROVE  n \in Next_effects(h, b, Ahead(h, v, b), Steps(h, v)) <=> ComesNext(h, v, b, n)
<1> DEFINE A == Ahead(h, v, b)
           E == Steps(h, v)
           On(y) == {q[2] : q \in {q \in E : q[1] = y}}
<1>1. ASSUME NEW y \in A PROVE y \in From(E, On(y)) <=> y \in Silent(h) /\ y \in Ahead(h, v, y)
  <2>1. CASE y \in Silent(h)
    <3>1. On(y) = Ways(h, y, v)
      <4>1. \A c \in Ways(h, y, v) : c \in On(y)
        <5> TAKE c \in Ways(h, y, v)
        <5> DEFINE q == <<y, c>>
        <5>1. q \in E /\ q[1] = y /\ q[2] = c
          BY <2>1, StepsAre
        <5> QED
          BY <5>1
      <4>2. \A q \in E : q[1] = y => q[2] \in Ways(h, y, v)
        BY StepsAre
      <4> HIDE DEF E
      <4> QED
        BY <4>1, <4>2
    <3> QED
      BY <2>1, <3>1 DEF Ahead
  <2>2. CASE y \notin Silent(h)
    <3>1. On(y) = {}
      <4>1. \A q \in E : q[1] # y
        BY <2>2, StepsAre
      <4> HIDE DEF E
      <4> QED
        BY <4>1
    <3> DEFINE X == BB \ {y}
    <3>2. \A q \in E : q[1] \in X => q[2] \in BB
      BY StepsAre DEF Hops
    <3>3. From(E, {}) \subseteq {}
      BY FromLeast
    <3> QED
      BY <2>2, <3>1, <3>3
  <2> QED
    BY <2>1, <2>2
<1>2. n \in Next_effects(h, b, A, E) <=>
        \/ \E x \in A \ Silent(h) : n = h.effects[x][1]
        \/ \E x \in {b} \cup (A \cap Silent(h)) : h.term[x].to = <<>> /\ n = h.term[x].op
        \/ n = "forever" /\ \E y \in A : y \in From(E, On(y))
  <2> HIDE DEF A, E
  <2> QED
    BY DEF Next_effects
<1> HIDE DEF E, On
<1> QED
  BY <1>1, <1>2 DEF ComesNext, E

\* Two side effects of a block, one after the other.
Inner(h, q) ==
    \E b \in BB \ Silent(h) : \E i \in 1 .. Len(h.effects[b]) - 1 :
        q = <<h.effects[b][i], h.effects[b][i + 1]>>

\* The last one of a block, and what may happen next after the block.
Leaving(h, v, q) ==
    \E b \in BB \ Silent(h) : \E n : ComesNext(h, v, b, n) /\ q = <<h.effects[b][Len(h.effects[b])], n>>

\* The pairs of After are of these two kinds.
LEMMA AfterIs ==
    ASSUME NEW h, Typed(h), NEW v \in BOOLEAN, NEW q
    PROVE  q \in After(h, v) <=> Inner(h, q) \/ Leaving(h, v, q)
<1> DEFINE Of(b) == {<<h.effects[b][i], h.effects[b][i + 1]>> : i \in 1 .. Len(h.effects[b]) - 1}
           N(b) == Next_effects(h, b, Ahead(h, v, b), Steps(h, v))
           On(b) == {<<h.effects[b][Len(h.effects[b])], n>> : n \in N(b)}
<1>1. q \in After(h, v) <=> \E b \in BB \ Silent(h) : q \in Of(b) \/ q \in On(b)
  <2> DEFINE Out(b, E) == UNION {{<<h.effects[b][Len(h.effects[b])], n>> :
                                    n \in Next_effects(h, b, met, E)} : met \in {From(E, Ways(h, b, v))}}
             D == BB \ Silent(h)
  <2> DEFINE Z(b, E) == Of(b) \cup Out(b, E)
             U == {Z(b, E) : b \in D, E \in {Steps(h, v)}}
  <2>1. After(h, v) = UNION U
    BY DEF After
  <2>3. \A z : z \in U <=> \E b \in D : z = Z(b, Steps(h, v))
    <3> HIDE DEF Z, D
    <3> QED
      OBVIOUS
  <2>2. \A b : Out(b, Steps(h, v)) = On(b)
    <3> TAKE b
    <3> DEFINE l == h.effects[b][Len(h.effects[b])]
               M == From(Steps(h, v), Ways(h, b, v))
               S == Steps(h, v)
    <3>1. On(b) = {<<l, n>> : n \in Next_effects(h, b, M, S)}
      BY DEF Ahead
    <3>2. Out(b, S) = UNION {{<<l, n>> : n \in Next_effects(h, b, met, S)} : met \in {M}}
      OBVIOUS
    <3> HIDE DEF l, M, S, Out, On
    <3> QED
      BY <3>1, <3>2 DEF S
  <2>4. q \in After(h, v) <=> \E b \in D : q \in Z(b, Steps(h, v))
    <3> HIDE DEF Z, U, D
    <3> QED
      BY <2>1, <2>3
  <2> HIDE DEF Of, Out, On, D
  <2> QED
    BY <2>2, <2>4 DEF D
<1>2. \A b \in BB : q \in On(b) <=> \E n : ComesNext(h, v, b, n) /\ q = <<h.effects[b][Len(h.effects[b])], n>>
  <2> TAKE b \in BB
  <2>1. \A n : n \in N(b) <=> ComesNext(h, v, b, n)
    BY NextEffectsAre
  <2> HIDE DEF N
  <2> QED
    BY <2>1
<1>3. \A b \in BB : q \in Of(b) <=> \E i \in 1 .. Len(h.effects[b]) - 1 : q = <<h.effects[b][i], h.effects[b][i + 1]>>
  OBVIOUS
<1> HIDE DEF Of, On
<1> QED
  BY <1>1, <1>2, <1>3 DEF Inner, Leaving

\* The side effects of a block that has any.
EffectsOf(h, b) ==
    LET s == h.effects[b]
    IN  /\ s \in Seq(BB) /\ Len(s) \in Nat /\ Len(s) > 0 /\ DOMAIN s = 1 .. Len(s)
        /\ 1 \in 1 .. Len(s) /\ Len(s) \in 1 .. Len(s) /\ \A i \in 1 .. Len(s) : s[i] \in BB

\* A block that is not silent has a first one and a last one.
LEMMA EffectsAre ==
    ASSUME NEW h, Typed(h), NEW b \in BB \ Silent(h)
    PROVE  EffectsOf(h, b)
<1>1. h.effects[b] \in Seq(BB) /\ h.effects[b] # <<>>
  BY Parts DEF Typed, Silent
<1> DEFINE s == h.effects[b]
<1> HIDE DEF s
<1>2. s \in Seq(BB) /\ s # <<>>
  BY <1>1 DEF s
<1>3. Len(s) \in Nat /\ Len(s) > 0 /\ DOMAIN s = 1 .. Len(s) /\ \A i \in 1 .. Len(s) : s[i] \in BB
  BY <1>2
<1>4. 1 \in 1 .. Len(s) /\ Len(s) \in 1 .. Len(s)
  BY <1>3
<1> QED
  BY <1>2, <1>3, <1>4 DEF EffectsOf, s

\* From blocks without side effects one only gets to such, and on: it goes round.
LEMMA Circle ==
    ASSUME NEW h, Typed(h), NEW v \in BOOLEAN, NEW A, A \subseteq Silent(h), A # {},
           \A x \in A : Ways(h, x, v) \subseteq A /\ Ways(h, x, v) # {}
    PROVE  \E x \in A : x \in Ahead(h, v, x)
<1> DEFINE Closed(M) == M # {} /\ \A x \in M : Ways(h, x, v) \subseteq M
           Ms == {M \in SUBSET A : Closed(M)}
           Ns == {Cardinality(M) : M \in Ms}
<1>1. A \subseteq BB /\ IsFiniteSet(A)
  BY FlowAssumption, FS_Subset DEF Silent
<1>2. \A M \in SUBSET A : IsFiniteSet(M) /\ Cardinality(M) \in Nat
  BY <1>1, FS_Subset, FS_CardinalityType
<1>3. A \in Ms
  OBVIOUS
<1>4. Ns \subseteq Nat /\ Ns # {}
  <2> HIDE DEF Closed
  <2> QED
    BY <1>2, <1>3
<1>5. PICK n \in Ns : \A l \in Ns : n <= l
  <2> HIDE DEF Ns
  <2> QED
    BY <1>4, Least
<1>6. PICK M \in Ms : n = Cardinality(M)
  OBVIOUS
<1>7. PICK x \in M : TRUE
  BY <1>6
<1>8. x \in BB /\ M \subseteq BB
  BY <1>1, <1>6, <1>7
<1> DEFINE X == Ahead(h, v, x)
<1>9. X \subseteq M
  BY <1>6, <1>7, <1>8, AheadLeast
<1>10. IsAhead(h, v, x)
  BY <1>8, AheadIs
<1>11. X # {} /\ \A y \in X : Ways(h, y, v) \subseteq X
  <2>1. X \subseteq Silent(h) /\ Ways(h, x, v) # {}
    BY <1>6, <1>7, <1>9
  <2> QED
    BY <1>10, <2>1 DEF IsAhead
<1> HIDE DEF X
<1>12. X \in Ms
  BY <1>6, <1>9, <1>11
<1> HIDE DEF Closed, Ms
<1>13. Cardinality(M) <= Cardinality(X)
  BY <1>5, <1>6, <1>12
<1>14. X = M
  <2>1. M \in SUBSET A /\ X \in SUBSET A
    BY <1>6, <1>12 DEF Ms
  <2>2. Cardinality(X) <= Cardinality(M) /\ Cardinality(X) \in Nat /\ Cardinality(M) \in Nat /\ IsFiniteSet(M)
    BY <1>2, <1>9, <2>1, FS_Subset
  <2>3. Cardinality(X) = Cardinality(M)
    BY <1>13, <2>2
  <2> QED
    BY <1>9, <2>2, <2>3, FS_Subset
<1> QED
  BY <1>6, <1>7, <1>14 DEF X, Ms

\* Something may happen next: a side effect, an end, or nothing for ever.
LEMMA ComesSome ==
    ASSUME NEW h, Typed(h), NEW v \in BOOLEAN, NEW b \in BB
    PROVE  \E n : ComesNext(h, v, b, n)
<1> DEFINE A == Ahead(h, v, b)
<1>1. IsAhead(h, v, b)
  BY AheadIs
<1>2. CASE \E x \in A : x \notin Silent(h)
  BY <1>2 DEF ComesNext
<1>3. CASE \E x \in {b} \cup (A \cap Silent(h)) : h.term[x].to = <<>>
  BY <1>3 DEF ComesNext
<1>4. CASE A \subseteq Silent(h) /\ \A x \in {b} \cup (A \cap Silent(h)) : h.term[x].to # <<>>
  <2> HIDE DEF A
  <2>1. A \subseteq BB /\ Ways(h, b, v) \subseteq A /\ \A x \in A : Ways(h, x, v) \subseteq A
    BY <1>1, <1>4 DEF IsAhead, A
  <2>2. \A x \in {b} \cup A : Ways(h, x, v) # {}
    BY <1>4, <2>1, WaysAre
  <2>3. A # {}
    BY <2>1, <2>2
  <2>4. \E x \in A : x \in Ahead(h, v, x)
    BY <1>4, <2>1, <2>2, <2>3, Circle
  <2> QED
    BY <1>4, <2>4 DEF ComesNext, A
<1> QED
  BY <1>2, <1>3, <1>4

\* X has the entry and what may happen after any of it.
Onward(h, v, X) == entry \in X /\ \A q \in After(h, v) : q[1] \in X => q[2] \in X

\* What may happen at all when c has the value v.
Happens(h, v, s) == \A X : Onward(h, v, X) => s \in X

\* After an edit of h nothing happens next that could not happen next before.
Preserves(h, k, v) == \A q \in After(k, v) : Happens(k, v, q[1]) => q \in After(h, v)

\* It happens at the entry, and then on.
LEMMA HappensOn ==
    ASSUME NEW h, NEW v
    PROVE  Happens(h, v, entry) /\ \A q \in After(h, v) : Happens(h, v, q[1]) => Happens(h, v, q[2])
BY DEF Happens, Onward

\* Nothing happens after the edit that did not happen before.
LEMMA PreservesHappens ==
    ASSUME NEW h, NEW k, NEW v, Preserves(h, k, v), NEW s, Happens(k, v, s)
    PROVE  Happens(h, v, s)
<1> SUFFICES ASSUME NEW X, Onward(h, v, X) PROVE s \in X
  BY DEF Happens
<1> DEFINE Y == {x \in X : Happens(k, v, x)}
<1>1. entry \in Y
  BY HappensOn DEF Onward
<1>2. ASSUME NEW q \in After(k, v), q[1] \in Y PROVE q[2] \in Y
  <2>1. q \in After(h, v) /\ Happens(k, v, q[2])
    BY <1>2, HappensOn DEF Preserves
  <2> QED
    BY <1>2, <2>1 DEF Onward
<1>3. Onward(k, v, Y)
  <2> HIDE DEF Y
  <2> QED
    BY <1>1, <1>2 DEF Onward
<1>4. s \in Y
  <2> HIDE DEF Y
  <2> QED
    BY <1>3 DEF Happens
<1> QED
  BY <1>4

\* It is enough to look at what happens before the edit.
LEMMA PreservesIf ==
    ASSUME NEW h, NEW k, NEW v, \A q \in After(k, v) : Happens(h, v, q[1]) => q \in After(h, v)
    PROVE  Preserves(h, k, v)
<1> SUFFICES ASSUME NEW s, Happens(k, v, s) PROVE Happens(h, v, s)
  BY DEF Preserves
<1> SUFFICES ASSUME NEW X, Onward(h, v, X) PROVE s \in X
  BY DEF Happens
<1> DEFINE Y == {x \in X : Happens(h, v, x)}
<1>1. entry \in Y
  BY HappensOn DEF Onward
<1>2. ASSUME NEW q \in After(k, v), q[1] \in Y PROVE q[2] \in Y
  <2>1. q \in After(h, v) /\ Happens(h, v, q[2])
    BY <1>2, HappensOn
  <2> QED
    BY <1>2, <2>1 DEF Onward
<1>3. Onward(k, v, Y)
  <2> HIDE DEF Y
  <2> QED
    BY <1>1, <1>2 DEF Onward
<1>4. s \in Y
  <2> HIDE DEF Y
  <2> QED
    BY <1>3 DEF Happens
<1> QED
  BY <1>4

\* Edits one after the other.
LEMMA PreservesAll ==
    ASSUME NEW h, NEW k, NEW l, NEW v, Preserves(h, k, v), Preserves(k, l, v)
    PROVE  Preserves(h, l, v)
<1> SUFFICES ASSUME NEW q \in After(l, v), Happens(l, v, q[1]) PROVE q \in After(h, v)
  BY DEF Preserves
<1>1. q \in After(k, v)
  BY DEF Preserves
<1>2. Happens(k, v, q[1])
  BY PreservesHappens
<1> QED
  BY <1>1, <1>2 DEF Preserves

\* Each side effect is in one place.
Ordered(h) ==
    \A a, b \in BB : \A i \in DOMAIN h.effects[a], j \in DOMAIN h.effects[b] :
        h.effects[a][i] = h.effects[b][j] => a = b /\ i = j

\* The function starts with that of the OP_ENTRY, and does not come back to it.
Starts(h) == h.effects[entry] # <<>> /\ h.effects[entry][1] = entry
Unentered(h) == \A b \in BB : entry \notin ToSet(h.term[b].to)

Good(h) == Typed(h) /\ Ordered(h) /\ Starts(h) /\ Unentered(h)

\* It is one of the side effects of some block.
Listed(h, s) == \E b \in BB \ Silent(h) : \E i \in 1 .. Len(h.effects[b]) : s = h.effects[b][i]

\* What comes next is a side effect that is somewhere, or not a block.
LEMMA NextListed ==
    ASSUME NEW h, Typed(h), NEW v \in BOOLEAN, NEW b \in BB, NEW n, ComesNext(h, v, b, n)
    PROVE  n \in PathEnds \/ (n \in BB /\ Listed(h, n))
<1>1. IsAhead(h, v, b)
  BY AheadIs
<1>2. CASE \E x \in Ahead(h, v, b) \ Silent(h) : n = h.effects[x][1]
  <2>1. PICK x \in Ahead(h, v, b) \ Silent(h) : n = h.effects[x][1]
    BY <1>2
  <2>2. x \in BB \ Silent(h)
    BY <1>1, <2>1 DEF IsAhead
  <2> QED
    BY <2>1, <2>2, EffectsAre DEF EffectsOf, Listed
<1>3. CASE \E x \in {b} \cup (Ahead(h, v, b) \cap Silent(h)) : h.term[x].to = <<>> /\ n = h.term[x].op
  <2>1. PICK x \in {b} \cup (Ahead(h, v, b) \cap Silent(h)) : n = h.term[x].op
    BY <1>3
  <2>2. x \in BB
    BY <1>1, <2>1 DEF IsAhead
  <2>3. h.term[x] \in Term
    BY <2>2, Parts DEF Typed
  <2> QED
    BY <2>1, <2>3 DEF Term, PathEnds
<1>4. CASE n = "forever"
  BY <1>4 DEF PathEnds
<1> QED
  BY <1>2, <1>3, <1>4 DEF ComesNext

\* What happens is somewhere.
LEMMA HappensListed ==
    ASSUME NEW h, Good(h), NEW v \in BOOLEAN, NEW s \in BB, Happens(h, v, s)
    PROVE  Listed(h, s)
<1> DEFINE X == {x \in BB : Listed(h, x)} \cup PathEnds
<1>1. Typed(h) /\ entry \in BB /\ entry \notin Silent(h)
  BY FlowAssumption DEF Good, Starts, Silent
<1>2. entry \in X
  BY <1>1, EffectsAre DEF EffectsOf, Listed, Good, Starts
<1>3. ASSUME NEW q \in After(h, v) PROVE q[2] \in X
  <2>1. CASE Inner(h, q)
    <3>1. PICK b \in BB \ Silent(h) : \E i \in 1 .. Len(h.effects[b]) - 1 : q = <<h.effects[b][i], h.effects[b][i + 1]>>
      BY <2>1 DEF Inner
    <3>2. PICK i \in 1 .. Len(h.effects[b]) - 1 : q = <<h.effects[b][i], h.effects[b][i + 1]>>
      BY <3>1
    <3>3. EffectsOf(h, b)
      BY <1>1, EffectsAre
    <3>4. i + 1 \in 1 .. Len(h.effects[b])
      BY <3>3 DEF EffectsOf
    <3>5. q[2] = h.effects[b][i + 1]
      BY <3>2
    <3> QED
      BY <3>3, <3>4, <3>5 DEF EffectsOf, Listed
  <2>2. CASE Leaving(h, v, q)
    <3>1. PICK b \in BB : \E n : ComesNext(h, v, b, n) /\ q[2] = n
      BY <2>2 DEF Leaving
    <3>2. PICK n : ComesNext(h, v, b, n) /\ q[2] = n
      BY <3>1
    <3> QED
      BY <1>1, <3>2, NextListed
  <2> QED
    BY <1>1, <2>1, <2>2, AfterIs
<1> HIDE DEF X
<1>4. s \in X
  BY <1>2, <1>3 DEF Happens, Onward
<1> QED
  BY <1>4, FlowAssumption DEF X

\* Something follows whatever happens.
LEMMA Goes ==
    ASSUME NEW h, Good(h), NEW v \in BOOLEAN, NEW s \in BB, Happens(h, v, s)
    PROVE  \E q \in After(h, v) : q[1] = s
<1>1. PICK b \in BB \ Silent(h) : \E i \in 1 .. Len(h.effects[b]) : s = h.effects[b][i]
  BY HappensListed DEF Listed
<1>2. PICK i \in 1 .. Len(h.effects[b]) : s = h.effects[b][i]
  BY <1>1
<1>3. EffectsOf(h, b) /\ Typed(h)
  BY EffectsAre DEF Good
<1>4. CASE i = Len(h.effects[b])
  <2>1. PICK n : ComesNext(h, v, b, n)
    BY <1>3, ComesSome
  <2> DEFINE q == <<s, n>>
  <2>2. Leaving(h, v, q)
    BY <1>2, <1>4, <2>1 DEF Leaving
  <2>3. q[1] = s
    OBVIOUS
  <2> HIDE DEF q
  <2> QED
    BY <1>3, <2>2, <2>3, AfterIs
<1>5. CASE i # Len(h.effects[b])
  <2>1. i \in 1 .. Len(h.effects[b]) - 1
    BY <1>3, <1>5 DEF EffectsOf
  <2> DEFINE q == <<s, h.effects[b][i + 1]>>
  <2>2. Inner(h, q)
    BY <1>2, <2>1 DEF Inner
  <2>3. q[1] = s
    OBVIOUS
  <2> HIDE DEF q
  <2> QED
    BY <1>3, <2>2, <2>3, AfterIs
<1> QED
  BY <1>4, <1>5

\* After the edit x stands for x, or for x and the only block y it went on to, and goes on
\* as that did.
Stands(h, k, v, x, y) ==
    /\ y \in BB
    /\ \/ y = x /\ k.effects[x] = h.effects[x]
       \/ Ways(h, x, v) = {y} /\ k.effects[x] = h.effects[x] \o h.effects[y]
    /\ Ways(k, x, v) \subseteq Ahead(h, v, y)
    /\ k.term[x].to = <<>> => h.term[y].to = <<>> /\ h.term[y].op = k.term[x].op

\* So do the blocks of R, within R, and in the others nothing happens.
Mimics(h, k, v, R) ==
    /\ R \subseteq BB
    /\ \A x \in BB \ R : \A i \in DOMAIN k.effects[x] : ~Happens(h, v, k.effects[x][i])
    /\ \A x \in R : Ways(k, x, v) \subseteq R /\ \E y \in BB : Stands(h, k, v, x, y)

\* Side effects of one block after those of another.
IsJoinedTo(e, f, d) ==
    /\ d \in Seq(BB) /\ Len(d) = Len(e) + Len(f) /\ (d = <<>> <=> e = <<>> /\ f = <<>>)
    /\ \A i \in 1 .. Len(d) : d[i] = IF i <= Len(e) THEN e[i] ELSE f[i - Len(e)]

\* What two sequences make.
LEMMA JoinedTo ==
    ASSUME NEW e \in Seq(BB), NEW f \in Seq(BB)
    PROVE  IsJoinedTo(e, f, e \o f)
<1> DEFINE d == e \o f
<1>1. d \in Seq(BB) /\ Len(d) = Len(e) + Len(f) /\ Len(e) \in Nat /\ Len(f) \in Nat
  OBVIOUS
<1>2. \A i \in 1 .. Len(d) : d[i] = IF i <= Len(e) THEN e[i] ELSE f[i - Len(e)]
  OBVIOUS
<1>3. \A s \in Seq(BB) : s = <<>> <=> Len(s) = 0
  OBVIOUS
<1> HIDE DEF d
<1>4. d = <<>> <=> e = <<>> /\ f = <<>>
  BY <1>1, <1>3
<1> QED
  BY <1>1, <1>2, <1>4 DEF IsJoinedTo, d

\* A block that is silent after the edit stands for silent ones.
LEMMA StandsSilent ==
    ASSUME NEW h, NEW k, Typed(h), Typed(k), NEW v \in BOOLEAN, NEW x \in BB, NEW y \in BB, Stands(h, k, v, x, y), x \in Silent(k)
    PROVE  x \in Silent(h) /\ y \in Silent(h) /\ (y = x \/ y \in Ahead(h, v, x))
<1>1. h.effects[x] \in Seq(BB) /\ h.effects[y] \in Seq(BB)
  BY Parts DEF Typed
<1>2. k.effects[x] = <<>>
  BY DEF Silent
<1>3. CASE y = x /\ k.effects[x] = h.effects[x]
  BY <1>2, <1>3 DEF Silent
<1>4. CASE Ways(h, x, v) = {y} /\ k.effects[x] = h.effects[x] \o h.effects[y]
  <2>1. h.effects[x] = <<>> /\ h.effects[y] = <<>>
    <3> DEFINE d == h.effects[x] \o h.effects[y]
    <3>1. IsJoinedTo(h.effects[x], h.effects[y], d)
      BY <1>1, JoinedTo
    <3>2. d = <<>>
      BY <1>2, <1>4
    <3> HIDE DEF d
    <3> QED
      BY <3>1, <3>2 DEF IsJoinedTo
  <2>2. y \in Ahead(h, v, x)
    BY <1>4, AheadIs DEF IsAhead
  <2> QED
    BY <2>1, <2>2 DEF Silent
<1> QED
  BY <1>3, <1>4 DEF Stands

\* What is ahead was ahead.
LEMMA MimicsAhead ==
    ASSUME NEW h, NEW k, Typed(h), Typed(k), NEW v \in BOOLEAN, NEW R, Mimics(h, k, v, R), NEW x \in R, NEW y \in BB, Stands(h, k, v, x, y)
    PROVE  Ahead(k, v, x) \subseteq Ahead(h, v, y) \cap R
<1> DEFINE X == Ahead(h, v, y) \cap R
<1>1. x \in BB /\ Ways(k, x, v) \subseteq X
  BY DEF Mimics, Stands
<1>2. ASSUME NEW z \in X \cap Silent(k) PROVE Ways(k, z, v) \subseteq X
  <2>1. z \in R /\ z \in BB /\ z \in Ahead(h, v, y)
    BY <1>2 DEF Mimics
  <2>2. PICK w \in BB : Stands(h, k, v, z, w)
    BY <2>1 DEF Mimics
  <2>3. z \in Silent(h) /\ w \in Silent(h) /\ (w = z \/ w \in Ahead(h, v, z))
    BY <1>2, <2>1, <2>2, StandsSilent
  <2>4. Ahead(h, v, z) \subseteq Ahead(h, v, y)
    BY <2>1, <2>3, AheadOn
  <2>5. Ahead(h, v, w) \subseteq Ahead(h, v, y)
    <3>1. w \in Ahead(h, v, y)
      BY <2>1, <2>3, <2>4
    <3> QED
      BY <2>3, <3>1, AheadOn
  <2> QED
    BY <2>1, <2>2, <2>5 DEF Mimics, Stands
<1> HIDE DEF X
<1>3. Ahead(k, v, x) \subseteq X
  BY <1>1, <1>2, AheadLeast
<1> QED
  BY <1>3 DEF X

\* What may happen next after a block may happen next after any before it, but for silent ones.
LEMMA ComesOn ==
    ASSUME NEW h, Typed(h), NEW v \in BOOLEAN, NEW b \in BB, NEW c \in Ahead(h, v, b), c \in Silent(h), NEW n, ComesNext(h, v, c, n)
    PROVE  ComesNext(h, v, b, n)
<1>1. Ahead(h, v, c) \subseteq Ahead(h, v, b)
  BY AheadOn
<1> QED
  BY <1>1 DEF ComesNext

\* What may happen next after a block could happen next after what it stands for.
LEMMA MimicsNext ==
    ASSUME NEW h, NEW k, Typed(h), Typed(k), NEW v \in BOOLEAN, NEW R, Mimics(h, k, v, R), NEW x \in R, NEW y \in BB, Stands(h, k, v, x, y),
           NEW n, ComesNext(k, v, x, n)
    PROVE  ComesNext(h, v, y, n)
<1>1. Ahead(k, v, x) \subseteq Ahead(h, v, y) \cap R
  BY MimicsAhead
<1>2. IsAhead(h, v, y)
  BY AheadIs
<1>3. ASSUME NEW z \in Ahead(k, v, x) \ Silent(k), n = k.effects[z][1] PROVE ComesNext(h, v, y, n)
  <2>1. z \in R /\ z \in BB /\ z \in Ahead(h, v, y)
    BY <1>1, <1>3 DEF Mimics
  <2>2. PICK w \in BB : Stands(h, k, v, z, w)
    BY <2>1 DEF Mimics
  <2>3. CASE w = z /\ k.effects[z] = h.effects[z]
    <3>1. z \notin Silent(h) /\ n = h.effects[z][1]
      BY <1>3, <2>1, <2>3 DEF Silent
    <3> QED
      BY <2>1, <3>1 DEF ComesNext
  <2>4. CASE Ways(h, z, v) = {w} /\ k.effects[z] = h.effects[z] \o h.effects[w]
    <3> DEFINE e == h.effects[z]
               f == h.effects[w]
               d == k.effects[z]
    <3>1. e \in Seq(BB) /\ f \in Seq(BB) /\ d # <<>>
      BY <1>3, <2>1, Parts DEF Typed, Silent
    <3>2. IsJoinedTo(e, f, d)
      BY <2>4, <3>1, JoinedTo
    <3>3. CASE e # <<>>
      <4> HIDE DEF e, f, d
      <4>1. d[1] = e[1]
        BY <3>1, <3>2, <3>3 DEF IsJoinedTo
      <4>2. z \notin Silent(h)
        BY <3>3 DEF e, Silent
      <4> QED
        BY <1>3, <2>1, <4>1, <4>2 DEF ComesNext, d, e
    <3>4. CASE e = <<>>
      <4>1. z \in Silent(h)
        BY <2>1, <3>4 DEF Silent
      <4>2. w \in Ahead(h, v, y)
        BY <1>2, <2>1, <2>4, <4>1 DEF IsAhead
      <4> HIDE DEF e, f, d
      <4>3. d[1] = f[1] /\ f # <<>>
        BY <3>1, <3>2, <3>4 DEF IsJoinedTo
      <4>4. w \notin Silent(h)
        BY <4>3 DEF f, Silent
      <4> QED
        BY <1>3, <4>2, <4>3, <4>4 DEF ComesNext, d, f
    <3> QED
      BY <3>3, <3>4
  <2> QED
    BY <2>2, <2>3, <2>4 DEF Stands
<1>4. ASSUME NEW z \in {x} \cup (Ahead(k, v, x) \cap Silent(k)), k.term[z].to = <<>>, n = k.term[z].op PROVE ComesNext(h, v, y, n)
  <2>1. CASE z = x
    BY <1>4, <2>1 DEF Stands, ComesNext
  <2>2. CASE z \in Ahead(k, v, x) \cap Silent(k)
    <3>1. z \in R /\ z \in BB /\ z \in Ahead(h, v, y)
      BY <1>1, <2>2 DEF Mimics
    <3>2. PICK w \in BB : Stands(h, k, v, z, w)
      BY <3>1 DEF Mimics
    <3>3. z \in Silent(h) /\ w \in Silent(h) /\ (w = z \/ w \in Ahead(h, v, z))
      BY <2>2, <3>1, <3>2, StandsSilent
    <3>4. w \in Ahead(h, v, y)
      BY <3>1, <3>3, AheadOn
    <3> QED
      BY <1>4, <3>2, <3>3, <3>4 DEF Stands, ComesNext
  <2> QED
    BY <1>4, <2>1, <2>2
<1>5. ASSUME n = "forever", NEW z \in Ahead(k, v, x) \cap Silent(k), z \in Ahead(k, v, z) PROVE ComesNext(h, v, y, n)
  <2>1. z \in R /\ z \in BB /\ z \in Ahead(h, v, y)
    BY <1>1, <1>5 DEF Mimics
  <2>2. PICK w \in BB : Stands(h, k, v, z, w)
    BY <2>1 DEF Mimics
  <2>3. z \in Silent(h) /\ w \in Silent(h) /\ (w = z \/ w \in Ahead(h, v, z))
    BY <1>5, <2>1, <2>2, StandsSilent
  <2>4. z \in Ahead(h, v, w)
    BY <1>5, <2>1, <2>2, MimicsAhead
  <2>5. z \in Ahead(h, v, z)
    BY <2>1, <2>3, <2>4, AheadOn
  <2> QED
    BY <1>5, <2>1, <2>3, <2>5 DEF ComesNext
<1> QED
  BY <1>3, <1>4, <1>5 DEF ComesNext

\* Two side effects of a block, one after the other.
Pair(h, b, i, q) == i \in 1 .. Len(h.effects[b]) - 1 /\ q = <<h.effects[b][i], h.effects[b][i + 1]>>

\* They are in that order before the edit.
LEMMA StandsInner ==
    ASSUME NEW h, NEW k, Typed(h), Typed(k), NEW v \in BOOLEAN, NEW x \in BB, NEW y \in BB, Stands(h, k, v, x, y),
           x \notin Silent(k), NEW i, NEW q, Pair(k, x, i, q)
    PROVE  q \in After(h, v)
<1> DEFINE e == h.effects[x]
           f == h.effects[y]
           d == k.effects[x]
<1>1. e \in Seq(BB) /\ f \in Seq(BB) /\ d \in Seq(BB) /\ Len(e) \in Nat /\ Len(f) \in Nat /\ Len(d) \in Nat
  BY Parts DEF Typed
<1>2. i \in 1 .. Len(d) - 1 /\ q = <<d[i], d[i + 1]>>
  BY DEF Pair
<1>3. CASE y = x /\ d = e
  <2>1. x \notin Silent(h)
    BY <1>3 DEF Silent
  <2> QED
    BY <1>2, <1>3, <2>1, AfterIs DEF Inner
<1>4. CASE Ways(h, x, v) = {y} /\ d = e \o f
  <2>1. IsJoinedTo(e, f, d)
    BY <1>1, <1>4, JoinedTo
  <2>2. x \notin Silent(h) <=> e # <<>>
    BY DEF Silent
  <2>3. y \notin Silent(h) <=> f # <<>>
    BY DEF Silent
  <2>4. y \in Ahead(h, v, x)
    BY <1>4, AheadIs DEF IsAhead
  <2> HIDE DEF e, f, d
  <2>5. i \in 1 .. Len(d) /\ i + 1 \in 1 .. Len(d) /\ i \in Nat
    BY <1>1, <1>2
  <2>6. CASE i + 1 <= Len(e)
    <3>1. d[i] = e[i] /\ d[i + 1] = e[i + 1] /\ i \in 1 .. Len(e) - 1 /\ e # <<>>
      BY <1>1, <2>1, <2>5, <2>6 DEF IsJoinedTo
    <3> QED
      BY <1>2, <2>2, <3>1, AfterIs DEF Inner, e
  <2>7. CASE i = Len(e)
    <3>1. d[i] = e[Len(e)] /\ d[i + 1] = f[1] /\ e # <<>> /\ f # <<>>
      <4>1. i <= Len(e) /\ ~(i + 1 <= Len(e)) /\ (i + 1) - Len(e) = 1 /\ Len(e) > 0
        BY <1>1, <2>5, <2>7
      <4>2. d[i] = e[i] /\ d[i + 1] = f[(i + 1) - Len(e)]
        BY <2>1, <2>5, <4>1 DEF IsJoinedTo
      <4>3. Len(f) > 0
        BY <1>1, <2>1, <2>5, <2>7 DEF IsJoinedTo
      <4> QED
        BY <1>1, <2>7, <4>1, <4>2, <4>3
    <3>2. ComesNext(h, v, x, f[1])
      BY <2>3, <2>4, <3>1 DEF ComesNext, f
    <3>3. q = <<e[Len(e)], f[1]>> /\ x \in BB \ Silent(h)
      BY <1>2, <2>2, <3>1
    <3>4. Leaving(h, v, q)
      BY <3>2, <3>3 DEF Leaving, e
    <3> QED
      BY <3>4, AfterIs
  <2>8. CASE i > Len(e)
    <3> DEFINE j == i - Len(e)
    <3>1. d[i] = f[j] /\ d[i + 1] = f[j + 1] /\ j \in 1 .. Len(f) - 1 /\ f # <<>>
      BY <1>1, <2>1, <2>5, <2>8 DEF IsJoinedTo
    <3> HIDE DEF j
    <3>2. y \in BB \ Silent(h) /\ q = <<f[j], f[j + 1]>>
      BY <1>2, <2>3, <3>1
    <3>3. Inner(h, q)
      BY <3>1, <3>2 DEF Inner, f
    <3> QED
      BY <3>3, AfterIs
  <2>9. i + 1 <= Len(e) \/ i = Len(e) \/ i > Len(e)
    BY <1>1, <2>5
  <2> QED
    BY <2>6, <2>7, <2>8, <2>9
<1> QED
  BY <1>3, <1>4 DEF Stands

\* What may happen next after a block could happen next after its last side effect.
LEMMA StandsLeaving ==
    ASSUME NEW h, NEW k, Typed(h), Typed(k), NEW v \in BOOLEAN, NEW x \in BB, NEW y \in BB, Stands(h, k, v, x, y),
           x \notin Silent(k), NEW n, ComesNext(h, v, y, n), NEW q, q = <<k.effects[x][Len(k.effects[x])], n>>
    PROVE  q \in After(h, v)
<1> DEFINE e == h.effects[x]
           f == h.effects[y]
           d == k.effects[x]
<1>1. e \in Seq(BB) /\ f \in Seq(BB) /\ d \in Seq(BB) /\ Len(e) \in Nat /\ Len(f) \in Nat /\ Len(d) \in Nat
  BY Parts DEF Typed
<1>2. x \notin Silent(h) <=> e # <<>>
  BY DEF Silent
<1>3. y \notin Silent(h) <=> f # <<>>
  BY DEF Silent
<1>4. d # <<>> /\ q = <<d[Len(d)], n>>
  BY DEF Silent
<1>5. CASE y = x /\ d = e
  <2>1. x \in BB \ Silent(h)
    BY <1>4, <1>5, <1>2
  <2> QED
    BY <1>5, <2>1, AfterIs DEF Leaving
<1>6. CASE Ways(h, x, v) = {y} /\ d = e \o f
  <2>1. IsJoinedTo(e, f, d)
    BY <1>1, <1>6, JoinedTo
  <2>4. y \in Ahead(h, v, x)
    BY <1>6, AheadIs DEF IsAhead
  <2> HIDE DEF e, f, d
  <2>5. CASE f # <<>>
    <3>1. d[Len(d)] = f[Len(f)]
      BY <1>1, <2>1, <2>5 DEF IsJoinedTo
    <3>2. y \in BB \ Silent(h) /\ q = <<f[Len(f)], n>>
      BY <1>3, <1>4, <2>5, <3>1
    <3>3. Leaving(h, v, q)
      BY <3>2 DEF Leaving, f
    <3> QED
      BY <3>3, AfterIs
  <2>6. CASE f = <<>>
    <3>1. e # <<>> /\ d[Len(d)] = e[Len(e)]
      BY <1>1, <1>4, <2>1, <2>6 DEF IsJoinedTo
    <3>2. x \in BB \ Silent(h) /\ y \in Silent(h) /\ q = <<e[Len(e)], n>>
      BY <1>2, <1>3, <1>4, <2>6, <3>1
    <3>3. ComesNext(h, v, x, n)
      BY <2>4, <3>2, ComesOn
    <3>4. Leaving(h, v, q)
      BY <3>2, <3>3 DEF Leaving, e
    <3> QED
      BY <3>4, AfterIs
  <2> QED
    BY <2>5, <2>6
<1> QED
  BY <1>5, <1>6 DEF Stands

\* Then the edit lets nothing happen next that could not happen next before.
LEMMA MimicsPreserves ==
    ASSUME NEW h, NEW k, Typed(h), Typed(k), NEW v \in BOOLEAN, NEW R, Mimics(h, k, v, R)
    PROVE  Preserves(h, k, v)
<1> SUFFICES ASSUME NEW q \in After(k, v), Happens(h, v, q[1]) PROVE q \in After(h, v)
  BY PreservesIf
<1>1. ASSUME NEW x \in BB \ Silent(k), NEW i \in DOMAIN k.effects[x], q[1] = k.effects[x][i]
      PROVE  x \in R /\ \E y \in BB : Stands(h, k, v, x, y)
  BY <1>1 DEF Mimics
<1>2. CASE Inner(k, q)
  <2>1. PICK x \in BB \ Silent(k) : \E i \in 1 .. Len(k.effects[x]) - 1 : q = <<k.effects[x][i], k.effects[x][i + 1]>>
    BY <1>2 DEF Inner
  <2>2. PICK i \in 1 .. Len(k.effects[x]) - 1 : q = <<k.effects[x][i], k.effects[x][i + 1]>>
    BY <2>1
  <2>3. EffectsOf(k, x)
    BY EffectsAre
  <2>4. i \in DOMAIN k.effects[x] /\ q[1] = k.effects[x][i]
    BY <2>2, <2>3 DEF EffectsOf
  <2>5. PICK y \in BB : Stands(h, k, v, x, y)
    BY <1>1, <2>4
  <2>6. Pair(k, x, i, q)
    BY <2>2 DEF Pair
  <2> QED
    BY <2>1, <2>5, <2>6, StandsInner
<1>3. CASE Leaving(k, v, q)
  <2>1. PICK x \in BB \ Silent(k) : \E n : ComesNext(k, v, x, n) /\ q = <<k.effects[x][Len(k.effects[x])], n>>
    BY <1>3 DEF Leaving
  <2>2. PICK n : ComesNext(k, v, x, n) /\ q = <<k.effects[x][Len(k.effects[x])], n>>
    BY <2>1
  <2>3. EffectsOf(k, x)
    BY EffectsAre
  <2>4. Len(k.effects[x]) \in DOMAIN k.effects[x] /\ q[1] = k.effects[x][Len(k.effects[x])]
    BY <2>2, <2>3 DEF EffectsOf
  <2>5. x \in R
    BY <1>1, <2>4
  <2>6. PICK y \in BB : Stands(h, k, v, x, y)
    BY <1>1, <2>4
  <2>7. ComesNext(h, v, y, n)
    BY <2>2, <2>5, <2>6, MimicsNext
  <2> QED
    BY <2>1, <2>2, <2>6, <2>7, StandsLeaving
<1> QED
  BY <1>2, <1>3, AfterIs

\* Nothing happens that did not happen before the edit, whatever the value of c.
KeepsPaths(h, k) == Good(h) => Good(k) /\ \A v \in BOOLEAN : Preserves(h, k, v)

\* Edits one after the other.
LEMMA PathsAll ==
    ASSUME NEW h, NEW k, NEW l, KeepsPaths(h, k), KeepsPaths(k, l)
    PROVE  KeepsPaths(h, l)
BY PreservesAll DEF KeepsPaths

\* Edits of neither a branch nor a side effect.
LEMMA PathsSame ==
    ASSUME NEW h, NEW k, Typed(k), k.effects = h.effects, k.term = h.term
    PROVE  KeepsPaths(h, k)
<1> SUFFICES ASSUME Good(h) PROVE Good(k) /\ \A v \in BOOLEAN : Preserves(h, k, v)
  BY DEF KeepsPaths
<1>1. Good(k)
  BY DEF Good, Ordered, Starts, Unentered
<1>2. Silent(h) = Silent(k) /\ \A b, v : Ways(k, b, v) = Ways(h, b, v)
  BY DEF Silent, Ways
<1>3. ASSUME NEW v \in BOOLEAN, NEW x \in BB PROVE Stands(h, k, v, x, x) /\ Ways(k, x, v) \subseteq BB
  <2>1. Ways(h, x, v) \subseteq Ahead(h, v, x) /\ Ways(h, x, v) \subseteq BB
    BY AheadIs, WaysAre DEF Good, IsAhead
  <2> QED
    BY <1>2, <2>1 DEF Stands
<1>4. ASSUME NEW v \in BOOLEAN PROVE Preserves(h, k, v)
  <2>1. Mimics(h, k, v, BB)
    BY <1>3 DEF Mimics
  <2> QED
    BY <1>1, <2>1, MimicsPreserves DEF Good
<1> QED
  BY <1>1, <1>4

\* No edit at all.
LEMMA PathsItself ==
    ASSUME NEW h
    PROVE  KeepsPaths(h, h)
BY PathsSame DEF KeepsPaths, Good

\* An edit of the branch of b alone.
Rebranches(h, k, b) ==
    /\ Typed(k) /\ k.effects = h.effects
    /\ \A x \in BB \ {b} : k.term[x] = h.term[x]

\* Its branch goes where it went already, or where that led to without a side effect.
LEMMA PathsRebranch ==
    ASSUME NEW h, NEW k, NEW b \in BB, Rebranches(h, k, b), Typed(h),
           k.term[b].to = <<>> => h.term[b].to = <<>> /\ h.term[b].op = k.term[b].op,
           NEW v \in BOOLEAN, Ways(k, b, v) \subseteq Ahead(h, v, b)
    PROVE  Preserves(h, k, v)
<1>1. ASSUME NEW x \in BB PROVE Stands(h, k, v, x, x) /\ Ways(k, x, v) \subseteq BB
  <2>1. Ways(k, x, v) \subseteq BB /\ k.effects = h.effects
    BY WaysAre DEF Rebranches
  <2>2. CASE x = b
    BY <2>1, <2>2 DEF Stands
  <2>3. CASE x # b
    <3>1. k.term[x] = h.term[x]
      BY <2>3 DEF Rebranches
    <3>2. Ways(k, x, v) = Ways(h, x, v)
      BY <3>1 DEF Ways
    <3>3. Ways(h, x, v) \subseteq Ahead(h, v, x)
      BY AheadIs DEF IsAhead
    <3> QED
      BY <2>1, <3>1, <3>2, <3>3 DEF Stands
  <2> QED
    BY <2>2, <2>3
<1>2. Mimics(h, k, v, BB)
  BY <1>1 DEF Mimics
<1> QED
  BY <1>2, MimicsPreserves DEF Rebranches

\* It is still a good graph.
LEMMA GoodRebranch ==
    ASSUME NEW h, NEW k, NEW b \in BB, Rebranches(h, k, b), Good(h), entry \notin ToSet(k.term[b].to)
    PROVE  Good(k)
<1>1. Unentered(k)
  BY DEF Rebranches, Good, Unentered
<1> QED
  BY <1>1 DEF Rebranches, Good, Ordered, Starts

\* No block goes on to b but itself.
Avoided(h, v, b) == b # entry /\ \A x \in BB \ {b} : b \notin Ways(h, x, v)

\* What is in a block that no block goes on to does not happen.
LEMMA AvoidedNever ==
    ASSUME NEW h, Good(h), NEW v \in BOOLEAN, NEW b \in BB, Avoided(h, v, b), NEW i \in DOMAIN h.effects[b]
    PROVE  ~Happens(h, v, h.effects[b][i])
<1> DEFINE Here == {h.effects[b][j] : j \in DOMAIN h.effects[b]}
           X == (BB \ Here) \cup PathEnds
<1>1. Typed(h) /\ Ordered(h)
  BY DEF Good
<1>2. Here \subseteq BB
  BY <1>1, Parts DEF Typed
<1>3. ASSUME NEW a \in BB \ Silent(h), a # b, NEW j \in 1 .. Len(h.effects[a]) PROVE h.effects[a][j] \in X
  <2>1. EffectsOf(h, a)
    BY <1>1, EffectsAre
  <2>2. h.effects[a][j] \in BB /\ j \in DOMAIN h.effects[a] /\ a \in BB
    BY <2>1 DEF EffectsOf
  <2>3. \A l \in DOMAIN h.effects[b] : h.effects[a][j] # h.effects[b][l]
    BY <1>1, <1>3, <2>2 DEF Ordered
  <2> QED
    BY <2>2, <2>3
<1>4. ASSUME NEW a \in BB, a # b PROVE Ahead(h, v, a) \subseteq BB \ {b}
  <2>1. \A x \in BB \ {b} : Ways(h, x, v) \subseteq BB \ {b}
    BY <1>1, WaysAre DEF Avoided
  <2> QED
    BY <1>1, <1>4, <2>1, AheadLeast
<1>5. entry \in X
  <2>1. entry \in BB \ Silent(h) /\ entry # b /\ h.effects[entry][1] = entry
    BY FlowAssumption DEF Good, Starts, Silent, Avoided
  <2>2. 1 \in 1 .. Len(h.effects[entry])
    BY <1>1, <2>1, EffectsAre DEF EffectsOf
  <2> HIDE DEF X
  <2> QED
    BY <1>3, <2>1, <2>2
<1>6. ASSUME NEW a \in BB \ Silent(h), NEW l \in 1 .. Len(h.effects[a]), h.effects[a][l] \in X PROVE a # b
  <2>1. l \in DOMAIN h.effects[a] /\ h.effects[a][l] \in BB
    BY <1>1, EffectsAre DEF EffectsOf
  <2>2. h.effects[a][l] \notin PathEnds
    BY <2>1, FlowAssumption
  <2> QED
    BY <1>6, <2>1, <2>2
<1>7. ASSUME NEW q \in After(h, v), q[1] \in X PROVE q[2] \in X
  <2> HIDE DEF X
  <2>1. CASE Inner(h, q)
    <3>1. PICK a \in BB \ Silent(h) : \E l \in 1 .. Len(h.effects[a]) - 1 : q = <<h.effects[a][l], h.effects[a][l + 1]>>
      BY <2>1 DEF Inner
    <3>2. PICK l \in 1 .. Len(h.effects[a]) - 1 : q = <<h.effects[a][l], h.effects[a][l + 1]>>
      BY <3>1
    <3>3. l \in 1 .. Len(h.effects[a]) /\ l + 1 \in 1 .. Len(h.effects[a])
      BY <1>1, <3>2, EffectsAre DEF EffectsOf
    <3>4. a # b
      BY <1>6, <1>7, <3>2, <3>3
    <3> QED
      BY <1>3, <3>2, <3>3, <3>4
  <2>2. CASE Leaving(h, v, q)
    <3>1. PICK a \in BB \ Silent(h) : \E n : ComesNext(h, v, a, n) /\ q = <<h.effects[a][Len(h.effects[a])], n>>
      BY <2>2 DEF Leaving
    <3>2. PICK n : ComesNext(h, v, a, n) /\ q = <<h.effects[a][Len(h.effects[a])], n>>
      BY <3>1
    <3>3. Len(h.effects[a]) \in 1 .. Len(h.effects[a])
      BY <1>1, EffectsAre DEF EffectsOf
    <3>4. a # b
      BY <1>6, <1>7, <3>2, <3>3
    <3>5. CASE \E x \in Ahead(h, v, a) \ Silent(h) : n = h.effects[x][1]
      <4>1. PICK x \in Ahead(h, v, a) \ Silent(h) : n = h.effects[x][1]
        BY <3>5
      <4>2. x \in BB \ Silent(h) /\ x # b
        BY <1>4, <3>4, <4>1
      <4>3. 1 \in 1 .. Len(h.effects[x])
        BY <1>1, <4>2, EffectsAre DEF EffectsOf
      <4> QED
        BY <1>3, <3>2, <4>1, <4>2, <4>3
    <3>6. CASE \E x \in {a} \cup (Ahead(h, v, a) \cap Silent(h)) : h.term[x].to = <<>> /\ n = h.term[x].op
      <4>1. PICK x \in {a} \cup (Ahead(h, v, a) \cap Silent(h)) : n = h.term[x].op
        BY <3>6
      <4>2. x \in BB
        BY <1>4, <3>4, <4>1
      <4>3. h.term[x] \in Term
        BY <1>1, <4>2, Parts DEF Typed
      <4>4. n \in PathEnds
        BY <4>1, <4>3 DEF Term, PathEnds
      <4> QED
        BY <3>2, <4>4 DEF X
    <3>7. CASE n = "forever"
      BY <3>2, <3>7 DEF PathEnds, X
    <3> QED
      BY <3>2, <3>5, <3>6, <3>7 DEF ComesNext
  <2> QED
    BY <1>1, <2>1, <2>2, AfterIs
<1>8. Onward(h, v, X)
  <2> HIDE DEF X
  <2> QED
    BY <1>5, <1>7 DEF Onward
<1>9. h.effects[b][i] \notin X
  <2>1. h.effects[b][i] \in Here /\ h.effects[b][i] \in BB
    BY <1>2
  <2> QED
    BY <2>1, FlowAssumption
<1> HIDE DEF X
<1> QED
  BY <1>8, <1>9 DEF Happens

\* The branch of a block that no other goes on to may change as it likes.
LEMMA PathsAvoided ==
    ASSUME NEW h, NEW k, NEW b \in BB, Rebranches(h, k, b), Good(h), NEW v \in BOOLEAN, Avoided(h, v, b)
    PROVE  Preserves(h, k, v)
<1> DEFINE R == BB \ {b}
<1>1. Typed(h) /\ Typed(k) /\ k.effects = h.effects
  BY DEF Good, Rebranches
<1>2. ASSUME NEW x \in R PROVE Stands(h, k, v, x, x) /\ Ways(k, x, v) \subseteq R
  <2>1. k.term[x] = h.term[x]
    BY DEF Rebranches
  <2>2. Ways(k, x, v) = Ways(h, x, v)
    BY <2>1 DEF Ways
  <2>3. Ways(h, x, v) \subseteq Ahead(h, v, x)
    BY <1>1, AheadIs DEF IsAhead
  <2>4. Ways(h, x, v) \subseteq R
    BY <1>1, WaysAre DEF Avoided
  <2> QED
    BY <1>1, <2>1, <2>2, <2>3, <2>4 DEF Stands
<1>3. \A x \in BB \ R : \A i \in DOMAIN k.effects[x] : ~Happens(h, v, k.effects[x][i])
  BY <1>1, AvoidedNever
<1>4. Mimics(h, k, v, R)
  BY <1>2, <1>3 DEF Mimics
<1> QED
  BY <1>1, <1>4, MimicsPreserves

\* The blocks of K are killed, that no other goes on to.
Rid(h, k, K) ==
    /\ Typed(k) /\ entry \notin K
    /\ \A x \in BB : /\ k.term[x] = IF x \in K THEN NoTerm ELSE h.term[x]
                     /\ k.effects[x] = IF x \in K THEN <<>> ELSE h.effects[x]
    /\ \A x \in BB \ K : ToSet(h.term[x].to) \cap K = {}

\* Killing them changes no path.
LEMMA PathsRid ==
    ASSUME NEW h, NEW k, NEW K, Rid(h, k, K)
    PROVE  KeepsPaths(h, k)
<1> SUFFICES ASSUME Good(h) PROVE Good(k) /\ \A v \in BOOLEAN : Preserves(h, k, v)
  BY DEF KeepsPaths
<1> DEFINE R == BB \ K
<1>1. Typed(h) /\ Typed(k) /\ entry \in BB /\ entry \notin K
  BY FlowAssumption DEF Good, Rid
<1>2. \A x \in R : k.term[x] = h.term[x] /\ k.effects[x] = h.effects[x] /\ ToSet(h.term[x].to) \cap K = {}
  BY DEF Rid
<1>3. \A x \in BB \ R : k.term[x] = NoTerm /\ k.effects[x] = <<>>
  BY DEF Rid
<1>4. \A i : i \notin DOMAIN <<>>
  OBVIOUS
<1>5. Ordered(k)
  <2> SUFFICES ASSUME NEW a \in BB, NEW b \in BB, NEW i \in DOMAIN k.effects[a], NEW j \in DOMAIN k.effects[b],
                      k.effects[a][i] = k.effects[b][j]
               PROVE  a = b /\ i = j
    BY DEF Ordered
  <2>1. a \in R /\ b \in R
    BY <1>3, <1>4
  <2>2. k.effects[a] = h.effects[a] /\ k.effects[b] = h.effects[b]
    BY <1>2, <2>1
  <2> QED
    BY <2>2 DEF Good, Ordered
<1>6. Starts(k)
  BY <1>1, <1>2 DEF Good, Starts
<1>7. Unentered(k)
  <2> SUFFICES ASSUME NEW x \in BB PROVE entry \notin ToSet(k.term[x].to)
    BY DEF Unentered
  <2>1. ToSet(NoTerm.to) = {}
    BY NoTermIs, CountEmpty
  <2>2. CASE x \in R
    BY <1>2, <2>2 DEF Good, Unentered
  <2>3. CASE x \notin R
    BY <1>3, <2>1, <2>3
  <2> QED
    BY <2>2, <2>3
<1>8. ASSUME NEW v \in BOOLEAN PROVE Preserves(h, k, v)
  <2>1. ASSUME NEW x \in R PROVE Stands(h, k, v, x, x) /\ Ways(k, x, v) \subseteq R
    <3>1. k.term[x] = h.term[x] /\ k.effects[x] = h.effects[x]
      BY <1>2
    <3>2. Ways(k, x, v) = Ways(h, x, v)
      BY <3>1 DEF Ways
    <3>3. Ways(h, x, v) \subseteq Ahead(h, v, x) /\ Ways(h, x, v) \subseteq R
      BY <1>1, <1>2, AheadIs, WaysAre DEF IsAhead
    <3> QED
      BY <3>1, <3>2, <3>3 DEF Stands
  <2>2. Mimics(h, k, v, R)
    BY <1>3, <1>4, <2>1 DEF Mimics
  <2> QED
    BY <1>1, <2>2, MimicsPreserves
<1> QED
  BY <1>1, <1>5, <1>6, <1>7, <1>8 DEF Good

\* b is merged into p, the only one that goes on to it, and only to it.
Merged(h, k, b, p) ==
    /\ Typed(k) /\ b \in BB /\ p \in BB /\ p # b /\ b # entry
    /\ ToSet(h.term[p].to) = {b}
    /\ \A x \in BB \ {p} : b \notin ToSet(h.term[x].to)
    /\ k.term = [h.term EXCEPT ![p] = h.term[b], ![b] = NoTerm]
    /\ k.effects = [h.effects EXCEPT ![p] = h.effects[p] \o h.effects[b], ![b] = <<>>]

\* Where the side effects of a block come from.
Whence(h, k, b, p, a, i, x, j) ==
    /\ x \in BB /\ j \in DOMAIN h.effects[x] /\ k.effects[a][i] = h.effects[x][j]
    /\ \/ a \notin {b, p} /\ x = a /\ j = i
       \/ a = p /\ x = p /\ j = i /\ i <= Len(h.effects[p])
       \/ a = p /\ x = b /\ i > Len(h.effects[p]) /\ j = i - Len(h.effects[p])

\* They come from one place each.
LEMMA MergedWhence ==
    ASSUME NEW h, Typed(h), NEW k, NEW b, NEW p, Merged(h, k, b, p), NEW a \in BB, NEW i \in DOMAIN k.effects[a]
    PROVE  i \in Nat /\ \E x, j : Whence(h, k, b, p, a, i, x, j)
<1>1. k.effects[a] \in Seq(BB) /\ h.effects \in [BB -> Seq(BB)] /\ h.effects[p] \in Seq(BB) /\ h.effects[b] \in Seq(BB)
  <2>1. h \in Graph /\ k \in Graph /\ p \in BB /\ b \in BB
    BY DEF Typed, Merged
  <2> QED
    BY <2>1, Parts
<1>2. i \in Nat
  BY <1>1
<1>3. CASE a = b
  <2>1. k.effects[a] = <<>>
    BY <1>1, <1>3 DEF Merged
  <2> QED
    BY <2>1
<1>4. CASE a = p
  <2> DEFINE e == h.effects[p]
             f == h.effects[b]
             d == k.effects[a]
  <2>1. d = e \o f
    BY <1>1, <1>4 DEF Merged
  <2>2. e \in Seq(BB) /\ f \in Seq(BB)
    BY <1>1
  <2>3. IsJoinedTo(e, f, d)
    BY <2>1, <2>2, JoinedTo
  <2>4. DOMAIN e = 1 .. Len(e) /\ DOMAIN f = 1 .. Len(f) /\ Len(e) \in Nat /\ Len(f) \in Nat /\ DOMAIN d = 1 .. Len(d)
    BY <1>1
  <2> HIDE DEF e, f, d
  <2>5. i \in 1 .. Len(d) /\ d[i] = IF i <= Len(e) THEN e[i] ELSE f[i - Len(e)]
    BY <2>3, <2>4 DEF IsJoinedTo, d
  <2>6. CASE i <= Len(e)
    <3>1. i \in DOMAIN e /\ d[i] = e[i]
      BY <1>2, <2>4, <2>5, <2>6
    <3>2. Whence(h, k, b, p, a, i, p, i)
      BY <1>4, <2>6, <3>1 DEF Whence, Merged, e, d
    <3> QED
      BY <1>2, <3>2
  <2>7. CASE ~(i <= Len(e))
    <3> DEFINE j == i - Len(e)
    <3>1. i <= Len(e) + Len(f)
      BY <2>3, <2>5 DEF IsJoinedTo
    <3>2. j \in DOMAIN f /\ d[i] = f[j] /\ i > Len(e)
      BY <1>2, <2>4, <2>5, <2>7, <3>1
    <3>3. Whence(h, k, b, p, a, i, b, j)
      BY <1>4, <3>2 DEF Whence, Merged, e, f, d
    <3> QED
      BY <1>2, <3>3
  <2> QED
    BY <2>6, <2>7
<1>5. CASE a \notin {b, p}
  <2>1. k.effects[a] = h.effects[a]
    BY <1>1, <1>5 DEF Merged
  <2>2. Whence(h, k, b, p, a, i, a, i)
    BY <1>5, <2>1 DEF Whence
  <2> QED
    BY <1>2, <2>2
<1> QED
  BY <1>3, <1>4, <1>5

\* Merging changes no path.
LEMMA PathsMerged ==
    ASSUME NEW h, NEW k, NEW b, NEW p, Merged(h, k, b, p)
    PROVE  KeepsPaths(h, k)
<1> SUFFICES ASSUME Good(h) PROVE Good(k) /\ \A v \in BOOLEAN : Preserves(h, k, v)
  BY DEF KeepsPaths
<1> DEFINE R == BB \ {b}
<1>1. Typed(h) /\ Typed(k) /\ entry \in BB /\ b \in BB /\ p \in BB /\ p # b /\ b # entry
  BY FlowAssumption DEF Good, Merged
<1>2. h.term \in [BB -> Term] /\ h.effects \in [BB -> Seq(BB)]
  BY <1>1, Parts DEF Typed
<1>3. /\ k.term[p] = h.term[b] /\ k.term[b] = NoTerm /\ k.effects[p] = h.effects[p] \o h.effects[b] /\ k.effects[b] = <<>>
      /\ \A x \in BB \ {b, p} : k.term[x] = h.term[x] /\ k.effects[x] = h.effects[x]
  BY <1>1, <1>2 DEF Merged
<1>4. Ordered(k)
  <2> SUFFICES ASSUME NEW a \in BB, NEW c \in BB, NEW i \in DOMAIN k.effects[a], NEW l \in DOMAIN k.effects[c],
                      k.effects[a][i] = k.effects[c][l]
               PROVE  a = c /\ i = l
    BY DEF Ordered
  <2>1. i \in Nat /\ l \in Nat
    BY <1>1, MergedWhence
  <2>2. PICK x, j : Whence(h, k, b, p, a, i, x, j)
    BY <1>1, MergedWhence
  <2>3. PICK y, m : Whence(h, k, b, p, c, l, y, m)
    BY <1>1, MergedWhence
  <2>4. x = y /\ j = m
    <3>1. x \in BB /\ j \in DOMAIN h.effects[x] /\ k.effects[a][i] = h.effects[x][j]
      BY <2>2 DEF Whence
    <3>2. y \in BB /\ m \in DOMAIN h.effects[y] /\ k.effects[c][l] = h.effects[y][m]
      BY <2>3 DEF Whence
    <3>3. h.effects[x][j] = h.effects[y][m]
      BY <3>1, <3>2
    <3> QED
      BY <3>1, <3>2, <3>3 DEF Good, Ordered
  <2>5. Len(h.effects[p]) \in Nat
    BY <1>1, <1>2
  <2> QED
    BY <1>1, <2>1, <2>2, <2>3, <2>4, <2>5 DEF Whence
<1>5. Starts(k)
  <2>1. CASE p = entry
    <3> DEFINE e == h.effects[p]
               f == h.effects[b]
    <3>1. e \in Seq(BB) /\ f \in Seq(BB) /\ e # <<>> /\ e[1] = entry
      BY <1>1, <1>2, <2>1 DEF Good, Starts
    <3>2. IsJoinedTo(e, f, k.effects[p])
      BY <1>3, <3>1, JoinedTo
    <3> HIDE DEF e, f
    <3>3. k.effects[p] # <<>> /\ k.effects[p][1] = e[1]
      BY <3>1, <3>2 DEF IsJoinedTo
    <3> QED
      BY <2>1, <3>1, <3>3 DEF Starts
  <2>2. CASE p # entry
    BY <1>1, <1>3, <2>2 DEF Good, Starts
  <2> QED
    BY <2>1, <2>2
<1>6. Unentered(k)
  <2> SUFFICES ASSUME NEW x \in BB PROVE entry \notin ToSet(k.term[x].to)
    BY DEF Unentered
  <2>1. ToSet(NoTerm.to) = {}
    BY NoTermIs, CountEmpty
  <2>2. k.term[x] = NoTerm \/ k.term[x] = h.term[b] \/ k.term[x] = h.term[x]
    BY <1>3
  <2> QED
    BY <1>1, <2>1, <2>2 DEF Good, Unentered
<1>7. ASSUME NEW v \in BOOLEAN PROVE Preserves(h, k, v)
  <2>1. b \notin ToSet(h.term[b].to) /\ Ways(h, p, v) = {b}
    <3>1. ToSet(h.term[p].to) = {b} /\ b \notin ToSet(h.term[b].to)
      BY <1>1 DEF Merged
    <3>2. h.term[p].to # <<>>
      BY <3>1, CountEmpty
    <3>3. Ways(h, p, v) \subseteq {b} /\ Ways(h, p, v) # {}
      BY <1>1, <3>1, <3>2, WaysAre
    <3> QED
      BY <3>1, <3>3
  <2>2. ASSUME NEW x \in R, x # p PROVE Stands(h, k, v, x, x) /\ Ways(k, x, v) \subseteq R
    <3>1. k.term[x] = h.term[x] /\ k.effects[x] = h.effects[x]
      BY <1>3, <2>2
    <3>2. Ways(k, x, v) = Ways(h, x, v)
      BY <3>1 DEF Ways
    <3>3. b \notin ToSet(h.term[x].to)
      BY <2>2 DEF Merged
    <3>4. Ways(h, x, v) \subseteq Ahead(h, v, x) /\ Ways(h, x, v) \subseteq R
      BY <1>1, <3>3, AheadIs, WaysAre DEF IsAhead
    <3> QED
      BY <3>1, <3>2, <3>4 DEF Stands
  <2>3. Stands(h, k, v, p, b) /\ Ways(k, p, v) \subseteq R
    <3>1. Ways(k, p, v) = Ways(h, b, v)
      BY <1>3 DEF Ways
    <3>2. Ways(h, b, v) \subseteq Ahead(h, v, b) /\ Ways(h, b, v) \subseteq R
      BY <1>1, <2>1, AheadIs, WaysAre DEF IsAhead
    <3> QED
      BY <1>1, <1>3, <2>1, <3>1, <3>2 DEF Stands
  <2>4. \A i : i \notin DOMAIN <<>>
    OBVIOUS
  <2>5. \A x \in R : Ways(k, x, v) \subseteq R /\ \E y \in BB : Stands(h, k, v, x, y)
    BY <1>1, <2>2, <2>3
  <2>6. Mimics(h, k, v, R)
    BY <1>3, <2>4, <2>5 DEF Mimics
  <2> QED
    BY <1>1, <2>6, MimicsPreserves
<1> QED
  BY <1>1, <1>4, <1>5, <1>6, <1>7 DEF Good

-----------------------------------------------------------------------------
\* Edits of the graph: its lists and its paths.

\* An edit from h to k: if the lists agreed they still do, and nothing happens that
\* did not happen before.
Follow(h, k) ==
    /\ Typed(k) /\ k.bbs = h.bbs /\ (k.asserts => h.asserts)
    /\ Sound(h) => Sound(k) /\ KeepsPaths(h, k)

\* Edits one after the other.
LEMMA FollowAll ==
    ASSUME NEW h, NEW k, NEW l, Follow(h, k), Follow(k, l)
    PROVE  Follow(h, l)
BY PathsAll DEF Follow

\* No edit at all.
LEMMA FollowItself ==
    ASSUME NEW h, Typed(h)
    PROVE  Follow(h, h)
BY PathsItself DEF Follow

\* An assertion more may fail, and changes nothing else.
LEMMA AssertedIs ==
    ASSUME NEW h \in Graph, NEW p \in BOOLEAN, NEW k, k = Asserted(h, p)
    PROVE  /\ k \in Graph /\ k.term = h.term /\ k.effects = h.effects /\ k.children = h.children /\ k.parents = h.parents
           /\ k.bbs = h.bbs /\ (k.asserts <=> h.asserts /\ p)
BY DEF Asserted, Graph

\* p is once less a parent of b, or the assertion fails.
IsRemoveParent1(h, k, b, p) ==
    /\ k \in Graph /\ k.term = h.term /\ k.effects = h.effects /\ k.children = h.children /\ k.bbs = h.bbs
    /\ k.asserts <=> h.asserts /\ p \in ToSet(h.parents[b])
    /\ p \in ToSet(h.parents[b]) =>
          \A x, y \in BB : P(k, x, y) = P(h, x, y) - IF x = p /\ y = b THEN 1 ELSE 0
    /\ p \notin ToSet(h.parents[b]) => \A x, y \in BB : P(k, x, y) = P(h, x, y)

\* new is a child of b instead of old, or the assertion fails.
IsReplaceChild1(h, k, b, old, new) ==
    /\ k \in Graph /\ k.term = h.term /\ k.effects = h.effects /\ k.parents = h.parents /\ k.bbs = h.bbs
    /\ k.asserts <=> h.asserts /\ old \in ToSet(h.children[b])
    /\ old \in ToSet(h.children[b]) =>
          \A x, y \in BB :
              C(k, x, y) = C(h, x, y) - (IF x = b /\ y = old THEN 1 ELSE 0)
                                      + (IF x = b /\ y = new THEN 1 ELSE 0)

\* p is once less a parent of b, or the assertion fails.
LEMMA RemoveParent1Is ==
    ASSUME NEW h \in Graph, NEW b \in BB, NEW p \in BB
    PROVE  IsRemoveParent1(h, RemoveParent1(h, b, p), b, p)
<1> DEFINE k == RemoveParent1(h, b, p)
<1> DEFINE m == [h EXCEPT !.parents[b] = RemoveFirst(@, p)]
<1>1. RemoveFirst(h.parents[b], p) \in Seq(BB) /\ h.parents \in [BB -> Seq(BB)] /\ h.parents[b] \in Seq(BB)
  BY Parts, CountRemoveFirst
<1>2. /\ m \in Graph /\ m.term = h.term /\ m.effects = h.effects /\ m.children = h.children /\ m.bbs = h.bbs /\ m.asserts = h.asserts
      /\ m.parents = [h.parents EXCEPT ![b] = RemoveFirst(@, p)]
  BY <1>1 DEF Graph
<1>3. Contains(h.parents[b], p) \in BOOLEAN /\ (Contains(h.parents[b], p) <=> p \in ToSet(h.parents[b]))
  BY <1>1, CountZero DEF Contains
<1>4. k = Asserted(m, Contains(h.parents[b], p))
  BY DEF RemoveParent1
<1> HIDE DEF m, k
<1>5. /\ k \in Graph /\ k.term = m.term /\ k.effects = m.effects /\ k.children = m.children /\ k.parents = m.parents
      /\ k.bbs = m.bbs /\ (k.asserts <=> m.asserts /\ Contains(h.parents[b], p))
  BY <1>2, <1>3, <1>4, AssertedIs
<1>6. ASSUME p \in ToSet(h.parents[b]), NEW x \in BB, NEW y \in BB
      PROVE  P(k, x, y) = P(h, x, y) - IF x = p /\ y = b THEN 1 ELSE 0
  <2>1. k.parents[y] = IF y = b THEN RemoveFirst(h.parents[b], p) ELSE h.parents[y]
    BY <1>1, <1>2, <1>5
  <2>2. CASE y = b
    BY <1>1, <1>6, <2>1, <2>2, CountRemoveFirst DEF P
  <2>3. CASE y # b
    BY <2>1, <2>3, CountsAre DEF P
  <2> QED
    BY <2>2, <2>3
<1>7. ASSUME p \notin ToSet(h.parents[b]), NEW x \in BB, NEW y \in BB PROVE P(k, x, y) = P(h, x, y)
  <2>1. RemoveFirst(h.parents[b], p) = h.parents[b]
    BY <1>1, <1>7, CountRemoveFirst
  <2>2. k.parents[y] = h.parents[y]
    BY <1>1, <1>2, <1>5, <2>1
  <2> QED
    BY <2>2 DEF P
<1> QED
  BY <1>2, <1>3, <1>5, <1>6, <1>7 DEF IsRemoveParent1, k

\* new is a child of b instead of old, or the assertion fails.
LEMMA ReplaceChild1Is ==
    ASSUME NEW h \in Graph, NEW b \in BB, NEW old \in BB, NEW new \in BB
    PROVE  IsReplaceChild1(h, ReplaceChild1(h, b, old, new), b, old, new)
<1> DEFINE k == ReplaceChild1(h, b, old, new)
<1> DEFINE s == h.children[b]
<1>1. s \in Seq(BB) /\ h.children \in [BB -> Seq(BB)]
  BY Parts
<1>2. Contains(s, old) <=> old \in ToSet(s)
  BY <1>1, CountZero
<1>3. CASE old \notin ToSet(s)
  BY <1>2, <1>3, AssertedIs DEF ReplaceChild1, IsReplaceChild1
<1>4. CASE old \in ToSet(s)
  <2>1. SelectInSeq(s, LAMBDA c : c = old) \in {i \in 1 .. Len(s) : s[i] = old}
    BY <1>1, <1>4, SelectFirst
  <2>2. k = [h EXCEPT !.children[b] = ReplaceAt(s, SelectInSeq(s, LAMBDA c : c = old), new)]
    BY <1>2, <1>4 DEF ReplaceChild1
  <2> HIDE DEF k
  <2>3. PICK i \in 1 .. Len(s) : s[i] = old /\ k = [h EXCEPT !.children[b] = ReplaceAt(s, i, new)]
    BY <2>1, <2>2
  <2> DEFINE t == ReplaceAt(s, i, new)
  <2>4. t \in Seq(BB)
    BY <1>1, CountReplaced DEF Replaced
  <2>5. \A y : Count(t, y) = Count(s, y) - (IF s[i] = y THEN 1 ELSE 0) + (IF new = y THEN 1 ELSE 0)
    <3> TAKE y
    <3>1. Replaced(BB, ReplaceAt(s, i, new), s, s[i], new)
      <4> HIDE DEF s
      <4> QED
        BY <1>1, CountReplaced
    <3> QED
      BY <3>1 DEF Replaced
  <2> DEFINE m == [h EXCEPT !.children[b] = t]
  <2>9. k = m
    BY <2>3
  <2> HIDE DEF t, s
  <2>6. /\ k \in Graph /\ k.term = h.term /\ k.effects = h.effects /\ k.parents = h.parents /\ k.bbs = h.bbs /\ k.asserts = h.asserts
        /\ k.children = [h.children EXCEPT ![b] = t]
    <3>1. /\ m \in Graph /\ m.term = h.term /\ m.effects = h.effects /\ m.parents = h.parents /\ m.bbs = h.bbs /\ m.asserts = h.asserts
          /\ m.children = [h.children EXCEPT ![b] = t]
      BY <1>1, <2>4 DEF Graph
    <3> HIDE DEF m
    <3> QED
      BY <2>9, <3>1
  <2>7. ASSUME NEW x \in BB, NEW y \in BB
        PROVE  C(k, x, y) = C(h, x, y) - (IF x = b /\ y = old THEN 1 ELSE 0)
                                       + (IF x = b /\ y = new THEN 1 ELSE 0)
    <3>1. k.children[x] = IF x = b THEN t ELSE h.children[x]
      BY <1>1, <2>6
    <3>2. CASE x = b
      BY <2>3, <2>5, <3>1, <3>2 DEF C, s
    <3>3. CASE x # b
      <4>1. C(k, x, y) = C(h, x, y) /\ C(h, x, y) \in Nat
        BY <3>1, <3>3, CountsAre DEF C
      <4> QED
        BY <3>3, <4>1
    <3> QED
      BY <3>2, <3>3
  <2>8. h.asserts \in BOOLEAN
    BY Parts
  <2> HIDE DEF m
  <2> QED
    BY <1>4, <2>6, <2>7, <2>8 DEF s, k, IsReplaceChild1
<1> QED
  BY <1>3, <1>4

\* Edits of the targets of b, of which only the branch of b is told.
Redirects(h, k, b) ==
    /\ Typed(k) /\ k.bbs = h.bbs /\ (k.asserts => h.asserts) /\ k.effects = h.effects
    /\ \A c \in BB : c # b => k.term[c] = h.term[c]
    /\ k.term[b].op = h.term[b].op /\ k.term[b].cond = h.term[b].cond
    /\ Len(k.term[b].to) = Len(h.term[b].to)
    /\ Sound(h) => Sound(k)

\* Redirections one after the other.
LEMMA RedirectsAll ==
    ASSUME NEW h, NEW k, NEW l, NEW b, Redirects(h, k, b), Redirects(k, l, b)
    PROVE  Redirects(h, l, b)
BY DEF Redirects

\* No redirection.
LEMMA RedirectsItself ==
    ASSUME NEW h, NEW b, Typed(h)
    PROVE  Redirects(h, h, b)
BY DEF Redirects

Retarget(h, b, i, new) ==
    [h EXCEPT !.term[b].to[i] = new, !.parents[new] = Append(@, b), !.repeat = TRUE]

IsRetarget(h, k, b, i, new) ==
    /\ k \in Graph /\ k.bbs = h.bbs /\ k.children = h.children /\ k.asserts = h.asserts /\ k.effects = h.effects
    /\ \A c \in BB : c # b => k.term[c] = h.term[c]
    /\ k.term[b].op = h.term[b].op /\ k.term[b].cond = h.term[b].cond
    /\ k.term[b].to = ReplaceAt(h.term[b].to, i, new)
    /\ \A c \in BB : k.parents[c] = IF c = new THEN Append(h.parents[c], b) ELSE h.parents[c]

\* Target i of b, and one parent more of new.
LEMMA Retargeted ==
    ASSUME NEW h \in Graph, NEW b \in BB, NEW i \in 1 .. Len(h.term[b].to), NEW new \in BB
    PROVE  IsRetarget(h, Retarget(h, b, i, new), b, i, new)
<1> DEFINE k == Retarget(h, b, i, new)
           r == [h.term[b] EXCEPT !.to[i] = new]
           p == Append(h.parents[new], b)
           m == [h EXCEPT !.term[b] = r, !.parents[new] = p, !.repeat = TRUE]
<1>1. h.term \in [BB -> Term] /\ h.parents \in [BB -> Seq(BB)] /\ h.term[b] \in Term /\ h.term[b].to \in Seq(BB)
  BY Parts
<1>2. r \in Term /\ r.op = h.term[b].op /\ r.cond = h.term[b].cond /\ r.to = ReplaceAt(h.term[b].to, i, new)
  <2> DEFINE to == h.term[b].to
             t == [to EXCEPT ![i] = new]
  <2>1. t \in Seq(BB)
    BY <1>1
  <2>2. r = [h.term[b] EXCEPT !.to = t]
    BY <1>1 DEF Term
  <2>3. t = ReplaceAt(h.term[b].to, i, new)
    BY DEF ReplaceAt
  <2> HIDE DEF t, r
  <2> QED
    BY <1>1, <2>1, <2>2, <2>3 DEF Term
<1>3. p \in Seq(BB)
  BY <1>1
<1>4. k = m
  BY DEF Retarget
<1> HIDE DEF r, p, k
<1>5. /\ m \in Graph /\ m.bbs = h.bbs /\ m.children = h.children /\ m.asserts = h.asserts /\ m.effects = h.effects
      /\ m.term = [h.term EXCEPT ![b] = r] /\ m.parents = [h.parents EXCEPT ![new] = p]
  BY <1>1, <1>2, <1>3 DEF Graph
<1> HIDE DEF m
<1> QED
  BY <1>1, <1>2, <1>4, <1>5 DEF p, k, IsRetarget

\* rewrite_branch of a target that is old.
LEMMA RewriteBranchIs ==
    ASSUME NEW h, Typed(h), NEW b \in BB, NEW i \in 1 .. Len(h.term[b].to), NEW old \in BB, NEW new \in BB,
           h.term[b].to[i] = old, new # old
    PROVE  /\ Redirects(h, rewrite_branch(h, b, i, old, new), b)
           /\ rewrite_branch(h, b, i, old, new).term[b].to = ReplaceAt(h.term[b].to, i, new)
<1> DEFINE u == ReplaceChild1(h, b, old, new)
           v == RemoveParent1(u, old, b)
           k == rewrite_branch(h, b, i, old, new)
           to == h.term[b].to
<1>1. h \in Graph /\ to \in Seq(BB) /\ h.term[b] \in Term /\ h.parents[new] \in Seq(BB)
  BY Parts DEF Typed
<1>2. IsReplaceChild1(h, u, b, old, new)
  BY <1>1, ReplaceChild1Is
<1> HIDE DEF u
<1>3. u \in Graph /\ u.term = h.term /\ u.effects = h.effects /\ u.parents = h.parents /\ u.bbs = h.bbs
  BY <1>2 DEF IsReplaceChild1
<1>10. IsRemoveParent1(u, v, old, b)
  BY <1>3, RemoveParent1Is
<1>4. k = Retarget(v, b, i, new)
  BY DEF rewrite_branch, u, Retarget
<1> HIDE DEF v, k
<1>11. v \in Graph /\ v.term = h.term /\ v.effects = h.effects /\ v.children = u.children /\ v.bbs = h.bbs
  BY <1>3, <1>10 DEF IsRemoveParent1
<1>12. IsRetarget(v, k, b, i, new)
  BY <1>4, <1>11, Retargeted
<1>5. /\ k \in Graph /\ k.bbs = h.bbs /\ k.children = u.children /\ k.asserts = v.asserts /\ k.effects = h.effects
      /\ \A c \in BB : c # b => k.term[c] = h.term[c]
      /\ k.term[b].op = h.term[b].op /\ k.term[b].cond = h.term[b].cond
      /\ k.term[b].to = ReplaceAt(to, i, new)
      /\ \A c \in BB : k.parents[c] = IF c = new THEN Append(v.parents[c], b) ELSE v.parents[c]
  BY <1>11, <1>12 DEF IsRetarget
<1>6. Replaced(BB, ReplaceAt(to, i, new), to, old, new)
  <2>1. Replaced(BB, ReplaceAt(to, i, new), to, to[i], new)
    <3> HIDE DEF to
    <3> QED
      BY <1>1, CountReplaced DEF to
  <2> QED
    BY <2>1
<1>13. Len(k.term[b].to) = Len(to) /\ (k.asserts => h.asserts)
  BY <1>2, <1>5, <1>6, <1>10 DEF Replaced, IsReplaceChild1, IsRemoveParent1
<1>7. Typed(k)
  <2>1. Formed(k.term[b])
    <3>1. Formed(h.term[b]) /\ to # <<>>
      BY DEF Typed
    <3> QED
      BY <1>5, <1>13, <3>1 DEF Formed
  <2>2. \A c \in BB : c # b => Formed(k.term[c])
    BY <1>5 DEF Typed
  <2> QED
    BY <1>5, <2>1, <2>2 DEF Typed
<1>8. ASSUME Agree(h) PROVE Agree(k)
  <2>1. \A x, y \in BB : T(k, x, y) = T(h, x, y) - (IF x = b /\ y = old THEN 1 ELSE 0)
                                                 + (IF x = b /\ y = new THEN 1 ELSE 0)
    <3> TAKE x, y \in BB
    <3>1. CASE x = b
      <4>1. Count(k.term[b].to, y) = Count(to, y) - (IF old = y THEN 1 ELSE 0) + (IF new = y THEN 1 ELSE 0)
        BY <1>5, <1>6 DEF Replaced
      <4> QED
        BY <3>1, <4>1 DEF T
    <3>2. CASE x # b
      <4>1. T(k, x, y) = T(h, x, y) /\ T(h, x, y) \in Nat
        BY <1>1, <1>5, <3>2, CountsAre DEF T
      <4> QED
        BY <3>2, <4>1
    <3> QED
      BY <3>1, <3>2
  <2>2. T(h, b, old) # 0
    <3>1. old \in ToSet(h.term[b].to)
      BY <1>1 DEF ToSet
    <3> QED
      BY <1>1, <3>1, CountsAre
  <2>3. old \in ToSet(h.children[b]) /\ b \in ToSet(h.parents[old])
    BY <1>1, <1>8, <2>2, CountsAre DEF Agree
  <2>4. \A x, y \in BB : C(k, x, y) = C(h, x, y) - (IF x = b /\ y = old THEN 1 ELSE 0)
                                                 + (IF x = b /\ y = new THEN 1 ELSE 0)
    <3>1. \A x, y \in BB : C(k, x, y) = C(u, x, y)
      BY <1>5 DEF C
    <3> QED
      BY <1>2, <2>3, <3>1 DEF IsReplaceChild1
  <2>5. \A x, y \in BB : P(k, x, y) = P(v, x, y) + IF x = b /\ y = new THEN 1 ELSE 0
    <3> TAKE x, y \in BB
    <3>1. P(v, x, y) \in Nat /\ v.parents[y] \in Seq(BB)
      BY <1>11, CountsAre, Parts
    <3>2. Count(Append(v.parents[y], b), x) = Count(v.parents[y], x) + IF b = x THEN 1 ELSE 0
      BY <3>1, CountAppend
    <3> QED
      BY <1>5, <3>1, <3>2 DEF P
  <2>6. \A x, y \in BB : P(v, x, y) = P(h, x, y) - IF x = b /\ y = old THEN 1 ELSE 0
    <3>1. \A x, y \in BB : P(u, x, y) = P(h, x, y)
      BY <1>3 DEF P
    <3> QED
      BY <1>3, <1>10, <2>3, <3>1 DEF IsRemoveParent1
  <2> SUFFICES ASSUME NEW x \in BB, NEW y \in BB PROVE C(k, x, y) = T(k, x, y) /\ P(k, x, y) = T(k, x, y)
    BY DEF Agree
  <2>7. C(h, x, y) = T(h, x, y) /\ P(h, x, y) = T(h, x, y) /\ T(h, x, y) \in Nat
    BY <1>1, <1>8, CountsAre DEF Agree
  <2> QED
    BY <2>1, <2>4, <2>5, <2>6, <2>7
<1>9. ASSUME Unlisted(h) PROVE Unlisted(k)
  <2>1. h.term[b] # NoTerm
    BY DEF NoTerm
  <2> QED
    BY <1>5, <1>9, <2>1 DEF Unlisted
<1> QED
  BY <1>5, <1>7, <1>8, <1>9, <1>13 DEF Redirects, Sound, k

\* rewrite_branch of any target.
LEMMA RewriteOne ==
    ASSUME NEW h, Typed(h), NEW b \in BB, NEW i \in 1 .. Len(h.term[b].to), NEW old \in BB, NEW new \in BB
    PROVE  /\ Redirects(h, rewrite_branch(h, b, i, old, new), b)
           /\ \A j \in 1 .. Len(h.term[b].to) :
                 rewrite_branch(h, b, i, old, new).term[b].to[j] =
                     IF j = i /\ h.term[b].to[j] = old THEN new ELSE h.term[b].to[j]
<1>1. CASE h.term[b].to[i] # old \/ new = old
  <2>1. rewrite_branch(h, b, i, old, new) = h
    BY <1>1 DEF rewrite_branch
  <2> QED
    BY <1>1, <2>1, RedirectsItself
<1>2. CASE h.term[b].to[i] = old /\ new # old
  <2>1. /\ Redirects(h, rewrite_branch(h, b, i, old, new), b)
        /\ rewrite_branch(h, b, i, old, new).term[b].to = ReplaceAt(h.term[b].to, i, new)
    BY <1>2, RewriteBranchIs
  <2>2. h.term[b].to \in Seq(BB)
    BY Parts DEF Typed
  <2> QED
    BY <1>2, <2>1, <2>2 DEF ReplaceAt
<1> QED
  BY <1>1, <1>2

\* What rewrite_branches makes of the targets.
AllTo(h, k, b, old, new) ==
    \A j \in 1 .. Len(h.term[b].to) :
        k.term[b].to[j] = IF h.term[b].to[j] = old THEN new ELSE h.term[b].to[j]

\* Every target that is old becomes new.
LEMMA RewriteBranchesIs ==
    ASSUME NEW h, Typed(h), NEW b \in BB, NEW old \in BB, NEW new \in BB
    PROVE  /\ Redirects(h, rewrite_branches(h, b, old, new), b)
           /\ AllTo(h, rewrite_branches(h, b, old, new), b, old, new)
<1> DEFINE to == h.term[b].to
           s == [i \in DOMAIN h.term[b].to |-> i]
           N == Len(s)
           V == {x \in Graph : Redirects(h, x, b)}
           G == [y \in Nat \X V |-> IF y[1] \in 1 .. N THEN rewrite_branch(y[2], b, s[y[1]], old, new) ELSE y[2]]
           Fits(n, k) == \A j \in 1 .. N : k.term[b].to[j] = IF j <= n /\ to[j] = old THEN new ELSE to[j]
           J == {y \in (0 .. N) \X V : Fits(y[1], y[2])}
<1>12. h \in Graph /\ to \in Seq(BB) /\ Len(to) \in Nat
  BY Parts DEF Typed
<1>13. N = Len(to) /\ \A n \in 1 .. N : s[n] = n
  <2>1. s = [i \in 1 .. Len(to) |-> i]
    BY <1>12
  <2> QED
    BY <1>12, <2>1
<1>1. N \in Nat /\ h \in V /\ 0 \in Nat
  BY <1>12, <1>13, RedirectsItself
<1>14. ASSUME NEW n \in 1 .. N, NEW k \in V
       PROVE  /\ rewrite_branch(k, b, s[n], old, new) \in V
              /\ \A j \in 1 .. N : rewrite_branch(k, b, s[n], old, new).term[b].to[j] =
                                     IF j = n /\ k.term[b].to[j] = old THEN new ELSE k.term[b].to[j]
  <2> HIDE DEF N, s
  <2>1. Redirects(h, k, b)
    OBVIOUS
  <2>2. Typed(k) /\ Len(k.term[b].to) = N
    BY <1>13, <2>1 DEF Redirects
  <2>3. n \in 1 .. Len(k.term[b].to) /\ s[n] = n
    BY <1>13, <2>2
  <2>4. /\ Redirects(k, rewrite_branch(k, b, n, old, new), b)
        /\ \A j \in 1 .. N : rewrite_branch(k, b, n, old, new).term[b].to[j] =
                               IF j = n /\ k.term[b].to[j] = old THEN new ELSE k.term[b].to[j]
    BY <2>2, <2>3, RewriteOne
  <2>5. Redirects(h, rewrite_branch(k, b, n, old, new), b)
    BY <2>1, <2>4, RedirectsAll
  <2> QED
    BY <2>3, <2>4, <2>5 DEF Redirects, Typed
<1>2. G \in [Nat \X V -> V]
  <2> HIDE DEF V, s
  <2> QED
    BY <1>14
<1>3. \A n \in 1 .. N : \A k \in V : G[<<n, k>>] = rewrite_branch(k, b, s[n], old, new)
  <2> HIDE DEF V, s
  <2> QED
    BY <1>13
<1>4. PICK f \in [0 .. N -> V] : Follows(f, 0, N, h, G)
  <2> HIDE DEF N, G, V
  <2> QED
    BY <1>1, <1>2, Recursive
<1>5. rewrite_branches(h, b, old, new) = f[N]
  <2> DEFINE Val(hh, n) ==
                 IF n = 0 THEN h
                 ELSE CHOOSE r \in {rewrite_branch(k, b, s[n], old, new) : k \in {hh[n - 1]}} : TRUE
             E(hh) == hh = [n \in 0 .. N |-> Val(hh, n)]
             after == CHOOSE hh : E(hh)
  <2>1. rewrite_branches(h, b, old, new) = after[N]
    BY DEF rewrite_branches, Loop
  <2>2. \A n \in 1 .. N : \A hh : Val(hh, n) = rewrite_branch(hh[n - 1], b, s[n], old, new)
    <3> TAKE n \in 1 .. N
    <3> TAKE hh
    <3>1. n # 0
      BY <1>1
    <3>2. {rewrite_branch(k, b, s[n], old, new) : k \in {hh[n - 1]}} = {rewrite_branch(hh[n - 1], b, s[n], old, new)}
      OBVIOUS
    <3> QED
      BY <3>1, <3>2, OnlyOne
  <2>3. \A hh : Val(hh, 0) = h
    OBVIOUS
  <2> HIDE DEF Val, G, N, s, V
  <2>4. \A n \in 0 .. N : f[n] = Val(f, n)
    <3> TAKE n \in 0 .. N
    <3>1. f[n] = IF n = 0 THEN h ELSE G[<<n, f[n - 1]>>]
      BY <1>4 DEF Follows
    <3>2. n # 0 => n \in 1 .. N /\ n - 1 \in 0 .. N
      BY <1>1
    <3>3. n # 0 => G[<<n, f[n - 1]>>] = Val(f, n)
      <4>1. n # 0 => f[n - 1] \in V
        BY <1>4, <3>2
      <4>2. n # 0 => Val(f, n) = rewrite_branch(f[n - 1], b, s[n], old, new)
        BY <2>2, <3>2
      <4> QED
        BY <1>3, <3>2, <4>1, <4>2
    <3> QED
      BY <2>3, <3>1, <3>3
  <2>5. E(f)
    BY <2>4
  <2>6. E(after)
    <3> HIDE DEF E
    <3> QED
      BY <2>5
  <2> HIDE DEF after
  <2>7. \A n \in 0 .. N : after[n] = Val(after, n)
    BY <2>6
  <2> HIDE DEF E
  <2>8. f[0] = after[0]
    BY <1>1, <2>3, <2>4, <2>7
  <2>9. \A n \in 1 .. N : f[n - 1] = after[n - 1] => f[n] = after[n]
    <3> TAKE n \in 1 .. N
    <3>1. n \in 0 .. N
      BY <1>1
    <3> QED
      BY <2>2, <2>4, <2>7, <3>1
  <2>10. Alike(f, after, N)
    BY <1>1, <2>8, <2>9, SameSteps DEF Stepwise
  <2> QED
    BY <1>1, <2>1, <2>10 DEF Alike
<1>6. Fits(0, h)
  BY <1>1, <1>13
<1>7. ASSUME NEW n \in 1 .. N, NEW k \in V, Fits(n - 1, k)
      PROVE  Fits(n, G[<<n, k>>])
  <2> SUFFICES ASSUME NEW j \in 1 .. N
               PROVE  G[<<n, k>>].term[b].to[j] = IF j <= n /\ to[j] = old THEN new ELSE to[j]
    OBVIOUS
  <2>1. G[<<n, k>>].term[b].to[j] = IF j = n /\ k.term[b].to[j] = old THEN new ELSE k.term[b].to[j]
    <3> HIDE DEF G, V, N, s
    <3>1. G[<<n, k>>] = rewrite_branch(k, b, s[n], old, new)
      BY <1>3
    <3>2. rewrite_branch(k, b, s[n], old, new).term[b].to[j] =
             IF j = n /\ k.term[b].to[j] = old THEN new ELSE k.term[b].to[j]
      BY <1>14
    <3> QED
      BY <3>1, <3>2
  <2>2. k.term[b].to[j] = IF j <= n - 1 /\ to[j] = old THEN new ELSE to[j]
    BY <1>7
  <2>3. (j <= n - 1 => j # n) /\ (j <= n <=> j <= n - 1 \/ j = n)
    BY <1>1
  <2> HIDE DEF G, V, N, s
  <2> QED
    BY <2>1, <2>2, <2>3
<1>8. <<0, h>> \in J
  <2> HIDE DEF Fits, N, V
  <2> QED
    BY <1>1, <1>6
<1>9. \A n \in 1 .. N : \A k \in V : <<n - 1, k>> \in J => <<n, G[<<n, k>>]>> \in J
  <2> TAKE n \in 1 .. N
  <2> TAKE k \in V
  <2>1. <<n - 1, k>> \in J => Fits(n - 1, k)
    <3> HIDE DEF Fits, V
    <3> QED
      OBVIOUS
  <2>2. n \in 0 .. N /\ n \in Nat
    BY <1>1
  <2> HIDE DEF Fits, G, V, N
  <2> QED
    BY <1>2, <1>7, <2>1, <2>2
<1>10. f[N] \in V /\ <<N, f[N]>> \in J
  <2> HIDE DEF J, G, N, V
  <2> QED
    BY <1>1, <1>2, <1>4, <1>8, <1>9, Looped
<1>11. Fits(N, f[N])
  <2> HIDE DEF Fits, N, V
  <2> QED
    BY <1>10
<1>15. AllTo(h, f[N], b, old, new)
  <2>1. \A j \in 1 .. N : j <= N
    BY <1>1
  <2> HIDE DEF N, s, V
  <2> QED
    BY <1>11, <1>13, <2>1 DEF AllTo
<1> HIDE DEF N, s, G
<1> QED
  BY <1>5, <1>10, <1>15

\* b has no side effect, and may lead to t whatever c is.
Passes(h, b, t) == t \in BB /\ h.effects[b] = <<>> /\ \A v \in BOOLEAN : t \in Ways(h, b, v)

\* The branch of p goes to t where it went to b.
Swapped(h, k, p, b, t) == \A v \in BOOLEAN : Ways(k, p, v) = {IF x = b THEN t ELSE x : x \in Ways(h, p, v)}

\* So rewrite_branches.
LEMMA RewriteSwaps ==
    ASSUME NEW h, Typed(h), NEW k, NEW p \in BB, NEW b \in BB, NEW t \in BB, Redirects(h, k, p), AllTo(h, k, p, b, t)
    PROVE  Swapped(h, k, p, b, t)
<1> DEFINE to == h.term[p].to
           ko == k.term[p].to
<1>1. to \in Seq(BB) /\ ko \in Seq(BB) /\ Len(ko) = Len(to) /\ Formed(h.term[p])
  BY Parts DEF Redirects, Typed
<1>2. \A j \in 1 .. Len(to) : ko[j] = IF to[j] = b THEN t ELSE to[j]
  BY DEF AllTo
<1>3. k.term[p].op = h.term[p].op /\ k.term[p].cond = h.term[p].cond
  BY DEF Redirects
<1>4. ToSet(to) = {to[j] : j \in 1 .. Len(to)} /\ ToSet(ko) = {ko[j] : j \in 1 .. Len(to)}
  BY <1>1 DEF ToSet
<1> SUFFICES ASSUME NEW v \in BOOLEAN PROVE Ways(k, p, v) = {IF x = b THEN t ELSE x : x \in Ways(h, p, v)}
  BY DEF Swapped
<1>5. CASE h.term[p].cond \in {"none", "other"} \/ h.term[p].op # "br"
  <2>1. Ways(h, p, v) = ToSet(to) /\ Ways(k, p, v) = ToSet(ko)
    BY <1>3, <1>5 DEF Ways
  <2> DEFINE Other(x) == IF x = b THEN t ELSE x
             X == Ways(h, p, v)
             Y == Ways(k, p, v)
  <2>2. X = ToSet(to) /\ Y = ToSet(ko)
    BY <2>1
  <2> HIDE DEF to, ko, X, Y
  <2>3. \A j \in 1 .. Len(to) : ko[j] = Other(to[j])
    BY <1>2
  <2> HIDE DEF Other
  <2>4. ASSUME NEW y \in Y PROVE y \in {Other(x) : x \in X}
    <3>1. PICK j \in 1 .. Len(to) : y = ko[j]
      BY <1>4, <2>2
    <3>2. y = Other(to[j]) /\ to[j] \in X
      BY <1>4, <2>2, <2>3, <3>1
    <3> QED
      BY <3>2
  <2>5. ASSUME NEW x \in X PROVE Other(x) \in Y
    <3>1. PICK j \in 1 .. Len(to) : x = to[j]
      BY <1>4, <2>2
    <3>2. ko[j] = Other(x) /\ ko[j] \in Y
      BY <1>4, <2>2, <2>3, <3>1
    <3> QED
      BY <3>2
  <2>6. Y = {Other(x) : x \in X}
    BY <2>4, <2>5
  <2> QED
    BY <2>6 DEF X, Y, Other
<1>6. CASE ~(h.term[p].cond \in {"none", "other"} \/ h.term[p].op # "br")
  <2> DEFINE i == IF h.term[p].cond = "true" \/ h.term[p].cond = IF v THEN "c" ELSE "notc" THEN 1 ELSE 2
  <2>1. Ways(h, p, v) = {to[i]} /\ Ways(k, p, v) = {ko[i]}
    BY <1>3, <1>6 DEF Ways
  <2>2. Len(to) = 2
    BY <1>1, <1>6 DEF Formed
  <2>3. i \in 1 .. Len(to)
    BY <2>2
  <2> HIDE DEF to, ko, i
  <2> QED
    BY <1>2, <2>1, <2>3
<1> QED
  BY <1>5, <1>6

\* No path has changed then, and the next branch to b can be rewritten too.
LEMMA PathsRedirect ==
    ASSUME NEW h, Typed(h), NEW k, NEW p \in BB, NEW b \in BB, NEW t, Redirects(h, k, p), AllTo(h, k, p, b, t),
           Passes(h, b, t)
    PROVE  KeepsPaths(h, k) /\ (b # t => Passes(k, b, t))
<1>1. t \in BB
  BY DEF Passes
<1>2. Swapped(h, k, p, b, t)
  BY <1>1, RewriteSwaps
<1>3. Rebranches(h, k, p)
  BY DEF Redirects, Rebranches
<1>4. ASSUME b # t PROVE Passes(k, b, t)
  <2>1. k.effects[b] = <<>>
    BY DEF Redirects, Passes
  <2>2. ASSUME NEW v \in BOOLEAN PROVE t \in Ways(k, b, v)
    <3>1. CASE p = b
      BY <1>2, <1>4, <3>1 DEF Swapped, Passes
    <3>2. CASE p # b
      <4>1. k.term[b] = h.term[b]
        BY <3>2 DEF Redirects
      <4> QED
        BY <4>1 DEF Ways, Passes
    <3> QED
      BY <3>1, <3>2
  <2> QED
    BY <1>1, <2>1, <2>2 DEF Passes
<1>5. ASSUME NEW v \in BOOLEAN PROVE Preserves(h, k, v)
  <2>1. IsAhead(h, v, p)
    BY AheadIs
  <2>2. ASSUME NEW x \in Ways(h, p, v) PROVE (IF x = b THEN t ELSE x) \in Ahead(h, v, p)
    <3>1. x \in Ahead(h, v, p)
      BY <2>1 DEF IsAhead
    <3>2. x = b => t \in Ahead(h, v, p)
      BY <2>1, <3>1 DEF IsAhead, Passes, Silent
    <3> QED
      BY <3>1, <3>2
  <2>3. Ways(k, p, v) \subseteq Ahead(h, v, p)
    BY <1>2, <2>2 DEF Swapped
  <2>4. k.term[p].to = <<>> => h.term[p].to = <<>> /\ h.term[p].op = k.term[p].op
    <3>1. h.term[p].to \in Seq(BB) /\ k.term[p].to \in Seq(BB)
      BY Parts DEF Redirects, Typed
    <3> QED
      BY <3>1 DEF Redirects
  <2> QED
    BY <1>3, <2>3, <2>4, PathsRebranch
<1>6. ASSUME Good(h) PROVE entry \notin ToSet(k.term[p].to)
  <2>1. t \in ToSet(h.term[b].to)
    BY WaysAre DEF Passes
  <2>2. t # entry /\ entry \notin ToSet(h.term[p].to)
    BY <1>6, <2>1 DEF Good, Unentered
  <2>3. h.term[p].to \in Seq(BB) /\ k.term[p].to \in Seq(BB) /\ Len(k.term[p].to) = Len(h.term[p].to)
    BY Parts DEF Redirects, Typed
  <2>4. \A j \in 1 .. Len(h.term[p].to) : k.term[p].to[j] # entry
    <3> TAKE j \in 1 .. Len(h.term[p].to)
    <3>1. h.term[p].to[j] # entry
      BY <2>2, <2>3 DEF ToSet
    <3> QED
      BY <2>2, <3>1 DEF AllTo
  <2> QED
    BY <2>3, <2>4 DEF ToSet
<1> QED
  BY <1>3, <1>4, <1>5, <1>6, GoodRebranch DEF KeepsPaths

-----------------------------------------------------------------------------
\* kill_bb and pack_basic_blocks.

\* The two lists of an edge agree.
Lists(h) == \A x, y \in BB : C(h, x, y) = P(h, x, y)

IsKilled(h, k, b) ==
    /\ k \in Graph /\ k.bbs = h.bbs /\ k.asserts = h.asserts
    /\ \A x \in BB : /\ k.term[x] = IF x = b THEN NoTerm ELSE h.term[x]
                     /\ k.effects[x] = IF x = b THEN <<>> ELSE h.effects[x]
    /\ Lists(h) => \A x, y \in BB :
           /\ C(k, x, y) = IF x = b \/ y = b THEN 0 ELSE C(h, x, y)
           /\ P(k, x, y) = IF x = b \/ y = b THEN 0 ELSE C(h, x, y)

\* kill_bb takes a block out of all the lists it is in.
LEMMA KillIs ==
    ASSUME NEW h \in Graph, NEW b \in BB
    PROVE  IsKilled(h, kill_bb(h, b), b)
<1> DEFINE ps == [c \in BB |-> IF Contains(h.children[b], c) THEN Without(h.parents[c], {b}) ELSE h.parents[c]]
           u == [h EXCEPT !.parents = ps, !.children[b] = <<>>, !.term[b] = NoTerm, !.pure[b] = FALSE,
                          !.effects[b] = <<>>, !.repeat = @ \/ h.term[b].op = "br"]
           cs == [p \in BB |-> IF Contains(u.parents[b], p) THEN Without(u.children[p], {b}) ELSE u.children[p]]
           k == [u EXCEPT !.children = cs, !.parents[b] = <<>>]
<1>1. /\ h.children \in [BB -> Seq(BB)] /\ h.parents \in [BB -> Seq(BB)] /\ h.term \in [BB -> Term]
      /\ h.pure \in [BB -> BOOLEAN] /\ h.effects \in [BB -> Seq(BB)] /\ h.repeat \in BOOLEAN
  BY Parts
<1>2. kill_bb(h, b) = k
  BY DEF kill_bb
<1>3. ps \in [BB -> Seq(BB)]
  <2>1. \A c \in BB : Without(h.parents[c], {b}) \in Seq(BB)
    BY <1>1, CountWithout
  <2> QED
    BY <1>1, <2>1
<1> HIDE DEF ps
<1>4. /\ u \in Graph /\ u.bbs = h.bbs /\ u.asserts = h.asserts /\ u.parents = ps
      /\ u.children = [h.children EXCEPT ![b] = <<>>] /\ u.term = [h.term EXCEPT ![b] = NoTerm]
      /\ u.effects = [h.effects EXCEPT ![b] = <<>>]
  <2>1. <<>> \in Seq(BB) /\ NoTerm \in Term /\ (h.repeat \/ h.term[b].op = "br") \in BOOLEAN
    BY <1>1, NoTermIs
  <2> QED
    BY <1>1, <1>3, <2>1 DEF Graph
<1> HIDE DEF u
<1>5. cs \in [BB -> Seq(BB)] /\ u.children \in [BB -> Seq(BB)] /\ u.parents \in [BB -> Seq(BB)]
  <2>1. u.children \in [BB -> Seq(BB)] /\ u.parents \in [BB -> Seq(BB)]
    BY <1>4, Parts
  <2>2. \A c \in BB : Without(u.children[c], {b}) \in Seq(BB)
    BY <2>1, CountWithout
  <2> QED
    BY <2>1, <2>2
<1> HIDE DEF cs
<1>6. /\ k \in Graph /\ k.bbs = u.bbs /\ k.asserts = u.asserts /\ k.term = u.term /\ k.effects = u.effects /\ k.children = cs
      /\ k.parents = [u.parents EXCEPT ![b] = <<>>]
  <2>1. <<>> \in Seq(BB)
    OBVIOUS
  <2> QED
    BY <1>4, <1>5, <2>1 DEF Graph
<1> HIDE DEF k
<1>7. \A x, y \in BB : /\ C(u, x, y) = IF x = b THEN 0 ELSE C(h, x, y)
                       /\ P(u, x, y) = IF x = b /\ C(h, b, y) # 0 THEN 0 ELSE P(h, x, y)
  <2> TAKE x, y \in BB
  <2>1. C(u, x, y) = IF x = b THEN 0 ELSE C(h, x, y)
    BY <1>1, <1>4, CountEmpty DEF C
  <2>2. Contains(h.children[b], y) <=> C(h, b, y) # 0
    BY <1>1, CountZero, CountsAre
  <2>3. Count(Without(h.parents[y], {b}), x) = IF x \in {b} THEN 0 ELSE Count(h.parents[y], x)
    BY <1>1, CountWithout
  <2>4. u.parents[y] = IF C(h, b, y) # 0 THEN Without(h.parents[y], {b}) ELSE h.parents[y]
    BY <1>4, <2>2 DEF ps
  <2> QED
    BY <2>1, <2>3, <2>4 DEF P
<1>8. \A x, y \in BB : /\ P(k, x, y) = IF y = b THEN 0 ELSE P(u, x, y)
                       /\ C(k, x, y) = IF y = b /\ P(u, x, b) # 0 THEN 0 ELSE C(u, x, y)
  <2> TAKE x, y \in BB
  <2>1. P(k, x, y) = IF y = b THEN 0 ELSE P(u, x, y)
    BY <1>5, <1>6, CountEmpty DEF P
  <2>2. Contains(u.parents[b], x) <=> P(u, x, b) # 0
    BY <1>4, <1>5, CountZero, CountsAre
  <2>3. Count(Without(u.children[x], {b}), y) = IF y \in {b} THEN 0 ELSE Count(u.children[x], y)
    BY <1>5, CountWithout
  <2>4. k.children[x] = IF P(u, x, b) # 0 THEN Without(u.children[x], {b}) ELSE u.children[x]
    BY <1>6, <2>2 DEF cs
  <2> QED
    BY <2>1, <2>3, <2>4 DEF C
<1>9. ASSUME Lists(h), NEW x \in BB, NEW y \in BB
      PROVE  /\ C(k, x, y) = IF x = b \/ y = b THEN 0 ELSE C(h, x, y)
             /\ P(k, x, y) = IF x = b \/ y = b THEN 0 ELSE C(h, x, y)
  <2>1. C(h, x, y) = P(h, x, y) /\ C(h, b, y) = P(h, b, y) /\ C(h, x, b) = P(h, x, b)
    BY <1>9 DEF Lists
  <2>2. /\ C(u, x, y) = (IF x = b THEN 0 ELSE C(h, x, y))
        /\ P(u, x, y) = (IF x = b /\ C(h, b, y) # 0 THEN 0 ELSE P(h, x, y))
        /\ P(u, x, b) = (IF x = b /\ C(h, b, b) # 0 THEN 0 ELSE P(h, x, b))
    BY <1>7
  <2>3. /\ P(k, x, y) = (IF y = b THEN 0 ELSE P(u, x, y))
        /\ C(k, x, y) = (IF y = b /\ P(u, x, b) # 0 THEN 0 ELSE C(u, x, y))
    BY <1>8
  <2> QED
    BY <2>1, <2>2, <2>3
<1> QED
  BY <1>1, <1>2, <1>4, <1>6, <1>9 DEF IsKilled

\* A block that no other block goes to can be killed.
LEMMA KillKeeps ==
    ASSUME NEW h, Typed(h), NEW b \in BB
    PROVE  /\ Typed(kill_bb(h, b)) /\ kill_bb(h, b).bbs = h.bbs /\ kill_bb(h, b).asserts = h.asserts
           /\ Sound(h) /\ (\A p \in BB \ {b} : b \notin ToSet(h.term[p].to)) => Sound(kill_bb(h, b))
           /\ b # entry /\ (\A p \in BB \ {b} : b \notin ToSet(h.term[p].to)) => KeepsPaths(h, kill_bb(h, b))
<1> DEFINE k == kill_bb(h, b)
<1>1. h \in Graph
  BY DEF Typed
<1>2. IsKilled(h, k, b)
  BY <1>1, KillIs
<1> HIDE DEF k
<1>3. k \in Graph /\ k.bbs = h.bbs /\ k.asserts = h.asserts
      /\ \A x \in BB : k.term[x] = IF x = b THEN NoTerm ELSE h.term[x]
  BY <1>2 DEF IsKilled
<1>4. Typed(k)
  BY <1>3, NoTermIs DEF Typed
<1>5. ASSUME Sound(h), \A p \in BB \ {b} : b \notin ToSet(h.term[p].to) PROVE Sound(k)
  <2>1. Lists(h)
    BY <1>5 DEF Sound, Agree, Lists
  <2>2. ASSUME NEW x \in BB, NEW y \in BB PROVE C(k, x, y) = T(k, x, y) /\ P(k, x, y) = T(k, x, y)
    <3>1. /\ C(k, x, y) = IF x = b \/ y = b THEN 0 ELSE C(h, x, y)
          /\ P(k, x, y) = IF x = b \/ y = b THEN 0 ELSE C(h, x, y)
      BY <1>2, <2>1 DEF IsKilled
    <3>2. C(h, x, y) = T(h, x, y)
      BY <1>5 DEF Sound, Agree
    <3>3. CASE x = b
      <4>1. T(k, x, y) = 0
        BY <1>3, <3>3, NoTermIs, CountEmpty DEF T
      <4> QED
        BY <3>1, <3>3, <4>1
    <3>4. CASE x # b
      <4>1. T(k, x, y) = T(h, x, y)
        BY <1>3, <3>4 DEF T
      <4>2. y = b => T(h, x, y) = 0
        BY <1>1, <1>5, <3>4, CountsAre
      <4> QED
        BY <3>1, <3>2, <3>4, <4>1, <4>2
    <3> QED
      BY <3>3, <3>4
  <2>3. Unlisted(k)
    BY <1>3, <1>5 DEF Sound, Unlisted
  <2> QED
    BY <2>2, <2>3 DEF Sound, Agree
<1>6. ASSUME b # entry, \A p \in BB \ {b} : b \notin ToSet(h.term[p].to) PROVE KeepsPaths(h, k)
  <2>1. \A x \in BB : k.effects[x] = IF x = b THEN <<>> ELSE h.effects[x]
    BY <1>2 DEF IsKilled
  <2>2. Rid(h, k, {b})
    BY <1>3, <1>4, <1>6, <2>1 DEF Rid
  <2> QED
    BY <2>2, PathsRid
<1> QED
  BY <1>3, <1>4, <1>5, <1>6 DEF k

\* One turn of the loop of rewrite_parents.
RewriteParent(s, p, b, target) ==
    IF ~s.done \/ ~Contains(s.h.parents[b], p) THEN s
    ELSE IF b = target \/ s.h.term[p].op \notin {"br", "switch"}
    THEN [s EXCEPT !.done = FALSE]
    ELSE LET k == rewrite_branches(s.h, p, b, target)
         IN  [s EXCEPT !.h = Asserted(k, k # s.h)]

\* An assertion does not touch the lists.
LEMMA AssertedFollows ==
    ASSUME NEW h, Typed(h), NEW p \in BOOLEAN
    PROVE  Follow(h, Asserted(h, p)) /\ Asserted(h, p).term = h.term /\ Asserted(h, p).effects = h.effects
<1> DEFINE k == Asserted(h, p)
<1>1. /\ k \in Graph /\ k.term = h.term /\ k.effects = h.effects /\ k.children = h.children /\ k.parents = h.parents
      /\ k.bbs = h.bbs /\ (k.asserts <=> h.asserts /\ p)
  <2>1. h \in Graph
    BY DEF Typed
  <2> HIDE DEF k
  <2> QED
    BY <2>1, AssertedIs DEF k
<1> HIDE DEF k
<1>2. Typed(k)
  BY <1>1 DEF Typed
<1>3. Sound(h) => Sound(k)
  BY <1>1 DEF Sound, Agree, Unlisted, C, P, T
<1>4. KeepsPaths(h, k)
  BY <1>1, <1>2, PathsSame
<1> QED
  BY <1>1, <1>2, <1>3, <1>4 DEF Follow, k

\* The blocks that go to b among the first n of ps are none any more.
Off(h, k, ps, n, b) ==
    /\ \A j \in 1 .. n : b \notin ToSet(k.term[ps[j]].to)
    /\ \A p \in BB : b \notin ToSet(h.term[p].to) => b \notin ToSet(k.term[p].to)

Turned(h, s, r, ps, n, b, target) ==
    /\ r \in [h: Graph, done: BOOLEAN] /\ Follow(h, r.h) /\ Passes(r.h, b, target)
    /\ (s.done /\ Sound(h) => Off(h, s.h, ps, n - 1, b)) => (r.done /\ Sound(h) => Off(h, r.h, ps, n, b))

\* A parent either has no branch to b in the end, or not all is done.
LEMMA RewriteParentIs ==
    ASSUME NEW h, Typed(h), NEW b \in BB, NEW target \in BB, NEW s \in [h: Graph, done: BOOLEAN],
           Follow(h, s.h), Passes(s.h, b, target), NEW ps \in Seq(BB), NEW n \in 1 .. Len(ps)
    PROVE  Turned(h, s, RewriteParent(s, ps[n], b, target), ps, n, b, target)
<1> USE DEF Turned
<1> DEFINE r == RewriteParent(s, ps[n], b, target)
           p == ps[n]
           k == rewrite_branches(s.h, p, b, target)
           l == Asserted(k, k # s.h)
<1>1. p \in BB /\ Typed(s.h) /\ s.h \in Graph /\ n \in Nat
  BY DEF Follow, Typed
<1>2. CASE ~s.done
  BY <1>2 DEF RewriteParent
<1>3. CASE s.done /\ ~Contains(s.h.parents[b], p)
  <2>1. r = s
    BY <1>3 DEF RewriteParent
  <2>2. ASSUME Sound(h), Off(h, s.h, ps, n - 1, b) PROVE Off(h, s.h, ps, n, b)
    <3>1. P(s.h, p, b) = 0
      BY <1>1, <1>3, Parts, CountZero, CountsAre
    <3>2. T(s.h, p, b) = 0
      BY <1>1, <2>2, <3>1 DEF Follow, Sound, Agree
    <3>3. b \notin ToSet(s.h.term[p].to)
      BY <1>1, <3>2, CountsAre
    <3>4. \A j \in 1 .. n : j = n \/ j \in 1 .. n - 1
      BY <1>1
    <3> QED
      BY <2>2, <3>3, <3>4 DEF Off
  <2> QED
    BY <1>3, <2>1, <2>2
<1>4. CASE s.done /\ Contains(s.h.parents[b], p) /\ (b = target \/ s.h.term[p].op \notin {"br", "switch"})
  <2>1. r = [s EXCEPT !.done = FALSE]
    BY <1>4 DEF RewriteParent
  <2> QED
    BY <2>1
<1>5. CASE s.done /\ Contains(s.h.parents[b], p) /\ ~(b = target \/ s.h.term[p].op \notin {"br", "switch"})
  <2>1. r = [s EXCEPT !.h = l]
    BY <1>5 DEF RewriteParent
  <2>2. Redirects(s.h, k, p) /\ AllTo(s.h, k, p, b, target)
    BY <1>1, RewriteBranchesIs
  <2> HIDE DEF k
  <2>3. Follow(s.h, k) /\ Typed(k) /\ Passes(k, b, target)
    BY <1>1, <1>5, <2>2, PathsRedirect DEF Redirects, Follow
  <2>4. Follow(k, l) /\ l.term = k.term /\ l.effects = k.effects
    BY <2>3, AssertedFollows
  <2> HIDE DEF l
  <2>5. Follow(h, l)
    BY <2>3, <2>4, FollowAll
  <2>6. l \in Graph
    BY <2>5 DEF Follow, Typed
  <2>7. b \notin ToSet(l.term[p].to)
    <3>1. Len(k.term[p].to) = Len(s.h.term[p].to) /\ k.term[p].to \in Seq(BB)
      BY <1>1, <2>2, <2>3, Parts DEF Redirects, Typed
    <3>2. \A j \in 1 .. Len(k.term[p].to) : k.term[p].to[j] # b
      BY <1>5, <2>2, <3>1 DEF AllTo
    <3> QED
      BY <2>4, <3>1, <3>2 DEF ToSet
  <2>8. \A q \in BB : q # p => l.term[q] = s.h.term[q]
    BY <2>2, <2>4 DEF Redirects
  <2>9. ASSUME Sound(h), Off(h, s.h, ps, n - 1, b) PROVE Off(h, l, ps, n, b)
    <3>1. Off(h, s.h, ps, n - 1, b)
      BY <2>9
    <3>2. ASSUME NEW j \in 1 .. n PROVE b \notin ToSet(l.term[ps[j]].to)
      <4>1. j = n \/ j \in 1 .. n - 1
        BY <1>1
      <4>2. ps[j] \in BB
        OBVIOUS
      <4> QED
        BY <2>7, <2>8, <3>1, <4>1, <4>2 DEF Off
    <3>3. ASSUME NEW q \in BB, b \notin ToSet(h.term[q].to) PROVE b \notin ToSet(l.term[q].to)
      BY <2>7, <2>8, <3>1, <3>3 DEF Off
    <3> QED
      BY <3>2, <3>3 DEF Off
  <2>10. Passes(l, b, target)
    BY <2>3, <2>4 DEF Passes, Ways
  <2> QED
    BY <1>5, <2>1, <2>5, <2>6, <2>9, <2>10
<1> QED
  BY <1>2, <1>3, <1>4, <1>5

\* After rewrite_parents no block goes to b, or it says that not all is done.
LEMMA RewriteParentsIs ==
    ASSUME NEW h, Typed(h), NEW b \in BB, NEW target \in BB, Passes(h, b, target)
    PROVE  /\ rewrite_parents(h, b, target) \in [h: Graph, done: BOOLEAN]
           /\ Follow(h, rewrite_parents(h, b, target).h) /\ Passes(rewrite_parents(h, b, target).h, b, target)
           /\ rewrite_parents(h, b, target).done /\ Sound(h) =>
                 \A p \in BB : b \notin ToSet(rewrite_parents(h, b, target).h.term[p].to)
<1> DEFINE ps == h.parents[b]
           N == Len(ps)
           start == [h |-> h, done |-> TRUE]
           Fits(n, k) == k.done /\ Sound(h) => Off(h, k.h, ps, n, b)
           V == {x \in [h: Graph, done: BOOLEAN] : Follow(h, x.h) /\ Passes(x.h, b, target)}
           G == [y \in Nat \X V |-> IF y[1] \in 1 .. N THEN RewriteParent(y[2], ps[y[1]], b, target) ELSE y[2]]
           J == {y \in (0 .. N) \X V : Fits(y[1], y[2])}
<1>12. h \in Graph /\ ps \in Seq(BB) /\ Follow(h, h)
  BY Parts, FollowItself DEF Typed
<1>1. N \in Nat /\ start \in V /\ 0 \in Nat
  <2> HIDE DEF ps
  <2> QED
    BY <1>12
<1> HIDE DEF ps
<1>13. ASSUME NEW n \in 1 .. N, NEW k \in V
       PROVE  RewriteParent(k, ps[n], b, target) \in V
              /\ (Fits(n - 1, k) => Fits(n, RewriteParent(k, ps[n], b, target)))
  <2>1. k \in [h: Graph, done: BOOLEAN] /\ Follow(h, k.h) /\ Passes(k.h, b, target)
    OBVIOUS
  <2> DEFINE r == RewriteParent(k, ps[n], b, target)
  <2> HIDE DEF r
  <2>2. /\ r \in [h: Graph, done: BOOLEAN] /\ Follow(h, r.h) /\ Passes(r.h, b, target)
        /\ (k.done /\ Sound(h) => Off(h, k.h, ps, n - 1, b)) => (r.done /\ Sound(h) => Off(h, r.h, ps, n, b))
    <3>1. Turned(h, k, r, ps, n, b, target)
      BY <1>12, <2>1, RewriteParentIs DEF r
    <3> QED
      BY <3>1 DEF Turned
  <2> QED
    BY <2>2 DEF r
<1>2. G \in [Nat \X V -> V]
  <2> HIDE DEF V, Fits
  <2> QED
    BY <1>13
<1>3. \A n \in 1 .. N : \A k \in V : G[<<n, k>>] = RewriteParent(k, ps[n], b, target)
  <2> HIDE DEF V
  <2> QED
    BY <1>1
<1>4. PICK f \in [0 .. N -> V] : Follows(f, 0, N, start, G)
  <2> HIDE DEF N, G, V, start
  <2> QED
    BY <1>1, <1>2, Recursive
<1>5. rewrite_parents(h, b, target) = f[N]
  <2> DEFINE Val(hh, n) ==
                 IF n = 0 THEN start
                 ELSE CHOOSE r \in {RewriteParent(k, ps[n], b, target) : k \in {hh[n - 1]}} : TRUE
             E(hh) == hh = [n \in 0 .. N |-> Val(hh, n)]
             after == CHOOSE hh : E(hh)
  <2>1. rewrite_parents(h, b, target) = after[N]
    BY DEF rewrite_parents, Loop, RewriteParent, ps
  <2>2. \A n \in 1 .. N : \A hh : Val(hh, n) = RewriteParent(hh[n - 1], ps[n], b, target)
    <3> TAKE n \in 1 .. N
    <3> TAKE hh
    <3>1. n # 0
      BY <1>1
    <3>2. {RewriteParent(k, ps[n], b, target) : k \in {hh[n - 1]}} = {RewriteParent(hh[n - 1], ps[n], b, target)}
      OBVIOUS
    <3> QED
      BY <3>1, <3>2, OnlyOne
  <2>3. \A hh : Val(hh, 0) = start
    OBVIOUS
  <2> HIDE DEF Val, G, N, start, V
  <2>4. \A n \in 0 .. N : f[n] = Val(f, n)
    <3> TAKE n \in 0 .. N
    <3>1. f[n] = IF n = 0 THEN start ELSE G[<<n, f[n - 1]>>]
      BY <1>4 DEF Follows
    <3>2. n # 0 => n \in 1 .. N /\ n - 1 \in 0 .. N
      BY <1>1
    <3>3. n # 0 => G[<<n, f[n - 1]>>] = Val(f, n)
      <4>1. n # 0 => f[n - 1] \in V
        BY <1>4, <3>2
      <4>2. n # 0 => Val(f, n) = RewriteParent(f[n - 1], ps[n], b, target)
        BY <2>2, <3>2
      <4> QED
        BY <1>3, <3>2, <4>1, <4>2
    <3> QED
      BY <2>3, <3>1, <3>3
  <2>5. E(f)
    BY <2>4
  <2>6. E(after)
    <3> HIDE DEF E
    <3> QED
      BY <2>5
  <2> HIDE DEF after
  <2>7. \A n \in 0 .. N : after[n] = Val(after, n)
    BY <2>6
  <2> HIDE DEF E
  <2>8. f[0] = after[0]
    BY <1>1, <2>3, <2>4, <2>7
  <2>9. \A n \in 1 .. N : f[n - 1] = after[n - 1] => f[n] = after[n]
    <3> TAKE n \in 1 .. N
    <3>1. n \in 0 .. N
      BY <1>1
    <3> QED
      BY <2>2, <2>4, <2>7, <3>1
  <2>10. Alike(f, after, N)
    BY <1>1, <2>8, <2>9, SameSteps DEF Stepwise
  <2> QED
    BY <1>1, <2>1, <2>10 DEF Alike
<1>6. Fits(0, start)
  BY DEF Off
<1>7. ASSUME NEW n \in 1 .. N, NEW k \in V, Fits(n - 1, k)
      PROVE  Fits(n, G[<<n, k>>])
  <2> HIDE DEF G, V, N, Fits
  <2>1. G[<<n, k>>] = RewriteParent(k, ps[n], b, target)
    BY <1>3
  <2> QED
    BY <1>7, <1>13, <2>1
<1>8. <<0, start>> \in J
  <2> HIDE DEF Fits, N, V, start
  <2> QED
    BY <1>1, <1>6
<1>9. \A n \in 1 .. N : \A k \in V : <<n - 1, k>> \in J => <<n, G[<<n, k>>]>> \in J
  <2> TAKE n \in 1 .. N
  <2> TAKE k \in V
  <2>1. <<n - 1, k>> \in J => Fits(n - 1, k)
    <3> HIDE DEF Fits, V
    <3> QED
      OBVIOUS
  <2>2. n \in 0 .. N /\ n \in Nat
    BY <1>1
  <2> HIDE DEF Fits, G, V, N
  <2> QED
    BY <1>2, <1>7, <2>1, <2>2
<1>10. f[N] \in V /\ <<N, f[N]>> \in J
  <2> HIDE DEF J, G, N, V, start
  <2> QED
    BY <1>1, <1>2, <1>4, <1>8, <1>9, Looped
<1>11. Fits(N, f[N])
  <2> HIDE DEF Fits, N, V
  <2> QED
    BY <1>10
<1> DEFINE r == rewrite_parents(h, b, target)
<1> HIDE DEF r
<1>14. r \in [h: Graph, done: BOOLEAN] /\ Follow(h, r.h) /\ Passes(r.h, b, target) /\ (r.done /\ Sound(h) => Off(h, r.h, ps, N, b))
  <2> HIDE DEF G, N
  <2> QED
    BY <1>5, <1>10, <1>11 DEF r
<1>15. ASSUME Sound(h), Off(h, r.h, ps, N, b), NEW p \in BB PROVE b \notin ToSet(r.h.term[p].to)
  <2>1. CASE b \notin ToSet(h.term[p].to)
    BY <1>15, <2>1 DEF Off
  <2>2. CASE b \in ToSet(h.term[p].to)
    <3>1. P(h, p, b) # 0
      BY <1>12, <1>15, <2>2, CountsAre DEF Sound, Agree
    <3>2. p \in ToSet(ps)
      BY <1>12, <3>1, CountsAre DEF ps
    <3>3. PICK j \in 1 .. N : ps[j] = p
      BY <1>12, <3>2 DEF ToSet
    <3> QED
      BY <1>15, <3>3 DEF Off
  <2> QED
    BY <2>1, <2>2
<1> QED
  BY <1>14, <1>15 DEF r

IsMerged(h, k, b, p) ==
    /\ k \in Graph /\ k.bbs = h.bbs /\ k.asserts = h.asserts
    /\ \A x \in BB : k.term[x] = IF x = b THEN NoTerm ELSE IF x = p THEN h.term[b] ELSE h.term[x]
    /\ k.term = [h.term EXCEPT ![p] = h.term[b], ![b] = NoTerm]
    /\ k.effects = [h.effects EXCEPT ![p] = h.effects[p] \o h.effects[b], ![b] = <<>>]
    /\ \A x \in BB : k.children[x] = IF x = b THEN <<>> ELSE IF x = p THEN h.children[b] ELSE h.children[x]
    /\ \A y \in BB : k.parents[y] = IF y = b THEN <<>>
                                    ELSE IF Contains(h.children[b], y)
                                    THEN ReplaceAll(h.parents[y], b, p) ELSE h.parents[y]

\* What is where after a merge.
LEMMA MergeIs ==
    ASSUME NEW h \in Graph, NEW b \in BB, NEW p \in BB, p # b
    PROVE  IsMerged(h, merge(h, b, p), b, p)
<1> DEFINE ps == [c \in BB |-> IF c = b THEN <<>>
                               ELSE IF Contains(h.children[b], c)
                               THEN ReplaceAll(h.parents[c], b, p) ELSE h.parents[c]]
           cs == [h.children EXCEPT ![p] = h.children[b], ![b] = <<>>]
           ts == [h.term EXCEPT ![p] = h.term[b], ![b] = NoTerm]
           pu == [h.pure EXCEPT ![p] = h.pure[p] \/ h.pure[b], ![b] = FALSE]
           ep == h.effects[p] \o h.effects[b]
           es == [h.effects EXCEPT ![p] = ep, ![b] = <<>>]
           k == [h EXCEPT !.parents = ps, !.children = cs, !.term = ts, !.pure = pu, !.effects = es, !.repeat = TRUE]
<1>1. /\ h.children \in [BB -> Seq(BB)] /\ h.parents \in [BB -> Seq(BB)] /\ h.term \in [BB -> Term]
      /\ h.pure \in [BB -> BOOLEAN] /\ h.effects \in [BB -> Seq(BB)] /\ <<>> \in Seq(BB) /\ NoTerm \in Term
  BY Parts, NoTermIs
<1>2. merge(h, b, p) = k
  BY DEF merge
<1>3. ps \in [BB -> Seq(BB)]
  <2>1. \A c \in BB : ReplaceAll(h.parents[c], b, p) \in Seq(BB)
    BY <1>1, CountReplaceAll
  <2> QED
    BY <1>1, <2>1
<1>4. /\ cs \in [BB -> Seq(BB)]
      /\ \A x \in BB : cs[x] = IF x = b THEN <<>> ELSE IF x = p THEN h.children[b] ELSE h.children[x]
  BY <1>1
<1>5. /\ ts \in [BB -> Term]
      /\ \A x \in BB : ts[x] = IF x = b THEN NoTerm ELSE IF x = p THEN h.term[b] ELSE h.term[x]
  BY <1>1
<1>6. pu \in [BB -> BOOLEAN]
  BY <1>1
<1>7. es \in [BB -> Seq(BB)]
  <2>1. ep \in Seq(BB)
    BY <1>1, Joined DEF IsJoined
  <2> HIDE DEF ep
  <2> QED
    BY <1>1, <2>1
<1>8. \A y \in BB : ps[y] = IF y = b THEN <<>>
                            ELSE IF Contains(h.children[b], y)
                            THEN ReplaceAll(h.parents[y], b, p) ELSE h.parents[y]
  OBVIOUS
<1>10. /\ ts = [h.term EXCEPT ![p] = h.term[b], ![b] = NoTerm]
       /\ es = [h.effects EXCEPT ![p] = h.effects[p] \o h.effects[b], ![b] = <<>>]
  OBVIOUS
<1> HIDE DEF ps, cs, ts, pu, es
<1>9. /\ k \in Graph /\ k.bbs = h.bbs /\ k.asserts = h.asserts /\ k.parents = ps /\ k.children = cs /\ k.term = ts
      /\ k.effects = es
  BY <1>3, <1>4, <1>5, <1>6, <1>7 DEF Graph
<1> HIDE DEF k
<1> QED
  BY <1>2, <1>4, <1>5, <1>8, <1>9, <1>10 DEF IsMerged

\* A block is merged into its only parent.
LEMMA MergeFollows ==
    ASSUME NEW h, Typed(h), NEW b \in BB, NEW p \in BB, MergesInto(h, b, p)
    PROVE  Follow(h, merge(h, b, p))
<1> DEFINE k == merge(h, b, p)
<1>1. h \in Graph /\ p # b /\ ToSet(h.parents[b]) = {p} /\ ToSet(h.children[p]) = {b}
  BY DEF Typed, MergesInto
<1>2. IsMerged(h, k, b, p)
  BY <1>1, MergeIs
<1> HIDE DEF k
<1>3. Typed(k)
  BY <1>2, NoTermIs DEF Typed, IsMerged
<1>5. ASSUME Sound(h) PROVE KeepsPaths(h, k)
  <2>1. \A x, y \in BB : y \in ToSet(h.term[x].to) <=> y \in ToSet(h.children[x])
    BY <1>1, <1>5, CountsAre DEF Sound, Agree
  <2>6. \A x \in BB : b \in ToSet(h.term[x].to) <=> x \in ToSet(h.parents[b])
    BY <1>1, <1>5, CountsAre DEF Sound, Agree
  <2>2. ToSet(h.term[p].to) \subseteq BB
    <3>1. h.term[p].to \in Seq(BB)
      BY <1>1, Parts
    <3> QED
      BY <3>1 DEF ToSet
  <2>3. ToSet(h.term[p].to) = {b} /\ \A x \in BB \ {p} : b \notin ToSet(h.term[x].to)
    <3>1. \A y \in BB : y \in ToSet(h.term[p].to) <=> y \in {b}
      BY <1>1, <2>1
    <3>2. \A x \in BB : b \in ToSet(h.term[x].to) <=> x \in {p}
      BY <1>1, <2>6
    <3> QED
      BY <2>2, <3>1, <3>2
  <2>4. CASE b = entry
    BY <2>3, <2>4 DEF KeepsPaths, Good, Unentered
  <2>5. CASE b # entry
    <3>1. Merged(h, k, b, p)
      BY <1>1, <1>2, <1>3, <2>3, <2>5 DEF Merged, IsMerged
    <3> QED
      BY <3>1, PathsMerged
  <2> QED
    BY <2>4, <2>5
<1>4. ASSUME Sound(h) PROVE Sound(k)
  <2>1. \A x, y \in BB : /\ C(h, x, y) = T(h, x, y) /\ P(h, x, y) = T(h, x, y) /\ T(h, x, y) \in Nat
                         /\ (T(h, x, b) # 0 => x = p) /\ (T(h, p, y) # 0 => y = b)
    <3> TAKE x, y \in BB
    <3>1. C(h, x, y) = T(h, x, y) /\ P(h, x, b) = T(h, x, b) /\ P(h, x, y) = T(h, x, y) /\ C(h, p, y) = T(h, p, y)
      BY <1>4 DEF Sound, Agree
    <3>2. P(h, x, b) # 0 => x = p
      BY <1>1, CountsAre
    <3>3. C(h, p, y) # 0 => y = b
      BY <1>1, CountsAre
    <3> QED
      BY <1>1, <3>1, <3>2, <3>3, CountsAre
  <2>2. \A x, y \in BB : T(k, x, y) = IF x = b THEN 0 ELSE IF x = p THEN T(h, b, y) ELSE T(h, x, y)
    BY <1>2, NoTermIs, CountEmpty DEF T, IsMerged
  <2>3. \A x, y \in BB : C(k, x, y) = IF x = b THEN 0 ELSE IF x = p THEN C(h, b, y) ELSE C(h, x, y)
    BY <1>2, CountEmpty DEF C, IsMerged
  <2>4. ASSUME NEW x \in BB, NEW y \in BB
        PROVE  P(k, x, y) = IF y = b \/ x = b THEN 0 ELSE IF x = p THEN P(h, b, y) ELSE P(h, x, y)
    <3>1. CASE y = b
      BY <1>2, <3>1, CountEmpty DEF P, IsMerged
    <3>2. CASE y # b /\ C(h, b, y) = 0
      <4>1. ~Contains(h.children[b], y)
        BY <1>1, <3>2, Parts, CountZero, CountsAre
      <4>2. P(k, x, y) = P(h, x, y)
        BY <1>2, <3>2, <4>1 DEF P, IsMerged
      <4>3. P(h, b, y) = 0 /\ P(h, p, y) = 0
        BY <2>1, <3>2
      <4> QED
        BY <3>2, <4>2, <4>3
    <3>3. CASE y # b /\ C(h, b, y) # 0
      <4>1. Contains(h.children[b], y)
        BY <1>1, <3>3, Parts, CountZero, CountsAre
      <4>2. k.parents[y] = ReplaceAll(h.parents[y], b, p)
        BY <1>2, <3>3, <4>1 DEF IsMerged
      <4>3. h.parents[y] \in Seq(BB)
        BY <1>1, Parts
      <4>4. P(k, x, y) = IF x = p THEN P(h, b, y) + P(h, p, y) ELSE IF x = b THEN 0 ELSE P(h, x, y)
        BY <1>1, <4>2, <4>3, CountReplaceAll DEF P
      <4>5. P(h, p, y) = 0 /\ P(h, b, y) \in Nat
        BY <2>1, <3>3
      <4> QED
        BY <1>1, <3>3, <4>4, <4>5
    <3> QED
      BY <3>1, <3>2, <3>3
  <2>5. ASSUME NEW x \in BB, NEW y \in BB PROVE C(k, x, y) = T(k, x, y) /\ P(k, x, y) = T(k, x, y)
    <3>1. /\ T(k, x, y) = (IF x = b THEN 0 ELSE IF x = p THEN T(h, b, y) ELSE T(h, x, y))
          /\ C(k, x, y) = (IF x = b THEN 0 ELSE IF x = p THEN C(h, b, y) ELSE C(h, x, y))
          /\ P(k, x, y) = (IF y = b \/ x = b THEN 0 ELSE IF x = p THEN P(h, b, y) ELSE P(h, x, y))
      BY <2>2, <2>3, <2>4
    <3>2. C(h, b, y) = T(h, b, y) /\ P(h, b, y) = T(h, b, y) /\ C(h, x, y) = T(h, x, y) /\ P(h, x, y) = T(h, x, y)
      BY <2>1
    <3>3. y = b => T(h, b, y) = 0 /\ (x # p => T(h, x, y) = 0)
      BY <1>1, <2>1
    <3> QED
      BY <3>1, <3>2, <3>3
  <2>6. Unlisted(k)
    <3>1. T(h, p, b) # 0
      <4>1. C(h, p, b) # 0
        BY <1>1, CountsAre
      <4> QED
        BY <2>1, <4>1
    <3>2. h.term[p] # NoTerm
      <4>1. h.term[p].to # <<>>
        BY <3>1, CountEmpty DEF T
      <4> QED
        BY <4>1, NoTermIs
    <3> QED
      BY <1>2, <1>4, <3>2 DEF Sound, Unlisted, IsMerged
  <2> QED
    BY <2>5, <2>6 DEF Sound, Agree
<1> QED
  BY <1>2, <1>3, <1>4, <1>5 DEF Follow, IsMerged, k

\* One turn of pack_basic_blocks.
LEMMA PackFollows ==
    ASSUME NEW h, Typed(h), NEW b \in BB
    PROVE  Follow(h, pack_one(h, b))
<1> DEFINE t == h.term[b]
           known == Len(t.to) = 1 \/ t.cond \in {"true", "false"}
           target == IF Len(t.to) = 1 THEN t.to[1] ELSE Chosen(t)
           k == rewrite_parents(h, b, target)
           tried == IF JustABranch(h, b) /\ known THEN k ELSE [h |-> h, done |-> FALSE]
<1>1. pack_one(h, b) = IF tried.done THEN kill_bb(tried.h, b)
                       ELSE IF \E p \in BB : MergesInto(tried.h, b, p)
                       THEN merge(tried.h, b, CHOOSE p \in BB : MergesInto(tried.h, b, p))
                       ELSE tried.h
  BY DEF pack_one
<1>2. tried \in [h: Graph, done: BOOLEAN] /\ Follow(h, tried.h)
      /\ (tried.done /\ Sound(h) => \A p \in BB : b \notin ToSet(tried.h.term[p].to))
      /\ (tried.done => tried.h.effects[b] = <<>>)
  <2>1. CASE JustABranch(h, b) /\ known
    <3>1. h \in Graph /\ t \in Term /\ t.to \in Seq(BB) /\ Formed(t) /\ t.op = "br"
      BY <2>1, Parts DEF Typed, JustABranch
    <3>2. target \in BB
      <4>1. Len(t.to) # 1 => Len(t.to) = 2
        BY <3>1 DEF Formed
      <4> QED
        BY <3>1, <4>1 DEF Chosen
    <3>4. Passes(h, b, target)
      <4>1. h.effects[b] = <<>>
        BY <2>1 DEF JustABranch
      <4>2. ASSUME NEW v \in BOOLEAN, Len(t.to) = 1 PROVE target \in Ways(h, b, v)
        <5>1. t.cond = "none"
          BY <3>1, <4>2 DEF Formed
        <5> QED
          BY <3>1, <4>2, <5>1 DEF Ways, ToSet
      <4>3. ASSUME NEW v \in BOOLEAN, Len(t.to) # 1 PROVE target \in Ways(h, b, v)
        <5>1. t.cond \in {"true", "false"}
          BY <2>1, <4>3
        <5>2. Ways(h, b, v) = {t.to[IF t.cond = "true" THEN 1 ELSE 2]}
          BY <3>1, <5>1 DEF Ways
        <5> QED
          BY <4>3, <5>2 DEF Chosen
      <4> QED
        BY <3>2, <4>1, <4>2, <4>3 DEF Passes
    <3> HIDE DEF target
    <3>3. /\ k \in [h: Graph, done: BOOLEAN] /\ Follow(h, k.h) /\ Passes(k.h, b, target)
          /\ k.done /\ Sound(h) => \A p \in BB : b \notin ToSet(k.h.term[p].to)
      BY <3>2, <3>4, RewriteParentsIs
    <3> QED
      BY <2>1, <3>3 DEF Passes
  <2>2. CASE ~(JustABranch(h, b) /\ known)
    BY <2>2, FollowItself DEF Typed
  <2> QED
    BY <2>1, <2>2
<1> HIDE DEF tried
<1>3. Typed(tried.h)
  BY <1>2 DEF Follow
<1>4. CASE tried.done
  <2>1. /\ Typed(kill_bb(tried.h, b)) /\ kill_bb(tried.h, b).bbs = tried.h.bbs
        /\ kill_bb(tried.h, b).asserts = tried.h.asserts
        /\ Sound(tried.h) /\ (\A p \in BB \ {b} : b \notin ToSet(tried.h.term[p].to)) => Sound(kill_bb(tried.h, b))
        /\ b # entry /\ (\A p \in BB \ {b} : b \notin ToSet(tried.h.term[p].to)) => KeepsPaths(tried.h, kill_bb(tried.h, b))
    BY <1>3, KillKeeps
  <2>2. b = entry => KeepsPaths(tried.h, kill_bb(tried.h, b))
    BY <1>2, <1>4 DEF KeepsPaths, Good, Starts
  <2> DEFINE l == kill_bb(tried.h, b)
  <2> HIDE DEF l
  <2>3. /\ Typed(l) /\ l.bbs = h.bbs /\ (l.asserts => h.asserts)
        /\ Sound(h) => Sound(l) /\ KeepsPaths(tried.h, l) /\ KeepsPaths(h, tried.h)
    BY <1>2, <1>4, <2>1, <2>2 DEF Follow, l
  <2>4. Follow(h, l)
    BY <2>3, PathsAll DEF Follow
  <2> QED
    BY <1>1, <1>4, <2>4 DEF l
<1>5. CASE ~tried.done /\ \E p \in BB : MergesInto(tried.h, b, p)
  <2> DEFINE p == CHOOSE p \in BB : MergesInto(tried.h, b, p)
  <2>1. p \in BB /\ MergesInto(tried.h, b, p)
    BY <1>5
  <2> HIDE DEF p
  <2>2. Follow(tried.h, merge(tried.h, b, p))
    BY <1>3, <2>1, MergeFollows
  <2>3. pack_one(h, b) = merge(tried.h, b, p)
    BY <1>1, <1>5 DEF p
  <2> QED
    BY <1>2, <2>2, <2>3, FollowAll
<1>6. CASE ~tried.done /\ ~\E p \in BB : MergesInto(tried.h, b, p)
  BY <1>1, <1>2, <1>6
<1> QED
  BY <1>4, <1>5, <1>6

-----------------------------------------------------------------------------
\* insert_branch.

\* One child of b less, and b once less among its parents.
Drop(h, b, c) == remove_parent([h EXCEPT !.children[b] = RemoveFirst(@, c)], c, b)

\* How often x is a parent of y, once the edge from b to c is gone, if there was one.
Less(h, b, c, x, y) == C(h, x, y) - IF x = b /\ y = c /\ C(h, b, c) # 0 THEN 1 ELSE 0

IsLess(h, k, b, c) ==
    /\ k \in Graph /\ k.bbs = h.bbs /\ k.term = h.term /\ k.effects = h.effects
    /\ k.asserts <=> h.asserts /\ b \in ToSet(h.parents[c])
    /\ Lists(h) =>
          \A x, y \in BB : C(k, x, y) = Less(h, b, c, x, y) /\ P(k, x, y) = Less(h, b, c, x, y)

\* The lists without the edge.
LEMMA LessIs ==
    ASSUME NEW h \in Graph, NEW b \in BB, NEW c \in BB
    PROVE  IsLess(h, RemoveParent1([h EXCEPT !.children[b] = RemoveFirst(@, c)], c, b), b, c)
<1> DEFINE s == RemoveFirst(h.children[b], c)
           m == [h EXCEPT !.children[b] = s]
           k == RemoveParent1(m, c, b)
<1>1. h.children \in [BB -> Seq(BB)] /\ h.children[b] \in Seq(BB) /\ s \in Seq(BB) /\ h.asserts \in BOOLEAN
  BY Parts, CountRemoveFirst
<1>2. /\ \A y : c \in ToSet(h.children[b]) => Count(s, y) = Count(h.children[b], y) - IF c = y THEN 1 ELSE 0
      /\ c \notin ToSet(h.children[b]) => s = h.children[b]
  BY <1>1, CountRemoveFirst
<1> HIDE DEF s
<1>3. /\ m \in Graph /\ m.term = h.term /\ m.parents = h.parents /\ m.bbs = h.bbs /\ m.asserts = h.asserts
      /\ m.effects = h.effects
      /\ m.children = [h.children EXCEPT ![b] = s]
  BY <1>1 DEF Graph
<1>4. [h EXCEPT !.children[b] = RemoveFirst(@, c)] = m
  BY DEF s
<1> HIDE DEF m
<1>5. IsRemoveParent1(m, k, c, b)
  BY <1>3, RemoveParent1Is
<1> HIDE DEF k
<1>6. ASSUME Lists(h), b \in ToSet(h.parents[c]), NEW x \in BB, NEW y \in BB
      PROVE  C(k, x, y) = Less(h, b, c, x, y) /\ P(k, x, y) = Less(h, b, c, x, y)
  <2>1. C(h, b, c) # 0
    BY <1>6, CountsAre DEF Lists
  <2>2. c \in ToSet(h.children[b])
    BY <2>1, CountsAre
  <2>3. P(k, x, y) = P(m, x, y) - IF x = b /\ y = c THEN 1 ELSE 0
    BY <1>3, <1>5, <1>6 DEF IsRemoveParent1
  <2>4. P(m, x, y) = P(h, x, y) /\ P(h, x, y) = C(h, x, y)
    BY <1>3, <1>6 DEF P, Lists
  <2>5. C(k, x, y) = Count(m.children[x], y)
    BY <1>5 DEF C, IsRemoveParent1
  <2>6. C(h, x, y) \in Nat
    BY CountsAre
  <2>9. Less(h, b, c, x, y) = C(h, x, y) - IF x = b /\ y = c THEN 1 ELSE 0
    BY <2>1 DEF Less
  <2>7. CASE x = b
    <3>1. C(k, x, y) = C(h, x, y) - IF c = y THEN 1 ELSE 0
      BY <1>1, <1>2, <1>3, <2>2, <2>5, <2>7 DEF C
    <3> QED
      BY <2>3, <2>4, <2>7, <2>9, <3>1
  <2>8. CASE x # b
    <3>1. C(k, x, y) = C(h, x, y)
      BY <1>1, <1>3, <2>5, <2>8 DEF C
    <3> QED
      BY <2>3, <2>4, <2>6, <2>8, <2>9, <3>1
  <2> QED
    BY <2>7, <2>8
<1>7. ASSUME Lists(h), b \notin ToSet(h.parents[c]), NEW x \in BB, NEW y \in BB
      PROVE  C(k, x, y) = Less(h, b, c, x, y) /\ P(k, x, y) = Less(h, b, c, x, y)
  <2>1. C(h, b, c) = 0
    BY <1>7, CountsAre DEF Lists
  <2>2. c \notin ToSet(h.children[b])
    BY <2>1, CountsAre
  <2>3. P(k, x, y) = P(m, x, y)
    BY <1>3, <1>5, <1>7 DEF IsRemoveParent1
  <2>4. P(m, x, y) = P(h, x, y) /\ P(h, x, y) = C(h, x, y) /\ C(h, x, y) \in Nat
    BY <1>3, <1>7, CountsAre DEF P, Lists
  <2>5. k.children[x] = h.children[x]
    BY <1>1, <1>2, <1>3, <1>5, <2>2 DEF IsRemoveParent1
  <2>6. C(k, x, y) = C(h, x, y)
    BY <2>5 DEF C
  <2> QED
    BY <2>1, <2>3, <2>4, <2>6 DEF Less
<1> QED
  BY <1>3, <1>4, <1>5, <1>6, <1>7 DEF IsLess, IsRemoveParent1, k

\* The edge is gone, and nothing else.
JustLess(h, k, b, c) ==
    /\ k.term = h.term /\ k.effects = h.effects
    /\ \A x, y \in BB : C(k, x, y) = Less(h, b, c, x, y) /\ P(k, x, y) = Less(h, b, c, x, y)

\* It was the last to c, which has been killed.
LastLess(h, k, b, c) ==
    /\ \A x \in BB : k.term[x] = IF x = c THEN NoTerm ELSE h.term[x]
    /\ \A x \in BB : k.effects[x] = IF x = c THEN <<>> ELSE h.effects[x]
    /\ \A x \in BB : Less(h, b, c, x, c) = 0
    /\ \A x, y \in BB : /\ C(k, x, y) = IF x = c \/ y = c THEN 0 ELSE Less(h, b, c, x, y)
                        /\ P(k, x, y) = IF x = c \/ y = c THEN 0 ELSE Less(h, b, c, x, y)

IsDrop(h, k, b, c) ==
    /\ k \in Graph /\ k.bbs = h.bbs
    /\ k.asserts <=> h.asserts /\ b \in ToSet(h.parents[c])
    /\ \A x \in BB : k.term[x] \in {h.term[x], NoTerm}
    /\ Lists(h) => JustLess(h, k, b, c) \/ LastLess(h, k, b, c)

\* A child without parents is killed.
LEMMA DropIs ==
    ASSUME NEW h \in Graph, NEW b \in BB, NEW c \in BB
    PROVE  IsDrop(h, Drop(h, b, c), b, c)
<1> DEFINE m == RemoveParent1([h EXCEPT !.children[b] = RemoveFirst(@, c)], c, b)
           k == Drop(h, b, c)
<1>1. IsLess(h, m, b, c)
  BY LessIs
<1>2. k = IF m.parents[c] = <<>> THEN kill_bb(m, c) ELSE m
  BY DEF Drop, remove_parent
<1> HIDE DEF m, k
<1>3. m \in Graph /\ m.bbs = h.bbs /\ m.term = h.term /\ m.effects = h.effects /\ (m.asserts <=> h.asserts /\ b \in ToSet(h.parents[c]))
  BY <1>1 DEF IsLess
<1>4. CASE m.parents[c] # <<>>
  <2>1. k = m
    BY <1>2, <1>4
  <2> QED
    BY <1>1, <1>3, <2>1 DEF IsLess, IsDrop, JustLess, k
<1>5. CASE m.parents[c] = <<>>
  <2>1. k = kill_bb(m, c)
    BY <1>2, <1>5
  <2>2. IsKilled(m, k, c)
    BY <1>3, <2>1, KillIs
  <2>3. ASSUME Lists(h)
        PROVE  LastLess(h, k, b, c)
    <3>1. \A x, y \in BB : C(m, x, y) = Less(h, b, c, x, y) /\ P(m, x, y) = Less(h, b, c, x, y)
      BY <1>1, <2>3 DEF IsLess
    <3>2. Lists(m)
      BY <3>1 DEF Lists
    <3>3. \A x \in BB : P(m, x, c) = 0
      BY <1>5, CountEmpty DEF P
    <3>4. \A x \in BB : Less(h, b, c, x, c) = 0
      BY <3>1, <3>3
    <3> QED
      BY <1>3, <2>2, <3>1, <3>2, <3>4 DEF IsKilled, LastLess
  <2>4. \A x \in BB : k.term[x] \in {h.term[x], NoTerm}
    BY <1>3, <2>2 DEF IsKilled
  <2> QED
    BY <1>3, <2>2, <2>3, <2>4 DEF IsKilled, IsDrop, k
<1> QED
  BY <1>4, <1>5

\* A list of one.
LEMMA CountOne ==
    ASSUME NEW K, NEW y \in K, NEW x
    PROVE  Count(<<y>>, x) = IF x = y THEN 1 ELSE 0
<1> DEFINE e == <<>>
<1>1. e \in Seq(K)
  OBVIOUS
<1>2. Append(e, y) = <<y>> /\ Count(e, x) = 0
  BY CountEmpty
<1> HIDE DEF e
<1>3. Count(Append(e, y), x) = Count(e, x) + IF y = x THEN 1 ELSE 0
  BY <1>1, CountAppend
<1> QED
  BY <1>2, <1>3

\* A branch to one target.
LEMMA GotoIs ==
    ASSUME NEW b \in BB
    PROVE  Goto(b) \in Term /\ Formed(Goto(b)) /\ Goto(b).to = <<b>> /\ Goto(b) # NoTerm
BY DEF Goto, NoTerm, Term, Formed, Conds

\* How many y are left after the first n elements of s.
Left(s, y, n) == Cardinality({i \in Where(s, y) : n < i})

LeftIs(s, y) ==
    /\ Left(s, y, 0) = Count(s, y)
    /\ Left(s, y, Len(s)) = 0
    /\ \A n \in 1 .. Len(s) : /\ Left(s, y, n) \in Nat
                              /\ Left(s, y, n - 1) = Left(s, y, n) + IF s[n] = y THEN 1 ELSE 0

\* All at first, none in the end, and one less where one is.
LEMMA Lefts ==
    ASSUME NEW K, NEW s \in Seq(K), NEW y
    PROVE  LeftIs(s, y)
<1> DEFINE Lf(n) == {i \in Where(s, y) : n < i}
<1>1. IsFiniteSet(Where(s, y)) /\ Count(s, y) = Cardinality(Where(s, y))
  BY WhereFinite
<1>2. \A i : i \in Where(s, y) <=> i \in 1 .. Len(s) /\ s[i] = y
  BY DEF Where
<1>3. Len(s) \in Nat
  OBVIOUS
<1>4. Lf(0) = Where(s, y) /\ Lf(Len(s)) = {}
  <2>1. \A i \in Where(s, y) : 0 < i /\ ~(Len(s) < i)
    BY <1>2, <1>3
  <2> QED
    BY <2>1
<1>5. ASSUME NEW n \in 1 .. Len(s)
      PROVE  Left(s, y, n) \in Nat /\ Left(s, y, n - 1) = Left(s, y, n) + IF s[n] = y THEN 1 ELSE 0
  <2>1. Lf(n) \in SUBSET Where(s, y)
    OBVIOUS
  <2>2. IsFiniteSet(Lf(n))
    <3> HIDE DEF Lf
    <3> QED
      BY <1>1, <2>1, FS_Subset
  <2>3. n \notin Lf(n)
    OBVIOUS
  <2>4. \A i : i \in Lf(n - 1) <=> i \in Lf(n) \/ (i = n /\ s[n] = y)
    <3> TAKE i
    <3>1. i \in Where(s, y) => (n - 1 < i <=> n < i \/ i = n)
      BY <1>2, <1>3
    <3> QED
      BY <1>2, <3>1
  <2>5. Lf(n - 1) = IF s[n] = y THEN Lf(n) \cup {n} ELSE Lf(n)
    <3>1. s[n] = y => Lf(n - 1) = Lf(n) \cup {n}
      <4> HIDE DEF Lf
      <4> QED
        BY <2>4
    <3>2. s[n] # y => Lf(n - 1) = Lf(n)
      <4> HIDE DEF Lf
      <4> QED
        BY <2>4
    <3> QED
      BY <3>1, <3>2
  <2>6. Left(s, y, n) = Cardinality(Lf(n)) /\ Left(s, y, n - 1) = Cardinality(Lf(n - 1))
    BY DEF Left
  <2> HIDE DEF Lf
  <2>7. Cardinality(Lf(n)) \in Nat
    BY <2>2, FS_CardinalityType
  <2>8. Cardinality(Lf(n) \cup {n}) = Cardinality(Lf(n)) + 1
    BY <2>2, <2>3, FS_AddElement
  <2> QED
    BY <2>5, <2>6, <2>7, <2>8
<1>6. Left(s, y, 0) = Cardinality(Lf(0)) /\ Left(s, y, Len(s)) = Cardinality(Lf(Len(s)))
  BY DEF Left
<1> HIDE DEF Lf
<1>7. Cardinality({}) = 0
  BY FS_EmptySet
<1> QED
  BY <1>1, <1>4, <1>5, <1>6, <1>7 DEF LeftIs

\* One turn of the loop of insert_branch.
Walk(k, b, target, child) ==
    IF child = target /\ ~k.found THEN [k EXCEPT !.found = TRUE]
    ELSE [k EXCEPT !.h = Drop(k.h, b, child)]

\* The branch of b goes to target, its children are what is left of s, and
\* target when it has been found.
Half(h, found, b, target, s, n) ==
    /\ Lists(h) /\ Unlisted(h) /\ h.term[b] = Goto(target)
    /\ \A x \in BB \ {b}, y \in BB : C(h, x, y) = T(h, x, y)
    /\ \A y \in BB : C(h, b, y) = Left(s, y, n) + IF y = target /\ found THEN 1 ELSE 0
    /\ found \/ Left(s, target, n) # 0

\* Without parents b has been killed itself.
Gone(h, b) == Sound(h) /\ h.term[b] = NoTerm

Halfway(k, b, target, s, n) == Half(k.h, k.found, b, target, s, n) \/ Gone(k.h, b)

\* What has been killed on the way from j to h is nothing that any block of j goes to.
Rids(j, h) == \E K : Rid(j, h, K)

\* Another block is killed.
LEMMA RidsOneMore ==
    ASSUME NEW j, NEW h, Rids(j, h), NEW k, Typed(k), NEW c \in BB, c # entry,
           \A x \in BB : k.term[x] = IF x = c THEN NoTerm ELSE h.term[x],
           \A x \in BB : k.effects[x] = IF x = c THEN <<>> ELSE h.effects[x],
           \A x \in BB \ {c} : c \notin ToSet(h.term[x].to)
    PROVE  Rids(j, k)
<1>1. PICK K : Rid(j, h, K)
  BY DEF Rids
<1> DEFINE L == K \cup {c}
<1>2. \A x \in BB \ L : ToSet(j.term[x].to) \cap L = {}
  <2> TAKE x \in BB \ L
  <2>1. ToSet(j.term[x].to) \cap K = {} /\ h.term[x] = j.term[x]
    BY <1>1 DEF Rid
  <2>2. c \notin ToSet(h.term[x].to)
    OBVIOUS
  <2> QED
    BY <2>1, <2>2
<1>3. \A x \in BB : /\ k.term[x] = IF x \in L THEN NoTerm ELSE j.term[x]
                   /\ k.effects[x] = IF x \in L THEN <<>> ELSE j.effects[x]
  BY <1>1 DEF Rid
<1>4. entry \notin L
  BY <1>1 DEF Rid
<1> HIDE DEF L
<1>5. Rid(j, k, L)
  BY <1>2, <1>3, <1>4 DEF Rid
<1> QED
  BY <1>5 DEF Rids

\* No other block is killed.
LEMMA RidsSame ==
    ASSUME NEW j, NEW h, Rids(j, h), NEW k, Typed(k), k.term = h.term, k.effects = h.effects
    PROVE  Rids(j, k)
BY DEF Rids, Rid

IsWalk(j, k, l, b, target, s, n) ==
    /\ l \in [h: Graph, found: BOOLEAN] /\ Typed(l.h) /\ l.h.bbs = k.h.bbs /\ (l.h.asserts => k.h.asserts)
    /\ \A x \in BB : l.h.term[x] \in {k.h.term[x], NoTerm}
    /\ Halfway(k, b, target, s, n - 1) => Halfway(l, b, target, s, n)
    /\ Halfway(k, b, target, s, n - 1) /\ s[n] # entry /\ Rids(j, k.h) => Rids(j, l.h)

\* The walk over the children goes on.
LEMMA WalkIs ==
    ASSUME NEW j, NEW k \in [h: Graph, found: BOOLEAN], Typed(k.h), NEW b \in BB, NEW target \in BB,
           NEW s \in Seq(BB), NEW n \in 1 .. Len(s)
    PROVE  IsWalk(j, k, Walk(k, b, target, s[n]), b, target, s, n)
<1> DEFINE c == s[n]
           l == Walk(k, b, target, c)
           d == Drop(k.h, b, c)
<1>1. c \in BB /\ k.h \in Graph /\ k.found \in BOOLEAN
  OBVIOUS
<1>2. \A y : Left(s, y, n) \in Nat /\ Left(s, y, n - 1) = Left(s, y, n) + IF c = y THEN 1 ELSE 0
  BY Lefts DEF LeftIs
<1>3. CASE c = target /\ ~k.found
  <2>1. l = [k EXCEPT !.found = TRUE]
    BY <1>3 DEF Walk
  <2>2. l \in [h: Graph, found: BOOLEAN] /\ l.h = k.h /\ l.found
    BY <2>1
  <2> HIDE DEF l, c
  <2>3. ASSUME Half(k.h, k.found, b, target, s, n - 1) PROVE Half(l.h, l.found, b, target, s, n)
    BY <1>1, <1>2, <1>3, <2>2, <2>3 DEF Half
  <2> QED
    BY <2>2, <2>3 DEF IsWalk, Halfway, l, c
<1>4. CASE ~(c = target /\ ~k.found)
  <2>1. l = [k EXCEPT !.h = d]
    BY <1>4 DEF Walk
  <2> HIDE DEF c
  <2>2. IsDrop(k.h, d, b, c)
    BY <1>1, DropIs
  <2> HIDE DEF d
  <2>3. d \in Graph /\ d.bbs = k.h.bbs /\ (d.asserts <=> k.h.asserts /\ b \in ToSet(k.h.parents[c]))
    BY <2>2 DEF IsDrop
  <2>4. l \in [h: Graph, found: BOOLEAN] /\ l.h = d /\ l.found = k.found
    BY <2>1, <2>3
  <2> HIDE DEF l
  <2>5. Typed(d)
    BY <2>2, <2>3, NoTermIs DEF IsDrop, Typed
  <2>10. \A x, y \in BB : C(k.h, x, y) \in Nat /\ T(k.h, x, y) \in Nat /\ (T(k.h, x, y) = 0 <=> y \notin ToSet(k.h.term[x].to))
    BY <1>1, CountsAre
  <2>6. ASSUME Gone(k.h, b)
        PROVE  /\ Gone(d, b) /\ Lists(k.h)
               /\ LastLess(k.h, d, b, c) => \A x \in BB \ {c} : c \notin ToSet(k.h.term[x].to)
    <3>1. \A x, y \in BB : C(k.h, x, y) = T(k.h, x, y) /\ P(k.h, x, y) = T(k.h, x, y)
      BY <2>6 DEF Gone, Sound, Agree
    <3>2. T(k.h, b, c) = 0
      BY <2>6, NoTermIs, CountEmpty DEF Gone, T
    <3>3. \A x, y \in BB : Less(k.h, b, c, x, y) = T(k.h, x, y)
      BY <1>1, <2>10, <3>1, <3>2 DEF Less
    <3>4. Lists(k.h)
      BY <3>1 DEF Lists
    <3>5. CASE JustLess(k.h, d, b, c)
      <4>1. Agree(d)
        BY <3>3, <3>5 DEF JustLess, Agree, T
      <4>2. Unlisted(d) /\ d.term[b] = NoTerm
        BY <2>3, <2>6, <3>5 DEF JustLess, Gone, Sound, Unlisted
      <4>3. JustLess(k.h, d, b, c) /\ LastLess(k.h, d, b, c) => \A x \in BB \ {c} : c \notin ToSet(k.h.term[x].to)
        BY <1>1, <2>10, <3>3 DEF LastLess
      <4> QED
        BY <3>4, <3>5, <4>1, <4>2, <4>3 DEF Gone, Sound
    <3>6. CASE LastLess(k.h, d, b, c)
      <4>1. \A x \in BB : T(k.h, x, c) = 0
        BY <1>1, <3>3, <3>6 DEF LastLess
      <4>2. ASSUME NEW x \in BB, NEW y \in BB PROVE C(d, x, y) = T(d, x, y) /\ P(d, x, y) = T(d, x, y)
        <5>1. /\ C(d, x, y) = IF x = c \/ y = c THEN 0 ELSE Less(k.h, b, c, x, y)
              /\ P(d, x, y) = IF x = c \/ y = c THEN 0 ELSE Less(k.h, b, c, x, y)
          BY <3>6 DEF LastLess
        <5>2. CASE x = c
          <6>1. T(d, x, y) = 0
            BY <3>6, <5>2, NoTermIs, CountEmpty DEF LastLess, T
          <6> QED
            BY <5>1, <5>2, <6>1
        <5>3. CASE x # c
          <6>1. T(d, x, y) = T(k.h, x, y)
            BY <3>6, <5>3 DEF LastLess, T
          <6> QED
            BY <3>3, <4>1, <5>1, <5>3, <6>1
        <5> QED
          BY <5>2, <5>3
      <4>3. Unlisted(d) /\ d.term[b] = NoTerm
        BY <2>3, <2>6, <3>6 DEF LastLess, Gone, Sound, Unlisted
      <4>4. \A x \in BB \ {c} : c \notin ToSet(k.h.term[x].to)
        BY <1>1, <2>10, <4>1
      <4> QED
        BY <3>4, <4>2, <4>3, <4>4 DEF Gone, Sound, Agree
    <3> QED
      BY <2>2, <3>4, <3>5, <3>6 DEF IsDrop
  <2>7. ASSUME Half(k.h, k.found, b, target, s, n - 1)
        PROVE  /\ Half(d, k.found, b, target, s, n) \/ Gone(d, b)
               /\ Lists(k.h)
               /\ LastLess(k.h, d, b, c) => \A x \in BB \ {c} : c \notin ToSet(k.h.term[x].to)
    <3>1. Lists(k.h)
      BY <2>7 DEF Half
    <3>7. C(k.h, b, c) # 0
      <4>1. C(k.h, b, c) = Left(s, c, n - 1) + IF c = target /\ k.found THEN 1 ELSE 0
        BY <1>1, <2>7 DEF Half
      <4> QED
        BY <1>2, <4>1
    <3>2. \A x \in BB \ {b}, y \in BB : C(k.h, x, y) = T(k.h, x, y) /\ Less(k.h, b, c, x, y) = C(k.h, x, y)
      BY <2>7, <2>10 DEF Half, Less
    <3>3. \A y \in BB : Less(k.h, b, c, b, y) = Left(s, y, n) + IF y = target /\ k.found THEN 1 ELSE 0
      <4> TAKE y \in BB
      <4>1. C(k.h, b, y) = Left(s, y, n - 1) + IF y = target /\ k.found THEN 1 ELSE 0
        BY <2>7 DEF Half
      <4>2. /\ Left(s, y, n) \in Nat
            /\ Left(s, y, n - 1) = Left(s, y, n) + IF c = y THEN 1 ELSE 0
        BY <1>2
      <4> QED
        BY <3>7, <4>1, <4>2 DEF Less
    <3>4. k.found \/ Left(s, target, n) # 0
      BY <1>2, <1>4, <2>7 DEF Half
    <3>8. ASSUME LastLess(k.h, d, b, c), NEW x \in BB \ {c} PROVE c \notin ToSet(k.h.term[x].to)
      <4>1. CASE x # b
        <5>1. T(k.h, x, c) = 0
          BY <1>1, <3>2, <3>8, <4>1 DEF LastLess
        <5> QED
          BY <1>1, <2>10, <5>1
      <4>2. CASE x = b
        <5>1. Less(k.h, b, c, b, c) = 0
          BY <3>8 DEF LastLess
        <5>2. c # target
          BY <1>1, <1>2, <3>3, <3>4, <5>1
        <5>3. ToSet(k.h.term[b].to) = {target}
          <6>1. ToSet(<<target>>) = {target}
            BY DEF ToSet
          <6> QED
            BY <2>7, <6>1, GotoIs DEF Half
        <5> QED
          BY <4>2, <5>2, <5>3
      <4> QED
        BY <4>1, <4>2
    <3>5. ASSUME JustLess(k.h, d, b, c) PROVE Half(d, k.found, b, target, s, n)
      <4>1. Lists(d)
        BY <3>5 DEF JustLess, Lists
      <4>2. Unlisted(d) /\ d.term[b] = Goto(target)
        BY <2>3, <2>7, <3>5 DEF JustLess, Half, Unlisted
      <4>3. \A x \in BB \ {b}, y \in BB : C(d, x, y) = T(d, x, y)
        BY <3>2, <3>5 DEF JustLess, T
      <4>4. \A y \in BB : C(d, b, y) = Left(s, y, n) + IF y = target /\ k.found THEN 1 ELSE 0
        BY <3>3, <3>5 DEF JustLess
      <4> QED
        BY <3>4, <4>1, <4>2, <4>3, <4>4 DEF Half
    <3>6. ASSUME LastLess(k.h, d, b, c) PROVE Half(d, k.found, b, target, s, n) \/ Gone(d, b)
      <4>1. Lists(d)
        BY <3>6 DEF LastLess, Lists
      <4>2. Unlisted(d)
        BY <2>3, <2>7, <3>6 DEF LastLess, Half, Unlisted
      <4>3. \A x \in BB \ {b}, y \in BB : C(d, x, y) = T(d, x, y)
        <5> TAKE x \in BB \ {b}, y \in BB
        <5>1. C(d, x, y) = IF x = c \/ y = c THEN 0 ELSE Less(k.h, b, c, x, y)
          BY <3>6 DEF LastLess
        <5>2. CASE x = c
          <6>1. T(d, x, y) = 0
            BY <3>6, <5>2, NoTermIs, CountEmpty DEF LastLess, T
          <6> QED
            BY <5>1, <5>2, <6>1
        <5>3. CASE x # c
          <6>1. T(d, x, y) = T(k.h, x, y)
            BY <3>6, <5>3 DEF LastLess, T
          <6>2. y = c => Less(k.h, b, c, x, y) = 0
            BY <3>6 DEF LastLess
          <6> QED
            BY <3>2, <5>1, <5>3, <6>1, <6>2
        <5> QED
          BY <5>2, <5>3
      <4>4. CASE c = b
        <5>1. d.term[b] = NoTerm
          BY <3>6, <4>4 DEF LastLess
        <5>2. \A y \in BB : C(d, b, y) = 0 /\ T(d, b, y) = 0
          BY <3>6, <4>4, <5>1, NoTermIs, CountEmpty DEF LastLess, T
        <5>3. Agree(d)
          BY <4>1, <4>3, <5>2 DEF Lists, Agree
        <5> QED
          BY <4>2, <5>1, <5>3 DEF Gone, Sound
      <4>5. CASE c # b
        <5>1. d.term[b] = Goto(target)
          BY <2>7, <3>6, <4>5 DEF LastLess, Half
        <5>2. \A y \in BB : C(d, b, y) = Less(k.h, b, c, b, y)
          <6> TAKE y \in BB
          <6>1. Less(k.h, b, c, b, c) = 0
            BY <3>6 DEF LastLess
          <6>2. C(d, b, y) = IF b = c \/ y = c THEN 0 ELSE Less(k.h, b, c, b, y)
            BY <3>6 DEF LastLess
          <6> QED
            BY <4>5, <6>1, <6>2
        <5>3. \A y \in BB : C(d, b, y) = Left(s, y, n) + IF y = target /\ k.found THEN 1 ELSE 0
          BY <3>3, <5>2
        <5> QED
          BY <3>4, <4>1, <4>2, <4>3, <5>1, <5>3 DEF Half
      <4> QED
        BY <4>4, <4>5
    <3> QED
      BY <2>2, <3>1, <3>5, <3>6, <3>8 DEF IsDrop
  <2>8. ASSUME Halfway(k, b, target, s, n - 1) PROVE Halfway(l, b, target, s, n)
    BY <2>4, <2>6, <2>7, <2>8 DEF Halfway
  <2>9. ASSUME Halfway(k, b, target, s, n - 1), c # entry, Rids(j, k.h) PROVE Rids(j, d)
    <3>1. /\ Lists(k.h)
          /\ LastLess(k.h, d, b, c) => \A x \in BB \ {c} : c \notin ToSet(k.h.term[x].to)
      BY <2>6, <2>7, <2>9 DEF Halfway
    <3>2. CASE JustLess(k.h, d, b, c)
      BY <2>5, <2>9, <3>2, RidsSame DEF JustLess
    <3>3. CASE LastLess(k.h, d, b, c)
      BY <1>1, <2>5, <2>9, <3>1, <3>3, RidsOneMore DEF LastLess
    <3> QED
      BY <2>2, <3>1, <3>2, <3>3 DEF IsDrop
  <2> QED
    <3>1. \A x \in BB : d.term[x] \in {k.h.term[x], NoTerm}
      BY <2>2 DEF IsDrop
    <3> QED
      BY <2>3, <2>4, <2>5, <2>8, <2>9, <3>1 DEF IsWalk, l, c
<1> QED
  BY <1>3, <1>4

\* The branch of b ends in one goto to target.
IsGoto(h, k, b, target) ==
    /\ k \in Graph /\ k.bbs = h.bbs /\ k.asserts = h.asserts /\ k.effects = h.effects
    /\ k.children = h.children /\ k.parents = h.parents
    /\ k.term = [h.term EXCEPT ![b] = Goto(target)]

\* Only the branch has changed.
LEMMA GotoSet ==
    ASSUME NEW h \in Graph, NEW b \in BB, NEW target \in BB
    PROVE  IsGoto(h, [h EXCEPT !.term[b] = Goto(target)], b, target)
<1>1. Goto(target) \in Term
  BY GotoIs
<1> DEFINE t == Goto(target)
<1> HIDE DEF t
<1>2. IsGoto(h, [h EXCEPT !.term[b] = t], b, target)
  BY <1>1 DEF IsGoto, Graph, t
<1> QED
  BY <1>2 DEF t

\* Whatever c is b goes to target, or else no block goes on to b.
Settled(h, b, target) ==
    Sound(h) /\ Good(h) => \A v \in BOOLEAN : target \in Ways(h, b, v) \/ Avoided(h, v, b)

\* Then it may as well go to target only.
LEMMA GotoPaths ==
    ASSUME NEW h, Typed(h), Sound(h), NEW b \in BB, NEW target \in ToSet(h.term[b].to), Settled(h, b, target),
           NEW k, IsGoto(h, k, b, target), Typed(k)
    PROVE  KeepsPaths(h, k)
<1> SUFFICES ASSUME Good(h) PROVE Good(k) /\ \A v \in BOOLEAN : Preserves(h, k, v)
  BY DEF KeepsPaths
<1>1. h.term \in [BB -> Term] /\ h.term[b].to \in Seq(BB) /\ target \in BB
  <2>1. h.term \in [BB -> Term] /\ h.term[b].to \in Seq(BB)
    BY Parts DEF Typed
  <2> QED
    BY <2>1 DEF ToSet
<1>2. k.term[b] = Goto(target) /\ \A x \in BB \ {b} : k.term[x] = h.term[x]
  BY <1>1 DEF IsGoto
<1>3. Rebranches(h, k, b)
  BY <1>2 DEF IsGoto, Rebranches
<1>4. k.term[b].to = <<target>> /\ k.term[b].cond = "none"
  BY <1>2 DEF Goto
<1>5. ToSet(<<target>>) = {target}
  BY DEF ToSet
<1>6. \A v \in BOOLEAN : Ways(k, b, v) = {target}
  BY <1>4, <1>5 DEF Ways
<1>7. entry \notin ToSet(k.term[b].to)
  BY <1>4, <1>5 DEF Good, Unentered
<1>8. ASSUME NEW v \in BOOLEAN PROVE Preserves(h, k, v)
  <2>1. CASE target \in Ways(h, b, v)
    <3>1. Ways(k, b, v) \subseteq Ahead(h, v, b)
      BY <1>6, <2>1, AheadIs DEF IsAhead
    <3>2. k.term[b].to # <<>>
      BY <1>4
    <3> QED
      BY <1>3, <3>1, <3>2, PathsRebranch
  <2>2. CASE Avoided(h, v, b)
    BY <1>3, <2>2, PathsAvoided
  <2> QED
    BY <2>1, <2>2 DEF Settled
<1> QED
  BY <1>3, <1>7, <1>8, GoodRebranch

\* The branch of b becomes one to target, which it went to.
LEMMA InsertBranchFollows ==
    ASSUME NEW h, Typed(h), NEW b \in BB, NEW target \in ToSet(h.term[b].to), Settled(h, b, target)
    PROVE  /\ Follow(h, insert_branch(h, b, target))
           /\ \A x \in BB \ {b} : insert_branch(h, b, target).term[x] \in {h.term[x], NoTerm}
<1> DEFINE s == h.children[b]
           N == Len(s)
           g1 == [h EXCEPT !.term[b] = Goto(target)]
           start == [h |-> g1, found |-> FALSE]
           Ends(k) == \A x \in BB \ {b} : k.term[x] \in {h.term[x], NoTerm}
           V == {x \in [h: Graph, found: BOOLEAN] : /\ Typed(x.h) /\ x.h.bbs = h.bbs
                                                     /\ (x.h.asserts => h.asserts) /\ Ends(x.h)}
           G == [y \in Nat \X V |-> IF y[1] \in 1 .. N THEN Walk(y[2], b, target, s[y[1]]) ELSE y[2]]
           Fits(n, k) == Sound(h) => /\ Halfway(k, b, target, s, n)
                                     /\ Unentered(h) => Rids(g1, k.h)
           J == {y \in (0 .. N) \X V : Fits(y[1], y[2])}
<1>12. h \in Graph /\ s \in Seq(BB) /\ h.term \in [BB -> Term] /\ h.term[b].to \in Seq(BB) /\ target \in BB
  BY Parts DEF Typed, ToSet
<1>13. IsGoto(h, g1, b, target)
  BY <1>12, GotoSet
<1> HIDE DEF g1
<1>14. g1 \in Graph /\ Typed(g1) /\ g1.bbs = h.bbs /\ g1.asserts = h.asserts
  <2>1. \A c \in BB : Formed(g1.term[c])
    BY <1>12, <1>13, GotoIs DEF IsGoto, Typed
  <2> QED
    BY <1>13, <2>1 DEF IsGoto, Typed
<1>22. Ends(g1)
  BY <1>12, <1>13 DEF IsGoto
<1>1. N \in Nat /\ start \in V /\ 0 \in Nat
  <2> HIDE DEF s
  <2> QED
    BY <1>12, <1>14, <1>22
<1>15. ASSUME NEW n \in 1 .. N, NEW k \in V
       PROVE  /\ Walk(k, b, target, s[n]) \in V
              /\ Fits(n - 1, k) => Fits(n, Walk(k, b, target, s[n]))
  <2>1. IsWalk(g1, k, Walk(k, b, target, s[n]), b, target, s, n)
    <3>1. k \in [h: Graph, found: BOOLEAN] /\ Typed(k.h)
      OBVIOUS
    <3> HIDE DEF V, s
    <3> QED
      BY <1>12, <3>1, WalkIs
  <2>4. Sound(h) /\ Unentered(h) => s[n] # entry
    <3> DEFINE c == s[n]
    <3>1. c \in BB /\ c \in ToSet(s)
      BY <1>12 DEF ToSet
    <3> HIDE DEF c
    <3>2. C(h, b, c) # 0
      BY <1>12, <3>1, CountsAre
    <3>3. Sound(h) => T(h, b, c) # 0
      BY <1>12, <3>1, <3>2 DEF Sound, Agree
    <3>4. Sound(h) => c \in ToSet(h.term[b].to)
      BY <1>12, <3>1, <3>3, CountsAre
    <3> QED
      BY <3>4 DEF Unentered, c
  <2> HIDE DEF s, Fits
  <2>2. Ends(Walk(k, b, target, s[n]).h)
    BY <2>1 DEF IsWalk
  <2>3. Fits(n - 1, k) => Fits(n, Walk(k, b, target, s[n]))
    BY <2>1, <2>4 DEF IsWalk, Fits
  <2> HIDE DEF Ends
  <2> QED
    BY <2>1, <2>2, <2>3 DEF IsWalk
<1> HIDE DEF s
<1>2. G \in [Nat \X V -> V]
  <2> HIDE DEF V, Fits
  <2> QED
    BY <1>15
<1>3. \A n \in 1 .. N : \A k \in V : G[<<n, k>>] = Walk(k, b, target, s[n])
  <2> HIDE DEF V
  <2> QED
    BY <1>1
<1>4. PICK f \in [0 .. N -> V] : Follows(f, 0, N, start, G)
  <2> HIDE DEF N, G, V, start
  <2> QED
    BY <1>1, <1>2, Recursive
<1>5. insert_branch(h, b, target) = f[N].h
  <2> DEFINE Val(hh, n) ==
                 IF n = 0 THEN start
                 ELSE CHOOSE r \in {Walk(k, b, target, s[n]) : k \in {hh[n - 1]}} : TRUE
             E(hh) == hh = [n \in 0 .. N |-> Val(hh, n)]
             after == CHOOSE hh : E(hh)
  <2>1. insert_branch(h, b, target) = after[N].h
    BY DEF insert_branch, Loop, Walk, Drop, g1, s
  <2>2. \A n \in 1 .. N : \A hh : Val(hh, n) = Walk(hh[n - 1], b, target, s[n])
    <3> TAKE n \in 1 .. N
    <3> TAKE hh
    <3>1. n # 0
      BY <1>1
    <3>2. {Walk(k, b, target, s[n]) : k \in {hh[n - 1]}} = {Walk(hh[n - 1], b, target, s[n])}
      OBVIOUS
    <3> QED
      BY <3>1, <3>2, OnlyOne
  <2>3. \A hh : Val(hh, 0) = start
    OBVIOUS
  <2> HIDE DEF Val, G, N, start, V
  <2>4. \A n \in 0 .. N : f[n] = Val(f, n)
    <3> TAKE n \in 0 .. N
    <3>1. f[n] = IF n = 0 THEN start ELSE G[<<n, f[n - 1]>>]
      BY <1>4 DEF Follows
    <3>2. n # 0 => n \in 1 .. N /\ n - 1 \in 0 .. N
      BY <1>1
    <3>3. n # 0 => G[<<n, f[n - 1]>>] = Val(f, n)
      <4>1. n # 0 => f[n - 1] \in V
        BY <1>4, <3>2
      <4>2. n # 0 => Val(f, n) = Walk(f[n - 1], b, target, s[n])
        BY <2>2, <3>2
      <4> QED
        BY <1>3, <3>2, <4>1, <4>2
    <3> QED
      BY <2>3, <3>1, <3>3
  <2>5. E(f)
    BY <2>4
  <2>6. E(after)
    <3> HIDE DEF E
    <3> QED
      BY <2>5
  <2> HIDE DEF after
  <2>7. \A n \in 0 .. N : after[n] = Val(after, n)
    BY <2>6
  <2> HIDE DEF E
  <2>8. f[0] = after[0]
    BY <1>1, <2>3, <2>4, <2>7
  <2>9. \A n \in 1 .. N : f[n - 1] = after[n - 1] => f[n] = after[n]
    <3> TAKE n \in 1 .. N
    <3>1. n \in 0 .. N
      BY <1>1
    <3> QED
      BY <2>2, <2>4, <2>7, <3>1
  <2>10. Alike(f, after, N)
    BY <1>1, <2>8, <2>9, SameSteps DEF Stepwise
  <2> QED
    BY <1>1, <2>1, <2>10 DEF Alike
<1>6. Fits(0, start)
  <2>9. Rids(g1, g1)
    <3>1. Rid(g1, g1, {})
      BY <1>14 DEF Rid
    <3> QED
      BY <3>1 DEF Rids
  <2> SUFFICES ASSUME Sound(h) PROVE Half(g1, FALSE, b, target, s, 0)
    BY <2>9 DEF Halfway
  <2>1. \A x, y \in BB : C(g1, x, y) = C(h, x, y) /\ P(g1, x, y) = P(h, x, y)
    BY <1>13 DEF IsGoto, C, P
  <2>2. Lists(g1)
    BY <2>1 DEF Sound, Agree, Lists
  <2>3. h.term[b] # NoTerm
    BY NoTermIs, CountEmpty
  <2>4. Unlisted(g1) /\ g1.term[b] = Goto(target)
    BY <1>12, <1>13, <2>3 DEF IsGoto, Sound, Unlisted
  <2>5. \A x \in BB \ {b}, y \in BB : C(g1, x, y) = T(g1, x, y)
    BY <1>12, <1>13, <2>1 DEF IsGoto, Sound, Agree, T
  <2>6. \A y : Left(s, y, 0) = Count(s, y)
    BY <1>12, Lefts DEF LeftIs
  <2>7. \A y \in BB : C(g1, b, y) = Left(s, y, 0) + IF y = target /\ FALSE THEN 1 ELSE 0
    <3> TAKE y \in BB
    <3>1. C(g1, b, y) = Count(s, y) /\ Count(s, y) \in Nat
      BY <1>12, <2>1, CountsAre DEF C, s
    <3>2. (IF y = target /\ FALSE THEN 1 ELSE 0) = 0
      OBVIOUS
    <3>3. Left(s, y, 0) = Count(s, y)
      BY <2>6
    <3> QED
      BY <3>1, <3>2, <3>3
  <2>8. Left(s, target, 0) # 0
    <3>1. T(h, b, target) # 0
      BY <1>12, CountsAre
    <3>2. C(h, b, target) # 0
      BY <1>12, <3>1 DEF Sound, Agree
    <3> QED
      BY <2>6, <3>2 DEF C, s
  <2> QED
    BY <2>2, <2>4, <2>5, <2>7, <2>8 DEF Half
<1>7. ASSUME NEW n \in 1 .. N, NEW k \in V, Fits(n - 1, k)
      PROVE  Fits(n, G[<<n, k>>])
  <2> HIDE DEF G, V, N, Fits
  <2>1. G[<<n, k>>] = Walk(k, b, target, s[n])
    BY <1>3
  <2> QED
    BY <1>7, <1>15, <2>1
<1>8. <<0, start>> \in J
  <2> HIDE DEF Fits, N, V, start
  <2> QED
    BY <1>1, <1>6
<1>9. \A n \in 1 .. N : \A k \in V : <<n - 1, k>> \in J => <<n, G[<<n, k>>]>> \in J
  <2> TAKE n \in 1 .. N
  <2> TAKE k \in V
  <2>1. <<n - 1, k>> \in J => Fits(n - 1, k)
    <3> HIDE DEF Fits, V
    <3> QED
      OBVIOUS
  <2>2. n \in 0 .. N /\ n \in Nat
    BY <1>1
  <2> HIDE DEF Fits, G, V, N
  <2> QED
    BY <1>2, <1>7, <2>1, <2>2
<1>10. f[N] \in V /\ <<N, f[N]>> \in J
  <2> HIDE DEF J, G, N, V, start
  <2> QED
    BY <1>1, <1>2, <1>4, <1>8, <1>9, Looped
<1>11. Fits(N, f[N])
  <2> HIDE DEF Fits, N, V
  <2> QED
    BY <1>10
<1> DEFINE e == f[N]
<1>16. e \in [h: Graph, found: BOOLEAN] /\ Typed(e.h) /\ e.h.bbs = h.bbs /\ (e.h.asserts => h.asserts) /\ Ends(e.h)
  <2> HIDE DEF G, N
  <2> QED
    BY <1>10
<1>17. Sound(h) => Halfway(e, b, target, s, N) /\ (Unentered(h) => Rids(g1, e.h))
  BY <1>11
<1>18. insert_branch(h, b, target) = e.h
  BY <1>5
<1>19. \A y : Left(s, y, N) = 0
  BY <1>12, Lefts DEF LeftIs
<1> HIDE DEF e, N, G, V
<1>20. ASSUME Half(e.h, e.found, b, target, s, N) PROVE Sound(e.h)
  <2>1. e.found
    BY <1>19, <1>20 DEF Half
  <2>2. ASSUME NEW y \in BB PROVE C(e.h, b, y) = T(e.h, b, y)
    <3>1. C(e.h, b, y) = IF y = target THEN 1 ELSE 0
      BY <1>19, <1>20, <2>1 DEF Half
    <3>2. e.h.term[b].to = <<target>>
      BY <1>12, <1>20, GotoIs DEF Half
    <3> QED
      BY <1>12, <3>1, <3>2, CountOne DEF T
  <2> QED
    BY <1>20, <2>2 DEF Half, Lists, Sound, Agree
<1>21. Sound(h) => Sound(e.h)
  BY <1>17, <1>20 DEF Halfway, Gone
<1>23. ASSUME Sound(h) PROVE KeepsPaths(h, e.h)
  <2>1. CASE Unentered(h)
    <3>1. KeepsPaths(h, g1)
      BY <1>13, <1>14, <1>23, GotoPaths
    <3>2. PICK K : Rid(g1, e.h, K)
      BY <1>17, <1>23, <2>1 DEF Rids
    <3>3. KeepsPaths(g1, e.h)
      BY <3>2, PathsRid
    <3> QED
      BY <3>1, <3>3, PathsAll
  <2>2. CASE ~Unentered(h)
    BY <2>2 DEF KeepsPaths, Good
  <2> QED
    BY <2>1, <2>2
<1> QED
  BY <1>16, <1>18, <1>21, <1>23 DEF Follow

-----------------------------------------------------------------------------
\* Edits of cleanup_and_cse, and kill_unreachable_bbs.

\* The ways of a branch.
WaysOf(t, v) ==
    IF t.cond \in {"none", "other"} \/ t.op # "br" THEN ToSet(t.to)
    ELSE {t.to[IF t.cond = "true" \/ t.cond = IF v THEN "c" ELSE "notc" THEN 1 ELSE 2]}

\* A branch that goes where it went, though on another condition.
LEMMA NewTermFollows ==
    ASSUME NEW h, Typed(h), NEW b \in BB, NEW t \in Term, Formed(t), h.term[b] # NoTerm, t.op = h.term[b].op,
           \A y \in BB : Count(t.to, y) = T(h, b, y), \A v \in BOOLEAN : WaysOf(t, v) \subseteq WaysOf(h.term[b], v)
    PROVE  Follow(h, [h EXCEPT !.term[b] = t])
<1> DEFINE k == [h EXCEPT !.term[b] = t]
<1>1. h \in Graph /\ h.term \in [BB -> Term]
  BY Parts DEF Typed
<1>2. /\ k \in Graph /\ k.bbs = h.bbs /\ k.asserts = h.asserts /\ k.children = h.children
      /\ k.parents = h.parents /\ k.term = [h.term EXCEPT ![b] = t] /\ k.effects = h.effects
  BY <1>1 DEF Graph
<1> HIDE DEF k
<1>3. Typed(k)
  BY <1>1, <1>2 DEF Typed
<1>4. \A x, y \in BB : T(k, x, y) = T(h, x, y) /\ C(k, x, y) = C(h, x, y) /\ P(k, x, y) = P(h, x, y)
  BY <1>1, <1>2 DEF T, C, P
<1>5. Sound(h) => Sound(k)
  BY <1>1, <1>2, <1>4 DEF Sound, Agree, Unlisted
<1>6. Rebranches(h, k, b) /\ k.term[b] = t
  BY <1>1, <1>2, <1>3 DEF Rebranches
<1>7. ASSUME Good(h) PROVE entry \notin ToSet(k.term[b].to)
  <2>1. entry \in BB /\ entry \notin ToSet(h.term[b].to)
    BY <1>7, FlowAssumption DEF Good, Unentered
  <2>2. h \in Graph /\ k \in Graph
    BY <1>1, <1>2
  <2>3. T(h, b, entry) = 0 /\ T(k, b, entry) = T(h, b, entry)
    BY <1>1, <1>4, <2>1, CountsAre
  <2> QED
    BY <2>1, <2>2, <2>3, CountsAre
<1>8. ASSUME NEW v \in BOOLEAN PROVE Preserves(h, k, v)
  <2>1. Ways(k, b, v) \subseteq Ways(h, b, v)
    BY <1>6 DEF Ways, WaysOf
  <2>2. Ways(h, b, v) \subseteq Ahead(h, v, b)
    BY AheadIs DEF IsAhead
  <2>3. k.term[b].to = <<>> => h.term[b].to = <<>> /\ h.term[b].op = k.term[b].op
    <3>1. Ways(k, b, v) = {} <=> k.term[b].to = <<>>
      BY <1>3, WaysAre
    <3> SUFFICES ASSUME t.to = <<>> PROVE h.term[b].to = <<>>
      BY <1>6
    <3>2. h.term[b].to \in Seq(BB)
      BY <1>1, Parts
    <3>3. \A y \in BB : Count(h.term[b].to, y) = 0
      BY CountEmpty DEF T
    <3>4. \A y \in BB : y \notin ToSet(h.term[b].to)
      BY <1>1, <3>3, CountsAre DEF T
    <3>5. h.term[b].to # <<>> => h.term[b].to[1] \in BB /\ h.term[b].to[1] \in ToSet(h.term[b].to)
      BY <3>2 DEF ToSet
    <3> QED
      BY <3>4, <3>5
  <2> QED
    BY <1>6, <2>1, <2>2, <2>3, PathsRebranch
<1>9. KeepsPaths(h, k)
  BY <1>6, <1>7, <1>8, GoodRebranch DEF KeepsPaths
<1> QED
  BY <1>2, <1>3, <1>5, <1>9 DEF Follow, k

\* Constant folding of the condition of a branch.
LEMMA NewCondFollows ==
    ASSUME NEW h, Typed(h), NEW b \in BB, h.term[b].cond = "other", NEW v \in {"true", "false"}
    PROVE  Follow(h, [h EXCEPT !.term[b].cond = v])
<1> DEFINE t == [h.term[b] EXCEPT !.cond = v]
<1>1. h.term[b] \in Term /\ Formed(h.term[b])
  BY Parts DEF Typed
<1>2. t \in Term /\ t.to = h.term[b].to /\ t.op = h.term[b].op /\ t.cond = v
  <2>1. v \in Conds
    BY DEF Conds
  <2> QED
    BY <1>1, <2>1 DEF Term
<1>3. [h EXCEPT !.term[b].cond = v] = [h EXCEPT !.term[b] = t]
  OBVIOUS
<1> HIDE DEF t
<1>4. Formed(t) /\ h.term[b] # NoTerm
  <2>1. v # "none" /\ h.term[b].cond # "none"
    OBVIOUS
  <2>2. Formed(t)
    BY <1>1, <1>2, <2>1 DEF Formed
  <2> QED
    BY <2>1, <2>2 DEF NoTerm
<1>6. ASSUME NEW w \in BOOLEAN PROVE WaysOf(t, w) \subseteq WaysOf(h.term[b], w)
  <2>1. WaysOf(h.term[b], w) = ToSet(h.term[b].to)
    BY DEF WaysOf
  <2>2. CASE t.op # "br"
    BY <1>2, <2>1, <2>2 DEF WaysOf
  <2>3. CASE t.op = "br"
    <3>1. h.term[b].to \in Seq(BB) /\ Len(h.term[b].to) = 2
      BY <1>1, <1>2, <2>3 DEF Formed, Term
    <3>2. WaysOf(t, w) = {h.term[b].to[IF v = "true" THEN 1 ELSE 2]}
      BY <1>2, <2>3 DEF WaysOf
    <3> QED
      BY <2>1, <3>1, <3>2 DEF ToSet
  <2> QED
    BY <2>2, <2>3
<1>5. Follow(h, [h EXCEPT !.term[b] = t])
  <2>1. \A y \in BB : Count(t.to, y) = T(h, b, y)
    BY <1>2 DEF T
  <2> QED
    BY <1>2, <1>4, <1>6, <2>1, NewTermFollows
<1> QED
  BY <1>3, <1>5

\* A list of two.
LEMMA CountTwo ==
    ASSUME NEW K, NEW y \in K, NEW z \in K, NEW x
    PROVE  /\ Count(<<y, z>>, x) = (IF x = y THEN 1 ELSE 0) + (IF x = z THEN 1 ELSE 0)
           /\ <<y, z>> \in Seq(K)
<1> DEFINE e == <<y>>
<1>1. e \in Seq(K)
  OBVIOUS
<1>2. Append(e, z) = <<y, z>>
  <2> DEFINE d == Append(e, z)
  <2>1. d \in Seq(K) /\ Len(d) = 2 /\ d[1] = y /\ d[2] = z
    OBVIOUS
  <2> HIDE DEF d, e
  <2>2. d = <<d[1], d[2]>>
    BY <2>1
  <2> QED
    BY <2>1, <2>2 DEF d
<1>3. Count(e, x) = IF x = y THEN 1 ELSE 0
  BY CountOne
<1> HIDE DEF e
<1>4. Append(e, z) \in Seq(K) /\ Count(Append(e, z), x) = Count(e, x) + IF z = x THEN 1 ELSE 0
  BY <1>1, CountAppend
<1> QED
  BY <1>2, <1>3, <1>4

\* The branch on the negated condition goes to the same blocks.
LEMMA NegatedFollows ==
    ASSUME NEW h, Typed(h), NEW b \in BB, h.term[b].op = "br", Len(h.term[b].to) = 2, h.term[b].cond = "notc"
    PROVE  Follow(h, [h EXCEPT !.term[b].cond = "c", !.term[b].to = <<@[2], @[1]>>])
<1> DEFINE to == h.term[b].to
           s == <<to[2], to[1]>>
           t == [h.term[b] EXCEPT !.cond = "c", !.to = s]
<1>1. h.term[b] \in Term /\ to \in Seq(BB) /\ to[1] \in BB /\ to[2] \in BB /\ to = <<to[1], to[2]>>
  <2>1. h.term[b] \in Term /\ to \in Seq(BB)
    BY Parts DEF Typed
  <2> QED
    BY <2>1
<1>2. \A y : Count(s, y) = Count(<<to[1], to[2]>>, y)
  <2> TAKE y
  <2>1. Count(s, y) = (IF y = to[2] THEN 1 ELSE 0) + (IF y = to[1] THEN 1 ELSE 0)
    BY <1>1, CountTwo
  <2>2. Count(<<to[1], to[2]>>, y) = (IF y = to[1] THEN 1 ELSE 0) + (IF y = to[2] THEN 1 ELSE 0)
    BY <1>1, CountTwo
  <2> QED
    BY <2>1, <2>2
<1>3. s \in Seq(BB) /\ Len(s) = 2
  BY <1>1
<1>4. [h EXCEPT !.term[b].cond = "c", !.term[b].to = <<@[2], @[1]>>] = [h EXCEPT !.term[b] = t]
  BY <1>1 DEF Term
<1> HIDE DEF s
<1>5. t \in Term /\ t.to = s /\ t.op = "br" /\ t.cond = "c"
  BY <1>1, <1>3 DEF Term, Conds
<1> HIDE DEF t
<1>6. Formed(t) /\ h.term[b] # NoTerm
  BY <1>3, <1>5 DEF Formed, NoTerm
<1>7. \A y \in BB : Count(t.to, y) = T(h, b, y)
  BY <1>1, <1>2, <1>5 DEF T
<1>9. ASSUME NEW v \in BOOLEAN PROVE WaysOf(t, v) \subseteq WaysOf(h.term[b], v)
  <2>1. WaysOf(h.term[b], v) = {to[IF v THEN 2 ELSE 1]}
    BY DEF WaysOf
  <2>2. WaysOf(t, v) = {s[IF v THEN 1 ELSE 2]}
    BY <1>5 DEF WaysOf
  <2>3. s[1] = to[2] /\ s[2] = to[1]
    BY DEF s
  <2> QED
    BY <2>1, <2>2, <2>3
<1>8. Follow(h, [h EXCEPT !.term[b] = t])
  BY <1>5, <1>6, <1>7, <1>9, NewTermFollows
<1> QED
  BY <1>4, <1>8

\* A body becomes empty.
LEMMA NewPureFollows ==
    ASSUME NEW h, Typed(h), NEW b \in BB
    PROVE  Follow(h, [h EXCEPT !.pure[b] = FALSE])
<1> DEFINE k == [h EXCEPT !.pure[b] = FALSE]
<1>1. h \in Graph /\ h.pure \in [BB -> BOOLEAN]
  BY Parts DEF Typed
<1>2. /\ k \in Graph /\ k.bbs = h.bbs /\ k.asserts = h.asserts /\ k.children = h.children
      /\ k.parents = h.parents /\ k.term = h.term /\ k.effects = h.effects
  BY <1>1 DEF Graph
<1> HIDE DEF k
<1>3. Typed(k)
  BY <1>2 DEF Typed
<1>4. Sound(h) => Sound(k)
  BY <1>2 DEF Sound, Agree, Unlisted, T, C, P
<1> QED
  BY <1>2, <1>3, <1>4, PathsSame DEF Follow, k

\* Both ways of b lead to t: one edge less.
LEMMA SameTargetFollows ==
    ASSUME NEW h, Typed(h), NEW b \in BB, h.term[b].op = "br", Len(h.term[b].to) = 2,
           NEW t, t = h.term[b].to[1], t = h.term[b].to[2]
    PROVE  Follow(h, [RemoveParent1(h, t, b) EXCEPT !.children[b] = RemoveFirst(@, t), !.term[b] = Goto(t)])
<1> DEFINE m == RemoveParent1(h, t, b)
           s == RemoveFirst(h.children[b], t)
           k == [m EXCEPT !.children[b] = s, !.term[b] = Goto(t)]
<1>1. /\ h \in Graph /\ h.term[b].to \in Seq(BB) /\ h.children \in [BB -> Seq(BB)] /\ h.term \in [BB -> Term]
      /\ h.children[b] \in Seq(BB)
  BY Parts DEF Typed
<1>2. t \in BB /\ h.term[b].to = <<t, t>> /\ t \in ToSet(h.term[b].to)
  <2> DEFINE to == h.term[b].to
  <2>1. to \in Seq(BB) /\ Len(to) = 2 /\ to[1] = t /\ to[2] = t
    BY <1>1
  <2> HIDE DEF to
  <2>2. to[1] \in BB /\ to = <<to[1], to[2]>> /\ to[1] \in ToSet(to)
    BY <2>1 DEF ToSet
  <2> QED
    BY <2>1, <2>2 DEF to
<1>3. IsRemoveParent1(h, m, t, b)
  BY <1>1, <1>2, RemoveParent1Is
<1>4. s \in Seq(BB) /\ \A y : t \in ToSet(h.children[b]) => Count(s, y) = Count(h.children[b], y) - IF t = y THEN 1 ELSE 0
  BY <1>1, CountRemoveFirst
<1> HIDE DEF m
<1>5. m \in Graph /\ m.term = h.term /\ m.effects = h.effects /\ m.children = h.children /\ m.bbs = h.bbs
  BY <1>3 DEF IsRemoveParent1
<1>6. [m EXCEPT !.children[b] = RemoveFirst(@, t), !.term[b] = Goto(t)] = k
  BY <1>5
<1> HIDE DEF s
<1>7. Goto(t) \in Term /\ Formed(Goto(t)) /\ Goto(t).to = <<t>> /\ Goto(t) # NoTerm
  BY <1>2, GotoIs
<1>8. /\ k \in Graph /\ k.bbs = h.bbs /\ k.asserts = m.asserts /\ k.parents = m.parents
      /\ k.children = [h.children EXCEPT ![b] = s] /\ k.term = [h.term EXCEPT ![b] = Goto(t)] /\ k.effects = h.effects
  <2> DEFINE u == Goto(t)
             n == [m EXCEPT !.children[b] = s, !.term[b] = u]
  <2>1. u \in Term
    BY <1>7
  <2>2. k = n
    OBVIOUS
  <2> HIDE DEF u, k
  <2>3. /\ n \in Graph /\ n.bbs = h.bbs /\ n.asserts = m.asserts /\ n.parents = m.parents
        /\ n.children = [h.children EXCEPT ![b] = s] /\ n.term = [h.term EXCEPT ![b] = u] /\ n.effects = h.effects
    BY <1>1, <1>4, <1>5, <2>1 DEF Graph
  <2> HIDE DEF n
  <2> QED
    BY <2>2, <2>3 DEF u
<1> HIDE DEF k
<1>9. Typed(k)
  BY <1>1, <1>7, <1>8 DEF Typed
<1>10. k.asserts => h.asserts
  BY <1>3, <1>8 DEF IsRemoveParent1
<1>11. ASSUME Sound(h) PROVE Sound(k)
  <2>1. T(h, b, t) # 0 /\ C(h, b, t) = T(h, b, t) /\ P(h, b, t) = T(h, b, t)
    BY <1>1, <1>2, <1>11, CountsAre DEF Sound, Agree
  <2>2. t \in ToSet(h.children[b]) /\ b \in ToSet(h.parents[t])
    BY <1>1, <1>2, <2>1, CountsAre
  <2>3. ASSUME NEW x \in BB, NEW y \in BB PROVE C(k, x, y) = T(k, x, y) /\ P(k, x, y) = T(k, x, y)
    <3>1. C(h, x, y) = T(h, x, y) /\ P(h, x, y) = T(h, x, y) /\ T(h, x, y) \in Nat
      BY <1>1, <1>11, CountsAre DEF Sound, Agree
    <3>2. P(m, x, y) = P(h, x, y) - IF x = b /\ y = t THEN 1 ELSE 0
      BY <1>3, <2>2 DEF IsRemoveParent1
    <3>3. P(k, x, y) = P(m, x, y)
      BY <1>8 DEF P
    <3>4. CASE x = b
      <4>1. C(k, b, y) = C(h, b, y) - IF t = y THEN 1 ELSE 0
        BY <1>1, <1>4, <1>8, <2>2 DEF C
      <4>2. T(k, b, y) = IF y = t THEN 1 ELSE 0
        <5>1. k.term[b].to = <<t>>
          BY <1>1, <1>7, <1>8
        <5>2. Count(<<t>>, y) = IF y = t THEN 1 ELSE 0
          BY <1>2, CountOne
        <5> QED
          BY <5>1, <5>2 DEF T
      <4>3. T(h, b, y) = (IF y = t THEN 1 ELSE 0) + (IF y = t THEN 1 ELSE 0)
        BY <1>2, CountTwo DEF T
      <4> QED
        BY <3>1, <3>2, <3>3, <3>4, <4>1, <4>2, <4>3
    <3>5. CASE x # b
      <4>1. C(k, x, y) = C(h, x, y) /\ T(k, x, y) = T(h, x, y)
        BY <1>1, <1>8, <3>5 DEF C, T
      <4> QED
        BY <3>1, <3>2, <3>3, <3>5, <4>1
    <3> QED
      BY <3>4, <3>5
  <2>4. h.term[b] # NoTerm
    BY <1>2, NoTermIs
  <2>5. Unlisted(k)
    BY <1>1, <1>8, <1>11, <2>4 DEF Sound, Unlisted
  <2> QED
    BY <2>3, <2>5 DEF Sound, Agree
<1>12. KeepsPaths(h, k)
  <2>1. k.term[b] = Goto(t) /\ Rebranches(h, k, b)
    BY <1>1, <1>8, <1>9 DEF Rebranches
  <2>2. ToSet(k.term[b].to) = {t}
    <3>1. ToSet(<<t>>) = {t}
      BY DEF ToSet
    <3> QED
      BY <1>7, <2>1, <3>1
  <2>3. ASSUME NEW v \in BOOLEAN PROVE Preserves(h, k, v)
    <3>1. ToSet(h.term[b].to) = {t}
      <4>1. ToSet(<<t, t>>) = {t}
        BY DEF ToSet
      <4> QED
        BY <1>2, <4>1
    <3>2. h.term[b].to # <<>> /\ k.term[b].to # <<>>
      <4>1. <<t, t>> # <<>> /\ <<t>> # <<>>
        OBVIOUS
      <4>2. k.term[b].to = <<t>>
        BY <1>7, <2>1
      <4> QED
        BY <1>2, <4>1, <4>2
    <3>3. Ways(h, b, v) = {t}
      BY <3>1, <3>2, WaysAre
    <3>4. Ways(k, b, v) \subseteq {t}
      BY <1>9, <2>2, WaysAre
    <3>5. Ways(h, b, v) \subseteq Ahead(h, v, b)
      BY AheadIs DEF IsAhead
    <3> QED
      BY <2>1, <3>2, <3>3, <3>4, <3>5, PathsRebranch
  <2>4. Good(h) => entry \notin ToSet(k.term[b].to)
    BY <1>2, <2>2 DEF Good, Unentered
  <2> QED
    BY <2>1, <2>3, <2>4, GoodRebranch DEF KeepsPaths
<1> QED
  <2>1. Follow(h, k)
    BY <1>8, <1>9, <1>10, <1>11, <1>12 DEF Follow
  <2> QED
    BY <1>6, <2>1 DEF m

\* What is reachable leads to what is reachable.
LEMMA ReachableClosed ==
    ASSUME NEW h, NEW b \in Reachable(h), NEW c \in BB, c \in ToSet(h.children[b])
    PROVE  c \in Reachable(h)
BY DEF Reachable

\* The blocks of S have been killed.
KilledAll(h, k, S) ==
    /\ \A x \in BB : /\ k.term[x] = IF x \in S THEN NoTerm ELSE h.term[x]
                     /\ k.effects[x] = IF x \in S THEN <<>> ELSE h.effects[x]
    /\ Lists(h) => \A x, y \in BB :
           /\ C(k, x, y) = IF x \in S \/ y \in S THEN 0 ELSE C(h, x, y)
           /\ P(k, x, y) = IF x \in S \/ y \in S THEN 0 ELSE C(h, x, y)

\* One more.
LEMMA KilledOneMore ==
    ASSUME NEW h, NEW k \in Graph, NEW S, NEW b \in BB, KilledAll(h, k, S)
    PROVE  KilledAll(h, kill_bb(k, b), S \cup {b})
<1> DEFINE l == kill_bb(k, b)
<1>1. IsKilled(k, l, b)
  BY KillIs
<1> HIDE DEF l
<1>2. \A x \in BB : /\ l.term[x] = IF x \in S \cup {b} THEN NoTerm ELSE h.term[x]
                   /\ l.effects[x] = IF x \in S \cup {b} THEN <<>> ELSE h.effects[x]
  BY <1>1 DEF IsKilled, KilledAll
<1>3. ASSUME Lists(h), NEW x \in BB, NEW y \in BB
      PROVE  /\ C(l, x, y) = IF x \in S \cup {b} \/ y \in S \cup {b} THEN 0 ELSE C(h, x, y)
             /\ P(l, x, y) = IF x \in S \cup {b} \/ y \in S \cup {b} THEN 0 ELSE C(h, x, y)
  <2>1. Lists(k)
    BY <1>3 DEF KilledAll, Lists
  <2>2. /\ C(l, x, y) = IF x = b \/ y = b THEN 0 ELSE C(k, x, y)
        /\ P(l, x, y) = IF x = b \/ y = b THEN 0 ELSE C(k, x, y)
    BY <1>1, <2>1 DEF IsKilled
  <2>3. C(k, x, y) = IF x \in S \/ y \in S THEN 0 ELSE C(h, x, y)
    BY <1>3 DEF KilledAll
  <2> QED
    BY <2>2, <2>3
<1> QED
  BY <1>2, <1>3 DEF KilledAll, l

\* The members of D among the first n of s.
Among(s, n, D) == {x \in D : \E j \in 1 .. n : s[j] = x}

\* One turn of the loop of kill_unreachable_bbs.
KillOne(k, b, D) == IF b \in D THEN kill_bb(k, b) ELSE k

IsKillOne(h, k, l, s, n, D) ==
    /\ l \in Graph /\ Typed(l) /\ l.bbs = k.bbs /\ l.asserts = k.asserts
    /\ KilledAll(h, k, Among(s, n - 1, D)) => KilledAll(h, l, Among(s, n, D))

\* A block that is out of reach is killed, any other is left alone.
LEMMA KillOneIs ==
    ASSUME NEW h, NEW k, Typed(k), NEW s \in Seq(BB), NEW n \in 1 .. Len(s), NEW D
    PROVE  IsKillOne(h, k, KillOne(k, s[n], D), s, n, D)
<1>1. k \in Graph /\ s[n] \in BB
  BY DEF Typed
<1>2. \A j : j \in 1 .. n <=> j \in 1 .. n - 1 \/ j = n
  OBVIOUS
<1>3. CASE s[n] \in D
  <2>1. KillOne(k, s[n], D) = kill_bb(k, s[n])
    BY <1>3 DEF KillOne
  <2>2. Among(s, n, D) = Among(s, n - 1, D) \cup {s[n]}
    BY <1>2, <1>3 DEF Among
  <2>3. /\ Typed(kill_bb(k, s[n])) /\ kill_bb(k, s[n]).bbs = k.bbs /\ kill_bb(k, s[n]).asserts = k.asserts
    BY <1>1, KillKeeps
  <2>4. KilledAll(h, k, Among(s, n - 1, D)) => KilledAll(h, kill_bb(k, s[n]), Among(s, n, D))
    BY <1>1, <2>2, KilledOneMore
  <2> QED
    BY <2>1, <2>3, <2>4 DEF IsKillOne, Typed
<1>4. CASE s[n] \notin D
  <2>1. KillOne(k, s[n], D) = k
    BY <1>4 DEF KillOne
  <2>2. Among(s, n, D) = Among(s, n - 1, D)
    BY <1>2, <1>4 DEF Among
  <2> QED
    BY <1>1, <2>1, <2>2 DEF IsKillOne
<1> QED
  BY <1>3, <1>4

\* All that the loop left, without what it killed.
IsSwept(h, k) ==
    /\ Typed(k) /\ k.asserts = h.asserts
    /\ Sound(h) => Sound(k) /\ KeepsPaths(h, k)

\* What is out of reach is killed and taken off ep->bbs.
LEMMA SweptIs ==
    ASSUME NEW h, Typed(h)
    PROVE  IsSwept(h, kill_unreachable_bbs(h))
<1> DEFINE D == BB \ Reachable(h)
           s == h.bbs
           N == Len(s)
           V == {x \in Graph : Typed(x) /\ x.bbs = h.bbs /\ x.asserts = h.asserts}
           G == [y \in Nat \X V |-> IF y[1] \in 1 .. N THEN KillOne(y[2], s[y[1]], D) ELSE y[2]]
           Fits(n, k) == KilledAll(h, k, Among(s, n, D))
           J == {y \in (0 .. N) \X V : Fits(y[1], y[2])}
<1>12. h \in Graph /\ s \in Seq(BB)
  BY Parts DEF Typed
<1>1. N \in Nat /\ h \in V /\ 0 \in Nat
  BY <1>12
<1> HIDE DEF D
<1>15. ASSUME NEW n \in 1 .. N, NEW k \in V
       PROVE  /\ KillOne(k, s[n], D) \in V
              /\ Fits(n - 1, k) => Fits(n, KillOne(k, s[n], D))
  <2>1. IsKillOne(h, k, KillOne(k, s[n], D), s, n, D)
    <3>1. Typed(k)
      OBVIOUS
    <3> HIDE DEF V, s
    <3> QED
      BY <1>12, <3>1, KillOneIs
  <2> HIDE DEF s
  <2> QED
    BY <2>1 DEF IsKillOne
<1> HIDE DEF s
<1>2. G \in [Nat \X V -> V]
  <2> HIDE DEF V, Fits
  <2> QED
    BY <1>15
<1>3. \A n \in 1 .. N : \A k \in V : G[<<n, k>>] = KillOne(k, s[n], D)
  <2> HIDE DEF V
  <2> QED
    BY <1>1
<1>4. PICK f \in [0 .. N -> V] : Follows(f, 0, N, h, G)
  <2> HIDE DEF N, G, V
  <2> QED
    BY <1>1, <1>2, Recursive
<1>5. kill_unreachable_bbs(h) = [f[N] EXCEPT !.bbs = Without(f[N].bbs, D)]
  <2> DEFINE Val(hh, n) ==
                 IF n = 0 THEN h
                 ELSE CHOOSE r \in {KillOne(k, s[n], D) : k \in {hh[n - 1]}} : TRUE
             E(hh) == hh = [n \in 0 .. N |-> Val(hh, n)]
             after == CHOOSE hh : E(hh)
  <2>1. kill_unreachable_bbs(h) = [after[N] EXCEPT !.bbs = Without(after[N].bbs, D)]
    BY DEF kill_unreachable_bbs, Loop, KillOne, D, s
  <2>2. \A n \in 1 .. N : \A hh : Val(hh, n) = KillOne(hh[n - 1], s[n], D)
    <3> TAKE n \in 1 .. N
    <3> TAKE hh
    <3>1. n # 0
      BY <1>1
    <3>2. {KillOne(k, s[n], D) : k \in {hh[n - 1]}} = {KillOne(hh[n - 1], s[n], D)}
      OBVIOUS
    <3> QED
      BY <3>1, <3>2, OnlyOne
  <2>3. \A hh : Val(hh, 0) = h
    OBVIOUS
  <2> HIDE DEF Val, G, N, V
  <2>4. \A n \in 0 .. N : f[n] = Val(f, n)
    <3> TAKE n \in 0 .. N
    <3>1. f[n] = IF n = 0 THEN h ELSE G[<<n, f[n - 1]>>]
      BY <1>4 DEF Follows
    <3>2. n # 0 => n \in 1 .. N /\ n - 1 \in 0 .. N
      BY <1>1
    <3>3. n # 0 => G[<<n, f[n - 1]>>] = Val(f, n)
      <4>1. n # 0 => f[n - 1] \in V
        BY <1>4, <3>2
      <4>2. n # 0 => Val(f, n) = KillOne(f[n - 1], s[n], D)
        BY <2>2, <3>2
      <4> QED
        BY <1>3, <3>2, <4>1, <4>2
    <3> QED
      BY <2>3, <3>1, <3>3
  <2>5. E(f)
    BY <2>4
  <2>6. E(after)
    <3> HIDE DEF E
    <3> QED
      BY <2>5
  <2> HIDE DEF after
  <2>7. \A n \in 0 .. N : after[n] = Val(after, n)
    BY <2>6
  <2> HIDE DEF E
  <2>8. f[0] = after[0]
    BY <1>1, <2>3, <2>4, <2>7
  <2>9. \A n \in 1 .. N : f[n - 1] = after[n - 1] => f[n] = after[n]
    <3> TAKE n \in 1 .. N
    <3>1. n \in 0 .. N
      BY <1>1
    <3> QED
      BY <2>2, <2>4, <2>7, <3>1
  <2>10. Alike(f, after, N)
    BY <1>1, <2>8, <2>9, SameSteps DEF Stepwise
  <2>11. f[N] = after[N]
    BY <1>1, <2>10 DEF Alike
  <2> QED
    BY <2>1, <2>11
<1>6. Fits(0, h)
  <2>1. Among(s, 0, D) = {}
    BY DEF Among
  <2> QED
    BY <2>1 DEF KilledAll, Lists
<1>7. ASSUME NEW n \in 1 .. N, NEW k \in V, Fits(n - 1, k)
      PROVE  Fits(n, G[<<n, k>>])
  <2> HIDE DEF G, V, N, Fits
  <2>1. G[<<n, k>>] = KillOne(k, s[n], D)
    BY <1>3
  <2> QED
    BY <1>7, <1>15, <2>1
<1>8. <<0, h>> \in J
  <2> HIDE DEF Fits, N, V
  <2> QED
    BY <1>1, <1>6
<1>9. \A n \in 1 .. N : \A k \in V : <<n - 1, k>> \in J => <<n, G[<<n, k>>]>> \in J
  <2> TAKE n \in 1 .. N
  <2> TAKE k \in V
  <2>1. <<n - 1, k>> \in J => Fits(n - 1, k)
    <3> HIDE DEF Fits, V
    <3> QED
      OBVIOUS
  <2>2. n \in 0 .. N /\ n \in Nat
    BY <1>1
  <2> HIDE DEF Fits, G, V, N
  <2> QED
    BY <1>2, <1>7, <2>1, <2>2
<1>10. f[N] \in V /\ <<N, f[N]>> \in J
  <2> HIDE DEF J, G, N, V
  <2> QED
    BY <1>1, <1>2, <1>4, <1>8, <1>9, Looped
<1>11. Fits(N, f[N])
  <2> HIDE DEF Fits, N, V
  <2> QED
    BY <1>10
<1> DEFINE e == f[N]
           S == Among(s, N, D)
           m == [e EXCEPT !.bbs = Without(e.bbs, D)]
<1>16. e \in Graph /\ Typed(e) /\ e.bbs = s /\ e.asserts = h.asserts
  <2> HIDE DEF G, N
  <2> QED
    BY <1>10 DEF s
<1>17. KilledAll(h, e, S)
  BY <1>11
<1>18. kill_unreachable_bbs(h) = m
  BY <1>5
<1>19. \A x : x \in S <=> x \in D /\ x \in ToSet(s)
  BY <1>12 DEF Among, ToSet
<1> HIDE DEF e, N, G, V, S
<1>20. Without(s, D) \in Seq(BB) /\ \A x : Count(Without(s, D), x) = IF x \in D THEN 0 ELSE Count(s, x)
  BY <1>12, CountWithout
<1> DEFINE w == Without(e.bbs, D)
<1>21. w \in Seq(BB) /\ \A x : x \in ToSet(w) <=> x \notin D /\ x \in ToSet(s)
  <2> HIDE DEF w
  <2>1. w \in Seq(BB) /\ \A x : Count(w, x) = IF x \in D THEN 0 ELSE Count(s, x)
    BY <1>16, <1>20 DEF w
  <2> QED
    BY <1>12, <2>1, CountZero
<1> HIDE DEF w
<1>22. /\ m \in Graph /\ m.bbs = w /\ m.asserts = h.asserts
       /\ m.term = e.term /\ m.effects = e.effects /\ m.children = e.children /\ m.parents = e.parents
  <2> DEFINE n == [e EXCEPT !.bbs = w]
  <2>1. m = n
    BY DEF w
  <2> HIDE DEF m
  <2>2. /\ n \in Graph /\ n.bbs = w /\ n.asserts = h.asserts
        /\ n.term = e.term /\ n.effects = e.effects /\ n.children = e.children /\ n.parents = e.parents
    BY <1>16, <1>21 DEF Graph
  <2> HIDE DEF n
  <2> QED
    BY <2>1, <2>2
<1> HIDE DEF m
<1>23. Typed(m)
  BY <1>16, <1>22 DEF Typed
<1>25. ASSUME Sound(h), NEW x \in BB, x \notin S, NEW y \in S PROVE T(h, x, y) = 0
  <2>1. y \in D /\ y \in BB
    BY <1>19 DEF D
  <2> SUFFICES ASSUME T(h, x, y) # 0 PROVE FALSE
    OBVIOUS
  <2>2. C(h, x, y) # 0
    BY <1>25, <2>1 DEF Sound, Agree
  <2>3. y \in ToSet(h.children[x])
    BY <1>12, <2>1, <2>2, CountsAre
  <2>4. x \in D
    BY <2>1, <2>3, ReachableClosed DEF D
  <2>5. x \notin ToSet(s)
    BY <1>19, <1>25, <2>4
  <2>6. h.term[x] = NoTerm
    BY <1>25, <2>5 DEF Sound, Unlisted, s
  <2> QED
    BY <2>6, NoTermIs, CountEmpty DEF T
<1>26. ASSUME Sound(h) PROVE KeepsPaths(h, m)
  <2>1. entry \notin S
    <3>1. entry \in Reachable(h)
      BY FlowAssumption DEF Reachable
    <3> QED
      BY <1>19, <3>1 DEF D
  <2>2. \A x \in BB \ S : ToSet(h.term[x].to) \cap S = {}
    <3> TAKE x \in BB \ S
    <3>1. S \subseteq BB
      BY <1>19 DEF D
    <3>2. \A y \in S : T(h, x, y) = 0
      BY <1>25, <1>26
    <3> QED
      BY <1>12, <3>1, <3>2, CountsAre
  <2>3. Rid(h, m, S)
    BY <1>17, <1>22, <1>23, <2>1, <2>2 DEF Rid, KilledAll
  <2> QED
    BY <2>3, PathsRid
<1>24. ASSUME Sound(h) PROVE Sound(m)
  <2>1. Lists(h) /\ \A x, y \in BB : C(h, x, y) = T(h, x, y)
    BY <1>24 DEF Sound, Agree, Lists
  <2>2. ASSUME NEW x \in BB, NEW y \in BB PROVE T(m, x, y) = IF x \in S \/ y \in S THEN 0 ELSE T(h, x, y)
    <3>1. m.term[x] = IF x \in S THEN NoTerm ELSE h.term[x]
      BY <1>17, <1>22 DEF KilledAll
    <3>2. CASE x \in S
      BY <3>1, <3>2, NoTermIs, CountEmpty DEF T
    <3>3. CASE x \notin S
      <4>1. T(m, x, y) = T(h, x, y)
        BY <3>1, <3>3 DEF T
      <4> QED
        BY <1>24, <1>25, <3>3, <4>1
    <3> QED
      BY <3>2, <3>3
  <2>3. ASSUME NEW x \in BB, NEW y \in BB PROVE C(m, x, y) = T(m, x, y) /\ P(m, x, y) = T(m, x, y)
    <3>1. C(m, x, y) = C(e, x, y) /\ P(m, x, y) = P(e, x, y)
      BY <1>22 DEF C, P
    <3>2. /\ C(e, x, y) = IF x \in S \/ y \in S THEN 0 ELSE C(h, x, y)
          /\ P(e, x, y) = IF x \in S \/ y \in S THEN 0 ELSE C(h, x, y)
      BY <1>17, <2>1 DEF KilledAll
    <3> QED
      BY <2>1, <2>2, <3>1, <3>2
  <2>4. ASSUME NEW x \in BB, m.term[x] # NoTerm PROVE x \in ToSet(m.bbs)
    <3>1. x \notin S /\ h.term[x] # NoTerm
      BY <1>17, <1>22, <2>4 DEF KilledAll
    <3>2. x \in ToSet(s)
      BY <1>24, <3>1 DEF Sound, Unlisted, s
    <3> QED
      BY <1>19, <1>21, <1>22, <3>1, <3>2
  <2> QED
    BY <2>3, <2>4 DEF Sound, Agree, Unlisted
<1> QED
  BY <1>18, <1>22, <1>23, <1>24, <1>26 DEF IsSwept

-----------------------------------------------------------------------------
\* simplify_flow.

\* One turn of the loop of try_to_simplify_bb, and the whole loop.
ThreadOne(k, b, way, p) ==
    IF way[p] = 0 \/ k.term[p].op # "br" \/ ~k.pure[p] THEN k
    ELSE rewrite_branches(k, p, b, k.term[b].to[way[p]])

Threaded(k, b, way) ==
    Loop(LAMBDA h, p : IF way[p] = 0 \/ h.term[p].op # "br" \/ ~h.pure[p] THEN h
                       ELSE rewrite_branches(h, p, b, h.term[b].to[way[p]]),
         k, k.parents[b])

\* b has nothing but a branch on another register (or instructions without side effects).
Forks(h, b) == Len(h.term[b].to) = 2 /\ h.term[b].cond = "other" /\ h.effects[b] = <<>>

IsThreadOne(k, l, b) == Follow(k, l) /\ Forks(l, b)

\* The branch of one parent, which may be b itself.
LEMMA ThreadOneIs ==
    ASSUME NEW k, Typed(k), NEW b \in BB, Forks(k, b), NEW p \in BB,
           NEW way, way[p] \in 0 .. 2
    PROVE  IsThreadOne(k, ThreadOne(k, b, way, p), b)
<1>1. CASE way[p] = 0 \/ k.term[p].op # "br" \/ ~k.pure[p]
  <2>1. ThreadOne(k, b, way, p) = k
    BY <1>1 DEF ThreadOne
  <2> QED
    BY <2>1, FollowItself DEF IsThreadOne
<1>2. CASE ~(way[p] = 0 \/ k.term[p].op # "br" \/ ~k.pure[p])
  <2> DEFINE t == k.term[b].to[way[p]]
             l == rewrite_branches(k, p, b, t)
  <2>1. t \in BB
    <3>1. k.term[b].to \in Seq(BB) /\ way[p] \in 1 .. Len(k.term[b].to)
      BY <1>2, Parts DEF Typed, Forks
    <3> QED
      BY <3>1
  <2>2. ThreadOne(k, b, way, p) = l
    BY <1>2 DEF ThreadOne
  <2>3. Passes(k, b, t)
    <3>1. k.term[b].to \in Seq(BB) /\ way[p] \in 1 .. Len(k.term[b].to)
      BY <1>2, Parts DEF Typed, Forks
    <3>2. t \in ToSet(k.term[b].to)
      BY <3>1 DEF ToSet
    <3> HIDE DEF t
    <3> QED
      BY <2>1, <3>2 DEF Passes, Ways, Forks
  <2> HIDE DEF t
  <2>4. Redirects(k, l, p) /\ AllTo(k, l, p, b, t)
    BY <2>1, RewriteBranchesIs
  <2> HIDE DEF l
  <2>5. KeepsPaths(k, l)
    BY <2>1, <2>3, <2>4, PathsRedirect
  <2>6. Follow(k, l)
    BY <2>4, <2>5 DEF Redirects, Follow
  <2>7. Forks(l, b)
    BY <2>4 DEF Redirects, Forks
  <2> QED
    BY <2>2, <2>6, <2>7 DEF IsThreadOne
<1> QED
  BY <1>1, <1>2

\* Jump threading through b.
LEMMA ThreadedFollows ==
    ASSUME NEW h, Typed(h), NEW b \in BB, Forks(h, b),
           NEW way \in [ToSet(h.parents[b]) -> 0 .. 2]
    PROVE  Follow(h, Threaded(h, b, way))
<1> DEFINE s == h.parents[b]
           N == Len(s)
           V == {x \in Graph : Follow(h, x) /\ Forks(x, b)}
           G == [y \in Nat \X V |-> IF y[1] \in 1 .. N THEN ThreadOne(y[2], b, way, s[y[1]]) ELSE y[2]]
           J == (0 .. N) \X V
<1>12. h \in Graph /\ s \in Seq(BB) /\ Follow(h, h)
  BY Parts, FollowItself DEF Typed
<1>13. \A n \in 1 .. Len(s) : s[n] \in BB /\ way[s[n]] \in 0 .. 2
  BY <1>12 DEF ToSet
<1> HIDE DEF s
<1>1. N \in Nat /\ h \in V /\ 0 \in Nat
  BY <1>12
<1>14. ASSUME NEW n \in 1 .. N, NEW k \in V PROVE ThreadOne(k, b, way, s[n]) \in V
  <2>1. Follow(h, k) /\ Forks(k, b) /\ Typed(k)
    BY DEF Follow
  <2> DEFINE l == ThreadOne(k, b, way, s[n])
  <2> HIDE DEF l
  <2>2. IsThreadOne(k, l, b)
    BY <1>13, <2>1, ThreadOneIs DEF l
  <2>3. Follow(h, l) /\ Forks(l, b)
    BY <2>1, <2>2, FollowAll DEF IsThreadOne
  <2>4. l \in Graph
    BY <2>3 DEF Follow, Typed
  <2> QED
    BY <2>3, <2>4 DEF l
<1>2. G \in [Nat \X V -> V]
  <2> HIDE DEF V
  <2> QED
    BY <1>14
<1>3. \A n \in 1 .. N : \A k \in V : G[<<n, k>>] = ThreadOne(k, b, way, s[n])
  <2> HIDE DEF V
  <2> QED
    BY <1>1
<1>4. PICK f \in [0 .. N -> V] : Follows(f, 0, N, h, G)
  <2> HIDE DEF N, G, V
  <2> QED
    BY <1>1, <1>2, Recursive
<1>5. Threaded(h, b, way) = f[N]
  <2> DEFINE Val(hh, n) ==
                 IF n = 0 THEN h
                 ELSE CHOOSE r \in {ThreadOne(k, b, way, s[n]) : k \in {hh[n - 1]}} : TRUE
             E(hh) == hh = [n \in 0 .. N |-> Val(hh, n)]
             after == CHOOSE hh : E(hh)
  <2>1. Threaded(h, b, way) = after[N]
    BY DEF Threaded, Loop, ThreadOne, s
  <2>2. \A n \in 1 .. N : \A hh : Val(hh, n) = ThreadOne(hh[n - 1], b, way, s[n])
    <3> TAKE n \in 1 .. N
    <3> TAKE hh
    <3>1. n # 0
      BY <1>1
    <3>2. {ThreadOne(k, b, way, s[n]) : k \in {hh[n - 1]}} = {ThreadOne(hh[n - 1], b, way, s[n])}
      OBVIOUS
    <3> QED
      BY <3>1, <3>2, OnlyOne
  <2>3. \A hh : Val(hh, 0) = h
    OBVIOUS
  <2> HIDE DEF Val, G, N, V
  <2>4. \A n \in 0 .. N : f[n] = Val(f, n)
    <3> TAKE n \in 0 .. N
    <3>1. f[n] = IF n = 0 THEN h ELSE G[<<n, f[n - 1]>>]
      BY <1>4 DEF Follows
    <3>2. n # 0 => n \in 1 .. N /\ n - 1 \in 0 .. N
      BY <1>1
    <3>3. n # 0 => G[<<n, f[n - 1]>>] = Val(f, n)
      <4>1. n # 0 => f[n - 1] \in V
        BY <1>4, <3>2
      <4>2. n # 0 => Val(f, n) = ThreadOne(f[n - 1], b, way, s[n])
        BY <2>2, <3>2
      <4> QED
        BY <1>3, <3>2, <4>1, <4>2
    <3> QED
      BY <2>3, <3>1, <3>3
  <2>5. E(f)
    BY <2>4
  <2>6. E(after)
    <3> HIDE DEF E
    <3> QED
      BY <2>5
  <2> HIDE DEF after
  <2>7. \A n \in 0 .. N : after[n] = Val(after, n)
    BY <2>6
  <2> HIDE DEF E
  <2>8. f[0] = after[0]
    BY <1>1, <2>3, <2>4, <2>7
  <2>9. \A n \in 1 .. N : f[n - 1] = after[n - 1] => f[n] = after[n]
    <3> TAKE n \in 1 .. N
    <3>1. n \in 0 .. N
      BY <1>1
    <3>2. f[n] = ThreadOne(f[n - 1], b, way, s[n])
      BY <2>2, <2>4, <3>1
    <3>3. after[n] = ThreadOne(after[n - 1], b, way, s[n])
      BY <2>2, <2>7, <3>1
    <3> QED
      BY <3>2, <3>3
  <2>10. Alike(f, after, N)
    BY <1>1, <2>8, <2>9, SameSteps DEF Stepwise
  <2> QED
    BY <1>1, <2>1, <2>10 DEF Alike
<1>6. f[N] \in V
  <2> HIDE DEF V
  <2> QED
    BY <1>1, <1>4
<1>7. Follow(h, f[N])
  <2> HIDE DEF N
  <2> QED
    BY <1>6
<1> QED
  BY <1>5, <1>7

\* Which way a branch on c goes.
Side(v) == IF v THEN 1 ELSE 2

\* A branch on c goes one way.
LEMMA WaysOnC ==
    ASSUME NEW h, NEW b, h.term[b].op = "br", h.term[b].cond = "c", NEW v \in BOOLEAN
    PROVE  Ways(h, b, v) = {h.term[b].to[Side(v)]} /\ Side(v) \in 1 .. 2
<1>1. ("c" = IF v THEN "c" ELSE "notc") <=> v
  OBVIOUS
<1>2. "c" \notin {"none", "other"} /\ "c" # "true"
  OBVIOUS
<1> QED
  BY <1>1, <1>2 DEF Ways, Side

\* A list of one element.
LEMMA ListOfOne ==
    ASSUME NEW s \in Seq(BB), Len(s) = 1
    PROVE  s[1] \in BB /\ s = <<s[1]>>
<1>1. 1 \in 1 .. Len(s)
  OBVIOUS
<1>2. s[1] \in BB
  BY <1>1
<1> QED
  BY <1>2

\* Who has a branch with two targets that are the same is twice a parent of it.
LEMMA TwiceParent ==
    ASSUME NEW h, Typed(h), Sound(h), NEW b \in BB, NEW x \in BB, NEW c \in BB, c \in ToSet(h.term[b].to),
           c \in ToSet(h.term[x].to), Len(h.parents[c]) = 1
    PROVE  x = b /\ T(h, b, c) = 1
<1> DEFINE s == h.parents[c]
           y == s[1]
<1>1. s \in Seq(BB) /\ Len(s) = 1
  BY Parts DEF Typed
<1> HIDE DEF s
<1>2. y \in BB /\ s = <<y>>
  BY <1>1, ListOfOne
<1> HIDE DEF y
<1>3. \A z \in BB : Count(s, z) = IF z = y THEN 1 ELSE 0
  BY <1>2, CountOne
<1>4. \A z \in BB : T(h, z, c) = Count(s, z)
  BY DEF Sound, Agree, P, s
<1>5. T(h, b, c) # 0 /\ T(h, x, c) # 0
  BY CountsAre DEF Typed
<1> QED
  BY <1>3, <1>4, <1>5

\* The branch of b is one on a condition, or b has been killed.
TwoWays(h, b) == (h.term[b].op = "br" /\ Len(h.term[b].to) = 2) \/ h.term[b].cond = "none"

IsBranchBranch(h, k, b) == Follow(h, k) /\ TwoWays(k, b)

\* Way i of b goes to target, whose way i goes to final; both branch on c.
OnAndOn(h, b, i, target, final) ==
    /\ b \in BB /\ target \in BB /\ target # b /\ final \in BB /\ i \in 1 .. 2
    /\ h.term[b].op = "br" /\ h.term[b].cond = "c" /\ Len(h.term[b].to) = 2 /\ h.term[b].to[i] = target
    /\ h.term[target].op = "br" /\ h.term[target].cond = "c" /\ Len(h.term[target].to) = 2
    /\ h.term[target].to[i] = final

\* What the targets are.
LEMMA OnAndOnHas ==
    ASSUME NEW h, Typed(h), NEW b, NEW i, NEW target, NEW final, OnAndOn(h, b, i, target, final)
    PROVE  target \in ToSet(h.term[b].to) /\ final \in ToSet(h.term[target].to)
<1>1. b \in BB /\ target \in BB
  BY DEF OnAndOn
<1>2. h.term[b].to \in Seq(BB) /\ h.term[target].to \in Seq(BB)
  BY <1>1, Parts DEF Typed
<1> QED
  BY <1>2 DEF OnAndOn, ToSet

\* The branch of b leaves out a target without side effects.
LEMMA LeftOutFollows ==
    ASSUME NEW h, Typed(h), NEW b, NEW i, NEW target, NEW final, OnAndOn(h, b, i, target, final),
           h.effects[target] = <<>>
    PROVE  IsBranchBranch(h, rewrite_branch(h, b, i, target, final), b)
<1> DEFINE k == rewrite_branch(h, b, i, target, final)
           to == h.term[b].to
<1>1. /\ b \in BB /\ target \in BB /\ final \in BB /\ i \in 1 .. 2 /\ Len(to) = 2 /\ to[i] = target
      /\ h.term[b].op = "br" /\ h.term[b].cond = "c"
  BY DEF OnAndOn
<1>2. to \in Seq(BB)
  BY <1>1, Parts DEF Typed
<1>3. Redirects(h, k, b) /\ \A j \in 1 .. 2 : k.term[b].to[j] = IF j = i /\ to[j] = target THEN final ELSE to[j]
  BY <1>1, RewriteOne
<1> HIDE DEF k
<1>4. k.term[b].to \in Seq(BB) /\ Len(k.term[b].to) = 2 /\ k.term[b].op = "br" /\ k.term[b].cond = "c"
  BY <1>1, <1>3, Parts DEF Redirects, Typed
<1>5. Rebranches(h, k, b)
  BY <1>3 DEF Redirects, Rebranches
<1>6. ASSUME NEW v \in BOOLEAN PROVE Ways(k, b, v) \subseteq Ahead(h, v, b)
  <2>1. Ways(k, b, v) = {k.term[b].to[Side(v)]} /\ Side(v) \in 1 .. 2
    BY <1>4, WaysOnC
  <2>2. Ways(h, b, v) = {to[Side(v)]}
    BY <1>1, WaysOnC
  <2>3. Ways(h, target, v) = {h.term[target].to[Side(v)]}
    BY WaysOnC DEF OnAndOn
  <2>4. IsAhead(h, v, b)
    BY <1>1, AheadIs
  <2>5. Ways(h, b, v) \subseteq Ahead(h, v, b)
    BY <2>4 DEF IsAhead
  <2>6. CASE Side(v) = i
    <3>1. target \in Ahead(h, v, b) \cap Silent(h)
      BY <1>1, <2>2, <2>5, <2>6 DEF Silent
    <3>2. Ways(h, target, v) \subseteq Ahead(h, v, b)
      BY <2>4, <3>1 DEF IsAhead
    <3>3. Ways(h, target, v) = {final}
      BY <2>3, <2>6 DEF OnAndOn
    <3>4. k.term[b].to[Side(v)] = final
      BY <1>1, <1>3, <2>6
    <3> QED
      BY <2>1, <3>2, <3>3, <3>4
  <2>7. CASE Side(v) # i
    <3>1. k.term[b].to[Side(v)] = to[Side(v)]
      BY <1>3, <2>1, <2>7
    <3> QED
      BY <2>1, <2>2, <2>5, <3>1
  <2> QED
    BY <2>6, <2>7
<1>7. k.term[b].to # <<>>
  BY <1>4
<1>8. KeepsPaths(h, k)
  <2> SUFFICES ASSUME Good(h) PROVE Good(k) /\ \A v \in BOOLEAN : Preserves(h, k, v)
    BY DEF KeepsPaths
  <2>1. \A v \in BOOLEAN : Preserves(h, k, v)
    BY <1>1, <1>5, <1>6, <1>7, PathsRebranch
  <2>2. entry # final /\ \A j \in 1 .. 2 : entry # to[j]
    <3>1. entry \notin ToSet(to) /\ entry \notin ToSet(h.term[target].to)
      BY <1>1 DEF Good, Unentered
    <3>2. \A j \in 1 .. 2 : to[j] \in ToSet(to)
      BY <1>1, <1>2 DEF ToSet
    <3> QED
      BY <3>1, <3>2, OnAndOnHas
  <2>3. entry \notin ToSet(k.term[b].to)
    <3>1. \A j \in 1 .. 2 : entry # k.term[b].to[j]
      BY <1>3, <2>2
    <3> QED
      BY <1>4, <3>1 DEF ToSet
  <2>4. Good(k)
    BY <1>1, <1>5, <2>3, GoodRebranch
  <2> QED
    BY <2>1, <2>4
<1>9. Follow(h, k)
  BY <1>3, <1>8 DEF Redirects, Follow
<1> QED
  BY <1>4, <1>9 DEF k, IsBranchBranch, TwoWays

\* The only parent of target is b, so that it always goes on to final.
LEMMA OnlyParentSettled ==
    ASSUME NEW h, Typed(h), NEW b, NEW i, NEW target, NEW final, OnAndOn(h, b, i, target, final),
           Len(h.parents[target]) = 1
    PROVE  Settled(h, target, final)
<1> SUFFICES ASSUME Sound(h), Good(h), NEW v \in BOOLEAN
             PROVE  final \in Ways(h, target, v) \/ Avoided(h, v, target)
  BY DEF Settled
<1> DEFINE to == h.term[b].to
<1>1. /\ b \in BB /\ target \in BB /\ final \in BB /\ i \in 1 .. 2 /\ Len(to) = 2 /\ to[i] = target
      /\ h.term[b].op = "br" /\ h.term[b].cond = "c"
  BY DEF OnAndOn
<1>2. Ways(h, b, v) = {to[Side(v)]} /\ Side(v) \in 1 .. 2
  BY <1>1, WaysOnC
<1>3. CASE Side(v) = i
  <2>1. Ways(h, target, v) = {h.term[target].to[Side(v)]}
    BY WaysOnC DEF OnAndOn
  <2> QED
    BY <1>3, <2>1 DEF OnAndOn
<1>4. CASE Side(v) # i
  <2>1. target \in ToSet(to)
    BY OnAndOnHas
  <2>2. target # entry
    BY <1>1, <2>1 DEF Good, Unentered
  <2>3. ASSUME NEW x \in BB \ {target}, target \in Ways(h, x, v) PROVE FALSE
    <3>1. target \in ToSet(h.term[x].to)
      BY <2>3, WaysAre
    <3>2. x = b /\ T(h, b, target) = 1
      BY <1>1, <2>1, <3>1, TwiceParent
    <3>3. to[Side(v)] = target
      BY <1>2, <2>3, <3>2
    <3>4. to \in Seq(BB)
      BY <1>1, Parts DEF Typed
    <3> HIDE DEF to
    <3>5. to[1] = target /\ to[2] = target
      BY <1>1, <1>2, <1>4, <3>3
    <3>6. to = <<target, target>>
      BY <1>1, <3>4, <3>5
    <3>7. Count(<<target, target>>, target) = 2
      BY <1>1, CountTwo
    <3>8. T(h, b, target) = 2
      BY <3>6, <3>7 DEF T, to
    <3> QED
      BY <3>2, <3>8
  <2> QED
    BY <2>2, <2>3 DEF Avoided
<1> QED
  BY <1>3, <1>4

\* A branch to a branch on the same condition.
LEMMA BranchBranchIs ==
    ASSUME NEW h, Typed(h), NEW b \in BB, TwoWays(h, b), NEW i \in 1 .. 2, NEW needed \in BOOLEAN
    PROVE  IsBranchBranch(h, simplify_branch_branch(h, b, i, needed), b)
<1> DEFINE target == h.term[b].to[i]
           t == h.term[target]
           final == t.to[i]
           k == simplify_branch_branch(h, b, i, needed)
<1>1. CASE h.term[b].cond # "c" \/ target = b \/ t.op # "br" \/ t.cond # "c"
  <2>1. k = h
    BY <1>1 DEF simplify_branch_branch
  <2> QED
    BY <2>1, FollowItself DEF IsBranchBranch
<1>2. CASE ~(h.term[b].cond # "c" \/ target = b \/ t.op # "br" \/ t.cond # "c")
  <2>1. h \in Graph /\ h.term[b].to \in Seq(BB) /\ i \in 1 .. Len(h.term[b].to)
    BY <1>2, Parts DEF Typed, TwoWays
  <2>2. target \in BB
    BY <2>1
  <2>3. k = IF h.effects[target] = <<>> /\ ~(needed /\ h.pure[target])
            THEN rewrite_branch(h, b, i, target, final)
            ELSE IF Len(h.parents[target]) = 1 THEN insert_branch(h, target, final)
            ELSE h
    BY <1>2 DEF simplify_branch_branch
  <2>4. target # b /\ t.op = "br" /\ t.cond = "c" /\ h.term[b].to[i] = target
    BY <1>2
  <2> HIDE DEF k, target
  <2>5. t.to \in Seq(BB) /\ Len(t.to) = 2
    BY <2>1, <2>2, <2>4, Parts DEF Typed, Formed
  <2>6. final \in BB /\ final \in ToSet(h.term[target].to)
    BY <2>5 DEF ToSet
  <2> HIDE DEF final
  <2>10. OnAndOn(h, b, i, target, final)
    <3>1. h.term[b].op = "br" /\ h.term[b].cond = "c" /\ Len(h.term[b].to) = 2
      BY <1>2 DEF TwoWays
    <3> QED
      BY <2>2, <2>4, <2>5, <2>6, <3>1 DEF OnAndOn, final
  <2>7. CASE h.effects[target] = <<>> /\ k = rewrite_branch(h, b, i, target, final)
    BY <2>7, <2>10, LeftOutFollows DEF k
  <2>8. CASE Len(h.parents[target]) = 1 /\ k = insert_branch(h, target, final)
    <3>1. Settled(h, target, final)
      BY <2>8, <2>10, OnlyParentSettled
    <3>2. Follow(h, k) /\ \A x \in BB \ {target} : k.term[x] \in {h.term[x], NoTerm}
      BY <2>2, <2>6, <2>8, <3>1, InsertBranchFollows
    <3>3. k.term[b] \in {h.term[b], NoTerm}
      BY <2>4, <3>2
    <3> QED
      BY <3>2, <3>3 DEF k, IsBranchBranch, TwoWays, NoTerm
  <2>9. CASE k = h
    BY <2>9, FollowItself DEF k, IsBranchBranch
  <2> QED
    BY <2>3, <2>7, <2>8, <2>9
<1> QED
  BY <1>1, <1>2

-----------------------------------------------------------------------------
\* The invariant, and the theorems.

\* The parents of b, as linearized.
ParentsOf(term, b) == Loop(LAMBDA ps, p : ps \o [i \in 1 .. Count(term[p].to, b) |-> p], <<>>, Order)

MoreParents(ps, p, term, b) == ps \o [i \in 1 .. Count(term[p].to, b) |-> p]

\* Every block is linearized once.
LEMMA ParentsOfAre ==
    ASSUME NEW term \in [BB -> Term], NEW b \in BB
    PROVE  /\ ParentsOf(term, b) \in Seq(BB)
           /\ \A x \in BB : Count(ParentsOf(term, b), x) = Count(term[x].to, b)
<1> DEFINE s == Order
           N == Len(s)
           V == Seq(BB)
           start == <<>>
           G == [y \in Nat \X V |-> IF y[1] \in 1 .. N THEN MoreParents(y[2], s[y[1]], term, b) ELSE y[2]]
           Fits(n, k) == \A x \in BB : Count(k, x) = IF \E j \in 1 .. n : s[j] = x THEN Count(term[x].to, b) ELSE 0
           J == {y \in (0 .. N) \X V : Fits(y[1], y[2])}
<1>12. s \in Seq(BB) /\ (\A x \in BB : \E j \in 1 .. N : s[j] = x) /\ (\A i, j \in 1 .. N : s[i] = s[j] => i = j)
  BY FlowAssumption
<1> HIDE DEF s
<1>1. N \in Nat /\ start \in V /\ 0 \in Nat
  BY <1>12
<1>13. \A x \in BB : Count(term[x].to, b) \in Nat
  <2> TAKE x \in BB
  <2>1. term[x].to \in Seq(BB)
    BY DEF Term
  <2> QED
    BY <2>1, WhereFinite
<1>14. ASSUME NEW n \in 1 .. N, NEW k \in V
       PROVE  /\ MoreParents(k, s[n], term, b) \in V
              /\ \A x \in BB : Count(MoreParents(k, s[n], term, b), x) =
                                  Count(k, x) + IF x = s[n] THEN Count(term[s[n]].to, b) ELSE 0
  <2>1. s[n] \in BB
    BY <1>12
  <2>2. Count(term[s[n]].to, b) \in Nat
    BY <1>13, <2>1
  <2> DEFINE p == s[n]
             c == Count(term[p].to, b)
             l == k \o [i \in 1 .. c |-> p]
  <2>3. MoreParents(k, s[n], term, b) = l
    BY DEF MoreParents
  <2>4. p \in BB /\ c \in Nat
    BY <2>1, <2>2
  <2> HIDE DEF p, c
  <2>5. l \in Seq(BB) /\ \A x \in BB : Count(l, x) = Count(k, x) + IF x = p THEN c ELSE 0
    BY <2>4, CountCopies
  <2> HIDE DEF l
  <2> QED
    BY <2>3, <2>5 DEF p, c
<1>2. G \in [Nat \X V -> V]
  <2> HIDE DEF V
  <2> QED
    BY <1>14
<1>3. \A n \in 1 .. N : \A k \in V : G[<<n, k>>] = MoreParents(k, s[n], term, b)
  <2> HIDE DEF V
  <2> QED
    BY <1>1
<1>4. PICK f \in [0 .. N -> V] : Follows(f, 0, N, start, G)
  <2> HIDE DEF N, G, V, start
  <2> QED
    BY <1>1, <1>2, Recursive
<1>5. ParentsOf(term, b) = f[N]
  <2> DEFINE Val(hh, n) ==
                 IF n = 0 THEN start
                 ELSE CHOOSE r \in {MoreParents(k, s[n], term, b) : k \in {hh[n - 1]}} : TRUE
             E(hh) == hh = [n \in 0 .. N |-> Val(hh, n)]
             after == CHOOSE hh : E(hh)
  <2>1. ParentsOf(term, b) = after[N]
    BY DEF ParentsOf, Loop, MoreParents, s
  <2>2. \A n \in 1 .. N : \A hh : Val(hh, n) = MoreParents(hh[n - 1], s[n], term, b)
    <3> TAKE n \in 1 .. N
    <3> TAKE hh
    <3>1. n # 0
      BY <1>1
    <3>2. {MoreParents(k, s[n], term, b) : k \in {hh[n - 1]}} = {MoreParents(hh[n - 1], s[n], term, b)}
      OBVIOUS
    <3> QED
      BY <3>1, <3>2, OnlyOne
  <2>3. \A hh : Val(hh, 0) = start
    OBVIOUS
  <2> HIDE DEF Val, G, N, start, V
  <2>4. \A n \in 0 .. N : f[n] = Val(f, n)
    <3> TAKE n \in 0 .. N
    <3>1. f[n] = IF n = 0 THEN start ELSE G[<<n, f[n - 1]>>]
      BY <1>4 DEF Follows
    <3>2. n # 0 => n \in 1 .. N /\ n - 1 \in 0 .. N
      BY <1>1
    <3>3. n # 0 => G[<<n, f[n - 1]>>] = Val(f, n)
      <4>1. n # 0 => f[n - 1] \in V
        BY <1>4, <3>2
      <4>2. n # 0 => Val(f, n) = MoreParents(f[n - 1], s[n], term, b)
        BY <2>2, <3>2
      <4> QED
        BY <1>3, <3>2, <4>1, <4>2
    <3> QED
      BY <2>3, <3>1, <3>3
  <2>5. E(f)
    BY <2>4
  <2>6. E(after)
    <3> HIDE DEF E
    <3> QED
      BY <2>5
  <2> HIDE DEF after
  <2>7. \A n \in 0 .. N : after[n] = Val(after, n)
    BY <2>6
  <2> HIDE DEF E
  <2>8. f[0] = after[0]
    BY <1>1, <2>3, <2>4, <2>7
  <2>9. \A n \in 1 .. N : f[n - 1] = after[n - 1] => f[n] = after[n]
    <3> TAKE n \in 1 .. N
    <3>1. n \in 0 .. N
      BY <1>1
    <3>2. f[n] = MoreParents(f[n - 1], s[n], term, b)
      BY <2>2, <2>4, <3>1
    <3>3. after[n] = MoreParents(after[n - 1], s[n], term, b)
      BY <2>2, <2>7, <3>1
    <3> QED
      BY <3>2, <3>3
  <2>10. Alike(f, after, N)
    BY <1>1, <2>8, <2>9, SameSteps DEF Stepwise
  <2> QED
    BY <1>1, <2>1, <2>10 DEF Alike
<1>6. Fits(0, start)
  BY CountEmpty
<1>7. ASSUME NEW n \in 1 .. N, NEW k \in V, Fits(n - 1, k)
      PROVE  Fits(n, G[<<n, k>>])
  <2> DEFINE l == MoreParents(k, s[n], term, b)
  <2>1. G[<<n, k>>] = l
    <3> HIDE DEF G, V, N, Fits
    <3> QED
      BY <1>3
  <2> HIDE DEF l
  <2>2. \A x \in BB : Count(l, x) = Count(k, x) + IF x = s[n] THEN Count(term[s[n]].to, b) ELSE 0
    BY <1>14 DEF l
  <2>3. \A j : j \in 1 .. n <=> j \in 1 .. n - 1 \/ j = n
    BY <1>1
  <2>4. ~\E j \in 1 .. n - 1 : s[j] = s[n]
    <3>1. \A j \in 1 .. n - 1 : j \in 1 .. N /\ j # n
      BY <1>1
    <3> QED
      BY <1>12, <3>1
  <2> SUFFICES ASSUME NEW x \in BB
               PROVE  Count(l, x) = IF \E j \in 1 .. n : s[j] = x THEN Count(term[x].to, b) ELSE 0
    BY <2>1
  <2>5. Count(k, x) = IF \E j \in 1 .. n - 1 : s[j] = x THEN Count(term[x].to, b) ELSE 0
    BY <1>7
  <2>6. CASE x = s[n]
    <3>1. \E j \in 1 .. n : s[j] = x
      BY <2>3, <2>6
    <3>2. Count(k, x) = 0
      BY <2>4, <2>5, <2>6
    <3>3. Count(l, x) = 0 + Count(term[x].to, b)
      BY <2>2, <2>6, <3>2
    <3> QED
      BY <1>13, <3>1, <3>3
  <2>7. CASE x # s[n]
    <3>1. (\E j \in 1 .. n : s[j] = x) <=> \E j \in 1 .. n - 1 : s[j] = x
      BY <2>3, <2>7
    <3>2. Count(l, x) = Count(k, x) + 0
      BY <2>2, <2>7
    <3> QED
      BY <1>13, <2>5, <3>1, <3>2
  <2> QED
    BY <2>6, <2>7
<1>8. <<0, start>> \in J
  <2> HIDE DEF Fits, N, V, start
  <2> QED
    BY <1>1, <1>6
<1>9. \A n \in 1 .. N : \A k \in V : <<n - 1, k>> \in J => <<n, G[<<n, k>>]>> \in J
  <2> TAKE n \in 1 .. N
  <2> TAKE k \in V
  <2>1. <<n - 1, k>> \in J => Fits(n - 1, k)
    <3> HIDE DEF Fits, V
    <3> QED
      OBVIOUS
  <2>2. n \in 0 .. N /\ n \in Nat
    BY <1>1
  <2> HIDE DEF Fits, G, V, N
  <2> QED
    BY <1>2, <1>7, <2>1, <2>2
<1>10. f[N] \in V /\ <<N, f[N]>> \in J
  <2> HIDE DEF J, G, N, V, start
  <2> QED
    BY <1>1, <1>2, <1>4, <1>8, <1>9, Looped
<1>11. Fits(N, f[N])
  <2> HIDE DEF Fits, N, V
  <2> QED
    BY <1>10
<1>15. \A x \in BB : Count(f[N], x) = Count(term[x].to, b)
  BY <1>11, <1>12
<1> QED
  BY <1>5, <1>10, <1>15

\* What linearize_fn starts from.
LEMMA LinearizedIs ==
    ASSUME NEW p \in Programs
    PROVE  /\ Good(Linearized(p.term, p.body)) /\ Sound(Linearized(p.term, p.body))
           /\ Linearized(p.term, p.body).bbs = Order
<1> DEFINE k == Linearized(p.term, p.body)
           ps == [b \in BB |-> ParentsOf(p.term, b)]
           cs == [b \in BB |-> p.term[b].to]
           pu == [b \in BB |-> b = entry \/ p.body[b] = "pure"]
           es == [b \in BB |-> IF b = entry \/ p.body[b] = "effect" THEN <<b>> ELSE <<>>]
           tm == p.term
           m == [bbs |-> Order, children |-> cs, parents |-> ps, term |-> tm, pure |-> pu, effects |-> es,
                 repeat |-> FALSE, asserts |-> TRUE]
<1>1. tm \in [BB -> Term] /\ \A b \in BB : Formed(tm[b])
  BY FlowAssumption
<1>2. Order \in Seq(BB) /\ \A b \in BB : b \in ToSet(Order)
  BY FlowAssumption DEF ToSet
<1>3. k = m
  BY DEF Linearized, ParentsOf
<1> HIDE DEF tm
<1>4. ps \in [BB -> Seq(BB)] /\ \A x, y \in BB : Count(ps[y], x) = Count(tm[x].to, y)
  <2>1. \A y \in BB : ParentsOf(tm, y) \in Seq(BB) /\ \A x \in BB : Count(ParentsOf(tm, y), x) = Count(tm[x].to, y)
    BY <1>1, ParentsOfAre
  <2> QED
    BY <2>1 DEF tm
<1>5. cs \in [BB -> Seq(BB)] /\ \A x \in BB : cs[x] = tm[x].to
  BY <1>1 DEF Term, tm
<1>6. pu \in [BB -> BOOLEAN]
  OBVIOUS
<1>7. /\ es \in [BB -> Seq(BB)] /\ \A b \in BB : es[b] = <<>> \/ es[b] = <<b>>
      /\ es[entry] = <<entry>>
  <2>2. es[entry] = <<entry>>
    BY FlowAssumption
  <2>1. \A b \in BB : <<b>> \in Seq(BB) /\ <<>> \in Seq(BB)
    OBVIOUS
  <2> QED
    BY <2>1, <2>2
<1> HIDE DEF ps, cs, pu, es, k
<1>8. k \in Graph /\ k.bbs = Order /\ k.children = cs /\ k.parents = ps /\ k.term = tm /\ k.effects = es
  BY <1>1, <1>2, <1>3, <1>4, <1>5, <1>6, <1>7 DEF Graph
<1> HIDE DEF m
<1>9. Typed(k)
  BY <1>1, <1>8 DEF Typed
<1>10. Agree(k)
  BY <1>4, <1>5, <1>8 DEF Agree, C, P, T
<1>11. Unlisted(k)
  BY <1>2, <1>8 DEF Unlisted
<1>12. Ordered(k)
  <2> SUFFICES ASSUME NEW a \in BB, NEW b \in BB, NEW i \in DOMAIN es[a], NEW j \in DOMAIN es[b], es[a][i] = es[b][j]
               PROVE  a = b /\ i = j
    BY <1>8 DEF Ordered
  <2>1. \A x \in BB : \A n \in DOMAIN es[x] : n = 1 /\ es[x][n] = x
    <3> TAKE x \in BB
    <3>1. CASE es[x] = <<>>
      BY <3>1
    <3>2. CASE es[x] = <<x>>
      BY <3>2
    <3> QED
      BY <1>7, <3>1, <3>2
  <2> QED
    BY <2>1
<1>13. Starts(k)
  <2>1. <<entry>> # <<>> /\ <<entry>>[1] = entry
    OBVIOUS
  <2> QED
    BY <1>7, <1>8, <2>1 DEF Starts
<1>14. Unentered(k)
  BY <1>8, FlowAssumption DEF Unentered, tm
<1> QED
  BY <1>8, <1>9, <1>10, <1>11, <1>12, <1>13, <1>14 DEF Good, Sound, k

\* As long as no assertion has failed, all edges are kept in three places, and a
\* block that is not listed has been killed; each side effect is in one place.
IInv == TypeOK /\ (g.asserts => Sound(g) /\ Good(g))

\* The invariant holds of every function that has been linearized.
LEMMA InitInv == Init => IInv
<1> SUFFICES ASSUME Init PROVE IInv
  OBVIOUS
<1>1. PICK p \in Programs : g = Linearized(p.term, p.body)
  BY DEF Init
<1>2. Typed(g) /\ Good(g) /\ Sound(g) /\ g.bbs = Order
  BY <1>1, LinearizedIs DEF Good
<1>3. at \in 1 .. Len(g.bbs) + 1
  <2>1. Len(Order) \in Nat
    BY FlowAssumption
  <2> QED
    BY <1>2, <2>1 DEF Init
<1> QED
  BY <1>2, <1>3 DEF Init, IInv, TypeOK, Typed

\* A step that keeps the lists and the paths keeps the invariant.
Kept == IInv' /\ KeepsPaths(g, g')

\* What the invariant says of the next graph.
LEMMA PrimedInv ==
    ASSUME Typed(g'), g'.asserts => Sound(g') /\ Good(g'), phase' \in {"cse", "pack", "flow", "done"},
           changed' \in BOOLEAN, at' \in 1 .. Len(g'.bbs) + 1
    PROVE  IInv'
<1>1. TypeOK'
  BY DEF TypeOK, Typed
<1>2. Typed(g)'
  BY DEF Typed
<1>3. g'.asserts => Sound(g)'
  BY DEF Sound, Agree, Unlisted, C, P, T
<1>4. g'.asserts => Ordered(g)'
  BY DEF Good, Ordered
<1>5. g'.asserts => Starts(g)' /\ Unentered(g)'
  BY DEF Good, Starts, Unentered
<1>6. g'.asserts => Good(g)'
  BY <1>2, <1>4, <1>5 DEF Good
<1> QED
  BY <1>1, <1>3, <1>6 DEF IInv

\* So does an edit of the graph.
LEMMA EditInv ==
    ASSUME IInv, g.asserts, Follow(g, g'), phase' \in {"cse", "pack", "flow", "done"}, changed' \in BOOLEAN,
           at' \in 1 .. Len(g.bbs) + 1
    PROVE  Kept
<1>1. Sound(g) /\ Good(g)
  BY DEF IInv
<1>2. Typed(g') /\ g'.bbs = g.bbs /\ Sound(g') /\ KeepsPaths(g, g')
  BY <1>1 DEF Follow
<1>3. Good(g')
  BY <1>1, <1>2 DEF KeepsPaths
<1> QED
  BY <1>2, <1>3, PrimedInv DEF Kept

\* Every step needs that no assertion has failed yet.
LEMMA NextAsserts == Next => g.asserts
BY DEF Next, Cse, CondIsConstant, BodyIsDead, simplify_constant_branch, simplify_same_target, simplify_cond_branch,
       simplify_switch, EndOfCse, pack_basic_blocks, PackedSome, PackedAll, EndOfPass, simplify_branch_nodes, EndOfFlow

\* Every step of linearize_fn keeps the invariant and changes no path.
LEMMA NextInv == IInv /\ Next => Kept
<1> SUFFICES ASSUME IInv, Next PROVE Kept
  OBVIOUS
<1>16. g.asserts
  BY NextAsserts
<1>1. /\ Typed(g) /\ (g.asserts => Sound(g) /\ Good(g)) /\ phase \in {"cse", "pack", "flow", "done"}
      /\ changed \in BOOLEAN /\ at \in 1 .. Len(g.bbs) + 1
  BY DEF IInv, TypeOK, Typed
<1>2. g.bbs \in Seq(BB) /\ Len(g.bbs) \in Nat /\ g.term \in [BB -> Term]
  BY <1>1, Parts DEF Typed
<1>4. ASSUME NEW b \in BB, Cse, Follow(g, g') PROVE Kept
  BY <1>1, <1>16, <1>4, EditInv DEF Cse
<1>5. ASSUME NEW b \in ToSet(g.bbs), CondIsConstant(b) PROVE Kept
  <2>1. b \in BB
    BY <1>2 DEF ToSet
  <2>2. Cse /\ g.term[b].cond = "other"
    BY <1>5 DEF CondIsConstant, Cond
  <2>3. PICK v \in {"true", "false"} : g' = [g EXCEPT !.term[b].cond = v]
    BY <1>5 DEF CondIsConstant
  <2>5. Follow(g, g')
    BY <1>1, <2>1, <2>2, <2>3, NewCondFollows
  <2> QED
    BY <1>4, <2>1, <2>2, <2>5
<1>6. ASSUME NEW b \in ToSet(g.bbs), BodyIsDead(b) PROVE Kept
  <2>1. b \in BB
    BY <1>2 DEF ToSet
  <2>2. Cse /\ g' = [g EXCEPT !.pure[b] = FALSE]
    BY <1>6 DEF BodyIsDead
  <2>3. Follow(g, g')
    BY <1>1, <2>1, <2>2, NewPureFollows
  <2> QED
    BY <1>4, <2>1, <2>2, <2>3
<1>7. ASSUME NEW b \in ToSet(g.bbs), simplify_constant_branch(b) PROVE Kept
  <2>1. b \in BB /\ g.term[b].to \in Seq(BB)
    BY <1>1, <1>2, Parts DEF ToSet, Typed
  <2>2. /\ Cse /\ g.term[b].op = "br" /\ Len(g.term[b].to) = 2 /\ g.term[b].cond \in {"true", "false"}
        /\ g' = insert_branch(g, b, Chosen(g.term[b]))
    BY <1>7 DEF simplify_constant_branch, TwoWay, Cond
  <2>3. Chosen(g.term[b]) \in ToSet(g.term[b].to)
    BY <2>1, <2>2 DEF Chosen, ToSet
  <2>5. Settled(g, b, Chosen(g.term[b]))
    <3>1. \A v \in BOOLEAN : Chosen(g.term[b]) \in Ways(g, b, v)
      BY <2>2 DEF Ways, Chosen
    <3> QED
      BY <3>1 DEF Settled
  <2>4. Follow(g, g')
    BY <1>1, <2>1, <2>2, <2>3, <2>5, InsertBranchFollows
  <2> QED
    BY <1>4, <2>1, <2>2, <2>4
<1>8. ASSUME NEW b \in ToSet(g.bbs), simplify_same_target(b) PROVE Kept
  <2>1. b \in BB
    BY <1>2 DEF ToSet
  <2> DEFINE t == g.term[b].to[1]
  <2>2. /\ Cse /\ g.term[b].op = "br" /\ Len(g.term[b].to) = 2 /\ g.term[b].to[2] = t
        /\ g' = [RemoveParent1(g, t, b) EXCEPT !.children[b] = RemoveFirst(@, t), !.term[b] = Goto(t)]
    BY <1>8 DEF simplify_same_target, TwoWay
  <2>3. Follow(g, g')
    BY <1>1, <2>1, <2>2, SameTargetFollows
  <2> QED
    BY <1>4, <2>1, <2>2, <2>3
<1>9. ASSUME NEW b \in ToSet(g.bbs), simplify_cond_branch(b) PROVE Kept
  <2>1. b \in BB
    BY <1>2 DEF ToSet
  <2>2. /\ Cse /\ g.term[b].op = "br" /\ Len(g.term[b].to) = 2 /\ g.term[b].cond = "notc"
        /\ g' = [g EXCEPT !.term[b].cond = "c", !.term[b].to = <<@[2], @[1]>>]
    BY <1>9 DEF simplify_cond_branch, TwoWay, Cond
  <2>3. Follow(g, g')
    BY <1>1, <2>1, <2>2, NegatedFollows
  <2> QED
    BY <1>4, <2>1, <2>2, <2>3
<1>10. ASSUME NEW b \in ToSet(g.bbs), simplify_switch(b) PROVE Kept
  <2>1. b \in BB
    BY <1>2 DEF ToSet
  <2>2. PICK t \in ToSet(g.term[b].to) : g' = insert_branch(g, b, t)
    BY <1>10 DEF simplify_switch
  <2>4. Cse /\ g.term[b].op = "switch"
    BY <1>10 DEF simplify_switch
  <2>5. Settled(g, b, t)
    <3>1. \A v \in BOOLEAN : t \in Ways(g, b, v)
      BY <2>2, <2>4 DEF Ways
    <3> QED
      BY <3>1 DEF Settled
  <2>3. Follow(g, g')
    BY <1>1, <2>1, <2>2, <2>5, InsertBranchFollows
  <2> QED
    BY <1>4, <2>1, <2>3, <2>4
<1>11. CASE EndOfCse
  <2> DEFINE m == [g EXCEPT !.repeat = FALSE]
  <2>1. g' = m /\ phase' = "pack" /\ at' = at /\ changed' = changed
    BY <1>11 DEF EndOfCse
  <2>2. /\ m \in Graph /\ m.bbs = g.bbs /\ m.asserts = g.asserts /\ m.children = g.children
        /\ m.parents = g.parents /\ m.term = g.term /\ m.effects = g.effects
    BY <1>1 DEF Typed, Graph
  <2> HIDE DEF m
  <2>3. Follow(g, m)
    <3>1. Typed(m)
      BY <1>1, <2>2 DEF Typed
    <3>2. Sound(g) => Sound(m)
      BY <2>2 DEF Sound, Agree, Unlisted, C, P, T
    <3> QED
      BY <2>2, <3>1, <3>2, PathsSame DEF Follow
  <2> QED
    BY <1>1, <2>1, <2>3, <1>16, EditInv
<1>12. CASE pack_basic_blocks
  <2>1. at \in 1 .. Len(g.bbs) /\ at + 1 \in 1 .. Len(g.bbs) + 1
    BY <1>1, <1>2, <1>12 DEF pack_basic_blocks
  <2>2. g.bbs[at] \in BB
    BY <1>2, <2>1
  <2>3. Follow(g, pack_one(g, g.bbs[at]))
    BY <1>1, <2>2, PackFollows
  <2>4. g' = pack_one(g, g.bbs[at]) /\ at' = at + 1 /\ phase' = phase /\ changed' = changed
    BY <1>12 DEF pack_basic_blocks
  <2>5. Follow(g, g')
    BY <2>3, <2>4
  <2> QED
    BY <1>1, <2>1, <2>4, <2>5, <1>16, EditInv
<1>13. CASE PackedSome \/ EndOfFlow
  <2>1. /\ g' = g /\ at' = 1 /\ changed' = FALSE /\ phase' \in {"cse", "pack", "flow", "done"}
    BY <1>13 DEF PackedSome, EndOfFlow, EndOfPass
  <2>2. Follow(g, g')
    BY <1>1, <2>1, FollowItself
  <2>3. at' \in 1 .. Len(g.bbs) + 1
    <3>1. 1 \in 1 .. Len(g.bbs) + 1
      BY <1>2
    <3> QED
      BY <2>1, <3>1
  <2>4. changed' \in BOOLEAN
    BY <2>1
  <2> QED
    BY <2>1, <2>2, <2>3, <2>4, <1>16, EditInv
<1>14. CASE PackedAll
  <2> DEFINE k == kill_unreachable_bbs(g)
  <2>1. /\ at' = 1 /\ changed' = FALSE /\ phase' = "flow" /\ g' = Asserted(k, vrfy_flow(k)) /\ g.asserts
    BY <1>14 DEF PackedAll, EndOfPass
  <2>2. IsSwept(g, k)
    BY <1>1, SweptIs
  <2>3. vrfy_flow(k) \in BOOLEAN
    BY DEF vrfy_flow, Contains
  <2> HIDE DEF k
  <2>4. Follow(k, g')
    BY <2>1, <2>2, <2>3, AssertedFollows DEF IsSwept
  <2>5. Typed(g') /\ Sound(g') /\ KeepsPaths(g, g')
    BY <1>1, <1>16, <2>2, <2>4, PathsAll DEF IsSwept, Follow
  <2>6. Good(g')
    BY <1>1, <1>16, <2>5 DEF KeepsPaths
  <2>7. at' \in 1 .. Len(g'.bbs) + 1
    <3>1. Len(g'.bbs) \in Nat
      BY <2>5, Parts DEF Typed
    <3>2. 1 \in 1 .. Len(g'.bbs) + 1
      BY <3>1
    <3> QED
      BY <2>1, <3>2
  <2>8. changed' \in BOOLEAN /\ phase' \in {"cse", "pack", "flow", "done"}
    BY <2>1
  <2> QED
    BY <2>5, <2>6, <2>7, <2>8, PrimedInv DEF Kept
<1>15. CASE simplify_branch_nodes
  <2>1. at \in 1 .. Len(g.bbs) /\ at + 1 \in 1 .. Len(g.bbs) + 1
    BY <1>1, <1>2, <1>15 DEF simplify_branch_nodes
  <2> DEFINE b == g.bbs[at]
  <2>2. b \in BB
    BY <1>2, <2>1
  <2>3. at' = at + 1 /\ phase' = phase /\ changed' \in BOOLEAN
    BY <1>1, <1>15 DEF simplify_branch_nodes
  <2>4. \/ TwoWay(b) /\ try_to_simplify_bb(b)
        \/ TwoWay(b) /\ simplify_both_ways(b)
        \/ UNCHANGED g
    BY <1>15 DEF simplify_branch_nodes
  <2> HIDE DEF b
  <2>5. CASE TwoWay(b) /\ try_to_simplify_bb(b)
    <3>1. Forks(g, b)
      BY <2>5 DEF TwoWay, Forks, try_to_simplify_bb, Cond
    <3>2. PICK way \in [ToSet(g.parents[b]) -> 0 .. 2] : g' = Threaded(g, b, way)
      BY <2>5 DEF try_to_simplify_bb, Threaded
    <3>3. Follow(g, g')
      BY <1>1, <2>2, <3>1, <3>2, ThreadedFollows
    <3> QED
      BY <1>1, <2>1, <2>3, <3>3, <1>16, EditInv
  <2>6. CASE TwoWay(b) /\ simplify_both_ways(b)
    <3>1. TwoWays(g, b)
      BY <2>6 DEF TwoWay, TwoWays
    <3>2. PICK i \in 1 .. 2, needed \in [1 .. 2 -> BOOLEAN] :
             g' = simplify_branch_branch(simplify_branch_branch(g, b, i, needed[i]), b, 3 - i, needed[3 - i])
      BY <2>6 DEF simplify_both_ways
    <3>3. 3 - i \in 1 .. 2 /\ needed[i] \in BOOLEAN /\ needed[3 - i] \in BOOLEAN
      OBVIOUS
    <3> DEFINE h == simplify_branch_branch(g, b, i, needed[i])
    <3>4. IsBranchBranch(g, h, b)
      BY <1>1, <2>2, <3>1, <3>3, BranchBranchIs
    <3> HIDE DEF h
    <3>5. IsBranchBranch(h, g', b)
      <4>1. Typed(h) /\ TwoWays(h, b)
        BY <3>4 DEF IsBranchBranch, Follow
      <4>2. g' = simplify_branch_branch(h, b, 3 - i, needed[3 - i])
        BY <3>2 DEF h
      <4> QED
        BY <2>2, <3>3, <4>1, <4>2, BranchBranchIs
    <3>6. Follow(g, g')
      BY <3>4, <3>5, FollowAll DEF IsBranchBranch
    <3> QED
      BY <1>1, <2>1, <2>3, <3>6, <1>16, EditInv
  <2>7. CASE UNCHANGED g
    <3>1. Follow(g, g')
      BY <1>1, <2>7, FollowItself
    <3> QED
      BY <1>1, <2>1, <2>3, <3>1, <1>16, EditInv
  <2> QED
    BY <2>4, <2>5, <2>6, <2>7
<1> QED
  BY <1>5, <1>6, <1>7, <1>8, <1>9, <1>10, <1>11, <1>12, <1>13, <1>14, <1>15 DEF Next

\* The invariant holds after every step, or nothing has changed.
LEMMA StepInv == IInv /\ [Next]_vars => IInv'
<1>1. IInv /\ Next => IInv'
  BY NextInv DEF Kept
<1>2. IInv /\ UNCHANGED vars => IInv'
  <2> SUFFICES ASSUME IInv, UNCHANGED vars PROVE IInv'
    OBVIOUS
  <2>1. g' = g /\ phase' = phase /\ at' = at /\ changed' = changed
    BY DEF vars
  <2>2. Typed(g) /\ (g.asserts => Sound(g) /\ Good(g)) /\ phase \in {"cse", "pack", "flow", "done"}
    BY DEF IInv, TypeOK, Typed
  <2>3. changed \in BOOLEAN /\ at \in 1 .. Len(g.bbs) + 1
    BY DEF IInv, TypeOK
  <2> QED
    BY <2>1, <2>2, <2>3, PrimedInv
<1> QED
  BY <1>1, <1>2

\* What PathsKept says of a step, whatever the value of c.
SamePaths(h, k, v) ==
    \A after \in {After(k, v)} : \A happen \in {From(after, {entry})} :
        /\ {q \in after : q[1] \in happen} \subseteq After(h, v)
        /\ \A s \in happen \cap BB : \E q \in after : q[1] = s

\* An edit that keeps the paths of a good graph does what it says.
LEMMA KeepsSame ==
    ASSUME NEW h, NEW k, Good(h), KeepsPaths(h, k), NEW v \in BOOLEAN
    PROVE  SamePaths(h, k, v)
<1> SUFFICES ASSUME NEW after, after = After(k, v), NEW happen, happen = From(after, {entry})
             PROVE  /\ {q \in after : q[1] \in happen} \subseteq After(h, v)
                    /\ \A s \in happen \cap BB : \E q \in after : q[1] = s
  BY DEF SamePaths
<1>1. Good(k) /\ Preserves(h, k, v)
  BY DEF KeepsPaths
<1>2. ASSUME NEW s \in happen PROVE Happens(k, v, s)
  <2> SUFFICES ASSUME NEW X, Onward(k, v, X) PROVE s \in X
    BY DEF Happens
  <2>1. {entry} \subseteq X /\ \A q \in after : q[1] \in X => q[2] \in X
    BY DEF Onward
  <2>2. From(after, {entry}) \subseteq X
    BY <2>1, FromLeast
  <2> QED
    BY <2>2
<1>3. {q \in after : q[1] \in happen} \subseteq After(h, v)
  BY <1>1, <1>2 DEF Preserves
<1>4. \A s \in happen \cap BB : \E q \in after : q[1] = s
  BY <1>1, <1>2, Goes
<1> QED
  BY <1>3, <1>4

\* No step lets the function do what it could not do before.
LEMMA NextPaths == IInv /\ Next => \A v \in BOOLEAN : SamePaths(g, g', v)
<1> SUFFICES ASSUME IInv, Next PROVE \A v \in BOOLEAN : SamePaths(g, g', v)
  OBVIOUS
<1>1. Good(g)
  BY NextAsserts DEF IInv
<1>2. KeepsPaths(g, g')
  BY NextInv DEF Kept
<1> QED
  BY <1>1, <1>2, KeepsSame

\* The graph is one, its branches are formed as linearize.c forms them, and the loops
\* stay within ep->bbs, for any blocks and any function.
THEOREM TypeCorrect == Spec => []TypeOK
<1>1. IInv => TypeOK
  BY DEF IInv
<1> QED
  BY InitInv, StepInv, <1>1, PTL DEF Spec

\* Until an assertion fails an edge is as often a child of its source and a parent of
\* its target as a target of the branch (insert_branch, rewrite_branch, kill_bb,
\* pack_basic_blocks, kill_unreachable_bbs and the rest), for any blocks and any function.
THEOREM EdgesCorrect == Spec => []EdgesAgree
<1>1. IInv => EdgesAgree
  BY DEF IInv, Sound, Agree, EdgesAgree, C, P, T
<1> QED
  BY InitInv, StepInv, <1>1, PTL DEF Spec

\* No edit of the graph (constant folding of a branch, merging and skipping of blocks,
\* jump threading, killing what is out of reach) lets the side effects happen in an order
\* that was not possible before, the function return where it could not, or a path run
\* into a killed block; for any blocks and any function.
THEOREM EffectsKept == Spec => PathsKept
<1> DEFINE A == \A v \in BOOLEAN : \A after \in {After(g', v)} : \A happen \in {From(after, {entry})} :
                   /\ {q \in after : q[1] \in happen} \subseteq After(g, v)
                   /\ \A s \in happen \cap BB : \E q \in after : q[1] = s
<1>1. IInv /\ [Next]_vars => [A]_<<g.term, g.effects>>
  <2>1. IInv /\ Next => A
    BY NextPaths DEF SamePaths
  <2>2. UNCHANGED vars => UNCHANGED <<g.term, g.effects>>
    BY DEF vars
  <2> HIDE DEF A
  <2> QED
    BY <2>1, <2>2
<1> QED
  BY InitInv, StepInv, <1>1, PTL DEF Spec, PathsKept
===============================================================================
