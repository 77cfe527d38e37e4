-------------------------- MODULE SortList_proofs --------------------------
(***************************************************************************)
(* Proofs about SortList: whatever lists are sorted, by whatever ranks.    *)
(***************************************************************************)
EXTENDS SortList, Recursion_proofs, Integers

Number == Len(given)
Places == 1 .. Number

\* r lists all the blocks, each once, as next and prev go around.
Listing(r) ==
    /\ r \in [Places -> Blocks]
    /\ \A b \in Blocks : \E i \in Places : r[i] = b
    /\ \A i, j \in Places : r[i] = r[j] => i = j

Right(r, i) == IF i = Number THEN r[1] ELSE r[i + 1]
Left(r, i) == IF i = 1 THEN r[Number] ELSE r[i - 1]

Ring(r) ==
    /\ Listing(r)
    /\ \A i \in Places : next[r[i]] = Right(r, i)
    /\ \A i \in Places : prev[r[i]] = Left(r, i)

Merging == pc \in {"skip2", "skip1", "merge", "next1", "next2", "flush"}

\* The block the list starts with: head is where it was before the merge.
First == IF Merging /\ block1 = head THEN newhead ELSE head

\* Both sequences in the list: the first starts with its q1-th block and the
\* second further on with its q2-th, and neither goes beyond the end of the list.
\* All blocks between them are empty ones that were skipped.  In "next2" the block
\* that was moved is counted in m, and b2 is after it.
Cursors(r, q1, q2) ==
    /\ q1 \in Places /\ b1 = r[q1] /\ (block1 # head => q1 # 1)
    /\ q2 \in Nat /\ q1 + n <= q2
    /\ \A k \in q1 + n .. q2 - 1 : k \in Places => Len(given[r[k]]) = 0
    /\ m # 0 /\ (n = 0 <=> pc = "flush")
    /\ IF pc = "next2" THEN q2 + m <= Number + 2 /\ (m # 1 => b2 = r[q2])
       ELSE q2 + m <= Number + 1 /\ b2 = r[q2]

\* The elements are in their blocks, as many as there were.
ListOK(l) == l \in [Blocks -> Seq(Elements)] /\ \A b \in Blocks : Len(l[b]) = Len(given[b])

\* The type invariant, one variable at a time.
Typed ==
    /\ ListOK(list)
    /\ next \in [Blocks -> Blocks] /\ prev \in [Blocks -> Blocks]
    /\ pc \in {"fragments", "pair", "skip2", "skip1", "merge", "next1", "next2", "flush", "done"}
    /\ head \in Blocks /\ plist \in Blocks /\ block1 \in Blocks /\ after \in Blocks
    /\ b1 \in Blocks /\ b2 \in Blocks /\ newhead \in Blocks
    /\ blocks \in Nat \ {0} /\ n \in Nat /\ m \in Nat /\ i1 \in Nat /\ i2 \in Nat
    /\ buffer \in Seq(Elements)

\* Nothing has been taken yet.
Fresh ==
    /\ pc \in {"skip2", "skip1"} => i1 = 0 /\ i2 = 0 /\ buffer = <<>>
    /\ pc = "skip1" => nr(b2) # 0

Layout(r, q1, q2) ==
    /\ Ring(r) /\ First = r[1]
    /\ Merging => Cursors(r, q1, q2)

Inv(r, q1, q2) ==
    /\ given \in Lists
    /\ Typed /\ BufferExact /\ Fresh
    /\ r \in [Places -> Blocks] /\ q1 \in Nat /\ q2 \in Nat
    /\ Layout(r, q1, q2)

-----------------------------------------------------------------------------
\* What one sequence after another is.
LEMMA Concatenated ==
    ASSUME NEW S, NEW u \in Seq(S), NEW v \in Seq(S)
    PROVE  /\ u \o v \in Seq(S) /\ Len(u \o v) = Len(u) + Len(v)
           /\ \A i \in 1 .. Len(u) + Len(v) : (u \o v)[i] = IF i <= Len(u) THEN u[i] ELSE v[i - Len(u)]
OBVIOUS

\* u is s with e put in after the last element that has no higher rank.
Inserted(u, s, e) ==
    \E at \in 0 .. Len(s) :
        /\ \A i \in 1 .. Len(s) + 1 :
              u[i] = IF i <= at THEN s[i] ELSE IF i = at + 1 THEN e ELSE s[i - 1]
        /\ at > 0 => Rank[s[at]] <= Rank[e]
        /\ \A k \in at + 1 .. Len(s) : Rank[s[k]] > Rank[e]

\* Going back past the elements of a higher rank ends somewhere: an element is
\* put in, and none is lost.
LEMMA InsertIs ==
    ASSUME SortAssumption, NEW s \in Seq(Elements), NEW e \in Elements
    PROVE  /\ Insert(s, e) \in Seq(Elements) /\ Len(Insert(s, e)) = Len(s) + 1
           /\ Inserted(Insert(s, e), s, e)
<1> DEFINE Fits(j) == /\ j > 0 => Rank[s[j]] <= Rank[e]
                      /\ \A k \in j + 1 .. Len(s) : Rank[s[k]] > Rank[e]
           T == {j \in 0 .. Len(s) : j = 0 \/ Rank[s[j]] <= Rank[e]}
           at == CHOOSE j \in 0 .. Len(s) : Fits(j)
<1>1. Len(s) \in Nat /\ \A j \in 1 .. Len(s) : Rank[s[j]] \in Nat /\ Rank[e] \in Nat
  BY DEF SortAssumption
<1>2. \E j \in 0 .. Len(s) : Fits(j)
  <2>1. T # {} /\ T \subseteq 0 .. Len(s)
    BY <1>1
  <2>2. PICK j \in T : \A i \in T : i <= j
    <3> HIDE DEF T
    <3> QED
      BY <1>1, <2>1, Greatest
  <2>3. ASSUME NEW k \in j + 1 .. Len(s) PROVE Rank[s[k]] > Rank[e]
    <3>1. k \in 0 .. Len(s) /\ k \in 1 .. Len(s) /\ ~(k <= j)
      BY <1>1
    <3>2. k \notin T
      BY <2>2, <3>1
    <3> QED
      BY <1>1, <3>1, <3>2
  <2> QED
    BY <2>2, <2>3
<1>3. at \in 0 .. Len(s) /\ Fits(at)
  BY <1>2
<1> HIDE DEF at
<1>4. /\ SubSeq(s, 1, at) \in Seq(Elements) /\ Len(SubSeq(s, 1, at)) = at
      /\ SubSeq(s, at + 1, Len(s)) \in Seq(Elements) /\ Len(SubSeq(s, at + 1, Len(s))) = Len(s) - at
  BY <1>1, <1>3
<1>5. Insert(s, e) = SubSeq(s, 1, at) \o <<e>> \o SubSeq(s, at + 1, Len(s))
  BY DEF Insert, at
<1> DEFINE u == SubSeq(s, 1, at)
           v == SubSeq(s, at + 1, Len(s))
<1>6. u \in Seq(Elements) /\ v \in Seq(Elements) /\ Len(u) = at /\ Len(v) = Len(s) - at
  BY <1>4
<1>7. Insert(s, e) = u \o <<e>> \o v
  BY <1>5
<1> HIDE DEF u, v
<1>8. u \o <<e>> \in Seq(Elements) /\ Len(u \o <<e>>) = at + 1
  BY <1>6
<1>9. u \o <<e>> \o v \in Seq(Elements) /\ Len(u \o <<e>> \o v) = at + 1 + (Len(s) - at)
  <2> DEFINE w == u \o <<e>>
  <2>1. w \in Seq(Elements) /\ Len(w) = at + 1
    BY <1>8
  <2> HIDE DEF w
  <2>2. w \o v \in Seq(Elements) /\ Len(w \o v) = at + 1 + (Len(s) - at)
    <3>1. w \o v \in Seq(Elements) /\ Len(w \o v) = Len(w) + Len(v)
      BY <1>6, <2>1, Concatenated
    <3> QED
      BY <1>6, <2>1, <3>1
  <2> QED
    BY <2>2 DEF w
<1>10. ASSUME NEW i \in 1 .. Len(s) + 1
       PROVE  Insert(s, e)[i] = IF i <= at THEN s[i] ELSE IF i = at + 1 THEN e ELSE s[i - 1]
  <2> DEFINE w == u \o <<e>>
  <2>1. w \in Seq(Elements) /\ Len(w) = at + 1
    BY <1>8
  <2>2. /\ i <= at => w[i] = s[i]
        /\ w[at + 1] = e
        /\ i > at + 1 => v[i - (at + 1)] = s[i - 1]
    <3>1. i <= at => w[i] = u[i] /\ u[i] = s[i]
      BY <1>1, <1>3, <1>6 DEF u
    <3>2. w[at + 1] = e
      BY <1>1, <1>3, <1>6
    <3>3. i > at + 1 => v[i - (at + 1)] = s[i - 1]
      <4> SUFFICES ASSUME i > at + 1 PROVE v[i - (at + 1)] = s[i - 1]
        OBVIOUS
      <4> DEFINE j == i - (at + 1)
      <4>1. j \in 1 .. Len(s) - at /\ at + 1 + j - 1 = i - 1
        BY <1>1, <1>3
      <4> HIDE DEF j
      <4>2. v[j] = s[at + 1 + j - 1]
        BY <1>1, <1>3, <4>1 DEF v
      <4> QED
        BY <4>1, <4>2 DEF j
    <3> QED
      BY <3>1, <3>2, <3>3
  <2> HIDE DEF w
  <2>3. (w \o v)[i] = IF i <= Len(w) THEN w[i] ELSE v[i - Len(w)]
    <3>1. i \in 1 .. Len(w) + Len(v)
      BY <1>1, <1>3, <1>6, <2>1
    <3> QED
      BY <1>6, <2>1, <3>1, Concatenated
  <2>4. (w \o v)[i] = IF i <= at THEN s[i] ELSE IF i = at + 1 THEN e ELSE s[i - 1]
    BY <1>1, <1>3, <2>1, <2>2, <2>3
  <2> QED
    BY <1>7, <2>4 DEF w
<1>11. Inserted(Insert(s, e), s, e)
  BY <1>3, <1>10 DEF Inserted
<1> QED
  BY <1>1, <1>3, <1>7, <1>9, <1>11

\* u is what the first k elements of s are when they are sorted.
SortedBy(u, s, k) ==
    \E g \in [1 .. k -> 1 .. k] :
        /\ \A i \in 1 .. k : u[i] = s[g[i]]
        /\ \A j \in 1 .. k : \E i \in 1 .. k : g[i] = j
        /\ \A i, j \in 1 .. k : i < j =>
              Rank[s[g[i]]] < Rank[s[g[j]]] \/ (Rank[s[g[i]]] = Rank[s[g[j]]] /\ g[i] < g[j])

\* The next element goes behind those that it may not go before.
LEMMA InsertSorts ==
    ASSUME SortAssumption, NEW s \in Seq(Elements), NEW k \in 1 .. Len(s), NEW d \in Nat, k = d + 1,
           NEW u \in Seq(Elements), Len(u) = d, SortedBy(u, s, d),
           NEW w, Inserted(w, u, s[k])
    PROVE  SortedBy(w, s, k)
<1>1. PICK g \in [1 .. d -> 1 .. d] :
        /\ \A i \in 1 .. d : u[i] = s[g[i]]
        /\ \A j \in 1 .. d : \E i \in 1 .. d : g[i] = j
        /\ \A i, j \in 1 .. d : i < j =>
              Rank[s[g[i]]] < Rank[s[g[j]]] \/ (Rank[s[g[i]]] = Rank[s[g[j]]] /\ g[i] < g[j])
  BY DEF SortedBy
<1>2. PICK at \in 0 .. d :
        /\ \A i \in 1 .. k : w[i] = IF i <= at THEN u[i] ELSE IF i = at + 1 THEN s[k] ELSE u[i - 1]
        /\ at > 0 => Rank[u[at]] <= Rank[s[k]]
        /\ \A i \in at + 1 .. d : Rank[u[i]] > Rank[s[k]]
  <2>1. Len(u) = d /\ Len(u) + 1 = k
    OBVIOUS
  <2> QED
    BY <2>1 DEF Inserted
<1> DEFINE h == [i \in 1 .. k |-> IF i <= at THEN g[i] ELSE IF i = at + 1 THEN k ELSE g[i - 1]]
<1>3. k \in Nat /\ at \in Nat /\ k >= 1 /\ at <= d /\ \A i \in 1 .. k : Rank[s[i]] \in Nat
  BY DEF SortAssumption
<1>4. \A i \in 1 .. k : /\ i <= at => i \in 1 .. d
                        /\ ~(i <= at) /\ i # at + 1 => i - 1 \in 1 .. d /\ i - 1 > at
  BY <1>3
<1>5. h \in [1 .. k -> 1 .. k]
  <2> SUFFICES ASSUME NEW i \in 1 .. k
               PROVE  (IF i <= at THEN g[i] ELSE IF i = at + 1 THEN k ELSE g[i - 1]) \in 1 .. k
    OBVIOUS
  <2>1. \A j \in 1 .. d : g[j] \in 1 .. k
    <3> TAKE j \in 1 .. d
    <3>1. g[j] \in 1 .. d
      OBVIOUS
    <3> HIDE DEF h
    <3> QED
      BY <3>1
  <2>2. k \in 1 .. k
    BY <1>3
  <2> QED
    BY <1>4, <2>1, <2>2
<1>6. ASSUME NEW i \in 1 .. k PROVE w[i] = s[h[i]]
  BY <1>1, <1>2, <1>4
<1>7. ASSUME NEW j \in 1 .. k PROVE \E i \in 1 .. k : h[i] = j
  <2>1. CASE j = k
    <3>1. at + 1 \in 1 .. k /\ ~(at + 1 <= at)
      BY <1>3
    <3> QED
      BY <2>1, <3>1
  <2>2. CASE j # k
    <3>1. j \in 1 .. d
      BY <1>3, <2>2
    <3>2. PICK i \in 1 .. d : g[i] = j
      BY <1>1, <3>1
    <3>3. CASE i <= at
      BY <1>3, <3>2, <3>3
    <3>4. CASE ~(i <= at)
      <4>1. i + 1 \in 1 .. k /\ ~(i + 1 <= at) /\ i + 1 # at + 1 /\ i + 1 - 1 = i
        BY <1>3, <3>4
      <4>2. h[i + 1] = g[i]
        BY <4>1
      <4> QED
        BY <3>2, <4>1, <4>2
    <3> QED
      BY <3>3, <3>4
  <2> QED
    BY <2>1, <2>2
<1>8. ASSUME NEW i \in 1 .. k, NEW j \in 1 .. k, i < j
      PROVE  Rank[s[h[i]]] < Rank[s[h[j]]] \/ (Rank[s[h[i]]] = Rank[s[h[j]]] /\ h[i] < h[j])
  <2> DEFINE Less(a, b) == Rank[s[a]] < Rank[s[b]] \/ (Rank[s[a]] = Rank[s[b]] /\ a < b)
  <2>0. \A a, b \in 1 .. d : a < b => Less(g[a], g[b])
    BY <1>1
  <2>1. \A a \in 1 .. d : g[a] \in 1 .. d /\ g[a] < k /\ Rank[s[g[a]]] \in Nat /\ u[a] = s[g[a]]
    <3> TAKE a \in 1 .. d
    <3>1. g[a] \in 1 .. d /\ u[a] = s[g[a]]
      BY <1>1
    <3>2. g[a] \in 1 .. k /\ g[a] < k
      <4> DEFINE b == g[a]
      <4>1. b \in 1 .. d
        BY <3>1
      <4> HIDE DEF b, h
      <4>2. b \in 1 .. k /\ b < k
        BY <4>1
      <4> QED
        BY <4>2 DEF b
    <3> HIDE DEF h
    <3> QED
      BY <1>3, <3>1, <3>2
  <2>2. CASE j <= at
    <3>1. i \in 1 .. d /\ j \in 1 .. d /\ i <= at
      BY <1>3, <1>8, <2>2
    <3>2. h[i] = g[i] /\ h[j] = g[j]
      BY <2>2, <3>1
    <3> HIDE DEF h
    <3> QED
      BY <1>8, <2>0, <3>1, <3>2
  <2>3. CASE j = at + 1
    <3>1. i \in 1 .. d /\ i <= at /\ at \in 1 .. d /\ at > 0 /\ ~(j <= at)
      BY <1>3, <1>8, <2>3
    <3>2. h[i] = g[i] /\ h[j] = k
      BY <2>3, <3>1
    <3>3. Rank[s[g[at]]] <= Rank[s[k]] /\ g[i] < k /\ Rank[s[k]] \in Nat /\ Rank[s[g[i]]] \in Nat /\ Rank[s[g[at]]] \in Nat
      <4>1. Rank[u[at]] <= Rank[s[k]] /\ k \in 1 .. k
        BY <1>2, <1>3, <3>1
      <4> HIDE DEF h
      <4> QED
        BY <1>3, <2>1, <3>1, <4>1
    <3>4. i = at \/ Less(g[i], g[at])
      BY <2>0, <3>1
    <3>5. Rank[s[g[i]]] < Rank[s[k]] \/ Rank[s[g[i]]] = Rank[s[k]]
      <4> DEFINE a == Rank[s[g[i]]]
                 c == Rank[s[g[at]]]
                 e == Rank[s[k]]
      <4>1. a \in Nat /\ c \in Nat /\ e \in Nat /\ c <= e /\ (a = c \/ a < c)
        BY <3>3, <3>4
      <4> HIDE DEF a, c, e
      <4>2. a < e \/ a = e
        BY <4>1
      <4> QED
        BY <4>2 DEF a, c, e
    <3>6. Less(g[i], k)
      BY <3>3, <3>5
    <3> HIDE DEF h, Less
    <3>7. Less(h[i], h[j])
      BY <3>2, <3>6
    <3> QED
      BY <3>7 DEF Less
  <2>4. CASE ~(j <= at) /\ j # at + 1 /\ i = at + 1
    <3>1. j - 1 \in 1 .. d /\ j - 1 \in at + 1 .. d /\ ~(i <= at)
      BY <1>3, <1>4, <2>4
    <3>2. h[i] = k /\ h[j] = g[j - 1]
      BY <2>4, <3>1
    <3>3. Rank[s[g[j - 1]]] > Rank[s[k]]
      BY <1>2, <2>1, <3>1
    <3> HIDE DEF h
    <3> QED
      BY <1>3, <2>1, <3>1, <3>2, <3>3
  <2>5. CASE ~(j <= at) /\ j # at + 1 /\ i <= at
    <3>1. j - 1 \in 1 .. d /\ i \in 1 .. d /\ i < j - 1
      BY <1>3, <1>4, <2>5
    <3>2. h[i] = g[i] /\ h[j] = g[j - 1]
      BY <2>5, <3>1
    <3> HIDE DEF h
    <3> QED
      BY <2>0, <3>1, <3>2
  <2>6. CASE ~(j <= at) /\ j # at + 1 /\ ~(i <= at) /\ i # at + 1
    <3>1. j - 1 \in 1 .. d /\ i - 1 \in 1 .. d /\ i - 1 < j - 1
      BY <1>3, <1>4, <1>8, <2>6
    <3>2. h[i] = g[i - 1] /\ h[j] = g[j - 1]
      BY <2>6, <3>1
    <3> HIDE DEF h
    <3> QED
      BY <2>0, <3>1, <3>2
  <2> HIDE DEF h
  <2> QED
    BY <2>2, <2>3, <2>4, <2>5, <2>6
<1> HIDE DEF h
<1> QED
  BY <1>5, <1>6, <1>7, <1>8 DEF SortedBy

\* array_sort sorts the elements of a block, and keeps the order of those that are alike.
LEMMA ArraySortIs ==
    ASSUME SortAssumption, NEW s \in Seq(Elements)
    PROVE  /\ array_sort(s) \in Seq(Elements) /\ Len(array_sort(s)) = Len(s)
           /\ SortedBy(array_sort(s), s, Len(s))
<1> DEFINE D == 0 .. Len(s)
           part[k \in D] == IF k = 0 THEN <<>> ELSE Insert(part[k - 1], s[k])
           step(k, u) == IF k \in 1 .. Len(s) THEN Insert(u, s[k]) ELSE u
           G == [x \in Nat \X Seq(Elements) |-> step(x[1], x[2])]
<1>1. PICK f \in [0 .. Len(s) -> Seq(Elements)] : Follows(f, 0, Len(s), <<>>, G)
  <2>1. G \in [Nat \X Seq(Elements) -> Seq(Elements)]
    <3> SUFFICES ASSUME NEW k \in Nat, NEW u \in Seq(Elements) PROVE step(k, u) \in Seq(Elements)
      OBVIOUS
    <3>1. CASE k \in 1 .. Len(s)
      <4>1. s[k] \in Elements
        BY <3>1
      <4> QED
        BY <3>1, <4>1, InsertIs
    <3> QED
      BY <3>1
  <2>2. Len(s) \in Nat /\ <<>> \in Seq(Elements) /\ 0 \in Nat
    OBVIOUS
  <2> HIDE DEF G
  <2> QED
    BY <2>1, <2>2, Recursive
<1>2. \A k \in D : f[k] = IF k = 0 THEN <<>> ELSE Insert(f[k - 1], s[k])
  <2> TAKE k \in D
  <2>1. k # 0 => k \in 1 .. Len(s) /\ k \in Nat /\ f[k - 1] \in Seq(Elements)
    OBVIOUS
  <2>2. k # 0 => G[<<k, f[k - 1]>>] = Insert(f[k - 1], s[k])
    BY <2>1
  <2>3. f[k] = IF k = 0 THEN <<>> ELSE G[<<k, f[k - 1]>>]
    BY <1>1 DEF Follows
  <2> HIDE DEF G
  <2> QED
    BY <2>2, <2>3
<1>3. part = [k \in D |-> IF k = 0 THEN <<>> ELSE Insert(part[k - 1], s[k])]
  <2>1. f = [k \in D |-> IF k = 0 THEN <<>> ELSE Insert(f[k - 1], s[k])]
    BY <1>1, <1>2
  <2> QED
    BY <2>1
<1> DEFINE Kept(k) == part[k] \in Seq(Elements) /\ Len(part[k]) = k /\ SortedBy(part[k], s, k)
           T == {k \in D : ~Kept(k)}
<1>4. array_sort(s) = part[Len(s)]
  BY DEF array_sort
<1> HIDE DEF part
<1>5. ASSUME T # {} PROVE FALSE
  <2>1. PICK k \in T : \A l \in T : k <= l
    <3> T \subseteq Nat
      OBVIOUS
    <3> HIDE DEF T
    <3> QED
      BY <1>5, Least
  <2>2. k # 0
    <3>1. part[0] = <<>>
      BY <1>3
    <3>2. SortedBy(part[0], s, 0)
      <4>1. [i \in 1 .. 0 |-> i] \in [1 .. 0 -> 1 .. 0] /\ \A i \in 1 .. 0 : FALSE
        OBVIOUS
      <4> QED
        BY <4>1 DEF SortedBy
    <3>3. Kept(0)
      BY <3>1, <3>2
    <3>4. ~Kept(k)
      OBVIOUS
    <3> HIDE DEF Kept, T
    <3> QED
      BY <3>3, <3>4
  <2>3. k \in 1 .. Len(s) /\ k - 1 \in D /\ ~(k <= k - 1) /\ s[k] \in Elements
    BY <2>2
  <2>4. k - 1 \notin T
    <3> HIDE DEF T
    <3> QED
      BY <2>1, <2>3
  <2>5. Kept(k - 1)
    BY <2>3, <2>4
  <2>6. part[k] = Insert(part[k - 1], s[k])
    BY <1>3, <2>2, <2>3, k \in D
  <2>7. part[k] \in Seq(Elements) /\ Len(part[k]) = k - 1 + 1 /\ Inserted(part[k], part[k - 1], s[k])
    BY <2>3, <2>5, <2>6, InsertIs
  <2>8. SortedBy(part[k], s, k)
    <3> DEFINE d == k - 1
    <3>1. d \in Nat /\ k = d + 1 /\ part[d] \in Seq(Elements) /\ Len(part[d]) = d /\ SortedBy(part[d], s, d)
          /\ Inserted(part[k], part[d], s[k])
      BY <2>3, <2>5, <2>7
    <3> HIDE DEF d
    <3> QED
      BY <2>3, <3>1, InsertSorts
  <2> QED
    BY <2>1, <2>3, <2>7, <2>8
<1>6. Len(s) \in D
  OBVIOUS
<1> QED
  BY <1>4, <1>5, <1>6

-----------------------------------------------------------------------------
\* What the type invariant says of the blocks and of where the list starts.
LEMMA Shape ==
    ASSUME SortAssumption, given \in Lists
    PROVE  Number \in Nat \ {0} /\ Blocks = Places
<1>1. given \in Seq(Seq(Elements)) /\ given # <<>>
  BY DEF SortAssumption
<1> QED
  BY <1>1 DEF Number, Places, Blocks

\* x is where k blocks on from the p-th one leads.
Reaches(r, p, i, x) ==
    \E k \in 1 .. i : /\ x.k = k /\ p + k <= Number + 1
                      /\ p + k <= Number => k = i
                      /\ x.at = IF p + k = Number + 1 THEN head ELSE r[p + k]

\* i blocks on from the p-th one, but no further than the head.
LEMMA AheadIs ==
    ASSUME SortAssumption, given \in Lists,
           NEW r, Ring(r), head = r[1], NEW p \in Places, NEW i \in Nat, i # 0
    PROVE  Reaches(r, p, i, Ahead(r[p], i))
<1> DEFINE V == [at: Blocks, k: Nat]
           start == [at |-> r[p], k |-> 0]
           D == 0 .. i
           step(k, x) == IF x.k > 0 /\ x.at = head THEN x ELSE [at |-> next[x.at], k |-> k]
           go[k \in D] == IF k = 0 THEN start ELSE step(k, go[k - 1])
           G == [x \in Nat \X V |-> step(x[1], x[2])]
<1>1. /\ Number \in Nat \ {0} /\ Blocks = Places /\ r \in [Places -> Blocks]
      /\ \A j \in Places : next[r[j]] = IF j = Number THEN r[1] ELSE r[j + 1]
      /\ \A j, l \in Places : r[j] = r[l] => j = l
      /\ \A b \in Blocks : \E j \in Places : r[j] = b
  BY Shape DEF Ring, Listing, Right
<1>2. PICK f \in [0 .. i -> V] : Follows(f, 0, i, start, G)
  <2>1. G \in [Nat \X V -> V]
    <3> SUFFICES ASSUME NEW k \in Nat, NEW x \in V PROVE step(k, x) \in V
      OBVIOUS
    <3>1. next[x.at] \in Blocks
      <4>1. PICK j \in Places : r[j] = x.at
        BY <1>1
      <4>2. j # Number => j + 1 \in Places
        BY <1>1 DEF Places
      <4>3. 1 \in Places
        BY <1>1 DEF Places
      <4> QED
        BY <1>1, <4>1, <4>2, <4>3
    <3> QED
      BY <3>1
  <2>2. start \in V
    BY <1>1
  <2> HIDE DEF G, start, V
  <2> QED
    BY <2>1, <2>2, Recursive
<1>3. \A k \in D : f[k] = IF k = 0 THEN start ELSE step(k, f[k - 1])
  <2> TAKE k \in D
  <2>1. k # 0 => k \in Nat /\ f[k - 1] \in V
    OBVIOUS
  <2>2. k # 0 => G[<<k, f[k - 1]>>] = step(k, f[k - 1])
    BY <2>1
  <2>3. f[k] = IF k = 0 THEN start ELSE G[<<k, f[k - 1]>>]
    BY <1>2 DEF Follows
  <2> HIDE DEF G, step
  <2> QED
    BY <2>2, <2>3
<1>4. go = [k \in D |-> IF k = 0 THEN start ELSE step(k, go[k - 1])]
  <2> HIDE DEF step, start
  <2>1. f = [k \in D |-> IF k = 0 THEN start ELSE step(k, f[k - 1])]
    BY <1>2, <1>3
  <2> QED
    BY <2>1
<1>5. Ahead(r[p], i) = go[i]
  BY DEF Ahead
<1> DEFINE At(x, k) == /\ x.k = k /\ p + k <= Number + 1
                       /\ x.at = IF p + k = Number + 1 THEN head ELSE r[p + k]
           Good(k) == \E j \in 0 .. k : At(go[k], j) /\ (p + j <= Number => j = k) /\ (k # 0 => j # 0)
           T == {k \in D : ~Good(k)}
<1> HIDE DEF go
<1>6. ASSUME T # {} PROVE FALSE
  <2>1. PICK k \in T : \A l \in T : k <= l
    <3> T \subseteq Nat
      OBVIOUS
    <3> HIDE DEF T
    <3> QED
      BY <1>6, Least
  <2>2. CASE k = 0
    <3>1. go[0] = start
      BY <1>4, 0 \in D
    <3>2. p + 0 # Number + 1 /\ p + 0 = p /\ p + 0 <= Number + 1
      BY <1>1 DEF Places
    <3>3. At(go[0], 0)
      BY <3>1, <3>2
    <3> QED
      BY <2>1, <2>2, <3>3
  <2>3. CASE k # 0
    <3>1. k \in D /\ k \in Nat /\ k - 1 \in D /\ ~(k <= k - 1) /\ k - 1 + 1 = k
      BY <2>3
    <3>2. k - 1 \notin T
      <4> HIDE DEF T
      <4> QED
        BY <2>1, <3>1
    <3>3. PICK j \in 0 .. k - 1 : At(go[k - 1], j) /\ (p + j <= Number => j = k - 1) /\ (k - 1 # 0 => j # 0)
      BY <3>1, <3>2
    <3>4. go[k] = step(k, go[k - 1])
      <4> HIDE DEF step, start
      <4> QED
        BY <1>4, <2>3, <3>1
    <3>5. CASE p + j = Number + 1
      <4>1. j # 0 /\ j \in 0 .. k
        BY <1>1, <3>1, <3>5 DEF Places
      <4>2. go[k - 1].k = j /\ go[k - 1].at = head /\ j > 0
        BY <3>3, <3>5, <4>1
      <4>3. go[k] = go[k - 1]
        BY <3>4, <4>2
      <4>4. ~(p + j <= Number)
        BY <1>1, <3>5 DEF Places
      <4>5. Good(k)
        BY <3>3, <4>1, <4>3, <4>4
      <4> QED
        BY <2>1, <4>5
    <3>6. CASE p + j # Number + 1
      <4>1. p + j <= Number /\ p + j \in Places /\ p \in Nat
        BY <1>1, <3>1, <3>3, <3>6 DEF Places
      <4>2. j = k - 1 /\ go[k - 1].at = r[p + j] /\ go[k - 1].k = j
        BY <3>3, <3>6, <4>1
      <4>3. ~(go[k - 1].k > 0 /\ go[k - 1].at = head)
        <5>1. SUFFICES ASSUME j > 0, r[p + j] = head PROVE FALSE
          BY <4>2
        <5>2. 1 \in Places /\ p + j # 1
          BY <1>1, <4>1, <5>1 DEF Places
        <5> QED
          BY <1>1, <4>1, <5>1, <5>2
      <4>4. go[k] = [at |-> next[r[p + j]], k |-> k]
        BY <3>4, <4>2, <4>3
      <4>5. p + k = p + j + 1 /\ p + k <= Number + 1
        BY <1>1, <3>1, <4>1, <4>2 DEF Places
      <4>6. next[r[p + j]] = IF p + k = Number + 1 THEN head ELSE r[p + k]
        <5>1. p + j = Number <=> p + k = Number + 1
          <6> DEFINE N == Number
          <6>1. N \in Nat /\ p \in Nat /\ j \in Nat /\ p + k = p + j + 1
            BY <1>1, <4>1, <4>5 DEF Places
          <6> HIDE DEF N
          <6>2. p + j = N <=> p + j + 1 = N + 1
            BY <6>1
          <6> QED
            BY <6>1, <6>2 DEF N
        <5> QED
          BY <1>1, <4>1, <4>5, <5>1
      <4>7. At(go[k], k) /\ k \in 0 .. k
        BY <3>1, <4>4, <4>5, <4>6
      <4>8. Good(k)
        BY <2>3, <4>7
      <4> QED
        BY <2>1, <4>8
    <3> QED
      BY <3>5, <3>6
  <2> QED
    BY <2>2, <2>3
<1>7. i \in D
  OBVIOUS
<1>8. PICK k \in 0 .. i : At(go[i], k) /\ (p + k <= Number => k = i) /\ k # 0
  BY <1>6, <1>7
<1>9. k \in 1 .. i
  BY <1>8
<1> QED
  BY <1>5, <1>8, <1>9 DEF Reaches

\* The place that is j blocks on from place p, around the end of the list.
Around(p, j) == IF p + j <= Number THEN p + j ELSE p + j - Number

\* From any block the links go by all of them.
LEMMA RingFromIs ==
    ASSUME SortAssumption, given \in Lists,
           NEW r, Ring(r), NEW p \in Places
    PROVE  /\ RingFrom(r[p]) \in [Places -> Blocks]
           /\ \A k \in Places : RingFrom(r[p])[k] = r[Around(p, k - 1)]
<1> DEFINE ring[k \in 1 .. Len(given)] == IF k = 1 THEN r[p] ELSE next[ring[k - 1]]
           f == [k \in Places |-> r[Around(p, k - 1)]]
<1>1. /\ Number \in Nat \ {0} /\ Blocks = Places /\ r \in [Places -> Blocks]
      /\ \A j \in Places : next[r[j]] = IF j = Number THEN r[1] ELSE r[j + 1]
  BY Shape DEF Ring, Listing, Right
<1>2. ASSUME NEW k \in Places
      PROVE  /\ Around(p, k - 1) \in Places
             /\ k # 1 => /\ k - 1 \in Places
                         /\ Around(p, k - 1) =
                               IF Around(p, k - 2) = Number THEN 1 ELSE Around(p, k - 2) + 1
             /\ k - 1 - 1 = k - 2
             /\ Around(p, 1 - 1) = p
  BY <1>1 DEF Places, Around
<1>3. f \in [Places -> Blocks]
  BY <1>1, <1>2
<1>4. ASSUME NEW k \in Places
      PROVE  f[k] = IF k = 1 THEN r[p] ELSE next[f[k - 1]]
  <2>1. CASE k = 1
    BY <1>2, <2>1
  <2>2. CASE k # 1
    <3>1. k - 1 \in Places /\ f[k - 1] = r[Around(p, k - 2)] /\ Around(p, k - 2) \in Places
      BY <1>2, <2>2
    <3>2. f[k] = r[Around(p, k - 1)]
      OBVIOUS
    <3> QED
      BY <1>1, <1>2, <2>2, <3>1, <3>2
  <2> QED
    BY <2>1, <2>2
<1>5. ring = [k \in 1 .. Len(given) |-> IF k = 1 THEN r[p] ELSE next[ring[k - 1]]]
  <2>1. f = [k \in 1 .. Len(given) |-> IF k = 1 THEN r[p] ELSE next[f[k - 1]]]
    BY <1>3, <1>4 DEF Places, Number
  <2> HIDE DEF f
  <2> QED
    BY <2>1
<1>6. RingFrom(r[p]) = ring
  BY DEF RingFrom
<1> HIDE DEF f, ring
<1> DEFINE T == {k \in Places : ring[k] # f[k]}
<1>7. ASSUME T # {} PROVE FALSE
  <2>1. PICK k \in T : \A l \in T : k <= l
    <3> T \subseteq Nat
      BY DEF Places
    <3> HIDE DEF T
    <3> QED
      BY <1>7, Least
  <2>2. ring[k] = IF k = 1 THEN r[p] ELSE next[ring[k - 1]]
    BY <1>5 DEF Places, Number
  <2>3. k # 1
    BY <1>4, <2>1, <2>2
  <2>4. k - 1 \in Places /\ ~(k <= k - 1)
    BY <1>1, <2>3 DEF Places
  <2>5. k - 1 \notin T
    <3> HIDE DEF T
    <3> QED
      BY <2>1, <2>4
  <2> QED
    BY <1>4, <2>1, <2>2, <2>3, <2>4, <2>5
<1>8. ring = f
  <2>1. ring = [k \in Places |-> ring[k]] /\ f = [k \in Places |-> f[k]]
    BY <1>3, <1>5 DEF Places, Number
  <2> QED
    BY <1>7, <2>1
<1> QED
  BY <1>3, <1>6, <1>8 DEF f

\* Hence the property the runs check.
LEMMA RingIsWhole ==
    ASSUME SortAssumption, given \in Lists, head \in Blocks,
           NEW r, Ring(r)
    PROVE  RingWhole
<1>1. /\ Number \in Nat \ {0} /\ Blocks = Places /\ r \in [Places -> Blocks]
      /\ \A j \in Places : next[r[j]] = IF j = Number THEN r[1] ELSE r[j + 1]
      /\ \A j \in Places : prev[r[j]] = IF j = 1 THEN r[Number] ELSE r[j - 1]
      /\ \A b \in Blocks : \E j \in Places : r[j] = b
  BY Shape DEF Ring, Listing, Right, Left
<1>2. ASSUME NEW b \in Blocks
      PROVE  prev[next[b]] = b /\ next[prev[b]] = b
  <2>1. PICK j \in Places : r[j] = b
    BY <1>1
  <2>2. /\ 1 \in Places /\ Number \in Places
        /\ j # Number => j + 1 \in Places /\ j + 1 # 1 /\ j + 1 - 1 = j
        /\ j # 1 => j - 1 \in Places /\ j - 1 # Number /\ j - 1 + 1 = j
    <3>1. Number \in Nat \ {0}
      BY <1>1
    <3> QED
      BY <3>1 DEF Places
  <2>3. prev[next[b]] = b
    <3>1. CASE j = Number
      <4>1. next[b] = r[1] /\ prev[r[1]] = r[Number]
        BY <1>1, <2>1, <2>2, <3>1
      <4> QED
        BY <2>1, <3>1, <4>1
    <3>2. CASE j # Number
      <4>1. next[b] = r[j + 1]
        BY <1>1, <2>1, <3>2
      <4>2. \A x \in Places : x # 1 => prev[r[x]] = r[x - 1]
        BY <1>1
      <4> DEFINE x == j + 1
      <4>3. x \in Places /\ x # 1 /\ x - 1 = j
        <5>1. j \in Nat
          BY DEF Places
        <5> QED
          BY <2>2, <3>2, <5>1
      <4> HIDE DEF x
      <4>4. prev[r[x]] = r[x - 1]
        BY <4>2, <4>3
      <4> QED
        BY <2>1, <4>1, <4>3, <4>4 DEF x
    <3> QED
      BY <3>1, <3>2
  <2>4. next[prev[b]] = b
    BY <1>1, <2>1, <2>2
  <2> QED
    BY <2>3, <2>4
<1>3. PICK p \in Places : r[p] = head
  BY <1>1
<1> DEFINE ring == RingFrom(head)
<1>4. ring \in [Places -> Blocks] /\ \A k \in Places : ring[k] = r[Around(p, k - 1)]
  BY <1>3, RingFromIs
<1> HIDE DEF ring
<1>5. ASSUME NEW b \in Blocks PROVE \E k \in Places : ring[k] = b
  <2>1. PICK j \in Places : r[j] = b
    BY <1>1
  <2> DEFINE k == IF p <= j THEN j - p + 1 ELSE j - p + Number + 1
  <2>2. k \in Places /\ Around(p, k - 1) = j
    <3>1. Number \in Nat \ {0}
      BY <1>1
    <3> QED
      BY <3>1 DEF Places, Around
  <2> QED
    BY <1>4, <2>1, <2>2
<1>6. ToSet(ring) = Blocks
  <2>1. \A b : b \in ToSet(ring) <=> \E k \in Places : ring[k] = b
    BY <1>4 DEF ToSet
  <2> QED
    BY <1>4, <1>5, <2>1
<1> QED
  BY <1>2, <1>6 DEF RingWhole, ring

\* The places of the blocks that the one at place k comes after when the one at q2
\* is put before the one at q1.
From(q1, q2, k) == IF k = q1 THEN q2 ELSE IF q1 < k /\ k <= q2 THEN k - 1 ELSE k

Shifted(r, q1, q2) == [k \in Places |-> r[From(q1, q2, k)]]

\* From is a permutation of the places, as Listing needs it to be.
Permutes(N, q1, q2) ==
    /\ \A k \in 1 .. N : From(q1, q2, k) \in 1 .. N
    /\ \A k \in 1 .. N : \E j \in 1 .. N : From(q1, q2, j) = k
    /\ \A k, j \in 1 .. N : From(q1, q2, k) = From(q1, q2, j) => k = j

\* A place between the two is left for the one before it, and taken by another.
LEMMA FromIs ==
    ASSUME NEW N \in Nat, NEW q1 \in 1 .. N, NEW q2 \in 1 .. N, q1 < q2
    PROVE  Permutes(N, q1, q2)
<1>1. ASSUME NEW k \in 1 .. N PROVE \E j \in 1 .. N : From(q1, q2, j) = k
  <2> DEFINE j == IF k = q2 THEN q1 ELSE IF q1 <= k /\ k < q2 THEN k + 1 ELSE k
  <2>1. j \in 1 .. N /\ From(q1, q2, j) = k
    BY DEF From
  <2> QED
    BY <2>1
<1> QED
  BY <1>1 DEF From, Permutes

\* A list of all blocks still is one when a block has moved in it.
LEMMA ShiftedListing ==
    ASSUME SortAssumption, given \in Lists, NEW r, Listing(r),
           NEW q1 \in Places, NEW q2 \in Places, q1 < q2
    PROVE  Listing(Shifted(r, q1, q2))
<1> DEFINE s == Shifted(r, q1, q2)
<1>1. Number \in Nat
  BY Shape
<1>2. /\ \A k \in Places : From(q1, q2, k) \in Places
      /\ \A k \in Places : \E j \in Places : From(q1, q2, j) = k
      /\ \A k, j \in Places : From(q1, q2, k) = From(q1, q2, j) => k = j
  <2> DEFINE N == Number
  <2>1. N \in Nat /\ q1 \in 1 .. N /\ q2 \in 1 .. N /\ Places = 1 .. N
    BY <1>1 DEF Places
  <2> HIDE DEF N
  <2>2. Permutes(N, q1, q2)
    BY <2>1, FromIs
  <2> QED
    BY <2>1, <2>2 DEF Permutes
<1>3. \A k \in Places : s[k] = r[From(q1, q2, k)]
  BY DEF Shifted
<1>4. s \in [Places -> Blocks]
  BY <1>2 DEF Shifted, Listing
<1> HIDE DEF s
<1>5. ASSUME NEW b \in Blocks PROVE \E i \in Places : s[i] = b
  <2>1. PICK k \in Places : r[k] = b
    BY DEF Listing
  <2>2. PICK j \in Places : From(q1, q2, j) = k
    BY <1>2
  <2> QED
    BY <1>3, <2>1, <2>2
<1>6. ASSUME NEW i \in Places, NEW j \in Places, s[i] = s[j] PROVE i = j
  <2>1. r[From(q1, q2, i)] = r[From(q1, q2, j)]
    BY <1>3, <1>6
  <2>2. From(q1, q2, i) = From(q1, q2, j)
    BY <1>2, <2>1 DEF Listing
  <2> QED
    BY <1>2, <2>2
<1> QED
  BY <1>4, <1>5, <1>6 DEF Listing, s

\* Pulling a block out and plugging it in before b1 moves it in the list, even when
\* the two are next to each other, or b1 is the first of the list and the block the last.
LEMMA MovedRing ==
    ASSUME SortAssumption, given \in Lists, NEW r, Ring(r),
           next \in [Blocks -> Blocks], prev \in [Blocks -> Blocks],
           NEW q1 \in Places, NEW q2 \in Places, q1 < q2,
           b1 = r[q1], Moved(r[q2]), given' = given
    PROVE  /\ \E s : Ring(s)' /\ \A k \in Places : s[k] = r[From(q1, q2, k)]
           /\ next' \in [Blocks -> Blocks] /\ prev' \in [Blocks -> Blocks]
<1> DEFINE N == Number
           l == r[q2]
           right(k) == IF k = N THEN 1 ELSE k + 1
           left(k) == IF k = 1 THEN N ELSE k - 1
           c == IF q1 = 1 THEN IF q2 = N THEN N - 1 ELSE N ELSE q1 - 1
           np == IF q2 = N THEN 1 ELSE q2 + 1
           pulled == [next EXCEPT ![prev[l]] = next[l]]
           back == [prev EXCEPT ![next[l]] = prev[l]]
<1>1. /\ r \in [Places -> Blocks]
      /\ \A j, k \in Places : r[j] = r[k] => j = k
      /\ \A b \in Blocks : \E j \in Places : r[j] = b
  BY DEF Ring, Listing
<1>2. N \in Nat \ {0}
  BY Shape
<1>3. /\ q1 \in 1 .. N /\ q2 \in 1 .. N /\ q1 # q2
      /\ c \in 1 .. N /\ np \in 1 .. N /\ q2 - 1 \in 1 .. N /\ c # q2 /\ 1 \in 1 .. N /\ N \in 1 .. N
      /\ \A k \in 1 .. N : right(k) \in 1 .. N /\ left(k) \in 1 .. N
  <2> HIDE DEF N
  <2> QED
    BY <1>2 DEF Places, N
<1>4. Places = 1 .. N
  BY DEF Places
<1>5. \A k \in Places : next[r[k]] = r[right(k)] /\ prev[r[k]] = r[left(k)]
  BY DEF Ring, Right, Left
<1>6. l \in Blocks /\ next[l] = r[np] /\ prev[l] = r[q2 - 1]
  <2>1. right(q2) = np /\ left(q2) = q2 - 1
    BY <1>2, <1>3
  <2> HIDE DEF N, np, right, left
  <2> QED
    BY <1>1, <1>5, <2>1
<1>7. back[b1] = r[c]
  <2>1. r[np] \in Blocks /\ r[q1] \in Blocks /\ b1 = r[q1]
    BY <1>1, <1>3, <1>4
  <2>2. back[b1] = IF b1 = r[np] THEN r[q2 - 1] ELSE prev[b1]
    <3> HIDE DEF np, N
    <3> QED
      BY <1>6, <2>1
  <2>3. b1 = r[np] <=> q1 = np
    <3> HIDE DEF np
    <3> QED
      BY <1>1, <1>3, <1>4, <2>1
  <2>4. prev[b1] = r[left(q1)]
    BY <1>5
  <2>5. IF q1 = np THEN c = q2 - 1 ELSE c = left(q1)
    <3>1. N \in Nat /\ q1 \in 1 .. N /\ q2 \in 1 .. N /\ q1 < q2
      BY <1>2, <1>3
    <3> HIDE DEF N
    <3> QED
      BY <3>1
  <2> HIDE DEF np, c, back, left
  <2> QED
    BY <2>2, <2>3, <2>4, <2>5
<1>8. /\ next' = [pulled EXCEPT ![l] = b1, ![back[b1]] = l]
      /\ prev' = [back EXCEPT ![l] = back[b1], ![b1] = l]
  BY DEF Moved
<1>9. pulled \in [Blocks -> Blocks] /\ back \in [Blocks -> Blocks]
  BY <1>6
<1>10. next' \in [Blocks -> Blocks] /\ prev' \in [Blocks -> Blocks]
  <2>1. b1 \in Blocks
    BY <1>1
  <2> HIDE DEF pulled, back
  <2> QED
    BY <1>6, <1>8, <1>9, <2>1
<1>11. ASSUME NEW k \in Places
       PROVE  next'[r[k]] = r[IF k = c THEN q2 ELSE IF k = q2 THEN q1
                              ELSE IF k = q2 - 1 THEN np ELSE right(k)]
  <2>1. r[k] \in Blocks /\ r[c] \in Blocks
    BY <1>1, <1>3, <1>4
  <2>2. next'[r[k]] = IF r[k] = r[c] THEN l ELSE IF r[k] = l THEN b1 ELSE pulled[r[k]]
    <3> HIDE DEF pulled, back
    <3> QED
      BY <1>6, <1>7, <1>8, <1>9, <2>1
  <2>3. pulled[r[k]] = IF r[k] = r[q2 - 1] THEN r[np] ELSE next[r[k]]
    <3> HIDE DEF np
    <3> QED
      BY <1>6, <2>1
  <2>4. (r[k] = r[c] <=> k = c) /\ (r[k] = r[q2] <=> k = q2) /\ (r[k] = r[q2 - 1] <=> k = q2 - 1)
    <3> HIDE DEF c
    <3> QED
      BY <1>1, <1>3, <1>4
  <2>5. next[r[k]] = r[right(k)]
    BY <1>5
  <2> HIDE DEF c, np, right, pulled, back
  <2> QED
    BY <2>2, <2>3, <2>4, <2>5
<1>12. ASSUME NEW k \in Places
       PROVE  prev'[r[k]] = r[IF k = q1 THEN q2 ELSE IF k = q2 THEN c
                              ELSE IF k = np THEN q2 - 1 ELSE left(k)]
  <2>1. r[k] \in Blocks /\ r[c] \in Blocks /\ b1 \in Blocks
    BY <1>1, <1>3, <1>4
  <2>2. prev'[r[k]] = IF r[k] = b1 THEN l ELSE IF r[k] = l THEN r[c] ELSE back[r[k]]
    <3> HIDE DEF pulled, back
    <3> QED
      BY <1>6, <1>7, <1>8, <1>9, <2>1
  <2>3. back[r[k]] = IF r[k] = r[np] THEN r[q2 - 1] ELSE prev[r[k]]
    <3> HIDE DEF np
    <3> QED
      BY <1>6, <2>1
  <2>4. (r[k] = r[q1] <=> k = q1) /\ (r[k] = r[q2] <=> k = q2) /\ (r[k] = r[np] <=> k = np)
    <3> HIDE DEF np
    <3> QED
      BY <1>1, <1>3, <1>4
  <2>5. prev[r[k]] = r[left(k)]
    BY <1>5
  <2> HIDE DEF c, np, left, pulled, back
  <2> QED
    BY <2>2, <2>3, <2>4, <2>5
<1>13. PICK s : s = Shifted(r, q1, q2)
  OBVIOUS
<1>14. \A k \in Places : From(q1, q2, k) \in Places
  <2>1. N \in Nat /\ q1 \in 1 .. N /\ q2 \in 1 .. N
    BY <1>2, <1>3
  <2> HIDE DEF N
  <2> QED
    BY <1>4, <2>1, FromIs DEF Permutes
<1>15. ASSUME NEW k \in Places
       PROVE  next'[s[k]] = s[right(k)] /\ prev'[s[k]] = s[left(k)]
  <2>0. \A i \in Places : s[i] = r[From(q1, q2, i)]
    BY <1>13 DEF Shifted
  <2> DEFINE j == From(q1, q2, k)
             nn == IF j = c THEN q2 ELSE IF j = q2 THEN q1 ELSE IF j = q2 - 1 THEN np ELSE right(j)
             pp == IF j = q1 THEN q2 ELSE IF j = q2 THEN c ELSE IF j = np THEN q2 - 1 ELSE left(j)
  <2>1. j \in Places /\ s[k] = r[j] /\ right(k) \in Places /\ left(k) \in Places
    BY <1>3, <1>4, <1>14, <2>0
  <2>2. next'[r[j]] = r[nn] /\ prev'[r[j]] = r[pp]
    <3> HIDE DEF j, c, np, right, left
    <3> QED
      BY <1>11, <1>12, <2>1
  <2>3. s[right(k)] = r[From(q1, q2, right(k))] /\ s[left(k)] = r[From(q1, q2, left(k))]
    BY <2>0, <2>1
  <2>4. N \in Nat /\ q1 \in 1 .. N /\ q2 \in 1 .. N /\ q1 < q2 /\ k \in 1 .. N
    BY <1>2, <1>3, <1>4
  <2>5. From(q1, q2, right(k)) = nn
    <3> HIDE DEF N
    <3>1. CASE k = q1
      BY <2>4, <3>1 DEF From
    <3>2. CASE q1 < k /\ k < q2
      BY <2>4, <3>2 DEF From
    <3>3. CASE k = q2
      BY <2>4, <3>3 DEF From
    <3>4. CASE k < q1 \/ q2 < k
      BY <2>4, <3>4 DEF From
    <3> QED
      BY <2>4, <3>1, <3>2, <3>3, <3>4
  <2>6. From(q1, q2, left(k)) = pp
    <3> HIDE DEF N
    <3> QED
      BY <2>4 DEF From
  <2> HIDE DEF j, nn, pp, right, left
  <2> QED
    BY <2>1, <2>2, <2>3, <2>5, <2>6
<1>16. Listing(s)
  BY <1>13, ShiftedListing DEF Ring
<1>17. Listing(s)' /\ Places' = Places /\ Number' = Number /\ Blocks' = Blocks
  <2>1. Places' = Places /\ Number' = Number /\ Blocks' = Blocks
    BY DEF Places, Number, Blocks
  <2> QED
    BY <1>16, <2>1 DEF Listing
<1>18. \A k \in Places : Right(s, k) = s[right(k)] /\ Left(s, k) = s[left(k)]
  BY DEF Right, Left
<1> HIDE DEF right, left
<1>19. Ring(s)'
  BY <1>15, <1>17, <1>18 DEF Ring, Right, Left
<1>20. \A k \in Places : s[k] = r[From(q1, q2, k)]
  BY <1>13 DEF Shifted
<1> QED
  BY <1>10, <1>17, <1>19, <1>20

-----------------------------------------------------------------------------
\* FLUSH_TO fills a block, from a buffer that has enough for it, and Flushed is the rest.
LEMMA FlushIs ==
    ASSUME ListOK(list), NEW b \in Blocks, NEW s \in Seq(Elements), nr(b) <= Len(s)
    PROVE  /\ ListOK(FLUSH_TO(b, s))
           /\ Flushed(b, s) \in Seq(Elements) /\ Len(Flushed(b, s)) = Len(s) - nr(b)
<1> DEFINE k == nr(b)
           u == SubSeq(s, 1, k)
           v == SubSeq(s, k + 1, Len(s))
<1>1. k \in Nat /\ k <= Len(s) /\ Len(list[b]) = k /\ Len(list[b]) = Len(given[b])
  BY DEF ListOK, nr
<1> HIDE DEF k
<1>2. u \in Seq(Elements) /\ Len(u) = k /\ v \in Seq(Elements) /\ Len(v) = Len(s) - k
  <2>1. Len(s) \in Nat /\ k \in 0 .. Len(s)
    BY <1>1
  <2> QED
    BY <2>1
<1>3. FLUSH_TO(b, s) = [list EXCEPT ![b] = u] /\ Flushed(b, s) = v
  BY DEF FLUSH_TO, Flushed, k
<1> HIDE DEF u, v
<1> QED
  BY <1>1, <1>2, <1>3 DEF ListOK, k

\* DUMP_TO overwrites no more of a block than it has.
LEMMA DumpIs ==
    ASSUME ListOK(list), NEW b \in Blocks, NEW s \in Seq(Elements), Len(s) <= nr(b)
    PROVE  ListOK(DUMP_TO(b, s))
<1> DEFINE v == SubSeq(list[b], Len(s) + 1, Len(list[b]))
<1>1. list[b] \in Seq(Elements) /\ Len(s) <= Len(list[b]) /\ Len(list[b]) = Len(given[b])
  BY DEF ListOK, nr
<1>2. v \in Seq(Elements) /\ Len(v) = Len(list[b]) - Len(s)
  BY <1>1
<1>3. DUMP_TO(b, s) = [list EXCEPT ![b] = s \o v]
  BY DEF DUMP_TO
<1> DEFINE w == s \o v
<1> HIDE DEF v
<1>4. w \in Seq(Elements) /\ Len(w) = Len(s) + Len(v)
  BY <1>2, Concatenated
<1>5. Len(w) = Len(given[b])
  BY <1>1, <1>2, <1>4
<1> HIDE DEF w
<1>6. DUMP_TO(b, s) = [list EXCEPT ![b] = w]
  BY <1>3 DEF w
<1> QED
  BY <1>4, <1>5, <1>6 DEF ListOK

\* The ring stays when no link changes.
LEMMA RingKept ==
    ASSUME NEW r, Ring(r), UNCHANGED <<given, links>>
    PROVE  Ring(r)'
BY DEF Ring, Listing, Places, Number, Blocks, Right, Left, links

\* Where the cursors are after a step.
LEMMA LayoutNext ==
    ASSUME given' = given,
           NEW r, Ring(r)', First' = r[1], NEW q1 \in Nat, NEW q2 \in Nat,
           q1 \in Places, b1' = r[q1], block1' # head' => q1 # 1,
           q1 + n' <= q2, m' # 0, n' = 0 <=> pc' = "flush",
           \A k \in q1 + n' .. q2 - 1 : k \in Places => Len(given[r[k]]) = 0,
           IF pc' = "next2" THEN q2 + m' <= Number + 2 /\ (m' # 1 => b2' = r[q2])
           ELSE q2 + m' <= Number + 1 /\ b2' = r[q2]
    PROVE  Layout(r, q1, q2)'
<1>1. Number' = Number /\ Places' = Places
  BY DEF Number, Places
<1>2. \A k \in q1 + n' .. q2 - 1 : k \in Places' => Len(given'[r[k]]) = 0
  BY <1>1
<1>3. Cursors(r, q1, q2)'
  BY <1>1, <1>2 DEF Cursors
<1> QED
  BY <1>3 DEF Layout

\* The parts of the inductive invariant, put together.
LEMMA Together ==
    ASSUME given' = given, given \in Lists, Typed', BufferExact', Fresh',
           NEW r, NEW q1 \in Nat, NEW q2 \in Nat, Layout(r, q1, q2)'
    PROVE  Inv(r, q1, q2)'
<1>1. given' \in Lists
  OBVIOUS
<1>2. r \in [Places -> Blocks]'
  BY DEF Layout, Ring, Listing
<1> QED
  BY <1>1, <1>2 DEF Inv

\* When merge_block_seqs returns the list starts with the block that is first.
LEMMA MergedIs ==
    ASSUME Typed, Merging, Merged
    PROVE  /\ First' = First /\ ~Merging' /\ pc' = "pair"
           /\ head' \in Blocks /\ plist' \in Blocks /\ block1' \in Blocks /\ after' \in Blocks
           /\ blocks' \in Nat \ {0}
BY DEF Typed, Merged, Merging, First

-----------------------------------------------------------------------------
\* The blocks have elements, and the buffer.
LEMMA Sizes ==
    ASSUME Typed, NEW b \in Blocks
    PROVE  list[b] \in Seq(Elements) /\ nr(b) = Len(list[b]) /\ nr(b) \in Nat /\ nr(b) = Len(given[b])
BY DEF Typed, ListOK, nr

\* What one more is.
LEMMA Appended ==
    ASSUME NEW S, NEW u \in Seq(S), NEW e \in S
    PROVE  Append(u, e) \in Seq(S) /\ Len(Append(u, e)) = Len(u) + 1
OBVIOUS

\* The links are those of the list that was given.
LEMMA InitInv ==
    ASSUME SortAssumption, Init
    PROVE  Inv([i \in Places |-> i], 0, 0)
<1>1. given \in Lists /\ Number \in Nat \ {0} /\ Blocks = Places /\ list = given
  BY Shape DEF Init
<1>2. given \in Seq(Seq(Elements))
  BY DEF SortAssumption, Init
<1>3. ListOK(list)
  BY <1>1, <1>2 DEF Blocks, ListOK
<1> DEFINE r == [i \in Places |-> i]
           N == Number
<1>4. Places = 1 .. N
  BY DEF Places
<1>5. next = [b \in 1 .. N |-> IF b = N THEN 1 ELSE b + 1] /\ prev = [b \in 1 .. N |-> IF b = 1 THEN N ELSE b - 1]
  BY <1>1, <1>4 DEF Init, Number, Blocks
<1>6. next \in [1 .. N -> 1 .. N] /\ prev \in [1 .. N -> 1 .. N] /\ 1 \in 1 .. N
  <2>1. N \in Nat \ {0}
    BY <1>1
  <2> HIDE DEF N
  <2> QED
    BY <1>5, <2>1
<1>7. Typed
  <2>1. next \in [Blocks -> Blocks] /\ prev \in [Blocks -> Blocks] /\ 1 \in Blocks
    BY <1>1, <1>4, <1>6
  <2> QED
    BY <1>3, <2>1 DEF Typed, Init
<1>8. Listing(r)
  BY <1>1 DEF Listing
<1>9. Ring(r)
  <2>1. ASSUME NEW i \in Places
        PROVE  r[i] = i /\ Right(r, i) = (IF i = N THEN 1 ELSE i + 1) /\ Left(r, i) = (IF i = 1 THEN N ELSE i - 1)
    <3>1. N \in Nat /\ i \in 1 .. N /\ 1 \in Places /\ N \in Places /\ (i # N => i + 1 \in Places) /\ (i # 1 => i - 1 \in Places)
      <4>1. N \in Nat \ {0} /\ i \in 1 .. N
        BY <1>1, <1>4
      <4> HIDE DEF N
      <4> QED
        BY <1>4, <4>1
    <3> QED
      BY <3>1 DEF Right, Left
  <2> HIDE DEF r, N
  <2> QED
    BY <1>4, <1>5, <1>8, <2>1 DEF Ring
<1>10. Layout(r, 0, 0)
  BY <1>1, <1>4, <1>6, <1>9 DEF Layout, First, Merging, Init
<1>11. BufferExact /\ Fresh
  BY DEF Init, BufferExact, Fresh
<1>12. r \in [Places -> Blocks]
  BY <1>8 DEF Listing
<1> HIDE DEF r
<1>13. Inv(r, 0, 0)
  BY <1>1, <1>7, <1>10, <1>11, <1>12 DEF Inv
<1> QED
  BY <1>13 DEF r

\* Sorting a block keeps its size.
LEMMA FragmentStep ==
    ASSUME SortAssumption, NEW r, NEW q1 \in Nat, NEW q2 \in Nat, Inv(r, q1, q2), sort_fragment
    PROVE  Inv(r, q1, q2)'
<1>1. Layout(r, q1, q2) /\ r \in [Places -> Blocks]
  BY DEF Inv
<1>2. given' = given /\ given \in Lists /\ UNCHANGED <<given, links>> /\ Typed /\ Blocks' = Blocks
  BY DEF sort_fragment, Inv, Blocks
<1>3. list[b1] \in Seq(Elements) /\ ListOK(list) /\ b1 \in Blocks
  BY <1>2 DEF Typed, ListOK
<1> DEFINE s == array_sort(list[b1])
<1>4. s \in Seq(Elements) /\ Len(s) = Len(list[b1])
  BY <1>3, ArraySortIs
<1>5. list' = [list EXCEPT ![b1] = s]
  BY DEF sort_fragment
<1> HIDE DEF s
<1>6. ListOK(list)'
  BY <1>2, <1>3, <1>4, <1>5 DEF ListOK
<1>7. Typed'
  BY <1>2, <1>6 DEF Typed, sort_fragment, links, pass
<1>8. ~Merging /\ ~Merging' /\ head' = head
  BY DEF sort_fragment, Merging, pass
<1>9. Layout(r, q1, q2)'
  <2>1. Ring(r)'
    BY <1>1, <1>2, RingKept DEF Layout
  <2> QED
    BY <1>1, <1>8, <2>1 DEF Layout, First
<1>10. BufferExact' /\ Fresh'
  BY <1>8 DEF BufferExact, Fresh, Merging
<1> QED
  BY <1>2, <1>7, <1>9, <1>10, Together

\* Between two merges nothing but the places in the pass changes.
LEMMA PassStep ==
    ASSUME SortAssumption, NEW r, NEW q1 \in Nat, NEW q2 \in Nat, Inv(r, q1, q2), sorted \/ next_pass
    PROVE  Inv(r, q1, q2)'
<1>1. Layout(r, q1, q2) /\ r \in [Places -> Blocks]
  BY DEF Inv
<1>2. given' = given /\ given \in Lists /\ UNCHANGED <<given, links>> /\ Typed /\ Blocks' = Blocks
  BY DEF sorted, next_pass, Inv, Blocks
<1>3. ListOK(list)'
  BY <1>2 DEF ListOK, Typed, sorted, next_pass
<1>4. Typed'
  <2>1. CASE sorted
    BY <1>2, <1>3, <2>1 DEF Typed, sorted, links
  <2>2. CASE next_pass
    BY <1>2, <1>3, <2>2 DEF Typed, next_pass, links
  <2> QED
    BY <2>1, <2>2
<1>5. ~Merging /\ ~Merging' /\ head' = head
  BY DEF sorted, next_pass, Merging
<1>6. Layout(r, q1, q2)'
  <2>1. Ring(r)'
    BY <1>1, <1>2, RingKept DEF Layout
  <2> QED
    BY <1>1, <1>5, <2>1 DEF Layout, First
<1>7. BufferExact' /\ Fresh'
  BY <1>5 DEF BufferExact, Fresh, Merging
<1> QED
  BY <1>2, <1>4, <1>6, <1>7, Together

\* Of two sequences of w blocks the first starts at place p, and the second starts at
\* place q and ends before place e, or with the list.
Joint(p, w, q, e) ==
    /\ Number \in Nat /\ p \in Places /\ w \in Nat \ {0} /\ q \in Nat /\ e \in Nat
    /\ q = p + w /\ q <= Number
    /\ q < e /\ e <= q + w /\ e <= Number + 1 /\ (e <= Number => e = q + w)

\* The sequences that are merged next: they start at places p and q, where p is that
\* of block1, and the second ends before place e, where after is.
Paired(r, p, q, e) ==
    /\ r[p] = block1 /\ Joint(p, blocks, q, e)
    /\ e = q + m' /\ after' = IF e <= Number THEN r[e] ELSE head
    /\ Inv(r, p, q)'

\* The second sequence starts as many blocks on as the first has, and neither goes
\* beyond the end of the list.
LEMMA PairStep ==
    ASSUME SortAssumption, NEW r, NEW q1 \in Nat, NEW q2 \in Nat, Inv(r, q1, q2), pair
    PROVE  \E p, q, e \in Nat : Paired(r, p, q, e)
<1>1. Layout(r, q1, q2) /\ r \in [Places -> Blocks]
  BY DEF Inv
<1>2. given' = given /\ given \in Lists /\ UNCHANGED <<given, links>> /\ Typed /\ Blocks' = Blocks /\ list' = list
  BY DEF pair, Inv, Blocks
<1>3. head = r[1] /\ Ring(r) /\ ~Merging /\ pc' = "skip2" /\ Merging'
  BY <1>1 DEF Layout, First, Merging, pair
<1>4. Number \in Nat \ {0} /\ Places = 1 .. Number /\ blocks \in Nat /\ blocks # 0
  BY <1>2, Shape DEF Places, Typed
<1>5. PICK p \in Places : r[p] = block1
  BY <1>2, <1>3 DEF Ring, Listing, Typed
<1> PICK t \in Nat : t = p + blocks
  BY <1>4
<1> DEFINE second == Ahead(block1, blocks).at
           rest == Ahead(second, blocks)
<1>6. /\ second # head /\ UNCHANGED <<head, plist, block1, blocks>>
      /\ after' = rest.at
      /\ b1' = block1 /\ n' = blocks /\ i1' = 0
      /\ b2' = second /\ m' = rest.k /\ i2' = 0 /\ buffer' = <<>> /\ newhead' = block1
  BY DEF pair
<1>7. second = r[t] /\ t \in Places /\ t <= Number
  <2>1. PICK k \in 1 .. blocks :
              /\ p + k <= Number + 1
              /\ p + k <= Number => k = blocks
              /\ second = IF p + k = Number + 1 THEN head ELSE r[p + k]
    <3>1. Reaches(r, p, blocks, Ahead(block1, blocks))
      BY <1>2, <1>3, <1>4, <1>5, AheadIs
    <3> QED
      BY <3>1 DEF Reaches
  <2>2. p + k <= Number
    <3>1. p \in Nat /\ k \in Nat /\ Number \in Nat /\ p + k # Number + 1
      BY <1>4, <1>6, <2>1
    <3> QED
      BY <2>1, <3>1
  <2>3. k = blocks /\ t <= Number /\ t # Number + 1
    BY <1>4, <2>1, <2>2
  <2>4. t \in Places
    BY <1>4, <2>3
  <2> HIDE DEF second
  <2> QED
    BY <2>1, <2>3, <2>4
<1> HIDE DEF second
<1>8. PICK k \in 1 .. blocks : /\ rest.k = k /\ t + k <= Number + 1 /\ (t + k <= Number => k = blocks)
                               /\ rest.at = IF t + k = Number + 1 THEN head ELSE r[t + k]
  <2> DEFINE q == t
  <2>1. q \in Places /\ second = r[q]
    BY <1>7
  <2> HIDE DEF q
  <2>2. \E k \in 1 .. blocks :
              /\ rest.k = k /\ q + k <= Number + 1
              /\ q + k <= Number => k = blocks
              /\ rest.at = IF q + k = Number + 1 THEN head ELSE r[q + k]
    <3>1. Reaches(r, q, blocks, Ahead(r[q], blocks))
      BY <1>2, <1>3, <1>4, <2>1, AheadIs
    <3> QED
      BY <2>1, <3>1 DEF Reaches
  <2> QED
    BY <2>2 DEF q
<1> HIDE DEF rest
<1>9. rest.k \in Nat /\ rest.k # 0 /\ rest.at \in Blocks /\ second \in Blocks
  <2>1. t + k # Number + 1 => t + k \in Places
    <3> QED
      BY <1>4, <1>7, <1>8
  <2>2. second \in Blocks /\ head \in Blocks
    BY <1>1, <1>2, <1>7 DEF Typed
  <2> QED
    BY <1>1, <1>8, <2>1, <2>2
<1>10. Typed'
  <2>1. ListOK(list)'
    BY <1>2 DEF ListOK, Typed
  <2>2. next' = next /\ prev' = prev
    BY <1>2 DEF links
  <2> QED
    BY <1>2, <1>3, <1>6, <1>9, <2>1, <2>2 DEF Typed
<1>11. Layout(r, p, t)'
  <2>1. block1 # head => p # 1
    BY <1>3, <1>5
  <2>2. p + n' <= t /\ t \in Nat
    BY <1>4, <1>6
  <2>3. \A k_1 \in p + n' .. t - 1 : FALSE
    BY <1>4, <1>6
  <2>4. t + m' <= Number + 1 /\ m' # 0 /\ n' # 0
    BY <1>4, <1>6, <1>8
  <2>5. Ring(r)'
    BY <1>2, <1>3, RingKept
  <2>6. First' = r[1]
    BY <1>3, <1>6 DEF First
  <2>7. p \in Nat /\ t \in Nat
    BY <1>4
  <2>8. given' = given /\ b1' = r[p] /\ (block1' # head' => p # 1) /\ (n' = 0 <=> pc' = "flush")
        /\ b2' = r[t] /\ pc' # "next2" /\ t + m' <= Number + 1
    BY <1>2, <1>3, <1>5, <1>6, <1>7, <2>1, <2>4
  <2> QED
    BY <2>2, <2>3, <2>4, <2>5, <2>6, <2>7, <2>8, LayoutNext
<1>12. BufferExact' /\ Fresh'
  BY <1>3, <1>6 DEF BufferExact, Fresh
<1>13. Inv(r, p, t)'
  <2>1. p \in Nat /\ t \in Nat
    BY <1>4
  <2> QED
    BY <1>2, <1>10, <1>11, <1>12, <2>1, Together
<1>14. PICK e \in Nat : e = t + k
  BY <1>4
<1>15. /\ t < e /\ e <= t + blocks /\ e <= Number + 1 /\ (e <= Number => e = t + blocks)
       /\ (e <= Number <=> t + k # Number + 1)
  BY <1>4, <1>8, <1>14
<1>16. e = t + m' /\ after' = IF e <= Number THEN r[e] ELSE head
  BY <1>6, <1>8, <1>14, <1>15
<1>17. p \in Nat /\ t \in Nat /\ t = p + blocks
  BY <1>4
<1> QED
  <2>1. Joint(p, blocks, t, e)
    BY <1>4, <1>7, <1>15, <1>17 DEF Joint
  <2> QED
    BY <1>5, <1>13, <1>16, <1>17, <2>1 DEF Paired

-----------------------------------------------------------------------------
\* What is known while two sequences are merged.
Known(r, q1, q2) ==
    /\ Ring(r) /\ First = r[1] /\ r \in [Places -> Blocks]
    /\ Cursors(r, q1, q2)
    /\ Places = 1 .. Number /\ Number \in Nat \ {0}
    /\ q1 \in Nat /\ q2 \in Nat
    /\ \A k \in Places : k # Number => next[r[k]] = r[k + 1]
    /\ \A k \in Places : nr(r[k]) = Len(given[r[k]])

\* What the invariant says of the list and of the cursors in a merge.
LEMMA KnownIs ==
    ASSUME SortAssumption, NEW r, NEW q1 \in Nat, NEW q2 \in Nat, Inv(r, q1, q2), Merging
    PROVE  Known(r, q1, q2)
<1>1. Layout(r, q1, q2) /\ r \in [Places -> Blocks] /\ q1 \in Nat /\ q2 \in Nat
  BY DEF Inv
<1>2. Cursors(r, q1, q2)
  BY <1>1 DEF Layout
<1>3. Ring(r) /\ First = r[1] /\ Places = 1 .. Number /\ Number \in Nat \ {0}
  BY <1>1, Shape DEF Layout, Inv, Places
<1>4. \A k \in Places : k # Number => next[r[k]] = r[k + 1]
  BY <1>3 DEF Ring, Right
<1>5. \A k \in Places : nr(r[k]) = Len(given[r[k]])
  BY DEF Inv, Typed, ListOK, nr
<1> QED
  BY <1>1, <1>2, <1>3, <1>4, <1>5 DEF Known

\* No link changes, and the sequences are merged: the list starts where it did.
LEMMA LayoutOver ==
    ASSUME given' = given, NEW r, NEW q1 \in Nat, NEW q2 \in Nat, Ring(r)', First' = r[1], ~Merging'
    PROVE  Layout(r, q1, q2)'
BY DEF Layout

\* An empty block of the second sequence is between the two.
LEMMA SkipEmptyStep ==
    ASSUME SortAssumption, NEW r, NEW q1 \in Nat, NEW q2 \in Nat, Inv(r, q1, q2), skip_empty
    PROVE  Inv(r, q1, q2 + 1)'
<1>1. Merging /\ pc = "skip2" /\ nr(b2) = 0 /\ b2' = next[b2] /\ m' = m - 1
  BY DEF Merging, skip_empty
<1>2. Known(r, q1, q2)
  BY <1>1, KnownIs
<1>3. given' = given /\ given \in Lists /\ UNCHANGED <<given, links>> /\ Typed /\ Blocks' = Blocks
      /\ UNCHANGED <<list, b1, n, i1, i2, buffer, newhead>> /\ next' = next /\ prev' = prev
  BY DEF skip_empty, Inv, Blocks, links
<1>4. Ring(r)'
  BY <1>2, <1>3, RingKept DEF Known
<1>5. ListOK(list)' /\ b2' \in Blocks /\ m \in Nat /\ n \in Nat
  BY <1>1, <1>3 DEF ListOK, Typed
<1>6. Cursors(r, q1, q2)
  BY <1>2 DEF Known
<1>7. m # 0 /\ q2 + m <= Number + 1 /\ b2 = r[q2] /\ q1 + n <= q2
  BY <1>1, <1>6 DEF Cursors
<1>8. m' \in Nat
  BY <1>1, <1>5, <1>7
<1>9. CASE m = 1
  <2>1. Merged
    BY <1>9 DEF skip_empty
  <2>2. /\ First' = First /\ ~Merging' /\ pc' = "pair"
        /\ head' \in Blocks /\ plist' \in Blocks /\ block1' \in Blocks /\ after' \in Blocks
        /\ blocks' \in Nat \ {0}
    BY <1>1, <1>3, <2>1, MergedIs
  <2>3. Typed'
    BY <1>3, <1>5, <1>8, <2>2 DEF Typed
  <2>4. Layout(r, q1, q2 + 1)'
    BY <1>2, <1>3, <1>4, <2>2, LayoutOver DEF Known
  <2>5. BufferExact' /\ Fresh'
    BY <2>2 DEF BufferExact, Fresh
  <2> QED
    BY <1>2, <1>3, <2>3, <2>4, <2>5, Together
<1>10. CASE m # 1
  <2>1. UNCHANGED <<pc, pass>>
    BY <1>10 DEF skip_empty
  <2>2. UNCHANGED <<pc, head, plist, blocks, block1, after>>
    BY <2>1 DEF pass
  <2>3. Typed'
    BY <1>3, <1>5, <1>8, <2>2 DEF Typed
  <2>4. BufferExact' /\ Fresh'
    BY <1>1, <1>3, <2>2 DEF BufferExact, Fresh, Inv
  <2>5. Number \in Nat \ {0} /\ Places = 1 .. Number /\ n # 0 /\ q1 \in Places
    BY <1>1, <1>2, <1>6 DEF Known, Cursors
  <2>6. q2 \in Places /\ q2 # Number /\ q2 + 1 \in Nat /\ q1 + n <= q2 + 1 /\ q2 + 1 + m' <= Number + 1 /\ m' # 0
    BY <1>1, <1>5, <1>7, <1>10, <2>5
  <2>7. b2' = r[q2 + 1] /\ nr(r[q2]) = Len(given[r[q2]])
    BY <1>1, <1>2, <1>7, <2>6 DEF Known
  <2>8. \A k \in q1 + n .. q2 + 1 - 1 : k \in Places => Len(given[r[k]]) = 0
    <3>1. \A k \in q1 + n .. q2 - 1 : k \in Places => Len(given[r[k]]) = 0
      BY <1>6 DEF Cursors
    <3>2. \A k \in q1 + n .. q2 + 1 - 1 : k = q2 \/ k \in q1 + n .. q2 - 1
      BY <1>5
    <3> QED
      BY <1>1, <1>7, <2>7, <3>1, <3>2
  <2>9. b1' = r[q1] /\ (block1' # head' => q1 # 1) /\ n' = n /\ First' = r[1] /\ pc' = "skip2"
    BY <1>1, <1>2, <1>3, <1>6, <2>2 DEF Known, Cursors, First, Merging
  <2>10. Layout(r, q1, q2 + 1)'
    <3> DEFINE q == q2 + 1
    <3>1. q \in Nat /\ q1 + n <= q /\ q + m' <= Number + 1 /\ b2' = r[q]
          /\ \A k \in q1 + n .. q - 1 : k \in Places => Len(given[r[k]]) = 0
      BY <2>6, <2>7, <2>8
    <3> HIDE DEF q
    <3>2. Layout(r, q1, q)'
      BY <1>2, <1>3, <1>4, <2>5, <2>6, <2>9, <3>1, LayoutNext
    <3> QED
      BY <3>2 DEF q
  <2> QED
    BY <1>2, <1>3, <2>3, <2>4, <2>6, <2>10, Together
<1> QED
  BY <1>9, <1>10

\* A block of the first sequence that is in its place is left where it is.
LEMMA SkipBlockStep ==
    ASSUME SortAssumption, NEW r, NEW q1 \in Nat, NEW q2 \in Nat, Inv(r, q1, q2), skip_block
    PROVE  Inv(r, q1 + 1, q2)'
<1>1. Merging /\ pc = "skip1" /\ b1' = next[b1] /\ n' = n - 1
  BY DEF Merging, skip_block
<1>2. Known(r, q1, q2)
  BY <1>1, KnownIs
<1>3. given' = given /\ given \in Lists /\ UNCHANGED <<given, links>> /\ Typed /\ Blocks' = Blocks
      /\ UNCHANGED <<list, b2, m, i1, i2, buffer, newhead>> /\ next' = next /\ prev' = prev
  BY DEF skip_block, Inv, Blocks, links
<1>4. Ring(r)'
  BY <1>2, <1>3, RingKept DEF Known
<1>5. ListOK(list)' /\ b1' \in Blocks /\ m \in Nat /\ n \in Nat
  BY <1>1, <1>3 DEF ListOK, Typed
<1>6. Cursors(r, q1, q2)
  BY <1>2 DEF Known
<1>7. m # 0 /\ q2 + m <= Number + 1 /\ b2 = r[q2] /\ q1 + n <= q2 /\ n # 0 /\ b1 = r[q1]
  BY <1>1, <1>6 DEF Cursors
<1>8. n' \in Nat
  BY <1>1, <1>5, <1>7
<1>9. CASE n = 1
  <2>1. Merged
    BY <1>9 DEF skip_block
  <2>2. /\ First' = First /\ ~Merging' /\ pc' = "pair"
        /\ head' \in Blocks /\ plist' \in Blocks /\ block1' \in Blocks /\ after' \in Blocks
        /\ blocks' \in Nat \ {0}
    BY <1>1, <1>3, <2>1, MergedIs
  <2>3. Typed'
    BY <1>3, <1>5, <1>8, <2>2 DEF Typed
  <2>4. Layout(r, q1 + 1, q2)'
    BY <1>2, <1>3, <1>4, <2>2, LayoutOver DEF Known
  <2>5. BufferExact' /\ Fresh'
    BY <2>2 DEF BufferExact, Fresh
  <2> QED
    BY <1>2, <1>3, <2>3, <2>4, <2>5, Together
<1>10. CASE n # 1
  <2>1. UNCHANGED <<pc, pass>>
    BY <1>10 DEF skip_block
  <2>2. UNCHANGED <<pc, head, plist, blocks, block1, after>>
    BY <2>1 DEF pass
  <2>3. Typed'
    BY <1>3, <1>5, <1>8, <2>2 DEF Typed
  <2>4. BufferExact' /\ Fresh'
    BY <1>1, <1>3, <2>2 DEF BufferExact, Fresh, Inv, nr
  <2>5. Number \in Nat \ {0} /\ Places = 1 .. Number /\ q1 \in Places
    BY <1>1, <1>2, <1>6 DEF Known, Cursors
  <2>6. q1 + 1 \in Places /\ q1 + 1 \in Nat /\ q1 # Number /\ q1 + 1 # 1 /\ n' # 0 /\ q1 + 1 + n' = q1 + n
    BY <1>1, <1>5, <1>7, <1>10, <2>5
  <2>7. b1' = r[q1 + 1]
    BY <1>1, <1>2, <1>7, <2>5, <2>6 DEF Known
  <2>8. \A k \in q1 + 1 + n' .. q2 - 1 : k \in Places => Len(given[r[k]]) = 0
    BY <1>6, <2>6 DEF Cursors
  <2>9. b2' = r[q2] /\ m' = m /\ First' = r[1] /\ pc' = "skip1" /\ q1 + 1 + n' <= q2
    BY <1>1, <1>2, <1>3, <1>7, <2>2, <2>6 DEF Known, First, Merging
  <2>10. Layout(r, q1 + 1, q2)'
    <3> DEFINE q == q1 + 1
    <3>1. q \in Places /\ q \in Nat /\ q # 1 /\ b1' = r[q] /\ q + n' <= q2
          /\ \A k \in q + n' .. q2 - 1 : k \in Places => Len(given[r[k]]) = 0
      BY <2>6, <2>7, <2>8, <2>9
    <3> HIDE DEF q
    <3>2. Layout(r, q, q2)'
      BY <1>2, <1>3, <1>4, <1>7, <2>6, <2>9, <3>1, LayoutNext
    <3> QED
      BY <3>2 DEF q
  <2> QED
    BY <1>2, <1>3, <2>3, <2>4, <2>6, <2>10, Together
<1> QED
  BY <1>9, <1>10

\* A step that changes neither the blocks nor where the sequences are.
LEMMA LayoutSame ==
    ASSUME given' = given, NEW r, NEW q1 \in Nat, NEW q2 \in Nat, Known(r, q1, q2),
           Ring(r)', First' = r[1], UNCHANGED <<b1, n, b2, m, head, block1>>,
           pc \in {"skip2", "skip1", "merge"}, pc' \in {"skip1", "merge"}
    PROVE  Layout(r, q1, q2)'
<1>1. Cursors(r, q1, q2)
  BY DEF Known
<1>2. /\ q1 \in Places /\ b1' = r[q1] /\ (block1' # head' => q1 # 1)
      /\ q1 + n' <= q2 /\ m' # 0 /\ (n' = 0 <=> pc' = "flush")
      /\ \A k \in q1 + n' .. q2 - 1 : k \in Places => Len(given[r[k]]) = 0
      /\ pc' # "next2" /\ q2 + m' <= Number + 1 /\ b2' = r[q2]
  BY <1>1 DEF Cursors
<1> QED
  BY <1>2, LayoutNext

\* The loops that skip end at blocks that have elements.
LEMMA SkipDoneStep ==
    ASSUME SortAssumption, NEW r, NEW q1 \in Nat, NEW q2 \in Nat, Inv(r, q1, q2), skip_empty_done \/ skip_block_done
    PROVE  Inv(r, q1, q2)'
<1>1. /\ Merging /\ pc \in {"skip2", "skip1"} /\ pc' \in {"skip1", "merge"}
      /\ (pc = "skip2" => nr(b2) # 0 /\ pc' = "skip1") /\ (pc = "skip1" => nr(b1) # 0 /\ pc' = "merge")
  BY DEF Merging, skip_empty_done, skip_block_done, InPlace
<1>2. Known(r, q1, q2)
  BY <1>1, KnownIs
<1>3. given' = given /\ given \in Lists /\ UNCHANGED <<given, links>> /\ Typed /\ Blocks' = Blocks
      /\ UNCHANGED <<list, b1, n, b2, m, i1, i2, buffer, newhead>> /\ next' = next /\ prev' = prev
      /\ UNCHANGED <<head, plist, blocks, block1, after>>
  BY DEF skip_empty_done, skip_block_done, Inv, Blocks, links, pass
<1>4. Ring(r)' /\ First' = r[1]
  BY <1>1, <1>2, <1>3, RingKept DEF Known, First, Merging
<1>5. ListOK(list)'
  BY <1>3 DEF ListOK, Typed
<1>6. Typed'
  BY <1>1, <1>3, <1>5 DEF Typed
<1>7. BufferExact' /\ Fresh'
  <2>1. nr(b1) \in Nat /\ nr(b2) \in Nat /\ nr(b1)' = nr(b1) /\ nr(b2)' = nr(b2)
    BY <1>3 DEF nr, Typed, ListOK
  <2>2. i1 = 0 /\ i2 = 0 /\ buffer = <<>> /\ (pc = "skip1" => nr(b2) # 0)
    BY <1>1 DEF Inv, Fresh
  <2> QED
    BY <1>1, <1>3, <2>1, <2>2 DEF BufferExact, Fresh
<1>8. Layout(r, q1, q2)'
  BY <1>1, <1>2, <1>3, <1>4, LayoutSame
<1> QED
  BY <1>2, <1>3, <1>6, <1>7, <1>8, Together

\* What is taken is in the buffer until a block is flushed, which has just that much.
LEMMA TakeFirstStep ==
    ASSUME SortAssumption, NEW r, NEW q1 \in Nat, NEW q2 \in Nat, Inv(r, q1, q2), take_first
    PROVE  Inv(r, q1, q2)'
<1> DEFINE e == list[b1][i1 + 1]
           s == Append(buffer, e)
<1>1. Merging /\ pc = "merge" /\ i1' = i1 + 1
  BY DEF Merging, take_first
<1>2. Known(r, q1, q2)
  BY <1>1, KnownIs
<1>3. given' = given /\ given \in Lists /\ UNCHANGED <<given, links>> /\ Typed /\ Blocks' = Blocks
      /\ UNCHANGED <<b1, n, b2, m, i2, newhead>> /\ next' = next /\ prev' = prev
      /\ UNCHANGED <<head, plist, blocks, block1, after>>
  BY DEF take_first, Inv, Blocks, links, pass
<1>4. /\ i1 \in Nat /\ i2 \in Nat /\ i1 < nr(b1) /\ i2 < nr(b2) /\ Len(buffer) = i1 + i2
      /\ buffer \in Seq(Elements) /\ list[b1] \in Seq(Elements) /\ nr(b1) = Len(list[b1])
      /\ nr(b1) \in Nat /\ nr(b2) \in Nat /\ b1 \in Blocks /\ b2 \in Blocks /\ ListOK(list)
  <2>1. i1 < nr(b1) /\ i2 < nr(b2) /\ Len(buffer) = i1 + i2
    BY <1>1 DEF Inv, BufferExact
  <2>2. i1 \in Nat /\ i2 \in Nat /\ buffer \in Seq(Elements) /\ b1 \in Blocks /\ b2 \in Blocks /\ ListOK(list)
    BY <1>3 DEF Typed
  <2> QED
    BY <1>3, <2>1, <2>2, Sizes
<1>5. s \in Seq(Elements) /\ Len(s) = i1 + 1 + i2
  <2>1. e \in Elements
    <3>1. i1 + 1 \in 1 .. Len(list[b1])
      BY <1>4
    <3> QED
      BY <1>4, <3>1
  <2> HIDE DEF e
  <2>2. s \in Seq(Elements) /\ Len(s) = Len(buffer) + 1
    BY <1>4, <2>1, Appended
  <2> HIDE DEF s
  <2> QED
    BY <1>4, <2>2
<1>6. Ring(r)'
  BY <1>2, <1>3, RingKept DEF Known
<1>7. CASE i1 + 1 < nr(b1)
  <2>1. buffer' = s /\ UNCHANGED <<list, pc>>
    BY <1>7 DEF take_first
  <2> HIDE DEF s
  <2>2. ListOK(list)'
    BY <1>3, <1>4, <2>1 DEF ListOK
  <2>3. Typed'
    <3>1. i1' \in Nat
      BY <1>1, <1>4
    <3> QED
      BY <1>1, <1>3, <1>4, <1>5, <2>1, <2>2, <3>1 DEF Typed
  <2>4. BufferExact' /\ Fresh'
    BY <1>1, <1>3, <1>4, <1>5, <1>7, <2>1 DEF BufferExact, Fresh, nr
  <2>5. First' = r[1]
    BY <1>1, <1>2, <1>3, <2>1 DEF Known, First, Merging
  <2>6. Layout(r, q1, q2)'
    BY <1>1, <1>2, <1>3, <1>6, <2>1, <2>5, LayoutSame
  <2> QED
    BY <1>2, <1>3, <2>3, <2>4, <2>6, Together
<1>8. CASE ~(i1 + 1 < nr(b1))
  <2>1. list' = FLUSH_TO(b1, s) /\ buffer' = Flushed(b1, s) /\ pc' = "next1"
    BY <1>8 DEF take_first
  <2> HIDE DEF s
  <2>2. nr(b1) = i1 + 1 /\ nr(b1) <= Len(s) /\ Len(s) - nr(b1) = i2
    <3> DEFINE k == nr(b1)
               len == Len(s)
    <3>1. len \in Nat /\ k \in Nat /\ i1 < k /\ ~(i1 + 1 < k) /\ len = i1 + 1 + i2 /\ i1 \in Nat /\ i2 \in Nat
      BY <1>4, <1>5, <1>8
    <3> HIDE DEF k, len
    <3>2. k = i1 + 1 /\ k <= len /\ len - k = i2
      BY <3>1
    <3> QED
      BY <3>2 DEF k, len
  <2>3. ListOK(list') /\ buffer' \in Seq(Elements) /\ Len(buffer') = i2
    BY <1>4, <1>5, <2>1, <2>2, FlushIs
  <2>4. ListOK(list)'
    BY <1>3, <2>3 DEF ListOK
  <2>5. Typed'
    BY <1>1, <1>3, <1>4, <2>1, <2>3, <2>4 DEF Typed
  <2>6. nr(b2)' = nr(b2)
    BY <1>3, <1>4, <2>3 DEF ListOK, nr
  <2>7. BufferExact' /\ Fresh'
    BY <1>3, <1>4, <2>1, <2>3, <2>6 DEF BufferExact, Fresh
  <2>8. First' = r[1]
    BY <1>1, <1>2, <1>3, <2>1 DEF Known, First, Merging
  <2>9. Cursors(r, q1, q2)
    BY <1>2 DEF Known
  <2>10. /\ q1 \in Places /\ b1' = r[q1] /\ (block1' # head' => q1 # 1)
         /\ q1 + n' <= q2 /\ m' # 0 /\ (n' = 0 <=> pc' = "flush")
         /\ \A k \in q1 + n' .. q2 - 1 : k \in Places => Len(given[r[k]]) = 0
         /\ pc' # "next2" /\ q2 + m' <= Number + 1 /\ b2' = r[q2]
    BY <1>1, <1>3, <2>1, <2>9 DEF Cursors
  <2>11. Layout(r, q1, q2)'
    BY <1>2, <1>3, <1>6, <2>8, <2>10, LayoutNext
  <2> QED
    BY <1>2, <1>3, <2>5, <2>7, <2>11, Together
<1> QED
  BY <1>7, <1>8

\* The next block of the first sequence: the places of a step on along it.
LEMMA OnFirst ==
    ASSUME NEW r, NEW q1 \in Nat, NEW q2 \in Nat, Known(r, q1, q2), Typed,
           pc \in {"next1", "flush"}, q1 # q2
    PROVE  /\ q1 + 1 \in Places /\ q1 + 1 \in Nat /\ q1 + 1 # 1 /\ q1 + 1 <= q2 /\ q2 \in Places
           /\ next[b1] = r[q1 + 1] /\ next[b1] \in Blocks /\ r[q2] = b2
           /\ m # 0 /\ q2 + m <= Number + 1
<1>1. /\ q1 \in Places /\ b1 = r[q1] /\ q1 + n <= q2 /\ m # 0 /\ q2 + m <= Number + 1 /\ b2 = r[q2]
  BY DEF Known, Cursors
<1>2. n \in Nat /\ m \in Nat /\ b1 \in Blocks /\ next \in [Blocks -> Blocks]
  BY DEF Typed
<1>3. Number \in Nat /\ Places = 1 .. Number
  BY DEF Known
<1>4. q1 + 1 \in Places /\ q1 + 1 \in Nat /\ q1 + 1 # 1 /\ q1 + 1 <= q2 /\ q1 # Number /\ q2 \in Places
  BY <1>1, <1>2, <1>3
<1>5. next[b1] = r[q1 + 1]
  BY <1>1, <1>4 DEF Known
<1> QED
  BY <1>1, <1>2, <1>4, <1>5

\* The next block of the first sequence starts from its first element.
LEMMA NextFirstStep ==
    ASSUME SortAssumption, NEW r, NEW q1 \in Nat, NEW q2 \in Nat, Inv(r, q1, q2), next_first
    PROVE  Inv(r, q1 + 1, q2)'
<1>1. Merging /\ pc = "next1" /\ n > 1 /\ b1' = next[b1] /\ n' = n - 1
      /\ IF nr(next[b1]) = 0 THEN UNCHANGED <<pc, i1>> ELSE pc' = "merge" /\ i1' = 0
  BY DEF Merging, next_first
<1>2. Known(r, q1, q2)
  BY <1>1, KnownIs
<1>3. given' = given /\ given \in Lists /\ UNCHANGED <<given, links>> /\ Typed /\ Blocks' = Blocks
      /\ UNCHANGED <<list, b2, m, i2, buffer, newhead>> /\ next' = next /\ prev' = prev
      /\ UNCHANGED <<head, plist, blocks, block1, after>>
  BY DEF next_first, Inv, Blocks, links, pass
<1>4. Ring(r)'
  BY <1>2, <1>3, RingKept DEF Known
<1>5. ListOK(list)' /\ n \in Nat
  BY <1>3 DEF ListOK, Typed
<1>6. Cursors(r, q1, q2)
  BY <1>2 DEF Known
<1>7. q1 + n <= q2 /\ q1 # q2 /\ (pc' = "next1" \/ pc' = "merge")
  BY <1>1, <1>5, <1>6 DEF Cursors
<1>8. /\ q1 + 1 \in Places /\ q1 + 1 \in Nat /\ q1 + 1 # 1 /\ q1 + 1 <= q2
      /\ next[b1] = r[q1 + 1] /\ next[b1] \in Blocks /\ r[q2] = b2 /\ m # 0 /\ q2 + m <= Number + 1
  BY <1>1, <1>2, <1>3, <1>7, OnFirst
<1>9. n' \in Nat /\ n' # 0 /\ q1 + 1 + n' = q1 + n
  BY <1>1, <1>5
<1>10. i1' \in Nat
  BY <1>1, <1>3 DEF Typed
<1>11. Typed'
  BY <1>1, <1>3, <1>5, <1>7, <1>8, <1>9, <1>10 DEF Typed
<1>12. BufferExact' /\ Fresh'
  <2>1. nr(b1)' = nr(next[b1]) /\ nr(b2)' = nr(b2) /\ nr(next[b1]) \in Nat
    BY <1>1, <1>3, <1>8, Sizes DEF nr
  <2>2. i2 < nr(b2) /\ Len(buffer) = i2 /\ i2 \in Nat
    BY <1>1, <1>3 DEF Inv, BufferExact, Typed
  <2> QED
    BY <1>1, <1>3, <1>7, <2>1, <2>2 DEF BufferExact, Fresh
<1>13. Layout(r, q1 + 1, q2)'
  <2> DEFINE q == q1 + 1
  <2>1. q \in Places /\ q \in Nat /\ q # 1 /\ b1' = r[q] /\ q + n' <= q2
    BY <1>1, <1>7, <1>8, <1>9
  <2>2. \A k \in q + n' .. q2 - 1 : k \in Places => Len(given[r[k]]) = 0
    BY <1>6, <1>9 DEF Cursors
  <2>3. First' = r[1]
    BY <1>1, <1>2, <1>3, <1>7 DEF Known, First, Merging
  <2>4. b2' = r[q2] /\ m' # 0 /\ q2 + m' <= Number + 1 /\ pc' # "next2" /\ pc' # "flush"
    BY <1>3, <1>7, <1>8
  <2> HIDE DEF q
  <2>5. Layout(r, q, q2)'
    BY <1>2, <1>3, <1>4, <1>9, <2>1, <2>2, <2>3, <2>4, LayoutNext
  <2> QED
    BY <2>5 DEF q
<1> QED
  BY <1>2, <1>8, <1>3, <1>11, <1>12, <1>13, Together

\* All up to the block b2 is at is used up, and empty.
LEMMA NoFirstStep ==
    ASSUME SortAssumption, NEW r, NEW q1 \in Nat, NEW q2 \in Nat, Inv(r, q1, q2), no_first
    PROVE  Inv(r, q1 + 1, q2)'
<1>1. Merging /\ pc = "next1" /\ n = 1 /\ b1' = next[b1] /\ n' = 0 /\ pc' = "flush"
  BY DEF Merging, no_first
<1>2. Known(r, q1, q2)
  BY <1>1, KnownIs
<1>3. given' = given /\ given \in Lists /\ UNCHANGED <<given, links>> /\ Typed /\ Blocks' = Blocks
      /\ UNCHANGED <<list, b2, m, i1, i2, buffer, newhead>> /\ next' = next /\ prev' = prev
      /\ UNCHANGED <<head, plist, blocks, block1, after>>
  BY DEF no_first, Inv, Blocks, links, pass
<1>4. Ring(r)'
  BY <1>2, <1>3, RingKept DEF Known
<1>5. ListOK(list)' /\ n \in Nat
  BY <1>3 DEF ListOK, Typed
<1>6. Cursors(r, q1, q2)
  BY <1>2 DEF Known
<1>7. q1 + n <= q2 /\ q1 # q2
  BY <1>1, <1>5, <1>6 DEF Cursors
<1>8. /\ q1 + 1 \in Places /\ q1 + 1 \in Nat /\ q1 + 1 # 1 /\ q1 + 1 <= q2
      /\ next[b1] = r[q1 + 1] /\ next[b1] \in Blocks /\ r[q2] = b2 /\ m # 0 /\ q2 + m <= Number + 1
  BY <1>1, <1>2, <1>3, <1>7, OnFirst
<1>9. Typed'
  BY <1>1, <1>3, <1>5, <1>8 DEF Typed
<1>10. \A k \in q1 + 1 .. q2 - 1 : k \in Places => Len(given[r[k]]) = 0
  BY <1>1, <1>6 DEF Cursors
<1>11. BufferExact' /\ Fresh'
  <2>1. nr(b1)' = nr(next[b1]) /\ nr(b2)' = nr(b2)
    BY <1>1, <1>3 DEF nr
  <2>2. i2 < nr(b2) /\ Len(buffer) = i2
    BY <1>1 DEF Inv, BufferExact
  <2>3. ASSUME next[b1] # b2 PROVE nr(next[b1]) = 0
    <3>1. q1 + 1 \in q1 + 1 .. q2 - 1
      BY <1>8, <2>3
    <3> QED
      BY <1>3, <1>8, <1>10, <3>1, Sizes
  <2> QED
    BY <1>1, <1>3, <2>1, <2>2, <2>3 DEF BufferExact, Fresh
<1>12. Layout(r, q1 + 1, q2)'
  <2> DEFINE q == q1 + 1
  <2>1. q \in Places /\ q \in Nat /\ q # 1 /\ b1' = r[q] /\ q + n' <= q2 /\ q + n' = q
    BY <1>1, <1>7, <1>8
  <2>2. \A k \in q + n' .. q2 - 1 : k \in Places => Len(given[r[k]]) = 0
    BY <1>10, <2>1
  <2>3. First' = r[1]
    BY <1>1, <1>2, <1>3 DEF Known, First, Merging
  <2>4. b2' = r[q2] /\ m' # 0 /\ q2 + m' <= Number + 1 /\ pc' # "next2" /\ (n' = 0 <=> pc' = "flush")
    BY <1>1, <1>3, <1>8
  <2> HIDE DEF q
  <2>5. Layout(r, q, q2)'
    BY <1>2, <1>3, <1>4, <2>1, <2>2, <2>3, <2>4, LayoutNext
  <2> QED
    BY <2>5 DEF q
<1> QED
  BY <1>2, <1>8, <1>3, <1>9, <1>11, <1>12, Together

\* A block before b2 takes nothing out of the buffer.
LEMMA FlushStep ==
    ASSUME SortAssumption, NEW r, NEW q1 \in Nat, NEW q2 \in Nat, Inv(r, q1, q2), flush
    PROVE  Inv(r, q1 + 1, q2)'
<1>1. Merging /\ pc = "flush" /\ pc' = "flush" /\ b1 # b2 /\ b1' = next[b1]
      /\ list' = FLUSH_TO(b1, buffer) /\ buffer' = Flushed(b1, buffer)
  BY DEF Merging, flush
<1>2. Known(r, q1, q2)
  BY <1>1, KnownIs
<1>3. given' = given /\ given \in Lists /\ UNCHANGED <<given, links>> /\ Typed /\ Blocks' = Blocks
      /\ UNCHANGED <<b2, n, m, i1, i2, newhead>> /\ next' = next /\ prev' = prev
      /\ UNCHANGED <<head, plist, blocks, block1, after>>
  BY DEF flush, Inv, Blocks, links, pass
<1>4. Ring(r)'
  BY <1>2, <1>3, RingKept DEF Known
<1>5. /\ i2 < nr(b2) /\ Len(buffer) = i2 /\ nr(b1) = 0
  BY <1>1 DEF Inv, BufferExact
<1>6. buffer \in Seq(Elements) /\ b1 \in Blocks /\ b2 \in Blocks /\ ListOK(list) /\ i2 \in Nat
  BY <1>3 DEF Typed
<1>7. ListOK(list') /\ buffer' \in Seq(Elements) /\ Len(buffer') = i2
  <2>1. nr(b1) <= Len(buffer) /\ Len(buffer) - nr(b1) = i2
    BY <1>5, <1>6
  <2> QED
    BY <1>1, <1>6, <2>1, FlushIs
<1>8. ListOK(list)' /\ \A b \in Blocks : nr(b)' = nr(b)
  BY <1>3, <1>6, <1>7 DEF ListOK, nr
<1>9. Cursors(r, q1, q2)
  BY <1>2 DEF Known
<1>10. n = 0 /\ q1 # q2 /\ q1 + n = q1
  BY <1>1, <1>9 DEF Cursors
<1>11. /\ q1 + 1 \in Places /\ q1 + 1 \in Nat /\ q1 + 1 # 1 /\ q1 + 1 <= q2
       /\ next[b1] = r[q1 + 1] /\ next[b1] \in Blocks /\ r[q2] = b2 /\ m # 0 /\ q2 + m <= Number + 1
  BY <1>1, <1>2, <1>3, <1>10, OnFirst
<1>12. Typed'
  BY <1>1, <1>3, <1>7, <1>8, <1>11 DEF Typed
<1>13. \A k \in q1 + 1 .. q2 - 1 : k \in Places => Len(given[r[k]]) = 0
  <2>1. \A k \in q1 .. q2 - 1 : k \in Places => Len(given[r[k]]) = 0
    BY <1>9, <1>10 DEF Cursors
  <2>2. \A k \in q1 + 1 .. q2 - 1 : k \in q1 .. q2 - 1
    OBVIOUS
  <2> QED
    BY <2>1, <2>2
<1>14. BufferExact' /\ Fresh'
  <2>1. nr(b1)' = nr(next[b1]) /\ nr(b2)' = nr(b2)
    <3>1. list'[b1'] = list'[next[b1]] /\ nr(b2)' = Len(list'[b2])
      BY <1>1, <1>3 DEF nr
    <3>2. Len(list'[next[b1]]) = Len(list[next[b1]]) /\ Len(list'[b2]) = Len(list[b2])
      BY <1>6, <1>7, <1>11 DEF ListOK
    <3> QED
      BY <3>1, <3>2 DEF nr
  <2>2. ASSUME next[b1] # b2 PROVE nr(next[b1]) = 0
    <3>1. q1 + 1 \in q1 + 1 .. q2 - 1
      BY <1>11, <2>2
    <3> QED
      BY <1>3, <1>11, <1>13, <3>1, Sizes
  <2> QED
    BY <1>1, <1>3, <1>5, <1>7, <2>1, <2>2 DEF BufferExact, Fresh
<1>15. Layout(r, q1 + 1, q2)'
  <2> DEFINE q == q1 + 1
  <2>1. q \in Places /\ q \in Nat /\ q # 1 /\ b1' = r[q] /\ q + n' <= q2 /\ q + n' = q
    BY <1>1, <1>3, <1>10, <1>11
  <2>2. \A k \in q + n' .. q2 - 1 : k \in Places => Len(given[r[k]]) = 0
    BY <1>13, <2>1
  <2>3. First' = r[1]
    BY <1>1, <1>2, <1>3 DEF Known, First, Merging
  <2>4. b2' = r[q2] /\ m' # 0 /\ q2 + m' <= Number + 1 /\ pc' # "next2" /\ (n' = 0 <=> pc' = "flush")
    BY <1>1, <1>3, <1>10, <1>11
  <2> HIDE DEF q
  <2>5. Layout(r, q, q2)'
    BY <1>2, <1>3, <1>4, <2>1, <2>2, <2>3, <2>4, LayoutNext
  <2> QED
    BY <2>5 DEF q
<1> QED
  BY <1>2, <1>11, <1>3, <1>12, <1>14, <1>15, Together

\* What is left of the buffer is less than the block it goes to has room for.
LEMMA DumpStep ==
    ASSUME SortAssumption, NEW r, NEW q1 \in Nat, NEW q2 \in Nat, Inv(r, q1, q2), dump \/ no_second
    PROVE  Inv(r, q1, q2)'
<1>1. Merging /\ Merged /\ pc \in {"flush", "next2"}
  BY DEF Merging, dump, no_second
<1>2. Known(r, q1, q2)
  BY <1>1, KnownIs
<1>3. given' = given /\ given \in Lists /\ UNCHANGED <<given, links>> /\ Typed /\ Blocks' = Blocks
      /\ UNCHANGED <<b1, n, i1, b2, i2, buffer, newhead>> /\ next' = next /\ prev' = prev
      /\ m' \in Nat
  <2>1. given \in Lists /\ Typed /\ m \in Nat
    BY DEF Inv, Typed
  <2>2. CASE dump
    BY <2>1, <2>2 DEF dump, Blocks, links
  <2>3. CASE no_second
    BY <2>1, <2>3 DEF no_second, Blocks, links
  <2> QED
    BY <2>2, <2>3
<1>4. Ring(r)'
  BY <1>2, <1>3, RingKept DEF Known
<1>5. \E b \in Blocks : list' = DUMP_TO(b, buffer) /\ Len(buffer) <= nr(b)
  <2>1. b1 \in Blocks /\ b2 \in Blocks /\ i1 \in Nat /\ i2 \in Nat /\ nr(b1) \in Nat /\ nr(b2) \in Nat
    BY <1>3, Sizes DEF Typed
  <2>2. CASE dump
    <3>1. list' = DUMP_TO(b2, buffer) /\ i2 < nr(b2) /\ Len(buffer) = i2
      BY <2>2 DEF dump, Inv, BufferExact
    <3> QED
      BY <2>1, <3>1
  <2>3. CASE no_second
    <3>1. list' = DUMP_TO(b1, buffer) /\ i1 < nr(b1) /\ Len(buffer) = i1
      BY <2>3 DEF no_second, Inv, BufferExact
    <3> QED
      BY <2>1, <3>1
  <2> QED
    BY <2>2, <2>3
<1>6. ListOK(list')
  BY <1>3, <1>5, DumpIs DEF Typed
<1>7. ListOK(list)'
  BY <1>3, <1>6 DEF ListOK
<1>8. /\ First' = First /\ ~Merging' /\ pc' = "pair"
      /\ head' \in Blocks /\ plist' \in Blocks /\ block1' \in Blocks /\ after' \in Blocks
      /\ blocks' \in Nat \ {0}
  BY <1>1, <1>3, MergedIs
<1>9. Typed'
  BY <1>3, <1>7, <1>8 DEF Typed
<1>10. Layout(r, q1, q2)'
  BY <1>2, <1>3, <1>4, <1>8, LayoutOver DEF Known
<1>11. BufferExact' /\ Fresh'
  BY <1>8 DEF BufferExact, Fresh
<1> QED
  BY <1>2, <1>3, <1>9, <1>10, <1>11, Together

\* The next block of the second sequence, which the one that was moved has made room
\* for, starts from its first element; an empty one is left between the two.
LEMMA NextSecondStep ==
    ASSUME SortAssumption, NEW r, NEW q1 \in Nat, NEW q2 \in Nat, Inv(r, q1, q2), next_second
    PROVE  (nr(b2) = 0 => Inv(r, q1, q2 + 1)') /\ (nr(b2) # 0 => Inv(r, q1, q2)')
<1>1. Merging /\ pc = "next2" /\ m > 1 /\ m' = m - 1
      /\ IF nr(b2) = 0 THEN b2' = next[b2] /\ UNCHANGED <<pc, i2>>
         ELSE pc' = "merge" /\ i2' = 0 /\ UNCHANGED b2
  BY DEF Merging, next_second
<1>2. Known(r, q1, q2)
  BY <1>1, KnownIs
<1>3. given' = given /\ given \in Lists /\ UNCHANGED <<given, links>> /\ Typed /\ Blocks' = Blocks
      /\ UNCHANGED <<list, b1, n, i1, buffer, newhead>> /\ next' = next /\ prev' = prev
      /\ UNCHANGED <<head, plist, blocks, block1, after>>
  BY DEF next_second, Inv, Blocks, links, pass
<1>4. Ring(r)'
  BY <1>2, <1>3, RingKept DEF Known
<1>5. /\ ListOK(list)' /\ n \in Nat /\ m \in Nat /\ i2 \in Nat /\ i1 \in Nat /\ b1 \in Blocks /\ b2 \in Blocks
      /\ next[b2] \in Blocks /\ nr(b1) \in Nat /\ nr(b2) \in Nat
  BY <1>3, Sizes DEF ListOK, Typed
<1>6. Cursors(r, q1, q2)
  BY <1>2 DEF Known
<1>7. /\ q1 \in Places /\ b1 = r[q1] /\ q1 + n <= q2 /\ n # 0 /\ q2 + m <= Number + 2 /\ (m # 1 => b2 = r[q2])
      /\ (block1 # head => q1 # 1)
  BY <1>1, <1>6 DEF Cursors
<1>8. Number \in Nat \ {0} /\ Places = 1 .. Number
  BY <1>2 DEF Known
<1>9. m # 1 /\ q2 \in Places /\ b2 = r[q2] /\ m' \in Nat /\ m' # 0
  <2>1. m # 1 /\ m' \in Nat /\ m' # 0
    BY <1>1, <1>5
  <2>2. q2 \in Places
    BY <1>1, <1>5, <1>7, <1>8
  <2> QED
    BY <1>7, <2>1, <2>2
<1>10. First' = r[1]
  BY <1>1, <1>2, <1>3 DEF Known, First, Merging
<1>11. i1 < nr(b1) /\ Len(buffer) = i1
  BY <1>1 DEF Inv, BufferExact
<1>12. CASE nr(b2) = 0
  <2>1. b2' = next[b2] /\ pc' = "next2" /\ i2' = i2
    BY <1>1, <1>12
  <2>2. Typed'
    BY <1>1, <1>3, <1>5, <1>9, <2>1 DEF Typed
  <2>3. BufferExact' /\ Fresh'
    BY <1>3, <1>11, <2>1 DEF BufferExact, Fresh, nr
  <2> DEFINE q == q2 + 1
  <2>4. q \in Nat /\ q1 + n <= q /\ q + m' <= Number + 2 /\ (m' # 1 => q2 # Number)
    BY <1>1, <1>5, <1>7, <1>8, <1>9
  <2>5. m' # 1 => b2' = r[q]
    BY <1>2, <1>9, <2>1, <2>4 DEF Known
  <2>6. \A k \in q1 + n .. q - 1 : k \in Places => Len(given[r[k]]) = 0
    <3>1. \A k \in q1 + n .. q2 - 1 : k \in Places => Len(given[r[k]]) = 0
      BY <1>6 DEF Cursors
    <3>2. \A k \in q1 + n .. q2 + 1 - 1 : k = q2 \/ k \in q1 + n .. q2 - 1
      BY <1>5
    <3>3. Len(given[r[q2]]) = 0
      BY <1>3, <1>5, <1>9, <1>12, Sizes
    <3> QED
      BY <3>1, <3>2, <3>3
  <2> HIDE DEF q
  <2>7. n' = n /\ b1' = r[q1] /\ (block1' # head' => q1 # 1) /\ (n' = 0 <=> pc' = "flush")
    BY <1>3, <1>7, <2>1
  <2>8. Layout(r, q1, q)'
    BY <1>2, <1>3, <1>4, <1>7, <1>9, <1>10, <2>1, <2>4, <2>5, <2>6, <2>7, LayoutNext
  <2>9. Inv(r, q1, q)'
    BY <1>2, <1>3, <2>2, <2>3, <2>4, <2>8, Together
  <2> QED
    BY <1>12, <2>9 DEF q
<1>13. CASE nr(b2) # 0
  <2>1. b2' = b2 /\ pc' = "merge" /\ i2' = 0
    BY <1>1, <1>13
  <2>2. Typed'
    BY <1>1, <1>3, <1>5, <1>9, <2>1 DEF Typed
  <2>3. BufferExact' /\ Fresh'
    <3>1. nr(b1)' = nr(b1) /\ nr(b2)' = nr(b2)
      BY <1>3, <2>1 DEF nr
    <3> QED
      BY <1>3, <1>5, <1>11, <1>13, <2>1, <3>1 DEF BufferExact, Fresh
  <2>4. q2 + m' <= Number + 1
    BY <1>1, <1>5, <1>7, <1>8
  <2>5. \A k \in q1 + n .. q2 - 1 : k \in Places => Len(given[r[k]]) = 0
    BY <1>6 DEF Cursors
  <2>6. n' = n /\ b1' = r[q1] /\ b2' = r[q2] /\ (block1' # head' => q1 # 1) /\ (n' = 0 <=> pc' = "flush")
    BY <1>3, <1>7, <1>9, <2>1
  <2>7. Layout(r, q1, q2)'
    BY <1>2, <1>3, <1>4, <1>7, <1>9, <1>10, <2>1, <2>4, <2>5, <2>6, LayoutNext
  <2>8. Inv(r, q1, q2)'
    BY <1>2, <1>3, <2>2, <2>3, <2>7, Together
  <2> QED
    BY <1>13, <2>8
<1> QED
  BY <1>12, <1>13

\* t lists the blocks when the one at q2 has been put before the one at q1.
PluggedIn(t, r, q1, q2) == \A k \in Places : t[k] = r[From(q1, q2, k)]

\* A block of the second sequence that is used up goes in front of the first: all
\* that is from there to where it was is one place further on.
LEMMA TakeSecondStep ==
    ASSUME SortAssumption, NEW r, NEW q1 \in Nat, NEW q2 \in Nat, Inv(r, q1, q2), take_second
    PROVE  /\ i2 + 1 < nr(b2) => Inv(r, q1, q2)'
           /\ i2 + 1 >= nr(b2) => \E t : Inv(t, q1 + 1, q2 + 1)' /\ PluggedIn(t, r, q1, q2)
<1> DEFINE e == list[b2][i2 + 1]
           s == Append(buffer, e)
<1>1. Merging /\ pc = "merge" /\ i2' = i2 + 1
  BY DEF Merging, take_second
<1>2. Known(r, q1, q2)
  BY <1>1, KnownIs
<1>3. given' = given /\ given \in Lists /\ Typed /\ Blocks' = Blocks
      /\ UNCHANGED <<b1, n, i1, m>>
      /\ UNCHANGED <<head, plist, blocks, block1, after>>
  BY DEF take_second, Inv, Blocks, pass
<1>4. /\ i1 \in Nat /\ i2 \in Nat /\ i1 < nr(b1) /\ i2 < nr(b2) /\ Len(buffer) = i1 + i2
      /\ buffer \in Seq(Elements) /\ list[b2] \in Seq(Elements) /\ nr(b2) = Len(list[b2])
      /\ nr(b1) \in Nat /\ nr(b2) \in Nat /\ b1 \in Blocks /\ b2 \in Blocks /\ ListOK(list)
  <2>1. i1 < nr(b1) /\ i2 < nr(b2) /\ Len(buffer) = i1 + i2
    BY <1>1 DEF Inv, BufferExact
  <2>2. i1 \in Nat /\ i2 \in Nat /\ buffer \in Seq(Elements) /\ b1 \in Blocks /\ b2 \in Blocks /\ ListOK(list)
    BY <1>3 DEF Typed
  <2> QED
    BY <1>3, <2>1, <2>2, Sizes
<1>5. s \in Seq(Elements) /\ Len(s) = i2 + 1 + i1
  <2>1. e \in Elements
    <3>1. i2 + 1 \in 1 .. Len(list[b2])
      BY <1>4
    <3> QED
      BY <1>4, <3>1
  <2> HIDE DEF e
  <2>2. s \in Seq(Elements) /\ Len(s) = Len(buffer) + 1
    BY <1>4, <2>1, Appended
  <2> HIDE DEF s
  <2> QED
    BY <1>4, <2>2
<1>6. CASE i2 + 1 < nr(b2)
  <2>1. buffer' = s /\ UNCHANGED <<list, links, pc, b2, newhead>>
    BY <1>6 DEF take_second
  <2> HIDE DEF s
  <2>2. UNCHANGED <<given, links>> /\ next' = next /\ prev' = prev
    BY <1>3, <2>1 DEF links
  <2>3. ListOK(list)'
    BY <1>3, <1>4, <2>1 DEF ListOK
  <2>4. Typed'
    BY <1>1, <1>3, <1>4, <1>5, <2>1, <2>2, <2>3 DEF Typed
  <2>5. BufferExact' /\ Fresh'
    BY <1>1, <1>3, <1>4, <1>5, <1>6, <2>1 DEF BufferExact, Fresh, nr
  <2>6. First' = r[1]
    BY <1>1, <1>2, <1>3, <2>1 DEF Known, First, Merging
  <2>7. Ring(r)'
    BY <1>2, <2>2, RingKept DEF Known
  <2>8. Layout(r, q1, q2)'
    BY <1>1, <1>2, <1>3, <2>1, <2>6, <2>7, LayoutSame
  <2>9. Inv(r, q1, q2)'
    BY <1>2, <1>3, <2>4, <2>5, <2>8, Together
  <2> QED
    BY <1>4, <1>6, <2>9
<1>7. CASE ~(i2 + 1 < nr(b2))
  <2>1. /\ Moved(b2)
        /\ newhead' = IF b1 = newhead THEN b2 ELSE newhead
        /\ list' = FLUSH_TO(b2, s) /\ buffer' = Flushed(b2, s)
        /\ b2' = next[b2] /\ pc' = "next2"
    BY <1>7 DEF take_second
  <2> HIDE DEF s
  <2>2. nr(b2) = i2 + 1 /\ nr(b2) <= Len(s) /\ Len(s) - nr(b2) = i1
    <3> DEFINE k == nr(b2)
               len == Len(s)
    <3>1. len \in Nat /\ k \in Nat /\ i2 < k /\ ~(i2 + 1 < k) /\ len = i2 + 1 + i1 /\ i1 \in Nat /\ i2 \in Nat
      BY <1>4, <1>5, <1>7
    <3> HIDE DEF k, len
    <3>2. k = i2 + 1 /\ k <= len /\ len - k = i1
      BY <3>1
    <3> QED
      BY <3>2 DEF k, len
  <2>3. ListOK(list') /\ buffer' \in Seq(Elements) /\ Len(buffer') = i1
    BY <1>4, <1>5, <2>1, <2>2, FlushIs
  <2>4. ListOK(list)'
    BY <1>3, <2>3 DEF ListOK
  <2>5. Cursors(r, q1, q2)
    BY <1>2 DEF Known
  <2>6. /\ q1 \in Places /\ b1 = r[q1] /\ (block1 # head => q1 # 1)
        /\ q1 + n <= q2 /\ m # 0 /\ n # 0 /\ q2 + m <= Number + 1 /\ b2 = r[q2]
    BY <1>1, <2>5 DEF Cursors
  <2>7. Number \in Nat \ {0} /\ Places = 1 .. Number /\ Ring(r) /\ n \in Nat /\ m \in Nat
        /\ next \in [Blocks -> Blocks] /\ prev \in [Blocks -> Blocks]
        /\ (\A i, j \in Places : r[i] = r[j] => i = j)
    BY <1>2, <1>3 DEF Known, Typed, Ring, Listing
  <2>8. q2 \in Places /\ q1 < q2
    BY <2>6, <2>7
  <2>9. /\ \E t : Ring(t)' /\ \A k \in Places : t[k] = r[From(q1, q2, k)]
        /\ next' \in [Blocks -> Blocks] /\ prev' \in [Blocks -> Blocks]
    <3>1. Moved(r[q2])
      BY <2>1, <2>6
    <3> QED
      BY <1>3, <2>6, <2>7, <2>8, <3>1, MovedRing
  <2> PICK t : Ring(t)' /\ \A k \in Places : t[k] = r[From(q1, q2, k)]
    BY <2>9
  <2>10. newhead' \in Blocks /\ b2' \in Blocks
    BY <1>3, <1>4, <2>1, <2>7 DEF Typed
  <2>11. Typed'
    <3>1. i2' \in Nat
      BY <1>1, <1>4
    <3> QED
      BY <1>1, <1>3, <1>4, <2>1, <2>3, <2>4, <2>9, <2>10, <3>1 DEF Typed
  <2>12. BufferExact' /\ Fresh'
    <3>1. nr(b1)' = nr(b1)
      BY <1>3, <1>4, <2>3 DEF ListOK, nr
    <3> QED
      BY <1>3, <1>4, <2>1, <2>3, <3>1 DEF BufferExact, Fresh
  <2>13. ASSUME NEW k \in Places
         PROVE  t[k] = IF k = q1 THEN r[q2] ELSE IF q1 < k /\ k <= q2 THEN r[k - 1] ELSE r[k]
    BY DEF From
  <2>14. 1 \in Places /\ q1 + 1 \in Places /\ q1 + 1 # 1 /\ q1 + 1 # q1 /\ q1 < q1 + 1 /\ q1 + 1 <= q2 /\ q1 + 1 - 1 = q1
         /\ q1 + 1 \in Nat /\ q2 + 1 \in Nat
    BY <2>6, <2>7, <2>8
  <2>15. First' = t[1]
    <3>1. t[1] = IF q1 = 1 THEN r[q2] ELSE r[1]
      <4>1. ~(q1 < 1)
        BY <2>6, <2>7
      <4> QED
        BY <2>13, <2>14, <4>1
    <3>2. First = (IF block1 = head THEN newhead ELSE head) /\ First = r[1]
          /\ First' = (IF block1 = head THEN newhead' ELSE head)
      BY <1>1, <1>2, <1>3, <2>1 DEF Known, First, Merging
    <3>3. CASE block1 = head
      <4>1. b1 = newhead <=> q1 = 1
        BY <2>6, <2>7, <2>14, <3>2, <3>3
      <4> QED
        BY <2>1, <2>6, <3>1, <3>2, <3>3, <4>1
    <3>4. CASE block1 # head
      BY <2>6, <3>1, <3>2, <3>4
    <3> QED
      BY <3>3, <3>4
  <2>16. b1' = t[q1 + 1]
    BY <1>3, <2>6, <2>13, <2>14
  <2>17. m' # 1 => b2' = t[q2 + 1]
    <3> SUFFICES ASSUME m # 1 PROVE b2' = t[q2 + 1]
      BY <1>3
    <3>1. q2 # Number /\ q2 + 1 \in Places /\ ~(q2 + 1 <= q2) /\ q2 + 1 # q1
      BY <2>6, <2>7, <2>8
    <3>2. next[r[q2]] = r[q2 + 1]
      BY <1>2, <2>8, <3>1 DEF Known
    <3>3. t[q2 + 1] = r[q2 + 1]
      BY <2>13, <3>1
    <3> QED
      BY <2>1, <2>6, <3>2, <3>3
  <2>18. ASSUME NEW k \in q1 + 1 + n .. q2 + 1 - 1, k \in Places
         PROVE  Len(given[t[k]]) = 0
    <3>1. k - 1 \in q1 + n .. q2 - 1 /\ k - 1 \in Places /\ k # q1 /\ q1 < k /\ k <= q2
      BY <2>6, <2>7, <2>18
    <3>2. t[k] = r[k - 1]
      BY <2>13, <2>18, <3>1
    <3> QED
      BY <2>5, <3>1, <3>2 DEF Cursors
  <2>19. q1 + 1 + n <= q2 + 1 /\ q2 + 1 + m <= Number + 2
    BY <2>6, <2>7
  <2>20. Layout(t, q1 + 1, q2 + 1)'
    <3> DEFINE p1 == q1 + 1
               p2 == q2 + 1
    <3>1. /\ p1 \in Nat /\ p2 \in Nat /\ p1 \in Places /\ b1' = t[p1] /\ (block1' # head' => p1 # 1)
          /\ p1 + n' <= p2 /\ m' # 0 /\ (n' = 0 <=> pc' = "flush")
          /\ p2 + m' <= Number + 2 /\ (m' # 1 => b2' = t[p2])
      BY <1>3, <2>1, <2>6, <2>14, <2>16, <2>17, <2>19
    <3>2. \A k \in p1 + n' .. p2 - 1 : k \in Places => Len(given[t[k]]) = 0
      BY <1>3, <2>18
    <3> HIDE DEF p1, p2
    <3>3. Layout(t, p1, p2)'
      BY <1>3, <2>1, <2>9, <2>15, <3>1, <3>2, LayoutNext
    <3> QED
      BY <3>3 DEF p1, p2
  <2>21. Inv(t, q1 + 1, q2 + 1)'
    BY <1>3, <2>11, <2>12, <2>14, <2>20, Together
  <2>22. PluggedIn(t, r, q1, q2)
    BY <2>9 DEF PluggedIn
  <2> QED
    BY <1>4, <1>7, <2>21, <2>22
<1> QED
  BY <1>6, <1>7

-----------------------------------------------------------------------------
\* A step that changes nothing.
LEMMA SameStep ==
    ASSUME SortAssumption, NEW r, NEW q1 \in Nat, NEW q2 \in Nat, Inv(r, q1, q2), UNCHANGED vars
    PROVE  Inv(r, q1, q2)'
<1>1. UNCHANGED <<given, list, next, prev, pc, head, plist, blocks, block1, after, b1, n, i1, b2, m, i2,
                  buffer, newhead>>
  BY DEF vars, links, pass
<1>2. Blocks' = Blocks /\ Number' = Number /\ Places' = Places /\ First' = First /\ Merging' = Merging
  BY <1>1 DEF Blocks, Number, Places, First, Merging
<1>3. Typed'
  BY <1>1, <1>2 DEF Inv, Typed, ListOK
<1>4. BufferExact' /\ Fresh'
  BY <1>1 DEF Inv, BufferExact, Fresh, nr
<1>5. Ring(r)'
  BY <1>1, RingKept DEF Inv, Layout, links
<1>6. Cursors(r, q1, q2)' <=> Cursors(r, q1, q2)
  BY <1>1, <1>2 DEF Cursors
<1>7. Layout(r, q1, q2)'
  BY <1>2, <1>5, <1>6 DEF Inv, Layout
<1> QED
  BY <1>1, <1>3, <1>4, <1>7, Together DEF Inv

\* An element of the list and where it is: its block, counted along the list, and its
\* position there.
Slots == Places \X Int \X Elements
Before(x, y) == x[1] < y[1] \/ (x[1] = y[1] /\ x[2] < y[2])

\* What the list holds: the buffer is at block q1, from position off on, and the first
\* elements of block q2 are gone.
Buffered(x, buf, off, q1) == x[1] = q1 /\ x[2] - off \in 1 .. Len(buf)
Content(l, r, buf, off, gone, q1, q2) ==
    {x \in Slots :
        \/ Buffered(x, buf, off, q1) /\ x[3] = buf[x[2] - off]
        \/ /\ ~Buffered(x, buf, off, q1)
           /\ x[2] \in 1 .. Len(l[r[x[1]]]) /\ (x[1] = q2 => gone < x[2])
           /\ x[3] = l[r[x[1]]][x[2]]}
Listed(l, r) == Content(l, r, <<>>, 0, 0, 0, 0)

\* The same elements as in the list that was given, and in order, but that an element of
\* an earlier sequence and one of a later may have to change places.  S are the blocks
\* where sequences start; U is what is left of the two that are merged, of the first,
\* and V of the second.
Whole(C) == {x[3] : x \in C} = UNION {ToSet(given[b]) : b \in Blocks}
Sorted(C, S, U, V) ==
    \A x, y \in C : Before(x, y) =>
        \/ Precedes(x[3], y[3])
        \/ /\ Earlier(x[3], y[3])
           /\ (\E s \in S : x[1] < s /\ s <= y[1]) \/ (x \in U /\ y \in V)
Arranged(C, S, U, V) == C \subseteq Slots /\ Whole(C) /\ Sorted(C, S, U, V)

\* The sequences up to block p have been merged already, and are twice as long.
Spaced(S, p, w) ==
    /\ S \subseteq 2 .. Number
    /\ S = {} \/ /\ p = Number + 1 \/ p \in S \cup {1}
                 /\ \A s, t \in S \cup {1} : s < t => s + w <= t /\ (t <= p => s + 2 * w <= t)
                 /\ \A s \in S \cup {1} : /\ p <= s /\ s + w <= Number => s + w \in S
                                          /\ s < p /\ s + 2 * w <= Number => s + 2 * w \in S

\* In a merge the buffer goes before what is left of the block b1 is at, in "next1" it
\* goes after that block.
Off == IF pc = "next1" THEN nr(b1) ELSE IF pc = "merge" THEN 0 - i2 ELSE 0
Gone == IF pc \in {"merge", "next1", "flush"} THEN i2 ELSE 0
End(q2) == IF pc = "next2" THEN q2 + m - 1 ELSE q2 + m
Rest(C, q1, cut, q2) == {x \in C : x[1] < q2 /\ (q1 < x[1] \/ (x[1] = q1 /\ cut < x[2]))}
Second(C, q2, e) == {y \in C : q2 <= y[1] /\ y[1] < e}

\* Where the sequences start that are not merged yet, and the next pair.
Marks(r, q1, e, S) ==
    /\ Spaced(S, e, blocks)
    /\ \A s \in S : s <= q1 \/ e <= s
    /\ after = IF e <= Number THEN r[e] ELSE head
    /\ e > Number /\ block1 = head => S = {}

Order(r, q1, q2, S) ==
    /\ pc = "fragments" =>
          /\ block1 = head /\ blocks = 1
          /\ \A k \in Places : r[k] = k
          /\ \A b \in Blocks : list[b] = IF b < b1 THEN array_sort(given[b]) ELSE given[b]
    /\ pc = "pair" =>
          /\ \E p \in Places : r[p] = block1 /\ Spaced(S, p, blocks)
          /\ Arranged(Listed(list, r), S, {}, {})
    /\ pc = "done" => plist = head /\ Arranged(Listed(list, r), {}, {}, {})
    /\ Merging =>
          /\ Marks(r, q1, End(q2), S)
          /\ LET C == Content(list, r, buffer, Off, Gone, q1, q2)
             IN  Arranged(C, S, Rest(C, q1, Off + Len(buffer), q2), Second(C, q2, End(q2)))

-----------------------------------------------------------------------------
\* What is in order is so after the step.
LEMMA ArrangedNext ==
    ASSUME given' = given, NEW C, NEW S, NEW U, NEW V, Arranged(C, S, U, V)
    PROVE  Arranged(C, S, U, V)'
<1>1. \A e, f : Earlier(e, f)' <=> Earlier(e, f)
  BY DEF Earlier, Blocks
<1>2. \A e, f : Precedes(e, f)' <=> Precedes(e, f)
  BY <1>1 DEF Precedes
<1>3. Whole(C)' <=> Whole(C)
  BY DEF Whole, Blocks
<1>4. Slots' = Slots
  BY DEF Slots, Places, Number
<1>5. Sorted(C, S, U, V)' <=> Sorted(C, S, U, V)
  BY <1>1, <1>2 DEF Sorted
<1> QED
  BY <1>3, <1>4, <1>5 DEF Arranged

\* What D holds is what C held at g, and two that were in order are so.
Moves(g, C, D, S, U, V, P, Q) ==
    /\ D \subseteq Slots
    /\ \A x \in D : g[x] \in C /\ g[x][3] = x[3]
    /\ \A x \in C : \E y \in D : x[3] = y[3]
    /\ \A x, y \in D : Before(x, y) =>
          \/ Precedes(x[3], y[3])
          \/ /\ Before(g[x], g[y])
             /\ \A s \in S : g[x][1] < s /\ s <= g[y][1] => x[1] < s /\ s <= y[1]
             /\ g[x] \in U /\ g[y] \in V => x \in P /\ y \in Q

\* What is moved within the list stays in order if only those change places that come
\* to be in order by it.
LEMMA Rearranged ==
    ASSUME NEW C, NEW D, NEW S, NEW U, NEW V, NEW P, NEW Q, NEW g,
           Arranged(C, S, U, V), Moves(g, C, D, S, U, V, P, Q)
    PROVE  Arranged(D, S, P, Q)
<1>1. Whole(D)
  <2>1. {x[3] : x \in C} = {x[3] : x \in D}
    BY DEF Moves
  <2> QED
    BY <2>1 DEF Arranged, Whole
<1>2. Sorted(D, S, P, Q)
  <2> SUFFICES ASSUME NEW x \in D, NEW y \in D, Before(x, y), ~Precedes(x[3], y[3])
               PROVE  /\ Earlier(x[3], y[3])
                      /\ (\E s \in S : x[1] < s /\ s <= y[1]) \/ (x \in P /\ y \in Q)
    BY DEF Sorted
  <2>1. /\ Before(g[x], g[y]) /\ g[x] \in C /\ g[y] \in C /\ g[x][3] = x[3] /\ g[y][3] = y[3]
        /\ \A s \in S : g[x][1] < s /\ s <= g[y][1] => x[1] < s /\ s <= y[1]
        /\ g[x] \in U /\ g[y] \in V => x \in P /\ y \in Q
    BY DEF Moves
  <2>2. /\ Earlier(x[3], y[3])
        /\ (\E s \in S : g[x][1] < s /\ s <= g[y][1]) \/ (g[x] \in U /\ g[y] \in V)
    BY <2>1 DEF Arranged, Sorted
  <2> QED
    BY <2>1, <2>2
<1> QED
  BY <1>1, <1>2 DEF Arranged, Moves

\* x has no higher rank than y.
AtMost(x, y) == Rank[x[3]] \in Nat /\ Rank[y[3]] \in Nat /\ Rank[x[3]] <= Rank[y[3]]

\* No sequence starts after x and up to y.
OneRun(S, x, y) == \A s \in S : ~(x[1] < s /\ s <= y[1])

\* Of two in one run of elements that are in order the first has no higher rank.
LEMMA NotHigher ==
    ASSUME SortAssumption, NEW C, NEW S, NEW U, NEW V, Arranged(C, S, U, V), NEW x \in C, NEW y \in C,
           x = y \/ Before(x, y), OneRun(S, x, y), x \notin U \/ y \notin V
    PROVE  AtMost(x, y)
<1>1. x[3] \in Elements /\ y[3] \in Elements
  BY DEF Arranged, Slots
<1>2. Rank[x[3]] \in Nat /\ Rank[y[3]] \in Nat
  BY <1>1 DEF SortAssumption
<1>3. x = y \/ Precedes(x[3], y[3])
  BY DEF Arranged, Sorted, OneRun
<1> QED
  BY <1>2, <1>3 DEF Precedes, AtMost

-----------------------------------------------------------------------------
\* When no pair is left the sequences are twice as long.
LEMMA Doubled ==
    ASSUME Number \in Nat, NEW S, NEW p \in Nat, NEW w \in Nat \ {0}, Spaced(S, p, w), 1 <= p, p + w > Number
    PROVE  Spaced(S, 1, 2 * w) /\ (p = 1 => S = {})
<1> DEFINE N == Number
<1>1. N \in Nat /\ S \subseteq 2 .. N /\ p + w > N
  BY DEF Spaced
<1>2. SUFFICES ASSUME S # {} PROVE Spaced(S, 1, 2 * w) /\ p # 1
  BY <1>1 DEF Spaced
<1>3. /\ \A s, t \in S \cup {1} : s < t => s + w <= t /\ (t <= p => s + 2 * w <= t)
      /\ \A s \in S \cup {1} : s < p /\ s + 2 * w <= N => s + 2 * w \in S
      /\ p = N + 1 \/ p \in S \cup {1}
  BY <1>2 DEF Spaced
<1> HIDE DEF N
<1>4. \A t \in S \cup {1} : t \in Nat /\ 1 <= t /\ (t = 1 \/ t <= N)
  BY <1>1
<1>5. \A t \in S : t <= p
  <2> SUFFICES ASSUME NEW t \in S, p < t PROVE FALSE
    BY <1>4
  <2>1. p \in S \cup {1}
    BY <1>1, <1>3, <1>4
  <2>2. p + w <= t /\ t <= N
    BY <1>1, <1>3, <1>4, <2>1
  <2> QED
    BY <1>1, <1>4, <2>2
<1>6. p # 1
  <2>1. PICK t \in S : TRUE
    BY <1>2
  <2>2. t \in 2 .. N /\ t <= p
    BY <1>1, <1>5
  <2> QED
    BY <1>1, <2>2
<1>7. ASSUME NEW s \in S \cup {1}, NEW t \in S \cup {1}, s < t PROVE s + 2 * w <= t
  <2>1. t \in S
    BY <1>4, <1>7
  <2> QED
    BY <1>3, <1>5, <1>7, <2>1
<1>8. ASSUME NEW s \in S \cup {1}, s + 2 * w <= N PROVE s + 2 * w \in S
  <2>1. s # p
    BY <1>1, <1>4, <1>8
  <2>2. s < p
    BY <1>4, <1>5, <1>6, <2>1
  <2> QED
    BY <1>3, <1>8, <2>2
<1>9. \A s, t \in S \cup {1} : s < t => s + 2 * w <= t /\ (t <= 1 => s + 2 * (2 * w) <= t)
  BY <1>4, <1>7
<1>10. \A s \in S \cup {1} :
           /\ 1 <= s /\ s + 2 * w <= N => s + 2 * w \in S
           /\ s < 1 /\ s + 2 * (2 * w) <= N => s + 2 * (2 * w) \in S
  BY <1>4, <1>8
<1> QED
  BY <1>1, <1>6, <1>9, <1>10 DEF Spaced, N

\* Two sequences become one: what was the start of the second is none any more.
LEMMA Joined ==
    ASSUME NEW S, NEW p, NEW w, NEW q, NEW e, Joint(p, w, q, e), Spaced(S, p, w)
    PROVE  /\ Spaced(S \ {q}, e, w)
           /\ \A s \in S \ {q} : s <= p \/ e <= s
           /\ S # {} /\ p # 1 => p \in S
           /\ S # {} /\ e <= Number => e \in S
<1> DEFINE N == Number
           T == S \ {q}
<1>1. /\ N \in Nat /\ p \in 1 .. N /\ q = p + w /\ q <= N /\ e \in Nat /\ q < e /\ e <= N + 1
      /\ (e <= N => e = q + w) /\ S \subseteq 2 .. N /\ e <= q + w /\ w \in Nat \ {0} /\ q \in Nat
  BY DEF Spaced, Places, Joint
<1>2. CASE S = {}
  BY <1>1, <1>2 DEF Spaced
<1>3. CASE S # {}
  <2>1. /\ \A s, t \in S \cup {1} : s < t => s + w <= t /\ (t <= p => s + 2 * w <= t)
        /\ \A s \in S \cup {1} : p <= s /\ s + w <= N => s + w \in S
        /\ \A s \in S \cup {1} : s < p /\ s + 2 * w <= N => s + 2 * w \in S
        /\ p \in S \cup {1}
    <3>1. /\ \A s, t \in S \cup {1} : s < t => s + w <= t /\ (t <= p => s + 2 * w <= t)
          /\ \A s \in S \cup {1} : /\ p <= s /\ s + w <= N => s + w \in S
                                   /\ s < p /\ s + 2 * w <= N => s + 2 * w \in S
          /\ p = N + 1 \/ p \in S \cup {1}
      BY <1>3 DEF Spaced
    <3>2. p # N + 1
      BY <1>1
    <3> QED
      BY <3>1, <3>2
  <2> HIDE DEF N
  <2>2. \A t \in S \cup {1} : t \in Nat /\ 1 <= t
    BY <1>1
  <2>3. q \in S /\ (e <= N => e \in S)
    <3>1. q \in S
      BY <1>1, <2>1
    <3>2. p <= q
      BY <1>1
    <3> QED
      BY <1>1, <2>1, <3>1, <3>2
  <2>4. \A t \in T \cup {1} : t <= p \/ e <= t
    <3> SUFFICES ASSUME NEW t \in T \cup {1}, p < t, t < e PROVE FALSE
      BY <1>1, <2>2
    <3>1. t \in S \cup {1} /\ t # q /\ t \in Nat
      BY <1>1, <2>2
    <3>2. q <= t
      BY <1>1, <2>1, <3>1
    <3>3. q + w <= t
      BY <2>1, <2>3, <3>1, <3>2, <2>2
    <3> QED
      BY <1>1, <3>1, <3>3
  <2>5. ASSUME NEW s \in T \cup {1}, NEW t \in T \cup {1}, s < t
        PROVE  s + w <= t /\ (t <= e => s + 2 * w <= t)
    <3>1. s + w <= t /\ s \in S \cup {1} /\ t \in S \cup {1} /\ s \in Nat /\ t \in Nat /\ (t <= p => s + 2 * w <= t)
      BY <2>1, <2>2, <2>5
    <3>2. ASSUME t = e PROVE s + 2 * w <= t
      <4>1. s <= p
        BY <1>1, <2>4, <2>5, <3>1, <3>2
      <4>2. e <= N
        BY <1>1, <2>5, <3>1, <3>2, <2>2
      <4>3. s = p \/ s + w <= p
        BY <1>1, <2>1, <3>1, <4>1
      <4> QED
        BY <1>1, <3>1, <3>2, <4>2, <4>3
    <3> QED
      BY <1>1, <2>4, <2>5, <3>1, <3>2
  <2>6. ASSUME NEW s \in T \cup {1}
        PROVE  /\ e <= s /\ s + w <= N => s + w \in T
               /\ s < e /\ s + 2 * w <= N => s + 2 * w \in T
    <3>1. s \in S \cup {1} /\ s \in Nat
      BY <2>2
    <3>2. ASSUME e <= s, s + w <= N PROVE s + w \in T
      BY <1>1, <2>1, <3>1, <3>2
    <3>3. ASSUME s < p, s + 2 * w <= N PROVE s + 2 * w \in T
      <4>1. s + 2 * w \in S /\ s + 2 * w <= p
        BY <2>1, <3>1, <3>3
      <4> QED
        BY <1>1, <3>1, <4>1
    <3>4. ASSUME s = p, s + 2 * w <= N PROVE s + 2 * w \in T
      <4>1. q + w \in S /\ q + w = s + 2 * w
        BY <1>1, <2>1, <2>3, <3>4
      <4> QED
        BY <1>1, <4>1
    <3> QED
      BY <1>1, <2>4, <3>1, <3>2, <3>3, <3>4
  <2>7. e = N + 1 \/ e \in T \cup {1}
    BY <1>1, <2>3
  <2>8. T \subseteq 2 .. N
    BY <1>1
  <2>9. Spaced(T, e, w)
    <3> HIDE DEF T
    <3> QED
      BY <2>5, <2>6, <2>7, <2>8 DEF Spaced, N
  <2> QED
    BY <1>1, <2>1, <2>3, <2>4, <2>9 DEF N
<1> QED
  BY <1>2, <1>3

\* Where sequences start does not change while two are merged.
LEMMA MarksKept ==
    ASSUME Number \in Nat, given' = given, NEW r, NEW t, NEW q1 \in Nat, NEW q \in Nat, q1 <= q, NEW e \in Nat, NEW S,
           Marks(r, q1, e, S), UNCHANGED <<head, blocks, block1, after>>, e <= Number => t[e] = r[e]
    PROVE  Marks(t, q, e, S)'
<1>1. Spaced(S, e, blocks)'
  BY DEF Marks, Spaced, Number
<1>2. \A s \in S : s <= q \/ e <= s
  <2>1. S \subseteq 2 .. Number
    BY DEF Marks, Spaced
  <2> QED
    BY <2>1 DEF Marks
<1>3. Number' = Number
  BY DEF Number
<1> QED
  BY <1>1, <1>2, <1>3 DEF Marks

\* The next pair starts where a sequence does, or there is one sequence only, though
\* the pass goes on in the middle of it.
LEMMA MarksReturn ==
    ASSUME Number \in Nat \ {0}, given' = given, Typed, Merging, Merged, NEW r, Ring(r), First = r[1],
           NEW q1 \in Places, NEW e \in Nat, q1 < e, e <= Number + 1, NEW S, Marks(r, q1, e, S)
    PROVE  \E p \in Places : r[p] = block1' /\ Spaced(S, p, blocks)'
<1> DEFINE h == IF block1 = head THEN newhead ELSE head
<1>1. /\ h = r[1] /\ 1 \in Places /\ Places = 1 .. Number
      /\ IF after = h THEN block1' = h /\ blocks' = 2 * blocks ELSE block1' = after /\ blocks' = blocks
  BY DEF Merged, First, Places
<1>2. /\ Spaced(S, e, blocks) /\ after = (IF e <= Number THEN r[e] ELSE head)
      /\ (e > Number /\ block1 = head => S = {})
      /\ blocks \in Nat \ {0} /\ after \in Blocks
  BY DEF Marks, Typed
<1>3. /\ \A b \in Blocks : \E p \in Places : r[p] = b
      /\ \A i, j \in Places : r[i] = r[j] => i = j
  BY DEF Ring, Listing
<1>4. \A p, w : Spaced(S, p, w)' <=> Spaced(S, p, w)
  BY DEF Spaced, Number
<1> HIDE DEF h
<1>5. CASE after = h
  <2>1. e = Number + 1
    <3> SUFFICES ASSUME e <= Number PROVE FALSE
      OBVIOUS
    <3>1. e \in Places /\ r[e] = r[1] /\ e # 1
      BY <1>1, <1>2, <1>5
    <3> QED
      BY <1>1, <1>3, <3>1
  <2>2. Spaced(S, 1, 2 * blocks)
    <3>1. e + blocks > Number /\ 1 <= e
      BY <1>2, <2>1
    <3> QED
      BY <1>2, <3>1, Doubled
  <2>3. block1' = r[1] /\ blocks' = 2 * blocks
    BY <1>1, <1>5
  <2>4. Spaced(S, 1, blocks)'
    BY <2>2, <2>3 DEF Spaced, Number
  <2> QED
    BY <1>1, <2>3, <2>4
<1>6. CASE after # h /\ e <= Number
  <2>1. e \in Places /\ block1' = r[e] /\ blocks' = blocks
    BY <1>1, <1>2, <1>6
  <2>2. Spaced(S, e, blocks)'
    BY <1>2, <2>1 DEF Spaced, Number
  <2> QED
    BY <2>1, <2>2
<1>7. CASE after # h /\ ~(e <= Number)
  <2>1. S = {} /\ block1' = after
    BY <1>1, <1>2, <1>7 DEF h
  <2>2. PICK p \in Places : r[p] = after
    BY <1>2, <1>3
  <2>3. Spaced(S, p, blocks)'
    BY <2>1 DEF Spaced
  <2> QED
    BY <2>1, <2>2, <2>3
<1> QED
  BY <1>5, <1>6, <1>7

-----------------------------------------------------------------------------
\* What need not change places any more.
LEMMA Released ==
    ASSUME NEW C, NEW S, NEW U, NEW V, Arranged(C, S, U, V), NEW P, NEW Q,
           \A x, y \in C : x \in U /\ y \in V => (x \in P /\ y \in Q) \/ Precedes(x[3], y[3])
    PROVE  Arranged(C, S, P, Q)
BY DEF Arranged, Sorted

\* Where the second sequence ends.
LEMMA EndIs ==
    ASSUME NEW r, NEW q1 \in Nat, NEW q2 \in Nat, Known(r, q1, q2), Typed, Merging
    PROVE  /\ End(q2) \in Nat /\ q1 < End(q2) /\ End(q2) <= Number + 1 /\ q2 <= End(q2) /\ Number \in Nat \ {0}
           /\ q1 \in Places /\ q1 <= q2 /\ (pc # "flush" => q1 < q2) /\ (pc # "next2" => End(q2) = q2 + m /\ q2 < End(q2))
           /\ (pc # "next2" => q2 \in Places)
<1>1. /\ q1 \in Places /\ q1 + n <= q2 /\ m # 0 /\ (n = 0 <=> pc = "flush")
      /\ (pc = "next2" => q2 + m <= Number + 2) /\ (pc # "next2" => q2 + m <= Number + 1)
      /\ n \in Nat /\ m \in Nat /\ Number \in Nat \ {0} /\ Places = 1 .. Number
  BY DEF Known, Cursors, Typed
<1> QED
  BY <1>1 DEF End

\* The parts of the order are kept, in a merge that goes on,
LEMMA OrderNext ==
    ASSUME SortAssumption, given' = given, given \in Lists, Merging',
           NEW r, NEW t, NEW q1 \in Nat, NEW p1 \in Nat, NEW p2, NEW S, NEW e \in Nat,
           Marks(r, q1, e, S), q1 <= p1, UNCHANGED <<head, blocks, block1, after>>,
           e = End(p2)', e <= Number => t[e] = r[e],
           NEW off, off = Off', NEW gone, gone = Gone', NEW D, D = Content(list', t, buffer', off, gone, p1, p2),
           NEW cut, cut = off + Len(buffer'),
           Arranged(D, S, Rest(D, p1, cut, p2), Second(D, p2, e))
    PROVE  Order(t, p1, p2, S)'
<1>1. Marks(t, p1, e, S)'
  <2>1. Number \in Nat
    BY Shape
  <2> QED
    BY <2>1, MarksKept
<1>2. Arranged(D, S, Rest(D, p1, cut, p2), Second(D, p2, e))'
  BY ArrangedNext
<1>3. Content(list, t, buffer, Off, Gone, p1, p2)' = D
  BY DEF Content, Buffered, Slots, Places, Number
<1>4. Marks(t, p1, End(p2), S)'
  BY <1>1
<1>5. (LET C == Content(list, t, buffer, Off, Gone, p1, p2)
       IN  Arranged(C, S, Rest(C, p1, Off + Len(buffer), p2), Second(C, p2, End(p2))))'
  BY <1>2, <1>3
<1>6. pc' \notin {"fragments", "pair", "done"}
  BY DEF Merging
<1> QED
  BY <1>4, <1>5, <1>6 DEF Order

\* and when it returns.
LEMMA OrderReturn ==
    ASSUME SortAssumption, given' = given, given \in Lists, Typed, Merging, Merged,
           NEW r, Ring(r), First = r[1], NEW p1, NEW p2,
           NEW q1 \in Places, NEW e \in Nat, q1 < e, e <= Number + 1, NEW S, Marks(r, q1, e, S),
           NEW D, D = Listed(list', r), Arranged(D, S, {}, {})
    PROVE  Order(r, p1, p2, S)'
<1>1. \E p \in Places : r[p] = block1' /\ Spaced(S, p, blocks)'
  BY Shape, MarksReturn
<1>2. (\E p \in Places : r[p] = block1 /\ Spaced(S, p, blocks))'
  BY <1>1 DEF Places, Number
<1>3. Arranged(D, S, {}, {})'
  BY ArrangedNext
<1>4. Listed(list, r)' = D
  BY DEF Listed, Content, Buffered, Slots, Places, Number
<1>5. pc' = "pair"
  BY DEF Merged
<1>6. ~Merging'
  BY <1>5 DEF Merging
<1> QED
  BY <1>2, <1>3, <1>4, <1>5, <1>6 DEF Order

\* With nothing in the buffer the list holds what its blocks hold.
LEMMA Unbuffered ==
    ASSUME NEW l, NEW r, NEW off, NEW q1, NEW q2
    PROVE  Content(l, r, <<>>, off, 0, q1, q2) = Listed(l, r)
<1>1. Content(l, r, <<>>, off, 0, q1, q2) =
        {x \in Slots : x[2] \in 1 .. Len(l[r[x[1]]]) /\ x[3] = l[r[x[1]]][x[2]]}
  BY DEF Content, Buffered
<1>2. Listed(l, r) =
        {x \in Slots : x[2] \in 1 .. Len(l[r[x[1]]]) /\ x[3] = l[r[x[1]]][x[2]]}
  BY DEF Content, Buffered, Listed
<1> QED
  BY <1>1, <1>2

\* The order in a merge, for the places at which it is known where the buffer is.
LEMMA OrderIs ==
    ASSUME SortAssumption, NEW r, NEW q1 \in Nat, NEW q2 \in Nat, NEW S,
           Inv(r, q1, q2), Order(r, q1, q2, S), Merging,
           NEW off, off = Off, NEW gone, gone = Gone
    PROVE  \E C, e : /\ C = Content(list, r, buffer, off, gone, q1, q2) /\ e = End(q2)
                     /\ Arranged(C, S, Rest(C, q1, off + Len(buffer), q2), Second(C, q2, e))
                     /\ e \in Nat /\ q1 < e /\ e <= Number + 1 /\ q2 <= e /\ Marks(r, q1, e, S)
<1>1. Typed /\ Known(r, q1, q2)
  BY KnownIs DEF Inv
<1>2. /\ End(q2) \in Nat /\ q1 < End(q2) /\ End(q2) <= Number + 1 /\ q2 <= End(q2)
  BY <1>1, EndIs
<1> QED
  BY <1>2 DEF Order

\* Skipping a block that is empty takes nothing out of the second sequence.
LEMMA SkipEmptyOrder ==
    ASSUME SortAssumption, NEW r, NEW q1 \in Nat, NEW q2 \in Nat, NEW S,
           Inv(r, q1, q2), Order(r, q1, q2, S), skip_empty
    PROVE  Order(r, q1, q2 + 1, S)'
<1>1. /\ Merging /\ pc = "skip2" /\ nr(b2) = 0 /\ m' = m - 1 /\ given' = given /\ given \in Lists
      /\ list' = list /\ buffer' = buffer /\ Typed /\ buffer = <<>> /\ i2' = i2 /\ i2 = 0
  BY DEF Merging, skip_empty, Inv, Fresh
<1>2. Known(r, q1, q2)
  BY <1>1, KnownIs
<1>3. PICK C, e : /\ C = Content(list, r, buffer, 0, 0, q1, q2) /\ e = End(q2)
                  /\ Arranged(C, S, Rest(C, q1, 0 + Len(buffer), q2), Second(C, q2, e))
                  /\ e \in Nat /\ q1 < e /\ e <= Number + 1 /\ q2 <= e /\ Marks(r, q1, e, S)
  BY <1>1, OrderIs DEF Off, Gone
<1>4. C = Listed(list, r) /\ Len(buffer) = 0 /\ 0 + Len(buffer) = 0
  BY <1>1, <1>3, Unbuffered
<1>5. /\ q2 \in Places /\ q1 \in Places /\ q1 < q2 /\ e = q2 + m /\ m \in Nat /\ b2 = r[q2]
      /\ Number \in Nat /\ Places = 1 .. Number
  BY <1>1, <1>2, <1>3, EndIs DEF Known, Cursors, Typed
<1>6. \A x \in C : x \in Slots /\ x[1] \in Nat /\ x[1] # q2
  <2> TAKE x \in C
  <2>1. x \in Slots /\ x[2] \in 1 .. Len(list[r[x[1]]])
    BY <1>4 DEF Listed, Content, Buffered
  <2>2. x[1] \in Nat
    BY <1>5, <2>1 DEF Slots
  <2>3. x[1] # q2
    BY <1>1, <1>5, <2>1 DEF nr
  <2> QED
    BY <2>1, <2>2, <2>3
<1>7. CASE m = 1
  <2>1. Merged
    BY <1>7 DEF skip_empty
  <2>2. Second(C, q2, e) = {}
    BY <1>5, <1>6, <1>7 DEF Second
  <2>3. Arranged(C, S, {}, {})
    BY <1>3, <2>2, Released
  <2>4. C = Listed(list', r) /\ Ring(r) /\ First = r[1]
    BY <1>1, <1>2, <1>4 DEF Known
  <2> QED
    BY <1>1, <1>3, <1>5, <2>1, <2>3, <2>4, OrderReturn
<1>8. CASE m # 1
  <2>1. UNCHANGED <<pc, head, blocks, block1, after>>
    BY <1>8 DEF skip_empty, pass
  <2>2. Merging' /\ Off' = 0 /\ Gone' = 0
    BY <1>1, <2>1 DEF Merging, Off, Gone
  <2> DEFINE p2 == q2 + 1
  <2>3. End(p2)' = e
    BY <1>1, <1>5, <2>1 DEF End
  <2>4. Arranged(C, S, Rest(C, q1, 0, p2), Second(C, p2, e))
    <3>1. \A x \in C : (x[1] < q2 => x[1] < p2) /\ (q2 <= x[1] => p2 <= x[1])
      BY <1>6
    <3>2. \A x \in C : /\ x \in Rest(C, q1, 0, q2) => x \in Rest(C, q1, 0, p2)
                       /\ x \in Second(C, q2, e) => x \in Second(C, p2, e)
      BY <3>1 DEF Rest, Second
    <3> QED
      BY <1>3, <1>4, <3>2, Released
  <2>5. C = Content(list', r, buffer', 0, 0, q1, p2)
    BY <1>1, <1>4, Unbuffered
  <2>6. 0 = 0 + Len(buffer') /\ q1 <= q1
    BY <1>1, <1>4
  <2> HIDE DEF p2
  <2>7. Order(r, q1, p2, S)'
    BY <1>1, <1>3, <2>1, <2>2, <2>3, <2>4, <2>5, <2>6, OrderNext
  <2> QED
    BY <2>7 DEF p2
<1> QED
  BY <1>7, <1>8

\* Where the loops that skip end nothing changes.
LEMMA SkipDoneOrder ==
    ASSUME SortAssumption, NEW r, NEW q1 \in Nat, NEW q2 \in Nat, NEW S,
           Inv(r, q1, q2), Order(r, q1, q2, S), skip_empty_done \/ skip_block_done
    PROVE  Order(r, q1, q2, S)'
<1>1. /\ Merging /\ Merging' /\ pc \in {"skip2", "skip1"} /\ pc' \in {"skip1", "merge"}
      /\ given' = given /\ given \in Lists /\ UNCHANGED <<head, blocks, block1, after, m, i2>>
      /\ list' = list /\ buffer' = buffer /\ Typed /\ buffer = <<>> /\ i2 = 0
  BY DEF Merging, skip_empty_done, skip_block_done, Inv, Fresh, pass
<1>2. Off = 0 /\ Gone = 0 /\ Off' = 0 /\ Gone' = 0
  BY <1>1 DEF Off, Gone
<1>3. PICK C, e : /\ C = Content(list, r, buffer, 0, 0, q1, q2) /\ e = End(q2)
                  /\ Arranged(C, S, Rest(C, q1, 0 + Len(buffer), q2), Second(C, q2, e))
                  /\ e \in Nat /\ q1 < e /\ e <= Number + 1 /\ q2 <= e /\ Marks(r, q1, e, S)
  BY <1>1, <1>2, OrderIs
<1>4. e = End(q2)' /\ C = Content(list', r, buffer', 0, 0, q1, q2) /\ 0 + Len(buffer) = 0 + Len(buffer') /\ q1 <= q1
  BY <1>1, <1>3 DEF End
<1> QED
  BY <1>1, <1>2, <1>3, <1>4, OrderNext

-----------------------------------------------------------------------------
\* In the beginning no block is sorted.
LEMMA InitOrder ==
    ASSUME SortAssumption, Init
    PROVE  Order([i \in Places |-> i], 0, 0, {})
<1>1. given \in Lists /\ pc = "fragments" /\ block1 = 1 /\ head = 1 /\ blocks = 1 /\ b1 = 1 /\ list = given
  BY DEF Init
<1>2. Number \in Nat /\ Blocks = Places
  BY <1>1, Shape
<1>3. ASSUME NEW b \in Blocks PROVE ~(b < b1)
  BY <1>1, <1>2 DEF Places
<1>4. ~Merging
  BY <1>1 DEF Merging
<1> QED
  BY <1>1, <1>2, <1>3, <1>4 DEF Order

\* When each block is sorted the list is, but for what is in different blocks.
LEMMA Fragmented ==
    ASSUME SortAssumption, given \in Lists, NEW l,
           \A b \in Blocks : /\ l[b] \in Seq(Elements) /\ Len(l[b]) = Len(given[b])
                             /\ SortedBy(l[b], given[b], Len(given[b])),
           NEW r, \A k \in Places : r[k] = k
    PROVE  Arranged(Listed(l, r), 2 .. Number, {}, {})
<1> DEFINE D == Listed(l, r)
<1>1. Number \in Nat /\ Blocks = Places /\ Places = 1 .. Number
  BY Shape DEF Places
<1>2. ASSUME NEW b \in Blocks
      PROVE  /\ given[b] \in Seq(Elements) /\ Len(given[b]) \in Nat /\ Len(l[b]) = Len(given[b])
             /\ l[b] \in Seq(Elements) /\ DOMAIN given[b] = 1 .. Len(given[b])
  BY DEF SortAssumption, Blocks
<1>10. ASSUME NEW b \in Blocks
      PROVE  \E g \in [1 .. Len(given[b]) -> 1 .. Len(given[b])] :
               /\ \A i \in 1 .. Len(given[b]) : l[b][i] = given[b][g[i]]
               /\ \A j \in 1 .. Len(given[b]) : \E i \in 1 .. Len(given[b]) : g[i] = j
               /\ \A i, j \in 1 .. Len(given[b]) : i < j =>
                     Rank[given[b][g[i]]] < Rank[given[b][g[j]]]
                     \/ (Rank[given[b][g[i]]] = Rank[given[b][g[j]]] /\ g[i] < g[j])
  <2>1. SortedBy(l[b], given[b], Len(given[b]))
    OBVIOUS
  <2> QED
    BY <2>1 DEF SortedBy
<1>3. D = {x \in Slots : x[2] \in 1 .. Len(l[x[1]]) /\ x[3] = l[x[1]][x[2]]}
  <2>1. \A x \in Slots : x[1] \in Places /\ r[x[1]] = x[1]
    BY DEF Slots
  <2> QED
    BY <2>1 DEF Listed, Content, Buffered
<1> HIDE DEF D
<1>4. {x[3] : x \in D} = UNION {ToSet(given[b]) : b \in Blocks}
  <2>1. ASSUME NEW x \in D PROVE \E b \in Blocks : x[3] \in ToSet(given[b])
    <3>1. x \in Slots /\ x[1] \in Blocks /\ x[2] \in 1 .. Len(l[x[1]]) /\ x[3] = l[x[1]][x[2]]
      BY <1>1, <1>3 DEF Slots
    <3> DEFINE b == x[1]
    <3>2. PICK g \in [1 .. Len(given[b]) -> 1 .. Len(given[b])] : \A i \in 1 .. Len(given[b]) : l[b][i] = given[b][g[i]]
      BY <1>10, <3>1
    <3>3. x[2] \in 1 .. Len(given[b]) /\ x[3] = given[b][g[x[2]]] /\ g[x[2]] \in DOMAIN given[b]
      BY <1>2, <3>1, <3>2
    <3> QED
      BY <3>1, <3>3 DEF ToSet
  <2>2. ASSUME NEW b \in Blocks, NEW v \in ToSet(given[b]) PROVE \E x \in D : x[3] = v
    <3>1. PICK j \in 1 .. Len(given[b]) : given[b][j] = v
      BY <1>2 DEF ToSet
    <3>2. PICK i \in 1 .. Len(given[b]) : l[b][i] = v
      <4>1. PICK g \in [1 .. Len(given[b]) -> 1 .. Len(given[b])] :
               /\ \A k \in 1 .. Len(given[b]) : l[b][k] = given[b][g[k]]
               /\ \A k \in 1 .. Len(given[b]) : \E i \in 1 .. Len(given[b]) : g[i] = k
        BY <1>10
      <4>2. PICK i \in 1 .. Len(given[b]) : g[i] = j
        BY <4>1
      <4> QED
        BY <3>1, <4>1, <4>2
    <3>3. v \in Elements
      BY <1>2, <3>1
    <3> DEFINE x == <<b, i, v>>
    <3>4. x[1] = b /\ x[2] = i /\ x[3] = v /\ x \in Slots
      BY <1>1, <3>3 DEF Slots
    <3> HIDE DEF x
    <3>5. x \in D
      BY <1>2, <1>3, <3>2, <3>4
    <3> QED
      BY <3>4, <3>5
  <2>3. \A v : v \in UNION {ToSet(given[b]) : b \in Blocks} <=> \E b \in Blocks : v \in ToSet(given[b])
    OBVIOUS
  <2>4. \A v : v \in {x[3] : x \in D} <=> \E x \in D : x[3] = v
    OBVIOUS
  <2>5. \A v : v \in {x[3] : x \in D} <=> v \in UNION {ToSet(given[b]) : b \in Blocks}
    <3>1. ASSUME NEW v, v \in {x[3] : x \in D} PROVE v \in UNION {ToSet(given[b]) : b \in Blocks}
      BY <2>1, <3>1
    <3>2. ASSUME NEW v, v \in UNION {ToSet(given[b]) : b \in Blocks} PROVE v \in {x[3] : x \in D}
      BY <2>2, <3>2
    <3> QED
      BY <3>1, <3>2
  <2> QED
    BY <2>5
<1>5. ASSUME NEW x \in D, NEW y \in D, Before(x, y)
      PROVE  \/ Precedes(x[3], y[3])
             \/ /\ Earlier(x[3], y[3])
                /\ \E s \in 2 .. Number : x[1] < s /\ s <= y[1]
  <2>1. /\ x[1] \in Blocks /\ x[2] \in 1 .. Len(l[x[1]]) /\ x[3] = l[x[1]][x[2]] /\ x[1] \in 1 .. Number
        /\ y[1] \in Blocks /\ y[2] \in 1 .. Len(l[y[1]]) /\ y[3] = l[y[1]][y[2]] /\ y[1] \in 1 .. Number
    BY <1>1, <1>3 DEF Slots
  <2>2. PICK b, c, i, j : b = x[1] /\ c = y[1] /\ i = x[2] /\ j = y[2]
    OBVIOUS
  <2>9. b \in Blocks /\ c \in Blocks
    BY <2>1, <2>2
  <2>3. PICK g \in [1 .. Len(given[b]) -> 1 .. Len(given[b])] :
          /\ \A k \in 1 .. Len(given[b]) : l[b][k] = given[b][g[k]]
          /\ \A k, k_1 \in 1 .. Len(given[b]) : k < k_1 =>
                Rank[given[b][g[k]]] < Rank[given[b][g[k_1]]]
                \/ (Rank[given[b][g[k]]] = Rank[given[b][g[k_1]]] /\ g[k] < g[k_1])
    BY <1>10, <2>9
  <2>4. PICK h \in [1 .. Len(given[c]) -> 1 .. Len(given[c])] :
          \A k \in 1 .. Len(given[c]) : l[c][k] = given[c][h[k]]
    BY <1>10, <2>9
  <2>5. /\ i \in 1 .. Len(given[b]) /\ j \in 1 .. Len(given[c]) /\ b \in Blocks /\ c \in Blocks
        /\ g[i] \in DOMAIN given[b] /\ h[j] \in DOMAIN given[c]
        /\ x[3] = given[b][g[i]] /\ y[3] = given[c][h[j]]
    <3>1. b \in Blocks /\ c \in Blocks /\ i \in 1 .. Len(given[b]) /\ j \in 1 .. Len(given[c])
      BY <1>2, <2>1, <2>2
    <3>2. x[3] = l[b][i] /\ y[3] = l[c][j]
      BY <2>1, <2>2
    <3> QED
      BY <1>2, <2>3, <2>4, <3>1, <3>2
  <2>6. CASE b < c
    <3>1. Earlier(x[3], y[3])
      BY <2>5, <2>6 DEF Earlier
    <3>2. c \in 2 .. Number /\ x[1] < c /\ c <= y[1]
      <4>1. b \in 1 .. Number /\ c \in 1 .. Number /\ Number \in Nat
        BY <1>1, <2>1, <2>2
      <4>2. c \in 2 .. Number /\ c <= c
        BY <2>6, <4>1
      <4> QED
        BY <2>2, <2>6, <4>2
    <3> QED
      BY <3>1, <3>2
  <2>7. CASE b = c
    <3>1. i < j
      BY <1>1, <1>5, <2>1, <2>2, <2>7 DEF Before
    <3>2. j \in 1 .. Len(given[b]) /\ y[3] = given[b][g[j]] /\ g[j] \in DOMAIN given[b]
      BY <1>2, <2>1, <2>2, <2>3, <2>5, <2>7
    <3>3. Rank[x[3]] < Rank[y[3]] \/ (Rank[x[3]] = Rank[y[3]] /\ g[i] < g[j])
      <4>1. Rank[given[b][g[i]]] < Rank[given[b][g[j]]]
            \/ (Rank[given[b][g[i]]] = Rank[given[b][g[j]]] /\ g[i] < g[j])
        BY <2>3, <2>5, <3>1, <3>2
      <4> QED
        BY <2>5, <3>2, <4>1
    <3>4. g[i] < g[j] => Earlier(x[3], y[3])
      BY <2>5, <3>2 DEF Earlier
    <3> QED
      BY <3>3, <3>4 DEF Precedes
  <2>8. b < c \/ b = c
    BY <1>5, <2>2 DEF Before
  <2> QED
    BY <2>6, <2>7, <2>8
<1>6. D \subseteq Slots
  BY <1>3
<1>7. Whole(D)
  BY <1>4 DEF Whole
<1>8. Sorted(D, 2 .. Number, {}, {})
  BY <1>5 DEF Sorted
<1>9. Arranged(D, 2 .. Number, {}, {})
  BY <1>6, <1>7, <1>8 DEF Arranged
<1> QED
  BY <1>9 DEF D

\* The blocks are sorted one after another, and then the first two are merged.
LEMMA FragmentOrder ==
    ASSUME SortAssumption, NEW r, NEW q1 \in Nat, NEW q2 \in Nat, NEW S,
           Inv(r, q1, q2), Order(r, q1, q2, S), sort_fragment
    PROVE  Order(r, q1, q2, 2 .. Number)'
<1>1. /\ pc = "fragments" /\ given' = given /\ given \in Lists /\ Typed /\ b1' = next[b1]
      /\ list' = [list EXCEPT ![b1] = array_sort(@)] /\ pc' = IF next[b1] = head THEN "pair" ELSE pc
      /\ UNCHANGED <<head, plist, blocks, block1, after>>
  BY DEF sort_fragment, Inv, pass
<1>2. Number \in Nat \ {0} /\ Blocks = Places /\ Places = 1 .. Number /\ Blocks' = Blocks /\ Places' = Places /\ Number' = Number
  BY <1>1, Shape DEF Places, Blocks, Number
<1>3. /\ block1 = head /\ blocks = 1 /\ (\A k \in Places : r[k] = k)
      /\ \A b \in Blocks : list[b] = IF b < b1 THEN array_sort(given[b]) ELSE given[b]
  BY <1>1 DEF Order
<1>4. head = 1 /\ b1 \in Blocks /\ next[b1] = IF b1 = Number THEN 1 ELSE b1 + 1
  <2>1. Ring(r) /\ head = r[1] /\ b1 \in Blocks
    BY <1>1 DEF Inv, Layout, First, Merging, Typed
  <2>2. 1 \in Places /\ b1 \in Places /\ (b1 # Number => b1 + 1 \in Places)
    BY <1>2, <2>1
  <2>3. next[r[b1]] = IF b1 = Number THEN r[1] ELSE r[b1 + 1]
    BY <2>1, <2>2 DEF Ring, Right
  <2> QED
    BY <1>3, <2>1, <2>2, <2>3
<1>5. \A b \in Blocks : list'[b] = IF b <= b1 THEN array_sort(given[b]) ELSE given[b]
  <2> TAKE b \in Blocks
  <2>1. b \in Nat /\ b1 \in Nat /\ (b <= b1 <=> b < b1 \/ b = b1)
    BY <1>2, <1>4
  <2>2. list'[b] = IF b = b1 THEN array_sort(list[b]) ELSE list[b]
    BY <1>1 DEF Typed, ListOK
  <2> QED
    BY <1>3, <2>1, <2>2
<1>6. CASE b1 = Number
  <2>1. pc' = "pair" /\ ~Merging'
    BY <1>1, <1>4, <1>6 DEF Merging
  <2>2. \A b \in Blocks : list'[b] = array_sort(given[b])
    BY <1>2, <1>5, <1>6
  <2>3. ASSUME NEW b \in Blocks
        PROVE  /\ list'[b] \in Seq(Elements) /\ Len(list'[b]) = Len(given[b])
               /\ SortedBy(list'[b], given[b], Len(given[b]))
    <3>1. given[b] \in Seq(Elements)
      BY <1>1 DEF SortAssumption, Blocks
    <3> QED
      BY <2>2, <3>1, ArraySortIs
  <2>4. PICK D : D = Listed(list', r)
    OBVIOUS
  <2>5. Arranged(D, 2 .. Number, {}, {})
    BY <1>1, <1>3, <2>3, <2>4, Fragmented
  <2>6. Arranged(D, 2 .. Number, {}, {})'
    BY <1>1, <1>2, <2>5, ArrangedNext
  <2>7. Listed(list, r)' = D
    BY <1>2, <2>4 DEF Listed, Content, Buffered, Slots
  <2>8. Spaced(2 .. Number, 1, 1)
    BY <1>2 DEF Spaced
  <2>9. Spaced(2 .. Number, 1, 1)' /\ 1 \in Places /\ r[1] = block1' /\ blocks' = 1
    BY <1>1, <1>2, <1>3, <1>4, <2>8 DEF Spaced
  <2> QED
    BY <1>2, <2>1, <2>6, <2>7, <2>9 DEF Order
<1>7. CASE b1 # Number
  <2>1. pc' = "fragments" /\ ~Merging' /\ b1' = b1 + 1 /\ b1 \in Nat
    BY <1>1, <1>2, <1>4, <1>7 DEF Merging
  <2>2. \A b \in Blocks : b <= b1 <=> b < b1'
    BY <1>2, <2>1
  <2> QED
    BY <1>1, <1>2, <1>3, <1>5, <2>1, <2>2 DEF Order
<1> QED
  BY <1>6, <1>7


-----------------------------------------------------------------------------
\* When no sequence is left over the list is sorted, and when one is the next pass
\* has it with the one before.
LEMMA PassOrder ==
    ASSUME SortAssumption, NEW r, NEW q1 \in Nat, NEW q2 \in Nat, NEW S,
           Inv(r, q1, q2), Order(r, q1, q2, S), sorted \/ next_pass
    PROVE  Order(r, q1, q2, S)'
<1>1. /\ pc = "pair" /\ Ahead(block1, blocks).at = head /\ given' = given /\ given \in Lists /\ Typed
      /\ list' = list /\ head' = head /\ ~Merging
  BY DEF sorted, next_pass, Inv, Merging
<1>2. Number \in Nat \ {0} /\ Blocks = Places /\ Places = 1 .. Number /\ blocks \in Nat \ {0}
  BY <1>1, Shape DEF Places, Typed
<1>3. Ring(r) /\ head = r[1] /\ (\A i, j \in Places : r[i] = r[j] => i = j)
  BY <1>1 DEF Inv, Layout, First, Ring, Listing
<1>4. PICK p \in Places : r[p] = block1 /\ Spaced(S, p, blocks)
  BY <1>1 DEF Order
<1>5. p + blocks > Number /\ p \in Nat /\ 1 <= p
  <2>1. Reaches(r, p, blocks, Ahead(block1, blocks))
    BY <1>1, <1>2, <1>3, <1>4, AheadIs
  <2>2. PICK k \in 1 .. blocks : p + k <= Number + 1 /\ (p + k # Number + 1 => r[p + k] = head)
    BY <1>1, <2>1 DEF Reaches
  <2>3. p + k \in Places => p + k = 1
    <3>1. 1 \in Places
      BY <1>2
    <3> QED
      BY <1>2, <1>3, <2>2, <3>1
  <2> QED
    BY <1>2, <2>2, <2>3
<1>6. Spaced(S, 1, 2 * blocks) /\ (p = 1 => S = {})
  BY <1>2, <1>4, <1>5, Doubled
<1>7. PICK D : D = Listed(list, r)
  OBVIOUS
<1>8. Listed(list, r)' = D
  BY <1>1, <1>7 DEF Listed, Content, Buffered, Slots, Places, Number
<1>9. Arranged(D, S, {}, {})
  BY <1>1, <1>7 DEF Order
<1>10. Arranged(D, S, {}, {})'
  BY <1>1, <1>9, ArrangedNext
<1>11. CASE sorted
  <2>1. block1 = head /\ plist' = head /\ pc' = "done"
    BY <1>11 DEF sorted
  <2>2. S = {}
    <3>1. 1 \in Places
      BY <1>2
    <3> QED
      BY <1>3, <1>4, <1>6, <2>1, <3>1
  <2>3. ~Merging'
    BY <2>1 DEF Merging
  <2> QED
    BY <1>1, <1>8, <1>10, <2>1, <2>2, <2>3 DEF Order
<1>12. CASE next_pass
  <2>1. blocks' = 2 * blocks /\ block1' = head /\ pc' = "pair"
    BY <1>12 DEF next_pass
  <2>2. Spaced(S, 1, blocks)'
    BY <1>1, <1>6, <2>1 DEF Spaced, Number
  <2>3. (\E k \in Places : r[k] = block1 /\ Spaced(S, k, blocks))'
    <3>1. 1 \in Places' /\ r[1] = block1'
      BY <1>1, <1>2, <1>3, <2>1 DEF Places, Number
    <3> QED
      BY <2>2, <3>1
  <2>4. ~Merging'
    BY <2>1 DEF Merging
  <2> QED
    BY <1>8, <1>10, <2>1, <2>3, <2>4 DEF Order
<1> QED
  BY <1>11, <1>12

\* The two sequences may be out of order with each other, and are one for the others.
Parted(C, T, p, w, q, e) ==
    /\ Spaced(T, e, w) /\ \A s \in T : s <= p \/ e <= s
    /\ p = 1 /\ e > Number => T = {}
    /\ Arranged(C, T, Rest(C, p, 0, q), Second(C, q, e))

\* Two sequences that become one are out of order with each other only.
LEMMA JoinedOrder ==
    ASSUME NEW l, NEW r, NEW C, C = Listed(l, r), NEW S, NEW p, NEW w, NEW q, NEW e,
           Joint(p, w, q, e), Spaced(S, p, w), Arranged(C, S, {}, {})
    PROVE  Parted(C, S \ {q}, p, w, q, e)
<1> DEFINE N == Number
           T == S \ {q}
<1>1. /\ N \in Nat /\ p \in 1 .. N /\ q = p + w /\ q <= N /\ q < e /\ e <= q + w /\ e <= N + 1
      /\ (e <= N => e = q + w) /\ S \subseteq 2 .. N /\ w \in Nat /\ q \in Nat /\ e \in Nat
  BY DEF Spaced, Places, Joint
<1>2. /\ Spaced(T, e, w) /\ (\A s \in T : s <= p \/ e <= s)
      /\ (S # {} /\ p # 1 => p \in S) /\ (S # {} /\ e <= N => e \in S)
  BY Joined
<1>3. \A x \in C : x[1] \in 1 .. N /\ 0 < x[2]
  <2>1. \A x \in C : 0 < x[2]
    BY DEF Listed, Content, Buffered
  <2> QED
    BY <2>1 DEF Arranged, Slots, Places
<1>4. \A x, y \in C : Before(x, y) =>
        Precedes(x[3], y[3]) \/ (Earlier(x[3], y[3]) /\ \E s \in S : x[1] < s /\ s <= y[1])
  BY DEF Arranged, Sorted
<1> HIDE DEF N
<1>5. p = 1 /\ e > N => T = {}
  <2> SUFFICES ASSUME e > N, p = 1, NEW s \in T PROVE FALSE
    OBVIOUS
  <2>1. s \in 2 .. N
    BY <1>1
  <2> QED
    BY <1>1, <1>2, <2>1
<1>6. ASSUME NEW x \in C, NEW y \in C, Before(x, y), ~Precedes(x[3], y[3])
      PROVE  /\ Earlier(x[3], y[3])
             /\ (\E s \in T : x[1] < s /\ s <= y[1]) \/ (x \in Rest(C, p, 0, q) /\ y \in Second(C, q, e))
  <2>1. PICK s \in S : Earlier(x[3], y[3]) /\ x[1] < s /\ s <= y[1]
    BY <1>4, <1>6
  <2> SUFFICES ASSUME ~\E t \in T : x[1] < t /\ t <= y[1]
               PROVE  x \in Rest(C, p, 0, q) /\ y \in Second(C, q, e)
    BY <2>1
  <2>2. s = q
    BY <2>1
  <2>3. PICK i, j \in 1 .. N : i = x[1] /\ j = y[1]
    BY <1>3
  <2>4. i < q /\ q <= j /\ ~\E t \in T : i < t /\ t <= j
    BY <2>1, <2>2, <2>3
  <2>5. p <= i
    <3> SUFFICES ASSUME i < p PROVE FALSE
      BY <1>1
    <3>1. p # 1 /\ p <= j /\ p # q
      BY <1>1, <2>4
    <3>2. p \in T
      BY <1>2, <2>1, <3>1
    <3> QED
      BY <2>4, <3>1, <3>2
  <2>6. j < e
    <3> SUFFICES ASSUME e <= j PROVE FALSE
      BY <1>1
    <3>1. e <= N /\ i < e /\ e # q
      BY <1>1, <2>4
    <3>2. e \in T
      BY <1>2, <2>1, <3>1
    <3> QED
      BY <2>4, <3>1, <3>2
  <2>7. p < i \/ i = p
    BY <1>1, <2>5
  <2>8. x[1] < q /\ (p < x[1] \/ (x[1] = p /\ 0 < x[2]))
    BY <1>3, <2>3, <2>4, <2>7
  <2>9. q <= y[1] /\ y[1] < e
    BY <2>3, <2>4, <2>6
  <2> QED
    BY <2>8, <2>9 DEF Rest, Second
<1>7. Arranged(C, T, Rest(C, p, 0, q), Second(C, q, e))
  <2>1. C \subseteq Slots /\ Whole(C)
    BY DEF Arranged
  <2> QED
    BY <1>6, <2>1 DEF Arranged, Sorted
<1> QED
  BY <1>2, <1>5, <1>7 DEF N, Parted

\* Until two sequences are merged they may be out of order.
LEMMA PairOrder ==
    ASSUME SortAssumption, NEW r, NEW q1 \in Nat, NEW q2 \in Nat, NEW p \in Nat, NEW q \in Nat, NEW e \in Nat, NEW S,
           Inv(r, q1, q2), Order(r, q1, q2, S), pair, Paired(r, p, q, e)
    PROVE  Order(r, p, q, S \ {q})'
<1>1. /\ pc = "pair" /\ pc' = "skip2" /\ given' = given /\ given \in Lists /\ Typed /\ Merging'
      /\ list' = list /\ UNCHANGED <<head, blocks, block1>> /\ ~Merging /\ buffer' = <<>> /\ i2' = 0
  BY DEF pair, Inv, Merging
<1>2. Number \in Nat \ {0} /\ Blocks = Places /\ Places = 1 .. Number /\ blocks \in Nat \ {0}
  BY <1>1, Shape DEF Places, Typed
<1>3. Ring(r) /\ head = r[1] /\ (\A i, j \in Places : r[i] = r[j] => i = j)
  BY <1>1 DEF Inv, Layout, First, Ring, Listing
<1>4. r[p] = block1 /\ Joint(p, blocks, q, e) /\ p \in Places
  BY DEF Paired, Joint
<1>8. e = q + m' /\ after' = IF e <= Number THEN r[e] ELSE head
  BY DEF Paired
<1>5. Spaced(S, p, blocks)
  <2>1. PICK k \in Places : r[k] = block1 /\ Spaced(S, k, blocks)
    BY <1>1 DEF Order
  <2> QED
    BY <1>3, <1>4, <2>1
<1>10. PICK C : C = Listed(list, r)
  OBVIOUS
<1>11. Arranged(C, S, {}, {})
  BY <1>1, <1>10 DEF Order
<1>13. Parted(C, S \ {q}, p, blocks, q, e)
  <2>1. Joint(p, blocks, q, e)
    BY <1>4
  <2> QED
    BY <1>5, <1>10, <1>11, <2>1, JoinedOrder
<1>12. PICK T : T = S \ {q}
  OBVIOUS
<1>6. /\ Spaced(T, e, blocks) /\ (\A s \in T : s <= p \/ e <= s)
      /\ (p = 1 /\ e > Number => T = {})
      /\ Arranged(C, T, Rest(C, p, 0, q), Second(C, q, e))
  BY <1>12, <1>13 DEF Parted
<1>7. e > Number /\ block1 = head => T = {}
  <2>1. 1 \in Places
    BY <1>2
  <2> QED
    BY <1>3, <1>4, <1>6, <2>1
<1>9. Marks(r, p, e, T)'
  <2>1. Spaced(T, e, blocks)'
    BY <1>1, <1>6 DEF Spaced, Number
  <2>2. Number' = Number
    BY <1>1 DEF Number
  <2> QED
    BY <1>1, <1>6, <1>7, <1>8, <2>1, <2>2 DEF Marks
<1>18. Arranged(C, T, Rest(C, p, 0, q), Second(C, q, e))'
  BY <1>1, <1>6, ArrangedNext
<1>19. /\ End(q)' = e /\ Off' = 0 /\ Gone' = 0 /\ Len(buffer') = 0 /\ 0 + Len(buffer') = 0
  BY <1>1, <1>8 DEF End, Off, Gone
<1>15. Content(list, r, buffer, Off, Gone, p, q)' = C
  <2>1. C = Content(list', r, buffer', 0, 0, p, q)
    BY <1>1, <1>10, Unbuffered
  <2> QED
    BY <1>1, <1>19, <2>1 DEF Content, Buffered, Slots, Places, Number
<1>16. (LET C_1 == Content(list, r, buffer, Off, Gone, p, q)
        IN  Arranged(C_1, T, Rest(C_1, p, Off + Len(buffer), q), Second(C_1, q, End(q))))'
  BY <1>18, <1>19, <1>15
<1>17. Marks(r, p, End(q), T)'
  BY <1>9, <1>19
<1>22. Order(r, p, q, T)'
  BY <1>1, <1>16, <1>17 DEF Order
<1> QED
  BY <1>12, <1>22

-----------------------------------------------------------------------------
\* There is one element at each position.
LEMMA Single ==
    ASSUME NEW l, NEW r, NEW buf, NEW off, NEW gone, NEW q1, NEW q2,
           NEW C, C = Content(l, r, buf, off, gone, q1, q2),
           NEW x \in C, NEW y \in C, x[1] = y[1], x[2] = y[2]
    PROVE  x = y
<1>1. x \in Slots /\ y \in Slots
  BY DEF Content
<1>2. x = <<x[1], x[2], x[3]>> /\ y = <<y[1], y[2], y[3]>>
  BY <1>1 DEF Slots
<1>3. x[3] = y[3]
  BY DEF Content, Buffered
<1> QED
  BY <1>2, <1>3

\* An element that has no higher rank than what is left of the second sequence.
Under(x, q2, e, C) == \A y \in Second(C, q2, e) : AtMost(x, y)

\* No sequence starts after place q1 and before e.
Outside(S, q1, e) == S \subseteq Nat /\ \A s \in S : s <= q1 \/ e <= s

\* The first that is left at place q2.
Foremost(w, C, q2) == w \in C /\ w[1] = q2 /\ \A y \in C : y[1] = q2 => w[2] <= y[2]

\* The first element of the second sequence is such a one.
LEMMA FirstUnder ==
    ASSUME SortAssumption, NEW l, NEW r, NEW buf, NEW off, NEW gone, NEW q1 \in Nat, NEW q2 \in Nat,
           NEW C, C = Content(l, r, buf, off, gone, q1, q2), NEW S, NEW e \in Nat, NEW U,
           Arranged(C, S, U, Second(C, q2, e)), Outside(S, q1, e), q1 <= q2, NEW w, Foremost(w, C, q2), w \notin U
    PROVE  Under(w, q2, e, C)
<1> SUFFICES ASSUME NEW y \in Second(C, q2, e) PROVE AtMost(w, y)
  BY DEF Under
<1>1. y \in C /\ q2 <= y[1] /\ y[1] < e
  BY DEF Second
<1>9. w \in C /\ w[1] = q2 /\ (y[1] = q2 => w[2] <= y[2])
  BY <1>1 DEF Foremost
<1>2. w[2] \in Int /\ y[2] \in Int /\ y[1] \in Nat
  <2>1. w \in Slots /\ y \in Slots
    BY <1>1, <1>9 DEF Content
  <2>2. y[1] \in Places
    BY <2>1 DEF Slots
  <2> QED
    BY <2>1, <2>2 DEF Slots, Places
<1>3. w = y \/ Before(w, y)
  <2>1. CASE y[1] = q2
    <3>1. w[2] <= y[2]
      BY <1>9, <2>1
    <3>2. w[2] = y[2] => w = y
      BY <1>1, <1>9, <2>1, Single
    <3> QED
      BY <1>2, <1>9, <2>1, <3>1, <3>2 DEF Before
  <2>2. CASE y[1] # q2
    BY <1>1, <1>2, <1>9, <2>2 DEF Before
  <2> QED
    BY <2>1, <2>2
<1>4. OneRun(S, w, y)
  BY <1>1, <1>2, <1>9 DEF OneRun, Outside
<1>5. PICK V : V = Second(C, q2, e)
  OBVIOUS
<1>6. y \in C
  BY <1>1
<1>7. Arranged(C, S, U, V)
  BY <1>5
<1>8. w \notin U \/ y \notin V
  OBVIOUS
<1> QED
  BY <1>3, <1>4, <1>6, <1>7, <1>8, <1>9, NotHigher

\* Those are in order with it.
LEMMA UnderSorted ==
    ASSUME SortAssumption, NEW C, NEW S, NEW U, NEW V, Arranged(C, S, U, V),
           NEW x \in C, NEW y \in C, Before(x, y), AtMost(x, y)
    PROVE  Precedes(x[3], y[3])
<1>1. Precedes(x[3], y[3]) \/ Earlier(x[3], y[3])
  BY DEF Arranged, Sorted
<1>2. Rank[x[3]] < Rank[y[3]] \/ Rank[x[3]] = Rank[y[3]]
  BY DEF AtMost
<1> QED
  BY <1>1, <1>2 DEF Precedes

\* A block of the first sequence that ends before the second sequence starts is in order
\* with all of it.
LEMMA SkipBlockOrder ==
    ASSUME SortAssumption, NEW r, NEW q1 \in Nat, NEW q2 \in Nat, NEW S,
           Inv(r, q1, q2), Order(r, q1, q2, S), skip_block
    PROVE  Order(r, q1 + 1, q2, S)'
<1>1. /\ Merging /\ pc = "skip1" /\ InPlace /\ n' = n - 1 /\ given' = given /\ given \in Lists
      /\ list' = list /\ buffer' = buffer /\ Typed /\ buffer = <<>> /\ i2' = i2 /\ m' = m /\ nr(b2) # 0
  BY DEF Merging, skip_block, Inv, Fresh
<1>2. Known(r, q1, q2)
  BY <1>1, KnownIs
<1>3. PICK C, e : /\ C = Content(list, r, buffer, 0, 0, q1, q2) /\ e = End(q2)
                  /\ Arranged(C, S, Rest(C, q1, 0 + Len(buffer), q2), Second(C, q2, e))
                  /\ e \in Nat /\ q1 < e /\ e <= Number + 1 /\ q2 <= e /\ Marks(r, q1, e, S)
  BY <1>1, OrderIs DEF Off, Gone
<1>4. C = Listed(list, r) /\ Len(buffer) = 0 /\ 0 + Len(buffer) = 0
  BY <1>1, <1>3, Unbuffered
<1>5. /\ q2 \in Places /\ q1 \in Places /\ q1 < q2 /\ e = q2 + m /\ m \in Nat /\ b2 = r[q2] /\ b1 = r[q1] /\ q2 < e
      /\ Number \in Nat /\ Places = 1 .. Number /\ q1 + n <= q2 /\ n \in Nat
      /\ \A k \in q1 + n .. q2 - 1 : k \in Places => Len(given[r[k]]) = 0
  BY <1>1, <1>2, <1>3, EndIs DEF Known, Cursors, Typed
<1>6. \A x \in C : /\ x \in Slots /\ x[1] \in Nat /\ x[1] \in Places
                   /\ x[2] \in 1 .. Len(list[r[x[1]]]) /\ x[3] = list[r[x[1]]][x[2]]
  <2> TAKE x \in C
  <2>1. x \in Slots /\ x[2] \in 1 .. Len(list[r[x[1]]]) /\ x[3] = list[r[x[1]]][x[2]]
    BY <1>4 DEF Listed, Content, Buffered
  <2> QED
    BY <1>5, <2>1 DEF Slots
<1>13. \A x \in Slots : x[2] \in 1 .. Len(list[r[x[1]]]) /\ x[3] = list[r[x[1]]][x[2]] => x \in C
  BY <1>4 DEF Listed, Content, Buffered
<1>7. /\ list[b1] \in Seq(Elements) /\ nr(b1) = Len(list[b1]) /\ nr(b1) \in Nat
      /\ list[b2] \in Seq(Elements) /\ nr(b2) = Len(list[b2]) /\ nr(b2) \in Nat
  <2>1. b1 \in Blocks /\ b2 \in Blocks
    BY <1>1 DEF Typed
  <2> QED
    BY <1>1, <2>1, Sizes
<1> PICK U, V : U = Rest(C, q1, 0, q2) /\ V = Second(C, q2, e)
  OBVIOUS
<1>8. Arranged(C, S, U, V) /\ Outside(S, q1, e)
  <2>1. S \subseteq 2 .. Number
    BY <1>3 DEF Marks, Spaced
  <2> QED
    BY <1>3, <1>4, <2>1 DEF Marks, Outside
<1>9. ASSUME NEW x \in C, NEW y \in V, x[1] = q1 PROVE Precedes(x[3], y[3])
  <2>1. x[2] \in 1 .. nr(b1) /\ y \in C /\ q2 <= y[1] /\ y[1] < e
    BY <1>5, <1>6, <1>7, <1>9 DEF Second
  <2> PICK k : k = nr(b1)
    OBVIOUS
  <2>2. k \in Nat /\ k # 0 /\ k \in 1 .. k /\ x[2] \in 1 .. k
    BY <1>7, <2>1
  <2>3. list[b1][k] \in Elements /\ list[b2][1] \in Elements /\ 1 \in 1 .. nr(b2)
    <3>1. k \in 1 .. Len(list[b1]) /\ 1 \in 1 .. Len(list[b2])
      BY <1>1, <1>7, <2>2
    <3> QED
      BY <1>7, <3>1
  <2> DEFINE z == <<q1, k, list[b1][k]>>
             w == <<q2, 1, list[b2][1]>>
  <2>4. z \in Slots /\ w \in Slots
    BY <1>5, <2>2, <2>3 DEF Slots
  <2>5. /\ z[1] = q1 /\ z[2] = k /\ z[3] = list[b1][k]
        /\ w[1] = q2 /\ w[2] = 1 /\ w[3] = list[b2][1]
    OBVIOUS
  <2> HIDE DEF z, w
  <2>6. z \in C /\ w \in C
    <3>1. z[2] \in 1 .. Len(list[r[z[1]]]) /\ z[3] = list[r[z[1]]][z[2]]
      BY <1>5, <1>7, <2>2, <2>5
    <3>2. w[2] \in 1 .. Len(list[r[w[1]]]) /\ w[3] = list[r[w[1]]][w[2]]
      BY <1>5, <1>7, <2>3, <2>5
    <3> QED
      BY <1>13, <2>4, <3>1, <3>2
  <2>7. w \notin U /\ z \notin V
    BY <1>5, <2>5 DEF Rest, Second
  <2>8. Foremost(w, C, q2)
    BY <1>6, <2>5, <2>6 DEF Foremost
  <2>9. Under(w, q2, e, C)
    <3>1. q1 <= q2 /\ Arranged(C, S, U, Second(C, q2, e))
      BY <1>5, <1>8
    <3> QED
      BY <1>3, <1>8, <2>7, <2>8, <3>1, FirstUnder
  <2>10. AtMost(w, y)
    BY <2>9 DEF Under
  <2>11. AtMost(x, z)
    <3>1. x = z \/ Before(x, z)
      <4>1. x[2] = k => x = z
        BY <1>3, <1>9, <2>5, <2>6, Single
      <4> QED
        BY <1>9, <2>2, <2>5, <4>1 DEF Before
    <3>2. OneRun(S, x, z)
      BY <1>8, <1>9, <2>5 DEF OneRun, Outside
    <3>3. x \notin U \/ z \notin V
      BY <2>7
    <3> QED
      BY <1>8, <2>6, <3>1, <3>2, <3>3, NotHigher
  <2>12. Rank[z[3]] < Rank[w[3]]
    BY <1>1, <2>2, <2>5 DEF InPlace
  <2>13. AtMost(x, y)
    BY <2>10, <2>11, <2>12 DEF AtMost
  <2>14. Before(x, y)
    BY <1>5, <1>6, <1>9, <2>1 DEF Before
  <2> QED
    BY <1>8, <2>1, <2>13, <2>14, UnderSorted
<1> PICK p1 \in Nat : p1 = q1 + 1
  OBVIOUS
<1>10. Arranged(C, S, Rest(C, p1, 0, q2), V)
  <2>1. ASSUME NEW x \in C, NEW y \in C, x \in U, y \in V
        PROVE  (x \in Rest(C, p1, 0, q2) /\ y \in V) \/ Precedes(x[3], y[3])
    <3>1. CASE x[1] = q1
      BY <1>9, <2>1, <3>1
    <3>2. CASE x[1] # q1
      <4>1. q1 < x[1] /\ x[1] < q2 /\ 0 < x[2]
        BY <1>6, <2>1, <3>2 DEF Rest
      <4>2. p1 < x[1] \/ (x[1] = p1 /\ 0 < x[2])
        BY <1>6, <4>1
      <4> QED
        BY <2>1, <4>1, <4>2 DEF Rest
    <3> QED
      BY <3>1, <3>2
  <2> QED
    BY <1>8, <2>1, Released
<1>11. CASE n = 1
  <2>1. Merged
    BY <1>11 DEF skip_block
  <2>2. Rest(C, p1, 0, q2) = {}
    <3> SUFFICES ASSUME NEW x \in C, x[1] < q2, p1 <= x[1] PROVE FALSE
      <4>1. \A x \in C : p1 < x[1] \/ x[1] = p1 => p1 <= x[1]
        BY <1>6
      <4> QED
        BY <4>1 DEF Rest
    <3>1. x[1] \in q1 + n .. q2 - 1 /\ x[1] \in Places
      BY <1>5, <1>6, <1>11
    <3>2. Len(given[r[x[1]]]) = 0
      BY <1>5, <3>1
    <3>3. Len(list[r[x[1]]]) = 0
      BY <1>2, <3>1, <3>2 DEF Known, nr
    <3> QED
      BY <1>6, <3>3
  <2>3. Arranged(C, S, {}, {})
    BY <1>10, <2>2, Released
  <2>4. C = Listed(list', r) /\ Ring(r) /\ First = r[1]
    BY <1>1, <1>2, <1>4 DEF Known
  <2>5. Order(r, p1, q2, S)'
    BY <1>1, <1>3, <1>5, <2>1, <2>3, <2>4, OrderReturn
  <2> QED
    BY <2>5
<1>12. CASE n # 1
  <2>1. UNCHANGED <<pc, head, blocks, block1, after>>
    BY <1>12 DEF skip_block, pass
  <2>2. Merging' /\ Off' = 0 /\ Gone' = 0
    BY <1>1, <2>1 DEF Merging, Off, Gone
  <2>3. End(q2)' = e
    BY <1>1, <1>3, <2>1 DEF End
  <2>4. C = Content(list', r, buffer', 0, 0, p1, q2)
    BY <1>1, <1>4, Unbuffered
  <2>5. 0 = 0 + Len(buffer') /\ q1 <= p1
    BY <1>1, <1>4
  <2>6. Arranged(C, S, Rest(C, p1, 0, q2), Second(C, q2, e))
    BY <1>10
  <2>7. Order(r, p1, q2, S)'
    BY <1>1, <1>3, <2>1, <2>2, <2>3, <2>4, <2>5, <2>6, OrderNext
  <2> QED
    BY <2>7
<1> QED
  BY <1>11, <1>12

\* What each element of the list is: one of the buffer, or one that a block has kept.
Slot(x) == x \in Slots /\ x[1] \in Places /\ x[1] \in Nat /\ x[2] \in Int
InBuffer(x, q, off, len) == x[1] = q /\ off + 1 <= x[2] /\ x[2] <= off + len
Kept(x, l, r, gone, q2) ==
    x[2] \in 1 .. Len(l[r[x[1]]]) /\ (x[1] = q2 => gone < x[2]) /\ x[3] = l[r[x[1]]][x[2]]

\* What the list holds, element by element.
LEMMA ContentIs ==
    ASSUME Number \in Nat, NEW l, NEW r, NEW buf, NEW off \in Int, NEW gone, NEW q1, NEW q2,
           NEW len \in Nat, len = Len(buf), NEW C, C = Content(l, r, buf, off, gone, q1, q2), NEW x
    PROVE  x \in C <=>
             /\ Slot(x)
             /\ IF InBuffer(x, q1, off, len) THEN x[3] = buf[x[2] - off] ELSE Kept(x, l, r, gone, q2)
<1> SUFFICES ASSUME x \in Slots
             PROVE  x \in C <=>
               /\ Slot(x)
               /\ IF InBuffer(x, q1, off, len) THEN x[3] = buf[x[2] - off] ELSE Kept(x, l, r, gone, q2)
  BY DEF Content, Slot
<1>1. Slot(x)
  BY DEF Slots, Places, Slot
<1>2. x[2] - off \in 1 .. Len(buf) <=> off + 1 <= x[2] /\ x[2] <= off + len
  <2> PICK k \in Int : k = x[2]
    BY <1>1 DEF Slot
  <2>1. k - off \in 1 .. len <=> off + 1 <= k /\ k <= off + len
    OBVIOUS
  <2> QED
    BY <2>1
<1>3. Buffered(x, buf, off, q1) <=> InBuffer(x, q1, off, len)
  BY <1>2 DEF Buffered, InBuffer
<1>5. x \in C <=> \/ Buffered(x, buf, off, q1) /\ x[3] = buf[x[2] - off]
                  \/ ~Buffered(x, buf, off, q1) /\ Kept(x, l, r, gone, q2)
  BY DEF Content, Kept
<1> QED
  BY <1>1, <1>3, <1>5

\* x is y with the buffer at (p, off2) and not at (q, off), or is no element of the buffer.
Carry(x, y, q, off, p, off2, len) ==
    /\ Slot(x) /\ Slot(y) /\ x[3] = y[3]
    /\ IF InBuffer(x, p, off2, len) THEN y[1] = q /\ y[2] = x[2] - off2 + off ELSE y = x

\* A position is as far on from o as the other was from o2.
LEMMA ShiftIs ==
    ASSUME NEW k \in Int, NEW o \in Int, NEW o2 \in Int, NEW len \in Nat, o2 + 1 <= k, k <= o2 + len
    PROVE  /\ k - o2 + o \in Int /\ o + 1 <= k - o2 + o /\ k - o2 + o <= o + len
           /\ (k - o2 + o) - o = k - o2
OBVIOUS

\* No block has kept an element where the buffer is, here or there.
Apart(l, r, gone, q2, q, off, p, off2, len) ==
    \A x : Slot(x) /\ Kept(x, l, r, gone, q2) => ~InBuffer(x, q, off, len) /\ ~InBuffer(x, p, off2, len)

\* What C holds with the buffer in one place is what D holds with it in the other.
Rebuffer(C, D, l, r, gone, q2, q, off, p, off2, len) ==
    /\ \E g : \A x \in D : /\ g[x] \in C /\ Carry(x, g[x], q, off, p, off2, len)
                           /\ InBuffer(x, p, off2, len) \/ Kept(x, l, r, gone, q2)
    /\ \A x \in C : \E y \in D : x[3] = y[3]

\* The buffer goes to another place, where no block has kept an element.
LEMMA Rebuffered ==
    ASSUME Number \in Nat, NEW l, NEW r, NEW buf, NEW off \in Int, NEW off2 \in Int, NEW gone,
           NEW q1 \in Nat, NEW p1 \in Nat, NEW q2, NEW len \in Nat, len = Len(buf), q1 \in Places, p1 \in Places,
           Apart(l, r, gone, q2, q1, off, p1, off2, len),
           NEW C, C = Content(l, r, buf, off, gone, q1, q2),
           NEW D, D = Content(l, r, buf, off2, gone, p1, q2)
    PROVE  Rebuffer(C, D, l, r, gone, q2, q1, off, p1, off2, len)
<1> DEFINE Move(x, q, o, p, o2) == IF InBuffer(x, p, o2, len) THEN <<q, x[2] - o2 + o, x[3]>> ELSE x
<1>1. ASSUME NEW q \in Places, q \in Nat, NEW o \in Int, NEW p \in Places, p \in Nat, NEW o2 \in Int,
             \A x : Slot(x) /\ Kept(x, l, r, gone, q2) => ~InBuffer(x, q, o, len),
             NEW A, A = Content(l, r, buf, o, gone, q, q2), NEW B, B = Content(l, r, buf, o2, gone, p, q2),
             NEW x \in B
      PROVE  /\ Move(x, q, o, p, o2) \in A /\ Carry(x, Move(x, q, o, p, o2), q, o, p, o2, len)
             /\ InBuffer(x, p, o2, len) \/ Kept(x, l, r, gone, q2)
  <2>1. /\ Slot(x)
        /\ IF InBuffer(x, p, o2, len) THEN x[3] = buf[x[2] - o2] ELSE Kept(x, l, r, gone, q2)
    BY <1>1, ContentIs
  <2>2. CASE InBuffer(x, p, o2, len)
    <3> PICK y : y = <<q, x[2] - o2 + o, x[3]>>
      OBVIOUS
    <3>1. x[2] - o2 + o \in Int /\ x[3] \in Elements
      BY <2>1 DEF Slot, Slots
    <3>2. y \in Slots /\ y[1] = q /\ y[2] = x[2] - o2 + o /\ y[3] = x[3]
      BY <3>1 DEF Slots
    <3>3. Slot(y) /\ InBuffer(y, q, o, len) /\ y[2] - o = x[2] - o2
      <4>1. /\ x[2] - o2 + o \in Int /\ o + 1 <= x[2] - o2 + o /\ x[2] - o2 + o <= o + len
            /\ (x[2] - o2 + o) - o = x[2] - o2
        <5>1. x[2] \in Int /\ o2 + 1 <= x[2] /\ x[2] <= o2 + len
          BY <2>1, <2>2 DEF Slot, InBuffer
        <5> QED
          BY <1>1, <5>1, ShiftIs
      <4> QED
        BY <1>1, <3>2, <4>1 DEF Slot, InBuffer
    <3>4. y[3] = buf[y[2] - o]
      BY <2>1, <2>2, <3>2, <3>3
    <3>5. y \in A
      BY <1>1, <3>3, <3>4, ContentIs
    <3>6. Move(x, q, o, p, o2) = y
      BY <2>2
    <3> QED
      BY <2>1, <2>2, <3>2, <3>3, <3>5, <3>6 DEF Carry
  <2>3. CASE ~InBuffer(x, p, o2, len)
    <3>1. Kept(x, l, r, gone, q2) /\ ~InBuffer(x, q, o, len)
      BY <1>1, <2>1, <2>3
    <3>2. x \in A
      BY <1>1, <2>1, <3>1, ContentIs
    <3> QED
      BY <2>1, <2>3, <3>1, <3>2 DEF Carry
  <2> QED
    BY <2>2, <2>3
<1> PICK g : g = [x \in D |-> Move(x, q1, off, p1, off2)]
  OBVIOUS
<1>2. ASSUME NEW x \in D
      PROVE  /\ g[x] \in C /\ Carry(x, g[x], q1, off, p1, off2, len)
             /\ InBuffer(x, p1, off2, len) \/ Kept(x, l, r, gone, q2)
  <2>1. g[x] = Move(x, q1, off, p1, off2)
    OBVIOUS
  <2> HIDE DEF Move
  <2> QED
    BY <1>1, <2>1 DEF Apart
<1>3. ASSUME NEW x \in C PROVE \E y \in D : x[3] = y[3]
  <2> HIDE DEF Move
  <2>1. Move(x, p1, off2, q1, off) \in D /\ Carry(x, Move(x, p1, off2, q1, off), p1, off2, q1, off, len)
    BY <1>1 DEF Apart
  <2> QED
    BY <2>1 DEF Carry
<1> QED
  BY <1>2, <1>3 DEF Rebuffer

\* The buffer goes on from the end of the block at q to the start of the next.
Onward(x, y, q, off, p, off2, len) ==
    /\ Carry(x, y, q, off, p, off2, len)
    /\ InBuffer(x, p, off2, len) \/ ((x[1] = q => x[2] <= off) /\ (x[1] = p => off2 + len < x[2]))

\* An element is in the buffer, and moves on with it, or is not there before or after.
LEMMA OnwardIs ==
    ASSUME NEW q \in Nat, NEW off \in Int, NEW p \in Nat, NEW off2 \in Int, NEW len \in Nat, p = q + 1,
           NEW x, NEW x_0, Onward(x, x_0, q, off, p, off2, len)
    PROVE  /\ x[1] \in Nat /\ x[2] \in Int /\ x_0[1] \in Nat /\ x_0[2] \in Int
           /\ \/ /\ x[1] = p /\ off2 < x[2] /\ x[2] <= off2 + len
                 /\ x_0[1] = q /\ x_0[2] = x[2] - off2 + off /\ off < x_0[2] /\ x_0[2] <= off + len
              \/ /\ x = x_0 /\ (x[1] = q => x[2] <= off) /\ (x[1] = p => off2 + len < x[2])
<1>1. x[1] \in Nat /\ x[2] \in Int /\ x_0[1] \in Nat /\ x_0[2] \in Int
  BY DEF Onward, Carry, Slot
<1>2. CASE InBuffer(x, p, off2, len)
  <2>1. x[1] = p /\ off2 + 1 <= x[2] /\ x[2] <= off2 + len /\ x_0[1] = q /\ x_0[2] = x[2] - off2 + off
    BY <1>2 DEF Onward, Carry, InBuffer
  <2>2. off + 1 <= x[2] - off2 + off /\ x[2] - off2 + off <= off + len
    BY <1>1, <2>1, ShiftIs
  <2>3. off < x_0[2] /\ off2 < x[2] /\ x_0[2] <= off + len
    BY <1>1, <2>1, <2>2
  <2> QED
    BY <1>1, <2>1, <2>3
<1>3. CASE ~InBuffer(x, p, off2, len)
  BY <1>1, <1>3 DEF Onward, Carry
<1> QED
  BY <1>2, <1>3

\* Elements stay in order with it, and on the same side of where sequences start.
InLine(x, y, x_0, y_0, q, cut, p, cut2, q2, e) ==
    /\ Before(x, y) => Before(x_0, y_0)
    /\ \A s \in Nat : s <= q \/ e <= s => (x_0[1] < s /\ s <= y_0[1] => x[1] < s /\ s <= y[1])
    /\ x_0[1] < q2 /\ (q < x_0[1] \/ (x_0[1] = q /\ cut < x_0[2])) =>
           x[1] < q2 /\ (p < x[1] \/ (x[1] = p /\ cut2 < x[2]))
    /\ q2 <= y_0[1] /\ y_0[1] < e => q2 <= y[1] /\ y[1] < e

\* No two change their order, and none its side, when the buffer goes on to the next block.
LEMMA Onwards ==
    ASSUME NEW q \in Nat, NEW off \in Int, NEW p \in Nat, NEW off2 \in Int, NEW len \in Nat, p = q + 1,
           NEW q2 \in Nat, NEW e \in Nat, p <= q2, q2 < e,
           NEW x, NEW x_0, Onward(x, x_0, q, off, p, off2, len),
           NEW y, NEW y_0, Onward(y, y_0, q, off, p, off2, len)
    PROVE  InLine(x, y, x_0, y_0, q, off + len, p, off2 + len, q2, e)
<1>1. /\ x[1] \in Nat /\ x[2] \in Int /\ x_0[1] \in Nat /\ x_0[2] \in Int
      /\ \/ /\ x[1] = p /\ off2 < x[2] /\ x[2] <= off2 + len
            /\ x_0[1] = q /\ x_0[2] = x[2] - off2 + off /\ off < x_0[2] /\ x_0[2] <= off + len
         \/ /\ x = x_0 /\ (x[1] = q => x[2] <= off) /\ (x[1] = p => off2 + len < x[2])
  BY OnwardIs
<1>2. /\ y[1] \in Nat /\ y[2] \in Int /\ y_0[1] \in Nat /\ y_0[2] \in Int
      /\ \/ /\ y[1] = p /\ off2 < y[2] /\ y[2] <= off2 + len
            /\ y_0[1] = q /\ y_0[2] = y[2] - off2 + off /\ off < y_0[2] /\ y_0[2] <= off + len
         \/ /\ y = y_0 /\ (y[1] = q => y[2] <= off) /\ (y[1] = p => off2 + len < y[2])
  BY OnwardIs
<1>3. Before(x, y) => Before(x_0, y_0)
  BY <1>1, <1>2 DEF Before
<1>4. ASSUME NEW s \in Nat, s <= q \/ e <= s, x_0[1] < s, s <= y_0[1] PROVE x[1] < s /\ s <= y[1]
  BY <1>1, <1>2, <1>4
<1>5. x_0[1] < q2 /\ (q < x_0[1] \/ (x_0[1] = q /\ off + len < x_0[2])) =>
                  x[1] < q2 /\ (p < x[1] \/ (x[1] = p /\ off2 + len < x[2]))
  BY <1>1
<1>6. q2 <= y_0[1] /\ y_0[1] < e => q2 <= y[1] /\ y[1] < e
  BY <1>2
<1> QED
  BY <1>3, <1>4, <1>5, <1>6 DEF InLine

\* The block at q ends where the buffer starts, and the one at p has kept nothing up to
\* where it ends.
Between(l, r, gone, q2, q, off, p, end) ==
    \A x : Slot(x) /\ Kept(x, l, r, gone, q2) => (x[1] = q => x[2] <= off) /\ (x[1] = p => end < x[2])

\* What is buffered goes on with the first sequence: it was after all of the block at q1,
\* and is before all of the next one.
LEMMA Carried ==
    ASSUME Number \in Nat, NEW l, NEW r, NEW buf, NEW off \in Int, NEW off2 \in Int, NEW gone,
           NEW q1 \in Nat, NEW p1 \in Nat, NEW q2 \in Nat, NEW e \in Nat, NEW len \in Nat, len = Len(buf),
           p1 = q1 + 1, q1 \in Places, p1 \in Places, p1 <= q2, q2 < e,
           Between(l, r, gone, q2, q1, off, p1, off2 + len),
           NEW C, C = Content(l, r, buf, off, gone, q1, q2),
           NEW D, D = Content(l, r, buf, off2, gone, p1, q2),
           NEW S, Outside(S, q1, e),
           Arranged(C, S, Rest(C, q1, off + len, q2), Second(C, q2, e))
    PROVE  Arranged(D, S, Rest(D, p1, off2 + len, q2), Second(D, q2, e))
<1>1. Apart(l, r, gone, q2, q1, off, p1, off2, len)
  <2> SUFFICES ASSUME NEW x, Slot(x), Kept(x, l, r, gone, q2)
               PROVE  ~InBuffer(x, q1, off, len) /\ ~InBuffer(x, p1, off2, len)
    BY DEF Apart
  <2>1. /\ (x[1] = q1 => x[2] <= off) /\ (x[1] = p1 => off2 + len < x[2]) /\ x[2] \in Int
        /\ off \in Int /\ off2 \in Int /\ len \in Nat
    BY DEF Slot, Between
  <2>2. ~(off + 1 <= x[2] /\ x[2] <= off)
    BY <2>1
  <2>3. ~(off2 + len < x[2] /\ x[2] <= off2 + len)
    BY <2>1
  <2> QED
    BY <2>1, <2>2, <2>3 DEF InBuffer
<1>2. Rebuffer(C, D, l, r, gone, q2, q1, off, p1, off2, len)
  BY <1>1, Rebuffered
<1> PICK g : \A x \in D : /\ g[x] \in C /\ Carry(x, g[x], q1, off, p1, off2, len)
                          /\ InBuffer(x, p1, off2, len) \/ Kept(x, l, r, gone, q2)
  BY <1>2 DEF Rebuffer
<1>3. ASSUME NEW x \in D
      PROVE  g[x] \in C /\ g[x][3] = x[3] /\ x \in Slots /\ Onward(x, g[x], q1, off, p1, off2, len)
  BY DEF Carry, Onward, Slot, Between
<1> PICK U, V : U = Rest(C, q1, off + len, q2) /\ V = Second(C, q2, e)
  OBVIOUS
<1> PICK P, Q : P = Rest(D, p1, off2 + len, q2) /\ Q = Second(D, q2, e)
  OBVIOUS
<1>4. ASSUME NEW x \in D, NEW y \in D
      PROVE  /\ Before(x, y) => Before(g[x], g[y])
             /\ \A s \in Nat : s <= q1 \/ e <= s => (g[x][1] < s /\ s <= g[y][1] => x[1] < s /\ s <= y[1])
             /\ g[x] \in U => x \in P
             /\ g[y] \in V => y \in Q
  <2>1. Onward(x, g[x], q1, off, p1, off2, len) /\ Onward(y, g[y], q1, off, p1, off2, len)
    BY <1>3
  <2> PICK x_0, y_0 : x_0 = g[x] /\ y_0 = g[y]
    OBVIOUS
  <2>5. InLine(x, y, x_0, y_0, q1, off + len, p1, off2 + len, q2, e)
    BY <2>1, Onwards
  <2>2. /\ Before(x, y) => Before(x_0, y_0)
        /\ \A s \in Nat : s <= q1 \/ e <= s => (x_0[1] < s /\ s <= y_0[1] => x[1] < s /\ s <= y[1])
        /\ x_0[1] < q2 /\ (q1 < x_0[1] \/ (x_0[1] = q1 /\ off + len < x_0[2])) =>
               x[1] < q2 /\ (p1 < x[1] \/ (x[1] = p1 /\ off2 + len < x[2]))
        /\ q2 <= y_0[1] /\ y_0[1] < e => q2 <= y[1] /\ y[1] < e
    BY <2>5 DEF InLine
  <2>3. g[x] \in U => x \in P
    BY <2>2 DEF Rest
  <2>4. g[y] \in V => y \in Q
    BY <2>2 DEF Second
  <2> QED
    BY <2>2, <2>3, <2>4
<1>5. Moves(g, C, D, S, U, V, P, Q)
  <2>1. \A x \in C : \E y \in D : x[3] = y[3]
    BY <1>2 DEF Rebuffer
  <2>2. ASSUME NEW x \in D, NEW y \in D, Before(x, y)
        PROVE  /\ Before(g[x], g[y])
               /\ \A s \in S : g[x][1] < s /\ s <= g[y][1] => x[1] < s /\ s <= y[1]
               /\ g[x] \in U /\ g[y] \in V => x \in P /\ y \in Q
    BY <1>4, <2>2 DEF Outside
  <2> QED
    BY <1>3, <2>1, <2>2 DEF Moves
<1> QED
  BY <1>5, Rearranged

\* The block at p has kept nothing up to where the buffer ends.
Clear(r, p, q2, gone, end) == \A k \in 1 .. Len(list[r[p]]) : (p = q2 => gone < k) => end < k

\* A step along the first sequence that leaves what is buffered.
LEMMA CarriedOrder ==
    ASSUME SortAssumption, NEW r, NEW q1 \in Nat, NEW q2 \in Nat, NEW S,
           Inv(r, q1, q2), Order(r, q1, q2, S), Merging, Merging', pc \in {"next1", "flush"}, pc' # "next2", q1 # q2,
           given' = given, list' = list, buffer' = buffer, UNCHANGED <<head, blocks, block1, after, m>>,
           NEW gone, gone = Gone, gone = Gone', NEW off \in Int, off = Off, off = nr(b1), NEW off2 \in Int, off2 = Off',
           NEW p1 \in Nat, p1 = q1 + 1, NEW len \in Nat, len = Len(buffer), Clear(r, p1, q2, gone, off2 + len)
    PROVE  Order(r, p1, q2, S)'
<1>1. Typed /\ given \in Lists
  BY DEF Inv
<1>2. Known(r, q1, q2)
  BY KnownIs
<1>3. PICK C, e : /\ C = Content(list, r, buffer, off, gone, q1, q2) /\ e = End(q2)
                  /\ Arranged(C, S, Rest(C, q1, off + Len(buffer), q2), Second(C, q2, e))
                  /\ e \in Nat /\ q1 < e /\ e <= Number + 1 /\ q2 <= e /\ Marks(r, q1, e, S)
  BY OrderIs
<1>4. q2 < e /\ q1 \in Places /\ Number \in Nat /\ b1 = r[q1]
  BY <1>1, <1>2, <1>3, EndIs DEF Known, Cursors
<1>5. p1 \in Places /\ p1 <= q2
  BY <1>1, <1>2, OnFirst
<1>6. Outside(S, q1, e)
  <2>1. S \subseteq 2 .. Number
    BY <1>3 DEF Marks, Spaced
  <2> QED
    BY <1>3, <2>1 DEF Marks, Outside
<1>7. ASSUME NEW x, Slot(x), Kept(x, list, r, gone, q2)
      PROVE  (x[1] = q1 => x[2] <= off) /\ (x[1] = p1 => off2 + len < x[2])
  <2>1. x[2] \in 1 .. Len(list[r[x[1]]]) /\ (x[1] = q2 => gone < x[2])
    BY <1>7 DEF Kept
  <2>2. x[1] = p1 => off2 + len < x[2]
    BY <2>1 DEF Clear
  <2>3. x[1] = q1 => x[2] \in 1 .. off
    BY <1>4, <2>1 DEF nr
  <2>4. x[1] = q1 => x[2] <= off
    BY <2>3
  <2> QED
    BY <2>2, <2>4
<1> PICK D : D = Content(list, r, buffer, off2, gone, p1, q2)
  OBVIOUS
<1>8. Arranged(D, S, Rest(D, p1, off2 + len, q2), Second(D, q2, e))
  <2>2. Between(list, r, gone, q2, q1, off, p1, off2 + len)
    BY <1>7 DEF Between
  <2>1. Arranged(C, S, Rest(C, q1, off + len, q2), Second(C, q2, e))
    BY <1>3
  <2> QED
    BY <1>3, <1>4, <1>5, <1>6, <2>1, <2>2, Carried
<1>9. e = End(q2)'
  <2>1. pc # "next2" /\ m' = m
    OBVIOUS
  <2> QED
    BY <1>3, <2>1 DEF End
<1>10. D = Content(list', r, buffer', off2, gone, p1, q2) /\ off2 + len = off2 + Len(buffer') /\ q1 <= p1
  OBVIOUS
<1> QED
  BY <1>1, <1>3, <1>8, <1>9, <1>10, OrderNext

\* The next block of the first sequence, before which what is buffered is.
LEMMA NextFirstOrder ==
    ASSUME SortAssumption, NEW r, NEW q1 \in Nat, NEW q2 \in Nat, NEW S,
           Inv(r, q1, q2), Order(r, q1, q2, S), next_first
    PROVE  Order(r, q1 + 1, q2, S)'
<1>1. /\ pc = "next1" /\ n > 1 /\ b1' = next[b1] /\ given' = given /\ list' = list /\ buffer' = buffer
      /\ UNCHANGED <<head, blocks, block1, after, m, i2>>
      /\ IF nr(next[b1]) = 0 THEN UNCHANGED pc ELSE pc' = "merge"
  BY DEF next_first, pass
<1>2. Merging /\ Merging' /\ pc' # "next2" /\ pc' \in {"next1", "merge"} /\ Typed /\ n \in Nat
  BY <1>1 DEF Merging, Inv, Typed
<1>3. Known(r, q1, q2)
  BY <1>2, KnownIs
<1>4. q1 # q2 /\ b1 \in Blocks /\ q1 \in Nat /\ q2 \in Nat
  <2>1. q1 + n <= q2
    BY <1>3 DEF Known, Cursors
  <2> QED
    BY <1>1, <1>2, <2>1 DEF Typed
<1>5. next[b1] = r[q1 + 1] /\ next[b1] \in Blocks
  BY <1>1, <1>2, <1>3, <1>4, OnFirst
<1> PICK k \in Nat : k = i2
  BY <1>2 DEF Typed
<1>6. Len(buffer) = k /\ nr(b1) \in Nat /\ nr(next[b1]) \in Nat
  <2>1. Len(buffer) = k
    BY <1>1 DEF Inv, BufferExact
  <2> QED
    BY <1>2, <1>4, <1>5, <2>1, Sizes
<1>7. Gone = k /\ Gone' = k /\ Off = nr(b1)
  BY <1>1, <1>2 DEF Gone, Off
<1> PICK p1 \in Nat : p1 = q1 + 1
  OBVIOUS
<1> PICK off \in Int : off = Off
  BY <1>6, <1>7
<1>8. nr(next[b1]) = Len(list[r[p1]])
  BY <1>5 DEF nr
<1>9. CASE nr(next[b1]) = 0
  <2>1. pc' = "next1" /\ nr(b1)' = 0
    BY <1>1, <1>9 DEF nr
  <2>2. Off' = 0
    BY <2>1 DEF Off
  <2>3. Clear(r, p1, q2, k, 0 + k)
    BY <1>8, <1>9 DEF Clear
  <2>4. Order(r, p1, q2, S)'
    BY <1>1, <1>2, <1>4, <1>6, <1>7, <2>2, <2>3, CarriedOrder
  <2> QED
    BY <2>4
<1>10. CASE nr(next[b1]) # 0
  <2>1. pc' = "merge"
    BY <1>1, <1>10
  <2>2. Off' = 0 - k
    BY <1>1, <2>1 DEF Off
  <2> PICK o \in Int : o = 0 - k
    OBVIOUS
  <2>3. Clear(r, p1, q2, k, o + k)
    <3>1. \A j \in 1 .. Len(list[r[p1]]) : o + k < j
      BY <1>6, <1>8
    <3> QED
      BY <3>1 DEF Clear
  <2>4. Order(r, p1, q2, S)'
    BY <1>1, <1>2, <1>4, <1>6, <1>7, <2>2, <2>3, CarriedOrder
  <2> QED
    BY <2>4
<1> QED
  BY <1>9, <1>10

\* What is left in the buffer is before what is left of b2.
LEMMA NoFirstOrder ==
    ASSUME SortAssumption, NEW r, NEW q1 \in Nat, NEW q2 \in Nat, NEW S,
           Inv(r, q1, q2), Order(r, q1, q2, S), no_first
    PROVE  Order(r, q1 + 1, q2, S)'
<1>1. /\ pc = "next1" /\ n = 1 /\ b1' = next[b1] /\ given' = given /\ list' = list /\ buffer' = buffer
      /\ UNCHANGED <<head, blocks, block1, after, m, i2>> /\ pc' = "flush"
  BY DEF no_first, pass
<1>2. Merging /\ Merging' /\ pc' # "next2" /\ Typed
  BY <1>1 DEF Merging, Inv
<1>3. Known(r, q1, q2)
  BY <1>2, KnownIs
<1>4. /\ q1 # q2 /\ b1 \in Blocks /\ q1 + 1 <= q2
      /\ \A k \in q1 + 1 .. q2 - 1 : k \in Places => Len(given[r[k]]) = 0
  <2>1. q1 + 1 <= q2 /\ \A k \in q1 + 1 .. q2 - 1 : k \in Places => Len(given[r[k]]) = 0
    BY <1>1, <1>3 DEF Known, Cursors
  <2> QED
    BY <1>2, <2>1 DEF Typed
<1>5. q1 + 1 \in Places
  BY <1>1, <1>2, <1>3, <1>4, OnFirst
<1> PICK k \in Nat : k = i2
  BY <1>2 DEF Typed
<1>6. Len(buffer) = k /\ nr(b1) \in Nat
  <2>1. Len(buffer) = k
    BY <1>1 DEF Inv, BufferExact
  <2> QED
    BY <1>2, <1>4, <2>1, Sizes
<1>7. Gone = k /\ Gone' = k /\ Off = nr(b1) /\ Off' = 0
  BY <1>1 DEF Gone, Off
<1> PICK p1 \in Nat : p1 = q1 + 1
  OBVIOUS
<1> PICK off \in Int : off = Off
  BY <1>6, <1>7
<1>8. p1 # q2 => Len(list[r[p1]]) = 0
  <2> SUFFICES ASSUME p1 # q2 PROVE Len(list[r[p1]]) = 0
    OBVIOUS
  <2>1. p1 \in q1 + 1 .. q2 - 1
    BY <1>4
  <2> QED
    BY <1>3, <1>4, <1>5, <2>1 DEF Known, nr
<1>9. Clear(r, p1, q2, k, 0 + k)
  BY <1>8 DEF Clear
<1>10. Order(r, p1, q2, S)'
  BY <1>1, <1>2, <1>4, <1>6, <1>7, <1>9, CarriedOrder
<1> QED
  BY <1>10

\* And so it is when an empty block before it is passed.
LEMMA FlushOrder ==
    ASSUME SortAssumption, NEW r, NEW q1 \in Nat, NEW q2 \in Nat, NEW S,
           Inv(r, q1, q2), Order(r, q1, q2, S), flush
    PROVE  Order(r, q1 + 1, q2, S)'
<1>1. /\ pc = "flush" /\ b1 # b2 /\ b1' = next[b1] /\ given' = given
      /\ list' = FLUSH_TO(b1, buffer) /\ buffer' = Flushed(b1, buffer)
      /\ UNCHANGED <<head, blocks, block1, after, m, i2, pc>>
  BY DEF flush, pass
<1>2. Merging /\ Merging' /\ pc' # "next2" /\ Typed
  BY <1>1 DEF Merging, Inv
<1>3. Known(r, q1, q2)
  BY <1>2, KnownIs
<1>4. /\ q1 # q2 /\ b1 \in Blocks /\ q1 <= q2
      /\ \A k \in q1 .. q2 - 1 : k \in Places => Len(given[r[k]]) = 0
  <2>1. n = 0 /\ b1 = r[q1] /\ b2 = r[q2] /\ q1 + n <= q2
        /\ \A k \in q1 + n .. q2 - 1 : k \in Places => Len(given[r[k]]) = 0
    BY <1>1, <1>3 DEF Known, Cursors
  <2>2. q1 + n = q1
    BY <2>1
  <2> QED
    BY <1>1, <1>2, <2>1, <2>2 DEF Typed
<1>5. q1 + 1 \in Places /\ q1 + 1 <= q2
  BY <1>1, <1>2, <1>3, <1>4, OnFirst
<1> PICK k \in Nat : k = i2
  BY <1>2 DEF Typed
<1>6. Len(buffer) = k /\ nr(b1) = 0
  BY <1>1 DEF Inv, BufferExact
<1>7. Gone = k /\ Gone' = k /\ Off = 0 /\ Off' = 0
  BY <1>1 DEF Gone, Off
<1>8. list' = list /\ buffer' = buffer
  <2>1. list \in [Blocks -> Seq(Elements)] /\ buffer \in Seq(Elements)
    BY <1>2 DEF Typed, ListOK
  <2>2. list[b1] \in Seq(Elements) /\ Len(list[b1]) = 0
    BY <1>4, <1>6, <2>1 DEF nr
  <2>3. list[b1] = <<>>
    BY <2>2
  <2>4. SubSeq(buffer, 1, 0) = <<>> /\ SubSeq(buffer, 0 + 1, Len(buffer)) = buffer
    BY <2>1
  <2> QED
    BY <1>1, <1>6, <2>1, <2>3, <2>4 DEF FLUSH_TO, Flushed
<1> PICK p1 \in Nat : p1 = q1 + 1
  OBVIOUS
<1>9. p1 # q2 => Len(list[r[p1]]) = 0
  <2> SUFFICES ASSUME p1 # q2 PROVE Len(list[r[p1]]) = 0
    OBVIOUS
  <2>1. p1 \in q1 .. q2 - 1
    BY <1>5
  <2> QED
    BY <1>3, <1>4, <1>5, <2>1 DEF Known, nr
<1>10. Clear(r, p1, q2, k, 0 + k)
  BY <1>9 DEF Clear
<1>11. Order(r, p1, q2, S)'
  BY <1>1, <1>2, <1>4, <1>6, <1>7, <1>8, <1>10, CarriedOrder
<1> QED
  BY <1>11

\* A step that changes nothing.
LEMMA SameOrder ==
    ASSUME NEW r, NEW q1, NEW q2, NEW S, Order(r, q1, q2, S), UNCHANGED vars
    PROVE  Order(r, q1, q2, S)'
<1>1. UNCHANGED <<given, list, next, prev, pc, head, plist, blocks, block1, after, b1, n, i1, b2, m, i2,
                  buffer, newhead>>
  BY DEF vars, links, pass
<1>2. Number' = Number /\ Places' = Places /\ Blocks' = Blocks /\ Slots' = Slots
  BY <1>1 DEF Number, Places, Blocks, Slots
<1>3. \A C, T, U, V : Arranged(C, T, U, V) => Arranged(C, T, U, V)'
  BY <1>1, ArrangedNext
<1>4. \A l, buf, off, gone : Content(l, r, buf, off, gone, q1, q2)' = Content(l, r, buf, off, gone, q1, q2)
  BY <1>1, <1>2 DEF Content, Buffered
<1>5. \A l : Listed(l, r)' = Listed(l, r)
  BY <1>1, <1>2 DEF Listed, Content, Buffered
<1>6. \A e : Marks(r, q1, e, S) => Marks(r, q1, e, S)'
  BY <1>1, <1>2 DEF Marks, Spaced
<1>7. Off' = Off /\ Gone' = Gone /\ End(q2)' = End(q2) /\ Merging' = Merging
  BY <1>1 DEF Off, Gone, End, Merging, nr
<1>8. pc = "fragments" =>
          /\ block1 = head /\ blocks = 1
          /\ \A k \in Places : r[k] = k
          /\ \A b \in Blocks : list[b] = IF b < b1 THEN array_sort(given[b]) ELSE given[b]
  BY DEF Order
<1>9. (pc = "fragments" =>
          /\ block1 = head /\ blocks = 1
          /\ \A k \in Places : r[k] = k
          /\ \A b \in Blocks : list[b] = IF b < b1 THEN array_sort(given[b]) ELSE given[b])'
  BY <1>1, <1>2, <1>8
<1>10. (pc = "pair" =>
          /\ \E p \in Places : r[p] = block1 /\ Spaced(S, p, blocks)
          /\ Arranged(Listed(list, r), S, {}, {}))'
  BY <1>1, <1>2, <1>3, <1>5 DEF Order, Spaced
<1>11. (pc = "done" => plist = head /\ Arranged(Listed(list, r), {}, {}, {}))'
  BY <1>1, <1>3, <1>5 DEF Order
<1>12. (Merging =>
          /\ Marks(r, q1, End(q2), S)
          /\ LET C == Content(list, r, buffer, Off, Gone, q1, q2)
             IN  Arranged(C, S, Rest(C, q1, Off + Len(buffer), q2), Second(C, q2, End(q2))))'
  BY <1>1, <1>3, <1>4, <1>6, <1>7 DEF Order
<1> QED
  BY <1>9, <1>10, <1>11, <1>12 DEF Order

\* When nothing is gone from it the place of the second sequence does not matter.
LEMMA NoneGone ==
    ASSUME NEW l, NEW r, NEW buf, NEW off, NEW q1, NEW q2, NEW p2
    PROVE  Content(l, r, buf, off, 0, q1, q2) = Content(l, r, buf, off, 0, q1, p2)
<1>1. Content(l, r, buf, off, 0, q1, q2) =
        {x \in Slots : \/ Buffered(x, buf, off, q1) /\ x[3] = buf[x[2] - off]
                       \/ /\ ~Buffered(x, buf, off, q1)
                          /\ x[2] \in 1 .. Len(l[r[x[1]]]) /\ x[3] = l[r[x[1]]][x[2]]}
  BY DEF Content
<1>2. Content(l, r, buf, off, 0, q1, p2) =
        {x \in Slots : \/ Buffered(x, buf, off, q1) /\ x[3] = buf[x[2] - off]
                       \/ /\ ~Buffered(x, buf, off, q1)
                          /\ x[2] \in 1 .. Len(l[r[x[1]]]) /\ x[3] = l[r[x[1]]][x[2]]}
  BY DEF Content
<1> QED
  BY <1>1, <1>2

\* The next block of the second sequence, or an empty one that is passed.
LEMMA NextSecondOrder ==
    ASSUME SortAssumption, NEW r, NEW q1 \in Nat, NEW q2 \in Nat, NEW S,
           Inv(r, q1, q2), Order(r, q1, q2, S), next_second
    PROVE  (nr(b2) = 0 => Order(r, q1, q2 + 1, S)') /\ (nr(b2) # 0 => Order(r, q1, q2, S)')
<1>1. /\ pc = "next2" /\ m > 1 /\ m' = m - 1 /\ given' = given /\ list' = list /\ buffer' = buffer
      /\ UNCHANGED <<head, blocks, block1, after>>
      /\ IF nr(b2) = 0 THEN UNCHANGED pc ELSE pc' = "merge" /\ i2' = 0
  BY DEF next_second, pass
<1>2. Merging /\ Merging' /\ Typed /\ given \in Lists /\ m \in Nat
  BY <1>1 DEF Merging, Inv, Typed
<1>3. Known(r, q1, q2)
  BY <1>2, KnownIs
<1>4. Off = 0 /\ Gone = 0 /\ Off' = 0 /\ Gone' = 0
  BY <1>1 DEF Off, Gone
<1>5. PICK C, e : /\ C = Content(list, r, buffer, 0, 0, q1, q2) /\ e = End(q2)
                  /\ Arranged(C, S, Rest(C, q1, 0 + Len(buffer), q2), Second(C, q2, e))
                  /\ e \in Nat /\ q1 < e /\ e <= Number + 1 /\ q2 <= e /\ Marks(r, q1, e, S)
  BY <1>2, <1>4, OrderIs
<1> PICK len \in Nat : len = Len(buffer)
  BY <1>2 DEF Typed
<1>6. /\ q1 < q2 /\ e = q2 + m - 1 /\ Number \in Nat /\ q1 \in Places
      /\ b2 = r[q2] /\ b2 \in Blocks
  <2>1. m # 1
    BY <1>1, <1>2
  <2> QED
    BY <1>1, <1>2, <1>3, <1>5, <2>1, EndIs DEF End, Known, Cursors, Typed
<1>7. CASE nr(b2) # 0
  <2>1. pc' = "merge"
    BY <1>1, <1>7
  <2>2. e = End(q2)'
    BY <1>1, <1>2, <1>6, <2>1 DEF End
  <2>3. C = Content(list', r, buffer', 0, 0, q1, q2) /\ 0 + len = 0 + Len(buffer') /\ q1 <= q1
    BY <1>1, <1>5
  <2>4. Arranged(C, S, Rest(C, q1, 0 + len, q2), Second(C, q2, e))
    BY <1>5
  <2>5. Order(r, q1, q2, S)'
    BY <1>1, <1>2, <1>4, <1>5, <2>2, <2>3, <2>4, OrderNext
  <2> QED
    BY <1>7, <2>5
<1>8. CASE nr(b2) = 0
  <2>1. pc' = "next2"
    BY <1>1, <1>8
  <2> PICK p2 \in Nat : p2 = q2 + 1
    OBVIOUS
  <2>2. e = End(p2)'
    BY <1>1, <1>2, <1>6, <2>1 DEF End
  <2>3. C = Content(list', r, buffer', 0, 0, q1, p2) /\ 0 + len = 0 + Len(buffer') /\ q1 <= q1
    BY <1>1, <1>5, NoneGone
  <2>4. ASSUME NEW x \in C PROVE x[1] \in Nat /\ x[1] # q2
    <3>1. Slot(x) /\ (x[1] = q1 \/ Kept(x, list, r, 0, q2))
      BY <1>5, <1>6, ContentIs DEF InBuffer
    <3>2. x[1] = q2 => x[2] \in 1 .. 0
      BY <1>6, <1>8, <3>1 DEF Kept, nr
    <3> QED
      BY <3>1, <3>2 DEF Slot
  <2>5. Arranged(C, S, Rest(C, q1, 0 + len, p2), Second(C, p2, e))
    <3>1. \A x \in C : (x[1] < q2 => x[1] < p2) /\ (q2 <= x[1] => p2 <= x[1])
      BY <2>4
    <3>2. \A x \in C : /\ x \in Rest(C, q1, 0 + len, q2) => x \in Rest(C, q1, 0 + len, p2)
                       /\ x \in Second(C, q2, e) => x \in Second(C, p2, e)
      BY <3>1 DEF Rest, Second
    <3>3. Arranged(C, S, Rest(C, q1, 0 + len, q2), Second(C, q2, e))
      BY <1>5
    <3> QED
      BY <3>2, <3>3, Released
  <2>6. Order(r, q1, p2, S)'
    BY <1>1, <1>2, <1>4, <1>5, <2>2, <2>3, <2>5, OrderNext
  <2> QED
    BY <1>8, <2>6
<1> QED
  BY <1>7, <1>8

\* DUMP_TO puts the buffer over the start of the block.
LEMMA DumpedIs ==
    ASSUME ListOK(list), NEW b \in Blocks, NEW s \in Seq(Elements), NEW len \in Nat, len = Len(s), len <= nr(b),
           NEW d, d = DUMP_TO(b, s)
    PROVE  /\ \A c \in Blocks : c # b => d[c] = list[c]
           /\ Len(d[b]) = nr(b)
           /\ \A k \in 1 .. nr(b) : d[b][k] = IF k <= len THEN s[k] ELSE list[b][k]
<1> PICK u : u = list[b]
  OBVIOUS
<1> DEFINE v == SubSeq(u, len + 1, Len(u))
<1>1. u \in Seq(Elements) /\ nr(b) = Len(u) /\ len <= Len(u)
  BY DEF ListOK, nr
<1> PICK z \in Nat : z = Len(u)
  BY <1>1
<1>2. v \in Seq(Elements) /\ Len(v) = z - len
  BY <1>1
<1>3. \A k \in 1 .. z - len : v[k] = u[len + k]
  <2> TAKE k \in 1 .. z - len
  <2>1. v[k] = u[len + 1 + k - 1] /\ len + 1 + k - 1 = len + k
    BY <1>1
  <2> QED
    BY <2>1
<1> HIDE DEF v
<1>4. s \o v \in Seq(Elements) /\ Len(s \o v) = z
      /\ \A i \in 1 .. z : (s \o v)[i] = IF i <= len THEN s[i] ELSE v[i - len]
  <2>1. s \o v \in Seq(Elements) /\ Len(s \o v) = Len(s) + Len(v)
        /\ \A i \in 1 .. Len(s) + Len(v) : (s \o v)[i] = IF i <= Len(s) THEN s[i] ELSE v[i - Len(s)]
    BY <1>2, Concatenated
  <2>2. Len(s) + Len(v) = z
    BY <1>1, <1>2
  <2> QED
    BY <2>1, <2>2
<1>5. d = [list EXCEPT ![b] = s \o v] /\ list \in [Blocks -> Seq(Elements)]
  BY DEF DUMP_TO, v, ListOK
<1>6. ASSUME NEW k \in 1 .. z PROVE (s \o v)[k] = IF k <= len THEN s[k] ELSE u[k]
  <2>1. CASE k <= len
    BY <1>4, <2>1
  <2>2. CASE ~(k <= len)
    <3>1. k - len \in 1 .. z - len /\ len + (k - len) = k
      BY <1>1, <2>2
    <3>2. v[k - len] = u[k]
      BY <1>3, <3>1
    <3> QED
      BY <1>4, <2>2, <3>2
  <2> QED
    BY <2>1, <2>2
<1> DEFINE w == s \o v
<1> HIDE DEF w
<1>7. d[b] = w /\ Len(w) = z /\ \A k \in 1 .. z : w[k] = IF k <= len THEN s[k] ELSE u[k]
  BY <1>4, <1>5, <1>6 DEF w
<1> QED
  BY <1>1, <1>5, <1>7

\* So the list holds then what it held with the buffer there.
LEMMA Dumped ==
    ASSUME Number \in Nat, ListOK(list), NEW r, Listing(r), NEW q1 \in Places, q1 \in Nat, NEW q2 \in Nat,
           NEW s \in Seq(Elements), NEW len \in Nat, len = Len(s), len <= nr(r[q1]),
           NEW gone, gone = 0 \/ (q1 = q2 /\ gone = len), NEW C, C = Content(list, r, s, 0, gone, q1, q2),
           NEW d, d = DUMP_TO(r[q1], s)
    PROVE  C = Listed(d, r)
<1> PICK b \in Blocks : b = r[q1]
  BY DEF Listing
<1>1. /\ \A c \in Blocks : c # b => d[c] = list[c]
      /\ Len(d[b]) = nr(b)
      /\ \A k \in 1 .. nr(b) : d[b][k] = IF k <= len THEN s[k] ELSE list[b][k]
  BY DumpedIs
<1>2. ASSUME NEW x
      PROVE  x \in Listed(d, r) <=> Slot(x) /\ x[2] \in 1 .. Len(d[r[x[1]]]) /\ x[3] = d[r[x[1]]][x[2]]
  <2>1. Slot(x) <=> x \in Slots
    BY DEF Slot, Slots, Places
  <2> QED
    BY <2>1 DEF Listed, Content, Buffered
<1>3. ASSUME NEW x
      PROVE  x \in C <=> /\ Slot(x)
                         /\ IF InBuffer(x, q1, 0, len) THEN x[3] = s[x[2] - 0] ELSE Kept(x, list, r, gone, q2)
  BY ContentIs
<1>4. ASSUME NEW x, Slot(x)
      PROVE  (x[2] \in 1 .. Len(d[r[x[1]]]) /\ x[3] = d[r[x[1]]][x[2]])
               <=> IF InBuffer(x, q1, 0, len) THEN x[3] = s[x[2] - 0] ELSE Kept(x, list, r, gone, q2)
  <2> PICK p, k \in Int : p = x[1] /\ k = x[2] /\ p \in Places
    BY <1>4 DEF Slot
  <2>1. CASE p = q1
    <3> PICK z : z = nr(b)
      OBVIOUS
    <3>1. z \in Nat /\ len <= z /\ Len(list[b]) = z
      BY <2>1 DEF ListOK, nr
    <3>2. InBuffer(x, q1, 0, len) <=> 1 <= k /\ k <= len
      BY <2>1 DEF InBuffer
    <3>3. CASE 1 <= k /\ k <= len
      <4>1. k \in 1 .. z /\ k - 0 = k
        BY <3>1, <3>3
      <4>2. d[r[p]] = d[b] /\ Len(d[b]) = z /\ d[b][k] = s[k]
        BY <1>1, <2>1, <3>3, <4>1
      <4> QED
        BY <3>2, <3>3, <4>1, <4>2
    <3>4. CASE ~(1 <= k /\ k <= len)
      <4>1. Kept(x, list, r, gone, q2) <=> k \in 1 .. z /\ (q1 = q2 => gone < k) /\ x[3] = list[b][k]
        BY <2>1, <3>1 DEF Kept
      <4>2. k \in 1 .. z => 0 < k /\ len < k
        BY <3>1, <3>4
      <4>3. d[r[p]] = d[b] /\ Len(d[b]) = z /\ (k \in 1 .. z => d[b][k] = list[b][k])
        BY <1>1, <2>1, <3>4, <4>2
      <4> QED
        BY <3>2, <3>4, <4>1, <4>2, <4>3
    <3> QED
      BY <3>3, <3>4
  <2>2. CASE p # q1
    <3>1. r[p] # b /\ r[p] \in Blocks /\ ~InBuffer(x, q1, 0, len)
      BY <2>2 DEF Listing, InBuffer
    <3>2. d[r[p]] = list[r[p]]
      BY <1>1, <3>1
    <3>3. k \in 1 .. Len(list[r[p]]) => 0 < k
      OBVIOUS
    <3>4. Kept(x, list, r, gone, q2) <=> k \in 1 .. Len(list[r[p]]) /\ x[3] = list[r[p]][k]
      BY <2>2, <3>3 DEF Kept
    <3> QED
      BY <3>1, <3>2, <3>4
  <2> QED
    BY <2>1, <2>2
<1>5. \A x : x \in C <=> x \in Listed(d, r)
  BY <1>2, <1>3, <1>4
<1> QED
  <2> PICK D : D = Listed(d, r)
    OBVIOUS
  <2>1. C \subseteq D /\ D \subseteq C
    BY <1>5
  <2> QED
    BY <2>1

\* When the merge is over nothing needs to change places in what it has merged.
LEMMA DumpOrder ==
    ASSUME SortAssumption, NEW r, NEW q1 \in Nat, NEW q2 \in Nat, NEW S,
           Inv(r, q1, q2), Order(r, q1, q2, S), dump \/ no_second
    PROVE  Order(r, q1, q2, S)'
<1>1. Merging /\ Merged /\ given' = given /\ pc \in {"flush", "next2"}
  BY DEF Merging, dump, no_second
<1>2. Typed /\ given \in Lists /\ Known(r, q1, q2)
  BY <1>1, KnownIs DEF Inv
<1> PICK gone : gone = Gone
  OBVIOUS
<1>3. Off = 0
  BY <1>1 DEF Off
<1>4. PICK C, e : /\ C = Content(list, r, buffer, 0, gone, q1, q2) /\ e = End(q2)
                  /\ Arranged(C, S, Rest(C, q1, 0 + Len(buffer), q2), Second(C, q2, e))
                  /\ e \in Nat /\ q1 < e /\ e <= Number + 1 /\ q2 <= e /\ Marks(r, q1, e, S)
  BY <1>1, <1>3, OrderIs
<1>5. /\ Number \in Nat /\ q1 \in Places /\ b1 = r[q1] /\ b1 \in Blocks /\ b2 \in Blocks /\ Listing(r) /\ Ring(r) /\ First = r[1]
      /\ buffer \in Seq(Elements) /\ ListOK(list) /\ i1 \in Nat /\ i2 \in Nat /\ (pc # "next2" => q2 \in Places /\ b2 = r[q2])
  BY <1>1, <1>2, EndIs DEF Known, Cursors, Typed, Ring
<1> PICK len \in Nat : len = Len(buffer)
  BY <1>5
<1>6. /\ list' = DUMP_TO(r[q1], buffer) /\ len <= nr(r[q1]) /\ (gone = 0 \/ (q1 = q2 /\ gone = len))
      /\ \A x, y \in C : ~(x \in Rest(C, q1, 0 + Len(buffer), q2) /\ y \in Second(C, q2, e))
  <2>1. CASE dump
    <3>1. pc = "flush" /\ b1 = b2 /\ list' = DUMP_TO(b2, buffer)
      BY <2>1 DEF dump
    <3>2. q1 = q2
      BY <1>5, <3>1 DEF Listing
    <3>3. i2 < nr(b2) /\ len = i2 /\ gone = len /\ nr(b2) \in Nat
      BY <1>2, <1>5, <3>1, Sizes DEF Inv, BufferExact, Gone
    <3>4. len <= nr(b2)
      BY <3>3
    <3>5. ASSUME NEW x \in C PROVE x \notin Rest(C, q1, 0 + Len(buffer), q2)
      <4>1. x[1] \in Nat
        BY <1>4, <1>5 DEF Arranged, Slots, Places
      <4> QED
        BY <3>2, <4>1 DEF Rest
    <3> QED
      BY <1>5, <3>1, <3>2, <3>3, <3>4, <3>5
  <2>2. CASE no_second
    <3>1. pc = "next2" /\ m = 1 /\ list' = DUMP_TO(b1, buffer)
      BY <2>2 DEF no_second
    <3>2. i1 < nr(b1) /\ len = i1 /\ gone = 0 /\ nr(b1) \in Nat
      BY <1>2, <1>5, <3>1, Sizes DEF Inv, BufferExact, Gone
    <3>3. len <= nr(b1)
      BY <3>2
    <3>4. e = q2
      BY <1>4, <3>1 DEF End
    <3>5. ASSUME NEW y \in C PROVE y \notin Second(C, q2, e)
      <4>1. y[1] \in Nat
        BY <1>4, <1>5 DEF Arranged, Slots, Places
      <4> QED
        BY <3>4, <4>1 DEF Second
    <3> QED
      BY <1>5, <3>1, <3>2, <3>3, <3>5
  <2> QED
    BY <2>1, <2>2
<1>7. C = Listed(list', r)
  BY <1>4, <1>5, <1>6, Dumped
<1>8. Arranged(C, S, {}, {})
  BY <1>4, <1>6, Released
<1>9. Order(r, q1, q2, S)'
  BY <1>1, <1>2, <1>4, <1>5, <1>7, <1>8, OrderReturn
<1> QED
  BY <1>9

\* The position after the end of the buffer.
LEMMA EndOf ==
    ASSUME NEW k \in Int, NEW off \in Int, NEW len \in Nat, NEW len1 \in Nat, len1 = len + 1,
           NEW cut \in Nat, cut = off + len, NEW z \in Nat, cut < z, k <= off + len1, ~(k <= off + len)
    PROVE  k = cut + 1 /\ k - off = len1 /\ len1 \in 1 .. len1 /\ k \in 1 .. z
OBVIOUS

\* e is what the block at q has next.
NextKept(l, r, q, cut, z, e) == z = Len(l[r[q]]) /\ cut < z /\ e = l[r[q]][cut + 1]

\* s is buf with e after it.
Extends(s, buf, e, len, len1) == /\ len = Len(buf) /\ len1 = Len(s)
                                 /\ \A k \in 1 .. len1 : s[k] = IF k = len1 THEN e ELSE buf[k]

\* What is kept next is taken to the end of the buffer: the list holds what it held.
LEMMA Extended ==
    ASSUME Number \in Nat, NEW l, NEW r, NEW q1 \in Nat, NEW q2 \in Nat, q1 # q2, NEW gone, NEW off \in Int,
           NEW len \in Nat, NEW len1 \in Nat, len1 = len + 1, NEW cut \in Nat, cut = off + len,
           NEW z \in Nat, NEW e, NextKept(l, r, q1, cut, z, e), NEW buf, NEW s, Extends(s, buf, e, len, len1)
    PROVE  Content(l, r, s, off, gone, q1, q2) = Content(l, r, buf, off, gone, q1, q2)
<1>1. Len(s) = len1 /\ Len(buf) = len /\ \A k \in 1 .. len1 : s[k] = IF k = len1 THEN e ELSE buf[k]
  BY DEF Extends
<1> PICK C : C = Content(l, r, buf, off, gone, q1, q2)
  OBVIOUS
<1> PICK D : D = Content(l, r, s, off, gone, q1, q2)
  OBVIOUS
<1>6. ASSUME NEW x
      PROVE  x \in C <=> /\ Slot(x)
                         /\ IF InBuffer(x, q1, off, len) THEN x[3] = buf[x[2] - off] ELSE Kept(x, l, r, gone, q2)
  BY <1>1, ContentIs
<1>7. ASSUME NEW x
      PROVE  x \in D <=> /\ Slot(x)
                         /\ IF InBuffer(x, q1, off, len1) THEN x[3] = s[x[2] - off] ELSE Kept(x, l, r, gone, q2)
  BY <1>1, ContentIs
<1>2. ASSUME NEW x
      PROVE  /\ x \in C <=> /\ Slot(x)
                            /\ IF InBuffer(x, q1, off, len) THEN x[3] = buf[x[2] - off] ELSE Kept(x, l, r, gone, q2)
             /\ x \in D <=> /\ Slot(x)
                            /\ IF InBuffer(x, q1, off, len1) THEN x[3] = s[x[2] - off] ELSE Kept(x, l, r, gone, q2)
  BY <1>6, <1>7
<1>3. ASSUME NEW x, Slot(x) PROVE x \in C <=> x \in D
  <2> PICK k \in Int : k = x[2]
    BY <1>3 DEF Slot
  <2>1. CASE InBuffer(x, q1, off, len)
    <3>1. x[1] = q1 /\ off + 1 <= k /\ k <= off + len
      BY <2>1 DEF InBuffer
    <3>2. k <= off + len1 /\ k - off \in 1 .. len1 /\ k - off # len1
      BY <3>1
    <3>3. InBuffer(x, q1, off, len1) /\ s[k - off] = buf[k - off]
      BY <1>1, <3>1, <3>2 DEF InBuffer
    <3> QED
      BY <1>2, <1>3, <2>1, <3>3
  <2>2. CASE ~InBuffer(x, q1, off, len1)
    <3>1. ~InBuffer(x, q1, off, len)
      <4>1. k <= off + len => k <= off + len1
        OBVIOUS
      <4> QED
        BY <2>2, <4>1 DEF InBuffer
    <3> QED
      BY <1>2, <1>3, <2>2, <3>1
  <2>3. CASE InBuffer(x, q1, off, len1) /\ ~InBuffer(x, q1, off, len)
    <3>1. x[1] = q1 /\ off + 1 <= k /\ k <= off + len1 /\ ~(k <= off + len)
      BY <2>3 DEF InBuffer
    <3>5. z = Len(l[r[q1]]) /\ cut < z /\ e = l[r[q1]][cut + 1]
      BY DEF NextKept
    <3>2. k = cut + 1 /\ k - off = len1 /\ len1 \in 1 .. len1 /\ k \in 1 .. z
      BY <3>1, <3>5, EndOf
    <3>3. s[k - off] = e
      BY <1>1, <3>2
    <3>4. Kept(x, l, r, gone, q2) <=> x[3] = e
      BY <3>1, <3>2, <3>5 DEF Kept
    <3> QED
      BY <1>2, <1>3, <2>3, <3>3, <3>4
  <2> QED
    BY <2>1, <2>2, <2>3
<1>4. \A x : x \in C <=> x \in D
  BY <1>2, <1>3
<1>5. C \subseteq D /\ D \subseteq C
  BY <1>4
<1> QED
  BY <1>5

\* FLUSH_TO fills the block with the start of the buffer.
Flush(d, buf, b, s, z) ==
    /\ \A c \in Blocks : c # b => d[c] = list[c]
    /\ Len(d[b]) = z /\ \A k \in 1 .. z : d[b][k] = s[k]
    /\ \A k \in 1 .. Len(buf) : buf[k] = s[z + k]

\* What FLUSH_TO leaves in the block and what stays in the buffer.
LEMMA FlushedIs ==
    ASSUME ListOK(list), NEW b \in Blocks, NEW s \in Seq(Elements), NEW z \in Nat, z = nr(b), z <= Len(s)
    PROVE  Flush(FLUSH_TO(b, s), Flushed(b, s), b, s, z) /\ Len(Flushed(b, s)) = Len(s) - z
<1> DEFINE u == SubSeq(s, 1, z)
           v == SubSeq(s, z + 1, Len(s))
<1> PICK len \in Nat : len = Len(s)
  OBVIOUS
<1>1. Len(u) = z /\ Len(v) = len - z
  OBVIOUS
<1>2. \A k \in 1 .. z : u[k] = s[k]
  <2> TAKE k \in 1 .. z
  <2>1. u[k] = s[1 + k - 1] /\ 1 + k - 1 = k
    OBVIOUS
  <2> QED
    BY <2>1
<1>3. \A k \in 1 .. len - z : v[k] = s[z + k]
  <2> TAKE k \in 1 .. len - z
  <2>1. v[k] = s[z + 1 + k - 1] /\ z + 1 + k - 1 = z + k
    OBVIOUS
  <2> QED
    BY <2>1
<1>4. FLUSH_TO(b, s) = [list EXCEPT ![b] = u] /\ Flushed(b, s) = v /\ list \in [Blocks -> Seq(Elements)]
  BY DEF FLUSH_TO, Flushed, ListOK
<1> HIDE DEF u, v
<1> QED
  BY <1>1, <1>2, <1>3, <1>4 DEF Flush

\* In "merge": what the list holds, and the next element of each sequence.
Heads(r, q1, q2, S, C, e, k1, k2, x, w) ==
    /\ k1 = i1 /\ k2 = i2 /\ C = Content(list, r, buffer, 0 - k2, k2, q1, q2) /\ e = End(q2)
    /\ Arranged(C, S, Rest(C, q1, k1, q2), Second(C, q2, e))
    /\ q1 < q2 /\ q2 < e /\ e <= Number + 1 /\ Marks(r, q1, e, S) /\ Outside(S, q1, e)
    /\ x \in C /\ x[1] = q1 /\ x[2] = k1 + 1 /\ x[3] = list[b1][k1 + 1]
    /\ w \in C /\ w[1] = q2 /\ w[2] = k2 + 1 /\ w[3] = list[b2][k2 + 1] /\ Under(w, q2, e, C)

\* In "merge" both sequences have a next element, and that of the second is foremost.
LEMMA HeadsAre ==
    ASSUME SortAssumption, NEW r, NEW q1 \in Nat, NEW q2 \in Nat, NEW S,
           Inv(r, q1, q2), Order(r, q1, q2, S), pc = "merge"
    PROVE  \E e, k1, k2 \in Nat : \E C, x, w : Heads(r, q1, q2, S, C, e, k1, k2, x, w)
<1>1. Merging /\ Typed /\ given \in Lists
  BY DEF Merging, Inv
<1>2. Known(r, q1, q2)
  BY <1>1, KnownIs
<1> PICK k1, k2 \in Nat : k1 = i1 /\ k2 = i2
  BY <1>1 DEF Typed
<1> PICK off \in Int : off = 0 - k2
  OBVIOUS
<1>3. Off = off /\ Gone = k2
  BY DEF Off, Gone
<1>4. PICK C, e : /\ C = Content(list, r, buffer, off, k2, q1, q2) /\ e = End(q2)
                  /\ Arranged(C, S, Rest(C, q1, off + Len(buffer), q2), Second(C, q2, e))
                  /\ e \in Nat /\ q1 < e /\ e <= Number + 1 /\ q2 <= e /\ Marks(r, q1, e, S)
  BY <1>1, <1>3, OrderIs
<1>5. k1 < nr(b1) /\ k2 < nr(b2) /\ Len(buffer) = k1 + k2
  BY DEF Inv, BufferExact
<1>6. off + Len(buffer) = k1
  <2>1. off + (k1 + k2) = k1
    OBVIOUS
  <2> QED
    BY <1>5, <2>1
<1>7. /\ q1 < q2 /\ q2 < e /\ b1 = r[q1] /\ b2 = r[q2] /\ q1 \in Places /\ q2 \in Places /\ Number \in Nat
      /\ b1 \in Blocks /\ b2 \in Blocks
  BY <1>1, <1>2, <1>4, EndIs DEF Known, Cursors, Typed
<1>8. /\ list[b1] \in Seq(Elements) /\ nr(b1) = Len(list[b1]) /\ nr(b1) \in Nat
      /\ list[b2] \in Seq(Elements) /\ nr(b2) = Len(list[b2]) /\ nr(b2) \in Nat
  BY <1>1, <1>7, Sizes
<1>9. k1 + 1 \in 1 .. Len(list[b1]) /\ k2 + 1 \in 1 .. Len(list[b2])
  BY <1>5, <1>8
<1>10. list[b1][k1 + 1] \in Elements /\ list[b2][k2 + 1] \in Elements
  BY <1>8, <1>9
<1>11. Outside(S, q1, e)
  <2>1. S \subseteq 2 .. Number
    BY <1>4 DEF Marks, Spaced
  <2> QED
    BY <1>4, <2>1 DEF Marks, Outside
<1> PICK len \in Nat : len = Len(buffer)
  BY <1>5
<1> PICK x : x = <<q1, k1 + 1, list[b1][k1 + 1]>>
  OBVIOUS
<1> PICK w : w = <<q2, k2 + 1, list[b2][k2 + 1]>>
  OBVIOUS
<1>12. /\ x[1] = q1 /\ x[2] = k1 + 1 /\ x[3] = list[b1][k1 + 1]
       /\ w[1] = q2 /\ w[2] = k2 + 1 /\ w[3] = list[b2][k2 + 1]
  OBVIOUS
<1>13. Slot(x) /\ Slot(w)
  BY <1>7, <1>10 DEF Slot, Slots
<1>14. ~InBuffer(x, q1, off, len) /\ ~InBuffer(w, q1, off, len)
  <2>1. ~(k1 + 1 <= k1)
    OBVIOUS
  <2> QED
    BY <1>6, <1>7, <1>12, <2>1 DEF InBuffer
<1>15. Kept(x, list, r, k2, q2) /\ Kept(w, list, r, k2, q2)
  BY <1>7, <1>9, <1>12 DEF Kept
<1>16. x \in C /\ w \in C
  BY <1>4, <1>7, <1>13, <1>14, <1>15, ContentIs
<1>17. Under(w, q2, e, C)
  <2>6. \A y \in C : y[1] = q2 => w[2] <= y[2]
    <3> TAKE y \in C
    <3>1. Slot(y) /\ (y[1] = q1 \/ Kept(y, list, r, k2, q2))
      <4>1. /\ Slot(y)
            /\ IF InBuffer(y, q1, off, len) THEN y[3] = buffer[y[2] - off] ELSE Kept(y, list, r, k2, q2)
        BY <1>4, <1>7, ContentIs
      <4> QED
        BY <4>1 DEF InBuffer
    <3> SUFFICES ASSUME y[1] = q2 PROVE k2 + 1 <= y[2]
      BY <1>12
    <3>2. k2 < y[2] /\ y[2] \in Int
      BY <1>7, <3>1 DEF Kept, Slot
    <3> QED
      BY <3>2
  <2>1. Foremost(w, C, q2)
    BY <1>12, <1>16, <2>6 DEF Foremost
  <2> PICK U : U = Rest(C, q1, k1, q2)
    OBVIOUS
  <2>2. Arranged(C, S, U, Second(C, q2, e))
    BY <1>4, <1>6
  <2>3. w \notin U
    BY <1>7, <1>12 DEF Rest
  <2>4. q1 <= q2
    BY <1>7
  <2>5. C = Content(list, r, buffer, off, k2, q1, q2) /\ e \in Nat
    BY <1>4
  <2> QED
    BY <1>11, <2>1, <2>2, <2>3, <2>4, <2>5, FirstUnder
<1>18. Heads(r, q1, q2, S, C, e, k1, k2, x, w)
  BY <1>4, <1>6, <1>7, <1>11, <1>12, <1>16, <1>17 DEF Heads
<1> QED
  BY <1>4, <1>18

\* The next of the first sequence is in order with all of the second if it has no higher
\* rank than the next of that.
LEMMA Shorter ==
    ASSUME SortAssumption, Number \in Nat, NEW r, NEW q1 \in Nat, NEW q2 \in Nat, NEW S, NEW C, NEW e \in Nat,
           NEW k1 \in Nat, NEW k2 \in Nat, NEW x, NEW w, Heads(r, q1, q2, S, C, e, k1, k2, x, w), FirstIsNext,
           NEW k \in Nat, k = k1 + 1
    PROVE  Arranged(C, S, Rest(C, q1, k, q2), Second(C, q2, e))
<1>1. /\ Arranged(C, S, Rest(C, q1, k1, q2), Second(C, q2, e)) /\ q1 < q2
      /\ x \in C /\ x[1] = q1 /\ x[2] = k1 + 1 /\ x[3] = list[b1][k1 + 1]
      /\ w \in C /\ w[3] = list[b2][k2 + 1] /\ Under(w, q2, e, C) /\ k1 = i1 /\ k2 = i2
      /\ C = Content(list, r, buffer, 0 - k2, k2, q1, q2)
  BY DEF Heads
<1> PICK V : V = Second(C, q2, e)
  OBVIOUS
<1>2. Rank[x[3]] <= Rank[w[3]] /\ Rank[x[3]] \in Nat
  <2>1. x[3] \in Elements
    BY <1>1 DEF Arranged, Slots
  <2> QED
    BY <1>1, <2>1 DEF FirstIsNext, SortAssumption
<1>3. ASSUME NEW y \in V PROVE Precedes(x[3], y[3])
  <2>1. AtMost(w, y)
    BY <1>1 DEF Under
  <2>2. AtMost(x, y)
    BY <1>2, <2>1 DEF AtMost
  <2>3. y \in C /\ q2 <= y[1] /\ y[1] \in Nat
    BY <1>1 DEF Second, Arranged, Slots, Places
  <2>4. Before(x, y)
    BY <1>1, <2>3 DEF Before
  <2> QED
    BY <1>1, <2>2, <2>3, <2>4, UnderSorted
<1>4. ASSUME NEW z \in C, z \in Rest(C, q1, k1, q2) PROVE z \in Rest(C, q1, k, q2) \/ z = x
  <2>1. z[1] < q2 /\ (q1 < z[1] \/ (z[1] = q1 /\ k1 < z[2]))
    BY <1>4 DEF Rest
  <2>2. z[2] \in Int
    BY <1>1 DEF Arranged, Slots
  <2>3. k1 < z[2] => k < z[2] \/ z[2] = k1 + 1
    BY <2>2
  <2>4. z[1] = q1 /\ z[2] = k1 + 1 => z = x
    BY <1>1, Single
  <2> QED
    BY <2>1, <2>3, <2>4 DEF Rest
<1>5. \A z, y \in C : z \in Rest(C, q1, k1, q2) /\ y \in V =>
                        (z \in Rest(C, q1, k, q2) /\ y \in V) \/ Precedes(z[3], y[3])
  BY <1>3, <1>4
<1>6. Arranged(C, S, Rest(C, q1, k1, q2), V)
  BY <1>1
<1>7. Arranged(C, S, Rest(C, q1, k, q2), V)
  BY <1>5, <1>6, Released
<1> QED
  BY <1>7

\* The place q1 has s, from position off on, the others what they have kept.
Run(x, q1, s, off, len) == x[1] = q1 /\ off + 1 <= x[2] /\ x[2] <= off + len /\ x[3] = s[x[2] - off]
Holds(C, l, r, gone, q1, q2, s, off, len) ==
    \A x : x \in C <=> /\ Slot(x)
                       /\ IF x[1] = q1 THEN Run(x, q1, s, off, len) ELSE Kept(x, l, r, gone, q2)

\* When the buffer has all of the block at q1 it has all that is there,
LEMMA FullIs ==
    ASSUME Number \in Nat, NEW l, NEW r, NEW s, NEW off \in Int, NEW gone, NEW q1 \in Nat, NEW q2 \in Nat, q1 # q2,
           NEW len \in Nat, len = Len(s), NEW z \in Nat, z = Len(l[r[q1]]), off <= 0, z <= off + len,
           NEW C, C = Content(l, r, s, off, gone, q1, q2)
    PROVE  Holds(C, l, r, gone, q1, q2, s, off, len)
<1> SUFFICES ASSUME NEW x
             PROVE  x \in C <=> /\ Slot(x)
                                /\ IF x[1] = q1 THEN Run(x, q1, s, off, len) ELSE Kept(x, l, r, gone, q2)
  BY DEF Holds
<1>1. x \in C <=> /\ Slot(x)
                  /\ IF InBuffer(x, q1, off, len) THEN x[3] = s[x[2] - off] ELSE Kept(x, l, r, gone, q2)
  BY ContentIs
<1>2. ASSUME Slot(x), x[1] = q1, Kept(x, l, r, gone, q2) PROVE InBuffer(x, q1, off, len)
  <2>1. x[2] \in 1 .. z
    BY <1>2 DEF Kept
  <2>2. off + 1 <= x[2] /\ x[2] <= off + len
    BY <2>1
  <2> QED
    BY <1>2, <2>2 DEF InBuffer
<1> QED
  BY <1>1, <1>2 DEF InBuffer, Run

\* and so it is when FLUSH_TO has filled the block with the start of it.
LEMMA FlushedFull ==
    ASSUME Number \in Nat, ListOK(list), NEW r, Listing(r), NEW q1 \in Nat, q1 \in Places, NEW q2 \in Nat, q1 # q2,
           NEW s, NEW buf, NEW d, NEW z \in Nat, Flush(d, buf, r[q1], s, z), NEW rest \in Nat, rest = Len(buf),
           NEW gone, NEW len \in Nat, len = z + rest, NEW D, D = Content(d, r, buf, z, gone, q1, q2)
    PROVE  Holds(D, list, r, gone, q1, q2, s, 0, len)
<1> SUFFICES ASSUME NEW x
             PROVE  x \in D <=> /\ Slot(x)
                                /\ IF x[1] = q1 THEN Run(x, q1, s, 0, len) ELSE Kept(x, list, r, gone, q2)
  BY DEF Holds
<1>1. x \in D <=> /\ Slot(x)
                  /\ IF InBuffer(x, q1, z, rest) THEN x[3] = buf[x[2] - z] ELSE Kept(x, d, r, gone, q2)
  BY ContentIs
<1>2. /\ \A c \in Blocks : c # r[q1] => d[c] = list[c]
      /\ Len(d[r[q1]]) = z /\ \A k \in 1 .. z : d[r[q1]][k] = s[k]
      /\ \A k \in 1 .. rest : buf[k] = s[z + k]
  BY DEF Flush
<1>3. ASSUME Slot(x), x[1] # q1 PROVE ~InBuffer(x, q1, z, rest) /\ (Kept(x, d, r, gone, q2) <=> Kept(x, list, r, gone, q2))
  <2>1. r[x[1]] \in Blocks /\ r[x[1]] # r[q1]
    BY <1>3 DEF Slot, Listing
  <2>2. d[r[x[1]]] = list[r[x[1]]]
    BY <1>2, <2>1
  <2> QED
    BY <1>3, <2>2 DEF Kept, InBuffer
<1>4. ASSUME Slot(x), x[1] = q1
      PROVE  (IF InBuffer(x, q1, z, rest) THEN x[3] = buf[x[2] - z] ELSE Kept(x, d, r, gone, q2)) <=> Run(x, q1, s, 0, len)
  <2> PICK k \in Int : k = x[2]
    BY <1>4 DEF Slot
  <2>1. CASE z + 1 <= k /\ k <= z + rest
    <3>1. k - z \in 1 .. rest /\ z + (k - z) = k /\ 0 + 1 <= k /\ k <= 0 + len /\ k - 0 = k
      BY <2>1
    <3>2. buf[k - z] = s[k]
      BY <1>2, <3>1
    <3> QED
      BY <1>4, <2>1, <3>1, <3>2 DEF InBuffer, Run
  <2>2. CASE ~(z + 1 <= k /\ k <= z + rest)
    <3>1. (0 + 1 <= k /\ k <= 0 + len <=> k \in 1 .. z) /\ k - 0 = k
      BY <2>2
    <3>2. Kept(x, d, r, gone, q2) <=> k \in 1 .. z /\ x[3] = s[k]
      BY <1>2, <1>4 DEF Kept
    <3>3. ~InBuffer(x, q1, z, rest)
      BY <2>2 DEF InBuffer
    <3> QED
      BY <1>4, <3>1, <3>2, <3>3 DEF Run
  <2> QED
    BY <2>1, <2>2
<1> QED
  BY <1>1, <1>3, <1>4

\* All that is at q1 may have other positions there.
Attains(off, len, cut) == off \in Int /\ len \in Nat /\ cut = off + len

\* The buffer and the block at q1 keep their order when their positions are counted anew.
LEMMA Slid ==
    ASSUME Number \in Nat, NEW l, NEW r, NEW gone, NEW q1 \in Nat, q1 \in Places, NEW q2 \in Nat, q1 < q2, NEW s,
           NEW off, NEW off2, NEW len, NEW cut, Attains(off, len, cut), NEW cut2, Attains(off2, len, cut2),
           NEW S, NEW e \in Nat, NEW C, Holds(C, l, r, gone, q1, q2, s, off, len), NEW D, Holds(D, l, r, gone, q1, q2, s, off2, len),
           Arranged(C, S, Rest(C, q1, cut, q2), Second(C, q2, e))
    PROVE  Arranged(D, S, Rest(D, q1, cut2, q2), Second(D, q2, e))
<1>0. off \in Int /\ off2 \in Int /\ len \in Nat /\ cut = off + len /\ cut2 = off2 + len
  BY DEF Attains
<1> DEFINE Move(x, o, o2) == IF x[1] = q1 THEN <<q1, x[2] - o2 + o, x[3]>> ELSE x
<1>1. ASSUME NEW o \in Int, NEW o2 \in Int,
             NEW A, Holds(A, l, r, gone, q1, q2, s, o, len), NEW B, Holds(B, l, r, gone, q1, q2, s, o2, len), NEW x \in B
      PROVE  /\ Move(x, o, o2) \in A /\ Move(x, o, o2)[3] = x[3] /\ Move(x, o, o2)[1] = x[1] /\ Slot(x)
             /\ x[1] = q1 => /\ Move(x, o, o2)[2] = x[2] - o2 + o /\ o + 1 <= Move(x, o, o2)[2]
                             /\ Move(x, o, o2)[2] <= o + len
  <2>1. Slot(x) /\ IF x[1] = q1 THEN Run(x, q1, s, o2, len) ELSE Kept(x, l, r, gone, q2)
    BY <1>1 DEF Holds
  <2>2. CASE x[1] = q1
    <3> PICK y : y = <<q1, x[2] - o2 + o, x[3]>>
      OBVIOUS
    <3>1. /\ x[2] - o2 + o \in Int /\ o + 1 <= x[2] - o2 + o /\ x[2] - o2 + o <= o + len
          /\ (x[2] - o2 + o) - o = x[2] - o2 /\ x[3] \in Elements
      <4>1. x[2] \in Int /\ o2 + 1 <= x[2] /\ x[2] <= o2 + len /\ x[3] \in Elements
        BY <2>1, <2>2 DEF Slot, Run, Slots
      <4> QED
        BY <1>0, <1>1, <4>1, ShiftIs
    <3>2. y[1] = q1 /\ y[2] = x[2] - o2 + o /\ y[3] = x[3] /\ Slot(y)
      BY <3>1 DEF Slot, Slots
    <3>3. Run(y, q1, s, o, len)
      BY <2>1, <2>2, <3>1, <3>2 DEF Run
    <3>4. y \in A
      BY <1>1, <3>2, <3>3 DEF Holds
    <3>5. Move(x, o, o2) = y
      BY <2>2
    <3> QED
      BY <2>1, <2>2, <3>1, <3>2, <3>4, <3>5
  <2>3. CASE x[1] # q1
    BY <1>1, <2>1, <2>3 DEF Holds
  <2> QED
    BY <2>2, <2>3
<1> PICK g : g = [x \in D |-> Move(x, off, off2)]
  OBVIOUS
<1>2. ASSUME NEW x \in D
      PROVE  /\ g[x] \in C /\ g[x][3] = x[3] /\ g[x][1] = x[1] /\ Slot(x)
             /\ x[1] = q1 => g[x][2] = x[2] - off2 + off /\ g[x][2] <= off + len
             /\ x[1] # q1 => g[x] = x
  <2>1. g[x] = Move(x, off, off2) /\ (x[1] # q1 => g[x] = x)
    OBVIOUS
  <2> HIDE DEF Move
  <2> QED
    BY <1>0, <1>1, <2>1
<1>3. ASSUME NEW x \in C PROVE \E y \in D : x[3] = y[3]
  <2> HIDE DEF Move
  <2>1. Move(x, off2, off) \in D /\ Move(x, off2, off)[3] = x[3]
    BY <1>0, <1>1
  <2> QED
    BY <2>1
<1> PICK U, V : U = Rest(C, q1, cut, q2) /\ V = Second(C, q2, e)
  OBVIOUS
<1> PICK P, Q : P = Rest(D, q1, cut2, q2) /\ Q = Second(D, q2, e)
  OBVIOUS
<1>4. ASSUME NEW x \in D, NEW y \in D, Before(x, y) PROVE Before(g[x], g[y])
  <2>1. /\ x[1] \in Nat /\ x[2] \in Int /\ y[1] \in Nat /\ y[2] \in Int
        /\ g[x][1] = x[1] /\ (x[1] = q1 => g[x][2] = x[2] - off2 + off) /\ (x[1] # q1 => g[x][2] = x[2])
        /\ g[y][1] = y[1] /\ (y[1] = q1 => g[y][2] = y[2] - off2 + off) /\ (y[1] # q1 => g[y][2] = y[2])
    BY <1>2 DEF Slot
  <2>2. x[2] < y[2] => x[2] - off2 + off < y[2] - off2 + off
    BY <1>0, <2>1
  <2>3. x[1] < y[1] \/ (x[1] = y[1] /\ x[2] < y[2])
    BY <1>4 DEF Before
  <2> QED
    BY <2>1, <2>2, <2>3 DEF Before
<1>5. ASSUME NEW x \in D, g[x] \in U PROVE x \in P
  <2>1. g[x][1] < q2 /\ (q1 < g[x][1] \/ (g[x][1] = q1 /\ cut < g[x][2]))
    BY <1>5 DEF Rest
  <2>2. g[x][1] = x[1]
    BY <1>2
  <2>3. ~(x[1] = q1 /\ cut < g[x][2])
    <3> SUFFICES ASSUME x[1] = q1, cut < g[x][2] PROVE FALSE
      OBVIOUS
    <3>1. g[x][2] \in Int /\ g[x][2] <= off + len
      BY <1>0, <1>2 DEF Slot
    <3> QED
      BY <1>0, <3>1
  <2> QED
    BY <2>1, <2>2, <2>3 DEF Rest
<1>6. ASSUME NEW y \in D, g[y] \in V PROVE y \in Q
  BY <1>2, <1>6 DEF Second
<1>7. Moves(g, C, D, S, U, V, P, Q)
  <2>1. D \subseteq Slots
    BY <1>2 DEF Slot
  <2>2. \A x, y \in D : \A s_1 \in S : g[x][1] < s_1 /\ s_1 <= g[y][1] => x[1] < s_1 /\ s_1 <= y[1]
    BY <1>2
  <2> QED
    BY <1>2, <1>3, <1>4, <1>5, <1>6, <2>1, <2>2 DEF Moves
<1> QED
  BY <1>7, Rearranged

\* The same for a buffer with one more at its end.
IsAppend(s, buf, v) == s = Append(buf, v)
OneMore(s, len) == s \in Seq(Elements) /\ Len(s) = len + 1

\* An element appended to the buffer from the block at q1 is the one the block gives up.
LEMMA Taken ==
    ASSUME Number \in Nat, NEW l, NEW r, NEW q1 \in Nat, NEW q2 \in Nat, q1 # q2, NEW gone, NEW off,
           NEW cut \in Nat, NEW z \in Nat, NEW v \in Elements, NextKept(l, r, q1, cut, z, v),
           NEW buf \in Seq(Elements), NEW len, len = Len(buf), Attains(off, len, cut), NEW s, IsAppend(s, buf, v)
    PROVE  OneMore(s, len) /\ Content(l, r, s, off, gone, q1, q2) = Content(l, r, buf, off, gone, q1, q2)
<1>0. off \in Int /\ len \in Nat /\ cut = off + len
  BY DEF Attains
<1>1. s \in Seq(Elements) /\ Len(s) = len + 1
  BY Appended DEF IsAppend
<1> PICK len1 \in Nat : len1 = len + 1
  BY <1>0
<1>2. \A j \in 1 .. len1 : s[j] = IF j = len1 THEN v ELSE buf[j]
  BY DEF IsAppend
<1>3. Extends(s, buf, v, len, len1)
  BY <1>1, <1>2 DEF Extends
<1>4. Content(l, r, s, off, gone, q1, q2) = Content(l, r, buf, off, gone, q1, q2)
  BY <1>0, <1>3, Extended
<1> QED
  BY <1>1, <1>4 DEF OneMore

\* How much has been taken of the two blocks, k of the first with the next one; there are
\* z in it.
Amounts(k1, k2, k, z, len, len1, off) ==
    /\ k = k1 + 1 /\ len = k1 + k2 /\ len1 = len + 1 /\ off = 0 - k2
    /\ k1 = off + len /\ k = off + len1 /\ k1 < z

\* There are such numbers.
LEMMA AmountsAre ==
    ASSUME NEW k1 \in Nat, NEW k2 \in Nat, NEW z \in Nat, k1 < z, NEW len \in Nat, len = k1 + k2
    PROVE  \E k, len1 \in Nat : \E off \in Int : Amounts(k1, k2, k, z, len, len1, off)
<1>1. /\ k1 + 1 \in Nat /\ len + 1 \in Nat /\ 0 - k2 \in Int
      /\ k1 = (0 - k2) + len /\ k1 + 1 = (0 - k2) + (len + 1)
  OBVIOUS
<1>2. Amounts(k1, k2, k1 + 1, z, len, len + 1, 0 - k2)
  BY <1>1 DEF Amounts
<1> QED
  BY <1>1, <1>2

\* The first z of len fill a block.
Fills(off, len, z, rest) == off \in Int /\ off <= 0 /\ z = off + len /\ len = z + rest

\* The last of a block: it fills the block with what is before it in the buffer.
TheLast(k2, k, z, len1, off) ==
    /\ k = z /\ z <= len1 /\ len1 - z = k2 /\ Fills(off, len1, z, k2)

\* When the last of the first block is taken the buffer fills it.
LEMMA LastOf ==
    ASSUME NEW k1 \in Nat, NEW k2 \in Nat, NEW k \in Nat, NEW z \in Nat, NEW len \in Nat, NEW len1 \in Nat,
           NEW off \in Int, Amounts(k1, k2, k, z, len, len1, off), ~(k < z)
    PROVE  TheLast(k2, k, z, len1, off)
BY DEF Amounts, TheLast, Fills

\* The first block of the two is used up and filled.
LEMMA FirstFilled ==
    ASSUME Number \in Nat, ListOK(list), NEW r, Listing(r), NEW q1 \in Nat, q1 \in Places, NEW q2 \in Nat, q1 < q2,
           NEW S, NEW e \in Nat, NEW s, NEW len \in Nat, len = Len(s), NEW z \in Nat, z = Len(list[r[q1]]),
           NEW off, NEW rest \in Nat, Fills(off, len, z, rest), NEW gone,
           NEW C, C = Content(list, r, s, off, gone, q1, q2),
           Arranged(C, S, Rest(C, q1, z, q2), Second(C, q2, e)),
           NEW d, NEW buf, Flush(d, buf, r[q1], s, z), rest = Len(buf),
           NEW D, D = Content(d, r, buf, z, gone, q1, q2)
    PROVE  Arranged(D, S, Rest(D, q1, z + rest, q2), Second(D, q2, e))
<1>1. q1 # q2 /\ off \in Int /\ off <= 0 /\ z = off + len /\ z <= off + len /\ len = z + rest
  BY DEF Fills
<1>2. Holds(C, list, r, gone, q1, q2, s, off, len)
  BY <1>1, FullIs
<1>3. Holds(D, list, r, gone, q1, q2, s, 0, len)
  BY <1>1, FlushedFull
<1> PICK cut2 \in Nat : cut2 = z + rest
  OBVIOUS
<1>4. Attains(off, len, z) /\ Attains(0, len, cut2)
  BY <1>1 DEF Attains
<1>5. Arranged(D, S, Rest(D, q1, cut2, q2), Second(D, q2, e))
  BY <1>2, <1>3, <1>4, Slid
<1> QED
  BY <1>5

\* The next of the first sequence goes to the buffer, and a block that is used up has
\* what is before what is left in the buffer.
LEMMA TakeFirstOrder ==
    ASSUME SortAssumption, NEW r, NEW q1 \in Nat, NEW q2 \in Nat, NEW S,
           Inv(r, q1, q2), Order(r, q1, q2, S), take_first
    PROVE  Order(r, q1, q2, S)'
<1>1. /\ pc = "merge" /\ FirstIsNext /\ given' = given
      /\ UNCHANGED <<head, blocks, block1, after, m, b1, i2>>
  BY DEF take_first, pass
<1>2. Merging /\ Typed /\ given \in Lists
  BY <1>1 DEF Merging, Inv
<1>3. Known(r, q1, q2)
  BY <1>2, KnownIs
<1>4. /\ Number \in Nat /\ q1 \in Places /\ b1 = r[q1] /\ b1 \in Blocks /\ Listing(r) /\ ListOK(list)
      /\ buffer \in Seq(Elements)
  BY <1>1, <1>2, <1>3, EndIs DEF Known, Cursors, Typed, Ring
<1> PICK e, k1, k2 \in Nat : \E C, x, w : Heads(r, q1, q2, S, C, e, k1, k2, x, w)
  BY <1>1, HeadsAre
<1> PICK C, x, w : Heads(r, q1, q2, S, C, e, k1, k2, x, w)
  OBVIOUS
<1>5. /\ k1 = i1 /\ k2 = i2 /\ C = Content(list, r, buffer, 0 - k2, k2, q1, q2) /\ e = End(q2)
      /\ q1 < q2 /\ e <= Number + 1 /\ Marks(r, q1, e, S) /\ q1 # q2
  BY DEF Heads
<1> PICK z \in Nat : z = nr(b1)
  BY <1>2, <1>4, Sizes
<1>7. k1 < z /\ Len(buffer) = k1 + k2 /\ list[b1] \in Seq(Elements) /\ z = Len(list[b1])
  <2>1. k1 < z /\ Len(buffer) = k1 + k2
    BY <1>1, <1>5 DEF Inv, BufferExact
  <2> QED
    BY <1>2, <1>4, <2>1, Sizes
<1> PICK len \in Nat : len = Len(buffer)
  BY <1>4
<1>14. \E k_0, len_0 \in Nat : \E off_0 \in Int : Amounts(k1, k2, k_0, z, len, len_0, off_0)
  BY <1>7, AmountsAre
<1> PICK k, len1 \in Nat : \E off_0 \in Int : Amounts(k1, k2, k, z, len, len1, off_0)
  BY <1>14
<1> PICK off \in Int : Amounts(k1, k2, k, z, len, len1, off)
  OBVIOUS
<1>15. k = k1 + 1 /\ len1 = len + 1 /\ off = 0 - k2 /\ k1 = off + len /\ k = off + len1
  BY DEF Amounts
<1>6. Arranged(C, S, Rest(C, q1, k, q2), Second(C, q2, e))
  <2>1. k = k1 + 1
    BY <1>15
  <2> QED
    BY <1>1, <1>4, <2>1, Shorter
<1>8. list[b1][k1 + 1] \in Elements
  <2>1. k1 + 1 \in 1 .. Len(list[b1])
    BY <1>7
  <2> QED
    BY <1>7, <2>1
<1> PICK v \in Elements : NextKept(list, r, q1, k1, z, v)
  BY <1>4, <1>7, <1>8 DEF NextKept
<1> PICK s : IsAppend(s, buffer, v)
  BY DEF IsAppend
<1>9. s \in Seq(Elements) /\ Len(s) = len1 /\ C = Content(list, r, s, off, k2, q1, q2)
  <2>1. Number \in Nat /\ buffer \in Seq(Elements)
    BY <1>4
  <2>3. Attains(off, len, k1)
    BY <1>15 DEF Attains
  <2>4. q1 # q2
    BY <1>5
  <2>2. /\ OneMore(s, len)
        /\ Content(list, r, s, off, k2, q1, q2) = Content(list, r, buffer, off, k2, q1, q2)
    BY <2>1, <2>3, <2>4, Taken
  <2> QED
    BY <1>5, <1>15, <2>2 DEF OneMore
<1>10. s = Append(buffer, list[b1][i1 + 1]) /\ (i1 + 1 < nr(b1) <=> k < z)
  BY <1>4, <1>5, <1>15 DEF IsAppend, NextKept
<1>11. CASE k < z
  <2>1. buffer' = s /\ list' = list /\ pc' = "merge"
    BY <1>1, <1>10, <1>11 DEF take_first
  <2>2. Merging' /\ Off' = off /\ Gone' = k2 /\ e = End(q2)'
    BY <1>1, <1>5, <1>15, <2>1 DEF Merging, Off, Gone, End
  <2>3. k = off + Len(buffer')
    BY <1>9, <1>15, <2>1
  <2>4. C = Content(list', r, buffer', off, k2, q1, q2) /\ q1 <= q1
    BY <1>9, <2>1
  <2> QED
    BY <1>1, <1>2, <1>5, <1>6, <2>2, <2>3, <2>4, OrderNext
<1>12. CASE ~(k < z)
  <2>1. list' = FLUSH_TO(b1, s) /\ buffer' = Flushed(b1, s) /\ pc' = "next1"
    BY <1>1, <1>10, <1>12 DEF take_first
  <2>7. TheLast(k2, k, z, len1, off)
    BY <1>12, LastOf
  <2>2. k = z /\ z <= len1 /\ len1 - z = k2
    BY <2>7 DEF TheLast
  <2>8. Fills(off, len1, z, k2)
    BY <2>7 DEF TheLast
  <2> PICK d, buf : d = list' /\ buf = buffer'
    OBVIOUS
  <2>3. Flush(d, buf, b1, s, z) /\ Len(buf) = k2
    <3>1. z <= Len(s)
      BY <1>9, <2>2
    <3>2. Flush(FLUSH_TO(b1, s), Flushed(b1, s), b1, s, z) /\ Len(Flushed(b1, s)) = Len(s) - z
      BY <1>4, <1>9, <3>1, FlushedIs
    <3> QED
      BY <1>9, <2>1, <2>2, <3>2
  <2>4. nr(b1)' = z
    BY <1>1, <2>3 DEF nr, Flush
  <2>5. Merging' /\ Off' = z /\ Gone' = k2 /\ e = End(q2)'
    BY <1>1, <1>5, <2>1, <2>4 DEF Merging, Off, Gone, End
  <2> PICK D : D = Content(d, r, buf, z, k2, q1, q2)
    OBVIOUS
  <2>6. Arranged(D, S, Rest(D, q1, z + k2, q2), Second(D, q2, e))
    <3>1. z = Len(list[r[q1]]) /\ Flush(d, buf, r[q1], s, z) /\ k2 = Len(buf) /\ len1 = Len(s)
      BY <1>4, <1>7, <1>9, <2>3
    <3>2. Arranged(C, S, Rest(C, q1, z, q2), Second(C, q2, e))
      BY <1>6, <2>2
    <3> QED
      BY <1>4, <1>5, <1>9, <2>8, <3>1, <3>2, FirstFilled
  <2>9. D = Content(list', r, buffer', z, k2, q1, q2) /\ q1 <= q1
    OBVIOUS
  <2> PICK cut : cut = z + k2
    OBVIOUS
  <2>10. cut = z + Len(buffer')
    BY <2>3
  <2>11. Arranged(D, S, Rest(D, q1, cut, q2), Second(D, q2, e))
    BY <2>6
  <2> QED
    BY <1>1, <1>2, <1>5, <2>5, <2>9, <2>10, <2>11, OrderNext
<1> QED
  BY <1>11, <1>12

\* The next of the second sequence precedes all that is left of the first if it has a
\* lower rank than the next of that.
LEMMA Overtakes ==
    ASSUME SortAssumption, Number \in Nat, NEW r, NEW q1 \in Nat, NEW q2 \in Nat, NEW S, NEW C, NEW e \in Nat,
           NEW k1 \in Nat, NEW k2 \in Nat, NEW x, NEW w, Heads(r, q1, q2, S, C, e, k1, k2, x, w), ~FirstIsNext
    PROVE  \A y \in Rest(C, q1, k1, q2) : Precedes(w[3], y[3])
<1>1. /\ Arranged(C, S, Rest(C, q1, k1, q2), Second(C, q2, e)) /\ q2 < e /\ Outside(S, q1, e)
      /\ x \in C /\ x[1] = q1 /\ x[2] = k1 + 1 /\ x[3] = list[b1][k1 + 1]
      /\ w \in C /\ w[3] = list[b2][k2 + 1] /\ k1 = i1 /\ k2 = i2
      /\ C = Content(list, r, buffer, 0 - k2, k2, q1, q2)
  BY DEF Heads
<1>2. Rank[w[3]] < Rank[x[3]] /\ Rank[w[3]] \in Nat
  <2>1. x[3] \in Elements /\ w[3] \in Elements
    BY <1>1 DEF Arranged, Slots
  <2>2. Rank[x[3]] \in Nat /\ Rank[w[3]] \in Nat
    BY <2>1 DEF SortAssumption
  <2>3. ~(Rank[x[3]] <= Rank[w[3]])
    BY <1>1 DEF FirstIsNext
  <2> QED
    BY <2>2, <2>3
<1> SUFFICES ASSUME NEW y \in Rest(C, q1, k1, q2) PROVE Precedes(w[3], y[3])
  OBVIOUS
<1>3. y \in C /\ y[1] < q2 /\ (q1 < y[1] \/ (y[1] = q1 /\ k1 < y[2])) /\ y[1] \in Nat /\ y[2] \in Int
  <2>1. y \in C /\ y[1] < q2 /\ (q1 < y[1] \/ (y[1] = q1 /\ k1 < y[2]))
    BY DEF Rest
  <2>2. y \in Slots
    BY <1>1, <2>1 DEF Arranged
  <2> QED
    BY <2>1, <2>2 DEF Slots, Places
<1>4. x = y \/ Before(x, y)
  <2>1. CASE q1 < y[1]
    BY <1>1, <2>1 DEF Before
  <2>2. CASE y[1] = q1 /\ k1 < y[2]
    <3>1. y[2] = k1 + 1 \/ k1 + 1 < y[2]
      BY <1>3, <2>2
    <3>2. y[2] = k1 + 1 => x = y
      BY <1>1, <1>3, <2>2, Single
    <3> QED
      BY <1>1, <2>2, <3>1, <3>2 DEF Before
  <2> QED
    BY <1>3, <2>1, <2>2
<1>5. OneRun(S, x, y)
  <2> SUFFICES ASSUME NEW s \in S, q1 < s, s <= y[1] PROVE FALSE
    BY <1>1 DEF OneRun
  <2>1. s \in Nat /\ (s <= q1 \/ e <= s)
    BY <1>1 DEF Outside
  <2> QED
    BY <1>1, <1>3, <2>1
<1> PICK U, V : U = Rest(C, q1, k1, q2) /\ V = Second(C, q2, e)
  OBVIOUS
<1>6. y \notin V
  BY <1>3 DEF Second
<1>7. AtMost(x, y)
  <2>1. Arranged(C, S, U, V)
    BY <1>1
  <2> QED
    BY <1>1, <1>3, <1>4, <1>5, <1>6, <2>1, NotHigher
<1>8. Rank[w[3]] < Rank[y[3]]
  BY <1>2, <1>7 DEF AtMost
<1> QED
  BY <1>8 DEF Precedes

\* x is the next of the second sequence taken, what was buffered before it, or what is kept.
Took(x, x_0, q1, k1, q2, k2) ==
    /\ Slot(x) /\ Slot(x_0) /\ x[3] = x_0[3]
    /\ \/ x[1] = q1 /\ x[2] = k1 /\ x_0[1] = q2 /\ x_0[2] = k2 + 1
       \/ x[1] = q1 /\ x[2] < k1 /\ x_0[1] = q1 /\ x_0[2] = x[2] + 1
       \/ x_0 = x /\ (x[1] = q1 => k1 < x[2]) /\ (x[1] = q2 => k2 + 1 < x[2])

\* Elements stay in order, and on the same side of where sequences start; what is left of
\* the two sequences is so after.
Remains(x, q, cut, q2) == x[1] < q2 /\ (q < x[1] \/ (x[1] = q /\ cut < x[2]))
InOrder(x, y, x_0, y_0, q, cut, q2, p, p2, e) ==
    /\ Before(x_0, y_0)
    /\ \A s \in Nat : s <= q \/ e <= s => (x_0[1] < s /\ s <= y_0[1] => x[1] < s /\ s <= y[1])
    /\ Remains(x_0, q, cut, q2) /\ q2 <= y_0[1] /\ y_0[1] < e => Remains(x, p, cut, p2) /\ p2 <= y[1] /\ y[1] < e

\* They stay in order but that the one taken overtakes what is left of the first sequence.
LEMMA TookInLine ==
    ASSUME NEW q1 \in Nat, NEW k1 \in Nat, NEW q2 \in Nat, NEW k2 \in Nat, NEW e \in Nat, q1 < q2, q2 < e,
           NEW x, NEW x_0, Took(x, x_0, q1, k1, q2, k2), NEW y, NEW y_0, Took(y, y_0, q1, k1, q2, k2), Before(x, y)
    PROVE  \/ /\ x_0[1] = q2 /\ x_0[2] = k2 + 1
              /\ Remains(y_0, q1, k1, q2)
           \/ InOrder(x, y, x_0, y_0, q1, k1, q2, q1, q2, e)
<1>1. /\ x[1] \in Nat /\ x[2] \in Int /\ x_0[1] \in Nat /\ x_0[2] \in Int
      /\ \/ x[1] = q1 /\ x[2] = k1 /\ x_0[1] = q2 /\ x_0[2] = k2 + 1
         \/ x[1] = q1 /\ x[2] < k1 /\ x_0[1] = q1 /\ x_0[2] = x[2] + 1
         \/ x_0 = x /\ (x[1] = q1 => k1 < x[2]) /\ (x[1] = q2 => k2 + 1 < x[2])
  BY DEF Took, Slot
<1>2. /\ y[1] \in Nat /\ y[2] \in Int /\ y_0[1] \in Nat /\ y_0[2] \in Int
      /\ \/ y[1] = q1 /\ y[2] = k1 /\ y_0[1] = q2 /\ y_0[2] = k2 + 1
         \/ y[1] = q1 /\ y[2] < k1 /\ y_0[1] = q1 /\ y_0[2] = y[2] + 1
         \/ y_0 = y /\ (y[1] = q1 => k1 < y[2]) /\ (y[1] = q2 => k2 + 1 < y[2])
  BY DEF Took, Slot
<1>3. x[1] < y[1] \/ (x[1] = y[1] /\ x[2] < y[2])
  BY DEF Before
<1> SUFFICES ASSUME ~(/\ x_0[1] = q2 /\ x_0[2] = k2 + 1
                      /\ y_0[1] < q2 /\ (q1 < y_0[1] \/ (y_0[1] = q1 /\ k1 < y_0[2])))
             PROVE  InOrder(x, y, x_0, y_0, q1, k1, q2, q1, q2, e)
  BY DEF Remains
<1>4. Before(x_0, y_0)
  BY <1>1, <1>2, <1>3 DEF Before
<1>5. ASSUME NEW s \in Nat, s <= q1 \/ e <= s, x_0[1] < s, s <= y_0[1] PROVE x[1] < s /\ s <= y[1]
  BY <1>1, <1>2, <1>5
<1>6. x_0[1] < q2 /\ (q1 < x_0[1] \/ (x_0[1] = q1 /\ k1 < x_0[2])) /\ q2 <= y_0[1] /\ y_0[1] < e =>
           x[1] < q2 /\ (q1 < x[1] \/ (x[1] = q1 /\ k1 < x[2])) /\ q2 <= y[1] /\ y[1] < e
  BY <1>1, <1>2, <1>3
<1> QED
  BY <1>4, <1>5, <1>6 DEF InOrder, Remains

\* Amounts for the second sequence: one more of it is taken, and the buffer begins
\* earlier.
Advance(k1, k2, k, len, len1, off, off1) ==
    /\ k = k2 + 1 /\ len = k1 + k2 /\ len1 = len + 1
    /\ off = 0 - k2 /\ off1 = 0 - k /\ k1 = off + len /\ k1 = off1 + len1

\* A position in the buffer before and after.
Shift(k1, len, len1, off, off1, j) ==
    /\ off1 + 1 <= j /\ j <= off1 + len1 /\ j < k1 =>
          /\ off + 1 <= j + 1 /\ j + 1 <= off + len /\ (j + 1) - off = j - off1
          /\ j - off1 \in 1 .. len /\ j - off1 \in 1 .. len1 /\ j - off1 # len1
    /\ off + 1 <= j /\ j <= off + len =>
          /\ off1 + 1 <= j - 1 /\ j - 1 <= off1 + len1 /\ j - 1 < k1 /\ (j - 1) - off1 = j - off
          /\ j - off \in 1 .. len1 /\ j - off # len1
          /\ off1 + 1 <= j /\ j <= off1 + len1
    /\ off1 + 1 <= k1 /\ k1 <= off1 + len1 /\ k1 - off1 = len1 /\ len1 \in 1 .. len1
    /\ off1 + 1 <= j /\ j <= off1 + len1 <=> off1 + 1 <= j /\ j <= k1
    /\ off1 + 1 <= j /\ j <= k1 /\ ~(j < k1) => j = k1
    /\ 0 < j /\ j <= k1 => off + 1 <= j /\ j <= off + len

\* A position in the buffer goes down by one when an element of the second is taken.
LEMMA Advanced ==
    ASSUME NEW k1 \in Nat, NEW k2 \in Nat, NEW k \in Nat, NEW len \in Nat, NEW len1 \in Nat, NEW off \in Int,
           NEW off1 \in Int, Advance(k1, k2, k, len, len1, off, off1), NEW j \in Int
    PROVE  Shift(k1, len, len1, off, off1, j)
BY DEF Advance, Shift

\* What D holds is what C held with the next of the second sequence in its block.
Taking(C, D, q1, k1, q2, k2) ==
    /\ \E g : \A x \in D : g[x] \in C /\ Took(x, g[x], q1, k1, q2, k2)
    /\ \A x \in C : \E y \in D : x[3] = y[3]

\* Taking one from the second sequence loses nothing and moves only the buffer.
LEMMA TakingIs ==
    ASSUME Number \in Nat, NEW l, NEW r, NEW q1 \in Nat, q1 \in Places, NEW q2 \in Nat, q1 # q2,
           NEW k1 \in Nat, NEW k2 \in Nat, NEW k \in Nat, NEW len \in Nat, NEW len1 \in Nat, NEW off \in Int,
           NEW off1 \in Int, Advance(k1, k2, k, len, len1, off, off1), NEW v \in Elements,
           NEW buf, NEW s, Extends(s, buf, v, len, len1),
           NEW C, C = Content(l, r, buf, off, k2, q1, q2), NEW D, D = Content(l, r, s, off1, k, q1, q2),
           NEW w \in C, w[1] = q2, w[2] = k2 + 1, w[3] = v
    PROVE  Taking(C, D, q1, k1, q2, k2)
<1>1. Len(s) = len1 /\ Len(buf) = len /\ \A j \in 1 .. len1 : s[j] = IF j = len1 THEN v ELSE buf[j]
  BY DEF Extends
<1>2. ASSUME NEW x
      PROVE  x \in C <=> /\ Slot(x)
                         /\ IF InBuffer(x, q1, off, len) THEN x[3] = buf[x[2] - off] ELSE Kept(x, l, r, k2, q2)
  BY <1>1, ContentIs
<1>3. ASSUME NEW x
      PROVE  x \in D <=> /\ Slot(x)
                         /\ IF InBuffer(x, q1, off1, len1) THEN x[3] = s[x[2] - off1] ELSE Kept(x, l, r, k, q2)
  BY <1>1, ContentIs
<1>4. k = k2 + 1
  BY DEF Advance
<1> DEFINE Move(x) == IF ~InBuffer(x, q1, off1, len1) THEN x ELSE IF x[2] = k1 THEN w ELSE <<q1, x[2] + 1, x[3]>>
<1>5. ASSUME NEW x \in D PROVE Move(x) \in C /\ Took(x, Move(x), q1, k1, q2, k2)
  <2>1. /\ Slot(x)
        /\ IF InBuffer(x, q1, off1, len1) THEN x[3] = s[x[2] - off1] ELSE Kept(x, l, r, k, q2)
    BY <1>3
  <2> PICK j \in Int : j = x[2]
    BY <2>1 DEF Slot
  <2>0. Shift(k1, len, len1, off, off1, j)
    BY Advanced
  <2>2. CASE ~InBuffer(x, q1, off1, len1)
    <3>1. Move(x) = x /\ Kept(x, l, r, k, q2)
      BY <2>1, <2>2
    <3>2. j \in 1 .. Len(l[r[x[1]]]) /\ (x[1] = q2 => k < j)
      BY <3>1 DEF Kept
    <3>3. x[1] = q1 => ~(off1 + 1 <= j /\ j <= k1) /\ ~(off1 + 1 <= j /\ j <= off1 + len1)
      BY <2>0, <2>2 DEF InBuffer, Shift
    <3>4. x[1] = q1 => ~(off + 1 <= j /\ j <= off + len) /\ ~(0 < j /\ j <= k1)
      BY <2>0, <3>3 DEF Shift
    <3>5. ~InBuffer(x, q1, off, len)
      BY <3>4 DEF InBuffer
    <3>6. (x[1] = q2 => k2 < j) /\ (x[1] = q1 => k1 < j)
      BY <1>4, <3>2, <3>4
    <3>7. Kept(x, l, r, k2, q2)
      BY <3>1, <3>6 DEF Kept
    <3>8. x \in C
      BY <1>2, <2>1, <3>5, <3>7
    <3>9. x[1] = q2 => k2 + 1 < j
      BY <1>4, <3>2
    <3> QED
      BY <2>1, <3>1, <3>6, <3>8, <3>9 DEF Took
  <2>3. CASE InBuffer(x, q1, off1, len1) /\ j = k1
    <3>1. Move(x) = w /\ x[1] = q1 /\ x[3] = s[k1 - off1]
      BY <2>1, <2>3 DEF InBuffer
    <3>2. k1 - off1 = len1 /\ len1 \in 1 .. len1
      BY <2>0 DEF Shift
    <3>3. x[3] = v
      BY <1>1, <3>1, <3>2
    <3>4. Slot(w)
      BY <1>2
    <3> QED
      BY <2>1, <2>3, <3>1, <3>3, <3>4 DEF Took
  <2>4. CASE InBuffer(x, q1, off1, len1) /\ j # k1
    <3> PICK y : y = <<q1, j + 1, x[3]>>
      OBVIOUS
    <3>1. Move(x) = y
      BY <2>4
    <3>2. x[1] = q1 /\ off1 + 1 <= j /\ j <= off1 + len1 /\ x[3] = s[j - off1]
      BY <2>1, <2>4 DEF InBuffer
    <3>3. j < k1
      <4>1. off1 + 1 <= j /\ j <= k1
        BY <2>0, <3>2 DEF Shift
      <4> QED
        BY <2>0, <2>4, <4>1 DEF Shift
    <3>4. /\ off + 1 <= j + 1 /\ j + 1 <= off + len /\ (j + 1) - off = j - off1
          /\ j - off1 \in 1 .. len1 /\ j - off1 # len1
      BY <2>0, <3>2, <3>3 DEF Shift
    <3>5. y[1] = q1 /\ y[2] = j + 1 /\ y[3] = x[3] /\ Slot(y)
      <4>1. x[3] \in Elements
        BY <2>1 DEF Slot, Slots
      <4> QED
        BY <4>1 DEF Slot, Slots
    <3>6. x[3] = buf[j - off1]
      BY <1>1, <3>2, <3>4
    <3>7. InBuffer(y, q1, off, len) /\ y[3] = buf[y[2] - off]
      BY <3>4, <3>5, <3>6 DEF InBuffer
    <3>8. y \in C
      BY <1>2, <3>5, <3>7
    <3> QED
      BY <2>1, <3>1, <3>2, <3>3, <3>5, <3>8 DEF Took
  <2> QED
    BY <2>2, <2>3, <2>4
<1>6. ASSUME NEW x \in C PROVE \E y \in D : x[3] = y[3]
  <2>1. /\ Slot(x)
        /\ IF InBuffer(x, q1, off, len) THEN x[3] = buf[x[2] - off] ELSE Kept(x, l, r, k2, q2)
    BY <1>2
  <2> PICK j \in Int : j = x[2]
    BY <2>1 DEF Slot
  <2>0. Shift(k1, len, len1, off, off1, j)
    BY Advanced
  <2>2. x[3] \in Elements
    BY <2>1 DEF Slot, Slots
  <2>3. CASE InBuffer(x, q1, off, len)
    <3> PICK y : y = <<q1, j - 1, x[3]>>
      OBVIOUS
    <3>1. off + 1 <= j /\ j <= off + len /\ x[3] = buf[j - off]
      BY <2>1, <2>3 DEF InBuffer
    <3>2. /\ off1 + 1 <= j - 1 /\ j - 1 <= off1 + len1 /\ (j - 1) - off1 = j - off
          /\ j - off \in 1 .. len1 /\ j - off # len1
      BY <2>0, <3>1 DEF Shift
    <3>3. y[1] = q1 /\ y[2] = j - 1 /\ y[3] = x[3] /\ Slot(y)
      BY <2>2 DEF Slot, Slots
    <3>4. InBuffer(y, q1, off1, len1) /\ y[3] = s[y[2] - off1]
      BY <1>1, <3>1, <3>2, <3>3 DEF InBuffer
    <3>5. y \in D
      BY <1>3, <3>3, <3>4
    <3> QED
      BY <3>3, <3>5
  <2>4. CASE ~InBuffer(x, q1, off, len) /\ x[1] = q2 /\ j = k2 + 1
    <3> PICK y : y = <<q1, k1, v>>
      OBVIOUS
    <3>1. off1 + 1 <= k1 /\ k1 <= off1 + len1 /\ k1 - off1 = len1 /\ len1 \in 1 .. len1
      BY <2>0 DEF Shift
    <3>2. y[1] = q1 /\ y[2] = k1 /\ y[3] = v /\ Slot(y)
      BY DEF Slot, Slots
    <3>3. InBuffer(y, q1, off1, len1) /\ y[3] = s[y[2] - off1]
      BY <1>1, <3>1, <3>2 DEF InBuffer
    <3>4. y \in D
      BY <1>3, <3>2, <3>3
    <3>5. x = w
      <4>1. x[1] = w[1] /\ x[2] = w[2]
        BY <2>4
      <4> QED
        BY <4>1, Single
    <3> QED
      BY <3>2, <3>4, <3>5
  <2>5. CASE ~InBuffer(x, q1, off, len) /\ ~(x[1] = q2 /\ j = k2 + 1)
    <3>1. Kept(x, l, r, k2, q2)
      BY <2>1, <2>5
    <3>2. j \in 1 .. Len(l[r[x[1]]]) /\ (x[1] = q2 => k2 < j)
      BY <3>1 DEF Kept
    <3>3. x[1] = q2 => k < j
      BY <1>4, <2>5, <3>2
    <3>4. Kept(x, l, r, k, q2)
      BY <3>1, <3>3 DEF Kept
    <3>5. x[1] = q1 => ~(off1 + 1 <= j /\ j <= off1 + len1)
      <4> SUFFICES ASSUME x[1] = q1, off1 + 1 <= j, j <= off1 + len1 PROVE FALSE
        OBVIOUS
      <4>1. j <= k1
        BY <2>0 DEF Shift
      <4>2. 0 < j
        BY <3>2
      <4>3. off + 1 <= j /\ j <= off + len
        BY <2>0, <4>1, <4>2 DEF Shift
      <4> QED
        BY <2>5, <4>3 DEF InBuffer
    <3>6. ~InBuffer(x, q1, off1, len1)
      BY <3>5 DEF InBuffer
    <3>7. x \in D
      BY <1>3, <2>1, <3>4, <3>6
    <3> QED
      BY <3>7
  <2> QED
    BY <2>3, <2>4, <2>5
<1>7. \E g : \A x \in D : g[x] \in C /\ Took(x, g[x], q1, k1, q2, k2)
  <2> HIDE DEF Move
  <2> PICK g : g = [x \in D |-> Move(x)]
    OBVIOUS
  <2>1. \A x \in D : g[x] = Move(x)
    OBVIOUS
  <2> QED
    BY <1>5, <2>1
<1> QED
  BY <1>6, <1>7 DEF Taking

\* What is left stays in order.
LEMMA TookSorted ==
    ASSUME NEW q1 \in Nat, NEW q2 \in Nat, q1 < q2, NEW k1 \in Nat, NEW k2 \in Nat, NEW e \in Nat, q2 < e,
           NEW S, Outside(S, q1, e), NEW C, Arranged(C, S, Rest(C, q1, k1, q2), Second(C, q2, e)),
           NEW D, Taking(C, D, q1, k1, q2, k2), NEW w \in C, w[1] = q2, w[2] = k2 + 1,
           \A x, y \in C : x[1] = y[1] /\ x[2] = y[2] => x = y,
           \A y \in Rest(C, q1, k1, q2) : Precedes(w[3], y[3])
    PROVE  Arranged(D, S, Rest(D, q1, k1, q2), Second(D, q2, e))
<1> PICK U, V : U = Rest(C, q1, k1, q2) /\ V = Second(C, q2, e)
  OBVIOUS
<1> PICK P, Q : P = Rest(D, q1, k1, q2) /\ Q = Second(D, q2, e)
  OBVIOUS
<1> PICK g : \A x \in D : g[x] \in C /\ Took(x, g[x], q1, k1, q2, k2)
  BY DEF Taking
<1>1. ASSUME NEW x \in D PROVE g[x][3] = x[3] /\ x \in Slots
  BY DEF Took, Slot
<1>2. ASSUME NEW x \in D, NEW y \in D, Before(x, y)
      PROVE  \/ Precedes(x[3], y[3])
             \/ /\ Before(g[x], g[y])
                /\ \A s \in S : g[x][1] < s /\ s <= g[y][1] => x[1] < s /\ s <= y[1]
                /\ g[x] \in U /\ g[y] \in V => x \in P /\ y \in Q
  <2> PICK x_0, y_0 : x_0 = g[x] /\ y_0 = g[y]
    OBVIOUS
  <2>1. /\ Took(x, x_0, q1, k1, q2, k2) /\ Took(y, y_0, q1, k1, q2, k2) /\ x_0 \in C /\ y_0 \in C
        /\ x[3] = x_0[3] /\ y[3] = y_0[3]
    BY <1>1
  <2>2. \/ x_0[1] = q2 /\ x_0[2] = k2 + 1 /\ Remains(y_0, q1, k1, q2)
        \/ InOrder(x, y, x_0, y_0, q1, k1, q2, q1, q2, e)
    BY <1>2, <2>1, TookInLine
  <2>3. CASE x_0[1] = q2 /\ x_0[2] = k2 + 1 /\ Remains(y_0, q1, k1, q2)
    <3>1. x_0 = w
      BY <2>1, <2>3
    <3>2. y_0 \in Rest(C, q1, k1, q2)
      BY <2>1, <2>3 DEF Remains, Rest
    <3> QED
      BY <2>1, <3>1, <3>2
  <2>4. CASE InOrder(x, y, x_0, y_0, q1, k1, q2, q1, q2, e)
    <3>1. /\ Before(x_0, y_0)
          /\ \A s \in Nat : s <= q1 \/ e <= s => (x_0[1] < s /\ s <= y_0[1] => x[1] < s /\ s <= y[1])
          /\ Remains(x_0, q1, k1, q2) /\ q2 <= y_0[1] /\ y_0[1] < e => Remains(x, q1, k1, q2) /\ q2 <= y[1] /\ y[1] < e
      BY <2>4 DEF InOrder
    <3>2. \A s \in S : x_0[1] < s /\ s <= y_0[1] => x[1] < s /\ s <= y[1]
      BY <3>1 DEF Outside
    <3>3. x_0 \in U /\ y_0 \in V => x \in P /\ y \in Q
      BY <3>1 DEF Remains, Rest, Second
    <3> QED
      BY <3>1, <3>2, <3>3
  <2> QED
    BY <2>2, <2>3, <2>4
<1>3. Moves(g, C, D, S, U, V, P, Q)
  <2>1. D \subseteq Slots
    BY <1>1
  <2>2. \A x \in C : \E y \in D : x[3] = y[3]
    BY DEF Taking
  <2> QED
    BY <1>1, <1>2, <2>1, <2>2 DEF Moves
<1>4. Arranged(C, S, U, V)
  OBVIOUS
<1> QED
  BY <1>3, <1>4, Rearranged

\* x is of the block that r has at p.
Own(x, p, r) == x[2] \in 1 .. Len(list[r[p]]) /\ x[3] = list[r[p]][x[2]]

\* What the list holds when all of the block at q2 is taken, and s is in the buffer: z of
\* it go before what is left of the block at q1, and k1 over what is gone from it.
Was(x, r, s, q1, k1, q2, z) ==
    IF x[1] = q1 THEN \/ 0 - z < x[2] /\ x[2] <= k1 /\ x[3] = s[x[2] + z]
                      \/ k1 < x[2] /\ Own(x, q1, r)
    ELSE x[1] # q2 /\ Own(x, x[1], r)
Were(C, r, s, q1, k1, q2, z) == \A x : x \in C <=> Slot(x) /\ Was(x, r, s, q1, k1, q2, z)

InFront(off, len, k1, z) == off = 0 - z /\ len = k1 + z

Fronts(off, len, k1, z, j) == (off + 1 <= j /\ j <= off + len <=> 0 - z < j /\ j <= k1) /\ j - off = j + z

\* Which positions are in the buffer, by where it starts.
LEMMA FrontIs ==
    ASSUME NEW off \in Int, NEW len \in Nat, NEW k1 \in Nat, NEW z \in Nat, InFront(off, len, k1, z), NEW j \in Int
    PROVE  Fronts(off, len, k1, z, j)
BY DEF InFront, Fronts

\* What the list holds before the block is plugged in.
LEMMA WasIs ==
    ASSUME Number \in Nat, NEW r, NEW q1 \in Nat, NEW q2 \in Nat, q1 # q2, NEW s, NEW k1 \in Nat,
           NEW z \in Nat, z = Len(list[r[q2]]), NEW len \in Nat, len = Len(s), NEW off \in Int, InFront(off, len, k1, z),
           NEW C, C = Content(list, r, s, off, z, q1, q2)
    PROVE  Were(C, r, s, q1, k1, q2, z)
<1> SUFFICES ASSUME NEW x PROVE x \in C <=> Slot(x) /\ Was(x, r, s, q1, k1, q2, z)
  BY DEF Were
<1>1. x \in C <=> /\ Slot(x)
                  /\ IF InBuffer(x, q1, off, len) THEN x[3] = s[x[2] - off] ELSE Kept(x, list, r, z, q2)
  BY ContentIs
<1> SUFFICES ASSUME Slot(x)
             PROVE  (IF InBuffer(x, q1, off, len) THEN x[3] = s[x[2] - off] ELSE Kept(x, list, r, z, q2))
                      <=> Was(x, r, s, q1, k1, q2, z)
  BY <1>1
<1> PICK j \in Int : j = x[2]
  BY DEF Slot
<1>2. /\ off + 1 <= j /\ j <= off + len <=> 0 - z < j /\ j <= k1
      /\ j - off = j + z
      /\ j \in 1 .. Len(list[r[x[1]]]) => ~(j <= k1) \/ 0 - z < j
  <2>2. (off + 1 <= j /\ j <= off + len <=> 0 - z < j /\ j <= k1) /\ j - off = j + z
    <3>1. Fronts(off, len, k1, z, j)
      BY FrontIs
    <3> QED
      BY <3>1 DEF Fronts
  <2>4. j \in 1 .. Len(list[r[x[1]]]) => 0 < j
    OBVIOUS
  <2>5. 0 < j => 0 - z < j
    OBVIOUS
  <2> QED
    BY <2>2, <2>4, <2>5
<1>3. CASE x[1] = q1
  <2>1. Kept(x, list, r, z, q2) <=> Own(x, q1, r)
    BY <1>3 DEF Kept, Own
  <2>2. Own(x, q1, r) => j \in 1 .. Len(list[r[x[1]]])
    BY <1>3 DEF Own
  <2>3. InBuffer(x, q1, off, len) <=> 0 - z < j /\ j <= k1
    BY <1>2, <1>3 DEF InBuffer
  <2>4. ~(j <= k1) <=> k1 < j
    OBVIOUS
  <2> QED
    BY <1>2, <1>3, <2>1, <2>2, <2>3, <2>4 DEF Was
<1>4. CASE x[1] # q1
  <2>1. ~InBuffer(x, q1, off, len)
    BY <1>4 DEF InBuffer
  <2>2. x[1] = q2 => (j \in 1 .. z => ~(z < j))
    OBVIOUS
  <2>3. Kept(x, list, r, z, q2) <=> x[1] # q2 /\ Own(x, x[1], r)
    BY <2>2 DEF Kept, Own
  <2> QED
    BY <1>4, <2>1, <2>3 DEF Was
<1> QED
  BY <1>3, <1>4

\* And what it holds when that block is plugged in before the other one and filled.
Becomes(x, r, s, q1, k1, q2, z) ==
    IF x[1] = q1 THEN x[2] \in 1 .. z /\ x[3] = s[x[2]]
    ELSE IF x[1] = q1 + 1 THEN \/ 1 <= x[2] /\ x[2] <= k1 /\ x[3] = s[x[2] + z]
                               \/ k1 < x[2] /\ Own(x, q1, r)
    ELSE IF q1 < x[1] /\ x[1] <= q2 THEN Own(x, x[1] - 1, r)
    ELSE Own(x, x[1], r)

Filled(d, buf, r, t, q1, k1, q2, s, z) ==
    /\ Flush(d, buf, r[q2], s, z) /\ Len(buf) = k1
    /\ \A k \in Places : t[k] = r[From(q1, q2, k)]

\* What it holds after.
LEMMA BecomesIs ==
    ASSUME Number \in Nat, NEW r, Listing(r), NEW q1 \in Nat, NEW q2 \in Nat, q1 \in Places, q2 \in Places, q1 < q2,
           NEW s, NEW k1 \in Nat, NEW z \in Nat, NEW d, NEW buf, NEW t, Filled(d, buf, r, t, q1, k1, q2, s, z),
           NEW p1 \in Nat, p1 = q1 + 1, NEW p2, NEW D, D = Content(d, t, buf, 0, 0, p1, p2), NEW x
    PROVE  x \in D <=> Slot(x) /\ Becomes(x, r, s, q1, k1, q2, z)
<1>1. /\ \A c \in Blocks : c # r[q2] => d[c] = list[c]
      /\ Len(d[r[q2]]) = z /\ \A k \in 1 .. z : d[r[q2]][k] = s[k]
      /\ \A k \in 1 .. k1 : buf[k] = s[z + k]
      /\ Len(buf) = k1
      /\ \A k \in Places : t[k] = r[From(q1, q2, k)]
  BY DEF Filled, Flush
<1>2. x \in D <=> /\ Slot(x)
                  /\ IF InBuffer(x, p1, 0, k1) THEN x[3] = buf[x[2] - 0] ELSE Kept(x, d, t, 0, p2)
  BY <1>1, ContentIs
<1> SUFFICES ASSUME Slot(x)
             PROVE  (IF InBuffer(x, p1, 0, k1) THEN x[3] = buf[x[2] - 0] ELSE Kept(x, d, t, 0, p2))
                      <=> Becomes(x, r, s, q1, k1, q2, z)
  BY <1>2
<1> PICK j \in Int : j = x[2]
  BY DEF Slot
<1> PICK p \in Nat : p = x[1] /\ p \in Places
  BY DEF Slot
<1>3. Kept(x, d, t, 0, p2) <=> j \in 1 .. Len(d[t[p]]) /\ x[3] = d[t[p]][j]
  <2>1. j \in 1 .. Len(d[t[p]]) => 0 < j
    OBVIOUS
  <2> QED
    BY <2>1 DEF Kept
<1>4. CASE p = q1
  <2>1. t[p] = r[q2] /\ ~InBuffer(x, p1, 0, k1)
    BY <1>1, <1>4 DEF From, InBuffer
  <2> QED
    BY <1>1, <1>3, <1>4, <2>1 DEF Becomes
<1>5. ASSUME p # q1, NEW f \in Places, f # q2, f = From(q1, q2, p) PROVE Kept(x, d, t, 0, p2) <=> Own(x, f, r)
  <2>1. t[p] = r[f] /\ r[f] # r[q2] /\ r[f] \in Blocks
    BY <1>1, <1>5 DEF Listing
  <2>2. d[r[f]] = list[r[f]]
    BY <1>1, <2>1
  <2> QED
    BY <1>3, <2>1, <2>2 DEF Own
<1>6. CASE p = p1
  <2>1. From(q1, q2, p) = q1 /\ p # q1
    BY <1>6 DEF From
  <2>2. Kept(x, d, t, 0, p2) <=> Own(x, q1, r)
    BY <1>5, <2>1
  <2>3. InBuffer(x, p1, 0, k1) <=> 1 <= j /\ j <= k1
    BY <1>6 DEF InBuffer
  <2>4. 1 <= j /\ j <= k1 => buf[j - 0] = s[j + z]
    <3> SUFFICES ASSUME 1 <= j, j <= k1 PROVE buf[j - 0] = s[j + z]
      OBVIOUS
    <3>1. j \in 1 .. k1 /\ j - 0 = j /\ z + j = j + z
      OBVIOUS
    <3> QED
      BY <1>1, <3>1
  <2>5. Own(x, q1, r) => 1 <= j
    BY DEF Own
  <2>6. ~(j <= k1) <=> k1 < j
    OBVIOUS
  <2> QED
    BY <1>6, <2>1, <2>2, <2>3, <2>4, <2>5, <2>6 DEF Becomes
<1>7. CASE p # q1 /\ p # p1
  <2>1. ~InBuffer(x, p1, 0, k1)
    BY <1>7 DEF InBuffer
  <2> PICK f : f = From(q1, q2, p)
    OBVIOUS
  <2>2. f \in Places /\ f # q2 /\ f = IF q1 < p /\ p <= q2 THEN p - 1 ELSE p
    BY <1>7 DEF From, Places
  <2>3. Kept(x, d, t, 0, p2) <=> Own(x, f, r)
    BY <1>5, <1>7, <2>2
  <2>4. Becomes(x, r, s, q1, k1, q2, z) <=> Own(x, f, r)
    BY <1>7, <2>2 DEF Becomes
  <2> QED
    BY <2>1, <2>3, <2>4
<1> QED
  BY <1>4, <1>6, <1>7

\* x was in the block that is plugged in, or in one that is after it then, or neither.
Plugged(x, x_0, q1, q2, z) ==
    /\ Slot(x) /\ Slot(x_0) /\ x[3] = x_0[3]
    /\ \/ x[1] = q1 /\ x[2] <= z /\ x_0[1] = q1 /\ x_0[2] = x[2] - z
       \/ q1 < x[1] /\ x[1] <= q2 /\ 1 <= x[2] /\ x_0[1] = x[1] - 1 /\ x_0[2] = x[2]
       \/ x_0 = x /\ (x[1] < q1 \/ q2 < x[1])

\* They stay in order.
LEMMA PluggedInLine ==
    ASSUME NEW q1 \in Nat, NEW k1 \in Nat, NEW q2 \in Nat, NEW z \in Nat, NEW e \in Nat, q1 < q2, q2 < e,
           NEW p1 \in Nat, p1 = q1 + 1, NEW p2 \in Nat, p2 = q2 + 1,
           NEW x, NEW x_0, Plugged(x, x_0, q1, q2, z), NEW y, NEW y_0, Plugged(y, y_0, q1, q2, z), Before(x, y)
    PROVE  InOrder(x, y, x_0, y_0, q1, k1, q2, p1, p2, e)
<1>1. /\ x[1] \in Nat /\ x[2] \in Int /\ x_0[1] \in Nat /\ x_0[2] \in Int
      /\ \/ x[1] = q1 /\ x[2] <= z /\ x_0[1] = q1 /\ x_0[2] = x[2] - z
         \/ q1 < x[1] /\ x[1] <= q2 /\ 1 <= x[2] /\ x_0[1] = x[1] - 1 /\ x_0[2] = x[2]
         \/ x_0 = x /\ (x[1] < q1 \/ q2 < x[1])
  BY DEF Plugged, Slot
<1>2. /\ y[1] \in Nat /\ y[2] \in Int /\ y_0[1] \in Nat /\ y_0[2] \in Int
      /\ \/ y[1] = q1 /\ y[2] <= z /\ y_0[1] = q1 /\ y_0[2] = y[2] - z
         \/ q1 < y[1] /\ y[1] <= q2 /\ 1 <= y[2] /\ y_0[1] = y[1] - 1 /\ y_0[2] = y[2]
         \/ y_0 = y /\ (y[1] < q1 \/ q2 < y[1])
  BY DEF Plugged, Slot
<1>3. x[1] < y[1] \/ (x[1] = y[1] /\ x[2] < y[2])
  BY DEF Before
<1>4. Before(x_0, y_0)
  BY <1>1, <1>2, <1>3 DEF Before
<1>5. ASSUME NEW s \in Nat, s <= q1 \/ e <= s, x_0[1] < s, s <= y_0[1] PROVE x[1] < s /\ s <= y[1]
  BY <1>1, <1>2, <1>5
<1>6. x_0[1] < q2 /\ (q1 < x_0[1] \/ (x_0[1] = q1 /\ k1 < x_0[2])) =>
           x[1] < p2 /\ (p1 < x[1] \/ (x[1] = p1 /\ k1 < x[2]))
  BY <1>1
<1>7. q2 <= y_0[1] /\ y_0[1] < e => p2 <= y[1] /\ y[1] < e
  BY <1>2
<1> QED
  BY <1>4, <1>5, <1>6, <1>7 DEF InOrder, Remains

\* What D holds is what C held with the block at q2 plugged in at q1.
Plugging(C, D, q1, q2, z) ==
    /\ \E g : \A x \in D : g[x] \in C /\ Plugged(x, g[x], q1, q2, z)
    /\ \A x \in C : \E y \in D : x[3] = y[3]

\* The position of what goes to the block.
LEMMA Lifted ==
    ASSUME NEW j \in Int, NEW z \in Nat, NEW k1 \in Nat
    PROVE  /\ j \in 1 .. z => 0 - z < j - z /\ j - z <= k1 /\ (j - z) + z = j /\ j - z \in Int /\ j <= z
           /\ 0 - z < j /\ ~(1 <= j) => j + z \in 1 .. z /\ j + z \in Int
           /\ 1 <= j => 0 - z < j
           /\ k1 < j => 1 <= j
OBVIOUS

\* Each element is at the place its block has been moved to.
LEMMA PluggingIs ==
    ASSUME Number \in Nat, NEW r, NEW q1 \in Nat, NEW q2 \in Nat, q1 \in Places, q2 \in Places, q1 < q2,
           NEW s, NEW k1 \in Nat, NEW z \in Nat,
           NEW C, \A x : x \in C <=> Slot(x) /\ Was(x, r, s, q1, k1, q2, z),
           NEW D, \A x : x \in D <=> Slot(x) /\ Becomes(x, r, s, q1, k1, q2, z)
    PROVE  Plugging(C, D, q1, q2, z)
<1> DEFINE Move(x) == IF x[1] = q1 THEN <<q1, x[2] - z, x[3]>>
                      ELSE IF q1 < x[1] /\ x[1] <= q2 THEN <<x[1] - 1, x[2], x[3]>> ELSE x
<1>1. ASSUME NEW x \in D PROVE Move(x) \in C /\ Plugged(x, Move(x), q1, q2, z)
  <2>1. Slot(x) /\ Becomes(x, r, s, q1, k1, q2, z)
    OBVIOUS
  <2> PICK j \in Int : j = x[2]
    BY <2>1 DEF Slot
  <2> PICK p \in Nat : p = x[1] /\ p \in Places
    BY <2>1 DEF Slot
  <2> PICK v \in Elements : v = x[3]
    BY <2>1 DEF Slot, Slots
  <2>2. CASE p = q1
    <3> PICK y : y = <<q1, j - z, v>>
      OBVIOUS
    <3>1. j \in 1 .. z /\ v = s[j]
      BY <2>1, <2>2 DEF Becomes
    <3>2. 0 - z < j - z /\ j - z <= k1 /\ (j - z) + z = j /\ j - z \in Int /\ j <= z
      BY <3>1, Lifted
    <3>3. y[1] = q1 /\ y[2] = j - z /\ y[3] = v /\ Slot(y)
      BY <3>2 DEF Slot, Slots
    <3>4. Was(y, r, s, q1, k1, q2, z)
      BY <3>1, <3>2, <3>3 DEF Was
    <3>5. y \in C /\ Move(x) = y
      BY <2>2, <3>3, <3>4
    <3> QED
      BY <2>1, <2>2, <3>2, <3>3, <3>5 DEF Plugged
  <2>3. CASE q1 < p /\ p <= q2
    <3> PICK y : y = <<p - 1, j, v>>
      OBVIOUS
    <3>1. p - 1 \in Places /\ p - 1 \in Nat /\ p - 1 # q2
      BY <2>3 DEF Places
    <3>2. y[1] = p - 1 /\ y[2] = j /\ y[3] = v /\ Slot(y)
      BY <3>1 DEF Slot, Slots
    <3>3. ASSUME p = q1 + 1 PROVE Was(y, r, s, q1, k1, q2, z) /\ 1 <= j
      <4>1. (1 <= j /\ j <= k1 /\ v = s[j + z]) \/ (k1 < j /\ Own(x, q1, r))
        <5>1. p # q1
          BY <3>3
        <5> QED
          BY <2>1, <3>3, <5>1 DEF Becomes
      <4>2. p - 1 = q1
        BY <3>3
      <4>3. 1 <= j /\ 0 - z < j
        BY <4>1, Lifted
      <4>4. Own(x, q1, r) => Own(y, q1, r)
        BY <3>2 DEF Own
      <4>5. Was(y, r, s, q1, k1, q2, z)
        BY <3>2, <4>1, <4>2, <4>3, <4>4 DEF Was
      <4> QED
        BY <4>3, <4>5
    <3>4. ASSUME p # q1 + 1 PROVE Was(y, r, s, q1, k1, q2, z) /\ 1 <= j
      <4>1. Own(x, p - 1, r)
        <5>1. p # q1
          BY <2>3
        <5> QED
          BY <2>1, <2>3, <3>4, <5>1 DEF Becomes
      <4>2. p - 1 # q1
        BY <3>4
      <4>3. 1 <= j /\ Own(y, p - 1, r)
        BY <3>2, <4>1 DEF Own
      <4>4. Was(y, r, s, q1, k1, q2, z)
        BY <3>1, <3>2, <4>2, <4>3 DEF Was
      <4> QED
        BY <4>3, <4>4
    <3>5. Was(y, r, s, q1, k1, q2, z) /\ 1 <= j
      BY <3>3, <3>4
    <3>6. y \in C /\ Move(x) = y
      <4>1. p # q1
        BY <2>3
      <4> QED
        BY <2>3, <3>2, <3>5, <4>1
    <3> QED
      BY <2>1, <2>3, <3>2, <3>5, <3>6 DEF Plugged
  <2>4. CASE p < q1 \/ q2 < p
    <3>1. p # q1 /\ p # q2 /\ p # q1 + 1 /\ ~(q1 < p /\ p <= q2)
      BY <2>4
    <3>2. Own(x, p, r)
      BY <2>1, <3>1 DEF Becomes
    <3>3. Was(x, r, s, q1, k1, q2, z) /\ Move(x) = x
      BY <3>1, <3>2 DEF Was
    <3> QED
      BY <2>1, <2>4, <3>3 DEF Plugged
  <2> QED
    BY <2>2, <2>3, <2>4
<1>2. ASSUME NEW x \in C PROVE \E y \in D : x[3] = y[3]
  <2>1. Slot(x) /\ Was(x, r, s, q1, k1, q2, z)
    OBVIOUS
  <2> PICK j \in Int : j = x[2]
    BY <2>1 DEF Slot
  <2> PICK p \in Nat : p = x[1] /\ p \in Places
    BY <2>1 DEF Slot
  <2> PICK v \in Elements : v = x[3]
    BY <2>1 DEF Slot, Slots
  <2>2. CASE p = q1 /\ ~(1 <= j)
    <3> PICK y : y = <<q1, j + z, v>>
      OBVIOUS
    <3>1. 0 - z < j /\ v = s[j + z]
      <4>1. ~(k1 < j)
        BY <2>2, Lifted
      <4> QED
        BY <2>1, <2>2, <4>1 DEF Was
    <3>2. j + z \in 1 .. z /\ j + z \in Int
      BY <2>2, <3>1, Lifted
    <3>3. y[1] = q1 /\ y[2] = j + z /\ y[3] = v /\ Slot(y)
      BY <3>2 DEF Slot, Slots
    <3>4. Becomes(y, r, s, q1, k1, q2, z)
      BY <3>1, <3>2, <3>3 DEF Becomes
    <3>5. y \in D
      BY <3>3, <3>4
    <3> QED
      BY <3>3, <3>5
  <2>3. CASE q1 <= p /\ p < q2 /\ (p = q1 => 1 <= j)
    <3> PICK y : y = <<p + 1, j, v>>
      OBVIOUS
    <3>1. p + 1 \in Places /\ p + 1 \in Nat /\ q1 < p + 1 /\ p + 1 <= q2 /\ (p + 1) - 1 = p /\ p + 1 # q1
      BY <2>3 DEF Places
    <3>2. y[1] = p + 1 /\ y[2] = j /\ y[3] = v /\ Slot(y)
      BY <3>1 DEF Slot, Slots
    <3>3. ASSUME p = q1 PROVE Becomes(y, r, s, q1, k1, q2, z)
      <4>1. (0 - z < j /\ j <= k1 /\ v = s[j + z]) \/ (k1 < j /\ Own(x, q1, r))
        BY <2>1, <3>3 DEF Was
      <4>2. Own(x, q1, r) => Own(y, q1, r)
        BY <3>2 DEF Own
      <4> QED
        BY <2>3, <3>1, <3>2, <3>3, <4>1, <4>2 DEF Becomes
    <3>4. ASSUME p # q1 PROVE Becomes(y, r, s, q1, k1, q2, z)
      <4>1. Own(x, p, r)
        BY <2>1, <3>4 DEF Was
      <4>2. Own(y, p, r) /\ p + 1 # q1 + 1
        BY <3>2, <3>4, <4>1 DEF Own
      <4>3. Own(y, y[1] - 1, r) /\ y[1] # q1 /\ y[1] # q1 + 1 /\ q1 < y[1] /\ y[1] <= q2
        BY <3>1, <3>2, <4>2
      <4> QED
        BY <4>3 DEF Becomes
    <3>5. y \in D
      BY <3>2, <3>3, <3>4
    <3> QED
      BY <3>2, <3>5
  <2>4. CASE p < q1 \/ q2 <= p
    <3>1. p # q1 /\ p # q1 + 1 /\ p # q2 /\ ~(q1 < p /\ p <= q2) /\ Own(x, p, r)
      <4>1. p # q1
        BY <2>4
      <4>2. p # q2 /\ Own(x, p, r)
        BY <2>1, <4>1 DEF Was
      <4> QED
        BY <2>4, <4>1, <4>2
    <3>2. Becomes(x, r, s, q1, k1, q2, z)
      BY <3>1 DEF Becomes
    <3> QED
      BY <2>1, <3>2
  <2> QED
    BY <2>2, <2>3, <2>4
<1>3. \E g : \A x \in D : g[x] \in C /\ Plugged(x, g[x], q1, q2, z)
  <2> HIDE DEF Move
  <2> PICK g : g = [x \in D |-> Move(x)]
    OBVIOUS
  <2>1. \A x \in D : g[x] = Move(x)
    OBVIOUS
  <2> QED
    BY <1>1, <2>1
<1> QED
  BY <1>2, <1>3 DEF Plugging

\* The order survives the move of a block.
LEMMA PluggedSorted ==
    ASSUME NEW q1 \in Nat, NEW q2 \in Nat, q1 < q2, NEW k1 \in Nat, NEW z \in Nat, NEW e \in Nat, q2 < e,
           NEW p1 \in Nat, p1 = q1 + 1, NEW p2 \in Nat, p2 = q2 + 1,
           NEW S, Outside(S, q1, e), NEW C, Arranged(C, S, Rest(C, q1, k1, q2), Second(C, q2, e)),
           NEW D, Plugging(C, D, q1, q2, z)
    PROVE  Arranged(D, S, Rest(D, p1, k1, p2), Second(D, p2, e))
<1> PICK U, V : U = Rest(C, q1, k1, q2) /\ V = Second(C, q2, e)
  OBVIOUS
<1> PICK P, Q : P = Rest(D, p1, k1, p2) /\ Q = Second(D, p2, e)
  OBVIOUS
<1> PICK g : \A x \in D : g[x] \in C /\ Plugged(x, g[x], q1, q2, z)
  BY DEF Plugging
<1>1. ASSUME NEW x \in D PROVE g[x][3] = x[3] /\ x \in Slots
  BY DEF Plugged, Slot
<1>2. ASSUME NEW x \in D, NEW y \in D, Before(x, y)
      PROVE  /\ Before(g[x], g[y])
             /\ \A s \in S : g[x][1] < s /\ s <= g[y][1] => x[1] < s /\ s <= y[1]
             /\ g[x] \in U /\ g[y] \in V => x \in P /\ y \in Q
  <2> PICK x_0, y_0 : x_0 = g[x] /\ y_0 = g[y]
    OBVIOUS
  <2>1. Plugged(x, x_0, q1, q2, z) /\ Plugged(y, y_0, q1, q2, z) /\ x_0 \in C /\ y_0 \in C
    OBVIOUS
  <2>2. InOrder(x, y, x_0, y_0, q1, k1, q2, p1, p2, e)
    BY <1>2, <2>1, PluggedInLine
  <2>3. /\ Before(x_0, y_0)
        /\ \A s \in Nat : s <= q1 \/ e <= s => (x_0[1] < s /\ s <= y_0[1] => x[1] < s /\ s <= y[1])
        /\ Remains(x_0, q1, k1, q2) /\ q2 <= y_0[1] /\ y_0[1] < e => Remains(x, p1, k1, p2) /\ p2 <= y[1] /\ y[1] < e
    BY <2>2 DEF InOrder
  <2>4. \A s \in S : x_0[1] < s /\ s <= y_0[1] => x[1] < s /\ s <= y[1]
    BY <2>3 DEF Outside
  <2>5. x_0 \in U /\ y_0 \in V => x \in P /\ y \in Q
    BY <2>3 DEF Remains, Rest, Second
  <2> QED
    BY <2>3, <2>4, <2>5
<1>3. Moves(g, C, D, S, U, V, P, Q)
  <2>1. D \subseteq Slots
    BY <1>1
  <2>2. \A x \in C : \E y \in D : x[3] = y[3]
    BY DEF Plugging
  <2> QED
    BY <1>1, <1>2, <2>1, <2>2 DEF Moves
<1>4. Arranged(C, S, U, V)
  OBVIOUS
<1> QED
  BY <1>3, <1>4, Rearranged

\* There are such numbers.
LEMMA AdvanceAre ==
    ASSUME NEW k1 \in Nat, NEW k2 \in Nat, NEW len \in Nat, len = k1 + k2
    PROVE  \E k, len1 \in Nat : \E off, off1 \in Int : Advance(k1, k2, k, len, len1, off, off1)
<1>1. /\ k2 + 1 \in Nat /\ len + 1 \in Nat /\ 0 - k2 \in Int /\ 0 - (k2 + 1) \in Int
      /\ k1 = (0 - k2) + len /\ k1 = (0 - (k2 + 1)) + (len + 1)
  OBVIOUS
<1>2. Advance(k1, k2, k2 + 1, len, len + 1, 0 - k2, 0 - (k2 + 1))
  BY <1>1 DEF Advance
<1> QED
  BY <1>1, <1>2

\* Append makes the buffer one longer.
LEMMA AppendExtends ==
    ASSUME NEW v \in Elements, NEW buf \in Seq(Elements), NEW len \in Nat, len = Len(buf), NEW s, IsAppend(s, buf, v),
           NEW k1, NEW k2, NEW k, NEW len1 \in Nat, NEW off, NEW off1, Advance(k1, k2, k, len, len1, off, off1)
    PROVE  Extends(s, buf, v, len, len1) /\ s \in Seq(Elements) /\ Len(s) = len1
<1>1. len1 = len + 1
  BY DEF Advance
<1>2. s \in Seq(Elements) /\ Len(s) = len + 1
  BY Appended DEF IsAppend
<1>3. \A j \in 1 .. len1 : s[j] = IF j = len1 THEN v ELSE buf[j]
  BY <1>1 DEF IsAppend
<1> QED
  BY <1>1, <1>2, <1>3 DEF Extends

\* What the list holds stays in order when the next of the second sequence is taken.
LEMMA TookArranged ==
    ASSUME SortAssumption, Number \in Nat, NEW r, NEW q1 \in Nat, q1 \in Places, NEW q2 \in Nat, NEW S, NEW C,
           NEW e \in Nat, NEW k1 \in Nat, NEW k2 \in Nat, NEW x, NEW w,
           Heads(r, q1, q2, S, C, e, k1, k2, x, w), ~FirstIsNext,
           NEW k \in Nat, NEW len \in Nat, NEW len1 \in Nat, NEW off \in Int, NEW off1 \in Int,
           Advance(k1, k2, k, len, len1, off, off1), NEW v \in Elements, v = w[3],
           NEW s, Extends(s, buffer, v, len, len1),
           NEW D, D = Content(list, r, s, off1, k, q1, q2)
    PROVE  Arranged(D, S, Rest(D, q1, k1, q2), Second(D, q2, e))
<1>1. /\ C = Content(list, r, buffer, 0 - k2, k2, q1, q2)
      /\ Arranged(C, S, Rest(C, q1, k1, q2), Second(C, q2, e))
      /\ q1 < q2 /\ q2 < e /\ Outside(S, q1, e)
      /\ w \in C /\ w[1] = q2 /\ w[2] = k2 + 1
  BY DEF Heads
<1>2. C = Content(list, r, buffer, off, k2, q1, q2)
  BY <1>1 DEF Advance
<1>3. Taking(C, D, q1, k1, q2, k2)
  <2>1. q1 # q2
    BY <1>1
  <2> QED
    BY <1>1, <1>2, <2>1, TakingIs
<1>4. \A y \in Rest(C, q1, k1, q2) : Precedes(w[3], y[3])
  BY Overtakes
<1>5. \A y, z \in C : y[1] = z[1] /\ y[2] = z[2] => y = z
  BY <1>2, Single
<1> QED
  BY <1>1, <1>3, <1>4, <1>5, TookSorted

\* And when its block is plugged in and filled.
After(q1, q2, p1, p2) == p1 \in Nat /\ p2 \in Nat /\ p1 = q1 + 1 /\ p2 = q2 + 1

\* The block of the second sequence that is plugged in and filled has all in order.
LEMMA SecondFilled ==
    ASSUME Number \in Nat, NEW r, Listing(r), NEW q1 \in Nat, NEW q2 \in Nat, q1 \in Places, q2 \in Places, q1 < q2,
           NEW S, NEW e \in Nat, q2 < e, Outside(S, q1, e), NEW s, NEW k1 \in Nat,
           NEW z \in Nat, z = Len(list[r[q2]]), NEW len \in Nat, len = Len(s), NEW off \in Int, InFront(off, len, k1, z),
           NEW C, C = Content(list, r, s, off, z, q1, q2), Arranged(C, S, Rest(C, q1, k1, q2), Second(C, q2, e)),
           NEW d, NEW buf, NEW t, Filled(d, buf, r, t, q1, k1, q2, s, z),
           NEW p1, NEW p2, After(q1, q2, p1, p2), NEW D, D = Content(d, t, buf, 0, 0, p1, p2)
    PROVE  Arranged(D, S, Rest(D, p1, k1, p2), Second(D, p2, e))
<1>0. q1 # q2 /\ p1 \in Nat /\ p2 \in Nat /\ p1 = q1 + 1 /\ p2 = q2 + 1
  BY DEF After
<1>1. \A x : x \in C <=> Slot(x) /\ Was(x, r, s, q1, k1, q2, z)
  <2>1. Were(C, r, s, q1, k1, q2, z)
    BY <1>0, WasIs
  <2> QED
    BY <2>1 DEF Were
<1>2. \A x : x \in D <=> Slot(x) /\ Becomes(x, r, s, q1, k1, q2, z)
  BY <1>0, BecomesIs
<1>3. Plugging(C, D, q1, q2, z)
  BY <1>1, <1>2, PluggingIs
<1> QED
  BY <1>0, <1>3, PluggedSorted

\* What is left of the second block when it has the next one taken.
SecondUsed(k1, k, z, len1, off1) == k = z /\ InFront(off1, len1, k1, z) /\ z <= len1 /\ len1 - z = k1

\* When the last of the second block is taken the buffer starts before all that is left.
LEMMA LastOfSecond ==
    ASSUME NEW k1 \in Nat, NEW k2 \in Nat, NEW k \in Nat, NEW len \in Nat, NEW len1 \in Nat, NEW off \in Int,
           NEW off1 \in Int, Advance(k1, k2, k, len, len1, off, off1), NEW z \in Nat, k2 < z, ~(k < z)
    PROVE  SecondUsed(k1, k, z, len1, off1)
BY DEF Advance, InFront, SecondUsed

\* The next of the second sequence goes to the buffer, and a block that is used up goes
\* before the first and has what is before what is left in the buffer.
LEMMA TakeSecondOrder ==
    ASSUME SortAssumption, NEW r, NEW q1 \in Nat, NEW q2 \in Nat, NEW S,
           Inv(r, q1, q2), Order(r, q1, q2, S), take_second
    PROVE  /\ i2 + 1 < nr(b2) => Order(r, q1, q2, S)'
           /\ i2 + 1 >= nr(b2) => \A t : PluggedIn(t, r, q1, q2) => Order(t, q1 + 1, q2 + 1, S)'
<1>1. /\ pc = "merge" /\ ~FirstIsNext /\ given' = given /\ i2' = i2 + 1
      /\ UNCHANGED <<head, blocks, block1, after, m, b1, i1>>
  BY DEF take_second, pass
<1>2. Merging /\ Typed /\ given \in Lists
  BY <1>1 DEF Merging, Inv
<1>3. Known(r, q1, q2)
  BY <1>2, KnownIs
<1>4. /\ Number \in Nat /\ q1 \in Places /\ q2 \in Places /\ b2 = r[q2] /\ b2 \in Blocks /\ Listing(r) /\ ListOK(list)
      /\ buffer \in Seq(Elements) /\ Places = 1 .. Number /\ End(q2) = q2 + m /\ m \in Nat
  BY <1>1, <1>2, <1>3, EndIs DEF Known, Cursors, Typed, Ring
<1> PICK e, k1, k2 \in Nat : \E C, x, w : Heads(r, q1, q2, S, C, e, k1, k2, x, w)
  BY <1>1, HeadsAre
<1> PICK C, x, w : Heads(r, q1, q2, S, C, e, k1, k2, x, w)
  OBVIOUS
<1>5. /\ k1 = i1 /\ k2 = i2 /\ e = End(q2) /\ q1 < q2 /\ q2 < e /\ e <= Number + 1 /\ Marks(r, q1, e, S)
      /\ Outside(S, q1, e) /\ w[3] = list[b2][k2 + 1]
      /\ w \in C /\ Arranged(C, S, Rest(C, q1, k1, q2), Second(C, q2, e))
  BY DEF Heads
<1> PICK z \in Nat : z = nr(b2)
  BY <1>2, <1>4, Sizes
<1>6. k2 < z /\ Len(buffer) = k1 + k2 /\ z = Len(list[b2])
  <2>1. k2 < z /\ Len(buffer) = k1 + k2
    BY <1>1, <1>5 DEF Inv, BufferExact
  <2> QED
    BY <1>2, <1>4, <2>1, Sizes
<1> PICK len \in Nat : len = Len(buffer)
  BY <1>4
<1>7. \E k_0, len_0 \in Nat : \E off_0, off_1 \in Int : Advance(k1, k2, k_0, len, len_0, off_0, off_1)
  BY <1>6, AdvanceAre
<1> PICK k, len1 \in Nat : \E off_0, off_1 \in Int : Advance(k1, k2, k, len, len1, off_0, off_1)
  BY <1>7
<1> PICK off, off1 \in Int : Advance(k1, k2, k, len, len1, off, off1)
  OBVIOUS
<1> PICK v \in Elements : v = w[3]
  BY <1>5 DEF Arranged, Slots
<1> PICK s : IsAppend(s, buffer, v)
  BY DEF IsAppend
<1>8. Extends(s, buffer, v, len, len1) /\ s \in Seq(Elements) /\ Len(s) = len1
  BY <1>4, AppendExtends
<1> PICK D : D = Content(list, r, s, off1, k, q1, q2)
  OBVIOUS
<1>9. Arranged(D, S, Rest(D, q1, k1, q2), Second(D, q2, e))
  BY <1>1, <1>4, <1>8, TookArranged
<1>10. s = Append(buffer, list[b2][i2 + 1]) /\ (i2 + 1 < nr(b2) <=> k2 + 1 < z)
  BY <1>5 DEF IsAppend
<1>11. k = i2' /\ off1 = 0 - k /\ k1 = off1 + len1
  BY <1>1, <1>5 DEF Advance
<1>12. ASSUME i2 + 1 < nr(b2) PROVE Order(r, q1, q2, S)'
  <2>1. buffer' = s /\ list' = list /\ pc' = "merge"
    BY <1>1, <1>10, <1>12 DEF take_second
  <2>2. Merging' /\ Off' = off1 /\ Gone' = k /\ e = End(q2)'
    BY <1>1, <1>5, <1>11, <2>1 DEF Merging, Off, Gone, End
  <2>3. k1 = off1 + Len(buffer')
    BY <1>8, <1>11, <2>1
  <2>4. D = Content(list', r, buffer', off1, k, q1, q2) /\ q1 <= q1
    BY <2>1
  <2> QED
    BY <1>1, <1>2, <1>5, <1>9, <2>2, <2>3, <2>4, OrderNext
<1>13. ASSUME i2 + 1 >= nr(b2), NEW t, PluggedIn(t, r, q1, q2) PROVE Order(t, q1 + 1, q2 + 1, S)'
  <2>0. \A j \in Places : t[j] = r[From(q1, q2, j)]
    BY <1>13 DEF PluggedIn
  <2>1. ~(i2 + 1 < nr(b2)) /\ ~(k2 + 1 < z)
    <3>1. ~(i2 + 1 < nr(b2))
      <4>1. i2 + 1 >= z /\ i2 + 1 \in Nat
        BY <1>5, <1>13
      <4> QED
        BY <4>1
    <3> QED
      BY <1>10, <3>1
  <2>2. list' = FLUSH_TO(b2, s) /\ buffer' = Flushed(b2, s) /\ pc' = "next2"
    BY <1>1, <1>10, <2>1 DEF take_second
  <2>3. k = z /\ InFront(off1, len1, k1, z) /\ z <= len1 /\ len1 - z = k1
    <3>1. ~(k < z)
      BY <2>1 DEF Advance
    <3>2. SecondUsed(k1, k, z, len1, off1)
      BY <1>6, <3>1, LastOfSecond
    <3> QED
      BY <3>2 DEF SecondUsed
  <2> PICK d, buf : d = list' /\ buf = buffer'
    OBVIOUS
  <2>4. Flush(d, buf, b2, s, z) /\ Len(buf) = k1
    <3>1. z <= Len(s)
      BY <1>8, <2>3
    <3>2. Flush(FLUSH_TO(b2, s), Flushed(b2, s), b2, s, z) /\ Len(Flushed(b2, s)) = Len(s) - z
      BY <1>4, <1>8, <3>1, FlushedIs
    <3> QED
      BY <1>8, <2>2, <2>3, <3>2
  <2>5. Filled(d, buf, r, t, q1, k1, q2, s, z)
    BY <1>4, <2>0, <2>4 DEF Filled
  <2> PICK p1, p2 \in Nat : p1 = q1 + 1 /\ p2 = q2 + 1
    OBVIOUS
  <2> PICK G : G = Content(d, t, buf, 0, 0, p1, p2)
    OBVIOUS
  <2>6. Arranged(G, S, Rest(G, p1, k1, p2), Second(G, p2, e))
    <3>1. z = Len(list[r[q2]]) /\ len1 = Len(s)
      BY <1>4, <1>6, <1>8
    <3>2. D = Content(list, r, s, off1, z, q1, q2)
      BY <2>3
    <3>3. After(q1, q2, p1, p2)
      BY DEF After
    <3>4. Number \in Nat /\ Listing(r) /\ q1 \in Places /\ q2 \in Places
      BY <1>4
    <3>5. q1 < q2 /\ q2 < e /\ Outside(S, q1, e)
      BY <1>5
    <3>6. InFront(off1, len1, k1, z)
      BY <2>3
    <3> QED
      BY <1>9, <2>5, <3>1, <3>2, <3>3, <3>4, <3>5, <3>6, SecondFilled
  <2>7. Merging' /\ Off' = 0 /\ Gone' = 0
    BY <2>2 DEF Merging, Off, Gone
  <2>8. e = End(p2)'
    <3>1. e = p2 + m - 1
      BY <1>4, <1>5
    <3> QED
      BY <1>1, <2>2, <3>1 DEF End
  <2>9. e <= Number => t[e] = r[e]
    <3> SUFFICES ASSUME e <= Number PROVE t[e] = r[e]
      OBVIOUS
    <3>1. e \in Places /\ From(q1, q2, e) = e
      BY <1>4, <1>5 DEF From
    <3> QED
      BY <2>0, <3>1
  <2>10. G = Content(list', t, buffer', 0, 0, p1, p2) /\ q1 <= p1
    OBVIOUS
  <2>11. k1 = 0 + Len(buffer')
    BY <2>4
  <2>12. Order(t, p1, p2, S)'
    BY <1>1, <1>2, <1>5, <2>6, <2>7, <2>8, <2>9, <2>10, <2>11, OrderNext
  <2> QED
    BY <2>12
<1> QED
  BY <1>12, <1>13

IInv == \E r, S : \E q1, q2 \in Nat : Inv(r, q1, q2) /\ Order(r, q1, q2, S)

\* Any list and any starts will do for the next state.
LEMMA IInvNext ==
    ASSUME NEW r, NEW S, NEW q1 \in Nat, NEW q2 \in Nat, Inv(r, q1, q2)', Order(r, q1, q2, S)'
    PROVE  IInv'
BY DEF IInv

\* Every turn of a loop keeps the inductive invariant.
LEMMA NextIInv ==
    ASSUME SortAssumption
    PROVE  IInv /\ [Next]_vars => IInv'
<1> SUFFICES ASSUME NEW r, NEW S, NEW q1 \in Nat, NEW q2 \in Nat, Inv(r, q1, q2), Order(r, q1, q2, S), [Next]_vars
             PROVE IInv'
  BY DEF IInv
<1>0. q1 + 1 \in Nat /\ q2 + 1 \in Nat
  OBVIOUS
<1>1. CASE sort_fragment
  BY <1>1, FragmentStep, FragmentOrder, IInvNext
<1>2. CASE sorted \/ next_pass
  BY <1>2, PassStep, PassOrder, IInvNext
<1>3. CASE pair
  <2>1. PICK p, q, e \in Nat : Paired(r, p, q, e)
    BY <1>3, PairStep
  <2>2. Order(r, p, q, S \ {q})'
    BY <1>3, <2>1, PairOrder
  <2>3. Inv(r, p, q)'
    BY <2>1 DEF Paired
  <2> QED
    BY <2>2, <2>3, IInvNext
<1>4. CASE skip_empty
  <2>1. Inv(r, q1, q2 + 1)' /\ Order(r, q1, q2 + 1, S)'
    BY <1>4, SkipEmptyStep, SkipEmptyOrder
  <2> QED
    BY <1>0, <2>1, IInvNext
<1>5. CASE skip_block
  <2>1. Inv(r, q1 + 1, q2)' /\ Order(r, q1 + 1, q2, S)'
    BY <1>5, SkipBlockStep, SkipBlockOrder
  <2> QED
    BY <1>0, <2>1, IInvNext
<1>6. CASE skip_empty_done \/ skip_block_done
  BY <1>6, SkipDoneStep, SkipDoneOrder, IInvNext
<1>7. CASE take_first
  BY <1>7, TakeFirstStep, TakeFirstOrder, IInvNext
<1>8. CASE next_first
  <2>1. Inv(r, q1 + 1, q2)' /\ Order(r, q1 + 1, q2, S)'
    BY <1>8, NextFirstStep, NextFirstOrder
  <2> QED
    BY <1>0, <2>1, IInvNext
<1>9. CASE no_first
  <2>1. Inv(r, q1 + 1, q2)' /\ Order(r, q1 + 1, q2, S)'
    BY <1>9, NoFirstStep, NoFirstOrder
  <2> QED
    BY <1>0, <2>1, IInvNext
<1>10. CASE flush
  <2>1. Inv(r, q1 + 1, q2)' /\ Order(r, q1 + 1, q2, S)'
    BY <1>10, FlushStep, FlushOrder
  <2> QED
    BY <1>0, <2>1, IInvNext
<1>11. CASE dump \/ no_second
  BY <1>11, DumpStep, DumpOrder, IInvNext
<1>12. CASE take_second
  <2>1. i2 + 1 < nr(b2) \/ i2 + 1 >= nr(b2)
    <3>1. nr(b2) \in Nat /\ i2 \in Nat
      BY Sizes DEF Inv, Typed
    <3> QED
      BY <3>1
  <2>2. CASE i2 + 1 < nr(b2)
    <3>1. Inv(r, q1, q2)' /\ Order(r, q1, q2, S)'
      BY <1>12, <2>2, TakeSecondStep, TakeSecondOrder
    <3> QED
      BY <3>1, IInvNext
  <2>3. CASE i2 + 1 >= nr(b2)
    <3>1. PICK t : Inv(t, q1 + 1, q2 + 1)' /\ PluggedIn(t, r, q1, q2)
      BY <1>12, <2>3, TakeSecondStep
    <3>2. \A u : PluggedIn(u, r, q1, q2) => Order(u, q1 + 1, q2 + 1, S)'
      BY <1>12, <2>3, TakeSecondOrder
    <3>3. Order(t, q1 + 1, q2 + 1, S)'
      BY <3>1, <3>2
    <3> QED
      BY <1>0, <3>1, <3>3, IInvNext
  <2> QED
    BY <2>1, <2>2, <2>3
<1>13. CASE next_second
  <2>1. CASE nr(b2) = 0
    <3>1. Inv(r, q1, q2 + 1)' /\ Order(r, q1, q2 + 1, S)'
      BY <1>13, <2>1, NextSecondStep, NextSecondOrder
    <3> QED
      BY <1>0, <3>1, IInvNext
  <2>2. CASE nr(b2) # 0
    <3>1. Inv(r, q1, q2)' /\ Order(r, q1, q2, S)'
      BY <1>13, <2>2, NextSecondStep, NextSecondOrder
    <3> QED
      BY <3>1, IInvNext
  <2> QED
    BY <2>1, <2>2
<1>14. CASE UNCHANGED vars \/ done
  BY <1>14, SameStep, SameOrder, IInvNext DEF done
<1> QED
  BY <1>1, <1>2, <1>3, <1>4, <1>5, <1>6, <1>7, <1>8, <1>9, <1>10, <1>11, <1>12, <1>13, <1>14 DEF Next

\* What holds in every state.
LEMMA Always == Spec => []IInv
<1>1. Init => IInv
  <2> SUFFICES ASSUME Init PROVE IInv
    OBVIOUS
  <2>1. Inv([i \in Places |-> i], 0, 0) /\ Order([i \in Places |-> i], 0, 0, {})
    BY SortAssumption, InitInv, InitOrder
  <2> QED
    BY <2>1 DEF IInv
<1>2. IInv /\ [Next]_vars => IInv'
  BY SortAssumption, NextIInv
<1> QED
  BY <1>1, <1>2, PTL DEF Spec

\* An element that a block has is listed, and what is listed is one.
LEMMA ListedIs ==
    ASSUME NEW r, r \in [Places -> Blocks], ListOK(list), NEW p \in Places, NEW i \in DOMAIN list[r[p]]
    PROVE  <<p, i, list[r[p]][i]>> \in Listed(list, r)
<1>1. r[p] \in Blocks /\ list[r[p]] \in Seq(Elements)
  BY DEF ListOK
<1>2. i \in 1 .. Len(list[r[p]]) /\ list[r[p]][i] \in Elements
  BY <1>1
<1> QED
  BY <1>2 DEF Listed, Content, Buffered, Slots

\* In the end nothing may have to change places any more.
LEMMA InTheEnd ==
    ASSUME SortAssumption, NEW r, NEW q1 \in Nat, NEW q2 \in Nat, NEW S,
           Inv(r, q1, q2), Order(r, q1, q2, S), pc = "done"
    PROVE  SortedStably
<1> PICK C : C = Listed(list, r)
  OBVIOUS
<1>1. /\ plist = head /\ Arranged(C, {}, {}, {})
  BY DEF Order
<1>2. /\ given \in Lists /\ r \in [Places -> Blocks] /\ Ring(r) /\ Listing(r) /\ head = r[1] /\ ListOK(list)
  BY DEF Inv, Layout, Merging, First, Typed, Ring
<1>3. Number \in Nat \ {0} /\ Places = 1 .. Number
  BY <1>2, Shape DEF Places
<1> PICK ring : ring = RingFrom(plist)
  OBVIOUS
<1>4. ring \in [Places -> Blocks] /\ \A k \in Places : ring[k] = r[k]
  <2>1. 1 \in Places
    BY <1>3
  <2>2. /\ RingFrom(r[1]) \in [Places -> Blocks]
        /\ \A k \in Places : RingFrom(r[1])[k] = r[Around(1, k - 1)]
    BY <1>2, <2>1, RingFromIs
  <2>3. \A k \in Places : Around(1, k - 1) = k
    BY <1>3 DEF Around
  <2> QED
    BY <1>1, <1>2, <2>2, <2>3
<1>5. ASSUME NEW p \in Places, NEW i \in DOMAIN list[r[p]]
      PROVE  <<p, i, list[r[p]][i]>> \in C
  BY <1>2, <1>5, ListedIs
<1>6. UNION {ToSet(list[b]) : b \in Blocks} = UNION {ToSet(given[b]) : b \in Blocks}
  <2>1. {x[3] : x \in C} = UNION {ToSet(given[b]) : b \in Blocks}
    BY <1>1 DEF Arranged, Whole
  <2>2. ASSUME NEW e, e \in UNION {ToSet(list[b]) : b \in Blocks} PROVE e \in {x[3] : x \in C}
    <3>1. PICK b \in Blocks : e \in ToSet(list[b])
      BY <2>2
    <3>2. PICK i \in DOMAIN list[b] : e = list[b][i]
      BY <3>1 DEF ToSet
    <3>3. PICK p \in Places : r[p] = b
      BY <1>2 DEF Listing
    <3> PICK x : x = <<p, i, list[r[p]][i]>>
      OBVIOUS
    <3>4. x \in C /\ x[3] = e
      BY <1>5, <3>2, <3>3
    <3> QED
      BY <3>4
  <2>3. ASSUME NEW x \in C PROVE x[3] \in UNION {ToSet(list[b]) : b \in Blocks}
    <3>1. x[1] \in Places /\ x[2] \in 1 .. Len(list[r[x[1]]]) /\ x[3] = list[r[x[1]]][x[2]]
      <4>1. x \in Listed(list, r)
        OBVIOUS
      <4>2. x \in Slots /\ ~(x[2] - 0 \in 1 .. Len(<<>>))
        BY <4>1 DEF Listed, Content
      <4> QED
        BY <4>1, <4>2 DEF Listed, Content, Buffered, Slots
    <3>2. r[x[1]] \in Blocks /\ list[r[x[1]]] \in Seq(Elements)
      BY <1>2, <3>1 DEF ListOK
    <3>3. x[3] \in ToSet(list[r[x[1]]])
      BY <3>1, <3>2 DEF ToSet
    <3> QED
      BY <3>2, <3>3
  <2> QED
    BY <2>1, <2>2, <2>3
<1>7. ASSUME NEW p \in Places, NEW q \in Places, NEW i \in DOMAIN list[r[p]], NEW j \in DOMAIN list[r[q]],
             p < q \/ (p = q /\ i < j)
      PROVE  Precedes(list[r[p]][i], list[r[q]][j])
  <2> PICK x, y : x = <<p, i, list[r[p]][i]>> /\ y = <<q, j, list[r[q]][j]>>
    OBVIOUS
  <2>1. x \in C /\ y \in C /\ Before(x, y) /\ x[3] = list[r[p]][i] /\ y[3] = list[r[q]][j]
    BY <1>5, <1>7 DEF Before
  <2>2. Precedes(x[3], y[3])
    BY <1>1, <2>1 DEF Arranged, Sorted
  <2> QED
    BY <2>1, <2>2
<1>8. DOMAIN ring = Places /\ \A p \in Places : ring[p] = r[p]
  BY <1>4
<1> QED
  BY <1>6, <1>7, <1>8 DEF SortedStably

\* A block keeps as many elements as it had, and the cursors are blocks.
THEOREM SortTypeCorrect == Spec => []SortTypeOK
<1>1. IInv => SortTypeOK
  <2> SUFFICES ASSUME IInv PROVE SortTypeOK
    OBVIOUS
  <2>1. Typed
    BY DEF IInv, Inv
  <2>2. \A b \in Blocks : nr(b) = Len(given[b])
    BY <2>1 DEF Typed, ListOK, nr
  <2> QED
    BY <2>1, <2>2 DEF SortTypeOK, Typed, ListOK
<1> QED
  BY <1>1, Always, PTL

\* The assertions of merge_block_seqs hold: what is taken and not written back is
\* in the buffer, and it fits where it goes.
THEOREM BufferCorrect == Spec => []BufferExact
<1>1. IInv => BufferExact
  BY DEF IInv, Inv
<1> QED
  BY <1>1, Always, PTL

\* Moving blocks never breaks the ring.
THEOREM RingCorrect == Spec => []RingWhole
<1>1. IInv => RingWhole
  <2> SUFFICES ASSUME IInv PROVE RingWhole
    OBVIOUS
  <2>1. PICK r \in [Places -> Blocks] : Ring(r)
    BY DEF IInv, Inv, Layout
  <2>2. given \in Lists /\ head \in Blocks
    BY DEF IInv, Inv, Typed
  <2> QED
    BY SortAssumption, <2>1, <2>2, RingIsWhole
<1> QED
  BY <1>1, Always, PTL

\* sort_list is a stable sort: in the end the list holds what it held, in order, and
\* those that are alike are in the order they were in.
THEOREM SortedStablyCorrect == Spec => []SortedStably
<1>1. IInv => SortedStably
  <2> SUFFICES ASSUME NEW r, NEW S, NEW q1 \in Nat, NEW q2 \in Nat, Inv(r, q1, q2), Order(r, q1, q2, S)
               PROVE SortedStably
    BY DEF IInv
  <2>1. CASE pc = "done"
    BY SortAssumption, <2>1, InTheEnd
  <2>2. CASE pc # "done"
    BY <2>2 DEF SortedStably
  <2> QED
    BY <2>1, <2>2
<1> QED
  BY <1>1, Always, PTL
=============================================================================
