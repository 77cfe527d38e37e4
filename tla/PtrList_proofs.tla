---------------------------- MODULE PtrList_proofs ----------------------------
(***************************************************************************)
(* The pointer lists of any number of blocks of any size: the blocks stay  *)
(* one doubly linked ring, none is lost, and none is left empty but by     *)
(* those who say so.  That the blocks in use are those met from the head   *)
(* along next is said with sets that are closed under next: a step that    *)
(* plugs in or pulls out a block turns a closed set of the new ring into   *)
(* one of the old ring.                                                    *)
(*                                                                         *)
(* And the list is a sequence: that of PtrSeq, which knows of no blocks.   *)
(* The sequence is chopped into the lists of the blocks, in the order of   *)
(* the ring; the lemmas say what a chopped sequence becomes when a list    *)
(* gets an element, loses one, is split, or is dropped because it is       *)
(* empty, and a loop's place is its place in a list after those before it. *)
(***************************************************************************)
EXTENDS PtrList, Recursion_proofs, FiniteSetTheorems

\* A set of blocks that is not left along next, or only to block h.
Closed(S, h) == \A c \in S : mem[c].next \in S \cup {Null, h}

\* Every block in use is met from head.
Reached ==
    \A S \in SUBSET Blocks :
        (head # Null => head \in S) /\ Closed(S, Null) => \A b \in Blocks : mem[b].used => b \in S

\* pack_ptr_list leaves no empty block behind.
EmptyAhead ==
    packing # Null =>
        \A S \in SUBSET Blocks :
            packing \in S /\ Closed(S, head) =>
                \A b \in Blocks : mem[b].used /\ mem[b].list = <<>> => b \in S

\* And apart from it a loop and undo_ptr_list_last do, that one at the end.
NoneEmpty ==
    packing = Null /\ ~unpacked =>
        \A b \in Blocks : mem[b].used /\ mem[b].list = <<>> => undone /\ b = mem[head].prev

\* Where a loop and pack_ptr_list may be.
Cursors ==
    /\ packing # Null => walk = NoWalk /\ head # Null /\ mem[packing].used
    /\ walk.dir # "none" => packing = Null /\ head # Null /\ walk.list # Null /\ mem[walk.list].used
    /\ walk.in => walk.dir # "none" /\ walk.nr \in 1 .. Len(mem[walk.list].list)
    /\ walk.dir = "backward" => walk.nr <= Len(mem[walk.list].list) + 1

Inv == TypeOK /\ LinksAgree /\ Reached /\ Cursors /\ EmptyAhead /\ NoneEmpty

\* Only elements change, not the ring.
SameRing ==
    /\ head' = head
    /\ mem' \in [Blocks -> PtrBlock]
    /\ \A b \in Blocks : /\ mem'[b].next = mem[b].next /\ mem'[b].prev = mem[b].prev
                         /\ mem'[b].used = mem[b].used

\* The blocks become linked as they are in m.
LinkedAs(m) ==
    \A c \in Blocks : /\ mem'[c].next = m[c].next /\ mem'[c].prev = m[c].prev
                      /\ mem'[c].used = m[c].used

\* Blocks m of which one has other elements.
WithList(m, b, t) == [m EXCEPT ![b].list = t]

-----------------------------------------------------------------------------
\* A step that changes elements only keeps the ring.
LEMMA SameRingKeeps ==
    ASSUME TypeOK, LinksAgree, Reached, SameRing
    PROVE  LinksAgree' /\ Reached'
<1>1. LinksAgree'
  BY DEF TypeOK, LinksAgree, SameRing, PtrBlock, Null, Blocks
<1>2. Reached'
  <2> SUFFICES ASSUME NEW S \in SUBSET Blocks,
                      (head # Null => head \in S) /\ Closed(S, Null)'
               PROVE  \A b \in Blocks : mem[b].used => b \in S
    BY DEF Reached, SameRing
  <2>1. Closed(S, Null)
    BY DEF Closed, SameRing
  <2> QED
    BY <2>1 DEF Reached
<1> QED
  BY <1>1, <1>2

\* The blocks when one is plugged in.
LEMMA Linked ==
    ASSUME TypeOK, LinksAgree, NEW b \in Blocks, mem[b].used, NEW n \in Blocks,
           NEW s \in Seq(Ptrs)
    PROVE  /\ link(b, n, s) \in [Blocks -> PtrBlock]
           /\ \A c \in Blocks : /\ link(b, n, s)[c].list = IF c = n THEN s ELSE mem[c].list
                                /\ link(b, n, s)[c].used <=> (c = n \/ mem[c].used)
<1>1. mem[b].next \in Blocks
  BY DEF LinksAgree
<1>2. \A c \in Blocks :
         /\ link(b, n, s)[c] \in PtrBlock
         /\ link(b, n, s)[c].list = IF c = n THEN s ELSE mem[c].list
         /\ link(b, n, s)[c].used <=> (c = n \/ mem[c].used)
  <2> TAKE c \in Blocks
  <2>1. mem[c] \in PtrBlock
    BY DEF TypeOK
  <2>2. link(b, n, s)[c] = IF c = n THEN [prev |-> b, next |-> mem[b].next, list |-> s, used |-> TRUE]
                           ELSE [mem[c] EXCEPT !.next = IF c = b THEN n ELSE @,
                                               !.prev = IF c = mem[b].next THEN n ELSE @]
    BY DEF link
  <2>3. CASE c = n
    BY <1>1, <2>2, <2>3 DEF PtrBlock
  <2>4. CASE c # n
    <3> DEFINE x == IF c = b THEN n ELSE mem[c].next
               y == IF c = mem[b].next THEN n ELSE mem[c].prev
    <3>1. link(b, n, s)[c] = [mem[c] EXCEPT !.next = x, !.prev = y]
      BY <2>2, <2>4
    <3>2. x \in Blocks \cup {Null} /\ y \in Blocks \cup {Null}
      BY <2>1 DEF PtrBlock
    <3> HIDE DEF x, y
    <3> QED
      BY <2>1, <2>4, <3>1, <3>2 DEF PtrBlock
  <2> QED
    BY <2>3, <2>4
<1>3. link(b, n, s) = [c \in Blocks |-> link(b, n, s)[c]]
  BY DEF link
<1> QED
  BY <1>2, <1>3

\* A block plugged in after a block of the ring is part of the ring.
LEMMA LinkKeeps ==
    ASSUME TypeOK, LinksAgree, Reached, head # Null,
           NEW b \in Blocks, mem[b].used, NEW n \in Blocks, ~mem[n].used,
           NEW s \in Seq(Ptrs), head' = head, LinkedAs(link(b, n, s))
    PROVE  LinksAgree' /\ Reached'
<1>1. mem[b].next \in Blocks /\ mem[mem[b].next].used /\ mem[mem[b].next].prev = b
  BY DEF LinksAgree
<1>2. \A c \in Blocks :
         /\ mem'[c].next = IF c = n THEN mem[b].next ELSE IF c = b THEN n ELSE mem[c].next
         /\ mem'[c].prev = IF c = n THEN b ELSE IF c = mem[b].next THEN n ELSE mem[c].prev
         /\ mem'[c].used <=> (c = n \/ mem[c].used)
  <2> TAKE c \in Blocks
  <2>1. mem[c] \in PtrBlock
    BY DEF TypeOK
  <2>2. link(b, n, s)[c] = IF c = n THEN [prev |-> b, next |-> mem[b].next, list |-> s, used |-> TRUE]
               ELSE [mem[c] EXCEPT !.next = IF c = b THEN n ELSE @,
                                   !.prev = IF c = mem[b].next THEN n ELSE @]
    BY DEF link
  <2>3. CASE c = n
    BY <2>2, <2>3 DEF LinkedAs
  <2>4. CASE c # n
    BY <2>1, <2>2, <2>4 DEF PtrBlock, LinkedAs
  <2> QED
    BY <2>3, <2>4
<1>3. n # b /\ n # mem[b].next /\ head \in Blocks /\ head # n
  BY <1>1 DEF LinksAgree, TypeOK
<1>4. LinksAgree'
  BY <1>1, <1>2, <1>3 DEF LinksAgree
<1>5. Reached'
  <2> SUFFICES ASSUME NEW S \in SUBSET Blocks, head \in S, Closed(S, Null)',
                      NEW c \in Blocks, mem'[c].used
               PROVE  c \in S
    BY DEF Reached
  <2> DEFINE U == {d \in S : mem[d].used}
  <2>1. \A d \in U : mem[d].next \in U
    <3> SUFFICES ASSUME NEW d \in U PROVE mem[d].next \in S
      BY DEF LinksAgree
    <3>1. d # n /\ mem[d].next \in Blocks
      BY DEF LinksAgree
    <3>2. CASE d = b
      <4>1. n \in S
        BY <1>2, <1>3, <3>2 DEF Closed, Blocks, Null
      <4>2. mem'[n].next = mem[b].next
        BY <1>2
      <4> QED
        BY <1>1, <3>2, <4>1, <4>2 DEF Closed, Blocks, Null
    <3>3. CASE d # b
      <4>1. mem'[d].next = mem[d].next
        BY <1>2, <3>1, <3>3
      <4> QED
        BY <3>1, <4>1 DEF Closed, Blocks, Null
    <3> QED
      BY <3>2, <3>3
  <2>2. Closed(U, Null) /\ head \in U /\ U \in SUBSET Blocks
    BY <2>1, <1>3 DEF Closed, LinksAgree
  <2>3. \A d \in Blocks : mem[d].used => d \in U
    <3> HIDE DEF U
    <3> QED
      BY <2>2 DEF Reached
  <2>4. n \in S
    <3>1. b \in S /\ mem'[b].next = n
      BY <2>3, <1>2, <1>3
    <3> QED
      BY <3>1 DEF Closed, Blocks, Null
  <2> QED
    BY <1>2, <2>3, <2>4
<1> QED
  BY <1>4, <1>5

\* What a block that is pulled out leaves.
LEMMA Unlinked ==
    ASSUME TypeOK, LinksAgree, NEW b \in Blocks, mem[b].used, mem[b].next # b
    PROVE  /\ mem[b].next \in Blocks /\ mem[b].prev \in Blocks
           /\ mem[b].prev # b /\ mem[mem[b].next].used /\ mem[mem[b].prev].used
           /\ unlink(b) \in [Blocks -> PtrBlock]
           /\ \A c \in Blocks : c # b =>
                 /\ unlink(b)[c].next = IF c = mem[b].prev THEN mem[b].next ELSE mem[c].next
                 /\ unlink(b)[c].prev = IF c = mem[b].next THEN mem[b].prev ELSE mem[c].prev
                 /\ unlink(b)[c].used = mem[c].used
                 /\ unlink(b)[c].list = mem[c].list
           /\ unlink(b)[b] = FreeBlock
<1>1. /\ mem[b].next \in Blocks /\ mem[b].prev \in Blocks
      /\ mem[b].prev # b /\ mem[mem[b].next].used /\ mem[mem[b].prev].used
  BY DEF LinksAgree
<1>2. FreeBlock \in PtrBlock
  BY DEF FreeBlock, PtrBlock, Null
<1>3. \A c \in Blocks : c # b =>
         /\ unlink(b)[c] \in PtrBlock
         /\ unlink(b)[c].next = IF c = mem[b].prev THEN mem[b].next ELSE mem[c].next
         /\ unlink(b)[c].prev = IF c = mem[b].next THEN mem[b].prev ELSE mem[c].prev
         /\ unlink(b)[c].used = mem[c].used
         /\ unlink(b)[c].list = mem[c].list
  <2> TAKE c \in Blocks
  <2> HAVE c # b
  <2>1. mem[c] \in PtrBlock
    BY DEF TypeOK
  <2>2. unlink(b)[c] = [mem[c] EXCEPT !.next = IF c = mem[b].prev THEN mem[b].next ELSE @,
                                      !.prev = IF c = mem[b].next THEN mem[b].prev ELSE @]
    BY DEF unlink
  <2> QED
    BY <1>1, <2>1, <2>2 DEF PtrBlock
<1>4. unlink(b)[b] = FreeBlock
  BY DEF unlink
<1>5. unlink(b) \in [Blocks -> PtrBlock]
  <2>1. \A c \in Blocks : unlink(b)[c] \in PtrBlock
    BY <1>2, <1>3, <1>4
  <2>2. unlink(b) = [c \in Blocks |-> unlink(b)[c]]
    BY DEF unlink
  <2> QED
    BY <2>1, <2>2
<1> QED
  BY <1>1, <1>3, <1>4, <1>5

\* A block pulled out, the head with its successor as the new head, leaves a ring
\* of the others.
LEMMA UnlinkKeeps ==
    ASSUME TypeOK, LinksAgree, Reached, head # Null,
           NEW b \in Blocks, mem[b].used, mem[b].next # b,
           mem' = unlink(b), head' = IF b = head THEN mem[b].next ELSE head
    PROVE  LinksAgree' /\ Reached'
<1> DEFINE nx == mem[b].next
           pv == mem[b].prev
<1>1. /\ nx \in Blocks /\ pv \in Blocks /\ pv # b /\ mem[nx].used /\ mem[pv].used
      /\ mem[pv].next = b /\ mem[nx].prev = b
  BY Unlinked DEF LinksAgree
<1>2. /\ \A c \in Blocks : c # b =>
            /\ mem'[c].next = IF c = pv THEN nx ELSE mem[c].next
            /\ mem'[c].prev = IF c = nx THEN pv ELSE mem[c].prev
            /\ mem'[c].used = mem[c].used
      /\ mem'[b].used = FALSE
  BY Unlinked DEF FreeBlock
<1>4. head \in Blocks /\ mem[head].used /\ head' \in Blocks
  BY <1>1 DEF LinksAgree, TypeOK
<1>3. LinksAgree'
  <2>1. mem'[head'].used
    BY <1>1, <1>2, <1>4
  <2>2. ASSUME NEW c \in Blocks, mem'[c].used
        PROVE  /\ mem'[c].next \in Blocks /\ mem'[c].prev \in Blocks
               /\ mem'[mem'[c].next].used /\ mem'[mem'[c].next].prev = c
               /\ mem'[mem'[c].prev].used /\ mem'[mem'[c].prev].next = c
    <3>1. c # b /\ mem[c].used
      BY <1>2, <2>2
    <3>2. /\ mem[c].next \in Blocks /\ mem[mem[c].next].used /\ mem[mem[c].next].prev = c
          /\ mem[c].prev \in Blocks /\ mem[mem[c].prev].used /\ mem[mem[c].prev].next = c
      BY <3>1 DEF LinksAgree
    <3>3. mem'[c].next \in Blocks /\ mem'[mem'[c].next].used /\ mem'[mem'[c].next].prev = c
      <4>1. CASE c = pv
        BY <1>1, <1>2, <3>1, <4>1
      <4>2. CASE c # pv
        <5>1. mem[c].next # b /\ mem[c].next # nx
          BY <1>1, <3>1, <3>2, <4>2
        <5> QED
          BY <1>2, <3>1, <3>2, <4>2, <5>1
      <4> QED
        BY <4>1, <4>2
    <3>4. mem'[c].prev \in Blocks /\ mem'[mem'[c].prev].used /\ mem'[mem'[c].prev].next = c
      <4>1. CASE c = nx
        BY <1>1, <1>2, <3>1, <4>1
      <4>2. CASE c # nx
        <5>1. mem[c].prev # b /\ mem[c].prev # pv
          BY <1>1, <3>1, <3>2, <4>2
        <5> QED
          BY <1>2, <3>1, <3>2, <4>2, <5>1
      <4> QED
        BY <4>1, <4>2
    <3> QED
      BY <3>3, <3>4
  <2> QED
    BY <2>1, <2>2 DEF LinksAgree
<1>5. Reached'
  <2> SUFFICES ASSUME NEW S \in SUBSET Blocks, head' \in S, Closed(S, Null)',
                      NEW c \in Blocks, mem'[c].used
               PROVE  c \in S
    BY <1>4 DEF Reached, Null, Blocks
  <2> DEFINE U == {d \in S : mem[d].used /\ d # b}
             W == U \cup {b}
  <2>1. \A d \in U : d # pv => mem[d].next \in U
    <3> SUFFICES ASSUME NEW d \in U, d # pv PROVE mem[d].next \in U
      OBVIOUS
    <3>1. mem[d].next \in Blocks /\ mem[mem[d].next].used /\ mem[mem[d].next].prev = d
      BY DEF LinksAgree
    <3>2. mem[d].next # b
      BY <3>1
    <3>3. mem'[d].next = mem[d].next
      BY <1>2
    <3> QED
      BY <3>1, <3>2, <3>3 DEF Closed, Blocks, Null
  <2>2. CASE pv \in U
    <3>1. nx \in U
      <4>1. mem'[pv].next = nx
        BY <1>1, <1>2
      <4>2. nx # b
        OBVIOUS
      <4> QED
        BY <1>1, <2>2, <4>1, <4>2 DEF Closed, Blocks, Null
    <3>2. \A d \in W : mem[d].next \in W
      BY <1>1, <2>1, <3>1
    <3>3. head \in W
      BY <1>4
    <3>4. W \in SUBSET Blocks /\ Closed(W, Null)
      BY <3>2 DEF Closed
    <3>5. \A d \in Blocks : mem[d].used => d \in W
      <4> HIDE DEF W
      <4> QED
        BY <3>3, <3>4 DEF Reached
    <3> QED
      BY <1>2, <3>5
  <2>3. CASE pv \notin U /\ b # head
    <3>1. \A d \in U : mem[d].next \in U
      BY <2>1, <2>3
    <3>2. U \in SUBSET Blocks /\ Closed(U, Null) /\ head \in U
      BY <3>1, <2>3, <1>4 DEF Closed
    <3>3. \A d \in Blocks : mem[d].used => d \in U
      <4> HIDE DEF U
      <4> QED
        BY <3>2 DEF Reached
    <3> QED
      BY <1>1, <2>3, <3>3
  <2>4. CASE pv \notin U /\ b = head
    <3>1. nx \in U
      BY <1>1, <2>4
    <3>2. \A d \in W : mem[d].next \in W
      BY <2>1, <2>4, <3>1
    <3>3. W \in SUBSET Blocks /\ Closed(W, Null) /\ head \in W
      BY <3>2, <2>4 DEF Closed
    <3>4. \A d \in Blocks : mem[d].used => d \in W
      <4> HIDE DEF W
      <4> QED
        BY <3>3 DEF Reached
    <3> QED
      BY <1>2, <3>4
  <2> QED
    BY <2>2, <2>3, <2>4
<1> QED
  BY <1>3, <1>5

-----------------------------------------------------------------------------
\* The first of the places of a sequence where something is.
LEMMA FirstPlace ==
    ASSUME NEW n \in Nat, NEW I, I \subseteq 1 .. n, I # {}
    PROVE  Min(I) \in I
<1>1. I \subseteq Nat
  OBVIOUS
<1>2. \E x \in I : \A y \in I : x <= y
  BY <1>1, Least
<1> QED
  BY <1>2 DEF Min

\* Two sequences, one after the other.
LEMMA Concatenated ==
    ASSUME NEW K, NEW s \in Seq(K), NEW t \in Seq(K)
    PROVE  s \o t \in Seq(K) /\ Len(s \o t) = Len(s) + Len(t)
  OBVIOUS

\* delete_ptr_list_entry takes one element out, or none.
LEMMA RemoveFirstType ==
    ASSUME NEW K, NEW s \in Seq(K), NEW p
    PROVE  RemoveFirst(s, p) \in Seq(K) /\ Len(RemoveFirst(s, p)) <= Len(s)
<1>1. CASE \E i \in 1 .. Len(s) : s[i] = p
  <2> DEFINE I == {i \in 1 .. Len(s) : s[i] = p}
             k == SelectInSeq(s, LAMBDA v : v = p)
  <2>1. k = Min(I) /\ I # {}
    BY <1>1 DEF SelectInSeq
  <2>2. k \in 1 .. Len(s)
    <3>1. Min(I) \in I
      <4> HIDE DEF I
      <4>1. Len(s) \in Nat
        OBVIOUS
      <4>2. I \subseteq 1 .. Len(s)
        BY DEF I
      <4> QED
        BY <2>1, <4>1, <4>2, FirstPlace
    <3> QED
      BY <2>1, <3>1
  <2> HIDE DEF k
  <2>3. RemoveFirst(s, p) = SubSeq(s, 1, k - 1) \o SubSeq(s, k + 1, Len(s))
    BY <1>1 DEF RemoveFirst, RemoveAt, k
  <2>4. SubSeq(s, 1, k - 1) \in Seq(K) /\ Len(SubSeq(s, 1, k - 1)) = k - 1
    BY <2>2
  <2>5. SubSeq(s, k + 1, Len(s)) \in Seq(K) /\ Len(SubSeq(s, k + 1, Len(s))) = Len(s) - k
    BY <2>2
  <2>6. RemoveFirst(s, p) \in Seq(K) /\ Len(RemoveFirst(s, p)) = (k - 1) + (Len(s) - k)
    BY <2>3, <2>4, <2>5, Concatenated
  <2>7. (k - 1) + (Len(s) - k) <= Len(s)
    BY <2>2
  <2> QED
    BY <2>6, <2>7
<1>2. CASE ~\E i \in 1 .. Len(s) : s[i] = p
  BY <1>2 DEF RemoveFirst
<1> QED
  BY <1>1, <1>2

\* f[n] is what the loop of delete_ptr_list_entry has kept of s when it comes to n.
Sifted(f, s, p, K) ==
    /\ f \in [0 .. Len(s) -> Seq(K)] /\ f[0] = <<>>
    /\ \A n \in 1 .. Len(s) : f[n] = IF s[n] = p THEN f[n - 1] ELSE Append(f[n - 1], s[n])

\* The elements that are not deleted, and how the loop comes to them.
LEMMA OthersIs ==
    ASSUME NEW K, NEW s \in Seq(K), NEW p
    PROVE  \E f : Sifted(f, s, p, K) /\ Others(s, p) = f[Len(s)]
<1> DEFINE D == 0 .. Len(s)
           left[n \in D] ==
              IF n = 0 THEN <<>> ELSE IF s[n] = p THEN left[n - 1] ELSE Append(left[n - 1], s[n])
           step(n, r) == IF n \notin 1 .. Len(s) THEN r ELSE IF s[n] = p THEN r ELSE Append(r, s[n])
           G == [x \in Nat \X Seq(K) |-> step(x[1], x[2])]
<1>1. PICK f \in [0 .. Len(s) -> Seq(K)] : Follows(f, 0, Len(s), <<>>, G)
  <2>1. G \in [Nat \X Seq(K) -> Seq(K)]
    <3> SUFFICES ASSUME NEW n \in Nat, NEW r \in Seq(K) PROVE step(n, r) \in Seq(K)
      OBVIOUS
    <3>1. n \in 1 .. Len(s) => s[n] \in K
      OBVIOUS
    <3> QED
      BY <3>1
  <2>2. Len(s) \in Nat /\ <<>> \in Seq(K) /\ 0 \in Nat
    OBVIOUS
  <2> HIDE DEF G
  <2> QED
    BY <2>1, <2>2, Recursive
<1>2. \A n \in D : f[n] = IF n = 0 THEN <<>> ELSE IF s[n] = p THEN f[n - 1] ELSE Append(f[n - 1], s[n])
  <2> TAKE n \in D
  <2>1. n # 0 => n \in 1 .. Len(s) /\ n \in Nat /\ f[n - 1] \in Seq(K)
    BY <1>1
  <2>2. n # 0 => G[<<n, f[n - 1]>>] = IF s[n] = p THEN f[n - 1] ELSE Append(f[n - 1], s[n])
    BY <2>1
  <2>3. f[n] = IF n = 0 THEN <<>> ELSE G[<<n, f[n - 1]>>]
    BY <1>1 DEF Follows
  <2> HIDE DEF G
  <2> QED
    BY <2>2, <2>3
<1>3. left = f
  <2>1. f = [n \in D |-> IF n = 0 THEN <<>>
                          ELSE IF s[n] = p THEN f[n - 1] ELSE Append(f[n - 1], s[n])]
    BY <1>1, <1>2
  <2>2. left = [n \in D |-> IF n = 0 THEN <<>>
                             ELSE IF s[n] = p THEN left[n - 1] ELSE Append(left[n - 1], s[n])]
    BY <2>1
  <2> DEFINE T == {n \in D : left[n] # f[n]}
  <2>3. ASSUME T # {} PROVE FALSE
    <3>1. PICK n \in T : \A l \in T : n <= l
      <4> T \subseteq Nat
        OBVIOUS
      <4> HIDE DEF T
      <4> QED
        BY <2>3, Least
    <3>2. n \in D /\ n # 0 => n - 1 \in D /\ ~(n <= n - 1)
      OBVIOUS
    <3> HIDE DEF left
    <3>3. n # 0 => left[n - 1] = f[n - 1]
      BY <3>1, <3>2
    <3> QED
      BY <1>2, <2>2, <3>1, <3>3
  <2> HIDE DEF left
  <2> QED
    BY <2>1, <2>2, <2>3
<1> HIDE DEF left
<1>4. Others(s, p) = left[Len(s)]
  BY DEF Others, left
<1>5. Sifted(f, s, p, K)
  <2>1. \A n \in 1 .. Len(s) : n \in D /\ n # 0
    OBVIOUS
  <2>2. 0 \in D
    OBVIOUS
  <2> QED
    BY <1>1, <1>2, <2>1, <2>2 DEF Sifted
<1> QED
  BY <1>3, <1>4, <1>5

\* The elements that are not deleted are no more than there were.
LEMMA OthersType ==
    ASSUME NEW K, NEW s \in Seq(K), NEW p
    PROVE  Others(s, p) \in Seq(K) /\ Len(Others(s, p)) <= Len(s)
<1>1. PICK f : Sifted(f, s, p, K) /\ Others(s, p) = f[Len(s)]
  BY OthersIs
<1> DEFINE D == 0 .. Len(s)
           T == {n \in D : ~(Len(f[n]) <= n)}
<1>2. ASSUME T # {} PROVE FALSE
  <2>1. PICK n \in T : \A l \in T : n <= l
    <3> T \subseteq Nat
      OBVIOUS
    <3> HIDE DEF T
    <3> QED
      BY <1>2, Least
  <2>2. n \in D /\ n # 0
    BY <1>1, <2>1 DEF Sifted
  <2>3. n \in 1 .. Len(s) /\ n - 1 \in D /\ ~(n <= n - 1) /\ f[n - 1] \in Seq(K)
    BY <1>1, <2>2 DEF Sifted
  <2>4. Len(f[n - 1]) <= n - 1
    BY <2>1, <2>3
  <2>5. Len(f[n]) <= Len(f[n - 1]) + 1
    <3>1. f[n] = IF s[n] = p THEN f[n - 1] ELSE Append(f[n - 1], s[n])
      BY <1>1, <2>3 DEF Sifted
    <3>2. Len(Append(f[n - 1], s[n])) = Len(f[n - 1]) + 1 /\ Len(f[n - 1]) \in Nat
      BY <2>3
    <3> QED
      BY <3>1, <3>2
  <2>6. f[n] \in Seq(K)
    BY <1>1, <2>2 DEF Sifted
  <2> QED
    BY <2>1, <2>2, <2>3, <2>4, <2>5, <2>6
<1>3. Len(s) \in D /\ f[Len(s)] \in Seq(K)
  BY <1>1 DEF Sifted
<1> QED
  BY <1>1, <1>2, <1>3

\* What the other helpers make of the elements of a block.
LEMMA Appended ==
    ASSUME NEW K, NEW s \in Seq(K), NEW e \in K
    PROVE  Append(s, e) \in Seq(K) /\ Len(Append(s, e)) = Len(s) + 1
  OBVIOUS

\* A cut out of a sequence.
LEMMA Cut ==
    ASSUME NEW K, NEW s \in Seq(K), NEW i \in 1 .. Len(s) + 1, NEW j \in i - 1 .. Len(s)
    PROVE  SubSeq(s, i, j) \in Seq(K) /\ Len(SubSeq(s, i, j)) = j - i + 1
  OBVIOUS

\* INSERT_CURRENT, before place i.
LEMMA Inserted ==
    ASSUME NEW K, NEW s \in Seq(K), NEW i \in 1 .. Len(s) + 1, NEW e \in K
    PROVE  InsertAt(s, i, e) \in Seq(K) /\ Len(InsertAt(s, i, e)) = Len(s) + 1
<1>1. /\ SubSeq(s, 1, i - 1) \in Seq(K) /\ Len(SubSeq(s, 1, i - 1)) = i - 1
      /\ SubSeq(s, i, Len(s)) \in Seq(K) /\ Len(SubSeq(s, i, Len(s))) = Len(s) - i + 1
  OBVIOUS
<1>2. <<e>> \in Seq(K) /\ Len(<<e>>) = 1
  OBVIOUS
<1>3. SubSeq(s, 1, i - 1) \o <<e>> \in Seq(K) /\ Len(SubSeq(s, 1, i - 1) \o <<e>>) = i
  BY <1>1, <1>2, Concatenated
<1>4. InsertAt(s, i, e) \in Seq(K) /\ Len(InsertAt(s, i, e)) = i + (Len(s) - i + 1)
  <2> DEFINE a == SubSeq(s, 1, i - 1) \o <<e>>
             b == SubSeq(s, i, Len(s))
  <2>1. InsertAt(s, i, e) = a \o b
    BY DEF InsertAt
  <2>2. a \in Seq(K) /\ Len(a) = i /\ b \in Seq(K) /\ Len(b) = Len(s) - i + 1
    BY <1>1, <1>3
  <2> HIDE DEF a, b
  <2> QED
    BY <2>1, <2>2, Concatenated
<1> QED
  BY <1>4

\* DELETE_CURRENT_PTR, of place i.
LEMMA Removed ==
    ASSUME NEW K, NEW s \in Seq(K), NEW i \in 1 .. Len(s)
    PROVE  RemoveAt(s, i) \in Seq(K) /\ Len(RemoveAt(s, i)) = Len(s) - 1
<1>1. /\ SubSeq(s, 1, i - 1) \in Seq(K) /\ Len(SubSeq(s, 1, i - 1)) = i - 1
      /\ SubSeq(s, i + 1, Len(s)) \in Seq(K) /\ Len(SubSeq(s, i + 1, Len(s))) = Len(s) - i
  OBVIOUS
<1>2. RemoveAt(s, i) \in Seq(K) /\ Len(RemoveAt(s, i)) = (i - 1) + (Len(s) - i)
  BY <1>1, Concatenated DEF RemoveAt
<1> QED
  BY <1>2

\* A function on the first numbers is a sequence.
LEMMA Sequenced ==
    ASSUME NEW K, NEW n \in Nat, NEW f \in [1 .. n -> K]
    PROVE  f \in Seq(K) /\ Len(f) = n
  OBVIOUS

\* Replacing an element leaves as many.
LEMMA Replaced ==
    ASSUME NEW K, NEW s \in Seq(K), NEW i, NEW p, NEW q \in K
    PROVE  /\ ReplaceAt(s, i, q) \in Seq(K) /\ Len(ReplaceAt(s, i, q)) = Len(s)
           /\ ReplaceAll(s, p, q) \in Seq(K) /\ Len(ReplaceAll(s, p, q)) = Len(s)
<1>1. Len(s) \in Nat /\ s \in [1 .. Len(s) -> K]
  OBVIOUS
<1>2. ReplaceAt(s, i, q) \in [1 .. Len(s) -> K]
  BY <1>1 DEF ReplaceAt
<1>3. ReplaceAll(s, p, q) \in [1 .. Len(s) -> K]
  BY <1>1 DEF ReplaceAll
<1> QED
  BY <1>1, <1>2, <1>3, Sequenced

\* undo_ptr_list_last takes the last element.
LEMMA Fronted ==
    ASSUME NEW K, NEW s \in Seq(K), s # <<>>
    PROVE  Front(s) \in Seq(K) /\ Len(Front(s)) <= Len(s) /\ Last(s) \in K
  BY DEF Front, Last

\* What a loop finds in a slot.
LEMMA EntryType ==
    ASSUME TypeOK, NEW b \in Blocks, NEW i
    PROVE  Entry(b, i) \in Ptrs \cup {NoPtr, Garbage}
<1>1. mem[b].list \in Seq(Ptrs)
  BY DEF TypeOK, PtrBlock
<1> QED
  BY <1>1 DEF Entry

-----------------------------------------------------------------------------
\* One block has other elements.
LEMMA ListChanged ==
    ASSUME TypeOK, NEW b \in Blocks, NEW t \in Seq(Ptrs), Len(t) <= NR,
           mem' = [mem EXCEPT ![b].list = t], head' = head
    PROVE  /\ SameRing
           /\ \A c \in Blocks : /\ mem'[c].list = IF c = b THEN t ELSE mem[c].list
                                /\ Len(mem'[c].list) <= NR
<1>1. \A c \in Blocks : mem[c] \in PtrBlock /\ Len(mem[c].list) <= NR
  BY DEF TypeOK
<1>2. \A c \in Blocks : mem'[c] = IF c = b THEN [mem[b] EXCEPT !.list = t] ELSE mem[c]
  BY DEF TypeOK
<1>3. mem' \in [Blocks -> PtrBlock]
  <2>1. \A c \in Blocks : mem'[c] \in PtrBlock
    BY <1>1, <1>2 DEF PtrBlock
  <2> QED
    BY <2>1 DEF TypeOK
<1>4. \A c \in Blocks : /\ mem'[c].next = mem[c].next /\ mem'[c].prev = mem[c].prev
                        /\ mem'[c].used = mem[c].used
                        /\ mem'[c].list = IF c = b THEN t ELSE mem[c].list
  BY <1>1, <1>2 DEF PtrBlock
<1> QED
  BY <1>1, <1>3, <1>4 DEF SameRing

\* A list that starts to be packed is packed from its head, and all of it is ahead.
LEMMA HeadPacks ==
    ASSUME Reached', packing' = Null \/ packing' = head'
    PROVE  EmptyAhead'
<1> SUFFICES ASSUME packing' # Null, NEW S \in SUBSET Blocks, packing' \in S, Closed(S, head)'
             PROVE  \A b \in Blocks : mem'[b].used => b \in S
  BY DEF EmptyAhead
<1>1. head' \in S /\ Closed(S, Null)'
  BY DEF Closed
<1> QED
  BY <1>1 DEF Reached

\* A step that changes elements only.
LEMMA ElementStep ==
    ASSUME Inv, SameRing, TypeOK', Cursors', NoneEmpty', packing' = Null \/ packing' = head
    PROVE  Inv'
<1>1. LinksAgree' /\ Reached'
  BY SameRingKeeps DEF Inv
<1>2. EmptyAhead'
  BY <1>1, HeadPacks DEF SameRing
<1> QED
  BY <1>1, <1>2 DEF Inv

\* A list without a head has no block.
LEMMA NoHead ==
    ASSUME Reached, head = Null
    PROVE  \A b \in Blocks : ~mem[b].used
<1>1. Closed({}, Null)
  BY DEF Closed
<1> QED
  BY <1>1 DEF Reached

\* A block that is its own successor is the only one.
LEMMA Alone ==
    ASSUME TypeOK, LinksAgree, Reached, head # Null,
           NEW b \in Blocks, mem[b].used, mem[b].next = b
    PROVE  head = b /\ \A c \in Blocks : mem[c].used => c = b
<1> DEFINE U == {c \in Blocks : mem[c].used /\ c # b}
<1>1. \A c \in U : mem[c].next \in U
  BY DEF LinksAgree
<1>2. head = b
  <2>1. SUFFICES ASSUME head # b PROVE FALSE
    OBVIOUS
  <2>2. U \in SUBSET Blocks /\ head \in U /\ Closed(U, Null)
    BY <1>1, <2>1 DEF Closed, LinksAgree, TypeOK
  <2>3. \A c \in Blocks : mem[c].used => c \in U
    <3> HIDE DEF U
    <3> QED
      BY <2>2 DEF Reached
  <2> QED
    BY <2>3
<1>3. Closed({b}, Null)
  BY DEF Closed
<1> QED
  BY <1>2, <1>3 DEF Reached

\* A block for a new element is one that is not used.
LEMMA NewBlockUnused ==
    ASSUME Room
    PROVE  NewBlock \in Blocks /\ ~mem[NewBlock].used
<1>1. Unused \subseteq Nat /\ Unused # {}
  BY DEF Room, Unused, Blocks
<1>2. \E b \in Unused : \A c \in Unused : b <= c
  BY <1>1, Least
<1>3. NewBlock \in Unused
  BY <1>2 DEF NewBlock
<1> QED
  BY <1>3 DEF Unused

\* __add_ptr_list keeps the invariant.
LEMMA AddKeeps ==
    ASSUME Inv, NEW p \in Ptrs, __add_ptr_list(p)
    PROVE  Inv'
<1> USE PtrListAssumption
<1>0. TypeOK /\ LinksAgree /\ Reached
  BY DEF Inv
<1>1. /\ packing = Null /\ packing' = Null /\ UNCHANGED <<walk, packing, unpacked>>
      /\ out' = NoPtr /\ undone' = FALSE /\ walk.dir # "backward"
  BY DEF __add_ptr_list, Returns
<1>2. CASE head # Null /\ ~Full(mem[head].prev)
  <2> DEFINE b == mem[head].prev
             t == Append(mem[b].list, p)
  <2>1. b \in Blocks /\ mem[b].list \in Seq(Ptrs) /\ Len(mem[b].list) < NR
    BY <1>2 DEF Inv, TypeOK, LinksAgree, PtrBlock, Full
  <2>2. mem' = [mem EXCEPT ![b].list = t] /\ head' = head
    BY <1>2 DEF __add_ptr_list
  <2>3. t \in Seq(Ptrs) /\ Len(t) = Len(mem[b].list) + 1
    BY <2>1, Appended
  <2> HIDE DEF b, t
  <2>4. /\ SameRing
        /\ \A c \in Blocks : /\ mem'[c].list = IF c = b THEN t ELSE mem[c].list
                             /\ Len(mem'[c].list) <= NR
    <3>1. Len(t) <= NR
      BY <2>1, <2>3
    <3> QED
      BY <1>0, <2>1, <2>2, <2>3, <3>1, ListChanged
  <2>5. TypeOK'
    BY <1>1, <2>2, <2>4 DEF Inv, TypeOK, SameRing
  <2>6. \A c \in Blocks : Len(mem'[c].list) >= Len(mem[c].list) /\ Len(mem[c].list) \in Nat
                         /\ Len(mem'[c].list) \in Nat
    <3> TAKE c \in Blocks
    <3>1. mem[c].list \in Seq(Ptrs)
      BY <1>0 DEF TypeOK, PtrBlock
    <3>2. Len(mem[c].list) \in Nat
      BY <3>1
    <3> QED
      BY <2>3, <2>4, <3>2
  <2>7. Cursors'
    <3>1. walk.dir # "none" => walk.list \in Blocks
      BY DEF Inv, TypeOK, Cursors
    <3> QED
      BY <1>1, <2>2, <2>4, <2>6, <3>1 DEF Inv, Cursors, SameRing
  <2>8. NoneEmpty'
    <3> SUFFICES ASSUME ~unpacked, NEW c \in Blocks, mem'[c].used PROVE mem'[c].list # <<>>
      BY <1>1 DEF NoneEmpty
    <3>1. c # b => mem[c].list # <<>> /\ mem'[c].list = mem[c].list
      BY <1>1, <2>4 DEF Inv, NoneEmpty, SameRing, b
    <3>2. c = b => mem'[c].list # <<>>
      BY <2>1, <2>3, <2>4
    <3> QED
      BY <3>1, <3>2
  <2> QED
    BY <1>1, <2>4, <2>5, <2>7, <2>8, ElementStep
<1>3. CASE head = Null
  <2> DEFINE b == NewBlock
  <2>1. b \in Blocks /\ \A c \in Blocks : ~mem[c].used
    BY <1>3, NoHead, NewBlockUnused DEF Inv, __add_ptr_list
  <2>2. /\ mem' = [mem EXCEPT ![b] = [prev |-> b, next |-> b, list |-> <<p>>, used |-> TRUE]]
        /\ head' = b
    BY <1>3 DEF __add_ptr_list
  <2> HIDE DEF b
  <2>3. [prev |-> b, next |-> b, list |-> <<p>>, used |-> TRUE] \in PtrBlock
    BY <2>1 DEF PtrBlock
  <2>4. mem \in [Blocks -> PtrBlock] /\ \A c \in Blocks : Len(mem[c].list) <= NR
    BY DEF Inv, TypeOK
  <2>5. /\ mem' \in [Blocks -> PtrBlock]
        /\ \A c \in Blocks : /\ c # b => mem'[c] = mem[c]
                             /\ mem'[c].used <=> c = b
                             /\ Len(mem'[c].list) <= NR
        /\ mem'[b].next = b /\ mem'[b].prev = b /\ mem'[b].list = <<p>>
    BY <2>1, <2>2, <2>3, <2>4
  <2>6. TypeOK' /\ LinksAgree' /\ Reached'
    <3>1. TypeOK'
      BY <1>0, <1>1, <2>1, <2>2, <2>5 DEF TypeOK
    <3>2. LinksAgree'
      BY <2>1, <2>2, <2>5 DEF LinksAgree
    <3>3. Reached'
      BY <2>1, <2>2, <2>5 DEF Reached, Null, Blocks
    <3> QED
      BY <3>1, <3>2, <3>3
  <2>7. walk.dir = "none" /\ ~walk.in
    BY <1>3 DEF Inv, Cursors
  <2>8. Cursors' /\ NoneEmpty' /\ EmptyAhead'
    <3>1. Cursors' /\ EmptyAhead'
      BY <1>1, <2>7 DEF Cursors, EmptyAhead
    <3>2. <<p>> # <<>>
      OBVIOUS
    <3>3. \A c \in Blocks : mem'[c].used => mem'[c].list # <<>>
      <4> TAKE c \in Blocks
      <4>1. mem'[c].used => mem'[c].list = <<p>>
        BY <2>5
      <4> QED
        BY <3>2, <4>1
    <3> QED
      BY <3>1, <3>3 DEF NoneEmpty
  <2> QED
    BY <2>6, <2>8 DEF Inv
<1>4. CASE head # Null /\ Full(mem[head].prev)
  <2> DEFINE b == mem[head].prev
             n == NewBlock
             s == <<p>>
  <2>1. b \in Blocks /\ mem[b].used /\ n \in Blocks /\ ~mem[n].used /\ Len(mem[b].list) >= NR
    BY <1>4, NewBlockUnused DEF Inv, TypeOK, LinksAgree, Full, __add_ptr_list
  <2>2. mem' = link(b, n, s) /\ head' = head /\ s \in Seq(Ptrs) /\ Len(s) = 1
    BY <1>4 DEF __add_ptr_list
  <2> HIDE DEF b, n, s
  <2>3. /\ link(b, n, s) \in [Blocks -> PtrBlock]
        /\ \A c \in Blocks : /\ link(b, n, s)[c].list = IF c = n THEN s ELSE mem[c].list
                             /\ link(b, n, s)[c].used <=> (c = n \/ mem[c].used)
    BY <1>0, <2>1, <2>2, Linked
  <2>4. LinksAgree' /\ Reached'
    <3>1. LinkedAs(link(b, n, s))
      BY <2>2 DEF LinkedAs
    <3> QED
      BY <1>0, <1>4, <2>1, <2>2, <3>1, LinkKeeps
  <2>5. TypeOK'
    <3>1. \A c \in Blocks : Len(mem'[c].list) <= NR
      <4>1. 1 <= NR /\ \A c \in Blocks : Len(mem[c].list) <= NR
        BY <1>0 DEF TypeOK
      <4> QED
        BY <2>2, <2>3, <4>1
    <3> QED
      BY <1>0, <1>1, <2>2, <2>3, <3>1 DEF TypeOK
  <2>6. Cursors'
    <3>1. walk.dir # "none" => walk.list \in Blocks /\ walk.list # n
      BY <2>1 DEF Inv, TypeOK, Cursors
    <3> QED
      BY <1>1, <1>4, <2>2, <2>3, <3>1 DEF Inv, Cursors
  <2>7. NoneEmpty'
    <3> SUFFICES ASSUME ~unpacked, NEW c \in Blocks, mem'[c].used PROVE mem'[c].list # <<>>
      BY <1>1 DEF NoneEmpty
    <3>1. mem[b].list # <<>>
      BY <2>1
    <3>2. CASE c = n
      BY <2>2, <2>3, <3>2
    <3>3. CASE c # n
      BY <1>1, <2>2, <2>3, <3>1, <3>3 DEF Inv, NoneEmpty, b
    <3> QED
      BY <3>2, <3>3
  <2> QED
    BY <1>1, <2>4, <2>5, <2>6, <2>7, HeadPacks DEF Inv
<1> QED
  BY <1>2, <1>3, <1>4

\* first_ptr_list and last_ptr_list, and the steps of a loop that change nothing.
LEMMA ReadKeeps ==
    ASSUME Inv, TypeOK', Cursors', UNCHANGED <<mem, head, unpacked, undone>>,
           packing' = packing \/ (packing = Null /\ packing' = head)
    PROVE  Inv'
<1>1. SameRing
  BY DEF Inv, TypeOK, SameRing
<1>2. LinksAgree' /\ Reached'
  BY <1>1, SameRingKeeps DEF Inv
<1>3. EmptyAhead'
  <2>1. CASE packing' = packing
    BY <2>1 DEF Inv, EmptyAhead, Closed
  <2>2. CASE packing' = head
    BY <1>2, <2>2, HeadPacks
  <2> QED
    BY <2>1, <2>2
<1>4. NoneEmpty'
  <2>1. CASE packing' = packing
    BY <2>1 DEF Inv, NoneEmpty
  <2>2. CASE packing = Null /\ packing' = head
    BY <2>2 DEF Inv, NoneEmpty
  <2> QED
    BY <2>1, <2>2
<1> QED
  BY <1>2, <1>3, <1>4 DEF Inv

\* The cursor goes somewhere else.
LEMMA CursorMoves ==
    ASSUME TypeOK, Cursors, walk.dir # "none", UNCHANGED <<mem, head, packing, unpacked, undone>>,
           NEW l \in Blocks, mem[l].used, NEW n \in Nat, NEW i \in BOOLEAN,
           n <= Len(mem[l].list) + 1, i => n \in 1 .. Len(mem[l].list),
           walk' = [walk EXCEPT !.list = l, !.nr = n, !.in = i],
           out' \in Ptrs \cup {NoPtr, Garbage}
    PROVE  TypeOK' /\ Cursors'
<1> USE PtrListAssumption
<1>1. Len(mem[l].list) \in Nat /\ Len(mem[l].list) <= NR
  <2>1. mem[l].list \in Seq(Ptrs)
    BY DEF TypeOK, PtrBlock
  <2> QED
    BY <2>1 DEF TypeOK
<1>2. n \in 0 .. NR + 1 /\ l \in Blocks \cup {Null}
  BY <1>1
<1>3. walk \in [dir: {"none", "forward", "backward"}, head: Blocks \cup {Null},
               list: Blocks \cup {Null}, nr: 0 .. NR + 1, in: BOOLEAN]
  BY DEF TypeOK
<1>4. /\ walk' \in [dir: {"none", "forward", "backward"}, head: Blocks \cup {Null},
                   list: Blocks \cup {Null}, nr: 0 .. NR + 1, in: BOOLEAN]
      /\ walk'.dir = walk.dir /\ walk'.list = l /\ walk'.nr = n /\ walk'.in = i
  BY <1>2, <1>3
<1>5. TypeOK'
  BY <1>4 DEF TypeOK
<1>6. Cursors'
  BY <1>4 DEF Cursors, Null, Blocks
<1> QED
  BY <1>5, <1>6

\* The loops keep the invariant as long as their bodies change nothing.
LEMMA LoopKeeps ==
    ASSUME Inv,
           \/ FOR_EACH_PTR \/ ForwardElement \/ ForwardBlock
           \/ FOR_EACH_PTR_REVERSE \/ BackwardElement \/ BackwardBlock \/ BodyEnds
    PROVE  Inv'
<1> USE PtrListAssumption
<1>0. TypeOK /\ LinksAgree /\ Reached /\ Cursors
  BY DEF Inv
<1>1. /\ UNCHANGED <<mem, head, packing, unpacked, undone>>
      /\ \A b \in Blocks : Len(mem[b].list) \in Nat /\ Len(mem[b].list) <= NR
  <2>1. UNCHANGED <<mem, head, packing, unpacked, undone>>
    BY DEF FOR_EACH_PTR, ForwardElement, ForwardBlock, FOR_EACH_PTR_REVERSE, BackwardElement,
           BackwardBlock, BodyEnds, Reads
  <2>2. ASSUME NEW b \in Blocks PROVE Len(mem[b].list) \in Nat
    <3>1. mem[b].list \in Seq(Ptrs)
      BY <1>0 DEF TypeOK, PtrBlock
    <3> QED
      BY <3>1
  <2> QED
    BY <1>0, <2>1, <2>2 DEF TypeOK
<1>2. head # Null => head \in Blocks /\ mem[head].used
  BY <1>0 DEF TypeOK, LinksAgree
<1>3. walk.dir # "none" => walk.list \in Blocks /\ mem[walk.list].used
  BY <1>0 DEF TypeOK, Cursors
<1>4. NoPtr \in Ptrs \cup {NoPtr, Garbage}
  OBVIOUS
<1>5. TypeOK' /\ Cursors'
  <2>1. CASE FOR_EACH_PTR
    BY <1>0, <1>1, <1>2, <1>4, <2>1 DEF FOR_EACH_PTR, Idle, Returns, TypeOK, Cursors
  <2>2. CASE FOR_EACH_PTR_REVERSE
    <3>1. mem[head].prev \in Blocks /\ mem[mem[head].prev].used
      BY <1>0, <1>2, <2>2 DEF LinksAgree, FOR_EACH_PTR_REVERSE
    <3> QED
      BY <1>0, <1>1, <1>2, <1>4, <2>2, <3>1 DEF FOR_EACH_PTR_REVERSE, Idle, Returns, TypeOK, Cursors, Null, Blocks
  <2>3. CASE ForwardElement
    <3> DEFINE l == walk.list
               n == walk.nr + 1
               i == TRUE
    <3>1. walk.dir # "none" /\ walk' = [walk EXCEPT !.list = l, !.nr = n, !.in = i]
      BY <1>0, <2>3 DEF ForwardElement, TypeOK, Cursors, Looping
    <3>2. walk.list \in Blocks /\ mem[walk.list].used /\ walk.nr \in Nat
      BY <1>0, <1>3, <3>1 DEF TypeOK
    <3>3. l \in Blocks /\ mem[l].used
      BY <1>0, <3>2 DEF LinksAgree
    <3>4. n \in Nat /\ n <= Len(mem[l].list) + 1 /\ i \in BOOLEAN /\ (i => n \in 1 .. Len(mem[l].list))
      <4>1. walk.nr < Len(mem[l].list) /\ Len(mem[l].list) \in Nat
        BY <1>1, <2>3, <3>2 DEF ForwardElement, Looping
      <4> HIDE DEF l
      <4> QED
        BY <3>2, <4>1
    <3>5. out' \in Ptrs \cup {NoPtr, Garbage}
      BY <1>0, <1>4, <2>3, <3>2, EntryType DEF ForwardElement, Returns
    <3> HIDE DEF l, n, i
    <3> QED
      BY <1>0, <1>1, <3>1, <3>3, <3>4, <3>5, CursorMoves
  <2>4. CASE BackwardElement
    <3> DEFINE l == walk.list
               n == walk.nr - 1
               i == TRUE
    <3>1. walk.dir # "none" /\ walk' = [walk EXCEPT !.list = l, !.nr = n, !.in = i]
      BY <1>0, <2>4 DEF BackwardElement, TypeOK, Cursors, Looping
    <3>2. walk.list \in Blocks /\ mem[walk.list].used /\ walk.nr \in Nat
      BY <1>0, <1>3, <3>1 DEF TypeOK
    <3>3. l \in Blocks /\ mem[l].used
      BY <1>0, <3>2 DEF LinksAgree
    <3>4. n \in Nat /\ n <= Len(mem[l].list) + 1 /\ i \in BOOLEAN /\ (i => n \in 1 .. Len(mem[l].list))
      <4>1. walk.nr > 1 /\ walk.dir = "backward"
        BY <2>4 DEF BackwardElement, Looping
      <4>2. walk.nr <= Len(mem[l].list) + 1 /\ Len(mem[l].list) \in Nat
        BY <1>0, <1>1, <3>2, <4>1 DEF Cursors
      <4>3. walk.nr - 1 \in Nat /\ walk.nr - 1 <= Len(mem[l].list) /\ walk.nr - 1 >= 1
        BY <3>2, <4>1, <4>2
      <4> HIDE DEF l
      <4> QED
        BY <4>2, <4>3
    <3>5. out' \in Ptrs \cup {NoPtr, Garbage}
      BY <1>0, <1>4, <2>4, <3>2, EntryType DEF BackwardElement, Returns
    <3> HIDE DEF l, n, i
    <3> QED
      BY <1>0, <1>1, <3>1, <3>3, <3>4, <3>5, CursorMoves
  <2>5. CASE ForwardBlock /\ walk' # NoWalk
    <3> DEFINE l == mem[walk.list].next
               n == 0
               i == FALSE
    <3>1. walk.dir # "none" /\ walk' = [walk EXCEPT !.list = l, !.nr = n, !.in = i]
      BY <1>0, <2>5 DEF ForwardBlock, TypeOK, Cursors, Looping
    <3>2. walk.list \in Blocks /\ mem[walk.list].used /\ walk.nr \in Nat
      BY <1>0, <1>3, <3>1 DEF TypeOK
    <3>3. l \in Blocks /\ mem[l].used
      BY <1>0, <3>2 DEF LinksAgree
    <3>4. n \in Nat /\ n <= Len(mem[l].list) + 1 /\ i \in BOOLEAN /\ (i => n \in 1 .. Len(mem[l].list))
      <4>1. Len(mem[l].list) \in Nat /\ n = 0
        BY <1>1, <3>3
      <4>2. i = FALSE
        OBVIOUS
      <4> HIDE DEF l, n
      <4> QED
        BY <4>1, <4>2
    <3>5. out' \in Ptrs \cup {NoPtr, Garbage}
      BY <1>0, <1>4, <2>5, <3>2, EntryType DEF ForwardBlock, Returns
    <3> HIDE DEF l, n, i
    <3> QED
      BY <1>0, <1>1, <3>1, <3>3, <3>4, <3>5, CursorMoves
  <2>6. CASE BackwardBlock /\ walk' # NoWalk
    <3> DEFINE l == mem[walk.list].prev
               n == Len(mem[mem[walk.list].prev].list) + 1
               i == FALSE
    <3>1. walk.dir # "none" /\ walk' = [walk EXCEPT !.list = l, !.nr = n, !.in = i]
      BY <1>0, <2>6 DEF BackwardBlock, TypeOK, Cursors, Looping
    <3>2. walk.list \in Blocks /\ mem[walk.list].used /\ walk.nr \in Nat
      BY <1>0, <1>3, <3>1 DEF TypeOK
    <3>3. l \in Blocks /\ mem[l].used
      BY <1>0, <3>2 DEF LinksAgree
    <3>4. n \in Nat /\ n <= Len(mem[l].list) + 1 /\ i \in BOOLEAN /\ (i => n \in 1 .. Len(mem[l].list))
      <4>1. Len(mem[l].list) \in Nat /\ n = Len(mem[l].list) + 1
        BY <1>1, <3>3
      <4>2. i = FALSE
        OBVIOUS
      <4> HIDE DEF l, n
      <4> QED
        BY <4>1, <4>2
    <3>5. out' \in Ptrs \cup {NoPtr, Garbage}
      BY <1>0, <1>4, <2>6, <3>2, EntryType DEF BackwardBlock, Returns
    <3> HIDE DEF l, n, i
    <3> QED
      BY <1>0, <1>1, <3>1, <3>3, <3>4, <3>5, CursorMoves
  <2>7. CASE BodyEnds
    <3> DEFINE l == walk.list
               n == walk.nr
               i == FALSE
    <3>1. walk.dir # "none" /\ walk' = [walk EXCEPT !.list = l, !.nr = n, !.in = i]
      BY <1>0, <2>7 DEF BodyEnds, TypeOK, Cursors
    <3>2. walk.list \in Blocks /\ mem[walk.list].used /\ walk.nr \in Nat
      BY <1>0, <1>3, <3>1 DEF TypeOK
    <3>3. l \in Blocks /\ mem[l].used
      BY <1>0, <3>2 DEF LinksAgree
    <3>4. n \in Nat /\ n <= Len(mem[l].list) + 1 /\ i \in BOOLEAN /\ (i => n \in 1 .. Len(mem[l].list))
      BY <1>0, <1>1, <2>7, <3>1, <3>2, <3>3 DEF BodyEnds, Cursors
    <3>5. out' \in Ptrs \cup {NoPtr, Garbage}
      BY <1>0, <1>4, <2>7, <3>2, EntryType DEF BodyEnds, Returns
    <3> HIDE DEF l, n, i
    <3> QED
      BY <1>0, <1>1, <3>1, <3>3, <3>4, <3>5, CursorMoves
  <2>8. CASE (ForwardBlock \/ BackwardBlock) /\ walk' = NoWalk
    <3>1. out' = NoPtr
      BY <2>8 DEF ForwardBlock, BackwardBlock, Returns
    <3>2. /\ NoWalk \in [dir: {"none", "forward", "backward"}, head: Blocks \cup {Null},
                        list: Blocks \cup {Null}, nr: 0 .. NR + 1, in: BOOLEAN]
          /\ NoWalk.dir = "none" /\ NoWalk.in = FALSE
      BY DEF NoWalk, Null
    <3> QED
      BY <1>0, <1>1, <1>4, <2>8, <3>1, <3>2 DEF TypeOK, Cursors
  <2> QED
    BY <2>1, <2>2, <2>3, <2>4, <2>5, <2>6, <2>7, <2>8
<1> QED
  BY <1>1, <1>5, ReadKeeps

\* So do the calls that only read, and pack_ptr_list when it starts.
LEMMA CallKeeps ==
    ASSUME Inv, first_ptr_list \/ last_ptr_list \/ pack_ptr_list
    PROVE  Inv'
<1>0. TypeOK /\ LinksAgree /\ Reached /\ Cursors
  BY DEF Inv
<1>1. head # Null => /\ head \in Blocks /\ mem[head].used
                     /\ mem[head].prev \in Blocks
  BY <1>0 DEF TypeOK, LinksAgree
<1>2. NoPtr \in Ptrs \cup {NoPtr, Garbage}
  OBVIOUS
<1>3. CASE first_ptr_list \/ last_ptr_list
  <2>1. out' \in Ptrs \cup {NoPtr, Garbage}
    BY <1>0, <1>1, <1>2, <1>3, EntryType DEF first_ptr_list, last_ptr_list, Returns
  <2>2. UNCHANGED <<mem, head, walk, packing, unpacked, undone>>
    BY <1>3 DEF first_ptr_list, last_ptr_list
  <2>3. TypeOK' /\ Cursors'
    BY <1>0, <2>1, <2>2 DEF TypeOK, Cursors
  <2> QED
    BY <2>2, <2>3, ReadKeeps
<1>4. CASE pack_ptr_list
  <2>1. /\ packing = Null /\ walk = NoWalk /\ packing' = head /\ UNCHANGED <<mem, head, walk>>
        /\ out' = NoPtr /\ unpacked' \in BOOLEAN /\ undone' \in BOOLEAN
        /\ head # Null => UNCHANGED <<unpacked, undone>>
    BY <1>0, <1>4 DEF pack_ptr_list, Idle, Returns, TypeOK
  <2>2. TypeOK' /\ Cursors'
    BY <1>0, <1>1, <1>2, <2>1 DEF TypeOK, Cursors, NoWalk
  <2>3. CASE head # Null
    BY <2>1, <2>2, <2>3, ReadKeeps
  <2>4. CASE head = Null
    <3>1. \A b \in Blocks : ~mem'[b].used
      BY <1>0, <2>1, <2>4, NoHead
    <3>2. LinksAgree' /\ Reached' /\ NoneEmpty' /\ EmptyAhead'
      BY <2>1, <2>4, <3>1 DEF LinksAgree, Reached, NoneEmpty, EmptyAhead
    <3> QED
      BY <2>2, <3>2 DEF Inv
  <2> QED
    BY <2>3, <2>4
<1> QED
  BY <1>3, <1>4

\* No list of a block is longer than before, and the list is packed next or was
\* not to be.
LEMMA Shorter ==
    ASSUME Inv, Idle, SameRing, UNCHANGED <<walk, unpacked, undone>>, out' = NoPtr,
           packing' = head \/ (packing' = packing /\ \A b \in Blocks :
                                   mem'[b].list = <<>> => mem[b].list = <<>>),
           \A b \in Blocks : Len(mem'[b].list) <= Len(mem[b].list)
    PROVE  Inv'
<1> USE PtrListAssumption
<1>0. TypeOK /\ LinksAgree /\ Reached /\ Cursors /\ packing = Null /\ walk = NoWalk
  BY DEF Inv, Idle
<1>1. \A b \in Blocks : Len(mem'[b].list) <= NR
  <2> TAKE b \in Blocks
  <2>1. mem[b].list \in Seq(Ptrs) /\ mem'[b].list \in Seq(Ptrs) /\ Len(mem[b].list) <= NR
    BY <1>0 DEF TypeOK, PtrBlock, SameRing
  <2>2. Len(mem[b].list) \in Nat /\ Len(mem'[b].list) \in Nat
    BY <2>1
  <2> QED
    BY <2>1, <2>2
<1>2. TypeOK'
  BY <1>0, <1>1 DEF TypeOK, SameRing
<1>3. Cursors'
  BY <1>0 DEF TypeOK, LinksAgree, Cursors, SameRing, NoWalk
<1>4. NoneEmpty'
  <2>1. CASE packing' = packing /\ \A b \in Blocks : mem'[b].list = <<>> => mem[b].list = <<>>
    <3> SUFFICES ASSUME ~unpacked, NEW b \in Blocks, mem[b].used, mem[b].list = <<>>
                 PROVE  undone /\ b = mem'[head].prev
      BY <2>1 DEF NoneEmpty, SameRing
    <3>1. undone /\ b = mem[head].prev
      BY <1>0 DEF Inv, NoneEmpty
    <3>2. head # Null
      BY <1>0, NoHead
    <3> QED
      BY <1>0, <3>1, <3>2 DEF SameRing, TypeOK
  <2>2. CASE packing' = head
    BY <1>0, <2>2, NoHead DEF NoneEmpty, SameRing
  <2> QED
    BY <2>1, <2>2
<1> QED
  BY <1>0, <1>2, <1>3, <1>4, ElementStep

\* All lists change: the ring is the same if what they become are lists.
LEMMA ListsChanged ==
    ASSUME TypeOK, NEW f \in [Blocks -> Seq(Ptrs)],
           mem' = [b \in Blocks |-> [mem[b] EXCEPT !.list = f[b]]], head' = head
    PROVE  SameRing /\ \A b \in Blocks : mem'[b].list = f[b]
<1>1. \A b \in Blocks : mem[b] \in PtrBlock /\ mem'[b] = [mem[b] EXCEPT !.list = f[b]]
  BY DEF TypeOK
<1>2. \A b \in Blocks : mem'[b] \in PtrBlock /\ mem'[b].list = f[b]
  BY <1>1 DEF PtrBlock
<1>3. \A b \in Blocks : /\ mem'[b].next = mem[b].next /\ mem'[b].prev = mem[b].prev
                        /\ mem'[b].used = mem[b].used
  BY <1>1 DEF PtrBlock
<1> QED
  BY <1>2, <1>3 DEF SameRing

\* delete_ptr_list_entry keeps the invariant.
LEMMA DeleteKeeps ==
    ASSUME Inv, NEW p \in Ptrs, NEW count \in {0, 1}, delete_ptr_list_entry(p, count)
    PROVE  Inv'
<1>0. TypeOK
  BY DEF Inv
<1>1. Idle /\ packing' = head /\ out' = NoPtr /\ UNCHANGED <<head, walk, unpacked, undone>>
  BY DEF delete_ptr_list_entry, Returns
<1>2. \A b \in Blocks : mem[b].list \in Seq(Ptrs)
  BY <1>0 DEF TypeOK, PtrBlock
<1>3. SameRing /\ \A b \in Blocks : Len(mem'[b].list) <= Len(mem[b].list)
  <2> DEFINE one == BlockOf(p)
             f == [b \in Blocks |-> IF count = 0 THEN Others(mem[b].list, p)
                                    ELSE IF b = one THEN RemoveFirst(mem[b].list, p) ELSE mem[b].list]
  <2>1. f \in [Blocks -> Seq(Ptrs)] /\ \A b \in Blocks : Len(f[b]) <= Len(mem[b].list)
    <3> SUFFICES ASSUME NEW b \in Blocks PROVE f[b] \in Seq(Ptrs) /\ Len(f[b]) <= Len(mem[b].list)
      OBVIOUS
    <3>1. mem[b].list \in Seq(Ptrs) /\ Len(mem[b].list) \in Nat
      BY <1>2
    <3>2. Others(mem[b].list, p) \in Seq(Ptrs) /\ Len(Others(mem[b].list, p)) <= Len(mem[b].list)
      BY <3>1, OthersType
    <3>3. RemoveFirst(mem[b].list, p) \in Seq(Ptrs) /\ Len(RemoveFirst(mem[b].list, p)) <= Len(mem[b].list)
      BY <3>1, RemoveFirstType
    <3> HIDE DEF one
    <3> QED
      BY <3>1, <3>2, <3>3
  <2>2. mem' = [b \in Blocks |-> [mem[b] EXCEPT !.list = f[b]]]
    <3>1. CASE count = 0
      BY <3>1 DEF delete_ptr_list_entry
    <3>2. CASE count = 1
      <4>1. mem' = [mem EXCEPT ![one].list = RemoveFirst(@, p)]
        BY <3>2 DEF delete_ptr_list_entry
      <4> HIDE DEF one
      <4>2. \A b \in Blocks : mem'[b] = [mem[b] EXCEPT !.list = f[b]]
        <5> TAKE b \in Blocks
        <5>1. mem[b] \in PtrBlock
          BY <1>0 DEF TypeOK
        <5>2. CASE b = one
          BY <1>0, <3>2, <4>1, <5>2 DEF TypeOK
        <5>3. CASE b # one
          <6>1. mem'[b] = mem[b] /\ f[b] = mem[b].list
            BY <1>0, <3>2, <4>1, <5>3 DEF TypeOK
          <6> QED
            BY <5>1, <6>1 DEF PtrBlock
        <5> QED
          BY <5>2, <5>3
      <4>3. mem' = [b \in Blocks |-> mem'[b]]
        BY <1>0, <4>1 DEF TypeOK
      <4> QED
        BY <4>2, <4>3
    <3> QED
      BY <3>1, <3>2
  <2> HIDE DEF f
  <2>3. SameRing /\ \A b \in Blocks : mem'[b].list = f[b]
    BY <1>0, <1>1, <2>1, <2>2, ListsChanged
  <2> QED
    BY <2>1, <2>3
<1> QED
  BY <1>1, <1>3, Shorter

\* As many elements as before are in no block empty that was not.
LEMMA AsLong ==
    ASSUME NEW s \in Seq(Ptrs), NEW t \in Seq(Ptrs), Len(t) = Len(s), t = <<>>
    PROVE  s = <<>>
  OBVIOUS

\* replace_ptr_list_entry keeps the invariant.
LEMMA ReplaceKeeps ==
    ASSUME Inv, NEW p \in Ptrs, NEW q \in Ptrs, NEW count \in {0, 1},
           replace_ptr_list_entry(p, q, count)
    PROVE  Inv'
<1>0. TypeOK
  BY DEF Inv
<1>1. Idle /\ out' = NoPtr /\ UNCHANGED <<head, walk, packing, unpacked, undone>>
  BY DEF replace_ptr_list_entry, Returns
<1>2. \A b \in Blocks : mem[b].list \in Seq(Ptrs) /\ Len(mem[b].list) \in Nat
  <2> TAKE b \in Blocks
  <2>1. mem[b].list \in Seq(Ptrs)
    BY <1>0 DEF TypeOK, PtrBlock
  <2> QED
    BY <2>1
<1> DEFINE one == BlockOf(p)
           at(b) == SelectInSeq(mem[b].list, LAMBDA x : x = p)
           f == [b \in Blocks |-> IF count = 0 THEN ReplaceAll(mem[b].list, p, q)
                                  ELSE IF b = one THEN ReplaceAt(mem[b].list, at(b), q) ELSE mem[b].list]
<1>3. \A b \in Blocks : f[b] \in Seq(Ptrs) /\ Len(f[b]) = Len(mem[b].list)
  <2> TAKE b \in Blocks
  <2>1. mem[b].list \in Seq(Ptrs)
    BY <1>2
  <2> HIDE DEF one, at
  <2>2. /\ ReplaceAt(mem[b].list, at(b), q) \in Seq(Ptrs)
        /\ Len(ReplaceAt(mem[b].list, at(b), q)) = Len(mem[b].list)
        /\ ReplaceAll(mem[b].list, p, q) \in Seq(Ptrs)
        /\ Len(ReplaceAll(mem[b].list, p, q)) = Len(mem[b].list)
    BY <2>1, Replaced
  <2> QED
    BY <2>1, <2>2
<1>4. mem' = [b \in Blocks |-> [mem[b] EXCEPT !.list = f[b]]]
  <2>1. CASE count = 0
    BY <2>1 DEF replace_ptr_list_entry
  <2>2. CASE count = 1
    <3>1. mem' = [mem EXCEPT ![one].list = ReplaceAt(@, SelectInSeq(@, LAMBDA x : x = p), q)]
      BY <2>2 DEF replace_ptr_list_entry
    <3>2. mem' = [mem EXCEPT ![one].list = ReplaceAt(mem[one].list, at(one), q)]
      BY <3>1
    <3> HIDE DEF one, at
    <3>3. \A b \in Blocks : mem'[b] = [mem[b] EXCEPT !.list = f[b]]
      <4> TAKE b \in Blocks
      <4>1. mem[b] \in PtrBlock
        BY <1>0 DEF TypeOK
      <4>2. CASE b = one
        BY <1>0, <2>2, <3>2, <4>2 DEF TypeOK
      <4>3. CASE b # one
        <5>1. mem'[b] = mem[b] /\ f[b] = mem[b].list
          BY <1>0, <2>2, <3>2, <4>3 DEF TypeOK
        <5> QED
          BY <4>1, <5>1 DEF PtrBlock
      <4> QED
        BY <4>2, <4>3
    <3>4. mem' = [b \in Blocks |-> mem'[b]]
      BY <1>0, <3>2 DEF TypeOK
    <3> QED
      BY <3>3, <3>4
  <2> QED
    BY <2>1, <2>2
<1>5. f \in [Blocks -> Seq(Ptrs)]
  BY <1>3
<1> HIDE DEF f
<1>6. SameRing /\ \A b \in Blocks : mem'[b].list = f[b]
  BY <1>0, <1>1, <1>4, <1>5, ListsChanged
<1>7. \A b \in Blocks : mem'[b].list = <<>> => mem[b].list = <<>>
  BY <1>2, <1>3, <1>6, AsLong
<1>8. \A b \in Blocks : Len(mem'[b].list) <= Len(mem[b].list)
  BY <1>2, <1>3, <1>6
<1> QED
  BY <1>1, <1>6, <1>7, <1>8, Shorter

\* The body of a loop changes the elements of the block the loop is in.
LEMMA BodyChanges ==
    ASSUME Inv, walk.in, NEW t \in Seq(Ptrs), Len(t) <= NR,
           mem' = [mem EXCEPT ![walk.list].list = t],
           UNCHANGED <<head, packing, undone>>, out' = NoPtr,
           NEW n \in Nat, NEW i \in BOOLEAN, walk' = [walk EXCEPT !.nr = n, !.in = i],
           i => n \in 1 .. Len(t), n <= Len(t) + 1,
           (unpacked' = unpacked /\ t # <<>>) \/ unpacked' = TRUE
    PROVE  Inv'
<1> USE PtrListAssumption
<1>0. TypeOK /\ LinksAgree /\ Reached /\ Cursors
  BY DEF Inv
<1>1. walk.dir # "none" /\ walk.list \in Blocks /\ packing = Null /\ head # Null /\ mem[walk.list].used
  BY <1>0 DEF TypeOK, Cursors
<1>2. /\ SameRing
      /\ \A c \in Blocks : /\ mem'[c].list = IF c = walk.list THEN t ELSE mem[c].list
                           /\ Len(mem'[c].list) <= NR
  BY <1>0, <1>1, ListChanged
<1>3. /\ walk' \in [dir: {"none", "forward", "backward"}, head: Blocks \cup {Null},
                   list: Blocks \cup {Null}, nr: 0 .. NR + 1, in: BOOLEAN]
      /\ walk'.dir = walk.dir /\ walk'.list = walk.list /\ walk'.nr = n /\ walk'.in = i
  <2>1. walk \in [dir: {"none", "forward", "backward"}, head: Blocks \cup {Null},
                  list: Blocks \cup {Null}, nr: 0 .. NR + 1, in: BOOLEAN]
    BY <1>0 DEF TypeOK
  <2>2. n \in 0 .. NR + 1
    <3>1. Len(t) \in Nat
      OBVIOUS
    <3> QED
      BY <3>1
  <2> QED
    BY <2>1, <2>2
<1>4. TypeOK'
  BY <1>0, <1>2, <1>3 DEF TypeOK, SameRing
<1>5. Cursors'
  BY <1>0, <1>1, <1>2, <1>3 DEF Cursors, SameRing
<1>6. NoneEmpty'
  <2>1. SUFFICES ASSUME ~unpacked', t # <<>>, unpacked' = unpacked,
                        NEW c \in Blocks, mem[c].used, mem'[c].list = <<>>
                 PROVE  undone /\ c = mem[head].prev /\ mem'[head].prev = mem[head].prev
    BY <1>2 DEF NoneEmpty, SameRing
  <2>2. mem[c].list = <<>>
    BY <1>2, <2>1
  <2>3. undone /\ c = mem[head].prev
    BY <1>1, <2>1, <2>2 DEF Inv, NoneEmpty
  <2>4. head \in Blocks
    BY <1>0, <1>1 DEF TypeOK
  <2> QED
    BY <1>2, <2>3, <2>4 DEF SameRing
<1> QED
  BY <1>1, <1>2, <1>4, <1>5, <1>6, ElementStep

\* DELETE_CURRENT_PTR and REPLACE_CURRENT_PTR keep the invariant.
LEMMA CurrentKeeps ==
    ASSUME Inv, DELETE_CURRENT_PTR \/ \E p \in Ptrs : REPLACE_CURRENT_PTR(p)
    PROVE  Inv'
<1>0. TypeOK /\ Cursors
  BY DEF Inv
<1>1. walk.in /\ UNCHANGED <<head, packing, undone>> /\ out' = NoPtr
  BY DEF DELETE_CURRENT_PTR, REPLACE_CURRENT_PTR, Returns
<1> DEFINE b == walk.list
           s == mem[b].list
<1>2. /\ b \in Blocks /\ s \in Seq(Ptrs) /\ Len(s) <= NR /\ Len(s) \in Nat
      /\ walk.nr \in 1 .. Len(s)
  <2>1. b \in Blocks /\ s \in Seq(Ptrs) /\ Len(s) <= NR /\ walk.nr \in 1 .. Len(s)
    BY <1>0, <1>1 DEF TypeOK, Cursors, PtrBlock
  <2> QED
    BY <2>1
<1>3. CASE DELETE_CURRENT_PTR
  <2> DEFINE t == RemoveAt(s, walk.nr)
             n == walk.nr - 1
             i == FALSE
  <2>1. /\ mem' = [mem EXCEPT ![walk.list].list = t] /\ unpacked' = TRUE
        /\ walk' = [walk EXCEPT !.nr = n, !.in = i]
    BY <1>3 DEF DELETE_CURRENT_PTR
  <2>2. t \in Seq(Ptrs) /\ Len(t) = Len(s) - 1
    BY <1>2, Removed
  <2> HIDE DEF t, b, s
  <2>3. n \in Nat /\ n <= Len(t) + 1 /\ Len(t) <= NR
    <3>1. NR \in Nat
      BY PtrListAssumption
    <3> QED
      BY <1>2, <2>2, <3>1
  <2>4. i \in BOOLEAN /\ ~i
    OBVIOUS
  <2> HIDE DEF n, i
  <2> QED
    BY <1>1, <2>1, <2>2, <2>3, <2>4, BodyChanges
<1>4. ASSUME NEW p \in Ptrs, REPLACE_CURRENT_PTR(p) PROVE Inv'
  <2> DEFINE t == [s EXCEPT ![walk.nr] = p]
             n == walk.nr
             i == TRUE
  <2>1. /\ mem' = [mem EXCEPT ![walk.list].list = t] /\ unpacked' = unpacked
        /\ walk' = walk
    BY <1>4 DEF REPLACE_CURRENT_PTR
  <2>2. walk' = [walk EXCEPT !.nr = n, !.in = i]
    BY <1>0, <1>1, <2>1 DEF TypeOK
  <2>3. t \in Seq(Ptrs) /\ Len(t) = Len(s) /\ Len(t) \in Nat
    BY <1>2, Replaced DEF ReplaceAt
  <2>4. t # <<>>
    BY <1>2, <2>3
  <2> HIDE DEF t, b, s
  <2>5. n \in 1 .. Len(t) /\ n \in Nat /\ n <= Len(t) + 1 /\ Len(t) <= NR
    BY <1>2, <2>3
  <2>6. i \in BOOLEAN
    OBVIOUS
  <2> HIDE DEF n, i
  <2> QED
    BY <1>1, <2>1, <2>2, <2>3, <2>4, <2>5, <2>6, BodyChanges
<1> QED
  BY <1>3, <1>4

\* undo_ptr_list_last goes back along prev from the last block.
LEMMA LastFilledWalk ==
    ASSUME TypeOK, LinksAgree, head # Null
    PROVE  \E f \in [0 .. NBlocks -> {b \in Blocks : mem[b].used}] :
              /\ LastFilled = f[NBlocks] /\ f[0] = mem[head].prev
              /\ \A n \in 1 .. NBlocks : f[n] = IF mem[f[n - 1]].list # <<>> \/ f[n - 1] = head THEN f[n - 1]
                                               ELSE mem[f[n - 1]].prev
<1> DEFINE V == {b \in Blocks : mem[b].used}
           last == mem[head].prev
           step(b) == IF mem[b].list # <<>> \/ b = head THEN b ELSE mem[b].prev
           back[n \in 0 .. NBlocks] == IF n = 0 THEN last ELSE step(back[n - 1])
           G == [x \in Nat \X V |-> step(x[2])]
<1>1. NBlocks \in Nat /\ last \in V /\ G \in [Nat \X V -> V]
  BY PtrListAssumption DEF LinksAgree, TypeOK
<1>2. PICK f \in [0 .. NBlocks -> V] : Follows(f, 0, NBlocks, last, G)
  <2>1. 0 \in Nat
    OBVIOUS
  <2> HIDE DEF V, G, last
  <2> QED
    BY <1>1, <2>1, Recursive
<1>3. \A n \in 0 .. NBlocks : f[n] = IF n = 0 THEN last ELSE step(f[n - 1])
  <2> TAKE n \in 0 .. NBlocks
  <2>1. f[n] = IF n = 0 THEN last ELSE G[<<n, f[n - 1]>>]
    BY <1>2 DEF Follows
  <2>2. n # 0 => n \in Nat /\ n - 1 \in 0 .. NBlocks
    BY <1>1
  <2>3. n # 0 => f[n - 1] \in V
    BY <2>2
  <2>4. n # 0 => G[<<n, f[n - 1]>>] = step(f[n - 1])
    BY <2>2, <2>3
  <2> HIDE DEF G, step
  <2> QED
    BY <2>1, <2>4
<1>4. f = [n \in 0 .. NBlocks |-> IF n = 0 THEN last ELSE step(f[n - 1])]
  <2> HIDE DEF step, last
  <2> QED
    BY <1>2, <1>3
<1>5. back = [n \in 0 .. NBlocks |-> IF n = 0 THEN last ELSE step(back[n - 1])]
  <2> HIDE DEF step, last
  <2> QED
    BY <1>4
<1> HIDE DEF back, step
<1>6. back = f
  <2> DEFINE T == {n \in 0 .. NBlocks : back[n] # f[n]}
  <2>1. ASSUME T # {} PROVE FALSE
    <3>1. PICK n \in T : \A l \in T : n <= l
      <4> T \subseteq Nat
        OBVIOUS
      <4> HIDE DEF T
      <4> QED
        BY <2>1, Least
    <3>2. n # 0 => n - 1 \in 0 .. NBlocks /\ ~(n <= n - 1)
      BY <1>1
    <3>3. n # 0 => back[n - 1] = f[n - 1]
      BY <3>1, <3>2
    <3> QED
      BY <1>3, <1>5, <3>1, <3>3
  <2> QED
    BY <1>4, <1>5, <2>1
<1>7. LastFilled = back[NBlocks]
  BY DEF LastFilled, back, step
<1>8. LastFilled = f[NBlocks] /\ f[0] = last
  BY <1>1, <1>3, <1>6, <1>7
<1>9. \A n \in 1 .. NBlocks : f[n] = step(f[n - 1])
  BY <1>1, <1>3
<1> HIDE DEF V
<1> QED
  BY <1>2, <1>8, <1>9 DEF step, V

\* The block undo_ptr_list_last finds is a block of the list, and the last one
\* unless that is empty.
LEMMA LastFilledIs ==
    ASSUME TypeOK, LinksAgree, head # Null
    PROVE  /\ LastFilled \in Blocks
           /\ mem[mem[head].prev].list # <<>> => LastFilled = mem[head].prev
<1> DEFINE last == mem[head].prev
<1>1. NBlocks \in Nat /\ NBlocks \in 0 .. NBlocks
  BY PtrListAssumption
<1>2. PICK f \in [0 .. NBlocks -> {b \in Blocks : mem[b].used}] :
         /\ LastFilled = f[NBlocks] /\ f[0] = last
         /\ \A n \in 1 .. NBlocks : f[n] = IF mem[f[n - 1]].list # <<>> \/ f[n - 1] = head THEN f[n - 1]
                                          ELSE mem[f[n - 1]].prev
  BY LastFilledWalk
<1> HIDE DEF last
<1>3. ASSUME mem[last].list # <<>> PROVE \A n \in 0 .. NBlocks : f[n] = last
  <2> DEFINE T == {n \in 0 .. NBlocks : f[n] # last}
  <2>1. ASSUME T # {} PROVE FALSE
    <3>1. PICK n \in T : \A l \in T : n <= l
      <4> T \subseteq Nat
        OBVIOUS
      <4> HIDE DEF T
      <4> QED
        BY <2>1, Least
    <3>2. n # 0 /\ n \in 1 .. NBlocks /\ n - 1 \in 0 .. NBlocks /\ ~(n <= n - 1)
      BY <1>1, <1>2, <3>1
    <3>3. f[n - 1] = last
      BY <3>1, <3>2
    <3> QED
      BY <1>2, <1>3, <3>1, <3>2, <3>3
  <2> QED
    BY <2>1
<1> QED
  BY <1>1, <1>2, <1>3 DEF last

\* undo_ptr_list_last keeps the invariant.
LEMMA UndoKeeps ==
    ASSUME Inv, undo_ptr_list_last
    PROVE  Inv'
<1>0. TypeOK /\ LinksAgree /\ Reached /\ Cursors
  BY DEF Inv
<1>1. packing = Null /\ walk = NoWalk /\ ~undone /\ UNCHANGED <<head, walk, packing, unpacked>>
  BY DEF undo_ptr_list_last, Idle
<1>2. CASE head = Null \/ mem[LastFilled].list = <<>>
  <2>1. out' = NoPtr /\ UNCHANGED <<mem, undone>>
    BY <1>2 DEF undo_ptr_list_last, Returns
  <2>2. TypeOK' /\ Cursors'
    BY <1>0, <1>1, <2>1 DEF TypeOK, Cursors
  <2> QED
    BY <1>1, <2>1, <2>2, ReadKeeps
<1>3. CASE ~(head = Null \/ mem[LastFilled].list = <<>>)
  <2> DEFINE b == LastFilled
             t == Front(mem[b].list)
  <2>1. b \in Blocks
    BY <1>0, <1>3, LastFilledIs
  <2>2. /\ out' = Last(mem[b].list) /\ undone' = TRUE /\ mem[b].list # <<>>
        /\ mem' = [mem EXCEPT ![b].list = t]
    BY <1>3 DEF undo_ptr_list_last, Returns
  <2>3. unpacked \/ b = mem[head].prev
    <3>1. mem[head].prev \in Blocks /\ mem[mem[head].prev].used
      BY <1>0, <1>3 DEF TypeOK, LinksAgree
    <3>2. unpacked \/ mem[mem[head].prev].list # <<>>
      BY <1>1, <3>1 DEF Inv, NoneEmpty
    <3> QED
      BY <1>0, <1>3, <3>2, LastFilledIs
  <2>4. mem[b].list \in Seq(Ptrs) /\ Len(mem[b].list) <= NR
    BY <1>0, <2>1 DEF TypeOK, PtrBlock
  <2>5. t \in Seq(Ptrs) /\ Len(t) <= Len(mem[b].list) /\ out' \in Ptrs
    BY <2>2, <2>4, Fronted
  <2>6. Len(t) <= NR
    <3>1. Len(t) \in Nat /\ Len(mem[b].list) \in Nat /\ NR \in Nat
      BY <2>4, <2>5, PtrListAssumption
    <3> QED
      BY <2>4, <2>5, <3>1
  <2> HIDE DEF b, t
  <2>7. /\ SameRing
        /\ \A c \in Blocks : /\ mem'[c].list = IF c = b THEN t ELSE mem[c].list
                             /\ Len(mem'[c].list) <= NR
    BY <1>0, <1>1, <2>1, <2>2, <2>5, <2>6, ListChanged
  <2>8. TypeOK'
    BY <1>0, <1>1, <2>2, <2>5, <2>7 DEF TypeOK, SameRing
  <2>9. Cursors'
    BY <1>0, <1>1 DEF Cursors, NoWalk
  <2>10. NoneEmpty'
    <3> SUFFICES ASSUME ~unpacked, NEW c \in Blocks, mem[c].used, mem'[c].list = <<>>
                 PROVE  c = mem'[head].prev
      BY <1>1, <2>2, <2>7 DEF NoneEmpty, SameRing
    <3>1. c = b
      BY <1>1, <2>7 DEF Inv, NoneEmpty
    <3>2. head \in Blocks
      BY <1>0, <1>3 DEF TypeOK
    <3> QED
      BY <2>3, <2>7, <3>1, <3>2 DEF SameRing
  <2> QED
    BY <1>1, <2>7, <2>8, <2>9, <2>10, ElementStep
<1> QED
  BY <1>2, <1>3

\* The blocks in use are those that a walk along next meets.
LEMMA UsedIsInRing ==
    ASSUME TypeOK, LinksAgree, Reached
    PROVE  {b \in Blocks : mem[b].used} = InRing
<1> DEFINE U == {b \in Blocks : mem[b].used}
<1>1. CASE head = Null
  BY <1>1, NoHead DEF InRing
<1>2. CASE head # Null
  <2>1. ASSUME NEW b \in InRing PROVE b \in U
    <3>1. U \in SUBSET Blocks /\ head \in U /\ \A c \in U : mem[c].next \in U \cup {Null}
      BY <1>2 DEF LinksAgree, TypeOK
    <3> HIDE DEF U
    <3> QED
      BY <2>1, <3>1 DEF InRing
  <2>2. ASSUME NEW b \in U PROVE b \in InRing
    <3> SUFFICES ASSUME NEW S \in SUBSET Blocks, head \in S,
                        \A c \in S : mem[c].next \in S \cup {Null}
                 PROVE  b \in S
      BY <1>2 DEF InRing
    <3>1. Closed(S, Null)
      BY DEF Closed
    <3> QED
      BY <2>2, <3>1 DEF Reached
  <2> QED
    BY <2>1, <2>2 DEF InRing
<1> QED
  BY <1>1, <1>2

\* __free_ptr_list keeps the invariant.
LEMMA FreeKeeps ==
    ASSUME Inv, __free_ptr_list
    PROVE  Inv'
<1>0. TypeOK /\ LinksAgree /\ Reached /\ Cursors
  BY DEF Inv
<1>1. /\ packing = Null /\ walk = NoWalk /\ head' = Null /\ unpacked' = FALSE /\ undone' = FALSE
      /\ out' = NoPtr /\ UNCHANGED <<walk, packing>>
  BY DEF __free_ptr_list, Idle, Returns
<1>2. mem' = [b \in Blocks |-> IF b \in InRing THEN FreeBlock ELSE mem[b]]
  BY DEF __free_ptr_list
<1>3. FreeBlock \in PtrBlock /\ ~FreeBlock.used /\ FreeBlock.list = <<>>
  BY DEF FreeBlock, PtrBlock, Null
<1>4. \A b \in Blocks : b \in InRing <=> mem[b].used
  BY <1>0, UsedIsInRing
<1>5. \A b \in Blocks : ~mem'[b].used
  BY <1>2, <1>3, <1>4
<1>6. TypeOK'
  <2>1. Len(FreeBlock.list) <= NR
    BY <1>3, PtrListAssumption
  <2>2. mem' \in [Blocks -> PtrBlock] /\ \A b \in Blocks : Len(mem'[b].list) <= NR
    BY <1>0, <1>2, <1>3, <2>1 DEF TypeOK
  <2> QED
    BY <1>0, <1>1, <2>2 DEF TypeOK
<1> QED
  BY <1>1, <1>5, <1>6 DEF Inv, LinksAgree, Reached, Cursors, EmptyAhead, NoneEmpty, NoWalk

\* Blocks m of which one gets other elements.
LEMMA OneList ==
    ASSUME NEW m \in [Blocks -> PtrBlock], NEW b \in Blocks, NEW t \in Seq(Ptrs)
    PROVE  /\ WithList(m, b, t) \in [Blocks -> PtrBlock]
           /\ \A d \in Blocks : /\ WithList(m, b, t)[d].next = m[d].next
                                /\ WithList(m, b, t)[d].prev = m[d].prev
                                /\ WithList(m, b, t)[d].used = m[d].used
                                /\ WithList(m, b, t)[d].list = IF d = b THEN t ELSE m[d].list
<1> DEFINE r == WithList(m, b, t)
<1>1. \A d \in Blocks : m[d] \in PtrBlock
  OBVIOUS
<1>2. \A d \in Blocks : r[d] = IF d = b THEN [m[b] EXCEPT !.list = t] ELSE m[d]
  BY DEF WithList
<1>3. r = [d \in Blocks |-> r[d]]
  BY DEF WithList
<1> HIDE DEF r
<1>4. \A d \in Blocks : r[d] \in PtrBlock
  BY <1>1, <1>2 DEF PtrBlock
<1>5. \A d \in Blocks : /\ r[d].next = m[d].next /\ r[d].prev = m[d].prev
                        /\ r[d].used = m[d].used
                        /\ r[d].list = IF d = b THEN t ELSE m[d].list
  BY <1>1, <1>2 DEF PtrBlock
<1> QED
  BY <1>3, <1>4, <1>5 DEF r

\* A full block is cut into two that are neither full nor empty.
LEMMA Halves ==
    ASSUME NEW n \in Nat, n >= 2
    PROVE  /\ KeptBySplit(n) \in Nat /\ KeptBySplit(n) >= 1 /\ KeptBySplit(n) + 1 <= n
           /\ n - KeptBySplit(n) + 1 <= n
<1>1. n \div 2 \in Nat /\ n \div 2 >= 1 /\ n \div 2 < n
  OBVIOUS
<1> QED
  BY <1>1 DEF KeptBySplit

\* INSERT_CURRENT into a block that was cut keeps the invariant.
LEMMA SplitKeeps ==
    ASSUME Inv, walk.dir = "backward", walk.in, UNCHANGED <<head, packing, unpacked, undone>>,
           out' = NoPtr,
           NEW b \in Blocks, b = walk.list, NEW n \in Blocks, ~mem[n].used,
           NEW q \in Seq(Ptrs), NEW lo \in Seq(Ptrs), Len(q) <= NR, Len(lo) <= NR,
           q # <<>>, lo # <<>>,
           NEW c \in {b, n}, NEW t \in Seq(Ptrs), Len(t) <= NR, t # <<>>,
           NEW j \in 1 .. Len(t),
           mem' = WithList(WithList(link(b, n, q), b, lo), c, t),
           walk' = [walk EXCEPT !.list = c, !.nr = j]
    PROVE  Inv'
<1>0. TypeOK /\ LinksAgree /\ Reached /\ Cursors
  BY DEF Inv
<1>1. head # Null /\ packing = Null /\ mem[b].used
  BY <1>0 DEF Cursors
<1> DEFINE m == link(b, n, q)
           r == WithList(m, b, lo)
<1>2. /\ m \in [Blocks -> PtrBlock]
      /\ \A d \in Blocks : m[d].list = (IF d = n THEN q ELSE mem[d].list) /\ (m[d].used <=> (d = n \/ mem[d].used))
  BY <1>0, <1>1, Linked
<1>3. /\ r \in [Blocks -> PtrBlock]
      /\ \A d \in Blocks : /\ r[d].next = m[d].next /\ r[d].prev = m[d].prev
                           /\ r[d].used = m[d].used
                           /\ r[d].list = IF d = b THEN lo ELSE m[d].list
  <2>1. m \in [Blocks -> PtrBlock]
    BY <1>2
  <2> HIDE DEF m
  <2> QED
    BY <2>1, OneList
<1>4. /\ mem' \in [Blocks -> PtrBlock]
      /\ \A d \in Blocks : /\ mem'[d].next = r[d].next /\ mem'[d].prev = r[d].prev
                           /\ mem'[d].used = r[d].used
                           /\ mem'[d].list = IF d = c THEN t ELSE r[d].list
  <2>1. mem' = WithList(r, c, t) /\ c \in Blocks
    OBVIOUS
  <2> HIDE DEF r
  <2> QED
    BY <1>3, <2>1, OneList
<1> HIDE DEF r
<1>5. LinksAgree' /\ Reached'
  <2>1. LinkedAs(m)
    BY <1>3, <1>4 DEF LinkedAs
  <2> QED
    BY <1>0, <1>1, <2>1, LinkKeeps
<1> HIDE DEF m
<1>6. \A d \in Blocks : /\ mem'[d].list = IF d = c THEN t ELSE IF d = b THEN lo
                                           ELSE IF d = n THEN q ELSE mem[d].list
                        /\ mem'[d].used <=> (d = n \/ mem[d].used)
  BY <1>2, <1>3, <1>4
<1>7. \A d \in Blocks : Len(mem'[d].list) <= NR
  BY <1>0, <1>6 DEF TypeOK
<1>8. /\ walk' \in [dir: {"none", "forward", "backward"}, head: Blocks \cup {Null},
                   list: Blocks \cup {Null}, nr: 0 .. NR + 1, in: BOOLEAN]
      /\ walk'.dir = walk.dir /\ walk'.list = c /\ walk'.nr = j /\ walk'.in = walk.in
  <2>1. walk \in [dir: {"none", "forward", "backward"}, head: Blocks \cup {Null},
                  list: Blocks \cup {Null}, nr: 0 .. NR + 1, in: BOOLEAN]
    BY <1>0 DEF TypeOK
  <2>2. j \in 0 .. NR + 1
    <3>1. Len(t) \in Nat /\ NR \in Nat
      BY PtrListAssumption
    <3> QED
      BY <3>1
  <2> QED
    BY <2>1, <2>2
<1>9. TypeOK'
  BY <1>0, <1>4, <1>7, <1>8 DEF TypeOK
<1>10. Cursors'
  <2>1. c \in Blocks /\ mem'[c].used /\ mem'[c].list = t /\ j <= Len(t) + 1
    <3>1. Len(t) \in Nat /\ Len(t) <= Len(t) + 1
      OBVIOUS
    <3>2. j <= Len(t) + 1
      BY <3>1
    <3>3. c = b \/ c = n
      OBVIOUS
    <3> QED
      BY <1>1, <1>6, <3>2, <3>3
  <2> QED
    BY <1>1, <1>8, <2>1 DEF Cursors, Null, Blocks
<1>11. NoneEmpty'
  <2> SUFFICES ASSUME ~unpacked, NEW d \in Blocks, mem'[d].used, mem'[d].list = <<>>
               PROVE  undone /\ d = mem'[head].prev
    BY <1>1 DEF NoneEmpty
  <2>1. d # b /\ d # n /\ mem[d].list = <<>> /\ mem[d].used
    BY <1>6
  <2>2. undone /\ d = mem[head].prev
    BY <1>1, <2>1 DEF Inv, NoneEmpty
  <2>3. head \in Blocks /\ head # n /\ head # mem[b].next
    <3>1. head \in Blocks /\ mem[head].used
      BY <1>0, <1>1 DEF TypeOK, LinksAgree
    <3>2. mem[mem[b].next].prev = b
      BY <1>0, <1>1 DEF LinksAgree
    <3> QED
      BY <2>1, <2>2, <3>1, <3>2
  <2>4. link(b, n, q)[head].prev = mem[head].prev
    <3>1. mem[head] \in PtrBlock
      BY <1>0, <2>3 DEF TypeOK
    <3>2. link(b, n, q)[head] = [mem[head] EXCEPT !.next = IF head = b THEN n ELSE @,
                                                  !.prev = IF head = mem[b].next THEN n ELSE @]
      BY <2>3 DEF link
    <3>3. link(b, n, q)[head] = [mem[head] EXCEPT !.next = IF head = b THEN n ELSE @]
      BY <2>3, <3>1, <3>2 DEF PtrBlock
    <3> QED
      BY <3>1, <3>3 DEF PtrBlock
  <2>5. mem'[head].prev = link(b, n, q)[head].prev
    BY <1>3, <1>4, <2>3 DEF m
  <2> QED
    BY <2>2, <2>4, <2>5
<1> QED
  BY <1>1, <1>5, <1>9, <1>10, <1>11, HeadPacks DEF Inv

\* INSERT_CURRENT keeps the invariant.
LEMMA InsertKeeps ==
    ASSUME Inv, NEW p \in Ptrs, INSERT_CURRENT(p)
    PROVE  Inv'
<1>0. TypeOK /\ LinksAgree /\ Reached /\ Cursors
  BY DEF Inv
<1> DEFINE b == walk.list
           s == mem[b].list
<1>1. /\ walk.in /\ walk.dir = "backward" /\ out' = NoPtr
      /\ UNCHANGED <<head, packing, unpacked, undone>>
  BY DEF INSERT_CURRENT, Returns
<1>2. /\ b \in Blocks /\ mem[b].used /\ s \in Seq(Ptrs) /\ Len(s) <= NR /\ Len(s) \in Nat
      /\ walk.nr \in 1 .. Len(s) /\ NR \in Nat /\ NR >= 2 /\ head # Null /\ packing = Null
  <2>1. /\ b \in Blocks /\ mem[b].used /\ s \in Seq(Ptrs) /\ Len(s) <= NR
        /\ walk.nr \in 1 .. Len(s) /\ head # Null /\ packing = Null
    BY <1>0, <1>1 DEF TypeOK, Cursors, PtrBlock
  <2>2. NR \in Nat /\ NR >= 2
    BY PtrListAssumption
  <2> QED
    BY <2>1, <2>2
<1>3. CASE ~Full(b)
  <2> DEFINE t == InsertAt(s, walk.nr, p)
             n == walk.nr
             i == TRUE
  <2>1. mem' = [mem EXCEPT ![walk.list].list = t] /\ walk' = walk
    BY <1>3 DEF INSERT_CURRENT
  <2>2. walk' = [walk EXCEPT !.nr = n, !.in = i]
    BY <1>0, <1>1, <2>1 DEF TypeOK
  <2>3. t \in Seq(Ptrs) /\ Len(t) = Len(s) + 1
    <3>1. s \in Seq(Ptrs) /\ walk.nr \in 1 .. Len(s) + 1
      BY <1>2
    <3> HIDE DEF s
    <3> QED
      BY <3>1, Inserted
  <2>4. Len(s) < NR
    BY <1>2, <1>3 DEF Full
  <2> HIDE DEF t, b, s
  <2>5. n \in 1 .. Len(t) /\ n \in Nat /\ n <= Len(t) + 1 /\ Len(t) <= NR /\ t # <<>>
    BY <1>2, <2>3, <2>4
  <2>6. i \in BOOLEAN
    OBVIOUS
  <2> HIDE DEF n, i
  <2> QED
    BY <1>1, <2>1, <2>2, <2>3, <2>5, <2>6, BodyChanges
<1>4. CASE Full(b)
  <2> DEFINE n == NewBlock
             keep == KeptBySplit(Len(s))
             q == SubSeq(s, keep + 1, Len(s))
             lo == SubSeq(s, 1, keep)
  <2>1. n \in Blocks /\ ~mem[n].used /\ n # b
    BY <1>2, <1>4, NewBlockUnused DEF INSERT_CURRENT
  <2>2. Len(s) = NR /\ keep \in Nat /\ keep >= 1 /\ keep + 1 <= Len(s) /\ Len(s) - keep + 1 <= Len(s)
    <3>1. Len(s) = NR
      BY <1>2, <1>4 DEF Full
    <3> HIDE DEF s
    <3> QED
      BY <1>2, <3>1, Halves
  <2>3. lo \in Seq(Ptrs) /\ Len(lo) = keep /\ q \in Seq(Ptrs) /\ Len(q) = Len(s) - keep
    <3> HIDE DEF s, keep
    <3>1. 1 \in 1 .. Len(s) + 1 /\ keep \in 1 - 1 .. Len(s)
      BY <1>2, <2>2
    <3>2. keep + 1 \in 1 .. Len(s) + 1 /\ Len(s) \in keep + 1 - 1 .. Len(s)
      BY <1>2, <2>2
    <3>3. lo \in Seq(Ptrs) /\ Len(lo) = keep - 1 + 1
      BY <1>2, <3>1, Cut
    <3>4. q \in Seq(Ptrs) /\ Len(q) = Len(s) - (keep + 1) + 1
      BY <1>2, <3>2, Cut
    <3> QED
      BY <1>2, <2>2, <3>3, <3>4
  <2>4. lo # <<>> /\ q # <<>> /\ Len(lo) <= NR /\ Len(q) <= NR
    <3> HIDE DEF s, keep, lo, q
    <3> QED
      BY <1>2, <2>2, <2>3
  <2> DEFINE split == WithList(link(b, n, q), b, lo)
  <2>7. split[b].list = lo /\ split[n].list = q
    <3> HIDE DEF s, keep, lo, q
    <3>1. /\ link(b, n, q) \in [Blocks -> PtrBlock] /\ link(b, n, q)[n].list = q
      BY <1>0, <1>2, <2>1, <2>3, Linked
    <3> QED
      BY <1>2, <2>1, <2>3, <3>1, OneList
  <2>5. CASE walk.nr <= keep
    <3> DEFINE t == InsertAt(lo, walk.nr, p)
               j == walk.nr
               c == b
    <3>1. mem' = WithList(split, c, t) /\ walk' = walk
      <4>1. mem' = [split EXCEPT ![b].list = InsertAt(@, walk.nr, p)] /\ walk' = walk
        BY <1>2, <1>4, <2>5 DEF INSERT_CURRENT, WithList
      <4> HIDE DEF split, lo
      <4>2. mem' = WithList(split, b, InsertAt(split[b].list, walk.nr, p))
        BY <4>1 DEF WithList
      <4> QED
        BY <1>2, <2>7, <4>1, <4>2
    <3>2. walk' = [walk EXCEPT !.list = c, !.nr = j]
      BY <1>0, <3>1 DEF TypeOK
    <3> HIDE DEF s, keep, lo, q
    <3>3. t \in Seq(Ptrs) /\ Len(t) = Len(lo) + 1
      <4>1. walk.nr \in 1 .. Len(lo) + 1
        BY <1>2, <2>2, <2>3, <2>5
      <4> QED
        BY <2>3, <4>1, Inserted
    <3> HIDE DEF t
    <3>4. Len(t) <= NR /\ t # <<>> /\ j \in 1 .. Len(t)
      BY <1>2, <2>2, <2>3, <2>5, <3>3
    <3>5. b = walk.list /\ c \in {b, n}
      OBVIOUS
    <3> HIDE DEF b, n, j, c
    <3> QED
      BY <1>1, <1>2, <2>1, <2>3, <2>4, <3>1, <3>2, <3>3, <3>4, <3>5, SplitKeeps
  <2>6. CASE ~(walk.nr <= keep)
    <3> DEFINE j == walk.nr - keep
               t == InsertAt(q, j, p)
               c == n
    <3>1. mem' = WithList(split, c, t) /\ walk' = [walk EXCEPT !.list = c, !.nr = j]
      <4>1. /\ mem' = [split EXCEPT ![n].list = InsertAt(@, j, p)]
            /\ walk' = [walk EXCEPT !.list = c, !.nr = j]
        BY <1>2, <1>4, <2>6 DEF INSERT_CURRENT, WithList
      <4> HIDE DEF split, q
      <4>2. mem' = WithList(split, n, InsertAt(split[n].list, j, p))
        BY <4>1 DEF WithList
      <4> QED
        BY <2>1, <2>7, <4>1, <4>2
    <3> HIDE DEF s, keep, lo, q
    <3>3. t \in Seq(Ptrs) /\ Len(t) = Len(q) + 1 /\ j \in 1 .. Len(q)
      <4>1. j \in 1 .. Len(q) /\ j \in 1 .. Len(q) + 1
        BY <1>2, <2>2, <2>3, <2>6
      <4> HIDE DEF j
      <4> QED
        BY <2>3, <4>1, Inserted
    <3> HIDE DEF t, j
    <3>4. Len(t) <= NR /\ t # <<>> /\ j \in 1 .. Len(t)
      BY <1>2, <2>2, <2>3, <2>6, <3>3
    <3>5. b = walk.list /\ c \in {b, n}
      OBVIOUS
    <3> HIDE DEF b, n, c
    <3> QED
      BY <1>1, <1>2, <2>1, <2>3, <2>4, <3>1, <3>3, <3>4, <3>5, SplitKeeps
  <2> QED
    BY <2>5, <2>6
<1> QED
  BY <1>3, <1>4

\* Packing an empty list keeps the invariant.
LEMMA FreeAllKeeps ==
    ASSUME Inv, FreeAll
    PROVE  Inv'
<1>0. TypeOK /\ LinksAgree /\ Reached /\ Cursors
  BY DEF Inv
<1>1. /\ packing \in Blocks /\ mem[packing].used /\ mem[packing].next = packing
      /\ head # Null /\ walk = NoWalk
  BY <1>0 DEF FreeAll, TypeOK, Cursors
<1>2. \A c \in Blocks : mem[c].used => c = packing
  BY <1>0, <1>1, Alone
<1>3. /\ mem' = [mem EXCEPT ![packing] = FreeBlock] /\ head' = Null /\ packing' = Null
      /\ unpacked' = FALSE /\ undone' = FALSE /\ out' = NoPtr /\ walk' = walk
  BY DEF FreeAll, Packed, Returns
<1>4. FreeBlock \in PtrBlock /\ ~FreeBlock.used /\ Len(FreeBlock.list) <= NR
  BY PtrListAssumption DEF FreeBlock, PtrBlock, Null
<1>5. /\ mem' \in [Blocks -> PtrBlock]
      /\ \A b \in Blocks : ~mem'[b].used /\ Len(mem'[b].list) <= NR
  BY <1>0, <1>1, <1>2, <1>3, <1>4 DEF TypeOK
<1>6. TypeOK'
  BY <1>0, <1>3, <1>5 DEF TypeOK
<1> QED
  BY <1>1, <1>3, <1>5, <1>6
     DEF Inv, LinksAgree, Reached, Cursors, EmptyAhead, NoneEmpty, NoWalk

\* A block pulled out leaves blocks.
LEMMA UnlinkType ==
    ASSUME TypeOK, LinksAgree, NEW b \in Blocks, mem[b].used, mem[b].next # b,
           mem' = unlink(b), head' = IF b = head THEN mem[b].next ELSE head,
           packing' \in Blocks \cup {Null}, walk' = walk, out' = NoPtr,
           unpacked' \in BOOLEAN, undone' \in BOOLEAN
    PROVE  TypeOK'
<1>1. mem' \in [Blocks -> PtrBlock] /\ head' \in Blocks \cup {Null}
  BY Unlinked DEF TypeOK
<1>2. Len(FreeBlock.list) <= NR
  BY PtrListAssumption DEF FreeBlock
<1>3. \A c \in Blocks : Len(mem'[c].list) <= NR
  <2> TAKE c \in Blocks
  <2>1. mem'[b] = FreeBlock /\ (c # b => mem'[c].list = mem[c].list)
    BY Unlinked
  <2> QED
    BY <1>2, <2>1 DEF TypeOK
<1> QED
  BY <1>1, <1>3 DEF TypeOK

\* Packing past an empty head keeps the invariant.
LEMMA FreeHeadKeeps ==
    ASSUME Inv, FreeHead
    PROVE  Inv'
<1>0. TypeOK /\ LinksAgree /\ Reached /\ Cursors
  BY DEF Inv
<1> DEFINE b == packing
           nx == mem[packing].next
<1>1. /\ b \in Blocks /\ mem[b].used /\ nx # b /\ head # Null /\ walk = NoWalk /\ b = head
  BY <1>0 DEF FreeHead, TypeOK, Cursors
<1>2. /\ mem' = unlink(b) /\ head' = nx /\ packing' = nx
      /\ out' = NoPtr /\ UNCHANGED <<walk, unpacked, undone>>
  BY DEF FreeHead, Returns
<1>3. nx \in Blocks /\ mem'[nx].used
  BY <1>0, <1>1, <1>2, Unlinked
<1>4. LinksAgree' /\ Reached'
  BY <1>0, <1>1, <1>2, UnlinkKeeps
<1>5. TypeOK'
  <2>1. packing' \in Blocks \cup {Null} /\ unpacked' \in BOOLEAN /\ undone' \in BOOLEAN
    BY <1>0, <1>2, <1>3 DEF TypeOK
  <2> QED
    BY <1>0, <1>1, <1>2, <2>1, UnlinkType
<1>6. Cursors' /\ NoneEmpty'
  BY <1>1, <1>2, <1>3 DEF Cursors, NoneEmpty, NoWalk, Null, Blocks
<1> QED
  BY <1>2, <1>4, <1>5, <1>6, HeadPacks DEF Inv

\* Packing past any other block keeps the invariant.
LEMMA PackKeeps ==
    ASSUME Inv, PackBlock
    PROVE  Inv'
<1>0. TypeOK /\ LinksAgree /\ Reached /\ Cursors
  BY DEF Inv
<1> DEFINE b == packing
           nx == mem[packing].next
<1>1. /\ b \in Blocks /\ b # Null /\ mem[b].used /\ head # Null /\ walk = NoWalk
      /\ nx \in Blocks /\ mem[nx].used /\ head \in Blocks
  BY <1>0 DEF PackBlock, TypeOK, Cursors, LinksAgree
<1>2. /\ head' = head /\ walk' = walk /\ out' = NoPtr
      /\ IF nx = head THEN packing' = Null /\ unpacked' = FALSE /\ undone' = FALSE
         ELSE packing' = nx /\ UNCHANGED <<unpacked, undone>>
  BY DEF PackBlock, Packed, Returns
<1>3. packing' \in Blocks \cup {Null} /\ unpacked' \in BOOLEAN /\ undone' \in BOOLEAN
  BY <1>0, <1>1, <1>2 DEF TypeOK
<1>4. CASE mem[b].list # <<>> /\ mem' = mem
  <2>1. TypeOK'
    BY <1>0, <1>2, <1>3, <1>4 DEF TypeOK
  <2>2. LinksAgree' /\ Reached'
    BY <1>0, <1>2, <1>4 DEF LinksAgree, Reached, Closed
  <2>3. Cursors'
    BY <1>1, <1>2, <1>4 DEF Cursors, NoWalk
  <2>4. EmptyAhead'
    <3> SUFFICES ASSUME packing' = nx, NEW S \in SUBSET Blocks, nx \in S, Closed(S, head)',
                        NEW c \in Blocks, mem[c].used, mem[c].list = <<>>
                 PROVE  c \in S
      BY <1>2, <1>4 DEF EmptyAhead
    <3>1. S \cup {b} \in SUBSET Blocks /\ b \in S \cup {b} /\ Closed(S \cup {b}, head)
      BY <1>1, <1>2, <1>4 DEF Closed
    <3>2. c \in S \cup {b}
      BY <1>1, <3>1 DEF Inv, EmptyAhead
    <3> QED
      BY <1>4, <3>2
  <2>5. NoneEmpty'
    <3> SUFFICES ASSUME nx = head, NEW c \in Blocks, mem[c].used, mem[c].list = <<>> PROVE FALSE
      BY <1>1, <1>2, <1>4 DEF NoneEmpty, Null, Blocks
    <3>1. {b} \in SUBSET Blocks /\ b \in {b} /\ Closed({b}, head)
      BY <1>1 DEF Closed
    <3>2. c \in {b}
      BY <1>1, <3>1 DEF Inv, EmptyAhead
    <3> QED
      BY <1>4, <3>2
  <2> QED
    BY <2>1, <2>2, <2>3, <2>4, <2>5 DEF Inv
<1>5. CASE mem[b].list = <<>> /\ b # head /\ mem' = unlink(b)
  <2>1. nx # b
    BY <1>0, <1>1, <1>5, Alone
  <2>2. /\ mem[b].prev \in Blocks /\ mem[b].prev # b
        /\ mem'[nx].used
        /\ \A c \in Blocks : c # b =>
              /\ mem'[c].next = IF c = mem[b].prev THEN nx ELSE mem[c].next
              /\ mem'[c].used = mem[c].used
              /\ mem'[c].list = mem[c].list
        /\ mem'[b].used = FALSE
    BY <1>0, <1>1, <1>5, <2>1, Unlinked DEF FreeBlock
  <2>3. mem[mem[b].prev].next = b
    BY <1>0, <1>1 DEF LinksAgree
  <2>4. TypeOK'
    BY <1>0, <1>1, <1>2, <1>3, <1>5, <2>1, UnlinkType
  <2>5. LinksAgree' /\ Reached'
    BY <1>0, <1>1, <1>2, <1>5, <2>1, UnlinkKeeps
  <2>6. Cursors'
    BY <1>1, <1>2, <2>2 DEF Cursors, NoWalk
  <2>7. EmptyAhead'
    <3> SUFFICES ASSUME packing' = nx, NEW S \in SUBSET Blocks, nx \in S, Closed(S, head)',
                        NEW c \in Blocks, mem'[c].used, mem'[c].list = <<>>
                 PROVE  c \in S
      BY <1>2 DEF EmptyAhead
    <3>1. S \cup {b} \in SUBSET Blocks /\ b \in S \cup {b}
      BY <1>1
    <3>2. Closed(S \cup {b}, head)
      <4> SUFFICES ASSUME NEW d \in S, d # b PROVE mem[d].next \in (S \cup {b}) \cup {Null, head}
        BY DEF Closed
      <4>1. mem'[d].next \in S \cup {Null, head}
        BY <1>2 DEF Closed
      <4> QED
        BY <2>2, <2>3, <4>1
    <3>3. c # b /\ mem[c].used /\ mem[c].list = <<>>
      BY <2>2
    <3>4. c \in S \cup {b}
      BY <1>1, <3>1, <3>2, <3>3 DEF Inv, EmptyAhead
    <3> QED
      BY <3>3, <3>4
  <2>8. NoneEmpty'
    <3> SUFFICES ASSUME nx = head, NEW c \in Blocks, mem'[c].used, mem'[c].list = <<>> PROVE FALSE
      BY <1>1, <1>2 DEF NoneEmpty, Null, Blocks
    <3>1. {b} \in SUBSET Blocks /\ b \in {b} /\ Closed({b}, head)
      BY <1>1 DEF Closed
    <3>2. c # b /\ mem[c].used /\ mem[c].list = <<>>
      BY <2>2
    <3>3. c \in {b}
      BY <1>1, <3>1, <3>2 DEF Inv, EmptyAhead
    <3> QED
      BY <3>2, <3>3
  <2> QED
    BY <2>4, <2>5, <2>6, <2>7, <2>8 DEF Inv
<1>6. \/ mem[b].list # <<>> /\ mem' = mem
      \/ mem[b].list = <<>> /\ b # head /\ mem' = unlink(b)
  BY DEF PackBlock
<1> QED
  BY <1>4, <1>5, <1>6

-----------------------------------------------------------------------------
\* Every state of a list has the invariant.
THEOREM Invariance == Spec => []Inv
<1>1. Init => Inv
  <2> SUFFICES ASSUME Init PROVE Inv
    OBVIOUS
  <2>1. FreeBlock \in PtrBlock /\ ~FreeBlock.used /\ Len(FreeBlock.list) <= NR /\ NR \in Nat
    BY PtrListAssumption DEF FreeBlock, PtrBlock, Null
  <2>2. TypeOK
    <3>1. mem \in [Blocks -> PtrBlock] /\ \A b \in Blocks : Len(mem[b].list) <= NR
      <4> HIDE DEF PtrBlock
      <4> QED
        BY <2>1 DEF Init
    <3>2. walk \in [dir: {"none", "forward", "backward"}, head: Blocks \cup {Null},
                   list: Blocks \cup {Null}, nr: 0 .. NR + 1, in: BOOLEAN]
      BY <2>1 DEF Init, NoWalk
    <3> QED
      BY <3>1, <3>2 DEF Init, TypeOK
  <2> QED
    BY <2>1, <2>2 DEF Init, Inv, LinksAgree, Reached, Cursors, EmptyAhead, NoneEmpty, NoWalk
<1>2. Inv /\ [Next]_vars => Inv'
  <2> SUFFICES ASSUME Inv, [Next]_vars PROVE Inv'
    OBVIOUS
  <2>1. ASSUME NEW p \in Ptrs, __add_ptr_list(p) PROVE Inv'
    BY <2>1, AddKeeps
  <2>2. CASE first_ptr_list \/ last_ptr_list \/ pack_ptr_list
    BY <2>2, CallKeeps
  <2>3. CASE undo_ptr_list_last
    BY <2>3, UndoKeeps
  <2>4. CASE __free_ptr_list
    BY <2>4, FreeKeeps
  <2>5. ASSUME NEW p \in Ptrs, NEW count \in {0, 1}, delete_ptr_list_entry(p, count) PROVE Inv'
    BY <2>5, DeleteKeeps
  <2>6. ASSUME NEW p \in Ptrs, NEW q \in Ptrs, NEW count \in {0, 1},
               replace_ptr_list_entry(p, q, count)
        PROVE  Inv'
    BY <2>6, ReplaceKeeps
  <2>7. CASE FreeAll
    BY <2>7, FreeAllKeeps
  <2>8. CASE FreeHead
    BY <2>8, FreeHeadKeeps
  <2>9. CASE PackBlock
    BY <2>9, PackKeeps
  <2>10. CASE \/ FOR_EACH_PTR \/ ForwardElement \/ ForwardBlock
              \/ FOR_EACH_PTR_REVERSE \/ BackwardElement \/ BackwardBlock \/ BodyEnds
    BY <2>10, LoopKeeps
  <2>11. CASE DELETE_CURRENT_PTR \/ \E p \in Ptrs : REPLACE_CURRENT_PTR(p)
    BY <2>11, CurrentKeeps
  <2>12. ASSUME NEW p \in Ptrs, INSERT_CURRENT(p) PROVE Inv'
    BY <2>12, InsertKeeps
  <2>13. CASE UNCHANGED vars
    <3>1. UNCHANGED <<mem, head, walk, packing, out, unpacked, undone>>
      BY <2>13 DEF vars
    <3>2. TypeOK' /\ Cursors'
      BY <3>1 DEF Inv, TypeOK, Cursors
    <3> QED
      BY <3>1, <3>2, ReadKeeps
  <2> QED
    BY <2>1, <2>2, <2>3, <2>4, <2>5, <2>6, <2>7, <2>8, <2>9, <2>10, <2>11, <2>12, <2>13 DEF Next
<1> QED
  BY <1>1, <1>2, PTL DEF Spec

\* Every slot that is read holds an element or is known not to, and the places of
\* the loops and of pack_ptr_list are blocks.
THEOREM TypeCorrect == Spec => []TypeOK
<1>1. Inv => TypeOK
  BY DEF Inv
<1> QED
  BY <1>1, Invariance, PTL

\* The blocks of a list are one doubly linked ring, whatever is done to it.
THEOREM LinksCorrect == Spec => []LinksAgree
<1>1. Inv => LinksAgree
  BY DEF Inv
<1> QED
  BY <1>1, Invariance, PTL

\* A walk from the head meets every block in use, and none that is empty but for
\* a loop or an undone element.
THEOREM BlocksCorrect == Spec => []NoBlockLost
<1>1. Inv => NoBlockLost
  <2> SUFFICES ASSUME Inv PROVE NoBlockLost
    OBVIOUS
  <2>1. {b \in Blocks : mem[b].used} = InRing
    BY UsedIsInRing DEF Inv
  <2>2. packing = Null /\ ~unpacked /\ ~undone => \A b \in InRing : mem[b].list # <<>>
    BY <2>1 DEF Inv, NoneEmpty
  <2> QED
    BY <2>1, <2>2 DEF NoBlockLost
<1> QED
  BY <1>1, Invariance, PTL

-----------------------------------------------------------------------------
\* s is the lists l, one after the other; o tells where each of them starts.
Chop(l, N, o, s, K) ==
    /\ N \in Nat /\ l \in [1 .. N -> Seq(K)] /\ o \in [1 .. N + 1 -> Nat] /\ s \in Seq(K)
    /\ o[1] = 0 /\ \A i \in 1 .. N : o[i + 1] = o[i] + Len(l[i])
    /\ Len(s) = o[N + 1]
    /\ \A i \in 1 .. N : \A k \in 1 .. Len(l[i]) : s[o[i] + k] = l[i][k]

\* A place after the one that is cut.
LEMMA Behind ==
    ASSUME NEW a \in Nat, NEW b \in Nat, NEW e \in Nat, NEW f \in Nat, NEW k \in Nat, NEW m \in Nat, NEW z \in Nat,
           1 <= k, k <= f, b + z <= a, a + f <= e
    PROVE  a + k \in Nat /\ b + z < a + k /\ a + k <= e /\ ((a + k) - z) + m = ((a - z) + m) + k
OBVIOUS

\* What that means.
LEMMA ChopFacts ==
    ASSUME NEW l, NEW N, NEW o, NEW s, NEW K, Chop(l, N, o, s, K)
    PROVE  /\ N \in Nat /\ o \in [1 .. N + 1 -> Nat] /\ l \in [1 .. N -> Seq(K)] /\ s \in Seq(K)
           /\ Len(s) = o[N + 1] /\ o[1] = 0
           /\ \A h \in 1 .. N : o[h + 1] = o[h] + Len(l[h]) /\ Len(l[h]) \in Nat
           /\ \A h \in 1 .. N : \A k \in 1 .. Len(l[h]) : s[o[h] + k] = l[h][k]
<1>1. N \in Nat /\ o \in [1 .. N + 1 -> Nat] /\ l \in [1 .. N -> Seq(K)] /\ s \in Seq(K)
  BY DEF Chop
<1>2. \A h \in 1 .. N : Len(l[h]) \in Nat
  BY <1>1
<1> QED
  BY <1>1, <1>2 DEF Chop

\* A later list does not start before an earlier one.
LEMMA ChopOrder ==
    ASSUME NEW l, NEW N, NEW o, NEW s, NEW K, Chop(l, N, o, s, K),
           NEW i \in 1 .. N + 1, NEW j \in 1 .. N + 1, i <= j
    PROVE  o[i] <= o[j]
<1>1. /\ N \in Nat
      /\ o \in [1 .. N + 1 -> Nat]
      /\ \A h \in 1 .. N : o[h + 1] = o[h] + Len(l[h]) /\ Len(l[h]) \in Nat
  BY DEF Chop
<1> DEFINE T == {h \in 1 .. N + 1 : i <= h /\ ~(o[i] <= o[h])}
<1>2. ASSUME T # {} PROVE FALSE
  <2>1. PICK h \in T : \A g \in T : h <= g
    <3> T \subseteq Nat
      BY <1>1
    <3> HIDE DEF T
    <3> QED
      BY <1>2, Least
  <2>2. h \in Nat /\ i \in Nat /\ h # i /\ i <= h /\ h <= N + 1 /\ ~(o[i] <= o[h]) /\ o[i] \in Nat
    BY <1>1, <2>1
  <2>3. h - 1 \in 1 .. N /\ h - 1 \in 1 .. N + 1 /\ i <= h - 1 /\ ~(h <= h - 1) /\ (h - 1) + 1 = h
    BY <1>1, <2>2
  <2>4. o[i] <= o[h - 1]
    BY <2>1, <2>3
  <2>5. o[h] = o[h - 1] + Len(l[h - 1]) /\ Len(l[h - 1]) \in Nat /\ o[h - 1] \in Nat
    BY <1>1, <2>3
  <2> QED
    BY <2>2, <2>4, <2>5
<1> QED
  BY <1>2

\* Every element is in one of the lists.
LEMMA ChopPlace ==
    ASSUME NEW l, NEW N, NEW o, NEW s, NEW K, Chop(l, N, o, s, K), NEW x \in 1 .. Len(s)
    PROVE  \E i \in 1 .. N : /\ o[i] \in Nat /\ o[i] < x /\ x - o[i] \in 1 .. Len(l[i])
                             /\ o[i] + (x - o[i]) = x /\ s[x] = l[i][x - o[i]]
<1>1. /\ N \in Nat
      /\ o \in [1 .. N + 1 -> Nat]
      /\ \A h \in 1 .. N : o[h + 1] = o[h] + Len(l[h]) /\ Len(l[h]) \in Nat
  BY DEF Chop
<1>2. x \in Nat /\ x >= 1 /\ x <= o[N + 1] /\ o[1] = 0
  BY DEF Chop
<1> DEFINE T == {h \in 1 .. N + 1 : x <= o[h]}
<1>3. T \subseteq Nat /\ T # {}
  <2>1. N + 1 \in 1 .. N + 1 /\ 1 .. N + 1 \subseteq Nat
    BY <1>1
  <2>2. N + 1 \in T /\ T \subseteq 1 .. N + 1
    BY <1>2, <2>1
  <2> HIDE DEF T
  <2> QED
    BY <2>1, <2>2
<1>4. PICK h \in T : \A g \in T : h <= g
  <2> HIDE DEF T
  <2> QED
    BY <1>3, Least
<1>5. h # 1 /\ h \in 1 .. N + 1 /\ x <= o[h]
  BY <1>2, <1>4
<1>6. h - 1 \in 1 .. N /\ h - 1 \in 1 .. N + 1 /\ ~(h <= h - 1) /\ (h - 1) + 1 = h
  BY <1>1, <1>5
<1>7. ~(x <= o[h - 1])
  BY <1>4, <1>6
<1> PICK i \in 1 .. N : i = h - 1
  BY <1>6
<1>8. o[i] \in Nat /\ o[i] < x /\ x <= o[i] + Len(l[i]) /\ Len(l[i]) \in Nat
  BY <1>1, <1>2, <1>5, <1>6, <1>7
<1>9. x - o[i] \in 1 .. Len(l[i]) /\ o[i] + (x - o[i]) = x
  BY <1>2, <1>8
<1> QED
  BY <1>8, <1>9 DEF Chop

\* The lists determine where they start and what they make up.
LEMMA ChopUnique ==
    ASSUME NEW l, NEW N, NEW o, NEW s, NEW K, NEW p, NEW t,
           Chop(l, N, o, s, K), Chop(l, N, p, t, K)
    PROVE  o = p /\ s = t
<1>1. N \in Nat /\ o \in [1 .. N + 1 -> Nat] /\ \A h \in 1 .. N : o[h + 1] = o[h] + Len(l[h])
  BY DEF Chop
<1>2. p \in [1 .. N + 1 -> Nat] /\ \A h \in 1 .. N : p[h + 1] = p[h] + Len(l[h])
  BY DEF Chop
<1>3. o[1] = 0 /\ p[1] = 0
  BY DEF Chop
<1> DEFINE T == {h \in 1 .. N + 1 : o[h] # p[h]}
<1>4. ASSUME T # {} PROVE FALSE
  <2>1. PICK h \in T : \A g \in T : h <= g
    <3> T \subseteq Nat
      BY <1>1
    <3> HIDE DEF T
    <3> QED
      BY <1>4, Least
  <2>2. h # 1 /\ h \in 1 .. N + 1
    BY <1>3, <2>1
  <2>3. h - 1 \in 1 .. N /\ h - 1 \in 1 .. N + 1 /\ ~(h <= h - 1) /\ (h - 1) + 1 = h
    BY <1>1, <2>2
  <2>4. o[h - 1] = p[h - 1]
    BY <2>1, <2>3
  <2> QED
    BY <1>1, <1>2, <2>1, <2>3, <2>4
<1>5. o = p
  <2>1. \A h \in 1 .. N + 1 : o[h] = p[h]
    BY <1>4
  <2> QED
    BY <1>1, <1>2, <2>1
<1>6. Len(s) = Len(t) /\ s \in Seq(K) /\ t \in Seq(K)
  BY <1>5 DEF Chop
<1>7. \A x \in 1 .. Len(s) : s[x] = t[x]
  <2> TAKE x \in 1 .. Len(s)
  <2>1. PICK i \in 1 .. N : /\ x - o[i] \in 1 .. Len(l[i]) /\ o[i] + (x - o[i]) = x /\ s[x] = l[i][x - o[i]]
    BY ChopPlace
  <2>2. t[o[i] + (x - o[i])] = l[i][x - o[i]]
    BY <1>5, <2>1 DEF Chop
  <2> QED
    BY <2>1, <2>2
<1> QED
  BY <1>5, <1>6, <1>7

\* List c becomes t, of length m instead of z.
Edited(l2, p, l, N, o, c, t, m, z) ==
    /\ l2 = [i \in 1 .. N |-> IF i = c THEN t ELSE l[i]]
    /\ p = [i \in 1 .. N + 1 |-> IF i <= c THEN o[i] ELSE (o[i] - z) + m]

\* w is s with t in the place of the elements y after a.
Spliced(w, s, a, t, m, y, z) ==
    /\ m = Len(t) /\ z = Len(y) /\ Len(w) = (Len(s) - z) + m
    /\ \A x \in 1 .. a : w[x] = s[x]
    /\ \A k \in 1 .. m : w[a + k] = t[k]
    /\ \A x \in Nat : a + z < x /\ x <= Len(s) => w[(x - z) + m] = s[x]

\* One list becomes another, and what they make up with it.
LEMMA ChopEdit ==
    ASSUME NEW l, NEW N, NEW o, NEW s, NEW K, Chop(l, N, o, s, K), NEW c \in 1 .. N,
           NEW t \in Seq(K), NEW w \in Seq(K), NEW m \in Nat, NEW z \in Nat,
           Spliced(w, s, o[c], t, m, l[c], z), NEW l2, NEW p, Edited(l2, p, l, N, o, c, t, m, z)
    PROVE  Chop(l2, N, p, w, K)
<1>1. /\ N \in Nat /\ o \in [1 .. N + 1 -> Nat] /\ l \in [1 .. N -> Seq(K)] /\ s \in Seq(K) /\ Len(s) = o[N + 1]
      /\ \A h \in 1 .. N : o[h + 1] = o[h] + Len(l[h]) /\ Len(l[h]) \in Nat
      /\ o[1] = 0
  <2>1. /\ N \in Nat /\ o \in [1 .. N + 1 -> Nat] /\ l \in [1 .. N -> Seq(K)] /\ s \in Seq(K)
        /\ Len(s) = o[N + 1] /\ o[1] = 0
        /\ \A h \in 1 .. N : o[h + 1] = o[h] + Len(l[h]) /\ Len(l[h]) \in Nat
        /\ \A h \in 1 .. N : \A k \in 1 .. Len(l[h]) : s[o[h] + k] = l[h][k]
    BY ChopFacts
  <2> QED
    BY <2>1
<1>2. c \in Nat /\ c <= N /\ c + 1 \in 1 .. N + 1 /\ c \in 1 .. N + 1 /\ o[c + 1] = o[c] + z
  <2>1. z = Len(l[c])
    BY DEF Spliced
  <2> QED
    BY <1>1, <2>1
<1>3. \A i \in 1 .. N + 1 : ~(i <= c) => o[c] + z <= o[i]
  <2> TAKE i \in 1 .. N + 1
  <2> HAVE ~(i <= c)
  <2>1. c + 1 <= i
    BY <1>2
  <2>2. o[c + 1] <= o[i]
    BY <1>2, <2>1, ChopOrder
  <2> QED
    BY <1>2, <2>2
<1>4. \A i \in 1 .. N + 1 : o[i] \in Nat
  BY <1>1
<1>5. \A i \in 1 .. N + 1 : p[i] \in Nat /\ p[i] = IF i <= c THEN o[i] ELSE (o[i] - z) + m
  <2> TAKE i \in 1 .. N + 1
  <2>1. p[i] = IF i <= c THEN o[i] ELSE (o[i] - z) + m
    BY DEF Edited
  <2>2. o[i] \in Nat /\ o[c] \in Nat /\ (~(i <= c) => o[c] + z <= o[i])
    BY <1>2, <1>3, <1>4
  <2> QED
    BY <2>1, <2>2
<1>6. p \in [1 .. N + 1 -> Nat]
  BY <1>5 DEF Edited
<1>8. \A i \in 1 .. N : l2[i] = IF i = c THEN t ELSE l[i]
  BY DEF Edited
<1>7. l2 \in [1 .. N -> Seq(K)]
  <2>1. \A i \in 1 .. N : l2[i] \in Seq(K)
    BY <1>1, <1>8
  <2> QED
    BY <2>1 DEF Edited
<1>9. p[1] = 0
  <2>1. 1 \in 1 .. N + 1 /\ 1 <= c
    BY <1>1
  <2> QED
    BY <1>1, <1>5, <2>1
<1>10. \A i \in 1 .. N : p[i + 1] = p[i] + Len(l2[i])
  <2> TAKE i \in 1 .. N
  <2>1. i \in 1 .. N + 1 /\ i + 1 \in 1 .. N + 1 /\ i \in Nat /\ i # N + 1
    BY <1>1
  <2>2. CASE i = c
    <3>1. l2[i] = t /\ p[i] = o[c] /\ p[i + 1] = (o[c + 1] - z) + m
      BY <1>2, <1>5, <1>8, <2>1, <2>2
    <3>2. o[c + 1] = o[c] + z /\ o[c] \in Nat
      BY <1>1, <1>2
    <3>3. m = Len(t)
      BY DEF Spliced
    <3> QED
      BY <3>1, <3>2, <3>3
  <2>3. CASE i < c
    <3>1. i <= c /\ i + 1 <= c /\ i # c
      BY <1>2, <2>1, <2>3
    <3> QED
      BY <1>1, <1>5, <1>8, <2>1, <3>1
  <2>4. CASE c < i
    <3>1. ~(i <= c) /\ ~(i + 1 <= c) /\ i # c
      BY <1>2, <2>1, <2>4
    <3>2. l2[i] = l[i] /\ p[i] = (o[i] - z) + m /\ p[i + 1] = (o[i + 1] - z) + m
      BY <1>5, <1>8, <2>1, <3>1
    <3>3. o[i + 1] = o[i] + Len(l[i]) /\ Len(l[i]) \in Nat /\ o[i] \in Nat /\ o[c] \in Nat /\ o[c] + z <= o[i]
      BY <1>1, <1>2, <1>3, <2>1, <3>1
    <3> DEFINE a == o[i]
               x == Len(l[i])
    <3>4. /\ a \in Nat /\ x \in Nat /\ Len(l2[i]) = x /\ p[i] = (a - z) + m
          /\ p[i + 1] = ((a + x) - z) + m
      BY <3>2, <3>3
    <3> HIDE DEF a, x
    <3> QED
      BY <3>4
  <2> QED
    BY <1>2, <2>1, <2>2, <2>3, <2>4
<1>11. Len(w) = p[N + 1]
  <2>1. N + 1 \in 1 .. N + 1 /\ ~(N + 1 <= c)
    BY <1>1, <1>2
  <2> QED
    BY <1>1, <1>5, <2>1 DEF Spliced
<1>12. \A i \in 1 .. N : \A k \in 1 .. Len(l2[i]) : w[p[i] + k] = l2[i][k]
  <2> TAKE i \in 1 .. N
  <2> TAKE k \in 1 .. Len(l2[i])
  <2>1. i \in 1 .. N + 1 /\ i + 1 \in 1 .. N + 1 /\ i \in Nat /\ i # N + 1 /\ o[i] \in Nat
    <3>1. i \in 1 .. N + 1 /\ i + 1 \in 1 .. N + 1 /\ i \in Nat /\ i # N + 1
      BY <1>1
    <3> QED
      BY <1>4, <3>1
  <2>2. CASE i = c
    <3>1. l2[i] = t /\ p[i] = o[c] /\ k \in 1 .. m
      BY <1>2, <1>5, <1>8, <2>1, <2>2 DEF Spliced
    <3> QED
      BY <3>1 DEF Spliced
  <2>3. CASE i < c
    <3>1. i <= c /\ i + 1 <= c /\ i # c
      BY <1>2, <2>1, <2>3
    <3>2. l2[i] = l[i] /\ p[i] = o[i] /\ s[o[i] + k] = l[i][k]
      BY <1>5, <1>8, <2>1, <3>1 DEF Chop
    <3>3. o[i + 1] <= o[c] /\ o[c] \in Nat
      BY <1>1, <1>2, <2>1, <3>1, ChopOrder
    <3>4. o[i] + k \in 1 .. o[c]
      <4>1. o[i + 1] = o[i] + Len(l[i]) /\ Len(l[i]) \in Nat /\ k \in 1 .. Len(l[i])
        BY <1>1, <3>2
      <4> DEFINE a == o[i]
                 e == o[c]
                 x == Len(l[i])
      <4>2. a \in Nat /\ e \in Nat /\ x \in Nat /\ k \in 1 .. x /\ a + x <= e
        BY <2>1, <3>3, <4>1
      <4> HIDE DEF a, e, x
      <4>3. a + k \in 1 .. e
        BY <4>2
      <4> QED
        BY <4>3 DEF a, e
    <3> QED
      BY <3>2, <3>4 DEF Spliced
  <2>4. CASE c < i
    <3>1. ~(i <= c) /\ i # c
      BY <1>2, <2>1, <2>4
    <3>2. l2[i] = l[i] /\ p[i] = (o[i] - z) + m /\ s[o[i] + k] = l[i][k] /\ k \in 1 .. Len(l[i])
      BY <1>5, <1>8, <2>1, <3>1 DEF Chop
    <3>3. o[c] + z <= o[i] /\ o[c] \in Nat
      BY <1>1, <1>2, <1>3, <2>1, <3>1
    <3>4. o[i + 1] <= o[N + 1] /\ o[i + 1] = o[i] + Len(l[i]) /\ Len(l[i]) \in Nat /\ o[N + 1] \in Nat
      <4>1. N + 1 \in 1 .. N + 1 /\ i + 1 <= N + 1
        BY <1>1, <2>1
      <4> QED
        BY <1>1, <2>1, <4>1, ChopOrder
    <3>5. /\ o[i] + k \in Nat
          /\ o[c] + z < o[i] + k
          /\ o[i] + k <= Len(s)
          /\ ((o[i] + k) - z) + m = ((o[i] - z) + m) + k
      <4>1. Len(s) = o[N + 1] /\ k \in Nat /\ 1 <= k /\ k <= Len(l[i])
        BY <1>1, <3>2
      <4>2. /\ o[i] \in Nat
            /\ o[c] \in Nat
            /\ o[N + 1] \in Nat
            /\ Len(l[i]) \in Nat
            /\ o[i] + Len(l[i]) <= o[N + 1]
        BY <2>1, <3>3, <3>4
      <4>3. \A a, b, e, f \in Nat : 1 <= k /\ k <= f /\ b + z <= a /\ a + f <= e =>
               a + k \in Nat /\ b + z < a + k /\ a + k <= e /\ ((a + k) - z) + m = ((a - z) + m) + k
        BY <4>1, Behind
      <4>4. 1 <= k /\ k <= Len(l[i])
        BY <4>1
      <4> QED
        BY <3>3, <4>1, <4>2, <4>3, <4>4
    <3>6. w[((o[i] + k) - z) + m] = s[o[i] + k]
      BY <3>5 DEF Spliced
    <3> QED
      BY <3>2, <3>5, <3>6
  <2> QED
    BY <1>2, <2>1, <2>2, <2>3, <2>4
<1> QED
  BY <1>1, <1>6, <1>7, <1>9, <1>10, <1>11, <1>12 DEF Chop

\* y is u and v, of lengths m and z.
Parts(y, u, v, m, z) ==
    /\ m = Len(u) /\ z = Len(v) /\ Len(y) = m + z
    /\ \A k \in 1 .. m : y[k] = u[k]
    /\ \A k \in 1 .. z : y[m + k] = v[k]

\* List c becomes u, which is m long, and v.
IsCut(l2, p, l, N, o, c, u, v, m) ==
    /\ l2 = [i \in 1 .. N + 1 |-> IF i = c THEN u ELSE IF i = c + 1 THEN v
                                  ELSE IF i <= c THEN l[i] ELSE l[i - 1]]
    /\ p = [i \in 1 .. N + 2 |-> IF i <= c THEN o[i] ELSE IF i = c + 1 THEN o[c] + m ELSE o[i - 1]]

\* One list is cut in two, of which one may be empty.
LEMMA ChopCut ==
    ASSUME NEW l, NEW N, NEW o, NEW s, NEW K, Chop(l, N, o, s, K), NEW c \in 1 .. N,
           NEW u \in Seq(K), NEW v \in Seq(K), NEW m \in Nat, NEW z \in Nat, Parts(l[c], u, v, m, z),
           NEW l2, NEW p, IsCut(l2, p, l, N, o, c, u, v, m)
    PROVE  Chop(l2, N + 1, p, s, K)
<1>1. /\ N \in Nat /\ o \in [1 .. N + 1 -> Nat] /\ l \in [1 .. N -> Seq(K)] /\ s \in Seq(K) /\ Len(s) = o[N + 1]
      /\ \A h \in 1 .. N : o[h + 1] = o[h] + Len(l[h]) /\ Len(l[h]) \in Nat
      /\ o[1] = 0 /\ \A h \in 1 .. N : \A k \in 1 .. Len(l[h]) : s[o[h] + k] = l[h][k]
  BY ChopFacts
<1>2. N \in Nat /\ c \in Nat /\ 1 <= c /\ c <= N /\ c + 1 \in 1 .. N + 1 /\ c \in 1 .. N + 1 /\ o[c] \in Nat
  BY <1>1
<1>3. \A i \in 1 .. N + 2 : ~(i <= c) => i - 1 \in 1 .. N + 1
  BY <1>2
<1>4. \A i \in 1 .. N + 2 : i <= c => i \in 1 .. N + 1
  BY <1>2
<1>5. \A i \in 1 .. N + 2 :
         /\ p[i] = IF i <= c THEN o[i] ELSE IF i = c + 1 THEN o[c] + m ELSE o[i - 1]
         /\ p[i] \in Nat
  <2> TAKE i \in 1 .. N + 2
  <2>1. p[i] = IF i <= c THEN o[i] ELSE IF i = c + 1 THEN o[c] + m ELSE o[i - 1]
    BY DEF IsCut
  <2>2. i <= c => o[i] \in Nat
    BY <1>1, <1>4
  <2>3. ~(i <= c) => o[i - 1] \in Nat
    BY <1>1, <1>3
  <2>4. o[c] + m \in Nat
    BY <1>2
  <2> QED
    BY <2>1, <2>2, <2>3, <2>4
<1>6. p \in [1 .. N + 2 -> Nat]
  BY <1>5 DEF IsCut
<1>7. \A i \in 1 .. N + 1 :
         /\ l2[i] = IF i = c THEN u ELSE IF i = c + 1 THEN v ELSE IF i <= c THEN l[i] ELSE l[i - 1]
         /\ l2[i] \in Seq(K)
  <2> TAKE i \in 1 .. N + 1
  <2>1. i # c /\ i # c + 1 => IF i <= c THEN i \in 1 .. N ELSE i - 1 \in 1 .. N
    BY <1>2
  <2>2. l2[i] = IF i = c THEN u ELSE IF i = c + 1 THEN v ELSE IF i <= c THEN l[i] ELSE l[i - 1]
    BY DEF IsCut
  <2> QED
    BY <1>1, <2>1, <2>2
<1>8. l2 \in [1 .. N + 1 -> Seq(K)]
  BY <1>7 DEF IsCut
<1>9. p[1] = 0 /\ Len(s) = p[N + 2] /\ (N + 1) + 1 = N + 2
  <2>1. 1 \in 1 .. N + 2 /\ N + 2 \in 1 .. N + 2 /\ ~(N + 2 <= c) /\ N + 2 # c + 1 /\ (N + 2) - 1 = N + 1
      /\ (N + 1) + 1 = N + 2
    BY <1>2
  <2>2. p[1] = o[1] /\ p[N + 2] = o[N + 1]
    BY <1>2, <1>5, <2>1
  <2> QED
    BY <1>1, <2>1, <2>2
<1>10. \A i \in 1 .. N + 1 : /\ p[i + 1] = p[i] + Len(l2[i])
                            /\ \A k \in 1 .. Len(l2[i]) : s[p[i] + k] = l2[i][k]
  <2> TAKE i \in 1 .. N + 1
  <2>1. i \in 1 .. N + 2 /\ i + 1 \in 1 .. N + 2 /\ i \in Nat /\ (i + 1) - 1 = i
    BY <1>2
  <2>2. CASE i = c
    <3>0. c <= c /\ ~(c + 1 <= c) /\ c \in 1 .. N + 2 /\ c + 1 \in 1 .. N + 2
      BY <1>2
    <3>1. l2[i] = u /\ p[i] = o[c] /\ p[i + 1] = o[c] + m
      BY <1>5, <1>7, <2>2, <3>0
    <3>2. /\ m = Len(u) /\ \A k \in 1 .. m : k \in 1 .. Len(l[c])
          /\ \A k \in 1 .. m : l[c][k] = u[k]
      BY DEF Parts
    <3>3. \A k \in 1 .. m : s[o[c] + k] = u[k]
      BY <1>1, <3>2
    <3> QED
      BY <3>1, <3>2, <3>3
  <2>3. CASE i < c
    <3>1. i <= c /\ i + 1 <= c /\ i # c /\ i # c + 1 /\ i \in 1 .. N
      BY <1>2, <2>1, <2>3
    <3>2. p[i] = o[i] /\ p[i + 1] = o[i + 1] /\ l2[i] = l[i]
      BY <1>5, <1>7, <2>1, <3>1
    <3> QED
      BY <1>1, <3>1, <3>2
  <2>4. CASE i = c + 1
    <3>1. i # c /\ ~(i <= c) /\ ~(i + 1 <= c) /\ i + 1 # c + 1
      BY <1>2, <2>4
    <3>2. l2[i] = v /\ p[i] = o[c] + m /\ p[i + 1] = o[i]
      BY <1>5, <1>7, <2>1, <2>4, <3>1
    <3>3. o[i] = o[c] + (m + z) /\ z = Len(v)
      BY <1>1, <2>4 DEF Parts
    <3>4. \A k \in 1 .. z : m + k \in 1 .. m + z /\ o[c] + (m + k) = (o[c] + m) + k
      BY <1>2
    <3>5. \A k \in 1 .. z : s[(o[c] + m) + k] = v[k]
      <4> TAKE k \in 1 .. z
      <4>1. m + k \in 1 .. Len(l[c]) /\ l[c][m + k] = v[k]
        BY <3>4 DEF Parts
      <4>2. s[o[c] + (m + k)] = l[c][m + k]
        BY <1>1, <4>1
      <4> QED
        BY <3>4, <4>1, <4>2
    <3>6. o[c] + (m + z) = (o[c] + m) + z
      BY <1>2
    <3> QED
      BY <3>2, <3>3, <3>5, <3>6
  <2>5. CASE c + 1 < i
    <3>1. /\ i # c
          /\ i # c + 1
          /\ ~(i <= c)
          /\ ~(i + 1 <= c)
          /\ i + 1 # c + 1
          /\ i - 1 \in 1 .. N
          /\ (i - 1) + 1 = i
      BY <1>2, <2>1, <2>5
    <3>2. p[i] = o[i - 1] /\ p[i + 1] = o[i] /\ l2[i] = l[i - 1]
      BY <1>5, <1>7, <2>1, <3>1
    <3> QED
      BY <1>1, <3>1, <3>2
  <2> QED
    BY <1>2, <2>1, <2>2, <2>3, <2>4, <2>5
<1>11. N + 1 \in Nat /\ s \in Seq(K)
  BY <1>1, <1>2
<1> QED
  BY <1>6, <1>8, <1>9, <1>10, <1>11 DEF Chop

\* List c is empty and left out.
IsDrop(l2, p, l, N, M, o, c) ==
    /\ N = M + 1 /\ l[c] = <<>>
    /\ l2 = [i \in 1 .. M |-> IF i < c THEN l[i] ELSE l[i + 1]]
    /\ p = [i \in 1 .. M + 1 |-> IF i < c THEN o[i] ELSE o[i + 1]]

\* An empty list is left out.
LEMMA ChopDrop ==
    ASSUME NEW l, NEW N, NEW o, NEW s, NEW K, Chop(l, N, o, s, K), NEW c \in 1 .. N,
           NEW M \in Nat, NEW l2, NEW p, IsDrop(l2, p, l, N, M, o, c)
    PROVE  Chop(l2, M, p, s, K)
<1>1. /\ N \in Nat /\ o \in [1 .. N + 1 -> Nat] /\ l \in [1 .. N -> Seq(K)] /\ s \in Seq(K) /\ Len(s) = o[N + 1]
      /\ \A h \in 1 .. N : o[h + 1] = o[h] + Len(l[h]) /\ Len(l[h]) \in Nat
      /\ o[1] = 0 /\ \A h \in 1 .. N : \A k \in 1 .. Len(l[h]) : s[o[h] + k] = l[h][k]
  BY ChopFacts
<1>0. N = M + 1
  BY DEF IsDrop
<1>2. c \in Nat /\ 1 <= c /\ c <= N /\ o[c + 1] = o[c] /\ o[c] \in Nat
  <2>1. c \in Nat /\ c \in 1 .. N + 1 /\ Len(l[c]) = 0
    BY <1>1 DEF IsDrop
  <2> QED
    BY <1>1, <2>1
<1>3. \A i \in 1 .. M + 1 : i \in 1 .. N + 1 /\ i + 1 \in 1 .. N + 1
  BY <1>0
<1>4. \A i \in 1 .. M + 1 : p[i] \in Nat /\ p[i] = IF i < c THEN o[i] ELSE o[i + 1]
  BY <1>1, <1>3 DEF IsDrop
<1>5. \A i \in 1 .. M : i \in 1 .. N /\ i + 1 \in 1 .. N
  BY <1>0
<1>6. \A i \in 1 .. M : l2[i] \in Seq(K) /\ l2[i] = IF i < c THEN l[i] ELSE l[i + 1]
  BY <1>1, <1>5 DEF IsDrop
<1>7. p \in [1 .. M + 1 -> Nat] /\ l2 \in [1 .. M -> Seq(K)]
  BY <1>4, <1>6 DEF IsDrop
<1>8. p[1] = 0 /\ Len(s) = p[M + 1]
  <2>1. 1 \in 1 .. M + 1 /\ M + 1 \in 1 .. M + 1 /\ ~(M + 1 < c) /\ (1 < c \/ c = 1)
    BY <1>0, <1>2
  <2> QED
    BY <1>0, <1>1, <1>2, <1>4, <2>1
<1>9. \A i \in 1 .. M : /\ p[i + 1] = p[i] + Len(l2[i])
                        /\ \A k \in 1 .. Len(l2[i]) : s[p[i] + k] = l2[i][k]
  <2> TAKE i \in 1 .. M
  <2>1. i \in Nat /\ i \in 1 .. M + 1 /\ i + 1 \in 1 .. M + 1 /\ i \in 1 .. N /\ i + 1 \in 1 .. N
    BY <1>5
  <2>2. CASE i + 1 < c
    <3>1. i < c
      BY <1>2, <2>1, <2>2
    <3>2. p[i] = o[i] /\ p[i + 1] = o[i + 1] /\ l2[i] = l[i]
      BY <1>4, <1>6, <2>1, <2>2, <3>1
    <3>3. o[i + 1] = o[i] + Len(l[i]) /\ \A k \in 1 .. Len(l[i]) : s[o[i] + k] = l[i][k]
      BY <1>1, <2>1
    <3> QED
      BY <3>2, <3>3
  <2>3. CASE i + 1 = c
    <3>1. i < c /\ ~(i + 1 < c)
      BY <1>2, <2>1, <2>3
    <3>2. p[i] = o[i] /\ p[i + 1] = o[c + 1] /\ l2[i] = l[i]
      BY <1>4, <1>6, <2>1, <2>3, <3>1
    <3>3. o[i + 1] = o[i] + Len(l[i]) /\ o[c + 1] = o[i + 1]
      BY <1>1, <1>2, <2>1, <2>3
    <3>4. \A k \in 1 .. Len(l[i]) : s[o[i] + k] = l[i][k]
      BY <1>1, <2>1
    <3> QED
      BY <3>2, <3>3, <3>4
  <2>4. CASE c <= i
    <3>1. ~(i < c) /\ ~(i + 1 < c)
      BY <1>2, <2>1, <2>4
    <3>2. p[i] = o[i + 1] /\ p[i + 1] = o[(i + 1) + 1] /\ l2[i] = l[i + 1]
      BY <1>4, <1>6, <2>1, <3>1
    <3> DEFINE j == i + 1
    <3>3. j \in 1 .. N /\ p[i] = o[j] /\ p[i + 1] = o[j + 1] /\ l2[i] = l[j]
      BY <2>1, <3>2
    <3> HIDE DEF j
    <3>4. o[j + 1] = o[j] + Len(l[j]) /\ \A k \in 1 .. Len(l[j]) : s[o[j] + k] = l[j][k]
      BY <1>1, <3>3
    <3> QED
      BY <3>3, <3>4
  <2> QED
    BY <1>2, <2>1, <2>2, <2>3, <2>4
<1> QED
  BY <1>1, <1>7, <1>8, <1>9 DEF Chop

\* Two sequences, one after the other, place by place.
LEMMA Joined ==
    ASSUME NEW K, NEW s \in Seq(K), NEW t \in Seq(K)
    PROVE  /\ s \o t \in Seq(K) /\ Len(s \o t) = Len(s) + Len(t)
           /\ \A x \in 1 .. Len(s) + Len(t) : (s \o t)[x] = IF x <= Len(s) THEN s[x] ELSE t[x - Len(s)]
OBVIOUS

\* A cut out of a sequence, place by place.
LEMMA CutIs ==
    ASSUME NEW K, NEW s \in Seq(K), NEW i \in 1 .. Len(s) + 1, NEW j \in i - 1 .. Len(s)
    PROVE  /\ SubSeq(s, i, j) \in Seq(K) /\ Len(SubSeq(s, i, j)) = (j - i) + 1
           /\ \A x \in 1 .. (j - i) + 1 : SubSeq(s, i, j)[x] = s[(i + x) - 1]
OBVIOUS

\* w is s with e before place i, or at the end.
HasMore(w, s, i, e, n, n1) ==
    /\ n = Len(s) /\ n1 = n + 1 /\ Len(w) = n1
    /\ \A x \in 1 .. n1 : w[x] = IF x < i THEN s[x] ELSE IF x = i THEN e ELSE s[x - 1]

\* w is s without place i.
HasLess(w, s, i, n, n1) ==
    /\ n1 = Len(s) /\ n1 = n + 1 /\ Len(w) = n
    /\ \A x \in 1 .. n : w[x] = IF x < i THEN s[x] ELSE s[x + 1]

\* An element more.
LEMMA InsertIs ==
    ASSUME NEW K, NEW s \in Seq(K), NEW i \in 1 .. Len(s) + 1, NEW e \in K
    PROVE  InsertAt(s, i, e) \in Seq(K) /\ HasMore(InsertAt(s, i, e), s, i, e, Len(s), Len(s) + 1)
<1> DEFINE u == SubSeq(s, 1, i - 1)
           v == SubSeq(s, i, Len(s))
           a == u \o <<e>>
<1> PICK n \in Nat : n = Len(s)
  OBVIOUS
<1>0. i \in 1 .. n + 1 /\ i \in Nat
  OBVIOUS
<1>1. u \in Seq(K) /\ Len(u) = i - 1 /\ \A x \in 1 .. i - 1 : u[x] = s[x]
  <2>1. 1 \in 1 .. Len(s) + 1 /\ i - 1 \in 1 - 1 .. Len(s) /\ ((i - 1) - 1) + 1 = i - 1
    BY <1>0
  <2>2. /\ u \in Seq(K) /\ Len(u) = ((i - 1) - 1) + 1
        /\ \A x \in 1 .. ((i - 1) - 1) + 1 : u[x] = s[(1 + x) - 1]
    BY <2>1, CutIs
  <2> QED
    BY <2>1, <2>2
<1>2. v \in Seq(K) /\ Len(v) = (n - i) + 1 /\ \A x \in 1 .. (n - i) + 1 : v[x] = s[(i + x) - 1]
  <2>1. Len(s) \in i - 1 .. Len(s)
    BY <1>0
  <2> QED
    BY <2>1, CutIs
<1>3. <<e>> \in Seq(K) /\ Len(<<e>>) = 1 /\ <<e>>[1] = e
  OBVIOUS
<1>4. InsertAt(s, i, e) = a \o v
  BY DEF InsertAt
<1> HIDE DEF u, v
<1>5. a \in Seq(K) /\ Len(a) = i /\ \A x \in 1 .. i : a[x] = IF x <= i - 1 THEN u[x] ELSE <<e>>[x - (i - 1)]
  <2>1. (i - 1) + 1 = i
    BY <1>0
  <2> QED
    BY <1>1, <1>3, <2>1, Joined
<1> HIDE DEF a
<1>6. /\ a \o v \in Seq(K)
      /\ Len(a \o v) = n + 1
      /\ \A x \in 1 .. n + 1 : (a \o v)[x] = IF x <= i THEN a[x] ELSE v[x - i]
  <2>1. i + ((n - i) + 1) = n + 1
    BY <1>0
  <2>2. /\ a \o v \in Seq(K) /\ Len(a \o v) = Len(a) + Len(v)
        /\ \A x \in 1 .. Len(a) + Len(v) : (a \o v)[x] = IF x <= Len(a) THEN a[x] ELSE v[x - Len(a)]
    BY <1>2, <1>5, Joined
  <2>3. Len(a) = i /\ Len(a) + Len(v) = n + 1
    BY <1>2, <1>5, <2>1
  <2> QED
    BY <2>2, <2>3
<1>7. \A x \in 1 .. n + 1 : (a \o v)[x] = IF x < i THEN s[x] ELSE IF x = i THEN e ELSE s[x - 1]
  <2> TAKE x \in 1 .. n + 1
  <2>1. CASE x < i
    <3>1. x <= i /\ x \in 1 .. i /\ x <= i - 1 /\ x \in 1 .. i - 1
      BY <1>0, <2>1
    <3> QED
      BY <1>1, <1>5, <1>6, <2>1, <3>1
  <2>2. CASE x = i
    <3>1. x <= i /\ x \in 1 .. i /\ ~(x <= i - 1) /\ x - (i - 1) = 1 /\ ~(x < i)
      BY <1>0, <2>2
    <3> QED
      BY <1>3, <1>5, <1>6, <2>2, <3>1
  <2>3. CASE i < x
    <3>1. ~(x <= i) /\ x - i \in 1 .. (n - i) + 1 /\ (i + (x - i)) - 1 = x - 1 /\ ~(x < i) /\ x # i
      BY <1>0, <2>3
    <3> QED
      BY <1>2, <1>6, <3>1
  <2>4. x < i \/ x = i \/ i < x
    BY <1>0
  <2> QED
    BY <2>1, <2>2, <2>3, <2>4
<1> QED
  BY <1>4, <1>6, <1>7 DEF HasMore

\* An element less.
LEMMA RemoveIs ==
    ASSUME NEW K, NEW s \in Seq(K), NEW i \in 1 .. Len(s)
    PROVE  RemoveAt(s, i) \in Seq(K) /\ HasLess(RemoveAt(s, i), s, i, Len(s) - 1, Len(s))
<1> DEFINE u == SubSeq(s, 1, i - 1)
           v == SubSeq(s, i + 1, Len(s))
<1> PICK n1 \in Nat : n1 = Len(s)
  OBVIOUS
<1>0. i \in 1 .. n1 /\ i \in Nat /\ n1 - 1 \in Nat
  OBVIOUS
<1>1. u \in Seq(K) /\ Len(u) = i - 1 /\ \A x \in 1 .. i - 1 : u[x] = s[x]
  <2>1. 1 \in 1 .. Len(s) + 1 /\ i - 1 \in 1 - 1 .. Len(s) /\ ((i - 1) - 1) + 1 = i - 1
    BY <1>0
  <2>2. /\ u \in Seq(K) /\ Len(u) = ((i - 1) - 1) + 1
        /\ \A x \in 1 .. ((i - 1) - 1) + 1 : u[x] = s[(1 + x) - 1]
    BY <2>1, CutIs
  <2> QED
    BY <2>1, <2>2
<1>2. v \in Seq(K) /\ Len(v) = n1 - i /\ \A x \in 1 .. n1 - i : v[x] = s[i + x]
  <2>1. i + 1 \in 1 .. Len(s) + 1 /\ Len(s) \in (i + 1) - 1 .. Len(s) /\ (Len(s) - (i + 1)) + 1 = n1 - i
    BY <1>0
  <2>2. /\ v \in Seq(K) /\ Len(v) = (Len(s) - (i + 1)) + 1
        /\ \A x \in 1 .. (Len(s) - (i + 1)) + 1 : v[x] = s[((i + 1) + x) - 1]
    BY <2>1, CutIs
  <2>3. \A x \in 1 .. n1 - i : ((i + 1) + x) - 1 = i + x
    BY <1>0
  <2> QED
    BY <2>1, <2>2, <2>3
<1>4. RemoveAt(s, i) = u \o v
  BY DEF RemoveAt
<1> HIDE DEF u, v
<1>6. /\ u \o v \in Seq(K)
      /\ Len(u \o v) = n1 - 1
      /\ \A x \in 1 .. n1 - 1 : (u \o v)[x] = IF x <= i - 1 THEN u[x] ELSE v[x - (i - 1)]
  <2>1. (i - 1) + (n1 - i) = n1 - 1
    BY <1>0
  <2>2. /\ u \o v \in Seq(K) /\ Len(u \o v) = Len(u) + Len(v)
        /\ \A x \in 1 .. Len(u) + Len(v) : (u \o v)[x] = IF x <= Len(u) THEN u[x] ELSE v[x - Len(u)]
    BY <1>1, <1>2, Joined
  <2>3. Len(u) = i - 1 /\ Len(u) + Len(v) = n1 - 1
    BY <1>1, <1>2, <2>1
  <2> QED
    BY <2>2, <2>3
<1>7. \A x \in 1 .. n1 - 1 : (u \o v)[x] = IF x < i THEN s[x] ELSE s[x + 1]
  <2> TAKE x \in 1 .. n1 - 1
  <2>1. CASE x < i
    <3>1. x <= i - 1 /\ x \in 1 .. i - 1
      BY <1>0, <2>1
    <3> QED
      BY <1>1, <1>6, <2>1, <3>1
  <2>2. CASE i <= x
    <3>1. ~(x <= i - 1) /\ x - (i - 1) \in 1 .. n1 - i /\ i + (x - (i - 1)) = x + 1 /\ ~(x < i)
      BY <1>0, <2>2
    <3> QED
      BY <1>2, <1>6, <3>1
  <2>3. x < i \/ i <= x
    BY <1>0
  <2> QED
    BY <2>1, <2>2, <2>3
<1>8. n1 = (n1 - 1) + 1
  BY <1>0
<1> QED
  BY <1>4, <1>6, <1>7, <1>8 DEF HasLess

\* Append and Front are insertion and removal at the end.
LEMMA EndsAre ==
    ASSUME NEW K, NEW s \in Seq(K), NEW e \in K
    PROVE  /\ Append(s, e) \in Seq(K) /\ HasMore(Append(s, e), s, Len(s) + 1, e, Len(s), Len(s) + 1)
           /\ s # <<>> => Front(s) \in Seq(K) /\ HasLess(Front(s), s, Len(s), Len(s) - 1, Len(s))
<1> PICK n \in Nat : n = Len(s)
  OBVIOUS
<1>1. Append(s, e) \in Seq(K) /\ Len(Append(s, e)) = n + 1
  OBVIOUS
<1>2. \A x \in 1 .. n + 1 : Append(s, e)[x] = IF x < n + 1 THEN s[x] ELSE e
  OBVIOUS
<1>3. HasMore(Append(s, e), s, n + 1, e, n, n + 1)
  BY <1>1, <1>2 DEF HasMore
<1>4. ASSUME s # <<>> PROVE Front(s) \in Seq(K) /\ HasLess(Front(s), s, n, n - 1, n)
  <2>1. n # 0
    BY <1>4
  <2>2. 1 \in 1 .. n + 1 /\ n - 1 \in 1 - 1 .. n /\ ((n - 1) - 1) + 1 = n - 1 /\ n = (n - 1) + 1
    BY <2>1
  <2>3. Front(s) = SubSeq(s, 1, n - 1)
    BY DEF Front
  <2>4. /\ Front(s) \in Seq(K) /\ Len(Front(s)) = n - 1
        /\ \A x \in 1 .. n - 1 : Front(s)[x] = s[(1 + x) - 1]
    BY <2>2, <2>3, CutIs
  <2>5. \A x \in 1 .. n - 1 : (1 + x) - 1 = x /\ x < n
    BY <2>1
  <2> QED
    BY <2>2, <2>4, <2>5 DEF HasLess
<1> QED
  BY <1>1, <1>3, <1>4

\* The elements y are those of s after a.
Within(y, s, a, z) ==
    /\ z = Len(y) /\ a + z <= Len(s)
    /\ \A k \in 1 .. z : s[a + k] = y[k]

\* A list is where it is in what the lists make up.
LEMMA ChopWithin ==
    ASSUME NEW l, NEW N, NEW o, NEW s, NEW K, Chop(l, N, o, s, K), NEW c \in 1 .. N
    PROVE  /\ l[c] \in Seq(K) /\ Len(l[c]) \in Nat /\ o[c] \in Nat /\ Within(l[c], s, o[c], Len(l[c]))
           /\ o[c + 1] = o[c] + Len(l[c])
<1>0. N \in Nat
  BY ChopFacts
<1>1. c \in 1 .. N + 1 /\ c + 1 \in 1 .. N + 1 /\ N + 1 \in 1 .. N + 1 /\ c + 1 <= N + 1
  BY <1>0
<1>2. o[c + 1] <= o[N + 1]
  BY <1>1, ChopOrder
<1>3. /\ o \in [1 .. N + 1 -> Nat] /\ l \in [1 .. N -> Seq(K)] /\ Len(s) = o[N + 1]
      /\ o[c + 1] = o[c] + Len(l[c]) /\ Len(l[c]) \in Nat
      /\ \A k \in 1 .. Len(l[c]) : s[o[c] + k] = l[c][k]
  BY ChopFacts
<1>4. o[c] \in Nat /\ l[c] \in Seq(K)
  BY <1>1, <1>3
<1> QED
  BY <1>2, <1>3, <1>4 DEF Within

\* What is put in at a place of the list is put in at that place of all of them.
LEMMA MoreSplices ==
    ASSUME NEW y, NEW s, NEW w, NEW t, NEW a \in Nat, NEW z \in Nat, NEW z1 \in Nat, NEW n \in Nat, NEW n1 \in Nat,
           Within(y, s, a, z), NEW k \in 1 .. z1, NEW i \in Nat, i = a + k, NEW e,
           HasMore(w, s, i, e, n, n1), HasMore(t, y, k, e, z, z1)
    PROVE  Spliced(w, s, a, t, z1, y, z)
<1>1. /\ n = Len(s) /\ n1 = n + 1 /\ Len(w) = n1 /\ z = Len(y) /\ z1 = z + 1 /\ Len(t) = z1
      /\ a + z <= n
  BY DEF HasMore, Within
<1>2. k \in Nat /\ 1 <= k /\ k <= z1
  BY <1>1
<1>3. \A x \in 1 .. n1 : w[x] = IF x < i THEN s[x] ELSE IF x = i THEN e ELSE s[x - 1]
  BY DEF HasMore
<1>4. \A x \in 1 .. z1 : t[x] = IF x < k THEN y[x] ELSE IF x = k THEN e ELSE y[x - 1]
  BY DEF HasMore
<1>5. \A x \in 1 .. a : w[x] = s[x]
  <2> TAKE x \in 1 .. a
  <2>1. x \in 1 .. n1 /\ x < i
    BY <1>1, <1>2
  <2> QED
    BY <1>3, <2>1
<1>6. \A x \in 1 .. z1 : w[a + x] = t[x]
  <2> TAKE x \in 1 .. z1
  <2>1. a + x \in 1 .. n1 /\ x \in Nat /\ a + x \in Nat
    BY <1>1
  <2>2. CASE x < k
    <3>1. a + x < i /\ x \in 1 .. z
      BY <1>1, <1>2, <2>1, <2>2
    <3> QED
      BY <1>3, <1>4, <2>1, <2>2, <3>1 DEF Within
  <2>3. CASE x = k
    <3>1. a + x = i /\ ~(a + x < i) /\ ~(x < k)
      BY <1>2, <2>1, <2>3
    <3> QED
      BY <1>3, <1>4, <2>1, <2>3, <3>1
  <2>4. CASE k < x
    <3>1. ~(a + x < i) /\ a + x # i /\ ~(x < k) /\ x # k /\ x - 1 \in 1 .. z /\ (a + x) - 1 = a + (x - 1)
      BY <1>1, <1>2, <2>1, <2>4
    <3>2. s[a + (x - 1)] = y[x - 1]
      BY <3>1 DEF Within
    <3> QED
      BY <1>3, <1>4, <2>1, <3>1, <3>2
  <2>5. x < k \/ x = k \/ k < x
    BY <1>2, <2>1
  <2> QED
    BY <2>2, <2>3, <2>4, <2>5
<1>7. \A x \in Nat : a + z < x /\ x <= Len(s) => w[(x - z) + z1] = s[x]
  <2> TAKE x \in Nat
  <2> HAVE a + z < x /\ x <= Len(s)
  <2>1. (x - z) + z1 = x + 1 /\ x + 1 \in 1 .. n1 /\ ~(x + 1 < i) /\ x + 1 # i /\ (x + 1) - 1 = x
    BY <1>1, <1>2
  <2> QED
    BY <1>3, <2>1
<1>8. Len(w) = (Len(s) - z) + z1
  BY <1>1
<1> QED
  BY <1>1, <1>5, <1>6, <1>7, <1>8 DEF Spliced

\* And what is taken out, out of all of them.
LEMMA LessSplices ==
    ASSUME NEW y, NEW s, NEW w, NEW t, NEW a \in Nat, NEW z \in Nat, NEW z1 \in Nat, NEW n \in Nat, NEW n1 \in Nat,
           Within(y, s, a, z1), NEW k \in 1 .. z1, NEW i \in Nat, i = a + k,
           HasLess(w, s, i, n, n1), HasLess(t, y, k, z, z1)
    PROVE  Spliced(w, s, a, t, z, y, z1)
<1>1. /\ n1 = Len(s) /\ n1 = n + 1 /\ Len(w) = n /\ z1 = Len(y) /\ z1 = z + 1 /\ Len(t) = z
      /\ a + z1 <= n1
  BY DEF HasLess, Within
<1>2. k \in Nat /\ 1 <= k /\ k <= z1
  BY <1>1
<1>3. \A x \in 1 .. n : w[x] = IF x < i THEN s[x] ELSE s[x + 1]
  BY DEF HasLess
<1>4. \A x \in 1 .. z : t[x] = IF x < k THEN y[x] ELSE y[x + 1]
  BY DEF HasLess
<1>5. \A x \in 1 .. a : w[x] = s[x]
  <2> TAKE x \in 1 .. a
  <2>1. x \in 1 .. n /\ x < i
    BY <1>1, <1>2
  <2> QED
    BY <1>3, <2>1
<1>6. \A x \in 1 .. z : w[a + x] = t[x]
  <2> TAKE x \in 1 .. z
  <2>1. a + x \in 1 .. n /\ x \in Nat /\ a + x \in Nat
    BY <1>1
  <2>2. CASE x < k
    <3>1. a + x < i /\ x \in 1 .. z1
      BY <1>1, <1>2, <2>1, <2>2
    <3> QED
      BY <1>3, <1>4, <2>1, <2>2, <3>1 DEF Within
  <2>3. CASE k <= x
    <3>1. ~(a + x < i) /\ ~(x < k) /\ x + 1 \in 1 .. z1 /\ (a + x) + 1 = a + (x + 1)
      BY <1>1, <1>2, <2>1, <2>3
    <3>2. s[a + (x + 1)] = y[x + 1]
      BY <3>1 DEF Within
    <3> QED
      BY <1>3, <1>4, <2>1, <3>1, <3>2
  <2>4. x < k \/ k <= x
    BY <1>2, <2>1
  <2> QED
    BY <2>2, <2>3, <2>4
<1>7. \A x \in Nat : a + z1 < x /\ x <= Len(s) => w[(x - z1) + z] = s[x]
  <2> TAKE x \in Nat
  <2> HAVE a + z1 < x /\ x <= Len(s)
  <2>1. (x - z1) + z = x - 1 /\ x - 1 \in 1 .. n /\ ~(x - 1 < i) /\ (x - 1) + 1 = x
    BY <1>1, <1>2
  <2> QED
    BY <1>3, <2>1
<1>8. Len(w) = (Len(s) - z1) + z
  BY <1>1
<1> QED
  BY <1>1, <1>5, <1>6, <1>7, <1>8 DEF Spliced

\* What is replaced is replaced in all of them.
LEMMA SetSplices ==
    ASSUME NEW K, NEW y \in Seq(K), NEW s \in Seq(K), NEW e \in K, NEW a \in Nat, NEW z \in Nat,
           Within(y, s, a, z), NEW k \in 1 .. z, NEW i, i = a + k
    PROVE  /\ [s EXCEPT ![i] = e] \in Seq(K) /\ [y EXCEPT ![k] = e] \in Seq(K)
           /\ Len([y EXCEPT ![k] = e]) = z
           /\ Spliced([s EXCEPT ![i] = e], s, a, [y EXCEPT ![k] = e], z, y, z)
<1> DEFINE w == [s EXCEPT ![i] = e]
           t == [y EXCEPT ![k] = e]
<1> PICK n \in Nat : n = Len(s)
  OBVIOUS
<1>1. z = Len(y) /\ a + z <= n /\ \A x \in 1 .. z : s[a + x] = y[x]
  BY DEF Within
<1>2. w \in Seq(K) /\ Len(w) = n /\ \A x \in 1 .. n : w[x] = IF x = i THEN e ELSE s[x]
  <2>1. s \in [1 .. n -> K]
    OBVIOUS
  <2>2. w \in [1 .. n -> K] /\ \A x \in 1 .. n : w[x] = IF x = i THEN e ELSE s[x]
    BY <2>1
  <2> HIDE DEF w
  <2> QED
    BY <2>2
<1>3. t \in Seq(K) /\ Len(t) = z /\ \A x \in 1 .. z : t[x] = IF x = k THEN e ELSE y[x]
  BY <1>1
<1> HIDE DEF w, t
<1>4. k \in Nat /\ 1 <= k /\ k <= z
  OBVIOUS
<1>5. \A x \in 1 .. a : w[x] = s[x]
  <2> TAKE x \in 1 .. a
  <2>1. x \in 1 .. n /\ x # i
    BY <1>1, <1>4
  <2> QED
    BY <1>2, <2>1
<1>6. \A x \in 1 .. z : w[a + x] = t[x]
  <2> TAKE x \in 1 .. z
  <2>1. a + x \in 1 .. n /\ (a + x = i <=> x = k)
    BY <1>1, <1>4
  <2> QED
    BY <1>1, <1>2, <1>3, <2>1
<1>7. \A x \in Nat : a + z < x /\ x <= Len(s) => w[(x - z) + z] = s[x]
  <2> TAKE x \in Nat
  <2> HAVE a + z < x /\ x <= Len(s)
  <2>1. (x - z) + z = x /\ x \in 1 .. n /\ x # i
    BY <1>1, <1>4
  <2> QED
    BY <1>2, <2>1
<1>8. Len(w) = (Len(s) - z) + z
  BY <1>1, <1>2
<1>9. Spliced(w, s, a, t, z, y, z)
  BY <1>1, <1>3, <1>5, <1>6, <1>7, <1>8 DEF Spliced
<1> QED
  BY <1>2, <1>3, <1>9 DEF w, t

\* An element after two sequences is one after the second.
LEMMA AppendLast ==
    ASSUME NEW K, NEW s \in Seq(K), NEW t \in Seq(K), NEW e \in K
    PROVE  s \o Append(t, e) = Append(s \o t, e)
OBVIOUS

\* w is u and v, one after the other.
Joins(w, u, v) == w = u \o v

\* f and g are that for s and for y, which is the elements of s after place a.
BothSifted(f, s, g, y, p, K, a, z) ==
    /\ s \in Seq(K) /\ y \in Seq(K) /\ a \in Nat /\ z \in Nat
    /\ Within(y, s, a, z) /\ Sifted(f, s, p, K) /\ Sifted(g, y, p, K)

\* What is kept of all of them is what is kept of those before and what is kept
\* of the list.
LEMMA SiftedWithin ==
    ASSUME NEW f, NEW s, NEW g, NEW y, NEW p, NEW K, NEW a, NEW z, BothSifted(f, s, g, y, p, K, a, z)
    PROVE  \A k \in 0 .. z : Joins(f[a + k], f[a], g[k])
<1>0. /\ s \in Seq(K) /\ y \in Seq(K) /\ a \in Nat /\ z \in Nat
      /\ Within(y, s, a, z) /\ Sifted(f, s, p, K) /\ Sifted(g, y, p, K)
  BY DEF BothSifted
<1>1. z = Len(y) /\ a + z <= Len(s) /\ \A k \in 1 .. z : s[a + k] = y[k]
  BY <1>0 DEF Within
<1>2. f \in [0 .. Len(s) -> Seq(K)] /\ g \in [0 .. z -> Seq(K)] /\ g[0] = <<>>
  BY <1>0, <1>1 DEF Sifted
<1>3. f[a] \in Seq(K)
  <2>1. a \in 0 .. Len(s)
    BY <1>0, <1>1
  <2> QED
    BY <1>2, <2>1
<1> DEFINE Off(k) == f[a + k] # f[a] \o g[k]
           T == {k \in 0 .. z : Off(k)}
<1>4. ASSUME T # {} PROVE FALSE
  <2>1. PICK k \in T : \A l \in T : k <= l
    <3> HIDE DEF Off
    <3>2. T \subseteq Nat
      OBVIOUS
    <3> HIDE DEF T
    <3> QED
      BY <1>4, <3>2, Least
  <2>2. k # 0
    <3>1. f[a] \o <<>> = f[a] /\ a + 0 = a
      BY <1>0, <1>3
    <3> QED
      BY <1>2, <2>1, <3>1
  <2>3. k \in 1 .. z /\ k - 1 \in 0 .. z /\ ~(k <= k - 1) /\ a + k \in 1 .. Len(s) /\ (a + k) - 1 = a + (k - 1)
    BY <1>0, <1>1, <2>1, <2>2
  <2>4. f[a + (k - 1)] = f[a] \o g[k - 1]
    BY <2>1, <2>3
  <2>5. s[a + k] = y[k] /\ y[k] \in K
    BY <1>0, <1>1, <2>3
  <2>6. f[a + k] = IF y[k] = p THEN f[a + (k - 1)] ELSE Append(f[a + (k - 1)], y[k])
    BY <1>0, <2>3, <2>5 DEF Sifted
  <2>7. g[k] = IF y[k] = p THEN g[k - 1] ELSE Append(g[k - 1], y[k])
    BY <1>0, <1>1, <2>3 DEF Sifted
  <2>8. g[k - 1] \in Seq(K)
    BY <1>2, <2>3
  <2>9. f[a] \o Append(g[k - 1], y[k]) = Append(f[a] \o g[k - 1], y[k])
    <3> DEFINE u == f[a]
               v == g[k - 1]
    <3>1. u \in Seq(K) /\ v \in Seq(K) /\ y[k] \in K
      BY <1>3, <2>5, <2>8
    <3> HIDE DEF u, v
    <3>2. u \o Append(v, y[k]) = Append(u \o v, y[k])
      BY <3>1, AppendLast
    <3> QED
      BY <3>2 DEF u, v
  <2>10. f[a + k] = f[a] \o g[k]
    BY <2>4, <2>6, <2>7, <2>9
  <2> QED
    BY <2>1, <2>10
<1>5. \A k \in 0 .. z : f[a + k] = f[a] \o g[k]
  BY <1>4
<1> QED
  BY <1>5 DEF Joins

\* What is kept stays.
LEMMA SiftedGrows ==
    ASSUME NEW K, NEW s \in Seq(K), NEW p, NEW f, Sifted(f, s, p, K), NEW n \in 0 .. Len(s), NEW m \in n .. Len(s)
    PROVE  Len(f[n]) <= Len(f[m]) /\ \A x \in 1 .. Len(f[n]) : f[m][x] = f[n][x]
<1> DEFINE Kept(h) == Len(f[n]) <= Len(f[h]) /\ \A x \in 1 .. Len(f[n]) : f[h][x] = f[n][x]
           T == {h \in n .. Len(s) : ~Kept(h)}
<1>1. f \in [0 .. Len(s) -> Seq(K)] /\ f[n] \in Seq(K) /\ Len(f[n]) \in Nat /\ n \in Nat /\ Len(s) \in Nat
  <2>1. f \in [0 .. Len(s) -> Seq(K)]
    BY DEF Sifted
  <2>2. f[n] \in Seq(K) /\ n \in Nat /\ Len(s) \in Nat
    BY <2>1
  <2> QED
    BY <2>1, <2>2
<1>2. ASSUME T # {} PROVE FALSE
  <2>1. PICK h \in T : \A l \in T : h <= l
    <3> T \subseteq Nat
      BY <1>1
    <3> HIDE DEF T
    <3> QED
      BY <1>2, Least
  <2>2. h # n
    BY <1>1, <2>1
  <2>3. h \in 1 .. Len(s) /\ h - 1 \in n .. Len(s) /\ h - 1 \in 0 .. Len(s) /\ ~(h <= h - 1)
    BY <1>1, <2>1, <2>2
  <2>4. Kept(h - 1)
    BY <2>1, <2>3
  <2>5. f[h - 1] \in Seq(K) /\ s[h] \in K
    <3>1. f[h - 1] \in Seq(K)
      BY <1>1, <2>3
    <3>2. s[h] \in K
      BY <2>3
    <3> QED
      BY <3>1, <3>2
  <2>6. f[h] = IF s[h] = p THEN f[h - 1] ELSE Append(f[h - 1], s[h])
    BY <2>3 DEF Sifted
  <2>7. /\ Len(Append(f[h - 1], s[h])) = Len(f[h - 1]) + 1 /\ Len(f[h - 1]) \in Nat
        /\ \A x \in 1 .. Len(f[h - 1]) : Append(f[h - 1], s[h])[x] = f[h - 1][x]
    BY <2>5
  <2>8. \A x \in 1 .. Len(f[n]) : x \in 1 .. Len(f[h - 1])
    BY <1>1, <2>4, <2>7
  <2>9. Kept(h)
    BY <1>1, <2>4, <2>6, <2>7, <2>8
  <2> QED
    BY <2>1, <2>9
<1> QED
  BY <1>2

\* A place in the second of two sequences.
LEMMA Further ==
    ASSUME NEW a \in Nat, NEW b \in Nat
    PROVE  \A k \in 1 .. b : a + k \in 1 .. a + b
OBVIOUS

\* The second of two sequences, place by place.
LEMMA JoinedSecond ==
    ASSUME NEW K, NEW s \in Seq(K), NEW t \in Seq(K)
    PROVE  /\ Len(s \o t) = Len(s) + Len(t) /\ Len(s) \in Nat /\ Len(t) \in Nat
           /\ \A k \in 1 .. Len(t) : (s \o t)[Len(s) + k] = t[k]
<1> PICK a \in Nat, b \in Nat : a = Len(s) /\ b = Len(t)
  OBVIOUS
<1>1. \A k \in 1 .. b : a + k \in 1 .. a + b /\ ~(a + k <= a) /\ (a + k) - a = k
  OBVIOUS
<1>2. Len(s \o t) = a + b /\ \A x \in 1 .. a + b : (s \o t)[x] = IF x <= a THEN s[x] ELSE t[x - a]
  BY Joined
<1> QED
  BY <1>1, <1>2

\* Deleting an element from every list deletes it from what they make up.
LEMMA ChopSift ==
    ASSUME NEW l, NEW N, NEW o, NEW s, NEW K, Chop(l, N, o, s, K), NEW p
    PROVE  \E q : Chop([i \in 1 .. N |-> Others(l[i], p)], N, q, Others(s, p), K)
<1> DEFINE l2 == [i \in 1 .. N |-> Others(l[i], p)]
           w == Others(s, p)
<1>1. /\ N \in Nat /\ o \in [1 .. N + 1 -> Nat] /\ l \in [1 .. N -> Seq(K)] /\ s \in Seq(K)
      /\ Len(s) = o[N + 1] /\ o[1] = 0
  BY ChopFacts
<1>2. PICK f : Sifted(f, s, p, K) /\ w = f[Len(s)]
  BY <1>1, OthersIs
<1>3. f \in [0 .. Len(s) -> Seq(K)] /\ f[0] = <<>>
  BY <1>2 DEF Sifted
<1>4. \A i \in 1 .. N + 1 : o[i] \in 0 .. Len(s)
  <2> TAKE i \in 1 .. N + 1
  <2>1. N + 1 \in 1 .. N + 1 /\ i <= N + 1
    BY <1>1
  <2>2. o[i] <= o[N + 1]
    BY <2>1, ChopOrder
  <2> QED
    BY <1>1, <2>2
<1> DEFINE q == [i \in 1 .. N + 1 |-> Len(f[o[i]])]
<1>5. q \in [1 .. N + 1 -> Nat] /\ \A i \in 1 .. N + 1 : q[i] = Len(f[o[i]])
  BY <1>3, <1>4
<1>6. l2 \in [1 .. N -> Seq(K)] /\ \A i \in 1 .. N : l2[i] = Others(l[i], p)
  BY <1>1, OthersType
<1>7. w \in Seq(K) /\ Len(w) = q[N + 1] /\ q[1] = 0
  <2>1. 1 \in 1 .. N + 1 /\ N + 1 \in 1 .. N + 1 /\ Len(s) \in 0 .. Len(s)
    BY <1>1
  <2> QED
    BY <1>1, <1>2, <1>3, <1>5, <2>1
<1> HIDE DEF l2, w, q
<1>8. ASSUME NEW i \in 1 .. N
      PROVE  /\ q[i + 1] = q[i] + Len(l2[i])
             /\ \A k \in 1 .. Len(l2[i]) : w[q[i] + k] = l2[i][k]
  <2>1. i \in 1 .. N + 1 /\ i + 1 \in 1 .. N + 1
    BY <1>1
  <2>2. /\ l[i] \in Seq(K) /\ Len(l[i]) \in Nat /\ o[i] \in Nat /\ Within(l[i], s, o[i], Len(l[i]))
        /\ o[i + 1] = o[i] + Len(l[i])
    BY ChopWithin
  <2>3. PICK g : Sifted(g, l[i], p, K) /\ Others(l[i], p) = g[Len(l[i])]
    BY <2>2, OthersIs
  <2>4. f[o[i] + Len(l[i])] = f[o[i]] \o g[Len(l[i])]
    <3>1. \A k \in 0 .. Len(l[i]) : f[o[i] + k] = f[o[i]] \o g[k]
      <4> DEFINE y == l[i]
                 a == o[i]
                 z == Len(l[i])
      <4>1. BothSifted(f, s, g, y, p, K, a, z)
        BY <1>1, <1>2, <2>2, <2>3 DEF BothSifted
      <4> HIDE DEF y, a, z
      <4>3. \A k \in 0 .. z : Joins(f[a + k], f[a], g[k])
        BY <4>1, SiftedWithin
      <4> QED
        BY <4>3 DEF y, a, z, Joins
    <3>2. Len(l[i]) \in 0 .. Len(l[i])
      BY <2>2
    <3> QED
      BY <3>1, <3>2
  <2>5. f[o[i + 1]] = f[o[i]] \o l2[i] /\ f[o[i]] \in Seq(K) /\ l2[i] \in Seq(K)
    BY <1>3, <1>4, <1>6, <2>1, <2>2, <2>3, <2>4
  <2>6. /\ Len(f[o[i + 1]]) = Len(f[o[i]]) + Len(l2[i]) /\ Len(f[o[i]]) \in Nat /\ Len(l2[i]) \in Nat
        /\ \A k \in 1 .. Len(l2[i]) : f[o[i + 1]][Len(f[o[i]]) + k] = l2[i][k]
    <3> DEFINE u == f[o[i]]
               v == l2[i]
    <3> HIDE DEF u, v
    <3>1. u \in Seq(K) /\ v \in Seq(K) /\ f[o[i + 1]] = u \o v
      BY <2>5 DEF u, v
    <3>2. /\ Len(u \o v) = Len(u) + Len(v) /\ Len(u) \in Nat /\ Len(v) \in Nat
          /\ \A k \in 1 .. Len(v) : (u \o v)[Len(u) + k] = v[k]
      BY <3>1, JoinedSecond
    <3> QED
      BY <3>1, <3>2 DEF u, v
  <2>7. \A x \in 1 .. Len(f[o[i + 1]]) : w[x] = f[o[i + 1]][x]
    <3>1. o[i + 1] \in 0 .. Len(s) /\ Len(s) \in o[i + 1] .. Len(s)
      BY <1>1, <1>4, <2>1
    <3> QED
      BY <1>1, <1>2, <3>1, SiftedGrows
  <2>8. \A k \in 1 .. Len(l2[i]) : Len(f[o[i]]) + k \in 1 .. Len(f[o[i + 1]])
    <3>1. \A k \in 1 .. Len(l2[i]) : Len(f[o[i]]) + k \in 1 .. Len(f[o[i]]) + Len(l2[i])
      BY <2>6, Further
    <3> QED
      BY <2>6, <3>1
  <2> QED
    BY <1>5, <2>1, <2>6, <2>7, <2>8
<1>9. Chop(l2, N, q, w, K)
  BY <1>1, <1>5, <1>6, <1>7, <1>8 DEF Chop
<1> QED
  BY <1>9 DEF l2, w

\* The first place where something is.
LEMMA SelectIs ==
    ASSUME NEW K, NEW s \in Seq(K), NEW p, NEW k \in 1 .. Len(s), s[k] = p, \A j \in 1 .. k - 1 : s[j] # p
    PROVE  Min({i \in 1 .. Len(s) : s[i] = p}) = k
<1> DEFINE I == {i \in 1 .. Len(s) : s[i] = p}
<1>1. k \in I
  OBVIOUS
<1>2. \A y \in I : k <= y
  <2> TAKE y \in I
  <2>1. y \in 1 .. Len(s) /\ s[y] = p
    OBVIOUS
  <2>2. y \in 1 .. k - 1 \/ k <= y
    BY <2>1
  <2> QED
    BY <2>1, <2>2
<1>3. I \subseteq Nat
  OBVIOUS
<1> HIDE DEF I
<1>4. \E x \in I : \A y \in I : x <= y
  BY <1>1, <1>2
<1>5. Min(I) \in I /\ \A y \in I : Min(I) <= y
  BY <1>4 DEF Min
<1>6. Min(I) = k
  <2>1. Min(I) \in Nat /\ k \in Nat /\ Min(I) <= k /\ k <= Min(I)
    BY <1>1, <1>2, <1>3, <1>5
  <2> QED
    BY <2>1
<1> QED
  BY <1>6 DEF I

\* There is one.
LEMMA FirstIs ==
    ASSUME NEW K, NEW s \in Seq(K), NEW p, Contains(s, p)
    PROVE  \E k \in 1 .. Len(s) : s[k] = p /\ \A j \in 1 .. k - 1 : s[j] # p
<1> DEFINE I == {i \in 1 .. Len(s) : s[i] = p}
<1>1. I \subseteq Nat /\ I # {}
  BY DEF Contains
<1> HIDE DEF I
<1>2. PICK k \in I : \A y \in I : k <= y
  BY <1>1, Least
<1>3. k \in 1 .. Len(s) /\ s[k] = p
  BY DEF I
<1>4. \A j \in 1 .. k - 1 : j \in 1 .. Len(s) /\ ~(k <= j)
  BY <1>3
<1> QED
  BY <1>2, <1>3, <1>4 DEF I

\* k is the first place of p in list c, which is in no earlier list.
FirstIn(l, c, k, p) ==
    /\ k \in 1 .. Len(l[c]) /\ l[c][k] = p /\ \A j \in 1 .. k - 1 : l[c][j] # p
    /\ \A i \in 1 .. c - 1 : ~Contains(l[i], p)

\* The first place of all.
LEMMA ChopFirst ==
    ASSUME NEW l, NEW N, NEW o, NEW s, NEW K, Chop(l, N, o, s, K), NEW c \in 1 .. N, NEW k \in Nat, NEW p,
           FirstIn(l, c, k, p)
    PROVE  /\ o[c] + k \in 1 .. Len(s) /\ s[o[c] + k] = p
           /\ \A j \in 1 .. (o[c] + k) - 1 : s[j] # p
<1>1. /\ k \in 1 .. Len(l[c]) /\ l[c][k] = p /\ \A j \in 1 .. k - 1 : l[c][j] # p
      /\ \A i \in 1 .. c - 1 : ~Contains(l[i], p)
  BY DEF FirstIn
<1>2. /\ l[c] \in Seq(K) /\ Len(l[c]) \in Nat /\ o[c] \in Nat /\ Within(l[c], s, o[c], Len(l[c]))
  BY ChopWithin
<1>0. /\ N \in Nat /\ o \in [1 .. N + 1 -> Nat] /\ s \in Seq(K) /\ c \in Nat
  BY ChopFacts
<1>3. o[c] + k \in 1 .. Len(s) /\ s[o[c] + k] = p
  <2>1. Len(s) \in Nat
    BY <1>0
  <2>2. o[c] + Len(l[c]) <= Len(s) /\ s[o[c] + k] = p
    BY <1>1, <1>2 DEF Within
  <2> QED
    BY <1>1, <1>2, <2>1, <2>2
<1>4. ASSUME NEW j \in 1 .. (o[c] + k) - 1, s[j] = p PROVE FALSE
  <2>1. j \in 1 .. Len(s)
    BY <1>0, <1>1, <1>2, <1>3
  <2>2. PICK i \in 1 .. N : /\ o[i] \in Nat /\ o[i] < j /\ j - o[i] \in 1 .. Len(l[i])
                            /\ s[j] = l[i][j - o[i]]
    BY <2>1, ChopPlace
  <2>3. Contains(l[i], p)
    BY <1>4, <2>2 DEF Contains
  <2>4. i \in Nat /\ ~(i < c)
    BY <1>0, <1>1, <2>3
  <2>5. i = c
    <3>1. SUFFICES ASSUME c + 1 <= i PROVE FALSE
      BY <1>0, <2>4
    <3>2. c + 1 \in 1 .. N + 1 /\ i \in 1 .. N + 1
      BY <1>0
    <3>3. o[c + 1] <= o[i] /\ o[c + 1] = o[c] + Len(l[c])
      BY <3>1, <3>2, ChopOrder, ChopWithin
    <3>4. k \in 1 .. Len(l[c]) /\ Len(l[c]) \in Nat /\ o[c] \in Nat /\ o[i] \in Nat /\ o[i] < j
      BY <1>1, <1>2, <2>2
    <3>5. j < o[c] + k /\ j \in Nat
      BY <1>1, <1>2
    <3> QED
      BY <3>3, <3>4, <3>5
  <2>6. j - o[c] \in 1 .. k - 1
    BY <1>1, <1>2, <2>2, <2>5
  <2> QED
    BY <1>1, <1>4, <2>2, <2>5, <2>6
<1> QED
  BY <1>3, <1>4

\* r is the N blocks in use of m, from h along next.
RingOf(m, h, N, r) ==
    /\ N \in Nat /\ r \in [1 .. N -> Blocks] /\ (h = Null <=> N = 0)
    /\ \A i, j \in 1 .. N : r[i] = r[j] => i = j
    /\ N > 0 => r[1] = h /\ m[r[N]].next = h
    /\ \A i \in 1 .. N : i < N => m[r[i]].next = r[i + 1]
    /\ \A b \in Blocks : m[b].used <=> \E i \in 1 .. N : r[i] = b

\* The elements of each of them.
ListsOf(m, N, r) == [i \in 1 .. N |-> m[r[i]].list]

\* s is all of them, with block i at o[i].
Seen(m, h, N, r, o, s) == RingOf(m, h, N, r) /\ Chop(ListsOf(m, N, r), N, o, s, Ptrs)

\* Until, of blocks m with the head h.
UntilOf(m, h, b) ==
    LET after[n \in 0..NBlocks] ==
            IF n = 0 THEN [at |-> h, found |-> <<>>]
            ELSE LET r == after[n - 1]
                     next == m[r.at].next
                 IN  IF r.at \in {b, Null} THEN r
                     ELSE [at |-> IF next = h THEN Null ELSE next,
                           found |-> r.found \o m[r.at].list]
    IN  after[NBlocks].found

\* That is what Until is, before a step and after it.
LEMMA UntilBoth ==
    ASSUME NEW b
    PROVE  Until(b) = UntilOf(mem, head, b)
  BY DEF Until, UntilOf

\* And after a step.
LEMMA UntilAfter ==
    Until(Null)' = UntilOf(mem', head', Null) /\ Until(walk.list)' = UntilOf(mem', head', walk'.list)
  BY DEF Until, UntilOf

\* A ring has no more blocks than there are.
LEMMA FewBlocks ==
    ASSUME NEW m, NEW h, NEW N, NEW r, RingOf(m, h, N, r)
    PROVE  N <= NBlocks
<1>1. N \in Nat /\ r \in [1 .. N -> Blocks] /\ \A i, j \in 1 .. N : r[i] = r[j] => i = j
  BY DEF RingOf
<1>2. /\ IsFiniteSet(1 .. N) /\ Cardinality(1 .. N) = N
      /\ IsFiniteSet(Blocks) /\ Cardinality(Blocks) = NBlocks /\ NBlocks \in Nat
  BY <1>1, FS_Interval, PtrListAssumption DEF Blocks
<1>3. ~(Cardinality(Blocks) < Cardinality(1 .. N))
  BY <1>1, <1>2, FS_PigeonHole
<1> QED
  BY <1>1, <1>2, <1>3

\* f[n] is what the first n of the lists l make up.
Walked(f, l, N, K) ==
    /\ f \in [0 .. N -> Seq(K)] /\ f[0] = <<>>
    /\ \A n \in 1 .. N : Joins(f[n], f[n - 1], l[n])

\* There is such a function.
LEMMA WalkedExists ==
    ASSUME NEW N \in Nat, NEW K, NEW l \in [1 .. N -> Seq(K)]
    PROVE  \E f : Walked(f, l, N, K)
<1> DEFINE step(n, u) == IF n \notin 1 .. N THEN u ELSE u \o l[n]
           G == [x \in Nat \X Seq(K) |-> step(x[1], x[2])]
<1>1. G \in [Nat \X Seq(K) -> Seq(K)]
  <2> SUFFICES ASSUME NEW n \in Nat, NEW u \in Seq(K) PROVE step(n, u) \in Seq(K)
    OBVIOUS
  <2>1. n \in 1 .. N => l[n] \in Seq(K)
    OBVIOUS
  <2> QED
    BY <2>1, Concatenated
<1>2. PICK f \in [0 .. N -> Seq(K)] : Follows(f, 0, N, <<>>, G)
  <2>1. 0 \in Nat /\ <<>> \in Seq(K)
    OBVIOUS
  <2> HIDE DEF G
  <2> QED
    BY <1>1, <2>1, Recursive
<1>3. f[0] = <<>>
  BY <1>2 DEF Follows
<1>4. ASSUME NEW n \in 1 .. N PROVE Joins(f[n], f[n - 1], l[n])
  <2>1. n \in 0 .. N /\ n # 0 /\ n \in Nat /\ n - 1 \in 0 .. N
    OBVIOUS
  <2>2. f[n] = G[<<n, f[n - 1]>>] /\ f[n - 1] \in Seq(K)
    BY <1>2, <2>1 DEF Follows
  <2>3. G[<<n, f[n - 1]>>] = step(n, f[n - 1])
    BY <2>1, <2>2
  <2>4. step(n, f[n - 1]) = f[n - 1] \o l[n]
    OBVIOUS
  <2> HIDE DEF step, G
  <2> QED
    BY <2>2, <2>3, <2>4 DEF Joins
<1> QED
  BY <1>2, <1>3, <1>4 DEF Walked

\* What joining gives, place by place.
LEMMA JoinsIs ==
    ASSUME NEW K, NEW u \in Seq(K), NEW v \in Seq(K), NEW w, Joins(w, u, v)
    PROVE  /\ w \in Seq(K) /\ Len(w) = Len(u) + Len(v) /\ Len(u) \in Nat /\ Len(v) \in Nat
           /\ \A x \in 1 .. Len(u) : w[x] = u[x]
           /\ \A k \in 1 .. Len(v) : w[Len(u) + k] = v[k]
<1>1. w = u \o v
  BY DEF Joins
<1>2. /\ u \o v \in Seq(K)
      /\ \A x \in 1 .. Len(u) + Len(v) : (u \o v)[x] = IF x <= Len(u) THEN u[x] ELSE v[x - Len(u)]
  BY Joined
<1>3. \A x \in 1 .. Len(u) : (u \o v)[x] = u[x]
  BY <1>2
<1> QED
  BY <1>1, <1>2, <1>3, JoinedSecond

\* What the first lists make up stays as more are added.
LEMMA WalkedGrows ==
    ASSUME NEW f, NEW l, NEW N \in Nat, NEW K, l \in [1 .. N -> Seq(K)], Walked(f, l, N, K),
           NEW n \in 0 .. N, NEW m \in n .. N
    PROVE  Len(f[n]) <= Len(f[m]) /\ \A x \in 1 .. Len(f[n]) : f[m][x] = f[n][x]
<1> DEFINE Kept(h) == Len(f[n]) <= Len(f[h]) /\ \A x \in 1 .. Len(f[n]) : f[h][x] = f[n][x]
           T == {h \in n .. N : ~Kept(h)}
<1>1. f \in [0 .. N -> Seq(K)] /\ f[n] \in Seq(K) /\ Len(f[n]) \in Nat /\ n \in Nat
  BY DEF Walked
<1>2. ASSUME T # {} PROVE FALSE
  <2>1. PICK h \in T : \A y \in T : h <= y
    <3> T \subseteq Nat
      BY <1>1
    <3> HIDE DEF T
    <3> QED
      BY <1>2, Least
  <2>2. h # n
    BY <1>1, <2>1
  <2>3. h \in 1 .. N /\ h - 1 \in n .. N /\ h - 1 \in 0 .. N /\ ~(h <= h - 1)
    BY <1>1, <2>1, <2>2
  <2>4. Kept(h - 1)
    BY <2>1, <2>3
  <2>5. f[h - 1] \in Seq(K) /\ l[h] \in Seq(K) /\ Joins(f[h], f[h - 1], l[h])
    BY <1>1, <2>3 DEF Walked
  <2>6. /\ Len(f[h]) = Len(f[h - 1]) + Len(l[h]) /\ Len(f[h - 1]) \in Nat /\ Len(l[h]) \in Nat
        /\ \A x \in 1 .. Len(f[h - 1]) : f[h][x] = f[h - 1][x]
    <3> DEFINE u == f[h - 1]
               v == l[h]
               w == f[h]
    <3>1. u \in Seq(K) /\ v \in Seq(K) /\ Joins(w, u, v)
      BY <2>5
    <3> HIDE DEF u, v, w
    <3>2. Len(w) = Len(u) + Len(v) /\ Len(u) \in Nat /\ Len(v) \in Nat /\ \A x \in 1 .. Len(u) : w[x] = u[x]
      BY <3>1, JoinsIs
    <3> QED
      BY <3>2 DEF u, v, w
  <2>7. \A x \in 1 .. Len(f[n]) : x \in 1 .. Len(f[h - 1])
    BY <1>1, <2>4, <2>6
  <2>8. Kept(h)
    <3>1. \A x \in 1 .. Len(f[n]) : f[h][x] = f[n][x]
      BY <2>4, <2>6, <2>7
    <3>2. Len(f[n]) <= Len(f[h])
      <4>1. Len(f[n]) <= Len(f[h - 1]) /\ Len(f[h]) = Len(f[h - 1]) + Len(l[h])
        BY <2>4, <2>6
      <4>2. Len(f[h - 1]) \in Nat /\ Len(l[h]) \in Nat
        BY <2>6
      <4>3. Len(f[n]) \in Nat
        BY <1>1
      <4>4. \A a, b, c \in Nat : a <= b => a <= b + c
        OBVIOUS
      <4>5. Len(f[n]) <= Len(f[h - 1]) + Len(l[h])
        BY <4>1, <4>2, <4>3, <4>4
      <4> HIDE DEF Kept, T
      <4> QED
        BY <4>1, <4>5
    <3> QED
      BY <3>1, <3>2
  <2> QED
    BY <2>1, <2>8
<1> QED
  BY <1>2

\* The lists are cut from what they make up.
LEMMA WalkedChop ==
    ASSUME NEW f, NEW l, NEW N \in Nat, NEW K, l \in [1 .. N -> Seq(K)], Walked(f, l, N, K)
    PROVE  Chop(l, N, [i \in 1 .. N + 1 |-> Len(f[i - 1])], f[N], K)
<1> DEFINE o == [i \in 1 .. N + 1 |-> Len(f[i - 1])]
<1>1. f \in [0 .. N -> Seq(K)] /\ f[0] = <<>>
  BY DEF Walked
<1>2. \A i \in 1 .. N + 1 : i - 1 \in 0 .. N /\ o[i] = Len(f[i - 1])
  OBVIOUS
<1>3. o \in [1 .. N + 1 -> Nat]
  <2> SUFFICES ASSUME NEW i \in 1 .. N + 1 PROVE Len(f[i - 1]) \in Nat
    OBVIOUS
  <2>1. f[i - 1] \in Seq(K)
    BY <1>1, <1>2
  <2> QED
    BY <2>1
<1>4. 1 \in 1 .. N + 1 /\ 1 - 1 = 0 /\ N + 1 \in 1 .. N + 1 /\ (N + 1) - 1 = N
  OBVIOUS
<1>5. o[1] = 0 /\ o[N + 1] = Len(f[N])
  <2>1. o[1] = Len(f[1 - 1]) /\ o[N + 1] = Len(f[(N + 1) - 1])
    BY <1>2, <1>4
  <2> HIDE DEF o
  <2> QED
    BY <1>1, <1>4, <2>1
<1>6. ASSUME NEW i \in 1 .. N
      PROVE  /\ o[i + 1] = o[i] + Len(l[i])
             /\ \A k \in 1 .. Len(l[i]) : f[N][o[i] + k] = l[i][k]
  <2>1. /\ i \in 1 .. N + 1
        /\ i + 1 \in 1 .. N + 1
        /\ (i + 1) - 1 = i
        /\ i - 1 \in 0 .. N
        /\ i \in 0 .. N
        /\ N \in i .. N
    OBVIOUS
  <2>2. o[i] = Len(f[i - 1]) /\ o[i + 1] = Len(f[i])
    <3>1. o[i + 1] = Len(f[(i + 1) - 1])
      BY <1>2, <2>1
    <3> HIDE DEF o
    <3> QED
      BY <1>2, <2>1, <3>1
  <2>3. f[i - 1] \in Seq(K) /\ l[i] \in Seq(K) /\ Joins(f[i], f[i - 1], l[i])
    BY <1>1, <2>1 DEF Walked
  <2>4. /\ Len(f[i]) = Len(f[i - 1]) + Len(l[i]) /\ Len(f[i - 1]) \in Nat /\ Len(l[i]) \in Nat
        /\ \A k \in 1 .. Len(l[i]) : f[i][Len(f[i - 1]) + k] = l[i][k]
    <3> DEFINE u == f[i - 1]
               v == l[i]
               w == f[i]
    <3>1. u \in Seq(K) /\ v \in Seq(K) /\ Joins(w, u, v)
      BY <2>3
    <3> HIDE DEF u, v, w
    <3>2. /\ Len(w) = Len(u) + Len(v)
          /\ Len(u) \in Nat
          /\ Len(v) \in Nat
          /\ \A k \in 1 .. Len(v) : w[Len(u) + k] = v[k]
      BY <3>1, JoinsIs
    <3> QED
      BY <3>2 DEF u, v, w
  <2>5. \A x \in 1 .. Len(f[i]) : f[N][x] = f[i][x]
    BY <2>1, WalkedGrows
  <2>6. \A k \in 1 .. Len(l[i]) : Len(f[i - 1]) + k \in 1 .. Len(f[i])
    BY <2>4, Further
  <2> HIDE DEF o
  <2> QED
    BY <2>2, <2>4, <2>5, <2>6
<1>7. f[N] \in Seq(K)
  BY <1>1
<1> HIDE DEF o
<1>8. Chop(l, N, o, f[N], K)
  BY <1>3, <1>5, <1>6, <1>7 DEF Chop
<1> QED
  BY <1>8 DEF o

\* Until comes to block c, if there is one, with the elements of those before.
LEMMA UntilIs ==
    ASSUME NEW m, m \in [Blocks -> PtrBlock], NEW h, NEW N, NEW r, RingOf(m, h, N, r),
           NEW f, Walked(f, ListsOf(m, N, r), N, Ptrs),
           NEW c \in 1 .. N + 1, NEW b, b = IF c = N + 1 THEN Null ELSE r[c]
    PROVE  UntilOf(m, h, b) = f[c - 1]
<1> DEFINE D == 0 .. NBlocks
           V == [at : Blocks \cup {Null}, found : Seq(Ptrs)]
           first == [at |-> h, found |-> <<>>]
           step(v) == IF v.at \in {b, Null} THEN v
                      ELSE [at |-> IF m[v.at].next = h THEN Null ELSE m[v.at].next,
                            found |-> v.found \o m[v.at].list]
           after[n \in D] == IF n = 0 THEN first ELSE step(after[n - 1])
           G == [x \in Nat \X V |-> step(x[2])]
           l == ListsOf(m, N, r)
<1>1. /\ N \in Nat /\ r \in [1 .. N -> Blocks] /\ (h = Null <=> N = 0)
      /\ \A i, j \in 1 .. N : r[i] = r[j] => i = j
      /\ N > 0 => r[1] = h /\ m[r[N]].next = h
      /\ \A i \in 1 .. N : i < N => m[r[i]].next = r[i + 1]
  BY DEF RingOf
<1>2. N <= NBlocks /\ NBlocks \in Nat /\ NBlocks \in D /\ \A k \in Blocks : k # Null
  BY FewBlocks, PtrListAssumption DEF Blocks, Null
<1>3. h \in Blocks \cup {Null} /\ first \in V
  <2>1. N > 0 => h \in Blocks
    BY <1>1
  <2>2. h \in Blocks \cup {Null}
    BY <1>1, <2>1
  <2> QED
    BY <2>2
<1>4. G \in [Nat \X V -> V]
  <2> SUFFICES ASSUME NEW v \in V PROVE step(v) \in V
    OBVIOUS
  <2>1. v.at \in {b, Null} => step(v) = v
    OBVIOUS
  <2>2. ASSUME ~(v.at \in {b, Null}) PROVE step(v) \in V
    <3>1. v.at \in Blocks /\ v.found \in Seq(Ptrs)
      BY <2>2
    <3>2. m[v.at].next \in Blocks \cup {Null} /\ m[v.at].list \in Seq(Ptrs)
      BY <3>1 DEF PtrBlock
    <3>3. v.found \o m[v.at].list \in Seq(Ptrs)
      BY <3>1, <3>2, Concatenated
    <3> QED
      BY <2>2, <3>2, <3>3
  <2> QED
    BY <2>1, <2>2
<1>5. PICK g \in [D -> V] : Follows(g, 0, NBlocks, first, G)
  <2>1. 0 \in Nat
    OBVIOUS
  <2> HIDE DEF V, G, first
  <2> QED
    BY <1>2, <1>3, <1>4, <2>1, Recursive
<1>6. \A n \in D : g[n] = IF n = 0 THEN first ELSE step(g[n - 1])
  <2> TAKE n \in D
  <2>1. g[n] = IF n = 0 THEN first ELSE G[<<n, g[n - 1]>>]
    BY <1>5 DEF Follows
  <2>2. n # 0 => n \in Nat /\ n - 1 \in D
    BY <1>2
  <2>3. n # 0 => g[n - 1] \in V
    <3> HIDE DEF V, D
    <3> QED
      BY <1>5, <2>2
  <2>4. n # 0 => G[<<n, g[n - 1]>>] = step(g[n - 1])
    <3> HIDE DEF V, D, step
    <3> QED
      BY <2>2, <2>3
  <2> HIDE DEF G, step, first
  <2> QED
    BY <2>1, <2>4
<1>7. g = [n \in D |-> IF n = 0 THEN first ELSE step(g[n - 1])]
  <2> HIDE DEF step, first, V
  <2> QED
    BY <1>5, <1>6
<1>8. after = [n \in D |-> IF n = 0 THEN first ELSE step(after[n - 1])]
  <2> HIDE DEF step, first, V
  <2> QED
    BY <1>7
<1> HIDE DEF after, step, first, V, G
<1>9. after = g
  <2> DEFINE T == {n \in D : after[n] # g[n]}
  <2>1. ASSUME T # {} PROVE FALSE
    <3>1. PICK n \in T : \A y \in T : n <= y
      <4> T \subseteq Nat
        OBVIOUS
      <4> HIDE DEF T
      <4> QED
        BY <2>1, Least
    <3>2. n # 0 => n - 1 \in D /\ ~(n <= n - 1)
      BY <1>2
    <3>3. n # 0 => after[n - 1] = g[n - 1]
      BY <3>1, <3>2
    <3> QED
      BY <1>6, <1>8, <3>1, <3>3
  <2> QED
    BY <1>7, <1>8, <2>1
<1>10. UntilOf(m, h, b) = after[NBlocks].found
  BY DEF UntilOf, after, step, first
<1> DEFINE At(k) == IF k = N THEN Null ELSE r[k + 1]
           min(n) == IF n < c - 1 THEN n ELSE c - 1
           Good(n) == g[n].at = At(min(n)) /\ g[n].found = f[min(n)]
<1>11. c \in Nat /\ c - 1 \in 0 .. N /\ At(c - 1) = b
  <2>1. c \in Nat /\ c - 1 \in 0 .. N /\ (c - 1) + 1 = c /\ (c - 1 = N <=> c = N + 1)
    BY <1>1
  <2> QED
    BY <2>1
<1>12. \A n \in D : Good(n)
  <2> DEFINE T == {n \in D : ~Good(n)}
  <2>1. ASSUME T # {} PROVE FALSE
    <3>1. PICK n \in T : \A y \in T : n <= y
      <4> HIDE DEF Good
      <4> T \subseteq Nat
        OBVIOUS
      <4> HIDE DEF T
      <4> QED
        BY <2>1, Least
    <3>2. n \in D /\ ~Good(n)
      OBVIOUS
    <3>3. n # 0
      <4>1. ASSUME n = 0 PROVE Good(n)
        <5>1. min(0) = 0 /\ At(0) = h
          BY <1>1, <1>11
        <5>2. g[0] = first
          BY <1>2, <1>6
        <5>3. f[0] = <<>>
          BY DEF Walked
        <5> QED
          BY <4>1, <5>1, <5>2, <5>3 DEF first
      <4> HIDE DEF Good
      <4> QED
        BY <3>2, <4>1
    <3>4. n \in Nat /\ n - 1 \in D /\ ~(n <= n - 1)
      BY <1>2, <3>2, <3>3
    <3>5. Good(n - 1)
      <4> HIDE DEF Good
      <4> QED
        BY <3>1, <3>4
    <3>6. g[n] = step(g[n - 1])
      BY <1>6, <3>2, <3>3
    <3>7. CASE c - 1 <= n - 1
      <4>1. min(n - 1) = c - 1 /\ min(n) = c - 1
        BY <1>11, <3>4, <3>7
      <4>2. g[n - 1].at = b
        BY <1>11, <3>5, <4>1
      <4>3. g[n] = g[n - 1]
        BY <3>6, <4>2 DEF step
      <4>4. Good(n)
        BY <3>5, <4>1, <4>3
      <4> QED
        BY <3>2, <4>4
    <3>8. CASE ~(c - 1 <= n - 1)
      <4>1. /\ n \in 1 .. N /\ n <= c - 1 /\ n # c /\ min(n - 1) = n - 1 /\ min(n) = n /\ n - 1 # N
            /\ (n - 1) + 1 = n
        BY <1>1, <1>11, <3>3, <3>4, <3>8
      <4>2. g[n - 1].at = r[n] /\ g[n - 1].found = f[n - 1]
        BY <3>5, <4>1
      <4>3. r[n] \in Blocks /\ r[n] # Null /\ r[n] # b
        <5>1. r[n] \in Blocks /\ r[n] # Null
          BY <1>1, <1>2, <4>1
        <5>2. c # N + 1 => c \in 1 .. N /\ b = r[c]
          BY <1>1, <1>11
        <5> QED
          BY <1>1, <4>1, <5>1, <5>2
      <4>4. g[n] = [at |-> IF m[r[n]].next = h THEN Null ELSE m[r[n]].next,
                    found |-> f[n - 1] \o m[r[n]].list]
        BY <3>6, <4>2, <4>3 DEF step
      <4>5. f[n] = f[n - 1] \o m[r[n]].list
        BY <4>1 DEF Walked, Joins, ListsOf
      <4>6. (IF m[r[n]].next = h THEN Null ELSE m[r[n]].next) = At(n)
        <5>1. CASE n = N
          BY <1>1, <4>1, <5>1
        <5>2. CASE n # N
          <6>1. n < N /\ n + 1 \in 1 .. N /\ 1 \in 1 .. N /\ n + 1 # 1 /\ N > 0
            BY <1>1, <4>1, <5>2
          <6>2. r[n + 1] # h /\ m[r[n]].next = r[n + 1]
            BY <1>1, <4>1, <6>1
          <6> QED
            BY <5>2, <6>2
        <5> QED
          BY <5>1, <5>2
      <4>7. Good(n)
        <5>1. g[n].at = At(n) /\ g[n].found = f[n]
          <6> DEFINE a == IF m[r[n]].next = h THEN Null ELSE m[r[n]].next
                     u == f[n - 1] \o m[r[n]].list
          <6>1. g[n] = [at |-> a, found |-> u] /\ f[n] = u /\ a = At(n)
            BY <4>4, <4>5, <4>6
          <6> HIDE DEF At, a, u
          <6> QED
            BY <6>1
        <5> QED
          BY <4>1, <5>1
      <4> QED
        BY <3>2, <4>7
    <3> QED
      BY <3>7, <3>8, <3>4, <1>11
  <2> QED
    BY <2>1
<1>13. min(NBlocks) = c - 1
  BY <1>1, <1>2, <1>11
<1> HIDE DEF min, At
<1> QED
  BY <1>2, <1>9, <1>10, <1>12, <1>13

\* The lists of a ring are elements.
LEMMA ListsOfType ==
    ASSUME NEW m, m \in [Blocks -> PtrBlock], NEW h, NEW N, NEW r, RingOf(m, h, N, r)
    PROVE  N \in Nat /\ ListsOf(m, N, r) \in [1 .. N -> Seq(Ptrs)] /\ \A i \in 1 .. N : r[i] \in Blocks
<1>1. N \in Nat /\ \A i \in 1 .. N : r[i] \in Blocks
  BY DEF RingOf
<1>2. \A i \in 1 .. N : m[r[i]].list \in Seq(Ptrs)
  BY <1>1 DEF PtrBlock
<1> QED
  BY <1>1, <1>2 DEF ListsOf

\* The sequence seen in a ring is what Until finds, and up to a block what is before it.
LEMMA SeenUntil ==
    ASSUME NEW m, m \in [Blocks -> PtrBlock], NEW h, NEW N, NEW r, NEW o, NEW s, Seen(m, h, N, r, o, s)
    PROVE  UntilOf(m, h, Null) = s /\ \A c \in 1 .. N : Len(UntilOf(m, h, r[c])) = o[c]
<1> DEFINE l == ListsOf(m, N, r)
<1>0. RingOf(m, h, N, r) /\ Chop(l, N, o, s, Ptrs)
  BY DEF Seen
<1>1. N \in Nat /\ l \in [1 .. N -> Seq(Ptrs)]
  BY <1>0, ListsOfType
<1>2. PICK f : Walked(f, l, N, Ptrs)
  <2> HIDE DEF l
  <2> QED
    BY <1>1, WalkedExists
<1> DEFINE q == [i \in 1 .. N + 1 |-> Len(f[i - 1])]
<1>3. Chop(l, N, q, f[N], Ptrs)
  <2> HIDE DEF l
  <2> QED
    BY <1>1, <1>2, WalkedChop
<1>4. o = q /\ s = f[N]
  <2> DEFINE t == f[N]
  <2> HIDE DEF l, q, t
  <2>1. o = q /\ s = t
    BY <1>0, <1>3, ChopUnique DEF t
  <2> QED
    BY <2>1 DEF t
<1>5. \A c \in 1 .. N + 1 : UntilOf(m, h, IF c = N + 1 THEN Null ELSE r[c]) = f[c - 1]
  <2> HIDE DEF q
  <2> QED
    BY <1>0, <1>2, UntilIs
<1>6. N + 1 \in 1 .. N + 1 /\ (N + 1) - 1 = N /\ \A c \in 1 .. N : c \in 1 .. N + 1 /\ c # N + 1
  BY <1>1
<1>7. UntilOf(m, h, Null) = s
  <2>1. UntilOf(m, h, IF N + 1 = N + 1 THEN Null ELSE r[N + 1]) = f[(N + 1) - 1]
    BY <1>5, <1>6
  <2> QED
    BY <1>4, <1>6, <2>1
<1>8. ASSUME NEW c \in 1 .. N PROVE Len(UntilOf(m, h, r[c])) = o[c]
  <2>1. UntilOf(m, h, IF c = N + 1 THEN Null ELSE r[c]) = f[c - 1]
    BY <1>5, <1>6
  <2>2. UntilOf(m, h, r[c]) = f[c - 1]
    BY <1>6, <2>1
  <2>3. q[c] = Len(f[c - 1])
    BY <1>6
  <2> HIDE DEF q
  <2> QED
    BY <1>4, <2>2, <2>3
<1> QED
  BY <1>7, <1>8

\* a is where the loop w is then.
Placed(w, N, r, o, a) ==
    \/ w.dir = "none" /\ a = 0
    \/ w.dir # "none" /\ \E c \in 1 .. N : w.list = r[c] /\ a = o[c] + w.nr

\* s and a are what ImplementsPtrSeq takes the list and the loop over it for.
Shows(m, h, w, s, a) == \E N, r, o : Seen(m, h, N, r, o, s) /\ Placed(w, N, r, o, a)

\* That is how ImplementsPtrSeq reads the blocks.
LEMMA ShowsIs ==
    ASSUME NEW m, m \in [Blocks -> PtrBlock], NEW h, NEW w, NEW s, NEW a, Shows(m, h, w, s, a)
    PROVE  /\ UntilOf(m, h, Null) = s
           /\ (IF w.dir = "none" THEN 0 ELSE Len(UntilOf(m, h, w.list)) + w.nr) = a
<1>1. PICK N, r, o : Seen(m, h, N, r, o, s) /\ Placed(w, N, r, o, a)
  BY DEF Shows
<1>2. UntilOf(m, h, Null) = s /\ \A c \in 1 .. N : Len(UntilOf(m, h, r[c])) = o[c]
  BY <1>1, SeenUntil
<1>3. CASE w.dir = "none"
  BY <1>1, <1>2, <1>3 DEF Placed
<1>4. CASE w.dir # "none"
  <2>1. PICK c \in 1 .. N : w.list = r[c] /\ a = o[c] + w.nr
    BY <1>1, <1>4 DEF Placed
  <2>2. Len(UntilOf(m, h, w.list)) = o[c]
    BY <1>2, <2>1
  <2> QED
    BY <1>2, <1>4, <2>1, <2>2
<1> QED
  BY <1>3, <1>4

\* Blocks m2 are m, but b has the elements t.
Relisted(m2, m, b, t) ==
    \A d \in Blocks : /\ m2[d].next = m[d].next /\ m2[d].used = m[d].used
                      /\ m2[d].list = IF d = b THEN t ELSE m[d].list

\* The ring is the same if the links are.
LEMMA RingSame ==
    ASSUME NEW m, NEW h, NEW N, NEW r, RingOf(m, h, N, r), NEW m2,
           \A d \in Blocks : m2[d].next = m[d].next /\ m2[d].used = m[d].used
    PROVE  RingOf(m2, h, N, r)
<1>1. /\ N \in Nat /\ r \in [1 .. N -> Blocks] /\ (h = Null <=> N = 0)
      /\ \A i, j \in 1 .. N : r[i] = r[j] => i = j
      /\ N > 0 => r[1] = h /\ m[r[N]].next = h
      /\ \A i \in 1 .. N : i < N => m[r[i]].next = r[i + 1]
      /\ \A b \in Blocks : m[b].used <=> \E i \in 1 .. N : r[i] = b
  BY DEF RingOf
<1>2. \A i \in 1 .. N : r[i] \in Blocks
  BY <1>1
<1>3. N > 0 => N \in 1 .. N
  BY <1>1
<1>4. N > 0 => r[1] = h /\ m2[r[N]].next = h
  BY <1>1, <1>2, <1>3
<1>5. \A i \in 1 .. N : i < N => m2[r[i]].next = r[i + 1]
  BY <1>1, <1>2
<1>6. \A b \in Blocks : m2[b].used <=> \E i \in 1 .. N : r[i] = b
  BY <1>1
<1> QED
  BY <1>1, <1>4, <1>5, <1>6 DEF RingOf

\* w is s with what block c has in m2 in the place of what it has in m.
EditOf(m, m2, r, o, s, c, w) ==
    /\ w \in Seq(Ptrs)
    /\ \E t \in Seq(Ptrs), x \in Nat, z \in Nat :
          Relisted(m2, m, r[c], t) /\ Spliced(w, s, o[c], t, x, m[r[c]].list, z)

\* One block has other elements, and the sequence in their place.
LEMMA EditSeen ==
    ASSUME NEW m, m \in [Blocks -> PtrBlock], NEW h, NEW N, NEW r, NEW o, NEW s, Seen(m, h, N, r, o, s),
           NEW c \in 1 .. N, NEW m2, NEW w, EditOf(m, m2, r, o, s, c, w)
    PROVE  \E p : Seen(m2, h, N, r, p, w) /\ \A i \in 1 .. c : p[i] = o[i]
<1>0. PICK t \in Seq(Ptrs), x \in Nat, z \in Nat :
         Relisted(m2, m, r[c], t) /\ Spliced(w, s, o[c], t, x, m[r[c]].list, z) /\ w \in Seq(Ptrs)
  BY DEF EditOf
<1> DEFINE l == ListsOf(m, N, r)
           l2 == ListsOf(m2, N, r)
           p == [i \in 1 .. N + 1 |-> IF i <= c THEN o[i] ELSE (o[i] - z) + x]
<1>1. RingOf(m, h, N, r) /\ Chop(l, N, o, s, Ptrs)
  BY DEF Seen
<1>2. N \in Nat /\ \A i \in 1 .. N : r[i] \in Blocks /\ (r[i] = r[c] <=> i = c)
  BY <1>1 DEF RingOf
<1>3. RingOf(m2, h, N, r)
  BY <1>0, <1>1, RingSame DEF Relisted
<1>4. l2 = [i \in 1 .. N |-> IF i = c THEN t ELSE l[i]] /\ l[c] = m[r[c]].list
  BY <1>0, <1>2 DEF Relisted, ListsOf
<1>5. Edited(l2, p, l, N, o, c, t, x, z) /\ Spliced(w, s, o[c], t, x, l[c], z)
  BY <1>0, <1>4 DEF Edited
<1>6. \A i \in 1 .. c : p[i] = o[i]
  BY <1>2
<1> HIDE DEF l, l2, p
<1>7. Chop(l2, N, p, w, Ptrs)
  BY <1>0, <1>1, <1>5, ChopEdit
<1> QED
  BY <1>3, <1>6, <1>7 DEF Seen, l2

\* Blocks m2 are m with block n after b, which keeps u and leaves v to it.
Plugged(m2, m, b, n, u, v) ==
    \A d \in Blocks :
        /\ m2[d].next = IF d = n THEN m[b].next ELSE IF d = b THEN n ELSE m[d].next
        /\ m2[d].used <=> d = n \/ m[d].used
        /\ m2[d].list = IF d = n THEN v ELSE IF d = b THEN u ELSE m[d].list

\* r2 is r with n after place c.
PluggedIn(r2, r, N, c, n) ==
    r2 = [i \in 1 .. N + 1 |-> IF i <= c THEN r[i] ELSE IF i = c + 1 THEN n ELSE r[i - 1]]

\* The ring then has n after b.
LEMMA RingPlugged ==
    ASSUME NEW m, NEW h, NEW N, NEW r, RingOf(m, h, N, r),
           NEW c \in 1 .. N, NEW n \in Blocks, ~m[n].used, NEW u, NEW v,
           NEW m2, Plugged(m2, m, r[c], n, u, v), NEW r2, PluggedIn(r2, r, N, c, n)
    PROVE  RingOf(m2, h, N + 1, r2)
<1>1. /\ N \in Nat /\ r \in [1 .. N -> Blocks] /\ (h = Null <=> N = 0)
      /\ \A i, j \in 1 .. N : r[i] = r[j] => i = j
      /\ N > 0 => r[1] = h /\ m[r[N]].next = h
      /\ \A i \in 1 .. N : i < N => m[r[i]].next = r[i + 1]
      /\ \A b \in Blocks : m[b].used <=> \E i \in 1 .. N : r[i] = b
  BY DEF RingOf
<1>2. c \in Nat /\ 1 <= c /\ c <= N /\ N > 0 /\ \A i \in 1 .. N : r[i] \in Blocks /\ r[i] # n
  BY <1>1
<1>3. \A d \in Blocks :
        /\ m2[d].next = IF d = n THEN m[r[c]].next ELSE IF d = r[c] THEN n ELSE m[d].next
        /\ m2[d].used <=> d = n \/ m[d].used
  BY DEF Plugged
<1>4. \A i \in 1 .. N + 1 : ~(i <= c) /\ i # c + 1 => i - 1 \in 1 .. N /\ ~(i - 1 <= c) /\ (i - 1) + 1 = i
  BY <1>1, <1>2
<1>5. \A i \in 1 .. N + 1 : r2[i] = IF i <= c THEN r[i] ELSE IF i = c + 1 THEN n ELSE r[i - 1]
  BY DEF PluggedIn
<1>6. r2 \in [1 .. N + 1 -> Blocks]
  BY <1>1, <1>2, <1>4 DEF PluggedIn
<1>7. ASSUME NEW i \in 1 .. N + 1, NEW j \in 1 .. N + 1, r2[i] = r2[j] PROVE i = j
  <2>1. \A k \in 1 .. N + 1 : k <= c => k \in 1 .. N
    BY <1>1, <1>2
  <2>2. i \in Nat /\ j \in Nat
    OBVIOUS
  <2>3. CASE i <= c /\ j <= c
    BY <1>1, <1>5, <1>7, <2>1, <2>3
  <2>4. CASE i <= c /\ ~(j <= c)
    <3>1. j = c + 1 => r2[j] = n
      BY <1>2, <1>5, <2>4
    <3>2. j # c + 1 => r2[j] = r[j - 1] /\ j - 1 \in 1 .. N /\ ~(j - 1 <= c)
      BY <1>4, <1>5, <2>4
    <3>3. i \in 1 .. N /\ r2[i] = r[i]
      BY <1>5, <2>1, <2>4
    <3> QED
      BY <1>1, <1>2, <1>7, <2>4, <3>1, <3>2, <3>3
  <2>5. CASE ~(i <= c) /\ j <= c
    <3>1. i = c + 1 => r2[i] = n
      BY <1>2, <1>5, <2>5
    <3>2. i # c + 1 => r2[i] = r[i - 1] /\ i - 1 \in 1 .. N /\ ~(i - 1 <= c)
      BY <1>4, <1>5, <2>5
    <3>3. j \in 1 .. N /\ r2[j] = r[j]
      BY <1>5, <2>1, <2>5
    <3> QED
      BY <1>1, <1>2, <1>7, <2>5, <3>1, <3>2, <3>3
  <2>6. CASE ~(i <= c) /\ ~(j <= c)
    <3>1. i = c + 1 => r2[i] = n
      BY <1>2, <1>5, <2>6
    <3>2. i # c + 1 => r2[i] = r[i - 1] /\ i - 1 \in 1 .. N
      BY <1>4, <1>5, <2>6
    <3>3. j = c + 1 => r2[j] = n
      BY <1>2, <1>5, <2>6
    <3>4. j # c + 1 => r2[j] = r[j - 1] /\ j - 1 \in 1 .. N
      BY <1>4, <1>5, <2>6
    <3>5. i # c + 1 /\ j # c + 1 => i - 1 = j - 1
      BY <1>1, <1>7, <3>2, <3>4
    <3> QED
      BY <1>2, <1>7, <2>2, <3>1, <3>2, <3>3, <3>4, <3>5
  <2> QED
    BY <2>3, <2>4, <2>5, <2>6
<1>8. N + 1 \in Nat /\ N + 1 > 0 /\ N + 1 # 0 /\ 1 \in 1 .. N + 1 /\ N + 1 \in 1 .. N + 1 /\ N \in 1 .. N
  BY <1>1, <1>2
<1>9. r2[1] = h
  BY <1>1, <1>2, <1>5, <1>8
<1>10. m2[r2[N + 1]].next = h
  <2>1. CASE c = N
    BY <1>1, <1>2, <1>3, <1>5, <1>8, <2>1
  <2>2. CASE c # N
    <3>1. r2[N + 1] = r[N] /\ r[N] # r[c] /\ r[N] # n /\ r[N] \in Blocks
      BY <1>1, <1>2, <1>5, <1>8, <2>2
    <3> QED
      BY <1>1, <1>2, <1>3, <3>1
  <2> QED
    BY <2>1, <2>2
<1>11. ASSUME NEW i \in 1 .. N + 1, i < N + 1 PROVE m2[r2[i]].next = r2[i + 1]
  <2>1. i \in 1 .. N /\ i + 1 \in 1 .. N + 1 /\ i \in Nat
    BY <1>1, <1>11
  <2>2. CASE i < c
    <3>0. i < N /\ i <= c /\ i + 1 <= c /\ i \in 1 .. N + 1
      BY <1>1, <1>2, <2>1, <2>2
    <3>1. r2[i] = r[i] /\ r2[i + 1] = r[i + 1] /\ i < N
      BY <1>5, <2>1, <3>0
    <3>2. r[i] # r[c]
      BY <1>1, <2>1, <2>2
    <3> QED
      BY <1>1, <1>2, <1>3, <2>1, <3>1, <3>2
  <2>3. CASE i = c
    <3>1. r2[i] = r[c] /\ r2[i + 1] = n
      BY <1>2, <1>5, <2>1, <2>3
    <3> QED
      BY <1>2, <1>3, <3>1
  <2>4. CASE i = c + 1
    <3>0. /\ c < N /\ (i + 1) - 1 = c + 1 /\ ~(i <= c) /\ ~(i + 1 <= c) /\ i + 1 # c + 1
          /\ i \in 1 .. N + 1
      BY <1>1, <1>2, <2>1, <2>4
    <3>1. r2[i] = n /\ r2[i + 1] = r[c + 1] /\ c < N
      <4>1. r2[i] = n
        BY <1>5, <2>4, <3>0
      <4>2. r2[i + 1] = r[(i + 1) - 1]
        BY <1>5, <2>1, <3>0
      <4> QED
        BY <3>0, <4>1, <4>2
    <3> QED
      BY <1>1, <1>3, <3>1
  <2>5. CASE i > c + 1
    <3>0. /\ i - 1 \in 1 .. N /\ i - 1 < N /\ (i + 1) - 1 = i /\ i \in 1 .. N + 1 /\ i # c + 1
          /\ (i - 1) + 1 = i /\ i - 1 # c /\ ~(i <= c) /\ ~(i + 1 <= c) /\ i + 1 # c + 1
      BY <1>1, <1>2, <2>1, <2>5
    <3>1. r2[i] = r[i - 1] /\ r2[i + 1] = r[i] /\ i - 1 \in 1 .. N /\ i - 1 < N /\ (i - 1) + 1 = i /\ i - 1 # c
      <4>1. r2[i] = r[i - 1]
        BY <1>5, <3>0
      <4>2. r2[i + 1] = r[(i + 1) - 1]
        BY <1>5, <2>1, <3>0
      <4> QED
        BY <3>0, <4>1, <4>2
    <3>2. r[i - 1] # r[c]
      BY <1>1, <3>1
    <3> QED
      BY <1>1, <1>2, <1>3, <3>1, <3>2
  <2> QED
    BY <1>2, <2>1, <2>2, <2>3, <2>4, <2>5
<1>12. ASSUME NEW b \in Blocks PROVE m2[b].used <=> \E i \in 1 .. N + 1 : r2[i] = b
  <2>1. ASSUME NEW i \in 1 .. N + 1, r2[i] = b PROVE m2[b].used
    <3>1. CASE i <= c
      BY <1>1, <1>2, <1>3, <1>5, <2>1, <3>1
    <3>2. CASE i = c + 1
      BY <1>2, <1>3, <1>5, <2>1, <3>2
    <3>3. CASE ~(i <= c) /\ i # c + 1
      BY <1>1, <1>3, <1>4, <1>5, <2>1, <3>3
    <3> QED
      BY <3>1, <3>2, <3>3
  <2>2. ASSUME m2[b].used PROVE \E i \in 1 .. N + 1 : r2[i] = b
    <3>1. CASE b = n
      <4>1. c + 1 \in 1 .. N + 1 /\ r2[c + 1] = n
        BY <1>1, <1>2, <1>5
      <4> QED
        BY <3>1, <4>1
    <3>2. CASE b # n
      <4>1. PICK k \in 1 .. N : r[k] = b
        BY <1>1, <1>3, <2>2, <3>2
      <4>2. CASE k <= c
        <5>1. k \in 1 .. N + 1 /\ r2[k] = r[k]
          BY <1>1, <1>5, <4>2
        <5> QED
          BY <4>1, <5>1
      <4>3. CASE ~(k <= c)
        <5>1. k + 1 \in 1 .. N + 1 /\ ~(k + 1 <= c) /\ k + 1 # c + 1 /\ (k + 1) - 1 = k
          BY <1>1, <1>2, <4>3
        <5>2. r2[k + 1] = r[k]
          BY <1>5, <5>1
        <5> QED
          BY <4>1, <5>1, <5>2
      <4> QED
        BY <4>2, <4>3
    <3> QED
      BY <3>1, <3>2
  <2> QED
    BY <2>1, <2>2
<1>13. h # Null
  BY <1>1, <1>2
<1> QED
  BY <1>6, <1>7, <1>8, <1>9, <1>10, <1>11, <1>12, <1>13 DEF RingOf

\* In m2 block c is cut after x elements, and n has the others.
CutOf(m, m2, r, c, n, x) ==
    /\ n \in Blocks /\ ~m[n].used /\ x \in Nat
    /\ \E u \in Seq(Ptrs), v \in Seq(Ptrs), z \in Nat :
          Parts(m[r[c]].list, u, v, x, z) /\ Plugged(m2, m, r[c], n, u, v)

\* A block cut in two, or one added after it, is no other sequence.
LEMMA CutSeen ==
    ASSUME NEW m, m \in [Blocks -> PtrBlock], NEW h, NEW N, NEW r, NEW o, NEW s, Seen(m, h, N, r, o, s),
           NEW c \in 1 .. N, NEW m2, NEW n, NEW x, CutOf(m, m2, r, c, n, x)
    PROVE  \E p, q : /\ Seen(m2, h, N + 1, q, p, s)
                     /\ \A i \in 1 .. c : q[i] = r[i] /\ p[i] = o[i]
                     /\ q[c + 1] = n /\ p[c + 1] = o[c] + x
<1>0. PICK u \in Seq(Ptrs), v \in Seq(Ptrs), z \in Nat :
         /\ n \in Blocks /\ ~m[n].used /\ x \in Nat
         /\ Parts(m[r[c]].list, u, v, x, z) /\ Plugged(m2, m, r[c], n, u, v)
  BY DEF CutOf
<1> DEFINE q == [i \in 1 .. N + 1 |-> IF i <= c THEN r[i] ELSE IF i = c + 1 THEN n ELSE r[i - 1]]
           l == ListsOf(m, N, r)
           l2 == ListsOf(m2, N + 1, q)
           p == [i \in 1 .. N + 2 |-> IF i <= c THEN o[i] ELSE IF i = c + 1 THEN o[c] + x ELSE o[i - 1]]
<1>1. RingOf(m, h, N, r) /\ Chop(l, N, o, s, Ptrs)
  BY DEF Seen
<1>2. /\ N \in Nat
      /\ c \in Nat
      /\ 1 <= c
      /\ c <= N
      /\ \A i \in 1 .. N : r[i] \in Blocks /\ r[i] # n /\ (r[i] = r[c] <=> i = c)
  BY <1>0, <1>1 DEF RingOf
<1>3. RingOf(m2, h, N + 1, q)
  <2>1. PluggedIn(q, r, N, c, n)
    BY DEF PluggedIn
  <2> HIDE DEF q
  <2> QED
    BY <1>0, <1>1, <2>1, RingPlugged
<1>4. l[c] = m[r[c]].list
  BY DEF ListsOf
<1>5. l2 = [i \in 1 .. N + 1 |-> IF i = c THEN u ELSE IF i = c + 1 THEN v
                                 ELSE IF i <= c THEN l[i] ELSE l[i - 1]]
  <2> SUFFICES ASSUME NEW i \in 1 .. N + 1
               PROVE  m2[q[i]].list = IF i = c THEN u ELSE IF i = c + 1 THEN v
                                      ELSE IF i <= c THEN l[i] ELSE l[i - 1]
    BY DEF ListsOf
  <2>1. \A d \in Blocks : m2[d].list = IF d = n THEN v ELSE IF d = r[c] THEN u ELSE m[d].list
    BY <1>0 DEF Plugged
  <2>2. \A j \in 1 .. N : l[j] = m[r[j]].list
    BY DEF ListsOf
  <2>3. CASE i <= c
    <3>1. i \in 1 .. N /\ i # c + 1 /\ q[i] = r[i]
      BY <1>2, <2>3
    <3> HIDE DEF q, l
    <3> QED
      BY <1>2, <2>1, <2>2, <2>3, <3>1
  <2>4. CASE i = c + 1
    <3>1. q[i] = n /\ i # c
      BY <1>2, <2>4
    <3> HIDE DEF q, l
    <3> QED
      BY <1>0, <2>1, <2>4, <3>1
  <2>5. CASE ~(i <= c) /\ i # c + 1
    <3>1. i - 1 \in 1 .. N /\ i - 1 # c /\ i # c
      BY <1>2, <2>5
    <3>2. q[i] = r[i - 1]
      BY <2>5
    <3> HIDE DEF q, l
    <3> QED
      BY <1>2, <2>1, <2>2, <2>5, <3>1, <3>2
  <2> QED
    BY <2>3, <2>4, <2>5
<1>6. IsCut(l2, p, l, N, o, c, u, v, x) /\ Parts(l[c], u, v, x, z)
  BY <1>0, <1>4, <1>5 DEF IsCut
<1>7. \A i \in 1 .. c : q[i] = r[i] /\ p[i] = o[i]
  BY <1>2
<1>8. q[c + 1] = n /\ p[c + 1] = o[c] + x
  BY <1>2
<1> HIDE DEF l, l2, p, q
<1>9. Chop(l2, N + 1, p, s, Ptrs)
  BY <1>0, <1>1, <1>6, ChopCut
<1>10. Seen(m2, h, N + 1, q, p, s)
  BY <1>3, <1>9 DEF Seen, l2
<1> QED
  BY <1>7, <1>8, <1>10

\* Blocks m2 are m without b.
Unplugged(m2, m, b) ==
    /\ ~m2[b].used
    /\ \A d \in Blocks : d # b =>
          /\ m[d].used => m2[d].next = IF m[d].next = b THEN m[b].next ELSE m[d].next
          /\ m2[d].used = m[d].used /\ m2[d].list = m[d].list

\* r2 is r, of which M remain, without place c.
PulledOut(r2, r, N, M, c) ==
    /\ M \in Nat /\ M > 0 /\ N = M + 1
    /\ r2 = [i \in 1 .. M |-> IF i < c THEN r[i] ELSE r[i + 1]]

\* h2 is the head after that.
NewHead(h2, h, m, b) == h2 = IF h = b THEN m[b].next ELSE h

\* The ring then is without b, and starts with the block after it if it started
\* with b.
LEMMA RingUnplugged ==
    ASSUME NEW m, NEW h, NEW N, NEW r, RingOf(m, h, N, r), NEW c \in 1 .. N,
           NEW m2, Unplugged(m2, m, r[c]), NEW h2, NewHead(h2, h, m, r[c]),
           NEW M, NEW r2, PulledOut(r2, r, N, M, c)
    PROVE  RingOf(m2, h2, M, r2)
<1>1. /\ N \in Nat /\ r \in [1 .. N -> Blocks] /\ (h = Null <=> N = 0)
      /\ \A i, j \in 1 .. N : r[i] = r[j] => i = j
      /\ N > 0 => r[1] = h /\ m[r[N]].next = h
      /\ \A i \in 1 .. N : i < N => m[r[i]].next = r[i + 1]
      /\ \A b \in Blocks : m[b].used <=> \E i \in 1 .. N : r[i] = b
  BY DEF RingOf
<1>2. /\ c \in Nat /\ 1 <= c /\ c <= N /\ N > 0 /\ 1 < N /\ 1 \in 1 .. N /\ N \in 1 .. N /\ M \in 1 .. N
      /\ M \in Nat /\ M > 0 /\ N = M + 1
  BY DEF PulledOut
<1>3. \A i \in 1 .. N : r[i] \in Blocks /\ m[r[i]].used /\ (r[i] = r[c] <=> i = c)
  BY <1>1
<1>4. \A i \in 1 .. N : i # c => m2[r[i]].next = IF m[r[i]].next = r[c] THEN m[r[c]].next ELSE m[r[i]].next
  BY <1>3 DEF Unplugged
<1>5. \A i \in 1 .. M : /\ i < c => i \in 1 .. N
                        /\ i + 1 \in 1 .. N /\ i \in 1 .. N
                        /\ r2[i] = IF i < c THEN r[i] ELSE r[i + 1]
  BY <1>2 DEF PulledOut
<1>6. r2 \in [1 .. M -> Blocks]
  BY <1>3, <1>5 DEF PulledOut
<1>0. h2 = IF c = 1 THEN m[r[c]].next ELSE h
  BY <1>1, <1>2, <1>3 DEF NewHead
<1>7. ASSUME NEW i \in 1 .. M, NEW j \in 1 .. M, r2[i] = r2[j] PROVE i = j
  <2>1. i \in Nat /\ j \in Nat
    OBVIOUS
  <2>2. CASE i < c /\ j < c
    BY <1>1, <1>5, <1>7, <2>2
  <2>3. CASE i < c /\ ~(j < c)
    <3>1. i = j + 1
      BY <1>1, <1>5, <1>7, <2>3
    <3> QED
      BY <1>2, <2>1, <2>3, <3>1
  <2>4. CASE ~(i < c) /\ j < c
    <3>1. i + 1 = j
      BY <1>1, <1>5, <1>7, <2>4
    <3> QED
      BY <1>2, <2>1, <2>4, <3>1
  <2>5. CASE ~(i < c) /\ ~(j < c)
    <3>1. i + 1 = j + 1
      BY <1>1, <1>5, <1>7, <2>5
    <3> QED
      BY <2>1, <3>1
  <2> QED
    BY <2>2, <2>3, <2>4, <2>5
<1>8. 1 \in 1 .. M /\ M \in 1 .. M /\ M # 0 /\ 1 + 1 = 2 /\ 2 \in 1 .. N /\ M < N
  BY <1>2
<1>9. h2 # Null /\ r2[1] = h2
  <2>1. CASE c = 1
    <3>1. m[r[1]].next = r[2]
      BY <1>1, <1>2, <1>8
    <3>2. r2[1] = r[2]
      BY <1>5, <1>8, <2>1
    <3>3. r[2] # Null
      BY <1>3, <1>8, PtrListAssumption DEF Blocks, Null
    <3> QED
      BY <1>0, <2>1, <3>1, <3>2, <3>3
  <2>2. CASE c # 1
    BY <1>0, <1>1, <1>2, <1>5, <1>8, <2>2
  <2> QED
    BY <2>1, <2>2
<1>10. m2[r2[M]].next = h2
  <2>1. CASE c = N
    <3>1. r2[M] = r[M] /\ M # c
      BY <1>2, <1>5, <1>8, <2>1
    <3>2. m[r[M]].next = r[c] /\ m[r[c]].next = h
      BY <1>1, <1>2, <1>8, <2>1
    <3>3. c # 1
      BY <1>2, <2>1
    <3> QED
      BY <1>0, <1>2, <1>4, <3>1, <3>2, <3>3
  <2>2. CASE c # N
    <3>1. r2[M] = r[N]
      BY <1>2, <1>5, <1>8, <2>2
    <3>2. m2[r[N]].next = IF h = r[c] THEN m[r[c]].next ELSE h
      BY <1>1, <1>2, <1>4, <2>2
    <3>3. h = r[c] <=> c = 1
      BY <1>1, <1>2, <1>3
    <3> QED
      BY <1>0, <3>1, <3>2, <3>3
  <2> QED
    BY <2>1, <2>2
<1>11. ASSUME NEW i \in 1 .. M, i < M PROVE m2[r2[i]].next = r2[i + 1]
  <2>1. /\ i \in Nat
        /\ i + 1 \in 1 .. M
        /\ i < N
        /\ i + 1 < N
        /\ i \in 1 .. N
        /\ i + 1 \in 1 .. N
        /\ (i + 1) + 1 \in 1 .. N
    BY <1>2, <1>11
  <2>2. m[r[i]].next = r[i + 1] /\ m[r[i + 1]].next = r[(i + 1) + 1]
    BY <1>1, <2>1
  <2>3. CASE i + 1 < c
    <3>1. r2[i] = r[i] /\ r2[i + 1] = r[i + 1] /\ i # c /\ i + 1 # c
      BY <1>2, <1>5, <2>1, <2>3
    <3> QED
      BY <1>3, <1>4, <2>1, <2>2, <3>1
  <2>4. CASE i + 1 = c
    <3>1. r2[i] = r[i] /\ r2[i + 1] = r[(i + 1) + 1] /\ i # c
      BY <1>2, <1>5, <2>1, <2>4
    <3> QED
      BY <1>4, <2>1, <2>2, <2>4, <3>1
  <2>5. CASE ~(i + 1 <= c)
    <3>1. r2[i] = r[i + 1] /\ r2[i + 1] = r[(i + 1) + 1] /\ i + 1 # c /\ (i + 1) + 1 # c
      BY <1>2, <1>5, <2>1, <2>5
    <3> QED
      BY <1>3, <1>4, <2>1, <2>2, <3>1
  <2> QED
    BY <1>2, <2>1, <2>3, <2>4, <2>5
<1>12. ASSUME NEW b \in Blocks PROVE m2[b].used <=> \E i \in 1 .. M : r2[i] = b
  <2>1. ASSUME NEW i \in 1 .. M, r2[i] = b PROVE m2[b].used
    <3>1. CASE i < c
      <4>1. i \in 1 .. N /\ i # c /\ b = r[i]
        BY <1>2, <1>5, <2>1, <3>1
      <4> QED
        BY <1>3, <4>1 DEF Unplugged
    <3>2. CASE ~(i < c)
      <4>1. i + 1 \in 1 .. N /\ i + 1 # c /\ b = r[i + 1]
        BY <1>2, <1>5, <2>1, <3>2
      <4> QED
        BY <1>3, <4>1 DEF Unplugged
    <3> QED
      BY <3>1, <3>2
  <2>2. ASSUME m2[b].used PROVE \E i \in 1 .. M : r2[i] = b
    <3>1. b # r[c] /\ m[b].used
      BY <2>2 DEF Unplugged
    <3>2. PICK k \in 1 .. N : r[k] = b
      BY <1>1, <3>1
    <3>3. k # c /\ k \in Nat
      BY <3>1, <3>2
    <3>4. CASE k < c
      <4>1. k \in 1 .. M
        BY <1>2, <3>3, <3>4
      <4> QED
        BY <1>5, <3>2, <3>4, <4>1
    <3>5. CASE ~(k < c)
      <4>1. k - 1 \in 1 .. M /\ ~(k - 1 < c) /\ (k - 1) + 1 = k
        BY <1>2, <3>3, <3>5
      <4>2. r2[k - 1] = r[k]
        BY <1>5, <4>1
      <4> QED
        BY <3>2, <4>1, <4>2
    <3> QED
      BY <3>4, <3>5
  <2> QED
    BY <2>1, <2>2
<1> QED
  BY <1>2, <1>6, <1>7, <1>8, <1>9, <1>10, <1>11, <1>12 DEF RingOf

\* Block c, which is empty, is not in m2, and h2 is the head then.
DropOf(m, m2, h, h2, r, c) ==
    m[r[c]].list = <<>> /\ Unplugged(m2, m, r[c]) /\ NewHead(h2, h, m, r[c])

\* An empty block less is no other sequence.
LEMMA DropSeen ==
    ASSUME NEW m, m \in [Blocks -> PtrBlock], NEW h, NEW N, NEW r, NEW o, NEW s, Seen(m, h, N, r, o, s),
           NEW c \in 1 .. N, N # 1, NEW m2, NEW h2, DropOf(m, m2, h, h2, r, c)
    PROVE  \E M, q, p : Seen(m2, h2, M, q, p, s)
<1>0. m[r[c]].list = <<>> /\ Unplugged(m2, m, r[c]) /\ NewHead(h2, h, m, r[c])
  BY DEF DropOf
<1>1. RingOf(m, h, N, r) /\ Chop(ListsOf(m, N, r), N, o, s, Ptrs)
  BY DEF Seen
<1>2. N \in Nat /\ \A i \in 1 .. N : r[i] \in Blocks /\ (r[i] = r[c] <=> i = c)
  BY <1>1 DEF RingOf
<1>3. PICK M \in Nat : M > 0 /\ N = M + 1
  <2>1. N - 1 \in Nat /\ N - 1 > 0 /\ N = (N - 1) + 1
    BY <1>2
  <2> QED
    BY <2>1
<1> DEFINE l == ListsOf(m, N, r)
           q == [i \in 1 .. M |-> IF i < c THEN r[i] ELSE r[i + 1]]
           l2 == ListsOf(m2, M, q)
           p == [i \in 1 .. M + 1 |-> IF i < c THEN o[i] ELSE o[i + 1]]
<1>4. RingOf(m2, h2, M, q)
  <2>1. PulledOut(q, r, N, M, c)
    BY <1>3 DEF PulledOut
  <2> HIDE DEF q
  <2> QED
    BY <1>0, <1>1, <2>1, RingUnplugged
<1>5. l[c] = <<>> /\ \A j \in 1 .. N : l[j] = m[r[j]].list
  BY <1>0 DEF ListsOf
<1>6. l2 = [i \in 1 .. M |-> IF i < c THEN l[i] ELSE l[i + 1]]
  <2> SUFFICES ASSUME NEW i \in 1 .. M
               PROVE  m2[q[i]].list = IF i < c THEN l[i] ELSE l[i + 1]
    BY DEF ListsOf
  <2>1. i \in 1 .. N /\ i + 1 \in 1 .. N /\ i \in Nat /\ c \in Nat
    BY <1>3
  <2>2. \A j \in 1 .. N : j # c => m2[r[j]].list = l[j]
    BY <1>0, <1>2, <1>5 DEF Unplugged
  <2>3. CASE i < c
    <3>1. q[i] = r[i] /\ i # c
      BY <2>1, <2>3
    <3> HIDE DEF q, l
    <3> QED
      BY <2>1, <2>2, <2>3, <3>1
  <2>4. CASE ~(i < c)
    <3>1. q[i] = r[i + 1] /\ i + 1 # c
      BY <2>1, <2>4
    <3> HIDE DEF q, l
    <3> QED
      BY <2>1, <2>2, <2>4, <3>1
  <2> QED
    BY <2>3, <2>4
<1>7. IsDrop(l2, p, l, N, M, o, c)
  BY <1>3, <1>5, <1>6 DEF IsDrop
<1> HIDE DEF l, l2, p, q
<1>8. Chop(l, N, o, s, Ptrs)
  BY <1>1 DEF l
<1>9. Chop(l2, M, p, s, Ptrs)
  BY <1>3, <1>7, <1>8, ChopDrop
<1>10. Seen(m2, h2, M, q, p, s)
  BY <1>4, <1>9 DEF Seen, l2
<1> QED
  BY <1>10

\* No blocks are no elements, and the only ring without a head.
LEMMA NoneSeen ==
    ASSUME NEW m, \A b \in Blocks : ~m[b].used
    PROVE  \E r, o : Seen(m, Null, 0, r, o, <<>>)
<1> DEFINE r == [i \in 1 .. 0 |-> Null]
           o == [i \in 1 .. 0 + 1 |-> 0]
<1>1. 1 .. 0 = {} /\ 0 + 1 = 1 /\ 1 \in 1 .. 1 /\ 1 .. 1 = {1}
  OBVIOUS
<1>2. RingOf(m, Null, 0, r)
  BY <1>1 DEF RingOf
<1>3. o \in [1 .. 0 + 1 -> Nat] /\ o[1] = 0 /\ o[0 + 1] = 0
  BY <1>1
<1>4. ListsOf(m, 0, r) \in [1 .. 0 -> Seq(Ptrs)]
  BY <1>1 DEF ListsOf
<1> HIDE DEF r, o
<1>5. Chop(ListsOf(m, 0, r), 0, o, <<>>, Ptrs)
  BY <1>1, <1>3, <1>4 DEF Chop
<1> QED
  BY <1>2, <1>5 DEF Seen

\* One block is its elements.
LEMMA OneSeen ==
    ASSUME NEW m, NEW h \in Blocks, m[h].next = h, \A b \in Blocks : m[b].used <=> b = h,
           m[h].list \in Seq(Ptrs)
    PROVE  \E r, o : Seen(m, h, 1, r, o, m[h].list)
<1> DEFINE r == [i \in 1 .. 1 |-> h]
           o == [i \in 1 .. 1 + 1 |-> IF i = 1 THEN 0 ELSE Len(m[h].list)]
           l == ListsOf(m, 1, r)
<1>1. 1 .. 1 = {1} /\ 1 \in 1 .. 1 /\ 1 \in 1 .. 1 + 1 /\ 1 + 1 \in 1 .. 1 + 1 /\ 1 + 1 # 1
  OBVIOUS
<1>2. h # Null /\ r[1] = h /\ r \in [1 .. 1 -> Blocks]
  BY <1>1, PtrListAssumption DEF Blocks, Null
<1>3. Len(m[h].list) \in Nat /\ \A k \in 1 .. Len(m[h].list) : 0 + k = k
  OBVIOUS
<1>4. o \in [1 .. 1 + 1 -> Nat] /\ o[1] = 0 /\ o[1 + 1] = Len(m[h].list)
  BY <1>1, <1>3
<1>5. l \in [1 .. 1 -> Seq(Ptrs)] /\ l[1] = m[h].list
  BY <1>1, <1>2 DEF ListsOf
<1> HIDE DEF r, o, l
<1>6. RingOf(m, h, 1, r)
  <2>1. \A i, j \in 1 .. 1 : r[i] = r[j] => i = j
    BY <1>1
  <2>2. \A i \in 1 .. 1 : ~(i < 1)
    OBVIOUS
  <2>3. \A b \in Blocks : m[b].used <=> \E i \in 1 .. 1 : r[i] = b
    BY <1>1, <1>2
  <2> QED
    BY <1>2, <2>1, <2>2, <2>3 DEF RingOf
<1>7. Chop(l, 1, o, m[h].list, Ptrs)
  <2>1. \A i \in 1 .. 1 : o[i + 1] = o[i] + Len(l[i]) /\ \A k \in 1 .. Len(l[i]) : m[h].list[o[i] + k] = l[i][k]
    <3> TAKE i \in 1 .. 1
    <3>1. i = 1
      BY <1>1
    <3> QED
      BY <1>3, <1>4, <1>5, <3>1
  <2> QED
    BY <1>3, <1>4, <1>5, <2>1 DEF Chop
<1> QED
  BY <1>6, <1>7 DEF Seen, l

\* A loop starts where the list still does, found nothing yet where its body does
\* not run, and its cursor is no further than the elements of its block.
LoopOk ==
    /\ walk.dir # "none" => walk.head = head /\ (~walk.in => out = NoPtr)
    /\ walk.dir = "forward" => walk.nr <= Len(mem[walk.list].list)
    /\ walk.dir = "backward" => walk.nr >= 1

\* The place of the list and of the loop over it in the abstract one.
Showing(s, a) == Shows(mem, head, walk, s, a)

\* What ImplementsPtrSeq maps the blocks to.
LEMMA Maps ==
    ASSUME TypeOK, NEW s, NEW a, Showing(s, a)
    PROVE  Until(Null) = s /\ (IF walk.dir = "none" THEN 0 ELSE Len(Until(walk.list)) + walk.nr) = a
<1>1. mem \in [Blocks -> PtrBlock]
  BY DEF TypeOK
<1>2. /\ UntilOf(mem, head, Null) = s
      /\ (IF walk.dir = "none" THEN 0 ELSE Len(UntilOf(mem, head, walk.list)) + walk.nr) = a
  BY <1>1, ShowsIs DEF Showing
<1> QED
  BY <1>2, UntilBoth

\* And after a step.
LEMMA MapsAfter ==
    ASSUME TypeOK', NEW s, NEW a, Shows(mem', head', walk', s, a)
    PROVE  /\ Until(Null)' = s
           /\ (IF walk.dir = "none" THEN 0 ELSE Len(Until(walk.list)) + walk.nr)' = a
<1>1. mem' \in [Blocks -> PtrBlock]
  BY DEF TypeOK
<1>2. /\ UntilOf(mem', head', Null) = s
      /\ (IF walk'.dir = "none" THEN 0 ELSE Len(UntilOf(mem', head', walk'.list)) + walk'.nr) = a
  BY <1>1, ShowsIs
<1> QED
  BY <1>2, UntilAfter

\* The block before the head is the last of the ring.
LEMMA LastOfRing ==
    ASSUME TypeOK, LinksAgree, NEW N, NEW r, RingOf(mem, head, N, r), head # Null
    PROVE  N \in Nat /\ N \in 1 .. N /\ 1 \in 1 .. N /\ mem[head].prev = r[N] /\ r[1] = head
<1>1. N \in Nat /\ r \in [1 .. N -> Blocks] /\ N # 0 /\ N > 0 /\ N \in 1 .. N /\ 1 \in 1 .. N
  BY DEF RingOf
<1>2. r[1] = head /\ mem[r[N]].next = head /\ r[N] \in Blocks /\ mem[r[N]].used
  BY <1>1 DEF RingOf
<1>3. mem[mem[r[N]].next].prev = r[N]
  BY <1>2 DEF LinksAgree
<1> QED
  BY <1>1, <1>2, <1>3

\* The lists of the blocks.
LEMMA SeenIs ==
    ASSUME TypeOK, NEW N, NEW r, NEW o, NEW s, Seen(mem, head, N, r, o, s)
    PROVE  /\ N \in Nat /\ s \in Seq(Ptrs) /\ Len(s) \in Nat /\ RingOf(mem, head, N, r)
           /\ Chop(ListsOf(mem, N, r), N, o, s, Ptrs)
           /\ \A i \in 1 .. N : /\ r[i] \in Blocks /\ mem[r[i]].used /\ ListsOf(mem, N, r)[i] = mem[r[i]].list
                                /\ mem[r[i]].list \in Seq(Ptrs) /\ o[i] \in Nat
                                /\ Len(mem[r[i]].list) \in Nat
                                /\ o[i + 1] = o[i] + Len(mem[r[i]].list)
                                /\ Within(mem[r[i]].list, s, o[i], Len(mem[r[i]].list))
           /\ o[N + 1] = Len(s) /\ o[1] = 0
<1> DEFINE l == ListsOf(mem, N, r)
<1>1. RingOf(mem, head, N, r) /\ Chop(l, N, o, s, Ptrs)
  BY DEF Seen
<1>2. N \in Nat /\ s \in Seq(Ptrs) /\ Len(s) = o[N + 1] /\ o[1] = 0
  <2> HIDE DEF l
  <2> QED
    BY <1>1, ChopFacts
<1>3. ASSUME NEW i \in 1 .. N
      PROVE  /\ r[i] \in Blocks /\ mem[r[i]].used /\ l[i] = mem[r[i]].list
             /\ l[i] \in Seq(Ptrs) /\ o[i] \in Nat /\ Len(l[i]) \in Nat
             /\ o[i + 1] = o[i] + Len(l[i]) /\ Within(l[i], s, o[i], Len(l[i]))
  <2>1. r[i] \in Blocks /\ mem[r[i]].used
    BY <1>1 DEF RingOf
  <2>2. l[i] = mem[r[i]].list
    BY DEF ListsOf
  <2> HIDE DEF l
  <2>3. /\ l[i] \in Seq(Ptrs) /\ o[i] \in Nat /\ Len(l[i]) \in Nat
        /\ o[i + 1] = o[i] + Len(l[i]) /\ Within(l[i], s, o[i], Len(l[i]))
    BY <1>1, ChopWithin
  <2> QED
    BY <2>1, <2>2, <2>3
<1>4. Len(s) \in Nat
  BY <1>2
<1> HIDE DEF l
<1> QED
  BY <1>1, <1>2, <1>3, <1>4 DEF l

\* Without a head there is nothing.
LEMMA NothingSeen ==
    ASSUME NEW m, NEW N, NEW r, NEW o, NEW s, Seen(m, Null, N, r, o, s)
    PROVE  N = 0 /\ s = <<>>
<1>1. N = 0 /\ Chop(ListsOf(m, N, r), N, o, s, Ptrs)
  BY DEF Seen, RingOf
<1>2. s \in Seq(Ptrs) /\ Len(s) = o[N + 1] /\ o[1] = 0
  BY <1>1, ChopFacts
<1> QED
  BY <1>1, <1>2

\* The loop stays where it is if the blocks up to its own do.
LEMMA StaysPlaced ==
    ASSUME NEW w, NEW N \in Nat, NEW r, NEW o, NEW a, Placed(w, N, r, o, a), NEW M \in Nat, N <= M,
           NEW q, NEW p, \A i \in 1 .. N : q[i] = r[i] /\ p[i] = o[i]
    PROVE  Placed(w, M, q, p, a)
<1>1. \A c \in 1 .. N : c \in 1 .. M
  OBVIOUS
<1> QED
  BY <1>1 DEF Placed

\* A list at the end of a sequence with an element more,
LEMMA AppendSplices ==
    ASSUME NEW K, NEW y \in Seq(K), NEW s \in Seq(K), NEW e \in K, NEW a \in Nat, NEW z \in Nat,
           Within(y, s, a, z), Len(s) = a + z
    PROVE  /\ Append(s, e) \in Seq(K) /\ Append(y, e) \in Seq(K) /\ z + 1 \in Nat
           /\ Spliced(Append(s, e), s, a, Append(y, e), z + 1, y, z)
<1> DEFINE w == Append(s, e)
           t == Append(y, e)
<1>1. Len(y) = z
  BY DEF Within
<1>2. PICK n \in Nat, n1 \in Nat, i \in Nat, z1 \in Nat, k \in Nat :
         k \in 1 .. z1 /\ n = Len(s) /\ n1 = Len(s) + 1 /\ i = Len(s) + 1 /\ z1 = z + 1 /\ k = z + 1 /\ i = a + k
  <2>1. z + 1 \in 1 .. z + 1 /\ Len(s) + 1 = a + (z + 1) /\ Len(s) \in Nat
    OBVIOUS
  <2> QED
    BY <2>1
<1>3. w \in Seq(K) /\ t \in Seq(K) /\ HasMore(w, s, i, e, n, n1) /\ HasMore(t, y, k, e, z, z1)
  <2>1. HasMore(Append(s, e), s, Len(s) + 1, e, Len(s), Len(s) + 1)
    BY EndsAre
  <2>2. HasMore(Append(y, e), y, Len(y) + 1, e, Len(y), Len(y) + 1)
    BY EndsAre
  <2>3. w \in Seq(K) /\ t \in Seq(K)
    OBVIOUS
  <2> QED
    BY <1>1, <1>2, <2>1, <2>2, <2>3
<1> HIDE DEF w, t
<1>4. Spliced(w, s, a, t, z1, y, z)
  BY <1>2, <1>3, MoreSplices
<1> QED
  BY <1>2, <1>3, <1>4 DEF w, t

\* or one less,
LEMMA FrontSplices ==
    ASSUME NEW K, NEW y \in Seq(K), NEW s \in Seq(K), NEW a \in Nat, NEW z \in Nat,
           Within(y, s, a, z), Len(s) = a + z, y # <<>>
    PROVE  /\ Front(s) \in Seq(K) /\ Front(y) \in Seq(K) /\ z - 1 \in Nat /\ s # <<>> /\ Last(s) = Last(y)
           /\ Spliced(Front(s), s, a, Front(y), z - 1, y, z)
<1> DEFINE w == Front(s)
           t == Front(y)
<1>1. Len(y) = z /\ z > 0 /\ Len(s) > 0 /\ s # <<>> /\ \A k \in 1 .. z : s[a + k] = y[k]
  BY DEF Within
<1>2. PICK n \in Nat, n1 \in Nat, i \in Nat, z1 \in Nat, k \in 1 .. z :
         n = Len(s) - 1 /\ n1 = Len(s) /\ i = Len(s) /\ z1 = z - 1 /\ k = z /\ i = a + k
  <2>1. z \in 1 .. z /\ z - 1 \in Nat /\ Len(s) = a + z /\ Len(s) \in Nat /\ Len(s) - 1 \in Nat
    BY <1>1
  <2> QED
    BY <2>1
<1>3. w \in Seq(K) /\ t \in Seq(K) /\ HasLess(w, s, i, n, n1) /\ HasLess(t, y, k, z1, z)
  <2>0. \E e : e \in K
    <3>1. 1 \in 1 .. z
      BY <1>1
    <3>2. y[1] \in K
      BY <1>1, <3>1
    <3> QED
      BY <3>2
  <2>1. Front(s) \in Seq(K) /\ HasLess(Front(s), s, Len(s), Len(s) - 1, Len(s))
    BY <1>1, <2>0, EndsAre
  <2>2. Front(y) \in Seq(K) /\ HasLess(Front(y), y, Len(y), Len(y) - 1, Len(y))
    BY <2>0, EndsAre
  <2> QED
    BY <1>1, <1>2, <2>1, <2>2
<1>4. Last(s) = Last(y)
  <2>1. z \in 1 .. z /\ s[a + z] = y[z]
    BY <1>1
  <2> QED
    BY <1>1, <2>1 DEF Last
<1> HIDE DEF w, t
<1>5. Spliced(w, s, a, t, z1, y, z)
  BY <1>2, <1>3, LessSplices
<1> QED
  BY <1>1, <1>2, <1>3, <1>4, <1>5 DEF w, t

\* a list anywhere in it with an element inserted at k
LEMMA InsertSplices ==
    ASSUME NEW K, NEW y \in Seq(K), NEW s \in Seq(K), NEW e \in K, NEW a \in Nat, NEW z \in Nat,
           Within(y, s, a, z), NEW k \in 1 .. z + 1
    PROVE  /\ InsertAt(s, a + k, e) \in Seq(K) /\ InsertAt(y, k, e) \in Seq(K) /\ z + 1 \in Nat
           /\ Spliced(InsertAt(s, a + k, e), s, a, InsertAt(y, k, e), z + 1, y, z)
<1> DEFINE w == InsertAt(s, a + k, e)
           t == InsertAt(y, k, e)
<1>1. Len(y) = z /\ a + z <= Len(s) /\ Len(s) \in Nat
  BY DEF Within
<1>2. PICK n \in Nat, n1 \in Nat, i \in Nat, z1 \in Nat :
         n = Len(s) /\ n1 = Len(s) + 1 /\ i = a + k /\ z1 = z + 1 /\ k \in 1 .. z1 /\ i \in 1 .. Len(s) + 1
  <2>1. a + k \in 1 .. Len(s) + 1 /\ a + k \in Nat
    BY <1>1
  <2> QED
    BY <1>1, <2>1
<1>3. w \in Seq(K) /\ t \in Seq(K) /\ HasMore(w, s, i, e, n, n1) /\ HasMore(t, y, k, e, z, z1)
  <2>1. InsertAt(s, i, e) \in Seq(K) /\ HasMore(InsertAt(s, i, e), s, i, e, Len(s), Len(s) + 1)
    BY <1>2, InsertIs
  <2>2. InsertAt(y, k, e) \in Seq(K) /\ HasMore(InsertAt(y, k, e), y, k, e, Len(y), Len(y) + 1)
    <3>1. k \in 1 .. Len(y) + 1
      BY <1>1
    <3> QED
      BY <3>1, InsertIs
  <2> QED
    BY <1>1, <1>2, <2>1, <2>2
<1> HIDE DEF w, t
<1>4. Spliced(w, s, a, t, z1, y, z)
  BY <1>2, <1>3, MoreSplices
<1> QED
  BY <1>2, <1>3, <1>4 DEF w, t

\* or without place k.
LEMMA RemoveSplices ==
    ASSUME NEW K, NEW y \in Seq(K), NEW s \in Seq(K), NEW a \in Nat, NEW z \in Nat,
           Within(y, s, a, z), NEW k \in 1 .. z
    PROVE  /\ RemoveAt(s, a + k) \in Seq(K) /\ RemoveAt(y, k) \in Seq(K) /\ z - 1 \in Nat
           /\ Spliced(RemoveAt(s, a + k), s, a, RemoveAt(y, k), z - 1, y, z)
<1> DEFINE w == RemoveAt(s, a + k)
           t == RemoveAt(y, k)
<1>1. Len(y) = z /\ a + z <= Len(s) /\ Len(s) \in Nat
  BY DEF Within
<1>2. PICK n \in Nat, n1 \in Nat, i \in Nat, z1 \in Nat :
         n = Len(s) - 1 /\ n1 = Len(s) /\ i = a + k /\ z1 = z - 1 /\ i \in 1 .. Len(s)
  <2>1. a + k \in 1 .. Len(s) /\ a + k \in Nat /\ Len(s) - 1 \in Nat /\ z - 1 \in Nat
    BY <1>1
  <2> QED
    BY <1>1, <2>1
<1>3. w \in Seq(K) /\ t \in Seq(K) /\ HasLess(w, s, i, n, n1) /\ HasLess(t, y, k, z1, z)
  <2>1. RemoveAt(s, i) \in Seq(K) /\ HasLess(RemoveAt(s, i), s, i, Len(s) - 1, Len(s))
    BY <1>2, RemoveIs
  <2>2. RemoveAt(y, k) \in Seq(K) /\ HasLess(RemoveAt(y, k), y, k, Len(y) - 1, Len(y))
    <3>1. k \in 1 .. Len(y)
      BY <1>1
    <3> QED
      BY <3>1, RemoveIs
  <2> QED
    BY <1>1, <1>2, <2>1, <2>2
<1> HIDE DEF w, t
<1>4. Spliced(w, s, a, t, z1, y, z)
  BY <1>2, <1>3, LessSplices
<1> QED
  BY <1>2, <1>3, <1>4 DEF w, t

\* That is what changing a list does.
LEMMA RelistedIs ==
    ASSUME NEW m \in [Blocks -> PtrBlock], NEW b \in Blocks, NEW t \in Seq(Ptrs)
    PROVE  /\ WithList(m, b, t) \in [Blocks -> PtrBlock]
           /\ Relisted(WithList(m, b, t), m, b, t)
  BY OneList DEF Relisted

\* And this is what plugging in a block does.
LEMMA PluggedIs ==
    ASSUME TypeOK, LinksAgree, NEW b \in Blocks, mem[b].used, NEW n \in Blocks, ~mem[n].used,
           NEW v \in Seq(Ptrs)
    PROVE  /\ link(b, n, v) \in [Blocks -> PtrBlock]
           /\ Plugged(link(b, n, v), mem, b, n, mem[b].list, v)
<1>1. /\ link(b, n, v) \in [Blocks -> PtrBlock]
      /\ \A c \in Blocks : /\ link(b, n, v)[c].list = IF c = n THEN v ELSE mem[c].list
                           /\ link(b, n, v)[c].used <=> (c = n \/ mem[c].used)
  BY Linked
<1>2. ASSUME NEW c \in Blocks
      PROVE  link(b, n, v)[c].next = IF c = n THEN mem[b].next ELSE IF c = b THEN n ELSE mem[c].next
  <2>1. mem[c] \in PtrBlock
    BY DEF TypeOK
  <2>2. link(b, n, v)[c] = IF c = n THEN [prev |-> b, next |-> mem[b].next, list |-> v, used |-> TRUE]
               ELSE [mem[c] EXCEPT !.next = IF c = b THEN n ELSE @,
                                   !.prev = IF c = mem[b].next THEN n ELSE @]
    BY DEF link
  <2>3. CASE c = n
    BY <2>2, <2>3
  <2>4. CASE c # n
    BY <2>1, <2>2, <2>4 DEF PtrBlock
  <2> QED
    BY <2>3, <2>4
<1>3. \A c \in Blocks : link(b, n, v)[c].list = IF c = n THEN v ELSE IF c = b THEN mem[b].list ELSE mem[c].list
  BY <1>1
<1> QED
  BY <1>1, <1>2, <1>3 DEF Plugged

\* __add_ptr_list appends.
LEMMA AddShows ==
    ASSUME Inv, NEW s, NEW a, Showing(s, a), NEW p \in Ptrs, __add_ptr_list(p)
    PROVE  Shows(mem', head', walk', Append(s, p), a)
<1>1. PICK N, r, o : Seen(mem, head, N, r, o, s) /\ Placed(walk, N, r, o, a)
  BY DEF Showing, Shows
<1>2. TypeOK /\ LinksAgree /\ Reached /\ walk' = walk
  BY DEF Inv, __add_ptr_list
<1>3. /\ N \in Nat /\ s \in Seq(Ptrs) /\ RingOf(mem, head, N, r) /\ o[N + 1] = Len(s)
      /\ \A i \in 1 .. N : /\ r[i] \in Blocks /\ mem[r[i]].used
                           /\ mem[r[i]].list \in Seq(Ptrs) /\ o[i] \in Nat /\ Len(mem[r[i]].list) \in Nat
                           /\ o[i + 1] = o[i] + Len(mem[r[i]].list)
                           /\ Within(mem[r[i]].list, s, o[i], Len(mem[r[i]].list))
  BY <1>1, <1>2, SeenIs
<1>4. CASE head = Null
  <2>1. N = 0 /\ s = <<>>
    BY <1>1, <1>4, NothingSeen
  <2>2. Room /\ head' = NewBlock
        /\ mem' = [mem EXCEPT ![NewBlock] = [prev |-> NewBlock, next |-> NewBlock, list |-> <<p>>, used |-> TRUE]]
    BY <1>4 DEF __add_ptr_list
  <2>3. NewBlock \in Blocks /\ \A b \in Blocks : ~mem[b].used
    BY <1>2, <1>4, <2>2, NewBlockUnused, NoHead
  <2> DEFINE n == NewBlock
  <2>4. /\ n \in Blocks /\ mem'[n].next = n /\ mem'[n].list = <<p>> /\ <<p>> \in Seq(Ptrs)
        /\ \A b \in Blocks : mem'[b].used <=> b = n
    <3> HIDE DEF n
    <3> QED
      BY <1>2, <2>2, <2>3 DEF TypeOK, n
  <2>5. PICK r2, o2 : Seen(mem', n, 1, r2, o2, <<p>>)
    <3> HIDE DEF n
    <3> QED
      BY <2>4, OneSeen
  <2>6. Append(s, p) = <<p>>
    BY <2>1
  <2>7. walk.dir = "none" /\ a = 0
    BY <1>1, <2>1 DEF Placed
  <2> QED
    BY <1>2, <2>2, <2>5, <2>6, <2>7 DEF Shows, Placed
<1>5. ASSUME head # Null
      PROVE  /\ N \in 1 .. N /\ mem[head].prev = r[N] /\ Len(s) = o[N] + Len(mem[r[N]].list)
             /\ mem[r[N]].list \in Seq(Ptrs) /\ o[N] \in Nat /\ Len(mem[r[N]].list) \in Nat
             /\ r[N] \in Blocks /\ mem[r[N]].used
  <2>1. N \in 1 .. N /\ mem[head].prev = r[N]
    BY <1>2, <1>3, <1>5, LastOfRing
  <2> QED
    BY <1>3, <2>1
<1>6. CASE head # Null /\ ~Full(mem[head].prev)
  <2> DEFINE b == r[N]
             y == mem[b].list
             t == Append(y, p)
             w == Append(s, p)
  <2>1. head' = head /\ mem' = [mem EXCEPT ![b].list = Append(@, p)]
    BY <1>5, <1>6 DEF __add_ptr_list
  <2>2. /\ w \in Seq(Ptrs)
        /\ t \in Seq(Ptrs)
        /\ Len(y) + 1 \in Nat
        /\ Spliced(w, s, o[N], t, Len(y) + 1, y, Len(y))
    <3>1. /\ y \in Seq(Ptrs) /\ o[N] \in Nat /\ Len(y) \in Nat /\ Within(y, s, o[N], Len(y))
          /\ Len(s) = o[N] + Len(y) /\ s \in Seq(Ptrs)
      BY <1>3, <1>5, <1>6
    <3> HIDE DEF y
    <3> QED
      BY <3>1, AppendSplices
  <2>3. Relisted(mem', mem, r[N], t)
    <3>1. mem' = WithList(mem, b, t) /\ mem \in [Blocks -> PtrBlock] /\ b \in Blocks
      BY <1>2, <1>5, <1>6, <2>1 DEF WithList, TypeOK
    <3> HIDE DEF b, t
    <3>2. Relisted(WithList(mem, b, t), mem, b, t)
      BY <2>2, <3>1, RelistedIs
    <3> QED
      BY <3>1, <3>2 DEF b
  <2>6. EditOf(mem, mem', r, o, s, N, w)
    <3> HIDE DEF w, t
    <3> QED
      BY <1>5, <1>6, <2>2, <2>3 DEF EditOf
  <2> HIDE DEF w, t
  <2>4. PICK o2 : Seen(mem', head, N, r, o2, w) /\ \A i \in 1 .. N : o2[i] = o[i]
    BY <1>1, <1>2, <1>5, <1>6, <2>6, EditSeen DEF TypeOK
  <2>5. Placed(walk, N, r, o2, a)
    BY <1>1, <1>3, <2>4, StaysPlaced
  <2> QED
    BY <1>2, <2>1, <2>4, <2>5 DEF Shows, w
<1>7. CASE head # Null /\ Full(mem[head].prev)
  <2> DEFINE b == r[N]
             n == NewBlock
             m == link(b, n, <<>>)
  <2>1. Room /\ head' = head /\ mem' = link(b, n, <<p>>)
    BY <1>5, <1>7 DEF __add_ptr_list
  <2>2. n \in Blocks /\ ~mem[n].used
    BY <2>1, NewBlockUnused
  <2> DEFINE y == mem[b].list
             t == <<p>>
             w == Append(s, p)
  <2>3. /\ y \in Seq(Ptrs)
        /\ Len(y) \in Nat
        /\ o[N] \in Nat
        /\ Len(s) = o[N] + Len(y)
        /\ b \in Blocks
        /\ mem[b].used
        /\ N \in 1 .. N /\ mem \in [Blocks -> PtrBlock] /\ t \in Seq(Ptrs) /\ <<>> \in Seq(Ptrs)
    BY <1>2, <1>5, <1>7 DEF TypeOK
  <2>4. Parts(y, y, <<>>, Len(y), 0)
    BY <2>3 DEF Parts
  <2>5. m \in [Blocks -> PtrBlock] /\ Plugged(m, mem, b, n, y, <<>>)
    <3> HIDE DEF n, b
    <3> QED
      BY <1>2, <2>2, <2>3, PluggedIs DEF y
  <2>6. Plugged(mem', mem, b, n, y, t)
    <3> HIDE DEF n, b, t
    <3> QED
      BY <1>2, <2>1, <2>2, <2>3, PluggedIs DEF y, t
  <2>7. Relisted(mem', m, n, t)
    <3>1. TypeOK'
      BY AddKeeps DEF Inv
    <3> HIDE DEF n, b, t, m, y
    <3>2. ASSUME NEW d \in Blocks
          PROVE  /\ mem'[d].next = m[d].next /\ mem'[d].used = m[d].used
                 /\ mem'[d].list = IF d = n THEN t ELSE m[d].list
      <4>1. mem'[d].used \in BOOLEAN /\ m[d].used \in BOOLEAN
        BY <2>5, <3>1 DEF TypeOK, PtrBlock
      <4>2. mem'[d].next = m[d].next /\ (mem'[d].used <=> m[d].used)
        BY <2>5, <2>6 DEF Plugged
      <4>3. mem'[d].list = IF d = n THEN t ELSE m[d].list
        BY <2>5, <2>6 DEF Plugged
      <4> QED
        BY <4>1, <4>2, <4>3
    <3> QED
      BY <3>2 DEF Relisted
  <2>8. PICK p1, q : /\ Seen(m, head, N + 1, q, p1, s)
                     /\ \A i \in 1 .. N : q[i] = r[i] /\ p1[i] = o[i]
                     /\ q[N + 1] = n /\ p1[N + 1] = o[N] + Len(y)
    <3> DEFINE v == <<>>
    <3> HIDE DEF n, m, y, t
    <3>1. v \in Seq(Ptrs) /\ Parts(y, y, v, Len(y), 0) /\ Plugged(m, mem, b, n, y, v)
      BY <2>3, <2>4, <2>5
    <3> DEFINE x == Len(y)
    <3>2. CutOf(mem, m, r, N, n, x)
      <4> HIDE DEF v
      <4> QED
        BY <2>2, <2>3, <3>1 DEF CutOf, y
    <3> HIDE DEF v, b, x
    <3>3. \E p1, q : /\ Seen(m, head, N + 1, q, p1, s)
                     /\ \A i \in 1 .. N : q[i] = r[i] /\ p1[i] = o[i]
                     /\ q[N + 1] = n /\ p1[N + 1] = o[N] + x
      <4>1. mem \in [Blocks -> PtrBlock] /\ N \in 1 .. N /\ Seen(mem, head, N, r, o, s)
        BY <1>1, <2>3
      <4> QED
        BY <3>2, <4>1, CutSeen
    <3> QED
      BY <3>3 DEF x
  <2>9. /\ w \in Seq(Ptrs) /\ Spliced(w, s, p1[N + 1], t, 1, m[q[N + 1]].list, 0)
    <3>1. m[q[N + 1]].list = <<>>
      <4> HIDE DEF m, n, b, y
      <4> QED
        BY <2>2, <2>5, <2>8 DEF Plugged
    <3> DEFINE v == <<>>
               e == o[N] + Len(y)
    <3>2. v \in Seq(Ptrs) /\ e \in Nat /\ Within(v, s, e, 0) /\ Len(s) = e + 0 /\ Append(v, p) = t
      BY <2>3 DEF Within
    <3> HIDE DEF v, e, t, y
    <3>3. Append(s, p) \in Seq(Ptrs) /\ Spliced(Append(s, p), s, e, Append(v, p), 0 + 1, v, 0)
      BY <1>3, <3>2, AppendSplices
    <3> QED
      BY <2>8, <3>1, <3>2, <3>3 DEF v, e
  <2>10. PICK p2 : Seen(mem', head, N + 1, q, p2, w) /\ \A i \in 1 .. N + 1 : p2[i] = p1[i]
    <3>1. N + 1 \in 1 .. N + 1
      BY <1>3
    <3>2. EditOf(m, mem', q, p1, s, N + 1, w)
      <4> HIDE DEF m, n, b, y, t, w
      <4> QED
        BY <2>3, <2>7, <2>8, <2>9 DEF EditOf
    <3> HIDE DEF m, n, b, y, t, w
    <3> QED
      BY <2>5, <2>8, <3>1, <3>2, EditSeen
  <2>11. Placed(walk, N + 1, q, p2, a)
    <3>1. N + 1 \in Nat /\ N <= N + 1 /\ \A i \in 1 .. N : i \in 1 .. N + 1
      BY <1>3
    <3>2. \A i \in 1 .. N : q[i] = r[i] /\ p2[i] = o[i]
      BY <2>8, <2>10, <3>1
    <3> DEFINE M == N + 1
    <3>3. N \in Nat /\ M \in Nat /\ N <= M /\ Placed(walk, N, r, o, a)
      BY <1>1, <1>3, <3>1
    <3> HIDE DEF M
    <3>4. Placed(walk, M, q, p2, a)
      BY <3>2, <3>3, StaysPlaced
    <3> QED
      BY <3>4 DEF M
  <2> HIDE DEF w
  <2> QED
    BY <1>2, <2>1, <2>10, <2>11 DEF Shows, w
<1> QED
  BY <1>4, <1>6, <1>7

\* first_ptr_list and last_ptr_list return the first and the last element.
LEMMA EndsShow ==
    ASSUME Inv, NEW s, NEW a, Showing(s, a)
    PROVE  /\ first_ptr_list => out' = IF s = <<>> THEN NoPtr ELSE Head(s)
           /\ last_ptr_list => out' = IF s = <<>> THEN NoPtr ELSE Last(s)
<1>1. PICK N, r, o : Seen(mem, head, N, r, o, s)
  BY DEF Showing, Shows
<1>2. TypeOK /\ LinksAgree /\ NoneEmpty
  BY DEF Inv
<1>3. /\ N \in Nat
      /\ s \in Seq(Ptrs)
      /\ Len(s) \in Nat
      /\ RingOf(mem, head, N, r)
      /\ o[N + 1] = Len(s)
      /\ o[1] = 0
      /\ \A i \in 1 .. N : /\ r[i] \in Blocks /\ mem[r[i]].used
                           /\ mem[r[i]].list \in Seq(Ptrs) /\ o[i] \in Nat /\ Len(mem[r[i]].list) \in Nat
                           /\ o[i + 1] = o[i] + Len(mem[r[i]].list)
                           /\ Within(mem[r[i]].list, s, o[i], Len(mem[r[i]].list))
  BY <1>1, <1>2, SeenIs
<1>4. CASE head = Null
  <2>1. s = <<>>
    BY <1>1, <1>4, NothingSeen
  <2> QED
    BY <1>4, <2>1 DEF first_ptr_list, last_ptr_list, Returns
<1>5. CASE head # Null
  <2>1. N \in 1 .. N /\ 1 \in 1 .. N /\ mem[head].prev = r[N] /\ r[1] = head
    BY <1>2, <1>3, <1>5, LastOfRing
  <2>2. ASSUME Idle, ~unpacked, ~undone, NEW i \in 1 .. N
        PROVE  Len(mem[r[i]].list) > 0 /\ Len(mem[r[i]].list) \in Nat
    <3>1. mem[r[i]].list # <<>>
      BY <1>2, <1>3, <2>2 DEF NoneEmpty, Idle
    <3> QED
      BY <1>3, <3>1
  <2>3. ASSUME first_ptr_list PROVE out' = IF s = <<>> THEN NoPtr ELSE Head(s)
    <3>1. out' = Entry(r[1], 1) /\ Len(mem[r[1]].list) > 0 /\ Len(mem[r[1]].list) \in Nat
      BY <1>5, <2>1, <2>2, <2>3 DEF first_ptr_list, Returns
    <3> DEFINE y == mem[r[1]].list
    <3>2. y \in Seq(Ptrs) /\ Within(y, s, 0, Len(y)) /\ Len(y) > 0 /\ Len(y) \in Nat
      BY <1>3, <2>1, <3>1
    <3>3. out' = y[1]
      BY <3>1, <3>2 DEF Entry
    <3> HIDE DEF y
    <3>4. 1 \in 1 .. Len(y) /\ 0 + 1 = 1
      BY <3>2
    <3>5. s[1] = y[1] /\ s # <<>>
      BY <1>3, <3>2, <3>4 DEF Within
    <3> QED
      BY <1>3, <3>3, <3>5
  <2>4. ASSUME last_ptr_list PROVE out' = IF s = <<>> THEN NoPtr ELSE Last(s)
    <3>1. out' = Entry(r[N], Len(mem[r[N]].list)) /\ Len(mem[r[N]].list) > 0 /\ Len(mem[r[N]].list) \in Nat
      BY <1>5, <2>1, <2>2, <2>4 DEF last_ptr_list, Returns
    <3> DEFINE y == mem[r[N]].list
    <3>2. /\ y \in Seq(Ptrs) /\ Within(y, s, o[N], Len(y)) /\ Len(y) > 0 /\ Len(y) \in Nat /\ o[N] \in Nat
          /\ Len(s) = o[N] + Len(y)
      BY <1>3, <2>1, <3>1
    <3>3. out' = y[Len(y)]
      BY <3>1, <3>2 DEF Entry
    <3> HIDE DEF y
    <3>4. Len(y) \in 1 .. Len(y)
      BY <3>2
    <3>5. s[Len(s)] = y[Len(y)] /\ s # <<>>
      BY <1>3, <3>2, <3>4 DEF Within
    <3> QED
      BY <3>3, <3>5 DEF Last
  <2> QED
    BY <2>3, <2>4
<1> QED
  BY <1>4, <1>5

\* __free_ptr_list leaves nothing.
LEMMA FreeShows ==
    ASSUME Inv, __free_ptr_list
    PROVE  Shows(mem', head', walk', <<>>, 0)
<1>1. InRing = {b \in Blocks : mem[b].used} /\ walk' = walk /\ walk.dir = "none" /\ head' = Null
      /\ mem' = [b \in Blocks |-> IF b \in InRing THEN FreeBlock ELSE mem[b]]
  BY UsedIsInRing DEF Inv, __free_ptr_list, Idle, NoWalk
<1>2. \A b \in Blocks : ~mem'[b].used
  <2> TAKE b \in Blocks
  <2>1. mem'[b] = IF mem[b].used THEN FreeBlock ELSE mem[b]
    BY <1>1
  <2> QED
    BY <2>1 DEF FreeBlock
<1>3. PICK r, o : Seen(mem', Null, 0, r, o, <<>>)
  BY <1>2, NoneSeen
<1> QED
  BY <1>1, <1>3 DEF Shows, Placed

\* Lists that are all empty make up nothing more.
LEMMA EmptyTail ==
    ASSUME NEW l, NEW N, NEW o, NEW s, NEW K, Chop(l, N, o, s, K), NEW c \in 1 .. N,
           \A i \in 1 .. N : i > c => l[i] = <<>>
    PROVE  o[N + 1] = o[c + 1]
<1>1. N \in Nat /\ o \in [1 .. N + 1 -> Nat] /\ \A i \in 1 .. N : o[i + 1] = o[i] + Len(l[i])
  BY ChopFacts
<1> DEFINE T == {j \in Nat : c < j /\ j <= N + 1 /\ o[j] # o[c + 1]}
<1>2. ASSUME T # {} PROVE FALSE
  <2>1. PICK j \in T : \A k \in T : j <= k
    <3> T \subseteq Nat
      OBVIOUS
    <3> HIDE DEF T
    <3> QED
      BY <1>2, Least
  <2>2. j # c + 1
    BY <2>1
  <2>3. /\ j - 1 \in 1 .. N
        /\ j - 1 > c
        /\ j - 1 \in Nat
        /\ c < j - 1
        /\ j - 1 <= N + 1
        /\ (j - 1) + 1 = j
        /\ ~(j <= j - 1)
    BY <1>1, <2>1, <2>2
  <2>4. o[j - 1] = o[c + 1]
    BY <2>1, <2>3
  <2>5. o[j] = o[j - 1] + Len(l[j - 1]) /\ l[j - 1] = <<>>
    BY <1>1, <2>3
  <2>6. j - 1 \in 1 .. N + 1 /\ o[j - 1] \in Nat
    BY <1>1, <2>3
  <2>7. o[j] = o[j - 1]
    BY <2>5, <2>6
  <2> QED
    BY <2>1, <2>4, <2>7
<1>3. N + 1 \in Nat /\ c < N + 1 /\ N + 1 <= N + 1
  BY <1>1
<1> QED
  BY <1>2, <1>3

\* A block before another one in the ring.
LEMMA BeforeInRing ==
    ASSUME TypeOK, LinksAgree, NEW N, NEW r, RingOf(mem, head, N, r), NEW c \in 1 .. N, c # 1
    PROVE  c - 1 \in 1 .. N /\ mem[r[c]].prev = r[c - 1]
<1>1. N \in Nat /\ c - 1 \in 1 .. N /\ c - 1 < N /\ (c - 1) + 1 = c
  BY DEF RingOf
<1>2. mem[r[c - 1]].next = r[c] /\ r[c - 1] \in Blocks /\ mem[r[c - 1]].used
  <2>1. mem[r[c - 1]].next = r[(c - 1) + 1]
    BY <1>1 DEF RingOf
  <2> QED
    BY <1>1, <2>1 DEF RingOf
<1> QED
  BY <1>1, <1>2 DEF LinksAgree

\* Nothing is after the block undo_ptr_list_last finds, which is empty only if all
\* are.
LEMMA LastFilledInRing ==
    ASSUME TypeOK, LinksAgree, NEW N, NEW r, RingOf(mem, head, N, r), head # Null
    PROVE  \E c \in 1 .. N : /\ LastFilled = r[c] /\ \A i \in 1 .. N : i > c => mem[r[i]].list = <<>>
                             /\ mem[r[c]].list = <<>> => c = 1
<1>1. /\ N \in Nat /\ N \in 1 .. N /\ 1 \in 1 .. N /\ mem[head].prev = r[N] /\ r[1] = head
      /\ \A i, j \in 1 .. N : r[i] = r[j] => i = j
  BY LastOfRing DEF RingOf
<1>2. N <= NBlocks /\ NBlocks \in Nat /\ NBlocks \in 0 .. NBlocks
  BY FewBlocks, PtrListAssumption
<1>3. PICK f : /\ LastFilled = f[NBlocks] /\ f[0] = mem[head].prev
               /\ \A n \in 1 .. NBlocks : f[n] = IF mem[f[n - 1]].list # <<>> \/ f[n - 1] = head THEN f[n - 1]
                                                 ELSE mem[f[n - 1]].prev
  BY LastFilledWalk
<1> DEFINE Rest(c) == \A i \in 1 .. N : i > c => mem[r[i]].list = <<>>
           Here(n, c) == /\ f[n] = r[c] /\ Rest(c)
                         /\ mem[r[c]].list = <<>> => c = 1 \/ c + n = N
           Good(n) == \E c \in 1 .. N : Here(n, c)
           T == {n \in 0 .. NBlocks : ~Good(n)}
<1>4. ASSUME T # {} PROVE FALSE
  <2>1. PICK n \in T : \A k \in T : n <= k
    <3> T \subseteq Nat
      OBVIOUS
    <3> HIDE DEF T
    <3> QED
      BY <1>4, Least
  <2>2. n \in 0 .. NBlocks /\ ~Good(n)
    OBVIOUS
  <2>3. n # 0
    <3>1. Here(0, N)
      BY <1>1, <1>3
    <3>2. Good(0)
      <4> HIDE DEF Here
      <4> QED
        BY <1>1, <3>1
    <3> HIDE DEF Good
    <3> QED
      BY <2>2, <3>2
  <2>4. n - 1 \in 0 .. NBlocks /\ n \in 1 .. NBlocks /\ n \in Nat /\ ~(n <= n - 1)
    BY <1>2, <2>2, <2>3
  <2>5. Good(n - 1)
    <3> HIDE DEF Good
    <3> QED
      BY <2>1, <2>4
  <2>6. PICK c \in 1 .. N : Here(n - 1, c)
    <3> HIDE DEF Here
    <3> QED
      BY <2>5
  <2>7. c \in Nat /\ (f[n - 1] = head <=> c = 1)
    BY <1>1, <2>6
  <2>8. CASE mem[r[c]].list # <<>> \/ c = 1
    <3>1. f[n] = r[c]
      BY <1>3, <2>4, <2>6, <2>7, <2>8
    <3>2. Here(n, c)
      BY <2>6, <2>8, <3>1
    <3>3. Good(n)
      <4> HIDE DEF Here
      <4> QED
        BY <3>2
    <3> HIDE DEF Good
    <3> QED
      BY <2>2, <3>3
  <2>9. CASE ~(mem[r[c]].list # <<>> \/ c = 1)
    <3>1. f[n] = mem[r[c]].prev
      BY <1>3, <2>4, <2>6, <2>7, <2>9
    <3>2. c - 1 \in 1 .. N /\ mem[r[c]].prev = r[c - 1]
      BY <2>9, BeforeInRing
    <3>3. c + (n - 1) = N
      BY <2>6, <2>9
    <3>4. (c - 1) + n = N
      BY <2>4, <2>7, <3>3
    <3>5. Rest(c - 1)
      <4> SUFFICES ASSUME NEW i \in 1 .. N, i > c - 1 PROVE mem[r[i]].list = <<>>
        OBVIOUS
      <4>1. i = c \/ i > c
        BY <2>7
      <4> QED
        BY <2>6, <2>9, <4>1
    <3>6. Here(n, c - 1)
      BY <3>1, <3>2, <3>4, <3>5
    <3>7. Good(n)
      <4> HIDE DEF Here
      <4> QED
        BY <3>2, <3>6
    <3> HIDE DEF Good
    <3> QED
      BY <2>2, <3>7
  <2> QED
    BY <2>8, <2>9
<1>5. PICK c \in 1 .. N : Here(NBlocks, c)
  <2> HIDE DEF Here
  <2> QED
    BY <1>2, <1>4
<1>6. c + NBlocks # N
  BY <1>1, <1>2
<1> QED
  BY <1>3, <1>5, <1>6

\* undo_ptr_list_last takes the last element, if there is one.
LEMMA UndoShows ==
    ASSUME Inv, NEW s, NEW a, Showing(s, a), undo_ptr_list_last
    PROVE  \/ s = <<>> /\ out' = NoPtr /\ Shows(mem', head', walk', s, a)
           \/ s # <<>> /\ out' = Last(s) /\ Shows(mem', head', walk', Front(s), a)
<1>1. PICK N, r, o : Seen(mem, head, N, r, o, s) /\ Placed(walk, N, r, o, a)
  BY DEF Showing, Shows
<1>2. TypeOK /\ LinksAgree /\ head' = head /\ walk' = walk /\ walk.dir = "none"
  BY DEF Inv, undo_ptr_list_last, Idle, NoWalk
<1>3. /\ N \in Nat
      /\ s \in Seq(Ptrs)
      /\ Len(s) \in Nat
      /\ RingOf(mem, head, N, r)
      /\ o[N + 1] = Len(s)
      /\ o[1] = 0
      /\ Chop(ListsOf(mem, N, r), N, o, s, Ptrs)
      /\ \A i \in 1 .. N : /\ r[i] \in Blocks /\ mem[r[i]].used /\ ListsOf(mem, N, r)[i] = mem[r[i]].list
                           /\ mem[r[i]].list \in Seq(Ptrs) /\ o[i] \in Nat /\ Len(mem[r[i]].list) \in Nat
                           /\ o[i + 1] = o[i] + Len(mem[r[i]].list)
                           /\ Within(mem[r[i]].list, s, o[i], Len(mem[r[i]].list))
  BY <1>1, <1>2, SeenIs
<1>4. CASE head = Null
  <2>1. s = <<>>
    BY <1>1, <1>4, NothingSeen
  <2>2. out' = NoPtr /\ mem' = mem
    BY <1>4 DEF undo_ptr_list_last, Returns
  <2> QED
    BY <1>1, <1>2, <2>1, <2>2 DEF Shows
<1>5. CASE head # Null
  <2>1. PICK c \in 1 .. N : /\ LastFilled = r[c] /\ \A i \in 1 .. N : i > c => mem[r[i]].list = <<>>
                            /\ mem[r[c]].list = <<>> => c = 1
    BY <1>2, <1>3, <1>5, LastFilledInRing
  <2> DEFINE y == mem[r[c]].list
             l == ListsOf(mem, N, r)
  <2>2. o[N + 1] = o[c + 1]
    <3>1. (\A i \in 1 .. N : i > c => l[i] = <<>>) /\ Chop(l, N, o, s, Ptrs)
      BY <1>3, <2>1
    <3> HIDE DEF l
    <3> QED
      BY <3>1, EmptyTail
  <2>3. /\ Len(s) = o[c] + Len(y)
        /\ y \in Seq(Ptrs)
        /\ o[c] \in Nat
        /\ Len(y) \in Nat
        /\ Within(y, s, o[c], Len(y))
    BY <1>3, <2>2
  <2>4. CASE y = <<>>
    <3>1. Len(s) = 0 /\ s = <<>>
      BY <1>3, <2>1, <2>3, <2>4
    <3>2. out' = NoPtr /\ mem' = mem
      BY <1>5, <2>1, <2>4 DEF undo_ptr_list_last, Returns
    <3> QED
      BY <1>1, <1>2, <3>1, <3>2 DEF Shows
  <2>5. CASE y # <<>>
    <3> DEFINE t == Front(y)
               w == Front(s)
    <3>1. out' = Last(y) /\ mem' = [mem EXCEPT ![r[c]].list = Front(@)]
      BY <1>5, <2>1, <2>5 DEF undo_ptr_list_last, Returns
    <3>2. /\ w \in Seq(Ptrs) /\ t \in Seq(Ptrs) /\ Len(y) - 1 \in Nat /\ s # <<>> /\ Last(s) = Last(y)
          /\ Spliced(w, s, o[c], t, Len(y) - 1, y, Len(y))
      <4> HIDE DEF y
      <4> QED
        BY <1>3, <2>3, <2>5, FrontSplices
    <3>3. Relisted(mem', mem, r[c], t)
      <4>1. mem' = WithList(mem, r[c], t) /\ mem \in [Blocks -> PtrBlock] /\ r[c] \in Blocks
        BY <1>2, <1>3, <3>1 DEF WithList, TypeOK
      <4> DEFINE b == r[c]
      <4> HIDE DEF b, t
      <4>2. Relisted(WithList(mem, b, t), mem, b, t)
        BY <3>2, <4>1, RelistedIs DEF b
      <4> QED
        BY <4>1, <4>2 DEF b
    <3>4. EditOf(mem, mem', r, o, s, c, w)
      <4> HIDE DEF w, t
      <4> QED
        BY <2>3, <3>2, <3>3 DEF EditOf
    <3> HIDE DEF w, t, y
    <3>5. PICK p : Seen(mem', head, N, r, p, w)
      BY <1>1, <1>2, <3>4, EditSeen DEF TypeOK
    <3>6. Shows(mem', head', walk', w, a)
      BY <1>1, <1>2, <3>5 DEF Shows, Placed
    <3> QED
      BY <3>1, <3>2, <3>6 DEF w
  <2> QED
    BY <2>4, <2>5
<1> QED
  BY <1>4, <1>5

\* q is the first n blocks of r.
Begins(q, r, n) == Len(q) = n /\ \A i \in 1 .. n : q[i] = r[i]

\* Ring is the ring.
LEMMA RingIs ==
    ASSUME TypeOK, NEW N, NEW r, RingOf(mem, head, N, r)
    PROVE  Ring \in Seq(Blocks) /\ Begins(Ring, r, N)
<1>1. /\ N \in Nat /\ r \in [1 .. N -> Blocks] /\ (head = Null <=> N = 0)
      /\ \A i, j \in 1 .. N : r[i] = r[j] => i = j
      /\ N > 0 => r[1] = head /\ mem[r[N]].next = head
      /\ \A i \in 1 .. N : i < N => mem[r[i]].next = r[i + 1]
  BY DEF RingOf
<1>2. N <= NBlocks /\ NBlocks \in Nat
  BY FewBlocks, PtrListAssumption
<1>3. CASE head = Null
  <2>1. Ring = <<>> /\ N = 0
    BY <1>1, <1>3 DEF Ring
  <2> QED
    BY <2>1 DEF Begins
<1>4. CASE head # Null
  <2> DEFINE V == {q \in Seq(Blocks) : q # <<>>}
             next(q) == mem[Last(q)].next
             step(q) == IF next(q) \in {head, Null} THEN q ELSE Append(q, next(q))
             ring[n \in 1 .. NBlocks] == IF n = 1 THEN <<head>> ELSE step(ring[n - 1])
             G == [x \in Nat \X V |-> step(x[2])]
  <2>1. /\ N > 0 /\ N \in 1 .. N /\ 1 \in 1 .. N /\ NBlocks \in 1 .. NBlocks /\ 1 \in 1 .. NBlocks
        /\ head \in Blocks /\ head # Null
    BY <1>1, <1>2, <1>4
  <2>2. G \in [Nat \X V -> V]
    <3> SUFFICES ASSUME NEW q \in V PROVE step(q) \in V
      OBVIOUS
    <3>1. Last(q) \in Blocks
      <4>1. Len(q) \in 1 .. Len(q)
        OBVIOUS
      <4> QED
        BY <4>1 DEF Last
    <3>2. next(q) \in Blocks \cup {Null}
      BY <3>1 DEF TypeOK, PtrBlock
    <3> HIDE DEF next
    <3>3. next(q) \in Blocks => Append(q, next(q)) \in V
      OBVIOUS
    <3> QED
      BY <3>2, <3>3
  <2>3. PICK f \in [1 .. NBlocks -> V] : Follows(f, 1, NBlocks, <<head>>, G)
    <3>1. 1 \in Nat /\ <<head>> \in V
      BY <2>1
    <3> HIDE DEF V, G
    <3> QED
      BY <1>2, <2>2, <3>1, Recursive
  <2>4. \A n \in 1 .. NBlocks : f[n] = IF n = 1 THEN <<head>> ELSE step(f[n - 1])
    <3> TAKE n \in 1 .. NBlocks
    <3>1. f[n] = IF n = 1 THEN <<head>> ELSE G[<<n, f[n - 1]>>]
      BY <2>3 DEF Follows
    <3>2. n # 1 => n \in Nat /\ n - 1 \in 1 .. NBlocks
      BY <1>2
    <3>3. n # 1 => f[n - 1] \in V
      <4> HIDE DEF V
      <4> QED
        BY <2>3, <3>2
    <3>4. n # 1 => G[<<n, f[n - 1]>>] = step(f[n - 1])
      <4> HIDE DEF V, step
      <4> QED
        BY <3>2, <3>3
    <3> HIDE DEF G, step
    <3> QED
      BY <3>1, <3>4
  <2>5. f = [n \in 1 .. NBlocks |-> IF n = 1 THEN <<head>> ELSE step(f[n - 1])]
    <3> HIDE DEF step, V
    <3> QED
      BY <2>3, <2>4
  <2>6. ring = [n \in 1 .. NBlocks |-> IF n = 1 THEN <<head>> ELSE step(ring[n - 1])]
    <3> HIDE DEF step
    <3> QED
      BY <2>5
  <2> HIDE DEF ring, step, V, G
  <2>7. ring = f
    <3> DEFINE T == {n \in 1 .. NBlocks : ring[n] # f[n]}
    <3>1. ASSUME T # {} PROVE FALSE
      <4>1. PICK n \in T : \A y \in T : n <= y
        <5> T \subseteq Nat
          OBVIOUS
        <5> HIDE DEF T
        <5> QED
          BY <3>1, Least
      <4>2. n # 1 => n - 1 \in 1 .. NBlocks /\ ~(n <= n - 1)
        BY <1>2
      <4>3. n # 1 => ring[n - 1] = f[n - 1]
        BY <4>1, <4>2
      <4>4. n \in 1 .. NBlocks /\ ring[n] # f[n]
        OBVIOUS
      <4> HIDE DEF T
      <4>5. ring[n] = IF n = 1 THEN <<head>> ELSE step(ring[n - 1])
        BY <2>6, <4>4
      <4>6. f[n] = IF n = 1 THEN <<head>> ELSE step(f[n - 1])
        BY <2>4, <4>4
      <4> QED
        BY <4>3, <4>4, <4>5, <4>6
    <3> QED
      BY <2>5, <2>6, <3>1
  <2>8. Ring = f[NBlocks]
    <3>1. Ring = ring[NBlocks]
      BY <1>4 DEF Ring, ring, step, next
    <3> QED
      BY <2>7, <3>1
  <2> DEFINE least(n) == IF n < N THEN n ELSE N
             T == {n \in 1 .. NBlocks : ~Begins(f[n], r, least(n))}
  <2>9. ASSUME T # {} PROVE FALSE
    <3>1. PICK n \in T : \A y \in T : n <= y
      <4> T \subseteq Nat
        OBVIOUS
      <4> HIDE DEF T
      <4> QED
        BY <2>9, Least
    <3>2. n \in 1 .. NBlocks /\ ~Begins(f[n], r, least(n))
      OBVIOUS
    <3>3. n # 1
      <4>1. f[1] = <<head>> /\ least(1) = 1
        BY <1>1, <2>1, <2>4
      <4>2. Begins(<<head>>, r, 1)
        BY <1>1, <2>1 DEF Begins
      <4> QED
        BY <3>2, <4>1, <4>2
    <3>4. n - 1 \in 1 .. NBlocks /\ ~(n <= n - 1) /\ n \in Nat
      BY <1>2, <3>2, <3>3
    <3>5. Begins(f[n - 1], r, least(n - 1))
      BY <3>1, <3>4
    <3> DEFINE q == f[n - 1]
               k == least(n - 1)
    <3>6. k \in 1 .. N /\ q \in Seq(Blocks) /\ Len(q) = k /\ (\A i \in 1 .. k : q[i] = r[i]) /\ f[n] = step(q)
      <4>1. k \in 1 .. N
        BY <1>1, <2>1, <3>4
      <4>2. q \in Seq(Blocks)
        BY <2>3, <3>4 DEF V
      <4>3. f[n] = step(q)
        BY <2>4, <3>2, <3>3
      <4> QED
        BY <3>5, <4>1, <4>2, <4>3 DEF Begins
    <3>7. Last(q) = r[k]
      <4> HIDE DEF q, k
      <4> QED
        BY <3>6 DEF Last
    <3>8. CASE k = N
      <4>1. next(q) = head
        BY <1>1, <2>1, <3>7, <3>8
      <4>2. f[n] = q /\ least(n) = k
        BY <1>1, <3>4, <3>6, <3>8, <4>1 DEF step
      <4> QED
        BY <3>2, <3>5, <4>2
    <3>9. CASE k # N
      <4>1. k < N /\ k + 1 \in 1 .. N /\ k + 1 # 1 /\ k = n - 1 /\ least(n) = k + 1
        BY <1>1, <3>4, <3>6, <3>9
      <4>2. next(q) = r[k + 1] /\ r[k + 1] \in Blocks /\ r[k + 1] # head
        BY <1>1, <2>1, <3>6, <3>7, <4>1
      <4>3. r[k + 1] # Null
        BY <4>2, PtrListAssumption DEF Blocks, Null
      <4>4. f[n] = Append(q, r[k + 1])
        BY <3>6, <4>2, <4>3 DEF step
      <4> HIDE DEF q, k, next, least
      <4>5. Begins(Append(q, r[k + 1]), r, k + 1)
        BY <3>6, <4>2 DEF Begins
      <4> QED
        BY <3>2, <4>1, <4>4, <4>5
    <3> QED
      BY <3>8, <3>9
  <2>10. Begins(f[NBlocks], r, N) /\ f[NBlocks] \in Seq(Blocks)
    <3>1. least(NBlocks) = N
      BY <1>1, <1>2
    <3>2. Begins(f[NBlocks], r, least(NBlocks))
      <4> HIDE DEF least
      <4> QED
        BY <2>1, <2>9
    <3>3. f[NBlocks] \in V
      BY <2>1, <2>3
    <3> QED
      BY <3>1, <3>2, <3>3 DEF V
  <2> QED
    BY <2>8, <2>10
<1> QED
  BY <1>3, <1>4

\* The block that a single deletion or replacement changes has the first place
\* where p is.
LEMMA BlockOfIs ==
    ASSUME TypeOK, NEW N, NEW r, NEW o, NEW s, Seen(mem, head, N, r, o, s), NEW p, Has(p)
    PROVE  \E c \in 1 .. N, k \in Nat : BlockOf(p) = r[c] /\ FirstIn(ListsOf(mem, N, r), c, k, p)
<1> DEFINE l == ListsOf(mem, N, r)
           Here(i) == Contains(mem[r[i]].list, p)
<1>1. /\ N \in Nat
      /\ RingOf(mem, head, N, r)
      /\ \A i \in 1 .. N : r[i] \in Blocks /\ l[i] = mem[r[i]].list /\ l[i] \in Seq(Ptrs)
  BY SeenIs
<1>2. DOMAIN Ring = 1 .. N /\ \A i \in 1 .. N : Ring[i] = r[i]
  BY <1>1, RingIs DEF Begins
<1>3. \E i \in 1 .. N : Here(i)
  <2>1. PICK b \in ToSet(Ring) : Contains(mem[b].list, p)
    BY DEF Has
  <2>2. \E i \in DOMAIN Ring : b = Ring[i]
    BY <2>1 DEF ToSet
  <2> QED
    BY <1>2, <2>1, <2>2
<1>4. \E i \in 1 .. N : Here(i) /\ \A j \in 1 .. i - 1 : ~Here(j)
  <2> DEFINE T == {i \in 1 .. N : Here(i)}
  <2>1. T \subseteq Nat /\ T # {}
    BY <1>3
  <2>2. PICK i \in T : \A y \in T : i <= y
    <3> HIDE DEF T
    <3> QED
      BY <2>1, Least
  <2>3. i \in 1 .. N /\ Here(i)
    OBVIOUS
  <2>4. ASSUME NEW j \in 1 .. i - 1 PROVE ~Here(j)
    <3>1. j \in 1 .. N /\ ~(i <= j)
      BY <1>1, <2>3
    <3> QED
      BY <2>2, <3>1
  <2> HIDE DEF Here, T
  <2> QED
    BY <2>3, <2>4
<1>5. \E i \in DOMAIN Ring : /\ Contains(mem[Ring[i]].list, p)
                             /\ \A j \in 1 .. i - 1 : ~Contains(mem[Ring[j]].list, p)
  <2>1. PICK i \in 1 .. N : Here(i) /\ \A j \in 1 .. i - 1 : ~Here(j)
    BY <1>4
  <2>2. \A j \in 1 .. i - 1 : j \in 1 .. N
    BY <1>1
  <2> QED
    BY <1>2, <2>1, <2>2
<1>6. PICK c \in 1 .. N : /\ BlockOf(p) = Ring[c] /\ Contains(mem[Ring[c]].list, p)
                          /\ \A j \in 1 .. c - 1 : ~Contains(mem[Ring[j]].list, p)
  BY <1>2, <1>5 DEF BlockOf
<1>7. BlockOf(p) = r[c] /\ Contains(l[c], p) /\ \A j \in 1 .. c - 1 : ~Contains(l[j], p)
  <2>1. \A j \in 1 .. c - 1 : j \in 1 .. N
    BY <1>1
  <2> QED
    BY <1>1, <1>2, <1>6, <2>1
<1>8. \E k \in 1 .. Len(l[c]) : l[c][k] = p /\ \A j \in 1 .. k - 1 : l[c][j] # p
  <2> DEFINE y == l[c]
  <2>1. y \in Seq(Ptrs) /\ Contains(y, p)
    BY <1>1, <1>7
  <2> HIDE DEF y
  <2>2. \E k \in 1 .. Len(y) : y[k] = p /\ \A j \in 1 .. k - 1 : y[j] # p
    BY <2>1, FirstIs
  <2> QED
    BY <2>2 DEF y
<1> HIDE DEF l
<1>9. PICK k \in 1 .. Len(l[c]) : l[c][k] = p /\ \A j \in 1 .. k - 1 : l[c][j] # p
  BY <1>8
<1>10. FirstIn(l, c, k, p)
  BY <1>7, <1>9 DEF FirstIn
<1> QED
  BY <1>7, <1>10 DEF l

\* The first p in s is s[k].
FirstAt(s, k, p) == k \in 1 .. Len(s) /\ s[k] = p /\ \A j \in 1 .. k - 1 : s[j] # p

\* The first p replaced by q.
Once(s, p, q) == ReplaceAt(s, SelectInSeq(s, LAMBDA x : x = p), q)

\* Deleting and replacing once, at the first place.
LEMMA FirstChanged ==
    ASSUME NEW K, NEW s \in Seq(K), NEW p, NEW k, FirstAt(s, k, p), NEW q
    PROVE  RemoveFirst(s, p) = RemoveAt(s, k) /\ Once(s, p, q) = [s EXCEPT ![k] = q]
<1> DEFINE I == {i \in 1 .. Len(s) : s[i] = p}
<1>1. Min(I) = k /\ I # {}
  BY SelectIs DEF FirstAt
<1>2. \E i \in 1 .. Len(s) : s[i] = p
  BY DEF FirstAt
<1>3. RemoveFirst(s, p) = RemoveAt(s, IF I # {} THEN Min(I) ELSE 0)
  BY <1>2 DEF RemoveFirst, SelectInSeq
<1>4. Once(s, p, q) = [s EXCEPT ![IF I # {} THEN Min(I) ELSE 0] = q]
  BY DEF Once, ReplaceAt, SelectInSeq
<1> HIDE DEF I
<1> QED
  BY <1>1, <1>3, <1>4

\* Once, in a block, is once in all of them.
LEMMA OnceEdits ==
    ASSUME TypeOK, NEW N, NEW r, NEW o, NEW s, Seen(mem, head, N, r, o, s), NEW p, Has(p), NEW q \in Ptrs
    PROVE  \E c \in 1 .. N :
              /\ BlockOf(p) = r[c]
              /\ mem' = [mem EXCEPT ![BlockOf(p)].list = RemoveFirst(@, p)] =>
                    EditOf(mem, mem', r, o, s, c, RemoveFirst(s, p))
              /\ mem' = [mem EXCEPT ![BlockOf(p)].list = Once(@, p, q)] =>
                    EditOf(mem, mem', r, o, s, c, Once(s, p, q))
<1> DEFINE l == ListsOf(mem, N, r)
<1>1. PICK c \in 1 .. N, k \in Nat : BlockOf(p) = r[c] /\ FirstIn(l, c, k, p)
  BY BlockOfIs
<1> DEFINE b == r[c]
           y == mem[b].list
           a == o[c]
           z == Len(y)
           i == a + k
<1>2. /\ b \in Blocks /\ y \in Seq(Ptrs) /\ a \in Nat /\ z \in Nat /\ Within(y, s, a, z) /\ s \in Seq(Ptrs)
      /\ l[c] = y /\ Chop(l, N, o, s, Ptrs) /\ mem \in [Blocks -> PtrBlock]
  BY SeenIs DEF TypeOK
<1>3. k \in 1 .. z /\ FirstAt(y, k, p)
  <2> HIDE DEF l, b
  <2> QED
    BY <1>1, <1>2 DEF FirstIn, FirstAt
<1>4. FirstAt(s, i, p)
  <2> HIDE DEF l
  <2> QED
    BY <1>1, <1>2, ChopFirst DEF FirstAt
<1> HIDE DEF l, b, y, a, z, i
<1>5. RemoveFirst(y, p) = RemoveAt(y, k) /\ Once(y, p, q) = [y EXCEPT ![k] = q]
  BY <1>2, <1>3, FirstChanged
<1>6. RemoveFirst(s, p) = RemoveAt(s, i) /\ Once(s, p, q) = [s EXCEPT ![i] = q]
  BY <1>2, <1>4, FirstChanged
<1>7. /\ RemoveAt(s, i) \in Seq(Ptrs) /\ RemoveAt(y, k) \in Seq(Ptrs) /\ z - 1 \in Nat
      /\ Spliced(RemoveAt(s, i), s, a, RemoveAt(y, k), z - 1, y, z)
  BY <1>2, <1>3, RemoveSplices DEF i
<1>8. /\ [s EXCEPT ![i] = q] \in Seq(Ptrs) /\ [y EXCEPT ![k] = q] \in Seq(Ptrs)
      /\ Spliced([s EXCEPT ![i] = q], s, a, [y EXCEPT ![k] = q], z, y, z)
  <2>1. /\ y \in Seq(Ptrs)
        /\ s \in Seq(Ptrs)
        /\ a \in Nat
        /\ z \in Nat
        /\ Within(y, s, a, z)
        /\ k \in 1 .. z
        /\ i = a + k
    BY <1>2, <1>3 DEF i
  <2> QED
    BY <2>1, SetSplices
<1>9. ASSUME mem' = [mem EXCEPT ![b].list = RemoveFirst(@, p)]
      PROVE  EditOf(mem, mem', r, o, s, c, RemoveFirst(s, p))
  <2> DEFINE t == RemoveAt(y, k)
             w == RemoveAt(s, i)
  <2>1. mem' = WithList(mem, b, t)
    BY <1>5, <1>9 DEF WithList, y
  <2>2. t \in Seq(Ptrs) /\ w \in Seq(Ptrs) /\ z - 1 \in Nat /\ Spliced(w, s, a, t, z - 1, y, z)
    BY <1>7
  <2> HIDE DEF t, w
  <2>3. Relisted(mem', mem, b, t)
    BY <1>2, <2>1, <2>2, RelistedIs
  <2>4. EditOf(mem, mem', r, o, s, c, w)
    BY <1>2, <2>2, <2>3 DEF EditOf, b, y, a
  <2> QED
    BY <1>6, <2>4 DEF w
<1>10. ASSUME mem' = [mem EXCEPT ![b].list = Once(@, p, q)]
       PROVE  EditOf(mem, mem', r, o, s, c, Once(s, p, q))
  <2> DEFINE t == [y EXCEPT ![k] = q]
             w == [s EXCEPT ![i] = q]
  <2>1. mem' = WithList(mem, b, t)
    BY <1>5, <1>10 DEF WithList, y
  <2>2. t \in Seq(Ptrs) /\ w \in Seq(Ptrs) /\ Spliced(w, s, a, t, z, y, z)
    BY <1>8
  <2> HIDE DEF t, w
  <2>3. Relisted(mem', mem, b, t)
    BY <1>2, <2>1, <2>2, RelistedIs
  <2>4. EditOf(mem, mem', r, o, s, c, w)
    BY <1>2, <2>2, <2>3 DEF EditOf, b, y, a
  <2> QED
    BY <1>6, <2>4 DEF w
<1>11. BlockOf(p) = b
  BY <1>1 DEF b
<1> QED
  BY <1>9, <1>10, <1>11 DEF b

\* delete_ptr_list_entry deletes p once or everywhere.
LEMMA DeleteShows ==
    ASSUME Inv, NEW s, NEW a, Showing(s, a), NEW p \in Ptrs, NEW count \in {0, 1},
           delete_ptr_list_entry(p, count)
    PROVE  \E t \in {RemoveFirst(s, p), Others(s, p)} : Shows(mem', head', walk', t, a)
<1>1. PICK N, r, o : Seen(mem, head, N, r, o, s) /\ Placed(walk, N, r, o, a)
  BY DEF Showing, Shows
<1>2. TypeOK /\ mem \in [Blocks -> PtrBlock] /\ head' = head /\ walk' = walk /\ walk.dir = "none" /\ a = 0
  BY <1>1 DEF Inv, TypeOK, delete_ptr_list_entry, Idle, NoWalk, Placed
<1>3. CASE count = 1
  <2>1. Has(p) /\ mem' = [mem EXCEPT ![BlockOf(p)].list = RemoveFirst(@, p)]
    BY <1>3 DEF delete_ptr_list_entry
  <2>2. PICK c \in 1 .. N : EditOf(mem, mem', r, o, s, c, RemoveFirst(s, p))
    BY <1>1, <1>2, <2>1, OnceEdits
  <2> DEFINE w == RemoveFirst(s, p)
  <2>3. EditOf(mem, mem', r, o, s, c, w)
    BY <2>2
  <2> HIDE DEF w
  <2>4. PICK o2 : Seen(mem', head, N, r, o2, w)
    BY <1>1, <1>2, <2>3, EditSeen
  <2>5. Shows(mem', head', walk', w, a)
    BY <1>2, <2>4 DEF Shows, Placed
  <2> QED
    BY <2>5 DEF w
<1>4. CASE count # 1
  <2>1. mem' = [b \in Blocks |-> [mem[b] EXCEPT !.list = Others(@, p)]]
    BY <1>4 DEF delete_ptr_list_entry
  <2>2. ASSUME NEW b \in Blocks
        PROVE  mem'[b].next = mem[b].next /\ mem'[b].used = mem[b].used /\ mem'[b].list = Others(mem[b].list, p)
    <3>1. mem[b] \in PtrBlock /\ mem'[b] = [mem[b] EXCEPT !.list = Others(@, p)]
      BY <1>2, <2>1
    <3> QED
      BY <3>1 DEF PtrBlock
  <2> DEFINE l == ListsOf(mem, N, r)
             l2 == [i \in 1 .. N |-> Others(l[i], p)]
  <2>3. /\ RingOf(mem, head, N, r) /\ Chop(l, N, o, s, Ptrs)
        /\ \A i \in 1 .. N : r[i] \in Blocks /\ l[i] = mem[r[i]].list
    BY <1>1, <1>2, SeenIs
  <2>4. RingOf(mem', head, N, r)
    BY <2>2, <2>3, RingSame
  <2>5. ListsOf(mem', N, r) = l2
    BY <2>2, <2>3 DEF ListsOf
  <2>6. \E q : Chop(l2, N, q, Others(s, p), Ptrs)
    <3> HIDE DEF l
    <3> QED
      BY <2>3, ChopSift
  <2>7. PICK q : Seen(mem', head, N, r, q, Others(s, p))
    BY <2>4, <2>5, <2>6 DEF Seen
  <2>8. Shows(mem', head', walk', Others(s, p), a)
    BY <1>2, <2>7 DEF Shows, Placed
  <2> QED
    BY <2>8
<1> QED
  BY <1>3, <1>4

\* Replacing an element in every list replaces it in what they make up.
LEMMA ChopReplace ==
    ASSUME NEW l, NEW N, NEW o, NEW s, NEW K, Chop(l, N, o, s, K), NEW p, NEW q \in K
    PROVE  Chop([i \in 1 .. N |-> ReplaceAll(l[i], p, q)], N, o, ReplaceAll(s, p, q), K)
<1> DEFINE m == [i \in 1 .. N |-> ReplaceAll(l[i], p, q)]
           w == ReplaceAll(s, p, q)
<1>1. /\ N \in Nat /\ o \in [1 .. N + 1 -> Nat] /\ l \in [1 .. N -> Seq(K)] /\ s \in Seq(K)
      /\ Len(s) = o[N + 1] /\ o[1] = 0
  BY ChopFacts
<1>2. w \in Seq(K) /\ Len(w) = Len(s) /\ \A x \in 1 .. Len(s) : w[x] = IF s[x] = p THEN q ELSE s[x]
  <2>1. w \in Seq(K) /\ Len(w) = Len(s)
    <3>1. Len(s) \in Nat /\ w \in [1 .. Len(s) -> K]
      BY <1>1 DEF ReplaceAll
    <3> HIDE DEF w
    <3> QED
      BY <3>1, Sequenced
  <2> QED
    BY <2>1 DEF ReplaceAll
<1>3. ASSUME NEW i \in 1 .. N
      PROVE  /\ m[i] \in Seq(K) /\ Len(m[i]) = Len(l[i]) /\ o[i + 1] = o[i] + Len(l[i])
             /\ \A k \in 1 .. Len(l[i]) : w[o[i] + k] = m[i][k]
  <2> DEFINE y == l[i]
             e == o[i]
             v == ReplaceAll(y, p, q)
  <2>1. y \in Seq(K) /\ e \in Nat /\ Within(y, s, e, Len(y)) /\ o[i + 1] = e + Len(y)
    BY ChopWithin
  <2>2. m[i] = v
    OBVIOUS
  <2> HIDE DEF y, e, m, w
  <2>3. v \in Seq(K) /\ Len(v) = Len(y) /\ \A k \in 1 .. Len(y) : v[k] = IF y[k] = p THEN q ELSE y[k]
    <3>1. /\ Len(y) \in Nat
          /\ v \in [1 .. Len(y) -> K]
          /\ \A k \in 1 .. Len(y) : v[k] = IF y[k] = p THEN q ELSE y[k]
      BY <2>1 DEF ReplaceAll
    <3> HIDE DEF v
    <3> QED
      BY <3>1, Sequenced
  <2> HIDE DEF v
  <2>4. ASSUME NEW k \in 1 .. Len(y) PROVE w[e + k] = v[k]
    <3>1. s[e + k] = y[k] /\ e + k \in 1 .. Len(s)
      <4>1. Len(y) \in Nat /\ Len(s) \in Nat /\ e + Len(y) <= Len(s) /\ s[e + k] = y[k]
        BY <1>1, <2>1 DEF Within
      <4> QED
        BY <2>1, <4>1
    <3> QED
      BY <1>2, <2>3, <3>1
  <2> QED
    BY <2>1, <2>2, <2>3, <2>4 DEF y, e
<1>4. m \in [1 .. N -> Seq(K)]
  <2>1. \A i \in 1 .. N : ReplaceAll(l[i], p, q) \in Seq(K)
    BY <1>3
  <2> QED
    BY <2>1
<1> HIDE DEF m, w
<1>5. Chop(m, N, o, w, K)
  BY <1>1, <1>2, <1>3, <1>4 DEF Chop
<1> QED
  BY <1>5 DEF m, w

\* replace_ptr_list_entry replaces p once or everywhere.
LEMMA ReplaceShows ==
    ASSUME Inv, NEW s, NEW a, Showing(s, a), NEW p \in Ptrs, NEW q \in Ptrs, NEW count \in {0, 1},
           replace_ptr_list_entry(p, q, count)
    PROVE  \E t \in {ReplaceAll(s, p, q), Once(s, p, q)} : Shows(mem', head', walk', t, a)
<1>1. PICK N, r, o : Seen(mem, head, N, r, o, s) /\ Placed(walk, N, r, o, a)
  BY DEF Showing, Shows
<1>2. TypeOK /\ mem \in [Blocks -> PtrBlock] /\ head' = head /\ walk' = walk /\ walk.dir = "none" /\ a = 0
  BY <1>1 DEF Inv, TypeOK, replace_ptr_list_entry, Idle, NoWalk, Placed
<1>3. CASE count = 1
  <2>1. Has(p) /\ mem' = [mem EXCEPT ![BlockOf(p)].list = Once(@, p, q)]
    BY <1>3 DEF replace_ptr_list_entry, Once
  <2>2. PICK c \in 1 .. N : EditOf(mem, mem', r, o, s, c, Once(s, p, q))
    BY <1>1, <1>2, <2>1, OnceEdits
  <2> DEFINE w == Once(s, p, q)
  <2>3. EditOf(mem, mem', r, o, s, c, w)
    BY <2>2
  <2> HIDE DEF w
  <2>4. PICK o2 : Seen(mem', head, N, r, o2, w)
    BY <1>1, <1>2, <2>3, EditSeen
  <2>5. Shows(mem', head', walk', w, a)
    BY <1>2, <2>4 DEF Shows, Placed
  <2> QED
    BY <2>5 DEF w
<1>4. CASE count # 1
  <2>1. mem' = [b \in Blocks |-> [mem[b] EXCEPT !.list = ReplaceAll(@, p, q)]]
    BY <1>4 DEF replace_ptr_list_entry
  <2>2. ASSUME NEW b \in Blocks
        PROVE  mem'[b].next = mem[b].next /\ mem'[b].used = mem[b].used /\ mem'[b].list = ReplaceAll(mem[b].list, p, q)
    <3>1. mem[b] \in PtrBlock /\ mem'[b] = [mem[b] EXCEPT !.list = ReplaceAll(@, p, q)]
      BY <1>2, <2>1
    <3> QED
      BY <3>1 DEF PtrBlock
  <2> DEFINE l == ListsOf(mem, N, r)
             l2 == [i \in 1 .. N |-> ReplaceAll(l[i], p, q)]
  <2>3. /\ RingOf(mem, head, N, r) /\ Chop(l, N, o, s, Ptrs)
        /\ \A i \in 1 .. N : r[i] \in Blocks /\ l[i] = mem[r[i]].list
    BY <1>1, <1>2, SeenIs
  <2>4. RingOf(mem', head, N, r)
    BY <2>2, <2>3, RingSame
  <2>5. ListsOf(mem', N, r) = l2
    BY <2>2, <2>3 DEF ListsOf
  <2>6. Chop(l2, N, o, ReplaceAll(s, p, q), Ptrs)
    <3> HIDE DEF l
    <3> QED
      BY <2>3, ChopReplace
  <2>7. Seen(mem', head, N, r, o, ReplaceAll(s, p, q))
    BY <2>4, <2>5, <2>6 DEF Seen
  <2>8. Shows(mem', head', walk', ReplaceAll(s, p, q), a)
    BY <1>2, <2>7 DEF Shows, Placed
  <2> QED
    BY <2>8
<1> QED
  BY <1>3, <1>4

\* What pack_ptr_list takes out is empty, so nothing changes.
LEMMA UnlinkShows ==
    ASSUME Inv, NEW s, NEW a, Showing(s, a), walk' = walk, walk.dir = "none",
           NEW b \in Blocks, mem[b].used, mem[b].list = <<>>, mem[b].next # b,
           mem' = unlink(b), head' = IF b = head THEN mem[b].next ELSE head
    PROVE  Shows(mem', head', walk', s, a)
<1>1. PICK N, r, o : Seen(mem, head, N, r, o, s) /\ Placed(walk, N, r, o, a)
  BY DEF Showing, Shows
<1>2. /\ TypeOK /\ LinksAgree /\ mem \in [Blocks -> PtrBlock] /\ a = 0
      /\ RingOf(mem, head, N, r)
  BY <1>1, SeenIs DEF Inv, TypeOK, Placed
<1>3. PICK c \in 1 .. N : r[c] = b
  BY <1>2 DEF RingOf
<1>4. N # 1
  <2>1. N = 1 => c = 1 /\ r[1] = head /\ mem[r[1]].next = head
    BY <1>2, <1>3 DEF RingOf
  <2> QED
    BY <1>3, <2>1
<1>5. Unplugged(mem', mem, b)
  <2>1. ~mem'[b].used
    BY <1>2, Unlinked DEF FreeBlock
  <2>2. ASSUME NEW d \in Blocks, d # b
        PROVE  /\ mem[d].used => mem'[d].next = IF mem[d].next = b THEN mem[b].next ELSE mem[d].next
               /\ mem'[d].used = mem[d].used /\ mem'[d].list = mem[d].list
    <3>1. /\ mem'[d].next = IF d = mem[b].prev THEN mem[b].next ELSE mem[d].next
          /\ mem'[d].used = mem[d].used /\ mem'[d].list = mem[d].list
      BY <1>2, <2>2, Unlinked
    <3>2. mem[mem[b].prev].next = b
      BY <1>2 DEF LinksAgree
    <3>3. mem[d].used /\ mem[d].next = b => mem[b].prev = d
      BY <1>2 DEF LinksAgree
    <3> QED
      BY <3>1, <3>2, <3>3
  <2> QED
    BY <2>1, <2>2 DEF Unplugged
<1>6. DropOf(mem, mem', head, head', r, c)
  BY <1>3, <1>5 DEF DropOf, NewHead
<1>7. PICK M, q, p : Seen(mem', head', M, q, p, s)
  BY <1>1, <1>2, <1>4, <1>6, DropSeen
<1> QED
  BY <1>2, <1>7 DEF Shows, Placed

\* Packing changes nothing.
LEMMA PackShows ==
    ASSUME Inv, NEW s, NEW a, Showing(s, a), FreeHead \/ PackBlock
    PROVE  Shows(mem', head', walk', s, a) /\ walk.dir = "none"
<1>1. /\ TypeOK /\ LinksAgree /\ Reached /\ packing # Null /\ packing \in Blocks /\ mem[packing].used
      /\ walk' = walk /\ walk.dir = "none" /\ head # Null
  BY DEF Inv, TypeOK, Cursors, NoWalk, FreeHead, PackBlock
<1>2. CASE mem' = mem /\ head' = head
  BY <1>1, <1>2 DEF Showing
<1>3. CASE /\ mem[packing].list = <<>> /\ mem' = unlink(packing) /\ mem[packing].next # packing
           /\ head' = IF packing = head THEN mem[packing].next ELSE head
  BY <1>1, <1>3, UnlinkShows
<1>4. mem[packing].next = packing => packing = head
  BY <1>1, Alone
<1>5. CASE FreeHead
  BY <1>3, <1>5 DEF FreeHead
<1>6. CASE PackBlock
  BY <1>2, <1>3, <1>4, <1>6 DEF PackBlock
<1> QED
  BY <1>5, <1>6

\* A list that is all empty is nothing, with a block or without one.
LEMMA FreeAllShows ==
    ASSUME Inv, NEW s, NEW a, Showing(s, a), FreeAll
    PROVE  Shows(mem', head', walk', s, a) /\ walk.dir = "none"
<1>1. PICK N, r, o : Seen(mem, head, N, r, o, s) /\ Placed(walk, N, r, o, a)
  BY DEF Showing, Shows
<1>2. /\ TypeOK /\ LinksAgree /\ Reached /\ packing # Null /\ packing \in Blocks /\ mem[packing].used
      /\ walk' = walk /\ walk.dir = "none" /\ head # Null /\ mem \in [Blocks -> PtrBlock] /\ a = 0
  BY <1>1 DEF Inv, TypeOK, Cursors, NoWalk, FreeAll, Placed
<1>3. /\ mem[packing].list = <<>> /\ mem' = [mem EXCEPT ![packing] = FreeBlock] /\ head' = Null
      /\ \A c \in Blocks : mem[c].used => c = packing
  BY <1>2, Alone DEF FreeAll
<1>4. \A c \in Blocks : ~mem'[c].used
  BY <1>2, <1>3 DEF FreeBlock
<1>5. s = <<>>
  <2>1. /\ RingOf(mem, head, N, r) /\ o[1] = 0 /\ o[N + 1] = Len(s) /\ s \in Seq(Ptrs) /\ N \in Nat
        /\ \A i \in 1 .. N : mem[r[i]].used /\ r[i] \in Blocks /\ o[i + 1] = o[i] + Len(mem[r[i]].list)
    BY <1>1, <1>2, SeenIs
  <2>2. N # 0 /\ 1 \in 1 .. N /\ N \in 1 .. N
    BY <1>2, <2>1 DEF RingOf
  <2>3. r[1] = packing /\ r[N] = packing
    BY <1>3, <2>1, <2>2
  <2>4. N = 1
    BY <2>1, <2>2, <2>3 DEF RingOf
  <2>5. o[1 + 1] = 0 + Len(mem[packing].list)
    BY <2>1, <2>2, <2>3
  <2>6. Len(s) = 0
    BY <1>3, <2>1, <2>4, <2>5
  <2> QED
    BY <2>1, <2>6
<1>6. PICK r2, o2 : Seen(mem', Null, 0, r2, o2, s)
  BY <1>4, <1>5, NoneSeen
<1> QED
  BY <1>2, <1>3, <1>6 DEF Shows, Placed

\* The loop is in block c of the ring, and its place is that in its list.
InBlock(N, r, o, s, a, c) ==
    /\ walk.list = r[c] /\ a = o[c] + walk.nr /\ walk.nr \in Nat
    /\ r[c] \in Blocks /\ mem[r[c]].used /\ mem[r[c]].list \in Seq(Ptrs)
    /\ o[c] \in Nat /\ Len(mem[r[c]].list) \in Nat /\ a \in Nat
    /\ o[c + 1] = o[c] + Len(mem[r[c]].list)
    /\ Within(mem[r[c]].list, s, o[c], Len(mem[r[c]].list))

\* It is, in some block.
LEMMA LoopAt ==
    ASSUME Inv, walk.dir # "none", NEW s, NEW a, Showing(s, a)
    PROVE  /\ mem \in [Blocks -> PtrBlock] /\ head # Null /\ (LoopOk => walk.head = head)
           /\ \E N, r, o : /\ Seen(mem, head, N, r, o, s) /\ RingOf(mem, head, N, r)
                           /\ N \in Nat /\ s \in Seq(Ptrs) /\ Len(s) \in Nat
                           /\ o[N + 1] = Len(s) /\ o[1] = 0
                           /\ \E c \in 1 .. N : InBlock(N, r, o, s, a, c)
<1>1. PICK N, r, o : Seen(mem, head, N, r, o, s) /\ Placed(walk, N, r, o, a)
  BY DEF Showing, Shows
<1>2. /\ N \in Nat /\ s \in Seq(Ptrs) /\ Len(s) \in Nat /\ RingOf(mem, head, N, r)
      /\ o[N + 1] = Len(s) /\ o[1] = 0
  BY <1>1, SeenIs DEF Inv
<1>3. PICK c \in 1 .. N : walk.list = r[c] /\ a = o[c] + walk.nr
  BY <1>1 DEF Placed
<1>4. /\ r[c] \in Blocks /\ mem[r[c]].used /\ mem[r[c]].list \in Seq(Ptrs) /\ o[c] \in Nat
      /\ Len(mem[r[c]].list) \in Nat /\ o[c + 1] = o[c] + Len(mem[r[c]].list)
      /\ Within(mem[r[c]].list, s, o[c], Len(mem[r[c]].list))
  BY <1>1, SeenIs DEF Inv
<1>5. walk.nr \in Nat /\ mem \in [Blocks -> PtrBlock] /\ head # Null
  BY DEF Inv, TypeOK, Cursors
<1>6. a \in Nat
  BY <1>3, <1>4, <1>5
<1>7. InBlock(N, r, o, s, a, c)
  BY <1>3, <1>4, <1>5, <1>6 DEF InBlock
<1>8. LoopOk => walk.head = head
  BY DEF LoopOk
<1> QED
  BY <1>1, <1>2, <1>5, <1>7, <1>8

\* FOR_EACH_PTR starts before the first element,
LEMMA ForwardShows ==
    ASSUME Inv, NEW s, NEW a, Showing(s, a), FOR_EACH_PTR
    PROVE  Shows(mem', head', walk', s, 0)
<1>1. PICK N, r, o : Seen(mem, head, N, r, o, s)
  BY DEF Showing, Shows
<1>2. 1 \in 1 .. N /\ r[1] = head /\ o[1] = 0
  <2>1. TypeOK /\ LinksAgree /\ head # Null
    BY DEF Inv, FOR_EACH_PTR
  <2> QED
    BY <1>1, <2>1, SeenIs, LastOfRing
<1>3. mem' = mem /\ head' = head /\ walk'.dir = "forward" /\ walk'.list = r[1] /\ walk'.nr = 0
  BY <1>2 DEF FOR_EACH_PTR
<1>4. 0 = o[1] + walk'.nr
  BY <1>2, <1>3
<1>5. Placed(walk', N, r, o, 0)
  BY <1>2, <1>3, <1>4 DEF Placed
<1> QED
  BY <1>1, <1>3, <1>5 DEF Shows

\* and FOR_EACH_PTR_REVERSE after the last one.
LEMMA BackwardShows ==
    ASSUME Inv, NEW s, NEW a, Showing(s, a), FOR_EACH_PTR_REVERSE
    PROVE  Shows(mem', head', walk', s, Len(s) + 1)
<1>1. PICK N, r, o : Seen(mem, head, N, r, o, s)
  BY DEF Showing, Shows
<1>2. N \in 1 .. N /\ mem[head].prev = r[N] /\ TypeOK
  <2>1. TypeOK /\ LinksAgree /\ head # Null
    BY DEF Inv, FOR_EACH_PTR_REVERSE
  <2> QED
    BY <1>1, <2>1, SeenIs, LastOfRing
<1>3. /\ mem' = mem /\ head' = head /\ walk'.dir = "backward" /\ walk'.list = r[N]
      /\ walk'.nr = Len(mem[r[N]].list) + 1
  BY <1>2 DEF FOR_EACH_PTR_REVERSE
<1>4. o[N] \in Nat /\ Len(mem[r[N]].list) \in Nat /\ Len(s) = o[N] + Len(mem[r[N]].list)
  <2>1. /\ o[N + 1] = Len(s)
        /\ \A i \in 1 .. N : /\ o[i] \in Nat /\ Len(mem[r[i]].list) \in Nat
                             /\ o[i + 1] = o[i] + Len(mem[r[i]].list)
    BY <1>1, <1>2, SeenIs
  <2> QED
    BY <1>2, <2>1
<1>5. Len(s) + 1 = o[N] + walk'.nr
  BY <1>3, <1>4
<1>6. Placed(walk', N, r, o, Len(s) + 1)
  BY <1>2, <1>3, <1>5 DEF Placed
<1> QED
  BY <1>1, <1>3, <1>6 DEF Shows

\* What a loop finds at place nr of its block is what is there in the sequence.
LEMMA EntryShows ==
    ASSUME NEW N, NEW r, NEW o, NEW s, Len(s) \in Nat, NEW a, NEW c \in 1 .. N, InBlock(N, r, o, s, a, c),
           NEW k \in 1 .. Len(mem[r[c]].list)
    PROVE  Entry(walk.list, k) = s[o[c] + k] /\ o[c] + k \in 1 .. Len(s)
<1> DEFINE y == mem[r[c]].list
           e == o[c]
<1>1. y \in Seq(Ptrs) /\ e \in Nat /\ Len(y) \in Nat /\ Within(y, s, e, Len(y)) /\ walk.list = r[c]
  BY DEF InBlock
<1>2. Entry(walk.list, k) = y[k]
  BY <1>1 DEF Entry
<1> HIDE DEF y, e
<1>3. k \in 1 .. Len(y)
  BY DEF y
<1>4. e + Len(y) <= Len(s) /\ s[e + k] = y[k]
  BY <1>1, <1>3 DEF Within
<1> QED
  BY <1>1, <1>2, <1>3, <1>4 DEF e

\* A loop goes on to the next element, or to the one before.
LEMMA ElementShows ==
    ASSUME Inv, NEW s, NEW a, Showing(s, a)
    PROVE  /\ ForwardElement => a + 1 \in DOMAIN s /\ out' = s[a + 1] /\ Shows(mem', head', walk', s, a + 1)
           /\ BackwardElement => a - 1 \in DOMAIN s /\ out' = s[a - 1] /\ Shows(mem', head', walk', s, a - 1)
<1> SUFFICES ASSUME ForwardElement \/ BackwardElement
             PROVE  /\ ForwardElement => a + 1 \in DOMAIN s /\ out' = s[a + 1] /\ Shows(mem', head', walk', s, a + 1)
                    /\ BackwardElement => a - 1 \in DOMAIN s /\ out' = s[a - 1] /\ Shows(mem', head', walk', s, a - 1)
  OBVIOUS
<1>1. walk.dir # "none" /\ (walk.dir = "backward" => walk.nr <= Len(mem[walk.list].list) + 1)
  BY DEF Inv, Cursors, ForwardElement, BackwardElement, Looping
<1>2. PICK N, r, o : /\ Seen(mem, head, N, r, o, s) /\ N \in Nat /\ s \in Seq(Ptrs) /\ Len(s) \in Nat
                     /\ \E c \in 1 .. N : InBlock(N, r, o, s, a, c)
  BY <1>1, LoopAt
<1>3. PICK c \in 1 .. N : InBlock(N, r, o, s, a, c)
  BY <1>2
<1>4. DOMAIN s = 1 .. Len(s)
  BY <1>2
<1> DEFINE n == walk.nr
           z == Len(mem[r[c]].list)
<1>5. walk.list = r[c] /\ a = o[c] + n /\ n \in Nat /\ z \in Nat /\ o[c] \in Nat
  BY <1>3 DEF InBlock
<1>6. \A k \in 1 .. z : Entry(walk.list, k) = s[o[c] + k] /\ o[c] + k \in 1 .. Len(s)
  BY <1>2, <1>3, EntryShows
<1>7. walk \in [dir: {"none", "forward", "backward"}, head: Blocks \cup {Null},
                 list: Blocks \cup {Null}, nr: 0 .. NR + 1, in: BOOLEAN]
  BY DEF Inv, TypeOK
<1>8. CASE ForwardElement
  <2>1. /\ n < z /\ walk' = [walk EXCEPT !.nr = n + 1, !.in = TRUE] /\ out' = Entry(walk.list, n + 1)
        /\ mem' = mem /\ head' = head
    BY <1>5, <1>8 DEF ForwardElement, Returns, Reads
  <2>2. walk'.dir = walk.dir /\ walk'.list = r[c] /\ walk'.nr = n + 1
    BY <1>5, <1>7, <2>1
  <2> HIDE DEF n, z
  <2>3. n + 1 \in 1 .. z /\ a + 1 = o[c] + (n + 1)
    BY <1>5, <2>1
  <2>4. out' = s[a + 1] /\ a + 1 \in 1 .. Len(s)
    BY <1>6, <2>1, <2>3
  <2>5. Placed(walk', N, r, o, a + 1)
    BY <1>1, <2>2, <2>3 DEF Placed
  <2>6. ~BackwardElement
    BY <1>8 DEF ForwardElement, BackwardElement, Looping
  <2> QED
    BY <1>2, <1>4, <2>1, <2>4, <2>5, <2>6 DEF Shows
<1>9. CASE BackwardElement
  <2>1. /\ n > 1 /\ walk' = [walk EXCEPT !.nr = n - 1, !.in = TRUE] /\ out' = Entry(walk.list, n - 1)
        /\ mem' = mem /\ head' = head /\ n <= z + 1
    BY <1>1, <1>5, <1>9 DEF BackwardElement, Returns, Reads, Looping
  <2>2. walk'.dir = walk.dir /\ walk'.list = r[c] /\ walk'.nr = n - 1
    BY <1>5, <1>7, <2>1
  <2> HIDE DEF n, z
  <2>3. n - 1 \in 1 .. z /\ a - 1 = o[c] + (n - 1)
    BY <1>5, <2>1
  <2>4. out' = s[a - 1] /\ a - 1 \in 1 .. Len(s)
    BY <1>6, <2>1, <2>3
  <2>5. Placed(walk', N, r, o, a - 1)
    BY <1>1, <2>2, <2>3 DEF Placed
  <2>6. ~ForwardElement
    BY <1>9 DEF ForwardElement, BackwardElement, Looping
  <2> QED
    BY <1>2, <1>4, <2>1, <2>4, <2>5, <2>6 DEF Shows
<1> QED
  BY <1>8, <1>9

\* Past the last element of a block a loop ends, if that is the last one, or is
\* where it was, between two blocks.
LEMMA BlockShows ==
    ASSUME Inv, LoopOk, NEW s, NEW a, Showing(s, a), ForwardBlock \/ BackwardBlock
    PROVE  \/ walk' # NoWalk /\ walk'.dir = walk.dir /\ Shows(mem', head', walk', s, a)
           \/ /\ walk' = NoWalk /\ Shows(mem', head', walk', s, 0)
              /\ a = IF walk.dir = "forward" THEN Len(s) ELSE 1
<1>1. walk.dir # "none" /\ walk.head = head /\ TypeOK /\ LinksAgree /\ mem' = mem /\ head' = head
  BY DEF Inv, LoopOk, ForwardBlock, BackwardBlock, Looping, Reads
<1>2. PICK N, r, o : /\ Seen(mem, head, N, r, o, s) /\ RingOf(mem, head, N, r) /\ N \in Nat
                     /\ o[N + 1] = Len(s) /\ o[1] = 0
                     /\ \E c \in 1 .. N : InBlock(N, r, o, s, a, c)
  BY <1>1, LoopAt
<1>3. PICK c \in 1 .. N : InBlock(N, r, o, s, a, c)
  BY <1>2
<1> DEFINE n == walk.nr
           z == Len(mem[r[c]].list)
<1>4. walk.list = r[c] /\ a = o[c] + n /\ n \in Nat /\ z \in Nat /\ o[c] \in Nat /\ o[c + 1] = o[c] + z
  BY <1>3 DEF InBlock
<1>5. walk \in [dir: {"none", "forward", "backward"}, head: Blocks \cup {Null},
                 list: Blocks \cup {Null}, nr: 0 .. NR + 1, in: BOOLEAN]
  BY DEF Inv, TypeOK
<1>6. /\ N \in 1 .. N /\ 1 \in 1 .. N /\ r[1] = head /\ mem[r[N]].next = head
      /\ \A i \in 1 .. N : i < N => mem[r[i]].next = r[i + 1]
      /\ \A i, j \in 1 .. N : r[i] = r[j] => i = j
      /\ \A i \in 1 .. N : r[i] \in Blocks /\ mem[r[i]].used
  BY <1>2, <1>3 DEF RingOf
<1>7. ASSUME walk' = NoWalk PROVE Shows(mem', head', walk', s, 0)
  BY <1>1, <1>2, <1>7 DEF Shows, Placed, NoWalk
<1>8. CASE ForwardBlock
  <2>1. /\ walk.dir = "forward" /\ n = z
        /\ walk' = IF mem[r[c]].next = head THEN NoWalk ELSE [walk EXCEPT !.list = mem[r[c]].next, !.nr = 0]
    <3>1. n >= z /\ n <= z /\ walk.dir = "forward"
      BY <1>4, <1>8 DEF ForwardBlock, Looping, LoopOk
    <3>2. walk' = IF mem[r[c]].next = head THEN NoWalk ELSE [walk EXCEPT !.list = mem[r[c]].next, !.nr = 0]
      BY <1>1, <1>4, <1>8 DEF ForwardBlock
    <3> QED
      BY <1>4, <3>1, <3>2
  <2>2. CASE c = N
    BY <1>2, <1>4, <1>6, <1>7, <2>1, <2>2
  <2>3. CASE c # N
    <3>1. c < N /\ c + 1 \in 1 .. N /\ c + 1 # 1
      BY <1>2, <2>3
    <3>2. mem[r[c]].next = r[c + 1] /\ r[c + 1] # head
      BY <1>6, <3>1
    <3>3. walk'.dir = walk.dir /\ walk'.list = r[c + 1] /\ walk'.nr = 0
      BY <1>5, <2>1, <3>2
    <3>4. a = o[c + 1] + walk'.nr
      BY <1>4, <2>1, <3>3
    <3>5. Placed(walk', N, r, o, a)
      BY <1>1, <3>1, <3>3, <3>4 DEF Placed
    <3> QED
      BY <1>1, <1>2, <3>3, <3>5 DEF Shows, NoWalk
  <2> QED
    BY <2>2, <2>3
<1>9. CASE BackwardBlock
  <2>1. /\ walk.dir = "backward" /\ n = 1
        /\ walk' = IF r[c] = head THEN NoWalk
                   ELSE [walk EXCEPT !.list = mem[r[c]].prev, !.nr = Len(mem[mem[r[c]].prev].list) + 1]
    <3>1. n <= 1 /\ n >= 1 /\ walk.dir = "backward"
      BY <1>9 DEF BackwardBlock, Looping, LoopOk
    <3>2. walk' = IF r[c] = head THEN NoWalk
                  ELSE [walk EXCEPT !.list = mem[r[c]].prev, !.nr = Len(mem[mem[r[c]].prev].list) + 1]
      BY <1>1, <1>4, <1>9 DEF BackwardBlock
    <3> QED
      BY <1>4, <3>1, <3>2
  <2>2. CASE c = 1
    <3>1. a = 1
      BY <1>2, <1>4, <2>1, <2>2
    <3>2. walk' = NoWalk
      BY <1>6, <2>1, <2>2
    <3> QED
      BY <1>7, <2>1, <3>1, <3>2
  <2>3. CASE c # 1
    <3>1. c - 1 \in 1 .. N /\ mem[r[c]].prev = r[c - 1] /\ (c - 1) + 1 = c
      BY <1>1, <1>2, <2>3, BeforeInRing
    <3>2. r[c] # head
      BY <1>6, <2>3
    <3>3. walk'.dir = walk.dir /\ walk'.list = r[c - 1] /\ walk'.nr = Len(mem[r[c - 1]].list) + 1
      BY <1>5, <2>1, <3>1, <3>2
    <3>4. o[c - 1] \in Nat /\ Len(mem[r[c - 1]].list) \in Nat /\ o[c] = o[c - 1] + Len(mem[r[c - 1]].list)
      <4> DEFINE i == c - 1
      <4>1. i \in 1 .. N
        BY <3>1
      <4> HIDE DEF i
      <4>2. o[i] \in Nat /\ Len(mem[r[i]].list) \in Nat /\ o[i + 1] = o[i] + Len(mem[r[i]].list)
        BY <1>1, <1>2, <4>1, SeenIs
      <4>3. i + 1 = c
        BY <3>1 DEF i
      <4>4. o[c] = o[i] + Len(mem[r[i]].list)
        BY <4>2, <4>3
      <4> QED
        BY <4>2, <4>4 DEF i
    <3>5. a = o[c - 1] + walk'.nr
      <4>1. a = o[c] + 1
        BY <1>4, <2>1
      <4> QED
        BY <3>3, <3>4, <4>1
    <3>6. Placed(walk', N, r, o, a)
      BY <1>1, <3>1, <3>3, <3>5 DEF Placed
    <3> QED
      BY <1>1, <1>2, <3>3, <3>6 DEF Shows, NoWalk
  <2> QED
    BY <2>2, <2>3
<1> QED
  BY <1>8, <1>9

\* The end of the body of a loop moves nothing.
LEMMA BodyShows ==
    ASSUME Inv, NEW s, NEW a, Showing(s, a), BodyEnds
    PROVE  Shows(mem', head', walk', s, a)
<1>1. PICK N, r, o : Seen(mem, head, N, r, o, s) /\ Placed(walk, N, r, o, a)
  BY DEF Showing, Shows
<1>2. walk'.dir = walk.dir /\ walk'.list = walk.list /\ walk'.nr = walk.nr /\ mem' = mem /\ head' = head
  BY DEF Inv, TypeOK, BodyEnds, Reads
<1>3. Placed(walk', N, r, o, a)
  BY <1>1, <1>2 DEF Placed
<1> QED
  BY <1>1, <1>2, <1>3 DEF Shows

\* The body of a loop runs at an element.
LEMMA BodyAt ==
    ASSUME Inv, walk.in, NEW s, NEW a, Showing(s, a)
    PROVE  /\ mem \in [Blocks -> PtrBlock] /\ walk.dir # "none"
           /\ \E N, r, o : /\ Seen(mem, head, N, r, o, s) /\ RingOf(mem, head, N, r)
                           /\ N \in Nat /\ s \in Seq(Ptrs)
                           /\ \E c \in 1 .. N : /\ InBlock(N, r, o, s, a, c)
                                                /\ walk.nr \in 1 .. Len(mem[r[c]].list)
<1>1. walk.dir # "none" /\ walk.nr \in 1 .. Len(mem[walk.list].list)
  BY DEF Inv, Cursors
<1>2. /\ mem \in [Blocks -> PtrBlock]
      /\ \E N, r, o : /\ Seen(mem, head, N, r, o, s) /\ RingOf(mem, head, N, r)
                      /\ N \in Nat /\ s \in Seq(Ptrs)
                      /\ \E c \in 1 .. N : InBlock(N, r, o, s, a, c)
  BY <1>1, LoopAt
<1>3. ASSUME NEW N, NEW r, NEW o, NEW c \in 1 .. N, InBlock(N, r, o, s, a, c)
      PROVE  walk.nr \in 1 .. Len(mem[r[c]].list)
  BY <1>1, <1>3 DEF InBlock
<1> QED
  BY <1>1, <1>2, <1>3

\* It changes the list it is in at place k.
ChangeOf(r, s, o, c, t, w) ==
    /\ w \in Seq(Ptrs) /\ mem' = WithList(mem, r[c], t) /\ t \in Seq(Ptrs)
    /\ \E x \in Nat, z \in Nat : Spliced(w, s, o[c], t, x, mem[r[c]].list, z)

\* Then the sequence changes there, and the loop is in the same block.
LEMMA ChangeShows ==
    ASSUME Inv, NEW s, NEW a, NEW N, NEW r, NEW o, Seen(mem, head, N, r, o, s), NEW c \in 1 .. N,
           InBlock(N, r, o, s, a, c), NEW t, NEW w, ChangeOf(r, s, o, c, t, w),
           head' = head, walk'.dir # "none", walk'.list = walk.list
    PROVE  Shows(mem', head', walk', w, o[c] + walk'.nr)
<1>1. mem \in [Blocks -> PtrBlock] /\ walk'.list = r[c]
  BY DEF Inv, TypeOK, InBlock
<1>2. Relisted(mem', mem, r[c], t)
  <2> DEFINE b == r[c]
  <2>1. b \in Blocks /\ t \in Seq(Ptrs) /\ mem' = WithList(mem, b, t)
    BY DEF InBlock, ChangeOf
  <2> HIDE DEF b
  <2>2. Relisted(WithList(mem, b, t), mem, b, t)
    BY <1>1, <2>1, RelistedIs
  <2> QED
    BY <2>1, <2>2 DEF b
<1>3. EditOf(mem, mem', r, o, s, c, w)
  BY <1>2 DEF EditOf, ChangeOf
<1>4. PICK p : Seen(mem', head, N, r, p, w) /\ \A i \in 1 .. c : p[i] = o[i]
  BY <1>1, <1>3, EditSeen
<1>5. c \in 1 .. c
  BY SeenIs DEF Inv
<1>6. p[c] = o[c]
  BY <1>4, <1>5
<1>7. Placed(walk', N, r, p, o[c] + walk'.nr)
  BY <1>1, <1>6 DEF Placed
<1> QED
  BY <1>4, <1>7 DEF Shows

\* DELETE_CURRENT_PTR takes the current element out and goes back to the one
\* before.
LEMMA DeleteCurrentShows ==
    ASSUME Inv, NEW s, NEW a, Showing(s, a), DELETE_CURRENT_PTR
    PROVE  Shows(mem', head', walk', RemoveAt(s, a), a - 1)
<1>1. walk.in /\ head' = head /\ walk' = [walk EXCEPT !.nr = @ - 1, !.in = FALSE]
      /\ mem' = [mem EXCEPT ![walk.list].list = RemoveAt(@, walk.nr)]
  BY DEF DELETE_CURRENT_PTR
<1>2. PICK N, r, o : /\ Seen(mem, head, N, r, o, s) /\ N \in Nat /\ s \in Seq(Ptrs)
                     /\ \E c \in 1 .. N : /\ InBlock(N, r, o, s, a, c)
                                          /\ walk.nr \in 1 .. Len(mem[r[c]].list)
  BY <1>1, BodyAt
<1>3. PICK c \in 1 .. N : InBlock(N, r, o, s, a, c) /\ walk.nr \in 1 .. Len(mem[r[c]].list)
  BY <1>2
<1> DEFINE y == mem[r[c]].list
           z == Len(y)
           e == o[c]
           k == walk.nr
           t == RemoveAt(y, k)
           w == RemoveAt(s, a)
<1>4. /\ walk.list = r[c] /\ a = e + k /\ y \in Seq(Ptrs) /\ e \in Nat /\ z \in Nat /\ k \in 1 .. z
      /\ Within(y, s, e, z) /\ walk.dir # "none"
  BY <1>1, <1>3, BodyAt DEF InBlock
<1>5. walk'.dir # "none" /\ walk'.list = walk.list /\ walk'.nr = k - 1
  BY <1>1, <1>4 DEF Inv, TypeOK
<1>6. mem' = WithList(mem, r[c], t)
  BY <1>1, <1>4 DEF WithList
<1> HIDE DEF y, z, e, k
<1>7. w \in Seq(Ptrs) /\ t \in Seq(Ptrs) /\ z - 1 \in Nat /\ Spliced(w, s, e, t, z - 1, y, z)
  BY <1>2, <1>4, RemoveSplices
<1> HIDE DEF t, w
<1>8. ChangeOf(r, s, o, c, t, w)
  BY <1>4, <1>6, <1>7 DEF ChangeOf, e, y
<1>9. Shows(mem', head', walk', w, o[c] + walk'.nr)
  BY <1>1, <1>2, <1>3, <1>5, <1>8, ChangeShows
<1>10. o[c] + walk'.nr = a - 1
  BY <1>4, <1>5 DEF e
<1> QED
  BY <1>9, <1>10 DEF w

\* REPLACE_CURRENT_PTR replaces it.
LEMMA ReplaceCurrentShows ==
    ASSUME Inv, NEW s, NEW a, Showing(s, a), NEW p \in Ptrs, REPLACE_CURRENT_PTR(p)
    PROVE  Shows(mem', head', walk', [s EXCEPT ![a] = p], a)
<1>1. walk.in /\ head' = head /\ walk' = walk /\ mem' = [mem EXCEPT ![walk.list].list[walk.nr] = p]
  BY DEF REPLACE_CURRENT_PTR
<1>2. PICK N, r, o : /\ Seen(mem, head, N, r, o, s) /\ N \in Nat /\ s \in Seq(Ptrs)
                     /\ \E c \in 1 .. N : /\ InBlock(N, r, o, s, a, c)
                                          /\ walk.nr \in 1 .. Len(mem[r[c]].list)
  BY <1>1, BodyAt
<1>3. PICK c \in 1 .. N : InBlock(N, r, o, s, a, c) /\ walk.nr \in 1 .. Len(mem[r[c]].list)
  BY <1>2
<1> DEFINE y == mem[r[c]].list
           z == Len(y)
           e == o[c]
           k == walk.nr
           t == [y EXCEPT ![k] = p]
           w == [s EXCEPT ![a] = p]
<1>4. /\ walk.list = r[c] /\ a = e + k /\ y \in Seq(Ptrs) /\ e \in Nat /\ z \in Nat /\ k \in 1 .. z
      /\ Within(y, s, e, z) /\ walk.dir # "none"
  BY <1>1, <1>3, BodyAt DEF InBlock
<1>6. mem' = WithList(mem, r[c], t)
  BY <1>1, <1>4 DEF WithList
<1> HIDE DEF y, z, e, k
<1>7. w \in Seq(Ptrs) /\ t \in Seq(Ptrs) /\ Spliced(w, s, e, t, z, y, z)
  BY <1>2, <1>4, SetSplices
<1> HIDE DEF t, w
<1>8. ChangeOf(r, s, o, c, t, w)
  BY <1>4, <1>6, <1>7 DEF ChangeOf, e, y
<1>9. Shows(mem', head', walk', w, o[c] + walk'.nr)
  BY <1>1, <1>2, <1>3, <1>4, <1>8, ChangeShows
<1>10. o[c] + walk'.nr = a
  BY <1>1, <1>4 DEF e, k
<1> QED
  BY <1>9, <1>10 DEF w

\* Block r[c] of m gets e before place k.
InsertOf(m, m2, r, c, k, e) ==
    /\ e \in Ptrs /\ k \in 1 .. Len(m[r[c]].list) + 1 /\ r[c] \in Blocks
    /\ m2 = WithList(m, r[c], InsertAt(m[r[c]].list, k, e))

\* So does the sequence.
LEMMA InsertSeen ==
    ASSUME NEW m \in [Blocks -> PtrBlock], NEW h, NEW N, NEW r, NEW o, NEW s, Seen(m, h, N, r, o, s),
           NEW c \in 1 .. N, NEW m2, NEW k, NEW e, InsertOf(m, m2, r, c, k, e)
    PROVE  \E p : Seen(m2, h, N, r, p, InsertAt(s, o[c] + k, e)) /\ \A i \in 1 .. c : p[i] = o[i]
<1> DEFINE b == r[c]
           y == m[b].list
           z == Len(y)
           a == o[c]
           t == InsertAt(y, k, e)
           w == InsertAt(s, a + k, e)
           l == ListsOf(m, N, r)
<1>1. b \in Blocks /\ m2 = WithList(m, b, t) /\ e \in Ptrs /\ k \in 1 .. z + 1 /\ y \in Seq(Ptrs) /\ l[c] = y
  BY DEF InsertOf, PtrBlock, ListsOf
<1>2. Chop(l, N, o, s, Ptrs)
  BY DEF Seen
<1> HIDE DEF l, b, y
<1>3. /\ l[c] \in Seq(Ptrs)
      /\ Len(l[c]) \in Nat
      /\ a \in Nat
      /\ Within(l[c], s, a, Len(l[c]))
      /\ s \in Seq(Ptrs)
  BY <1>2, ChopWithin, ChopFacts
<1>4. z \in Nat /\ Within(y, s, a, z)
  BY <1>1, <1>3
<1> HIDE DEF z, a
<1>5. w \in Seq(Ptrs) /\ t \in Seq(Ptrs) /\ z + 1 \in Nat /\ Spliced(w, s, a, t, z + 1, y, z)
  BY <1>1, <1>3, <1>4, InsertSplices
<1> HIDE DEF t, w
<1>6. Relisted(m2, m, b, t)
  BY <1>1, <1>5, RelistedIs
<1>7. EditOf(m, m2, r, o, s, c, w)
  BY <1>4, <1>5, <1>6 DEF EditOf, b, y, a
<1>8. \E p : Seen(m2, h, N, r, p, w) /\ \A i \in 1 .. c : p[i] = o[i]
  BY <1>7, EditSeen
<1> QED
  BY <1>8 DEF w, a

\* A list cut in two is its first elements and the others.
LEMMA CutParts ==
    ASSUME NEW K, NEW y \in Seq(K), NEW x \in Nat, NEW z \in Nat, z = Len(y), x <= z
    PROVE  /\ SubSeq(y, 1, x) \in Seq(K) /\ SubSeq(y, x + 1, z) \in Seq(K) /\ z - x \in Nat
           /\ Parts(y, SubSeq(y, 1, x), SubSeq(y, x + 1, z), x, z - x)
<1> DEFINE u == SubSeq(y, 1, x)
           v == SubSeq(y, x + 1, z)
           n == x + 1
<1>1. /\ 1 \in 1 .. z + 1 /\ x \in 1 - 1 .. z /\ (x - 1) + 1 = x
      /\ n \in 1 .. z + 1 /\ z \in n - 1 .. z /\ (z - n) + 1 = z - x
      /\ z - x \in Nat /\ x + (z - x) = z
      /\ \A i \in 1 .. x : (1 + i) - 1 = i
      /\ \A i \in 1 .. z - x : (n + i) - 1 = x + i
  OBVIOUS
<1> HIDE DEF n
<1>2. u \in Seq(K) /\ Len(u) = (x - 1) + 1 /\ \A i \in 1 .. (x - 1) + 1 : u[i] = y[(1 + i) - 1]
  BY <1>1, CutIs
<1>3. /\ SubSeq(y, n, z) \in Seq(K)
      /\ Len(SubSeq(y, n, z)) = (z - n) + 1
      /\ \A i \in 1 .. (z - n) + 1 : SubSeq(y, n, z)[i] = y[(n + i) - 1]
  BY <1>1, CutIs
<1>4. v = SubSeq(y, n, z)
  BY DEF n
<1> HIDE DEF u, v
<1>5. Parts(y, u, v, x, z - x)
  BY <1>1, <1>2, <1>3, <1>4 DEF Parts
<1> QED
  BY <1>1, <1>2, <1>3, <1>4, <1>5 DEF u, v

\* INSERT_CURRENT puts an element before the current one.
LEMMA InsertCurrentShows ==
    ASSUME Inv, NEW s, NEW a, Showing(s, a), NEW p \in Ptrs, INSERT_CURRENT(p)
    PROVE  Shows(mem', head', walk', InsertAt(s, a, p), a)
<1>1. walk.in /\ head' = head /\ TypeOK /\ LinksAgree
  BY DEF INSERT_CURRENT, Inv
<1>2. PICK N, r, o : /\ Seen(mem, head, N, r, o, s) /\ N \in Nat /\ s \in Seq(Ptrs)
                     /\ \E c \in 1 .. N : /\ InBlock(N, r, o, s, a, c)
                                          /\ walk.nr \in 1 .. Len(mem[r[c]].list)
  BY <1>1, BodyAt
<1>3. PICK c \in 1 .. N : InBlock(N, r, o, s, a, c) /\ walk.nr \in 1 .. Len(mem[r[c]].list)
  BY <1>2
<1> DEFINE b == r[c]
           y == mem[b].list
           z == Len(y)
           e == o[c]
           k == walk.nr
<1>4. /\ walk.list = b /\ a = e + k /\ y \in Seq(Ptrs) /\ e \in Nat /\ z \in Nat /\ k \in 1 .. z
      /\ b \in Blocks /\ mem[b].used /\ walk.dir # "none" /\ mem \in [Blocks -> PtrBlock]
  BY <1>1, <1>3, BodyAt DEF InBlock
<1>5. CASE ~Full(b)
  <2>1. walk' = walk /\ mem' = WithList(mem, b, InsertAt(y, k, p))
    BY <1>4, <1>5 DEF INSERT_CURRENT, WithList
  <2>2. k \in 1 .. z + 1
    <3> HIDE DEF k, z
    <3> QED
      BY <1>4
  <2>3. InsertOf(mem, mem', r, c, k, p)
    BY <1>4, <2>1, <2>2 DEF InsertOf
  <2> HIDE DEF k
  <2>4. PICK q : Seen(mem', head, N, r, q, InsertAt(s, o[c] + k, p)) /\ \A i \in 1 .. c : q[i] = o[i]
    <3>1. mem \in [Blocks -> PtrBlock] /\ Seen(mem, head, N, r, o, s)
      BY <1>2, <1>4
    <3> HIDE DEF b, y, z, e
    <3> QED
      BY <2>3, <3>1, InsertSeen
  <2>5. c \in 1 .. c
    BY <1>2
  <2>6. q[c] = e
    BY <2>4, <2>5
  <2>7. Placed(walk', N, r, q, a)
    BY <1>4, <2>1, <2>6 DEF Placed, k
  <2>8. InsertAt(s, o[c] + k, p) = InsertAt(s, a, p)
    BY <1>4
  <2> QED
    BY <1>1, <2>4, <2>7, <2>8 DEF Shows
<1>6. CASE Full(b)
  <2> DEFINE n == NewBlock
             x == KeptBySplit(z)
             v == SubSeq(y, x + 1, z)
             u == SubSeq(y, 1, x)
             m == WithList(link(b, n, v), b, u)
  <2>1. n \in Blocks /\ ~mem[n].used /\ n # b
    BY <1>4, <1>6, NewBlockUnused DEF INSERT_CURRENT
  <2>2. z \in Nat /\ z >= 2 /\ x \in Nat /\ x >= 1 /\ x + 1 <= z
    <3>1. NR \in Nat /\ NR >= 2 /\ z >= NR
      BY <1>6, PtrListAssumption DEF Full
    <3> HIDE DEF z
    <3> QED
      BY <1>4, <3>1, Halves
  <2>3. u \in Seq(Ptrs) /\ v \in Seq(Ptrs) /\ z - x \in Nat /\ Parts(y, u, v, x, z - x)
    <3>1. y \in Seq(Ptrs) /\ z \in Nat /\ z = Len(y) /\ x <= z
      BY <1>4, <2>2
    <3> HIDE DEF y, x, z
    <3> QED
      BY <2>2, <3>1, CutParts
  <2> HIDE DEF n, x, u, v
  <2>4. m \in [Blocks -> PtrBlock] /\ Plugged(m, mem, b, n, u, v) /\ m[b].list = u /\ m[n].list = v
    <3> DEFINE h == link(b, n, v)
    <3>1. h \in [Blocks -> PtrBlock] /\ Plugged(h, mem, b, n, y, v)
      <4> HIDE DEF b
      <4> QED
        BY <1>1, <1>4, <2>1, <2>3, PluggedIs DEF y
    <3> HIDE DEF h, b, y
    <3>2. WithList(h, b, u) \in [Blocks -> PtrBlock] /\ Relisted(WithList(h, b, u), h, b, u)
      <4>1. h \in [Blocks -> PtrBlock] /\ b \in Blocks /\ u \in Seq(Ptrs)
        BY <1>4, <2>3, <3>1
      <4> QED
        BY <4>1, RelistedIs
    <3>3. m = WithList(h, b, u)
      BY DEF h
    <3> HIDE DEF m
    <3> QED
      BY <1>4, <2>1, <3>1, <3>2, <3>3 DEF Plugged, Relisted
  <2> HIDE DEF m
  <2>5. CutOf(mem, m, r, c, n, x)
    BY <2>1, <2>2, <2>3, <2>4 DEF CutOf
  <2>6. PICK q2, q : /\ Seen(m, head, N + 1, q, q2, s)
                     /\ \A i \in 1 .. c : q[i] = r[i] /\ q2[i] = o[i]
                     /\ q[c + 1] = n /\ q2[c + 1] = o[c] + x
    <3>1. mem \in [Blocks -> PtrBlock] /\ Seen(mem, head, N, r, o, s)
      BY <1>2, <1>4
    <3> HIDE DEF b, y, z, e, k
    <3> QED
      BY <2>5, <3>1, CutSeen
  <2>7. c \in 1 .. c /\ c \in 1 .. N + 1 /\ c + 1 \in 1 .. N + 1 /\ c + 1 \in 1 .. c + 1 /\ N + 1 \in Nat
    BY <1>2
  <2>8. q[c] = b /\ q2[c] = e
    BY <2>6, <2>7
  <2>9. Len(u) = x /\ Len(v) = z - x
    BY <2>3 DEF Parts
  <2>10. CASE k <= x
    <3>1. walk' = walk /\ mem' = WithList(m, b, InsertAt(u, k, p))
      BY <1>4, <1>6, <2>4, <2>10 DEF INSERT_CURRENT, WithList, n, x, m, u, v
    <3> HIDE DEF k, b
    <3>2. k \in 1 .. x + 1
      BY <1>4, <2>2, <2>10
    <3>3. InsertOf(m, mem', q, c, k, p)
      BY <1>4, <2>4, <2>8, <2>9, <3>1, <3>2 DEF InsertOf
    <3>4. PICK q3 : Seen(mem', head, N + 1, q, q3, InsertAt(s, q2[c] + k, p)) /\ \A i \in 1 .. c : q3[i] = q2[i]
      BY <2>4, <2>6, <2>7, <3>3, InsertSeen
    <3>5. q3[c] = e
      BY <2>7, <2>8, <3>4
    <3>6. Placed(walk', N + 1, q, q3, a)
      BY <1>4, <2>7, <2>8, <3>1, <3>5 DEF Placed, k
    <3>7. InsertAt(s, q2[c] + k, p) = InsertAt(s, a, p)
      BY <1>4, <2>8
    <3> QED
      BY <1>1, <3>4, <3>6, <3>7 DEF Shows
  <2>11. CASE ~(k <= x)
    <3> DEFINE j == k - x
    <3>1. walk' = [walk EXCEPT !.list = n, !.nr = j] /\ mem' = WithList(m, n, InsertAt(v, j, p))
      BY <1>4, <1>6, <2>4, <2>11 DEF INSERT_CURRENT, WithList, n, x, m, u, v
    <3>2. walk'.dir = walk.dir /\ walk'.list = n /\ walk'.nr = j
      BY <1>1, <3>1 DEF TypeOK
    <3>3. j \in 1 .. (z - x) + 1 /\ a = (e + x) + j
      <4> HIDE DEF k, z, e
      <4> QED
        BY <1>4, <2>2, <2>11
    <3> HIDE DEF j, b, k
    <3> DEFINE d == c + 1
    <3>4. q[d] = n /\ q2[d] = e + x /\ d \in 1 .. N + 1 /\ d \in 1 .. d
      BY <2>6, <2>7
    <3> HIDE DEF d
    <3>5. InsertOf(m, mem', q, d, j, p)
      BY <2>1, <2>4, <2>9, <3>1, <3>3, <3>4 DEF InsertOf
    <3>6. PICK q3 : Seen(mem', head, N + 1, q, q3, InsertAt(s, q2[d] + j, p)) /\ \A i \in 1 .. d : q3[i] = q2[i]
      BY <2>4, <2>6, <2>7, <3>4, <3>5, InsertSeen
    <3>7. q3[d] = e + x
      BY <3>4, <3>6
    <3>8. Placed(walk', N + 1, q, q3, a)
      BY <1>4, <3>2, <3>3, <3>4, <3>7 DEF Placed
    <3>9. InsertAt(s, q2[d] + j, p) = InsertAt(s, a, p)
      BY <3>3, <3>4
    <3> QED
      BY <1>1, <3>6, <3>8, <3>9 DEF Shows
  <2> QED
    BY <2>10, <2>11
<1> QED
  BY <1>5, <1>6

\* The blocks that a loop over a list is in have elements, and links to others.
LEMMA LoopBlocks ==
    ASSUME Inv, walk.dir # "none"
    PROVE  /\ walk.list \in Blocks /\ mem[walk.list].used /\ head # Null /\ packing = Null
           /\ mem[walk.list].list \in Seq(Ptrs) /\ Len(mem[walk.list].list) \in Nat /\ walk.nr \in Nat
           /\ mem[walk.list].next \in Blocks /\ mem[walk.list].prev \in Blocks
           /\ walk.in => walk.nr \in 1 .. Len(mem[walk.list].list)
           /\ \A b \in Blocks : mem[b].list \in Seq(Ptrs) /\ Len(mem[b].list) \in Nat
<1>1. TypeOK /\ LinksAgree /\ Cursors
  BY DEF Inv
<1>2. \A b \in Blocks : mem[b].list \in Seq(Ptrs) /\ Len(mem[b].list) \in Nat
  BY <1>1 DEF TypeOK, PtrBlock
<1>3. walk.list \in Blocks /\ mem[walk.list].used /\ head # Null /\ packing = Null /\ walk.nr \in Nat
  BY <1>1 DEF TypeOK, Cursors
<1>4. mem[walk.list].next \in Blocks /\ mem[walk.list].prev \in Blocks
  BY <1>1, <1>3 DEF LinksAgree
<1>5. walk.in => walk.nr \in 1 .. Len(mem[walk.list].list)
  BY <1>1 DEF Cursors
<1> QED
  BY <1>2, <1>3, <1>4, <1>5

\* An element more at the end shortens no list.
LEMMA AddLengthens ==
    ASSUME Inv, walk.dir # "none", NEW p \in Ptrs, __add_ptr_list(p)
    PROVE  head' = head /\ Len(mem'[walk.list].list) >= Len(mem[walk.list].list)
<1> DEFINE b == walk.list
<1>1. /\ TypeOK /\ LinksAgree /\ b \in Blocks /\ mem[b].used /\ head # Null /\ mem[b].list \in Seq(Ptrs)
      /\ Len(mem[b].list) \in Nat /\ head \in Blocks /\ mem[head].used /\ mem \in [Blocks -> PtrBlock]
  BY LoopBlocks DEF Inv, TypeOK, LinksAgree
<1>2. mem[head].prev \in Blocks /\ mem[mem[head].prev].used
  BY <1>1 DEF LinksAgree
<1> HIDE DEF b
<1>3. CASE ~Full(mem[head].prev)
  <2>1. mem' = [mem EXCEPT ![mem[head].prev].list = Append(@, p)] /\ head' = head
    BY <1>1, <1>3 DEF __add_ptr_list
  <2>2. mem'[b].list = IF b = mem[head].prev THEN Append(mem[b].list, p) ELSE mem[b].list
    BY <1>1, <1>2, <2>1 DEF PtrBlock
  <2> DEFINE y == mem[b].list
  <2>3. y \in Seq(Ptrs) /\ Len(y) \in Nat /\ mem'[b].list \in {y, Append(y, p)}
    BY <1>1, <2>2
  <2> HIDE DEF y
  <2>4. Len(mem'[b].list) >= Len(y)
    BY <2>3, Appended
  <2> QED
    BY <2>1, <2>4 DEF b, y
<1>4. CASE Full(mem[head].prev)
  <2>1. Room /\ head' = head /\ mem' = link(mem[head].prev, NewBlock, <<p>>)
    BY <1>1, <1>4 DEF __add_ptr_list
  <2>2. NewBlock \in Blocks /\ ~mem[NewBlock].used
    BY <2>1, NewBlockUnused
  <2> DEFINE n == NewBlock
             e == mem[head].prev
             v == <<p>>
  <2>3. e \in Blocks /\ mem[e].used /\ n \in Blocks /\ v \in Seq(Ptrs) /\ n # b /\ mem' = link(e, n, v)
    BY <1>1, <1>2, <2>1, <2>2
  <2> HIDE DEF n, e, v
  <2>4. mem'[b].list = mem[b].list
    BY <1>1, <2>3, Linked
  <2> QED
    BY <1>1, <2>1, <2>4 DEF b
<1> QED
  BY <1>3, <1>4

\* LoopOk holds as long as there is no loop.
LEMMA LoopOkIdle ==
    ASSUME walk'.dir = "none"
    PROVE  LoopOk'
BY DEF LoopOk

\* The loops keep it themselves,
LEMMA LoopOkLoops ==
    ASSUME Inv, LoopOk,
           \/ FOR_EACH_PTR \/ ForwardElement \/ ForwardBlock
           \/ FOR_EACH_PTR_REVERSE \/ BackwardElement \/ BackwardBlock \/ BodyEnds
    PROVE  LoopOk'
<1>1. TypeOK /\ LinksAgree /\ mem' = mem /\ head' = head
  BY DEF Inv, FOR_EACH_PTR, ForwardElement, ForwardBlock, FOR_EACH_PTR_REVERSE, BackwardElement, BackwardBlock, BodyEnds, Reads
<1>2. \A b \in Blocks : Len(mem[b].list) \in Nat
  BY <1>1 DEF TypeOK, PtrBlock
<1>3. CASE FOR_EACH_PTR
  <2>1. /\ head \in Blocks /\ walk'.dir = "forward" /\ walk'.head = head /\ walk'.list = head /\ walk'.nr = 0
        /\ out' = NoPtr
    BY <1>1, <1>3 DEF TypeOK, FOR_EACH_PTR, Returns
  <2> QED
    BY <1>1, <1>2, <2>1 DEF LoopOk
<1>4. CASE FOR_EACH_PTR_REVERSE
  <2>1. head \in Blocks /\ mem[head].prev \in Blocks
    BY <1>1, <1>4 DEF TypeOK, LinksAgree, FOR_EACH_PTR_REVERSE
  <2>2. /\ walk'.dir = "backward" /\ walk'.head = head /\ walk'.nr = Len(mem[mem[head].prev].list) + 1
        /\ out' = NoPtr
    BY <1>4 DEF FOR_EACH_PTR_REVERSE, Returns
  <2>3. walk'.nr >= 1
    BY <1>2, <2>1, <2>2
  <2> QED
    BY <1>1, <2>2, <2>3 DEF LoopOk
<1>5. ASSUME ForwardElement \/ ForwardBlock \/ BackwardElement \/ BackwardBlock \/ BodyEnds
      PROVE  /\ walk.dir # "none" /\ walk.list \in Blocks /\ walk.nr \in Nat /\ Len(mem[walk.list].list) \in Nat
             /\ mem[walk.list].next \in Blocks /\ mem[walk.list].prev \in Blocks /\ walk.head = head
  <2>1. walk.dir # "none"
    BY <1>5 DEF Inv, Cursors, ForwardElement, ForwardBlock, BackwardElement, BackwardBlock, BodyEnds, Looping
  <2>2. walk.head = head
    BY <2>1 DEF LoopOk
  <2> QED
    BY <2>1, <2>2, LoopBlocks
<1>6. walk \in [dir: {"none", "forward", "backward"}, head: Blocks \cup {Null},
                 list: Blocks \cup {Null}, nr: 0 .. NR + 1, in: BOOLEAN]
  BY <1>1 DEF TypeOK
<1>7. CASE ForwardElement
  <2>1. /\ walk' = [walk EXCEPT !.nr = walk.nr + 1, !.in = TRUE] /\ walk.dir = "forward"
        /\ walk.nr < Len(mem[walk.list].list)
    BY <1>7 DEF ForwardElement, Looping
  <2>2. /\ walk'.dir = "forward"
        /\ walk'.head = head
        /\ walk'.list = walk.list
        /\ walk'.in
        /\ walk'.nr = walk.nr + 1
    BY <1>5, <1>6, <1>7, <2>1
  <2>3. walk'.nr <= Len(mem[walk'.list].list)
    BY <1>5, <1>7, <2>1, <2>2
  <2> QED
    BY <1>1, <2>2, <2>3 DEF LoopOk
<1>8. CASE BackwardElement
  <2>1. /\ walk' = [walk EXCEPT !.nr = walk.nr - 1, !.in = TRUE] /\ walk.dir = "backward" /\ walk.nr > 1
    BY <1>8 DEF BackwardElement, Looping
  <2>2. walk'.dir = "backward" /\ walk'.head = head /\ walk'.in /\ walk'.nr = walk.nr - 1
    BY <1>5, <1>6, <1>8, <2>1
  <2>3. walk'.nr >= 1
    BY <1>5, <1>8, <2>1, <2>2
  <2> QED
    BY <1>1, <2>2, <2>3 DEF LoopOk
<1>9. CASE ForwardBlock
  <2> DEFINE b == mem[walk.list].next
  <2>1. /\ out' = NoPtr /\ walk.dir = "forward"
        /\ walk' = IF b = walk.head THEN NoWalk ELSE [walk EXCEPT !.list = b, !.nr = 0]
    BY <1>9 DEF ForwardBlock, Looping, Returns
  <2>2. CASE b = walk.head
    BY <2>1, <2>2, LoopOkIdle DEF NoWalk
  <2>3. CASE b # walk.head
    <3>1. walk'.dir = "forward" /\ walk'.head = head /\ walk'.list = b /\ walk'.nr = 0 /\ b \in Blocks
      BY <1>5, <1>6, <1>9, <2>1, <2>3
    <3> QED
      BY <1>1, <1>2, <2>1, <3>1 DEF LoopOk
  <2> QED
    BY <2>2, <2>3
<1>10. CASE BackwardBlock
  <2> DEFINE b == mem[walk.list].prev
  <2>1. /\ out' = NoPtr /\ walk.dir = "backward"
        /\ walk' = IF walk.list = walk.head THEN NoWalk ELSE [walk EXCEPT !.list = b, !.nr = Len(mem[b].list) + 1]
    BY <1>10 DEF BackwardBlock, Looping, Returns
  <2>2. CASE walk.list = walk.head
    BY <2>1, <2>2, LoopOkIdle DEF NoWalk
  <2>3. CASE walk.list # walk.head
    <3>1. walk'.dir = "backward" /\ walk'.head = head /\ walk'.nr = Len(mem[b].list) + 1 /\ b \in Blocks
      BY <1>5, <1>6, <1>10, <2>1, <2>3
    <3>2. walk'.nr >= 1
      BY <1>2, <3>1
    <3> QED
      BY <1>1, <2>1, <3>1, <3>2 DEF LoopOk
  <2> QED
    BY <2>2, <2>3
<1>11. CASE BodyEnds
  <2>1. out' = NoPtr /\ walk' = [walk EXCEPT !.in = FALSE]
    BY <1>11 DEF BodyEnds, Returns
  <2>2. walk'.dir = walk.dir /\ walk'.head = walk.head /\ walk'.list = walk.list /\ walk'.nr = walk.nr
    BY <1>6, <2>1
  <2> QED
    BY <1>1, <2>1, <2>2 DEF LoopOk
<1> QED
  BY <1>3, <1>4, <1>7, <1>8, <1>9, <1>10, <1>11

\* so do their bodies,
LEMMA LoopOkBody ==
    ASSUME Inv, LoopOk,
           \/ \E p \in Ptrs : __add_ptr_list(p) \/ REPLACE_CURRENT_PTR(p) \/ INSERT_CURRENT(p)
           \/ DELETE_CURRENT_PTR
    PROVE  LoopOk'
<1>1. walk \in [dir: {"none", "forward", "backward"}, head: Blocks \cup {Null},
                 list: Blocks \cup {Null}, nr: 0 .. NR + 1, in: BOOLEAN]
      /\ mem \in [Blocks -> PtrBlock]
  BY DEF Inv, TypeOK
<1>2. ASSUME NEW p \in Ptrs, __add_ptr_list(p) PROVE LoopOk'
  <2>1. walk' = walk /\ out' = NoPtr /\ walk.dir # "backward"
    BY <1>2 DEF __add_ptr_list, Returns
  <2>2. CASE walk.dir = "none"
    BY <2>1, <2>2, LoopOkIdle
  <2>3. CASE walk.dir # "none"
    <3> DEFINE x == Len(mem[walk.list].list)
               z == Len(mem'[walk.list].list)
               n == walk.nr
    <3>1. head' = head /\ z >= x /\ n <= x
      BY <1>1, <1>2, <2>1, <2>3, AddLengthens DEF LoopOk
    <3>2. x \in Nat /\ n \in Nat /\ z \in Nat
      <4>1. walk.list \in Blocks /\ x \in Nat /\ n \in Nat
        BY <2>3, LoopBlocks
      <4>2. TypeOK'
        BY <1>2, AddKeeps DEF Inv
      <4> QED
        BY <4>1, <4>2 DEF TypeOK, PtrBlock
    <3> HIDE DEF x, z, n
    <3>3. n <= z
      BY <3>1, <3>2
    <3> QED
      BY <2>1, <3>1, <3>3 DEF LoopOk, n, z
  <2> QED
    BY <2>2, <2>3
<1>3. ASSUME walk.in
      PROVE  /\ walk.dir # "none" /\ walk.list \in Blocks /\ mem[walk.list].list \in Seq(Ptrs)
             /\ Len(mem[walk.list].list) \in Nat /\ walk.nr \in 1 .. Len(mem[walk.list].list)
  <2>1. walk.dir # "none"
    BY <1>3 DEF Inv, Cursors
  <2> QED
    BY <1>3, <2>1, LoopBlocks
<1>4. CASE DELETE_CURRENT_PTR
  <2> DEFINE y == mem[walk.list].list
             z == Len(y)
             n == walk.nr
  <2>1. walk.in /\ walk.dir = "forward" /\ head' = head /\ out' = NoPtr
    BY <1>4 DEF DELETE_CURRENT_PTR, Returns
  <2>2. /\ walk' = [walk EXCEPT !.nr = n - 1, !.in = FALSE]
        /\ mem' = [mem EXCEPT ![walk.list].list = RemoveAt(y, n)]
    BY <1>4 DEF DELETE_CURRENT_PTR
  <2>3. walk'.dir = "forward" /\ walk'.head = walk.head /\ walk'.list = walk.list /\ walk'.nr = n - 1
    BY <1>1, <2>1, <2>2
  <2>4. mem'[walk.list].list = RemoveAt(y, n) /\ y \in Seq(Ptrs) /\ n \in 1 .. z /\ z \in Nat
    BY <1>1, <1>3, <2>1, <2>2 DEF PtrBlock
  <2> HIDE DEF y, n
  <2>5. Len(RemoveAt(y, n)) = z - 1
    BY <2>4, Removed
  <2> HIDE DEF z
  <2>6. walk'.nr <= Len(mem'[walk'.list].list)
    BY <2>3, <2>4, <2>5
  <2> QED
    BY <2>1, <2>3, <2>6 DEF LoopOk
<1>5. ASSUME NEW p \in Ptrs, REPLACE_CURRENT_PTR(p) PROVE LoopOk'
  <2> DEFINE y == mem[walk.list].list
             n == walk.nr
             t == [y EXCEPT ![n] = p]
  <2>1. walk.in /\ head' = head /\ out' = NoPtr /\ walk' = walk /\ mem' = [mem EXCEPT ![walk.list].list = t]
    BY <1>5 DEF REPLACE_CURRENT_PTR, Returns
  <2>2. mem'[walk.list].list = t /\ Len(t) = Len(y) /\ walk.dir # "none"
    BY <1>1, <1>3, <2>1 DEF PtrBlock
  <2> HIDE DEF t
  <2> QED
    BY <2>1, <2>2 DEF LoopOk
<1>6. ASSUME NEW p \in Ptrs, INSERT_CURRENT(p) PROVE LoopOk'
  <2> DEFINE n == walk.nr
             x == KeptBySplit(Len(mem[walk.list].list))
  <2>1. walk.in /\ walk.dir = "backward" /\ head' = head /\ out' = NoPtr
    BY <1>6 DEF INSERT_CURRENT, Returns
  <2>2. walk' = walk \/ (~(n <= x) /\ walk' = [walk EXCEPT !.list = NewBlock, !.nr = n - x])
    BY <1>6 DEF INSERT_CURRENT
  <2>3. /\ walk'.dir = "backward" /\ walk'.head = walk.head
        /\ walk'.nr = n \/ (~(n <= x) /\ walk'.nr = n - x)
    BY <1>1, <2>1, <2>2
  <2>4. n \in Nat /\ n >= 1 /\ x \in Int
    <3>1. Len(mem[walk.list].list) \in Nat /\ n \in 1 .. Len(mem[walk.list].list)
      BY <1>3, <2>1
    <3> DEFINE z == Len(mem[walk.list].list)
    <3>2. z - z \div 2 \in Int
      <4> HIDE DEF z
      <4> QED
        BY <3>1 DEF z
    <3> QED
      BY <3>1, <3>2 DEF KeptBySplit
  <2> HIDE DEF n, x
  <2>5. walk'.nr >= 1
    BY <2>3, <2>4
  <2> QED
    BY <2>1, <2>3, <2>5 DEF LoopOk
<1> QED
  BY <1>2, <1>4, <1>5, <1>6

\* and nothing else is done meanwhile.
LEMMA LoopOkKeeps ==
    ASSUME Inv, LoopOk, Next
    PROVE  LoopOk'
<1>1. ASSUME Idle, walk' = walk PROVE LoopOk'
  BY <1>1, LoopOkIdle DEF Idle, NoWalk
<1>2. ASSUME packing # Null, walk' = walk PROVE LoopOk'
  BY <1>2, LoopOkIdle DEF Inv, Cursors, NoWalk
<1>3. CASE \/ first_ptr_list \/ last_ptr_list \/ undo_ptr_list_last \/ __free_ptr_list \/ pack_ptr_list
           \/ \E p \in Ptrs, count \in {0, 1} : delete_ptr_list_entry(p, count)
           \/ \E p \in Ptrs, q \in Ptrs, count \in {0, 1} : p # q /\ replace_ptr_list_entry(p, q, count)
  <2>1. Idle /\ walk' = walk
    BY <1>3 DEF first_ptr_list, last_ptr_list, undo_ptr_list_last, __free_ptr_list, pack_ptr_list,
                delete_ptr_list_entry, replace_ptr_list_entry
  <2> QED
    BY <1>1, <2>1
<1>4. CASE FreeAll \/ FreeHead \/ PackBlock
  BY <1>2, <1>4 DEF FreeAll, FreeHead, PackBlock
<1>5. CASE \/ FOR_EACH_PTR \/ ForwardElement \/ ForwardBlock
           \/ FOR_EACH_PTR_REVERSE \/ BackwardElement \/ BackwardBlock \/ BodyEnds
  BY <1>5, LoopOkLoops
<1>6. CASE \/ \E p \in Ptrs : __add_ptr_list(p)
           \/ DELETE_CURRENT_PTR
           \/ \E p \in Ptrs : REPLACE_CURRENT_PTR(p)
           \/ \E p \in Ptrs : INSERT_CURRENT(p)
  BY <1>6, LoopOkBody
<1> QED
  BY <1>3, <1>4, <1>5, <1>6 DEF Next

\* The operators on sequences are the same there.
LEMMA SameOperators ==
    /\ \A s, p : PS!RemoveFirst(s, p) = RemoveFirst(s, p) /\ PS!Without(s, p) = Others(s, p)
    /\ \A s, p, q : /\ PS!ReplaceAll(s, p, q) = ReplaceAll(s, p, q)
                    /\ PS!ReplaceAt(s, PS!SelectInSeq(s, LAMBDA x : x = p), q) = Once(s, p, q)
    /\ \A s : PS!Last(s) = Last(s) /\ PS!Front(s) = Front(s)
    /\ \A s, i, p : PS!InsertAt(s, i, p) = InsertAt(s, i, p) /\ PS!RemoveAt(s, i) = RemoveAt(s, i)
<1>1. \A s, p : PS!RemoveFirst(s, p) = RemoveFirst(s, p)
  BY DEF PS!RemoveFirst, RemoveFirst, PS!RemoveAt, RemoveAt, PS!SelectInSeq, SelectInSeq, PS!Min, Min
<1>2. \A s, p : PS!Without(s, p) = Others(s, p)
  BY DEF PS!Without, Others
<1>3. \A s, p, q : PS!ReplaceAll(s, p, q) = ReplaceAll(s, p, q)
  BY DEF PS!ReplaceAll, ReplaceAll
<1>4. \A s, p, q : PS!ReplaceAt(s, PS!SelectInSeq(s, LAMBDA x : x = p), q) = Once(s, p, q)
  BY DEF Once, PS!ReplaceAt, ReplaceAt, PS!SelectInSeq, SelectInSeq, PS!Min, Min
<1>5. \A s : PS!Last(s) = Last(s) /\ PS!Front(s) = Front(s)
  BY DEF PS!Last, Last, PS!Front, Front
<1>6. \A s, i, p : PS!InsertAt(s, i, p) = InsertAt(s, i, p) /\ PS!RemoveAt(s, i) = RemoveAt(s, i)
  BY DEF PS!InsertAt, InsertAt, PS!RemoveAt, RemoveAt
<1> QED
  BY <1>1, <1>2, <1>3, <1>4, <1>5, <1>6

\* Where ImplementsPtrSeq says that a loop is.
Place == IF walk.dir = "none" THEN 0 ELSE Len(Until(walk.list)) + walk.nr

\* What a step is in the abstract list.
Becomes(s, a, t, e) ==
    /\ Until(Null) = s /\ Place = a /\ Until(Null)' = t /\ Place' = e
    /\ Shows(mem', head', walk', t, e)

\* What the blocks show before and after it.
LEMMA StepMaps ==
    ASSUME TypeOK, TypeOK', NEW s, NEW a, Showing(s, a), NEW t, NEW e, Shows(mem', head', walk', t, e)
    PROVE  Becomes(s, a, t, e)
BY Maps, MapsAfter DEF Becomes, Place

\* An element more at the end.
LEMMA AddRefines ==
    ASSUME Inv, Inv', NEW s, NEW a, Showing(s, a), NEW p \in Ptrs, __add_ptr_list(p)
    PROVE  (\E t, e : Becomes(s, a, t, e)) /\ PS!Add(p)
<1>1. Becomes(s, a, Append(s, p), a)
  BY AddShows, StepMaps DEF Inv
<1>2. walk.dir # "backward" /\ out' = NoPtr /\ walk' = walk
  BY DEF __add_ptr_list, Returns
<1> QED
  BY <1>1, <1>2 DEF Becomes, Place, PS!Add, PS!Quiet, PS!loop

\* Calls that do not change the list.
LEMMA ReadRefines ==
    ASSUME Inv, Inv', NEW s, NEW a, Showing(s, a), first_ptr_list \/ last_ptr_list \/ pack_ptr_list
    PROVE  (\E t, e : Becomes(s, a, t, e)) /\ (PS!First \/ PS!LastOne \/ PS!Pack)
<1>1. walk.dir = "none" /\ mem' = mem /\ head' = head /\ walk' = walk
  BY DEF Idle, NoWalk, first_ptr_list, last_ptr_list, pack_ptr_list
<1>2. Becomes(s, a, s, a)
  BY <1>1, StepMaps DEF Inv, Showing
<1>3. CASE first_ptr_list
  <2>1. out' = IF s = <<>> THEN NoPtr ELSE Head(s)
    BY <1>3, EndsShow
  <2>2. PS!First
    BY <1>1, <1>2, <2>1 DEF Becomes, Place, PS!First, PS!Idle, PS!loop
  <2> QED
    BY <1>2, <2>2
<1>4. CASE last_ptr_list
  <2>1. out' = IF s = <<>> THEN NoPtr ELSE Last(s)
    BY <1>4, EndsShow
  <2>2. PS!LastOne
    BY <1>1, <1>2, <2>1, SameOperators DEF Becomes, Place, PS!LastOne, PS!Idle, PS!loop
  <2> QED
    BY <1>2, <2>2
<1>5. CASE pack_ptr_list
  <2>1. PS!Pack
    BY <1>1, <1>2, <1>5 DEF Becomes, Place, PS!Pack, PS!Idle, PS!Quiet, PS!loop, pack_ptr_list, Returns
  <2> QED
    BY <1>2, <2>1
<1> QED
  BY <1>3, <1>4, <1>5

\* Calls that take elements out.
LEMMA UndoRefines ==
    ASSUME Inv, Inv', NEW s, NEW a, Showing(s, a)
    PROVE  /\ undo_ptr_list_last => (\E t, e : Becomes(s, a, t, e)) /\ PS!DeleteLast
           /\ __free_ptr_list => (\E t, e : Becomes(s, a, t, e)) /\ PS!Free
<1>1. ASSUME undo_ptr_list_last
      PROVE  (\E t, e : Becomes(s, a, t, e)) /\ PS!DeleteLast
  <2>1. walk.dir = "none" /\ walk' = walk
    BY <1>1 DEF undo_ptr_list_last, Idle, NoWalk
  <2>2. \/ s = <<>> /\ out' = NoPtr /\ Becomes(s, a, s, a)
        \/ s # <<>> /\ out' = Last(s) /\ Becomes(s, a, Front(s), a)
    BY <1>1, UndoShows, StepMaps DEF Inv
  <2>3. PS!DeleteLast
    BY <2>1, <2>2, SameOperators DEF Becomes, Place, PS!DeleteLast, PS!Idle, PS!loop
  <2> QED
    BY <2>2, <2>3
<1>2. ASSUME __free_ptr_list
      PROVE  (\E t, e : Becomes(s, a, t, e)) /\ PS!Free
  <2>1. walk.dir = "none" /\ walk' = walk /\ out' = NoPtr
    BY <1>2 DEF __free_ptr_list, Idle, NoWalk, Returns
  <2>2. Becomes(s, a, <<>>, 0)
    BY <1>2, FreeShows, StepMaps DEF Inv
  <2>3. PS!Free
    BY <2>1, <2>2 DEF Becomes, Place, PS!Free, PS!Idle, PS!Quiet, PS!loop
  <2> QED
    BY <2>2, <2>3
<1> QED
  BY <1>1, <1>2

\* Deleting and replacing.
LEMMA DeleteRefines ==
    ASSUME Inv, Inv', NEW s, NEW a, Showing(s, a), NEW p \in Ptrs, NEW count \in {0, 1}
    PROVE  /\ delete_ptr_list_entry(p, count) => (\E t, e : Becomes(s, a, t, e)) /\ PS!Delete(p)
           /\ \A q \in Ptrs : replace_ptr_list_entry(p, q, count) =>
                 (\E t, e : Becomes(s, a, t, e)) /\ PS!Replace(p, q)
<1>1. ASSUME delete_ptr_list_entry(p, count)
      PROVE  (\E t, e : Becomes(s, a, t, e)) /\ PS!Delete(p)
  <2>1. walk.dir = "none" /\ walk' = walk /\ out' = NoPtr
    BY <1>1 DEF delete_ptr_list_entry, Idle, NoWalk, Returns
  <2>2. PICK t \in {RemoveFirst(s, p), Others(s, p)} : Shows(mem', head', walk', t, a)
    BY <1>1, DeleteShows
  <2>3. Becomes(s, a, t, a)
    BY <2>2, StepMaps DEF Inv
  <2>4. t \in {PS!RemoveFirst(s, p), PS!Without(s, p)}
    BY <2>2, SameOperators
  <2>5. PS!Delete(p)
    BY <2>1, <2>3, <2>4 DEF Becomes, Place, PS!Delete, PS!Idle, PS!Quiet, PS!loop
  <2> QED
    BY <2>3, <2>5
<1>2. ASSUME NEW q \in Ptrs, replace_ptr_list_entry(p, q, count)
      PROVE  (\E t, e : Becomes(s, a, t, e)) /\ PS!Replace(p, q)
  <2>1. walk.dir = "none" /\ walk' = walk /\ out' = NoPtr
    BY <1>2 DEF replace_ptr_list_entry, Idle, NoWalk, Returns
  <2>2. PICK t \in {ReplaceAll(s, p, q), Once(s, p, q)} : Shows(mem', head', walk', t, a)
    BY <1>2, ReplaceShows
  <2>3. Becomes(s, a, t, a)
    BY <2>2, StepMaps DEF Inv
  <2>4. t \in {PS!ReplaceAll(s, p, q), PS!ReplaceAt(s, PS!SelectInSeq(s, LAMBDA x : x = p), q)}
    BY <2>2, SameOperators
  <2>5. PS!Replace(p, q)
    BY <2>1, <2>3, <2>4 DEF Becomes, Place, PS!Replace, PS!Idle, PS!Quiet, PS!loop
  <2> QED
    BY <2>3, <2>5
<1> QED
  BY <1>1, <1>2

\* Packing.
LEMMA PackRefines ==
    ASSUME Inv, Inv', NEW s, NEW a, Showing(s, a), FreeAll \/ FreeHead \/ PackBlock
    PROVE  (\E t, e : Becomes(s, a, t, e)) /\ PS!Pack
<1>1. Shows(mem', head', walk', s, a) /\ walk.dir = "none"
  BY PackShows, FreeAllShows
<1>2. out' = NoPtr /\ walk' = walk
  BY DEF FreeAll, FreeHead, PackBlock, Returns
<1>3. Becomes(s, a, s, a)
  BY <1>1, StepMaps DEF Inv
<1>4. PS!Pack
  BY <1>1, <1>2, <1>3 DEF Becomes, Place, PS!Pack, PS!Idle, PS!Quiet, PS!loop
<1> QED
  BY <1>3, <1>4

\* Loops.
LEMMA LoopRefines ==
    ASSUME Inv, LoopOk, Inv', NEW s, NEW a, Showing(s, a),
           \/ FOR_EACH_PTR \/ ForwardElement \/ ForwardBlock
           \/ FOR_EACH_PTR_REVERSE \/ BackwardElement \/ BackwardBlock \/ BodyEnds
    PROVE  (\E t, e : Becomes(s, a, t, e)) /\ (PS!Start \/ PS!Visit \/ PS!End \/ PS!BodyEnds \/ UNCHANGED PS!vars)
<1>1. walk \in [dir: {"none", "forward", "backward"}, head: Blocks \cup {Null},
                 list: Blocks \cup {Null}, nr: 0 .. NR + 1, in: BOOLEAN]
  BY DEF Inv, TypeOK
<1>2. CASE FOR_EACH_PTR
  <2>1. walk.dir = "none" /\ walk'.dir = "forward" /\ walk'.in = FALSE /\ out' = NoPtr
    BY <1>2 DEF FOR_EACH_PTR, Idle, NoWalk, Returns
  <2>2. Becomes(s, a, s, 0)
    BY <1>2, ForwardShows, StepMaps DEF Inv
  <2>3. PS!Start
    BY <2>1, <2>2 DEF Becomes, Place, PS!Start, PS!Idle, PS!Quiet
  <2> QED
    BY <2>2, <2>3
<1>3. CASE FOR_EACH_PTR_REVERSE
  <2>1. walk.dir = "none" /\ walk'.dir = "backward" /\ walk'.in = FALSE /\ out' = NoPtr
    BY <1>3 DEF FOR_EACH_PTR_REVERSE, Idle, NoWalk, Returns
  <2>2. Becomes(s, a, s, Len(s) + 1)
    BY <1>3, BackwardShows, StepMaps DEF Inv
  <2>3. PS!Start
    BY <2>1, <2>2 DEF Becomes, Place, PS!Start, PS!Idle, PS!Quiet
  <2> QED
    BY <2>2, <2>3
<1>4. CASE ForwardElement
  <2>1. /\ walk.dir = "forward" /\ walk'.dir = "forward" /\ ~walk.in /\ walk'.in
        /\ walk' = [walk EXCEPT !.nr = @ + 1, !.in = TRUE]
    BY <1>1, <1>4 DEF ForwardElement, Looping
  <2>2. a + 1 \in DOMAIN s /\ out' = s[a + 1] /\ Becomes(s, a, s, a + 1)
    BY <1>4, ElementShows, StepMaps DEF Inv
  <2>3. PS!Visit
    BY <2>1, <2>2 DEF Becomes, Place, PS!Visit, PS!Idle
  <2> QED
    BY <2>2, <2>3
<1>5. CASE BackwardElement
  <2>1. walk.dir = "backward" /\ walk'.dir = "backward" /\ ~walk.in /\ walk'.in
    BY <1>1, <1>5 DEF BackwardElement, Looping
  <2>2. a - 1 \in DOMAIN s /\ out' = s[a - 1] /\ Becomes(s, a, s, a - 1)
    BY <1>5, ElementShows, StepMaps DEF Inv
  <2>3. PS!Visit
    BY <2>1, <2>2 DEF Becomes, Place, PS!Visit, PS!Idle
  <2> QED
    BY <2>2, <2>3
<1>6. CASE ForwardBlock \/ BackwardBlock
  <2>1. /\ walk.dir # "none" /\ ~walk.in /\ out' = NoPtr /\ out = NoPtr
        /\ walk' = NoWalk \/ walk'.in = walk.in
    BY <1>1, <1>6 DEF ForwardBlock, BackwardBlock, Looping, Returns, LoopOk
  <2>2. CASE walk' # NoWalk /\ walk'.dir = walk.dir /\ Shows(mem', head', walk', s, a)
    <3>1. Becomes(s, a, s, a)
      BY <2>2, StepMaps DEF Inv
    <3>2. UNCHANGED PS!vars
      BY <2>1, <2>2, <3>1 DEF Becomes, Place, PS!vars
    <3> QED
      BY <3>1, <3>2
  <2>3. CASE /\ walk' = NoWalk /\ Shows(mem', head', walk', s, 0)
             /\ a = IF walk.dir = "forward" THEN Len(s) ELSE 1
    <3>1. Becomes(s, a, s, 0)
      BY <2>3, StepMaps DEF Inv
    <3>2. walk'.dir = "none" /\ walk'.in = FALSE /\ walk.in = FALSE
      BY <1>1, <2>1, <2>3 DEF NoWalk
    <3>3. PS!End
      BY <2>1, <2>3, <3>1, <3>2 DEF Becomes, Place, PS!End, PS!Idle, PS!Quiet
    <3> QED
      BY <3>1, <3>3
  <2> QED
    BY <1>6, <2>2, <2>3, BlockShows
<1>7. CASE BodyEnds
  <2>1. walk.in /\ ~walk'.in /\ walk'.dir = walk.dir /\ out' = NoPtr
    BY <1>1, <1>7 DEF BodyEnds, Returns
  <2>2. Becomes(s, a, s, a)
    BY <1>7, BodyShows, StepMaps DEF Inv
  <2>3. PS!BodyEnds
    BY <2>1, <2>2 DEF Becomes, Place, PS!BodyEnds, PS!Quiet
  <2> QED
    BY <2>2, <2>3
<1> QED
  BY <1>2, <1>3, <1>4, <1>5, <1>6, <1>7

\* Their bodies.
LEMMA BodyRefines ==
    ASSUME Inv, Inv', NEW s, NEW a, Showing(s, a)
    PROVE  /\ DELETE_CURRENT_PTR => (\E t, e : Becomes(s, a, t, e)) /\ PS!DeleteCurrent
           /\ \A p \in Ptrs : REPLACE_CURRENT_PTR(p) => (\E t, e : Becomes(s, a, t, e)) /\ PS!ReplaceCurrent(p)
           /\ \A p \in Ptrs : INSERT_CURRENT(p) => (\E t, e : Becomes(s, a, t, e)) /\ PS!InsertCurrent(p)
<1>1. walk \in [dir: {"none", "forward", "backward"}, head: Blocks \cup {Null},
                 list: Blocks \cup {Null}, nr: 0 .. NR + 1, in: BOOLEAN]
  BY DEF Inv, TypeOK
<1>2. ASSUME DELETE_CURRENT_PTR
      PROVE  (\E t, e : Becomes(s, a, t, e)) /\ PS!DeleteCurrent
  <2>1. walk.in /\ ~walk'.in /\ walk.dir = "forward" /\ walk'.dir = walk.dir /\ out' = NoPtr
    BY <1>1, <1>2 DEF DELETE_CURRENT_PTR, Returns
  <2>2. Becomes(s, a, RemoveAt(s, a), a - 1)
    BY <1>2, DeleteCurrentShows, StepMaps DEF Inv
  <2>3. PS!DeleteCurrent
    BY <2>1, <2>2, SameOperators DEF Becomes, Place, PS!DeleteCurrent, PS!Quiet
  <2> QED
    BY <2>2, <2>3
<1>3. ASSUME NEW p \in Ptrs, REPLACE_CURRENT_PTR(p)
      PROVE  (\E t, e : Becomes(s, a, t, e)) /\ PS!ReplaceCurrent(p)
  <2>1. walk.in /\ walk' = walk /\ out' = NoPtr
    BY <1>3 DEF REPLACE_CURRENT_PTR, Returns
  <2>2. Becomes(s, a, [s EXCEPT ![a] = p], a)
    BY <1>3, ReplaceCurrentShows, StepMaps DEF Inv
  <2>3. PS!ReplaceCurrent(p)
    BY <2>1, <2>2 DEF Becomes, Place, PS!ReplaceCurrent, PS!Quiet, PS!loop
  <2> QED
    BY <2>2, <2>3
<1>4. ASSUME NEW p \in Ptrs, INSERT_CURRENT(p)
      PROVE  (\E t, e : Becomes(s, a, t, e)) /\ PS!InsertCurrent(p)
  <2>1. walk.in /\ walk.dir = "backward" /\ walk'.dir = walk.dir /\ walk'.in = walk.in /\ out' = NoPtr
    BY <1>1, <1>4 DEF INSERT_CURRENT, Returns
  <2>2. Becomes(s, a, InsertAt(s, a, p), a)
    BY <1>4, InsertCurrentShows, StepMaps DEF Inv
  <2>3. PS!InsertCurrent(p)
    BY <2>1, <2>2, SameOperators DEF Becomes, Place, PS!InsertCurrent, PS!Quiet, PS!loop
  <2> QED
    BY <2>2, <2>3
<1> QED
  BY <1>2, <1>3, <1>4

\* The list is the same for ImplementsPtrSeq when nothing happens.
LEMMA StutterRefines ==
    ASSUME UNCHANGED vars
    PROVE  UNCHANGED PS!vars
<1>1. Until(Null)' = Until(Null) /\ Until(walk.list)' = Until(walk.list)
  BY UntilBoth, UntilAfter DEF vars
<1> QED
  BY <1>1 DEF vars, PS!vars

\* Every step of a list is one of the sequence it shows, or none.
LEMMA NextRefines ==
    ASSUME Inv, LoopOk, Inv', NEW s, NEW a, Showing(s, a), Next
    PROVE  (\E t, e : Becomes(s, a, t, e)) /\ (PS!Next \/ UNCHANGED PS!vars)
<1>1. ASSUME NEW p \in Ptrs, __add_ptr_list(p) PROVE (\E t, e : Becomes(s, a, t, e)) /\ PS!Next
  BY <1>1, AddRefines DEF PS!Next
<1>2. CASE first_ptr_list \/ last_ptr_list \/ pack_ptr_list
  BY <1>2, ReadRefines DEF PS!Next
<1>3. CASE undo_ptr_list_last \/ __free_ptr_list
  BY <1>3, UndoRefines DEF PS!Next
<1>4. ASSUME NEW p \in Ptrs, NEW count \in {0, 1}, delete_ptr_list_entry(p, count)
      PROVE  (\E t, e : Becomes(s, a, t, e)) /\ PS!Next
  BY <1>4, DeleteRefines DEF PS!Next
<1>5. ASSUME NEW p \in Ptrs, NEW q \in Ptrs, NEW count \in {0, 1}, replace_ptr_list_entry(p, q, count)
      PROVE  (\E t, e : Becomes(s, a, t, e)) /\ PS!Next
  BY <1>5, DeleteRefines DEF PS!Next
<1>6. CASE FreeAll \/ FreeHead \/ PackBlock
  BY <1>6, PackRefines DEF PS!Next
<1>7. CASE \/ FOR_EACH_PTR \/ ForwardElement \/ ForwardBlock
           \/ FOR_EACH_PTR_REVERSE \/ BackwardElement \/ BackwardBlock \/ BodyEnds
  BY <1>7, LoopRefines DEF PS!Next
<1>8. CASE DELETE_CURRENT_PTR
  BY <1>8, BodyRefines DEF PS!Next
<1>9. ASSUME NEW p \in Ptrs, REPLACE_CURRENT_PTR(p) \/ INSERT_CURRENT(p)
      PROVE  (\E t, e : Becomes(s, a, t, e)) /\ PS!Next
  BY <1>9, BodyRefines DEF PS!Next
<1> QED
  BY <1>1, <1>2, <1>3, <1>4, <1>5, <1>6, <1>7, <1>8, <1>9 DEF Next

\* The blocks of every list are a ring in some order, and its loops are in it.
RefInv == Inv /\ LoopOk /\ \E s, a : Showing(s, a)

\* A list starts empty.
LEMMA StartsEmpty ==
    ASSUME Init, Inv
    PROVE  LoopOk /\ Showing(<<>>, 0) /\ PS!Init
<1>1. walk.dir = "none" /\ walk.in = FALSE /\ out = NoPtr /\ head = Null /\ \A b \in Blocks : ~mem[b].used
  BY DEF Init, NoWalk, FreeBlock
<1>2. LoopOk
  BY <1>1 DEF LoopOk
<1>3. PICK r, o : Seen(mem, Null, 0, r, o, <<>>)
  BY <1>1, NoneSeen
<1>4. Showing(<<>>, 0)
  BY <1>1, <1>3 DEF Showing, Shows, Placed
<1>5. Until(Null) = <<>>
  BY <1>4, Maps DEF Inv
<1>6. PS!Init
  BY <1>1, <1>5 DEF PS!Init
<1> QED
  BY <1>2, <1>4, <1>6

\* The ring of blocks is a sequence, whatever blocks it is in, and a loop over it
\* is at one place of that: FOR_EACH_PTR meets every element once and in order.
THEOREM Refinement == Spec => ImplementsPtrSeq
<1>1. Init /\ Inv => RefInv /\ PS!Init
  BY StartsEmpty DEF RefInv
<1>2. RefInv /\ Inv' /\ [Next]_vars => RefInv' /\ [PS!Next]_(PS!vars)
  <2> SUFFICES ASSUME RefInv, Inv', [Next]_vars
               PROVE  RefInv' /\ [PS!Next]_(PS!vars)
    OBVIOUS
  <2>1. PICK s, a : Showing(s, a)
    BY DEF RefInv
  <2>2. CASE Next
    <3>1. (\E t, e : Becomes(s, a, t, e)) /\ (PS!Next \/ UNCHANGED PS!vars)
      BY <2>1, <2>2, NextRefines DEF RefInv
    <3>2. LoopOk'
      BY <2>2, LoopOkKeeps DEF RefInv
    <3>3. (\E t, e : Showing(t, e))'
      BY <3>1 DEF Becomes, Showing
    <3> QED
      BY <3>1, <3>2, <3>3 DEF RefInv
  <2>3. CASE UNCHANGED vars
    <3>1. RefInv'
      BY <2>1, <2>3 DEF RefInv, LoopOk, Showing, vars
    <3> QED
      BY <2>3, <3>1, StutterRefines
  <2> QED
    BY <2>2, <2>3
<1> QED
  BY <1>1, <1>2, Invariance, PTL DEF Spec, PS!Spec, ImplementsPtrSeq
=============================================================================
