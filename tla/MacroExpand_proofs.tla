-------------------------- MODULE MacroExpand_proofs --------------------------
(***************************************************************************)
(* Macro expansion: taint is balanced, no macro is expanded within its own *)
(* expansion, and what is left unexpanded for that reason is in its hide   *)
(* set.  The markers that are still ahead of the scan, in the list and in  *)
(* the lists that wait for it, are what is tainted; every token in front of*)
(* a marker has its name in its hide set, and what is collected for an     *)
(* argument was in front of all the markers that are left.                 *)
(***************************************************************************)
EXTENDS MacroExpand, Recursion_proofs, FiniteSetTheorems

\* A token other than a marker; painted if it came out of the body of its own
\* name, and only if that is in its hide set.
Plain(t) ==
    /\ t \in Token /\ ~t.untaint
    /\ t.within => t.noexpand
    /\ t.noexpand => t.text \in t.hide

Marker(t) == t.text \in DOMAIN macros /\ t = Untaint(t.text)

\* Plain tokens, with all of B in their hide sets.
AllPlain(s, B) ==
    /\ s \in Seq(Token)
    /\ \A i \in 1 .. Len(s) : Plain(s[i]) /\ B \subseteq s[i].hide

\* What is to be scanned, the markers B being in the lists that wait for it.
Unscanned(s, B) ==
    /\ s \in Seq(Token)
    /\ \A i \in 1 .. Len(s) :
          \/ Plain(s[i]) /\ B \subseteq s[i].hide
             /\ \A k \in i + 1 .. Len(s) : s[k].untaint => s[k].text \in s[i].hide
          \/ Marker(s[i]) /\ s[i].text \notin B
             /\ \A k \in i + 1 .. Len(s) : s[k].untaint => s[k].text # s[i].text

\* A call whose arguments are being expanded, the markers B being ahead then.
Waiting(c, B) ==
    /\ c \in Call /\ c.mac \notin B /\ B \subseteq c.hide
    /\ Len(c.args) = macros[c.mac].wanted
    /\ \A n \in 1 .. Len(c.args) : AllPlain(c.args[n].arg, B)
    /\ Len(c.expanded) <= Len(c.args)
    /\ \A n \in 1 .. Len(c.expanded) : AllPlain(c.expanded[n], {})

ListRec == [scanned: Seq(Token), rest: Seq(Token), call: Call \cup {NoCall}]

ListOK(l, B) ==
    /\ l \in ListRec
    /\ AllPlain(l.scanned, B)
    /\ Unscanned(l.rest, B)
    /\ l.call = NoCall \/ Waiting(l.call, B \cup Untainted(l.rest))

\* The markers in the lists before list i.
Below(L, i) == UNION {Untainted(L[j].rest) : j \in 1 .. i - 1}

Stack(L, T) ==
    /\ L \in Seq(ListRec) /\ L # <<>>
    /\ \A i \in 1 .. Len(L) : ListOK(L[i], Below(L, i))
    /\ \A i \in 1 .. Len(L) - 1 : L[i].call # NoCall /\ Len(L[i].call.expanded) < Len(L[i].call.args)
    /\ T = Below(L, Len(L) + 1)

Defines == \E p \in Programs : macros = p.macros

Inv == Defines /\ Stack(lists, tainted)

-----------------------------------------------------------------------------
\* What a marker is made of.
LEMMA UntaintFields ==
    ASSUME NEW m \in Texts
    PROVE  /\ Untaint(m) \in Token /\ Untaint(m).untaint /\ Untaint(m).text = m
           /\ Tok(m) \in Token /\ Plain(Tok(m)) /\ Tok(m).text = m /\ Tok(m).hide = {}
BY DEF Untaint, Tok, Token, Plain

\* The markers of a sequence.
LEMMA UntaintedIs ==
    ASSUME NEW s \in Seq(Token), NEW x
    PROVE  x \in Untainted(s) <=> \E i \in 1 .. Len(s) : s[i].untaint /\ s[i].text = x
BY DEF Untainted

\* s without its first k tokens.
Dropped(s, k) == SubSeq(s, k + 1, Len(s))

\* What is where in it.
LEMMA DroppedIs ==
    ASSUME NEW S, NEW s \in Seq(S), NEW k \in 0 .. Len(s)
    PROVE  /\ Dropped(s, k) \in Seq(S) /\ Len(Dropped(s, k)) = Len(s) - k
           /\ \A i \in 1 .. Len(s) - k : Dropped(s, k)[i] = s[k + i] /\ k + i \in 1 .. Len(s)
           /\ SubSeq(s, 1, k) \in Seq(S) /\ Len(SubSeq(s, 1, k)) = k
           /\ \A i \in 1 .. k : SubSeq(s, 1, k)[i] = s[i] /\ i \in 1 .. Len(s)
           /\ \A j \in 1 .. Len(s) : j \in 1 .. k \/ (j - k \in 1 .. Len(s) - k /\ k + (j - k) = j)
BY DEF Dropped

\* The scan goes on behind the first k tokens: the markers among these are no
\* longer ahead.
LEMMA Drop ==
    ASSUME NEW s, NEW B, Unscanned(s, B), NEW k \in 0 .. Len(s)
    PROVE  /\ Unscanned(Dropped(s, k), B)
           /\ (B \cup Untainted(s)) \ Untainted(SubSeq(s, 1, k)) = B \cup Untainted(Dropped(s, k))
           /\ \A i \in 1 .. k : ~s[i].untaint =>
                 Plain(s[i]) /\ B \cup Untainted(Dropped(s, k)) \subseteq s[i].hide
<1> DEFINE d == Dropped(s, k)
           a == SubSeq(s, 1, k)
<1>1. s \in Seq(Token) /\ Len(s) \in Nat /\ k \in Nat /\ k <= Len(s)
  BY DEF Unscanned
<1>2. /\ d \in Seq(Token) /\ Len(d) = Len(s) - k
      /\ \A i \in 1 .. Len(d) : d[i] = s[k + i] /\ k + i \in 1 .. Len(s)
      /\ a \in Seq(Token) /\ Len(a) = k
      /\ \A i \in 1 .. k : a[i] = s[i] /\ i \in 1 .. Len(s)
      /\ \A j \in 1 .. Len(s) : j \in 1 .. k \/ (j - k \in 1 .. Len(d) /\ k + (j - k) = j)
  BY <1>1, DroppedIs
<1> HIDE DEF d, a
<1>3. \A i \in 1 .. Len(s) : s[i].untaint <=> ~Plain(s[i])
  <2>1. \A i \in 1 .. Len(s) : Marker(s[i]) => s[i].untaint
    BY DEF Marker, Untaint, Tok
  <2> QED
    BY <2>1 DEF Unscanned, Plain
<1>4. \A i \in 1 .. Len(s) : \A j \in i + 1 .. Len(s) : s[i].untaint /\ s[j].untaint =>
         s[j].text # s[i].text
  BY <1>3 DEF Unscanned
<1>5. \A i \in 1 .. Len(s) : s[i].untaint => s[i].text \notin B /\ Marker(s[i])
  BY <1>3 DEF Unscanned
<1>6. Unscanned(d, B)
  <2>1. \A i \in 1 .. Len(d) : \A j \in i + 1 .. Len(d) : d[j] = s[k + j] /\ k + j \in (k + i) + 1 .. Len(s)
    BY <1>1, <1>2
  <2>2. ASSUME NEW i \in 1 .. Len(d)
        PROVE  \/ /\ Plain(d[i]) /\ B \subseteq d[i].hide
                  /\ \A j \in i + 1 .. Len(d) : d[j].untaint => d[j].text \in d[i].hide
               \/ /\ Marker(d[i]) /\ d[i].text \notin B
                  /\ \A j \in i + 1 .. Len(d) : d[j].untaint => d[j].text # d[i].text
    <3> DEFINE q == k + i
    <3>1. d[i] = s[q] /\ q \in 1 .. Len(s)
      BY <1>2
    <3>2. \/ /\ Plain(s[q]) /\ B \subseteq s[q].hide
             /\ \A j \in q + 1 .. Len(s) : s[j].untaint => s[j].text \in s[q].hide
          \/ /\ Marker(s[q]) /\ s[q].text \notin B
             /\ \A j \in q + 1 .. Len(s) : s[j].untaint => s[j].text # s[q].text
      BY <3>1 DEF Unscanned
    <3>3. \A j \in i + 1 .. Len(d) : d[j] = s[k + j] /\ k + j \in q + 1 .. Len(s)
      BY <2>1
    <3> HIDE DEF q
    <3> QED
      BY <3>1, <3>2, <3>3
  <2> QED
    BY <1>2, <2>2 DEF Unscanned
<1>7. ASSUME NEW x
      PROVE  x \in (B \cup Untainted(s)) \ Untainted(a) <=> x \in B \cup Untainted(d)
  <2>1. x \in B => x \notin Untainted(a)
    BY <1>2, <1>5, UntaintedIs
  <2>2. ASSUME x \in Untainted(s), x \notin Untainted(a) PROVE x \in Untainted(d)
    <3>1. PICK i \in 1 .. Len(s) : s[i].untaint /\ s[i].text = x
      BY <1>1, <2>2, UntaintedIs
    <3>2. i \notin 1 .. k
      BY <1>2, <2>2, <3>1, UntaintedIs
    <3>3. i - k \in 1 .. Len(d) /\ d[i - k] = s[i]
      BY <1>2, <3>2
    <3> QED
      BY <1>2, <3>1, <3>3, UntaintedIs
  <2>3. ASSUME x \in Untainted(d) PROVE x \in Untainted(s) /\ x \notin Untainted(a)
    <3>1. PICK i \in 1 .. Len(d) : d[i].untaint /\ d[i].text = x
      BY <1>2, <2>3, UntaintedIs
    <3>2. s[k + i].untaint /\ s[k + i].text = x /\ k + i \in 1 .. Len(s)
      BY <1>2, <3>1
    <3>3. \A j \in 1 .. k : k + i \in j + 1 .. Len(s) /\ j \in 1 .. Len(s)
      BY <1>1, <1>2, <3>2
    <3>4. \A j \in 1 .. k : a[j].untaint => a[j].text # x
      BY <1>2, <1>4, <3>2, <3>3
    <3>5. x \in Untainted(s)
      BY <1>1, <3>2, UntaintedIs
    <3>6. ~\E j \in 1 .. Len(a) : a[j].untaint /\ a[j].text = x
      BY <1>2, <3>4
    <3> QED
      BY <1>2, <3>5, <3>6, UntaintedIs
  <2> QED
    BY <2>1, <2>2, <2>3
<1>8. ASSUME NEW i \in 1 .. k, ~s[i].untaint
      PROVE  Plain(s[i]) /\ B \cup Untainted(d) \subseteq s[i].hide
  <2>1. i \in 1 .. Len(s) /\ Plain(s[i])
    BY <1>2, <1>3, <1>8
  <2>2. B \subseteq s[i].hide /\ \A j \in i + 1 .. Len(s) : s[j].untaint => s[j].text \in s[i].hide
    <3>1. ~Marker(s[i])
      BY <1>8 DEF Marker, Untaint, Tok
    <3> QED
      BY <2>1, <3>1 DEF Unscanned
  <2>3. \A j \in 1 .. Len(d) : d[j] = s[k + j] /\ k + j \in i + 1 .. Len(s)
    BY <1>1, <1>2
  <2>4. Untainted(d) \subseteq s[i].hide
    <3> SUFFICES ASSUME NEW x \in Untainted(d) PROVE x \in s[i].hide
      OBVIOUS
    <3>1. PICK j \in 1 .. Len(d) : d[j].untaint /\ d[j].text = x
      BY <1>2, UntaintedIs
    <3> QED
      BY <2>2, <2>3, <3>1
  <2> QED
    BY <2>1, <2>2, <2>4
<1>9. (B \cup Untainted(s)) \ Untainted(a) = B \cup Untainted(d)
  BY <1>7
<1> QED
  BY <1>6, <1>8, <1>9 DEF d, a

\* Where the scan stops is the end or no marker.
LEMMA SkipIs ==
    ASSUME NEW s \in Seq(Token)
    PROVE  /\ Skip(s) \in 0 .. Len(s)
           /\ scan_next(s) = Dropped(s, Skip(s))
           /\ scan_next(s) # <<>> => /\ Skip(s) + 1 \in 1 .. Len(s)
                                     /\ scan_next(s)[1] = s[Skip(s) + 1] /\ ~s[Skip(s) + 1].untaint
                                     /\ Tail(scan_next(s)) = Dropped(s, Skip(s) + 1)
<1> DEFINE ends == {i \in DOMAIN s : ~s[i].untaint}
<1>1. CASE ends = {}
  BY <1>1 DEF Skip, scan_next, Dropped
<1>2. CASE ends # {}
  <2>1. ends \subseteq Nat
    OBVIOUS
  <2>2. \E i \in ends : \A j \in ends : i <= j
    <3> HIDE DEF ends
    <3> QED
      BY <1>2, <2>1, Least
  <2> DEFINE i == CHOOSE i \in ends : \A j \in ends : i <= j
  <2>3. i \in ends
    <3> HIDE DEF ends
    <3> QED
      BY <2>2
  <2>4. Skip(s) = i - 1
    BY <1>2 DEF Skip
  <2>5. i \in 1 .. Len(s) /\ ~s[i].untaint
    BY <2>3
  <2> HIDE DEF i
  <2>6. Skip(s) + 1 = i
    BY <2>4, <2>5
  <2> QED
    BY <2>4, <2>5, <2>6 DEF scan_next, Dropped
<1> QED
  BY <1>1, <1>2

-----------------------------------------------------------------------------
\* What is collected for an argument: tokens, none of them a marker.
LEMMA NoMarkersIs ==
    ASSUME NEW s \in Seq(Token)
    PROVE  /\ NoMarkers(s) \in Seq(Token)
           /\ \A i \in 1 .. Len(NoMarkers(s)) :
                 \E j \in 1 .. Len(s) : NoMarkers(s)[i] = s[j] /\ ~s[j].untaint
<1> DEFINE D == 0 .. Len(s)
           left[n \in D] ==
              IF n = 0 THEN <<>> ELSE IF s[n].untaint THEN left[n - 1] ELSE Append(left[n - 1], s[n])
           step(n, r) == IF n \notin 1 .. Len(s) THEN r
                         ELSE IF s[n].untaint THEN r ELSE Append(r, s[n])
           G == [x \in Nat \X Seq(Token) |-> step(x[1], x[2])]
<1>1. PICK f \in [0 .. Len(s) -> Seq(Token)] : Follows(f, 0, Len(s), <<>>, G)
  <2>1. G \in [Nat \X Seq(Token) -> Seq(Token)]
    <3> SUFFICES ASSUME NEW n \in Nat, NEW r \in Seq(Token) PROVE step(n, r) \in Seq(Token)
      OBVIOUS
    <3>1. n \in 1 .. Len(s) => s[n] \in Token
      OBVIOUS
    <3> QED
      BY <3>1
  <2>2. Len(s) \in Nat /\ <<>> \in Seq(Token) /\ 0 \in Nat
    OBVIOUS
  <2> HIDE DEF G
  <2> QED
    BY <2>1, <2>2, Recursive
<1>2. \A n \in D : f[n] = IF n = 0 THEN <<>>
                          ELSE IF s[n].untaint THEN f[n - 1] ELSE Append(f[n - 1], s[n])
  <2> TAKE n \in D
  <2>1. n # 0 => n \in 1 .. Len(s) /\ n \in Nat /\ f[n - 1] \in Seq(Token)
    <3>1. Len(s) \in Nat
      OBVIOUS
    <3>2. n # 0 => n \in 1 .. Len(s) /\ n \in Nat /\ n - 1 \in 0 .. Len(s)
      BY <3>1
    <3> QED
      BY <1>1, <3>2
  <2>2. n # 0 => G[<<n, f[n - 1]>>] = IF s[n].untaint THEN f[n - 1] ELSE Append(f[n - 1], s[n])
    BY <2>1
  <2>3. f[n] = IF n = 0 THEN <<>> ELSE G[<<n, f[n - 1]>>]
    BY <1>1 DEF Follows
  <2> HIDE DEF G
  <2> QED
    BY <2>2, <2>3
<1>3. left = [n \in D |-> IF n = 0 THEN <<>>
                          ELSE IF s[n].untaint THEN left[n - 1] ELSE Append(left[n - 1], s[n])]
  <2>1. f = [n \in D |-> IF n = 0 THEN <<>>
                         ELSE IF s[n].untaint THEN f[n - 1] ELSE Append(f[n - 1], s[n])]
    BY <1>1, <1>2
  <2> QED
    BY <2>1
<1> DEFINE Of(n) == /\ left[n] \in Seq(Token)
                    /\ \A i \in 1 .. Len(left[n]) :
                          \E j \in 1 .. Len(s) : left[n][i] = s[j] /\ ~s[j].untaint
           T == {n \in D : ~Of(n)}
<1> HIDE DEF left
<1>4. ASSUME T # {} PROVE FALSE
  <2>1. PICK n \in T : \A l \in T : n <= l
    <3> T \subseteq Nat
      OBVIOUS
    <3> HIDE DEF T
    <3> QED
      BY <1>4, Least
  <2>2. n \in D /\ ~Of(n)
    BY <2>1
  <2>3. CASE n = 0
    <3>1. left[n] = <<>>
      BY <1>3, <2>2, <2>3
    <3> QED
      BY <2>2, <3>1
  <2>4. CASE n # 0
    <3>1. n \in 1 .. Len(s) /\ n - 1 \in D /\ ~(n <= n - 1)
      BY <2>2, <2>4
    <3>2. n - 1 \notin T
      <4> HIDE DEF T
      <4> QED
        BY <2>1, <3>1
    <3>3. Of(n - 1)
      BY <3>1, <3>2
    <3>4. left[n] = IF s[n].untaint THEN left[n - 1] ELSE Append(left[n - 1], s[n])
      BY <1>3, <2>2, <2>4
    <3>5. s[n] \in Token
      BY <3>1
    <3>6. CASE s[n].untaint
      BY <2>2, <3>3, <3>4, <3>6
    <3>7. CASE ~s[n].untaint
      <4> DEFINE r == left[n - 1]
      <4>1. left[n] = Append(r, s[n]) /\ r \in Seq(Token)
        BY <3>3, <3>4, <3>7
      <4>2. \A i \in 1 .. Len(r) : \E j \in 1 .. Len(s) : r[i] = s[j] /\ ~s[j].untaint
        BY <3>3
      <4> HIDE DEF r
      <4>3. Append(r, s[n]) \in Seq(Token) /\ Len(Append(r, s[n])) = Len(r) + 1
        BY <3>5, <4>1
      <4>4. \A i \in 1 .. Len(Append(r, s[n])) :
               Append(r, s[n])[i] = IF i = Len(r) + 1 THEN s[n] ELSE r[i]
        BY <3>5, <4>1
      <4>5. \A i \in 1 .. Len(Append(r, s[n])) : i # Len(r) + 1 => i \in 1 .. Len(r)
        BY <4>1, <4>3
      <4>6. ASSUME NEW i \in 1 .. Len(Append(r, s[n]))
            PROVE  \E j \in 1 .. Len(s) : Append(r, s[n])[i] = s[j] /\ ~s[j].untaint
        BY <3>1, <3>7, <4>2, <4>4, <4>5
      <4> QED
        BY <2>2, <4>1, <4>3, <4>6
    <3> QED
      BY <3>6, <3>7
  <2> QED
    BY <2>3, <2>4
<1>5. NoMarkers(s) = left[Len(s)] /\ Len(s) \in D
  BY DEF NoMarkers, left
<1>6. Of(Len(s))
  BY <1>4, <1>5
<1> QED
  BY <1>5, <1>6

\* The n-th of a finite set of numbers is one of them.
LEMMA NthIs ==
    ASSUME NEW N \in Nat, NEW C, C \subseteq Nat, \A y \in C : y <= N,
           NEW n \in 1 .. Cardinality(C)
    PROVE  Nth(C, n) \in C
<1> DEFINE less(x) == {y \in C : y < x}
           T == {x \in C : Cardinality(less(x)) >= n - 1}
<1>9. IsFiniteSet(C)
  BY FS_BoundedSetOfNaturals
<1>0. Cardinality(C) \in Nat /\ n \in Nat /\ n >= 1
  BY <1>9, FS_CardinalityType
<1>1. \A x \in C : IsFiniteSet(less(x)) /\ Cardinality(less(x)) \in Nat
  <2> TAKE x \in C
  <2>1. less(x) \subseteq C
    OBVIOUS
  <2> QED
    BY <1>9, <2>1, FS_Subset, FS_CardinalityType
<1>2. T # {}
  <2>1. C # {}
    BY <1>0, <1>9, FS_EmptySet
  <2>2. PICK top \in C : \A y \in C : y <= top
    <3>1. C \subseteq 0 .. N
      OBVIOUS
    <3> QED
      BY <2>1, <3>1, Greatest
  <2>3. C = less(top) \cup {top} /\ top \notin less(top)
    <3>1. \A y \in C : y \in Nat /\ y <= top /\ (y # top => y < top)
      BY <2>2
    <3>2. top \notin less(top)
      OBVIOUS
    <3>3. \A y : y \in C <=> y \in less(top) \cup {top}
      BY <3>1
    <3> QED
      BY <3>2, <3>3
  <2>4. Cardinality(C) = Cardinality(less(top)) + 1
    <3> HIDE DEF less
    <3> QED
      BY <1>1, <2>2, <2>3, FS_AddElement
  <2>5. Cardinality(less(top)) >= n - 1
    BY <1>0, <1>1, <2>4
  <2> QED
    BY <2>2, <2>5
<1>3. PICK x \in T : \A y \in T : x <= y
  <2> T \subseteq Nat
    OBVIOUS
  <2> HIDE DEF T
  <2> QED
    BY <1>2, Least
<1>4. Cardinality(less(x)) = n - 1
  <2>1. x \in C /\ Cardinality(less(x)) >= n - 1
    BY <1>3
  <2>2. CASE less(x) = {}
    <3>1. Cardinality(less(x)) = 0
      BY <2>2, FS_EmptySet
    <3> QED
      BY <1>0, <2>1, <3>1
  <2>3. CASE less(x) # {}
    <3>1. x \in Nat
      BY <2>1
    <3>2. PICK z \in less(x) : \A y \in less(x) : y <= z
      <4>1. less(x) \subseteq 0 .. x
        <5>1. \A y \in C : y < x => y \in 0 .. x
          BY <3>1
        <5> QED
          BY <5>1
      <4> HIDE DEF less
      <4> QED
        BY <2>3, <3>1, <4>1, Greatest
    <3>3. z \in C /\ z < x /\ z \in Nat
      OBVIOUS
    <3>4. less(x) = less(z) \cup {z} /\ z \notin less(z)
      <4>1. \A y \in C : y \in Nat
        OBVIOUS
      <4>2. \A y \in C : y < x => y <= z
        BY <3>2
      <4>3. \A y \in C : y < x <=> y < z \/ y = z
        BY <3>1, <3>3, <4>1, <4>2
      <4>4. z \notin less(z)
        BY <3>3
      <4>5. \A y : y \in less(x) <=> y \in less(z) \cup {z}
        BY <3>3, <4>3
      <4> QED
        BY <4>4, <4>5
    <3>5. Cardinality(less(x)) = Cardinality(less(z)) + 1
      <4> HIDE DEF less
      <4> QED
        BY <1>1, <3>3, <3>4, FS_AddElement
    <3>6. z \notin T
      <4>1. ~(x <= z)
        BY <3>1, <3>3
      <4> HIDE DEF T
      <4> QED
        BY <1>3, <4>1
    <3>7. ~(Cardinality(less(z)) >= n - 1)
      BY <3>3, <3>6
    <3> HIDE DEF less
    <3> QED
      BY <1>0, <1>1, <2>1, <3>3, <3>5, <3>7
  <2> QED
    BY <2>2, <2>3
<1> QED
  BY <1>3, <1>4 DEF Nth

\* A part of the first k tokens.
LEMMA SliceIs ==
    ASSUME NEW s \in Seq(Token), NEW k \in 1 .. Len(s), NEW a \in 1 .. k, NEW b \in 1 .. k
    PROVE  /\ SubSeq(s, a + 1, b - 1) \in Seq(Token)
           /\ \A i \in 1 .. Len(SubSeq(s, a + 1, b - 1)) :
                 \E j \in 1 .. k : SubSeq(s, a + 1, b - 1)[i] = s[j]
<1>1. CASE b - 1 < a + 1
  <2>1. SubSeq(s, a + 1, b - 1) = <<>>
    BY <1>1
  <2>2. <<>> \in Seq(Token) /\ 1 .. Len(<<>>) = {}
    OBVIOUS
  <2> QED
    BY <2>1, <2>2
<1>2. CASE a + 1 <= b - 1
  <2>1. a + 1 \in 1 .. Len(s) /\ b - 1 \in 1 .. Len(s) /\ Len(s) \in Nat
    BY <1>2
  <2>2. /\ SubSeq(s, a + 1, b - 1) \in Seq(Token)
        /\ Len(SubSeq(s, a + 1, b - 1)) = b - a - 1
        /\ \A i \in 1 .. b - a - 1 : SubSeq(s, a + 1, b - 1)[i] = s[a + i]
    BY <1>2, <2>1
  <2>3. \A i \in 1 .. b - a - 1 : a + i \in 1 .. k
    BY <1>2
  <2> QED
    BY <2>2, <2>3
<1> QED
  BY <1>1, <1>2

\* The call is closed by a token of the list.
LEMMA CloseIs ==
    ASSUME NEW s \in Seq(Token), Close(s) # 0
    PROVE  Close(s) \in 1 .. Len(s) /\ s[Close(s)].text = ")"
<1> DEFINE ends == {i \in DOMAIN s : s[i].text = ")" /\ Depth(s, i) = 0}
<1>1. ends # {} /\ Close(s) = CHOOSE i \in ends : \A j \in ends : i <= j
  BY DEF Close
<1>2. \E i \in ends : \A j \in ends : i <= j
  <2>1. ends \subseteq Nat
    OBVIOUS
  <2> HIDE DEF ends
  <2> QED
    BY <1>1, <2>1, Least
<1>3. Close(s) \in ends
  <2> HIDE DEF ends
  <2> QED
    BY <1>1, <1>2
<1> QED
  BY <1>3

\* What the arguments of a call come to.
ArgsOK(args, B) ==
    /\ args \in Seq(Arg)
    /\ \A n \in 1 .. Len(args) : AllPlain(args[n].arg, B)

\* Nothing of a marker gets into an argument, and what does was in front of the
\* markers that are left behind the call.
LEMMA CollectedIs ==
    ASSUME NEW s, NEW B, Unscanned(s, B), Close(s) # 0, NEW d
    PROVE  ArgsOK(Collected(s, d), B \cup Untainted(Dropped(s, Close(s))))
<1> DEFINE k == Close(s)
           C == {1, k} \cup Commas(s, d)
           H == B \cup Untainted(Dropped(s, k))
           part(n) == SubSeq(s, Nth(C, n) + 1, Nth(C, n + 1) - 1)
<1>1. s \in Seq(Token)
  BY DEF Unscanned
<1>2. k \in 1 .. Len(s)
  BY <1>1, CloseIs
<1>3. C \subseteq 1 .. k /\ 1 \in C
  <2>1. Commas(s, d) \subseteq 1 .. k
    BY DEF Commas
  <2>2. 1 \in 1 .. k /\ k \in 1 .. k
    BY <1>2
  <2> QED
    BY <2>1, <2>2
<1>4. \A i \in 1 .. k : ~s[i].untaint => Plain(s[i]) /\ H \subseteq s[i].hide
  <2>1. k \in 0 .. Len(s)
    BY <1>2
  <2> HIDE DEF k
  <2> QED
    BY <2>1, Drop
<1>5. Collected(s, d) = [n \in 1 .. Cardinality(C) - 1 |-> [given |-> TRUE, arg |-> NoMarkers(part(n))]]
  BY DEF Collected
<1>6. C \subseteq Nat /\ k \in Nat /\ \A y \in C : y <= k
  <2>1. 1 .. k \subseteq Nat /\ \A y \in 1 .. k : y <= k
    BY <1>2
  <2> HIDE DEF C, k
  <2> QED
    BY <1>2, <1>3, <2>1
<1> HIDE DEF k, C
<1>7. IsFiniteSet(C) /\ Cardinality(C) \in Nat /\ Cardinality(C) # 0
  <2>1. IsFiniteSet(C)
    BY <1>6, FS_BoundedSetOfNaturals
  <2> QED
    BY <1>3, <2>1, FS_CardinalityType, FS_EmptySet
<1>8. \A n \in 1 .. Cardinality(C) : Nth(C, n) \in 1 .. k
  BY <1>3, <1>6, NthIs
<1>9. ASSUME NEW n \in 1 .. Cardinality(C) - 1
      PROVE  AllPlain(NoMarkers(part(n)), H)
  <2>1. n \in 1 .. Cardinality(C) /\ n + 1 \in 1 .. Cardinality(C)
    BY <1>7
  <2>2. /\ part(n) \in Seq(Token)
        /\ \A i \in 1 .. Len(part(n)) : \E j \in 1 .. k : part(n)[i] = s[j]
    BY <1>1, <1>2, <1>8, <2>1, SliceIs
  <2> HIDE DEF part, H
  <2>3. /\ NoMarkers(part(n)) \in Seq(Token)
        /\ \A i \in 1 .. Len(NoMarkers(part(n))) :
              \E j \in 1 .. Len(part(n)) : NoMarkers(part(n))[i] = part(n)[j] /\ ~part(n)[j].untaint
    BY <2>2, NoMarkersIs
  <2>4. ASSUME NEW i \in 1 .. Len(NoMarkers(part(n)))
        PROVE  Plain(NoMarkers(part(n))[i]) /\ H \subseteq NoMarkers(part(n))[i].hide
    <3>1. PICK j \in 1 .. Len(part(n)) : NoMarkers(part(n))[i] = part(n)[j] /\ ~part(n)[j].untaint
      BY <2>3
    <3>2. PICK l \in 1 .. k : part(n)[j] = s[l]
      BY <2>2
    <3> QED
      BY <1>4, <3>1, <3>2
  <2> QED
    BY <2>3, <2>4 DEF AllPlain
<1> DEFINE N == Cardinality(C) - 1
           arg(n) == [given |-> TRUE, arg |-> NoMarkers(part(n))]
           c == [n \in 1 .. N |-> arg(n)]
<1>10. N \in Nat
  BY <1>7
<1>11. \A n \in 1 .. N : arg(n) \in Arg
  BY <1>9 DEF AllPlain, Arg
<1>12. c \in Seq(Arg) /\ Len(c) = N
  <2> HIDE DEF N, arg
  <2> QED
    BY <1>10, <1>11
<1>13. \A n \in 1 .. Len(c) : c[n].arg = NoMarkers(part(n)) /\ n \in 1 .. Cardinality(C) - 1
  <2>1. \A n \in 1 .. N : c[n].arg = NoMarkers(part(n))
    OBVIOUS
  <2> HIDE DEF c, N, arg
  <2> QED
    BY <1>12, <2>1 DEF N
<1>14. Collected(s, d) = c
  BY <1>5
<1> HIDE DEF c, H
<1>15. ArgsOK(c, H)
  BY <1>9, <1>12, <1>13 DEF ArgsOK
<1> QED
  BY <1>14, <1>15 DEF H, k

\* As many arguments as the macro wants, when they fit.
LEMMA GivenIs ==
    ASSUME NEW args, NEW B, ArgsOK(args, B), NEW d \in Macro, Fits(args, d)
    PROVE  ArgsOK(Given(args, d), B) /\ Len(Given(args, d)) = d.wanted
<1> DEFINE no == [given |-> FALSE, arg |-> <<>>]
<1>1. args \in Seq(Arg) /\ d.wanted \in Nat /\ Len(args) \in Nat
  BY DEF ArgsOK, Macro
<1>2. CASE d.wanted = 0
  BY <1>2 DEF Given, ArgsOK
<1>3. CASE d.wanted # 0 /\ ~(Len(args) < d.wanted)
  <2>1. Len(args) = d.wanted
    BY <1>1, <1>3 DEF Fits
  <2> QED
    BY <1>3, <2>1 DEF Given
<1>4. CASE d.wanted # 0 /\ Len(args) < d.wanted
  <2>1. Len(args) = d.wanted - 1
    BY <1>1, <1>4 DEF Fits
  <2>2. Given(args, d) = Append(args, no)
    BY <1>4 DEF Given
  <2>3. no \in Arg /\ AllPlain(no.arg, B)
    BY DEF Arg, AllPlain
  <2> HIDE DEF no
  <2>4. Append(args, no) \in Seq(Arg) /\ Len(Append(args, no)) = d.wanted
    BY <1>1, <2>1, <2>3
  <2>5. \A n \in 1 .. d.wanted : Append(args, no)[n] = IF n = d.wanted THEN no ELSE args[n]
    BY <1>1, <2>1, <2>3
  <2>6. \A n \in 1 .. d.wanted : n # d.wanted => n \in 1 .. Len(args)
    BY <1>1, <2>1
  <2>7. \A n \in 1 .. Len(args) : AllPlain(args[n].arg, B)
    BY DEF ArgsOK
  <2> QED
    BY <2>2, <2>3, <2>4, <2>5, <2>6, <2>7 DEF ArgsOK
<1> QED
  BY <1>2, <1>3, <1>4

-----------------------------------------------------------------------------
\* How a call paints its tokens: what is tainted is what they would come out of,
\* and is in the hide set of all.
PaintOK(paint) == /\ paint \in Paint
                  /\ paint.within \subseteq paint.tainted /\ paint.tainted \subseteq paint.hide

\* A token that is copied is painted as it should be.
LEMMA CopyIs ==
    ASSUME NEW paint, PaintOK(paint), NEW t, Plain(t)
    PROVE  Plain(copy(t, paint)) /\ paint.hide \subseteq copy(t, paint).hide
<1> DEFINE c == copy(t, paint)
<1>1. /\ t.untaint \in BOOLEAN /\ t.text \in Texts /\ t.noexpand \in BOOLEAN
      /\ t.hide \in SUBSET Texts /\ t.within \in BOOLEAN
  BY DEF Plain, Token
<1>2. paint.tainted \in SUBSET Texts /\ paint.within \in SUBSET Texts /\ paint.hide \in SUBSET Texts
  BY DEF PaintOK, Paint
<1>3. /\ c.untaint = t.untaint /\ c.text = t.text
      /\ c.noexpand = (t.noexpand \/ t.text \in paint.tainted)
      /\ c.hide = t.hide \cup paint.hide
      /\ c.within = (t.within \/ t.text \in paint.within)
  BY DEF copy, Plain, Token
<1>4. c \in Token
  <2>1. (t.noexpand \/ t.text \in paint.tainted) \in BOOLEAN /\ (t.within \/ t.text \in paint.within) \in BOOLEAN
    OBVIOUS
  <2>2. t.hide \cup paint.hide \in SUBSET Texts
    BY <1>1, <1>2
  <2> QED
    BY <1>1, <2>1, <2>2 DEF copy, Plain, Token
<1> HIDE DEF c
<1>5. /\ ~t.untaint /\ (t.within => t.noexpand) /\ (t.noexpand => t.text \in t.hide)
  BY DEF Plain
<1>6. paint.within \subseteq paint.tainted /\ paint.tainted \subseteq paint.hide
  BY DEF PaintOK
<1>7. Plain(c)
  BY <1>3, <1>4, <1>5, <1>6 DEF Plain
<1>8. paint.hide \subseteq c.hide
  BY <1>3
<1> QED
  BY <1>7, <1>8 DEF c

\* So are the tokens of an argument.
LEMMA CopiesAre ==
    ASSUME NEW paint, PaintOK(paint), NEW ts, AllPlain(ts, {})
    PROVE  AllPlain(copies(ts, paint), paint.hide) /\ Len(copies(ts, paint)) = Len(ts)
<1>1. ts \in Seq(Token) /\ \A i \in 1 .. Len(ts) : Plain(ts[i])
  BY DEF AllPlain
<1>2. \A i \in 1 .. Len(ts) : Plain(copy(ts[i], paint)) /\ paint.hide \subseteq copy(ts[i], paint).hide
  BY <1>1, CopyIs
<1>3. copies(ts, paint) = [i \in 1 .. Len(ts) |-> copy(ts[i], paint)]
  BY <1>1 DEF copies
<1>4. \A i \in 1 .. Len(ts) : copy(ts[i], paint) \in Token
  BY <1>2 DEF Plain
<1>5. copies(ts, paint) \in Seq(Token) /\ Len(copies(ts, paint)) = Len(ts)
  BY <1>1, <1>3, <1>4
<1>6. \A i \in 1 .. Len(ts) : copies(ts, paint)[i] = copy(ts[i], paint)
  BY <1>3
<1> QED
  BY <1>2, <1>5, <1>6 DEF AllPlain

\* So is a token of the body.
LEMMA TextIs ==
    ASSUME NEW paint, PaintOK(paint), NEW t \in Texts
    PROVE  AllPlain(text(t, paint), paint.hide) /\ text(t, paint) # <<>>
<1>1. Plain(copy(Tok(t), paint)) /\ paint.hide \subseteq copy(Tok(t), paint).hide
  BY UntaintFields, CopyIs
<1>2. text(t, paint) = <<copy(Tok(t), paint)>>
  BY DEF text
<1>3. copy(Tok(t), paint) \in Token
  BY <1>1 DEF Plain
<1>4. text(t, paint) \in Seq(Token) /\ Len(text(t, paint)) = 1 /\ text(t, paint)[1] = copy(Tok(t), paint)
  BY <1>2, <1>3
<1> QED
  BY <1>1, <1>4 DEF AllPlain

\* Plain tokens stay so put together, or without the first or the last.
LEMMA PlainParts ==
    ASSUME NEW B, NEW a, AllPlain(a, B), NEW b, AllPlain(b, B)
    PROVE  /\ AllPlain(a \o b, B) /\ Len(a \o b) = Len(a) + Len(b)
           /\ Len(a) \in Nat /\ Len(b) \in Nat
           /\ a # <<>> => AllPlain(SubSeq(a, 1, Len(a) - 1), B) /\ AllPlain(Tail(a), B)
<1>1. /\ a \in Seq(Token) /\ \A i \in 1 .. Len(a) : Plain(a[i]) /\ B \subseteq a[i].hide
      /\ b \in Seq(Token) /\ \A i \in 1 .. Len(b) : Plain(b[i]) /\ B \subseteq b[i].hide
  BY DEF AllPlain
<1>2. a \o b \in Seq(Token) /\ Len(a \o b) = Len(a) + Len(b) /\ Len(a) \in Nat /\ Len(b) \in Nat
  BY <1>1
<1>3. \A i \in 1 .. Len(a) + Len(b) :
         IF i <= Len(a) THEN i \in 1 .. Len(a) /\ (a \o b)[i] = a[i]
         ELSE i - Len(a) \in 1 .. Len(b) /\ (a \o b)[i] = b[i - Len(a)]
  BY <1>1, <1>2
<1>4. AllPlain(a \o b, B)
  <2> SUFFICES ASSUME NEW i \in 1 .. Len(a) + Len(b)
               PROVE  Plain((a \o b)[i]) /\ B \subseteq (a \o b)[i].hide
    BY <1>2 DEF AllPlain
  <2> QED
    BY <1>1, <1>3
<1>5. a # <<>> => AllPlain(SubSeq(a, 1, Len(a) - 1), B) /\ AllPlain(Tail(a), B)
  <2> SUFFICES ASSUME a # <<>> PROVE AllPlain(SubSeq(a, 1, Len(a) - 1), B) /\ AllPlain(Tail(a), B)
    OBVIOUS
  <2>1. Len(a) >= 1
    BY <1>1
  <2>2. /\ SubSeq(a, 1, Len(a) - 1) \in Seq(Token) /\ Len(SubSeq(a, 1, Len(a) - 1)) = Len(a) - 1
        /\ \A i \in 1 .. Len(a) - 1 : SubSeq(a, 1, Len(a) - 1)[i] = a[i] /\ i \in 1 .. Len(a)
    <3>1. Len(a) - 1 \in 0 .. Len(a)
      BY <1>2, <2>1
    <3> DEFINE k == Len(a) - 1
    <3>2. \A i \in 1 .. k : i \in 1 .. Len(a)
      BY <1>2, <2>1
    <3> HIDE DEF k
    <3>3. /\ SubSeq(a, 1, k) \in Seq(Token) /\ Len(SubSeq(a, 1, k)) = k
          /\ \A i \in 1 .. k : SubSeq(a, 1, k)[i] = a[i]
      <4>1. a \in Seq(Token) /\ k \in 0 .. Len(a)
        BY <1>1, <3>1 DEF k
      <4> QED
        BY <4>1, DroppedIs
    <3> QED
      BY <3>2, <3>3 DEF k
  <2>3. /\ Tail(a) \in Seq(Token) /\ Len(Tail(a)) = Len(a) - 1
        /\ \A i \in 1 .. Len(a) - 1 : Tail(a)[i] = a[i + 1] /\ i + 1 \in 1 .. Len(a)
    BY <1>1, <2>1
  <2> QED
    BY <1>1, <2>2, <2>3 DEF AllPlain
<1> QED
  BY <1>2, <1>4, <1>5

\* What substitute keeps: its output, whether ## came last and how many tokens of
\* the body it leaves out.  With ## there is something to paste to.
Sub == [out: Seq(Token), state: {"Normal", "Concat", "Placeholder"}, skip: Nat]

SubOK(s, H) == s \in Sub /\ AllPlain(s.out, H) /\ (s.state = "Concat" => s.out # <<>>)

\* What is joined to it, and pasted, is as the rest.
LEMMA JoinIs ==
    ASSUME NEW H, NEW s, SubOK(s, H), NEW a, AllPlain(a, H), a # <<>>
    PROVE  /\ SubOK(join(s, a), H) /\ join(s, a).out # <<>>
           /\ join(s, a).state = "Normal" /\ join(s, a).skip = s.skip
<1> DEFINE o == s.out
           l == o[Len(o)]
           m == merge(l, a[1])
           new == IF s.state = "Concat" /\ <<l.text, a[1].text>> \in DOMAIN Paste
                  THEN SubSeq(o, 1, Len(o) - 1) \o <<m>> \o Tail(a) ELSE o \o a
<1>1. /\ s \in Sub /\ AllPlain(o, H) /\ (s.state = "Concat" => o # <<>>)
      /\ o \in Seq(Token) /\ a \in Seq(Token)
  BY DEF SubOK, AllPlain
<1>2. join(s, a) = [s EXCEPT !.state = "Normal", !.out = new]
  BY DEF join, Last, Front
<1>3. AllPlain(new, H) /\ new # <<>>
  <2>1. CASE s.state = "Concat" /\ <<l.text, a[1].text>> \in DOMAIN Paste
    <3>1. 1 \in 1 .. Len(a) /\ Len(o) \in 1 .. Len(o)
      BY <1>1, <2>1
    <3>2. Plain(l) /\ H \subseteq l.hide /\ Plain(a[1]) /\ H \subseteq a[1].hide
      BY <1>1, <3>1 DEF AllPlain
    <3>3. Paste[<<l.text, a[1].text>>] \in Texts
      BY <2>1, MacroAssumption
    <3>4. Plain(m) /\ H \subseteq m.hide
      <4> DEFINE x == Paste[<<l.text, a[1].text>>]
      <4>1. Plain(Tok(x)) /\ Tok(x) \in Token
        BY <3>3, UntaintFields
      <4>2. m = [Tok(x) EXCEPT !.hide = l.hide \cap a[1].hide]
        BY DEF merge
      <4>3. l.hide \cap a[1].hide \in SUBSET Texts
        BY <3>2 DEF Plain, Token
      <4> HIDE DEF x, m
      <4>4. m \in Token /\ m.hide = l.hide \cap a[1].hide /\ ~m.untaint /\ ~m.within /\ ~m.noexpand
        BY <4>1, <4>2, <4>3 DEF Token, Tok
      <4> QED
        BY <3>2, <4>4 DEF Plain
    <3>5. AllPlain(<<m>>, H) /\ <<m>> # <<>>
      BY <3>4 DEF AllPlain, Plain
    <3>6. AllPlain(SubSeq(o, 1, Len(o) - 1), H) /\ AllPlain(Tail(a), H)
      BY <1>1, <2>1, PlainParts
    <3> DEFINE x == <<m>>
               f == SubSeq(o, 1, Len(o) - 1)
               r == Tail(a)
    <3>7. Len(x) = 1
      OBVIOUS
    <3> HIDE DEF m, l, x, f, r
    <3>8. AllPlain(f \o x, H) /\ Len(f \o x) = Len(f) + Len(x) /\ Len(f) \in Nat
      <4>1. AllPlain(f, H) /\ AllPlain(x, H)
        BY <3>5, <3>6 DEF f, x
      <4> QED
        BY <4>1, PlainParts
    <3>9. AllPlain((f \o x) \o r, H) /\ Len((f \o x) \o r) = Len(f \o x) + Len(r) /\ Len(r) \in Nat
      <4>1. AllPlain(r, H)
        BY <3>6 DEF r
      <4> QED
        BY <3>8, <4>1, PlainParts
    <3>10. Len((f \o x) \o r) # 0
      BY <3>7, <3>8, <3>9
    <3>11. (f \o x) \o r # <<>>
      BY <3>10
    <3>12. new = (f \o x) \o r
      BY <2>1 DEF f, x, r
    <3> HIDE DEF new
    <3> QED
      BY <3>9, <3>11, <3>12
  <2>2. CASE ~(s.state = "Concat" /\ <<l.text, a[1].text>> \in DOMAIN Paste)
    <3>1. AllPlain(o \o a, H) /\ Len(o \o a) = Len(o) + Len(a) /\ Len(o) \in Nat /\ Len(a) \in Nat
      <4> HIDE DEF o
      <4> QED
        BY <1>1, PlainParts
    <3>2. Len(a) # 0
      BY <1>1
    <3> QED
      BY <2>2, <3>1, <3>2
  <2> QED
    BY <2>1, <2>2
<1> HIDE DEF new, o
<1>4. new \in Seq(Token)
  BY <1>3 DEF AllPlain
<1> QED
  BY <1>1, <1>2, <1>3, <1>4 DEF SubOK, Sub

\* The arguments that ## ties to a comma come to an end within the body.
LEMMA KludgeIs ==
    ASSUME NEW b \in Seq(BodyToken), NEW wanted, Parsed(b, wanted), NEW args,
           NEW i \in 1 .. Len(b), b[i].type = "KLUDGE"
    PROVE  Kludge(b, args, i).comma \in BOOLEAN /\ Kludge(b, args, i).skip \in Nat
<1> DEFINE tied(t) == t < Len(b) /\ b[t + 1].type = "CONCAT"
           v(t) == args[b[t].argnum]
           ends == {t \in i + 2 .. Len(b) :
                       /\ (t - i) % 2 = 0
                       /\ tied(t) => v(t).given /\ v(t).arg # <<>>}
           t == CHOOSE t \in ends : \A u \in ends : t <= u
<1>1. Len(b) \in Nat
  OBVIOUS
<1>2. /\ i < Len(b) /\ b[i + 1].type = "CONCAT"
      /\ \A j \in 1 .. Len(b) : b[j].type = "CONCAT" => j <= Len(b) - 1
  BY <1>1 DEF Parsed
<1>3. i + 2 <= Len(b)
  BY <1>1, <1>2
<1>4. ends # {}
  <2> DEFINE e == IF (Len(b) - i) % 2 = 0 THEN Len(b) ELSE Len(b) - 1
  <2>1. e \in i + 2 .. Len(b) /\ (e - i) % 2 = 0
    <3>1. \A q \in Nat : q % 2 = 0 \/ (q # 2 /\ (q - 1) % 2 = 0)
      OBVIOUS
    <3>2. Len(b) - i \in Nat /\ Len(b) - i >= 2 /\ Len(b) - 1 - i = (Len(b) - i) - 1
      BY <1>1, <1>3
    <3>3. (Len(b) - i) % 2 = 0 \/ (Len(b) - i # 2 /\ (Len(b) - 1 - i) % 2 = 0)
      BY <3>1, <3>2
    <3>4. CASE (Len(b) - i) % 2 = 0
      BY <1>1, <1>3, <3>4
    <3>5. CASE (Len(b) - i) % 2 # 0
      <4>1. e = Len(b) - 1 /\ (e - i) % 2 = 0
        BY <3>3, <3>5
      <4>2. Len(b) - i # 2
        BY <3>3, <3>5
      <4>3. Len(b) - 1 \in i + 2 .. Len(b)
        <5>1. i \in Nat /\ Len(b) \in Nat /\ i + 2 <= Len(b) /\ Len(b) # i + 2
          BY <1>1, <1>3, <4>2
        <5> HIDE DEF ends, e
        <5> QED
          BY <5>1
      <4> QED
        BY <4>1, <4>3
    <3> QED
      BY <3>4, <3>5
  <2>2. ~tied(e)
    BY <1>1, <1>2
  <2> QED
    BY <2>1, <2>2
<1>5. ends \subseteq Nat
  BY <1>1
<1>6. \E x \in ends : \A u \in ends : x <= u
  <2> HIDE DEF ends
  <2> QED
    BY <1>4, <1>5, Least
<1>7. t \in ends
  <2> HIDE DEF ends
  <2> QED
    BY <1>6
<1>8. t \in i + 2 .. Len(b)
  BY <1>7
<1>9. Kludge(b, args, i) = IF tied(t) THEN [comma |-> TRUE, skip |-> 0]
                           ELSE IF v(t).given THEN [comma |-> TRUE, skip |-> 1]
                           ELSE [comma |-> FALSE, skip |-> t - i]
  BY DEF Kludge
<1> HIDE DEF t, tied, v
<1>10. t - i \in Nat
  BY <1>1, <1>8
<1>11. CASE tied(t)
  BY <1>9, <1>11
<1>12. CASE ~tied(t) /\ v(t).given
  BY <1>9, <1>12
<1>13. CASE ~tied(t) /\ ~v(t).given
  BY <1>9, <1>10, <1>13
<1> QED
  BY <1>11, <1>12, <1>13

\* A body with what is put into it.
Ready(b, wanted, args, expanded, paint) ==
    /\ b \in Seq(BodyToken) /\ Parsed(b, wanted) /\ PaintOK(paint)
    /\ Len(args) = wanted /\ ArgsOK(args, {})
    /\ Len(expanded) = wanted /\ \A n \in 1 .. wanted : AllPlain(expanded[n], {})

\* And before the token that comes behind b[i]: ## is never the first to put
\* anything out.
SubAt(s, b, i, H) ==
    /\ SubOK(s, H)
    /\ i + s.skip + 1 \in 1 .. Len(b) /\ b[i + s.skip + 1].type = "CONCAT" =>
          s.out # <<>> \/ s.state = "Placeholder"

\* One token of the body.
LEMMA PutIs ==
    ASSUME NEW b, NEW wanted, NEW args, NEW expanded, NEW paint, Ready(b, wanted, args, expanded, paint),
           NEW i \in 1 .. Len(b), NEW s, SubAt(s, b, i - 1, paint.hide)
    PROVE  SubAt(Put(s, b, i, args, expanded, paint), b, i, paint.hide)
<1> DEFINE H == paint.hide
           r == Put(s, b, i, args, expanded, paint)
           n == b[i].argnum
<1> SUFFICES SubAt(r, b, i, H)
  OBVIOUS
<1>1. /\ b \in Seq(BodyToken) /\ Len(b) \in Nat /\ i \in Nat /\ Parsed(b, wanted) /\ PaintOK(paint)
      /\ s \in Sub /\ SubOK(s, H) /\ s.skip \in Nat /\ AllPlain(s.out, H) /\ s.out \in Seq(Token)
  BY DEF Ready, SubAt, SubOK, Sub
<1>2. b[i] \in BodyToken
  BY <1>1
<1>3. n \in 1 .. wanted \/ b[i].type \notin {"MACRO", "QUOTED", "STR"}
  BY <1>1 DEF Parsed
<1>4. s.skip = 0 /\ b[i].type = "CONCAT" => s.out # <<>> \/ s.state = "Placeholder"
  BY <1>1 DEF SubAt
\* Something joined to the output, and any number of tokens to be left out.
<1>5. ASSUME NEW a, AllPlain(a, H), a # <<>>, NEW k \in Nat, r = [join(s, a) EXCEPT !.skip = k]
      PROVE  SubAt(r, b, i, H)
  <2>1. SubOK(join(s, a), H) /\ join(s, a).out # <<>>
    BY <1>1, <1>5, JoinIs
  <2>2. r \in Sub /\ r.out = join(s, a).out /\ r.state = join(s, a).state
    BY <1>5, <2>1 DEF SubOK, Sub
  <2> HIDE DEF r, H
  <2> QED
    BY <2>1, <2>2 DEF SubAt, SubOK
<1>6. ASSUME NEW k \in Nat, r = [Empty(s) EXCEPT !.skip = k] PROVE SubAt(r, b, i, H)
  <2>1. /\ r \in Sub /\ r.out = s.out
        /\ r.state = IF s.state = "Concat" THEN "Normal" ELSE "Placeholder"
    BY <1>1, <1>6 DEF Empty, Sub
  <2> HIDE DEF r, H
  <2> QED
    BY <1>1, <2>1 DEF SubAt, SubOK
<1>7. ASSUME NEW a, s.skip = 0, SubOK(s, H), r = join(s, a), AllPlain(a, H), a # <<>>
      PROVE  SubAt(r, b, i, H)
  <2>1. SubOK(join(s, a), H) /\ join(s, a).skip = 0
    BY <1>7, JoinIs
  <2>2. r = [join(s, a) EXCEPT !.skip = 0]
    BY <1>7, <2>1 DEF SubOK, Sub
  <2> QED
    BY <1>5, <1>7, <2>2
<1>8. CASE s.skip > 0
  <2>1. r = [s EXCEPT !.skip = @ - 1]
    <3>1. ~(s.skip = 0)
      BY <1>1, <1>8
    <3> QED
      BY <1>8, <3>1 DEF Put
  <2>2. r \in Sub /\ r.out = s.out /\ r.state = s.state /\ r.skip = s.skip - 1
    BY <1>1, <1>8, <2>1 DEF Sub
  <2>3. i + r.skip + 1 = (i - 1) + s.skip + 1
    BY <1>1, <2>2
  <2>4. i + r.skip + 1 \in 1 .. Len(b) /\ b[i + r.skip + 1].type = "CONCAT" =>
           s.out # <<>> \/ s.state = "Placeholder"
    BY <2>3 DEF SubAt
  <2> HIDE DEF r, H
  <2> QED
    BY <1>1, <2>2, <2>4 DEF SubAt, SubOK
<1>9. CASE s.skip = 0 /\ b[i].type = "text"
  <2>1. r = join(s, text(b[i].text, paint))
    BY <1>9 DEF Put
  <2>2. AllPlain(text(b[i].text, paint), H) /\ text(b[i].text, paint) # <<>>
    <3>1. b[i].text \in Texts
      BY <1>2 DEF BodyToken
    <3> QED
      BY <1>1, <3>1, TextIs
  <2> HIDE DEF r, H
  <2> QED
    BY <1>1, <1>7, <1>9, <2>1, <2>2
<1>10. CASE s.skip = 0 /\ b[i].type = "STR"
  <2>1. r = join(s, text("string", paint))
    BY <1>10 DEF Put
  <2>2. AllPlain(text("string", paint), H) /\ text("string", paint) # <<>>
    <3>1. "string" \in Texts
      BY MacroAssumption
    <3> QED
      BY <1>1, <3>1, TextIs
  <2> HIDE DEF r, H
  <2> QED
    BY <1>1, <1>7, <1>10, <2>1, <2>2
<1>11. CASE s.skip = 0 /\ b[i].type = "MACRO" /\ expanded[n] # <<>>
  <2>1. r = join(s, copies(expanded[n], paint))
    BY <1>11 DEF Put
  <2>2. AllPlain(expanded[n], {}) /\ Len(expanded[n]) # 0
    BY <1>3, <1>11 DEF Ready, AllPlain
  <2>3. AllPlain(copies(expanded[n], paint), H) /\ copies(expanded[n], paint) # <<>>
    BY <1>1, <2>2, CopiesAre
  <2> HIDE DEF r, H
  <2> QED
    BY <1>1, <1>7, <1>11, <2>1, <2>3
<1>12. CASE s.skip = 0 /\ b[i].type = "MACRO" /\ expanded[n] = <<>>
  <2>1. r = [s EXCEPT !.state = "Normal"]
    BY <1>12 DEF Put
  <2>2. r \in Sub /\ r.out = s.out /\ r.state = "Normal" /\ r.skip = 0
    BY <1>1, <1>12, <2>1 DEF Sub
  <2>3. i + 1 \in 1 .. Len(b) => b[i + 1].type # "CONCAT"
    <3>1. i + 1 \in 1 .. Len(b) /\ b[i + 1].type = "CONCAT" => b[(i + 1) - 1].type # "MACRO"
      BY <1>1 DEF Parsed
    <3>2. (i + 1) - 1 = i
      BY <1>1
    <3> QED
      BY <1>12, <3>1, <3>2
  <2>4. i + r.skip + 1 = i + 1
    BY <1>1, <2>2
  <2> HIDE DEF r, H
  <2> QED
    BY <1>1, <2>2, <2>3, <2>4 DEF SubAt, SubOK
<1>13. CASE s.skip = 0 /\ b[i].type = "QUOTED" /\ args[n].arg # <<>>
  <2>1. r = join(s, copies(args[n].arg, paint))
    BY <1>13 DEF Put
  <2>2. AllPlain(args[n].arg, {}) /\ Len(args[n].arg) # 0
    BY <1>3, <1>13 DEF Ready, ArgsOK, AllPlain
  <2>3. AllPlain(copies(args[n].arg, paint), H) /\ copies(args[n].arg, paint) # <<>>
    BY <1>1, <2>2, CopiesAre
  <2> HIDE DEF r, H
  <2> QED
    BY <1>1, <1>7, <1>13, <2>1, <2>3
<1>14. CASE s.skip = 0 /\ b[i].type = "QUOTED" /\ args[n].arg = <<>>
  <2>1. r = Empty(s)
    BY <1>14 DEF Put
  <2>2. r = [Empty(s) EXCEPT !.skip = 0]
    BY <1>1, <1>14, <2>1 DEF Empty, Sub
  <2> HIDE DEF r, H
  <2> QED
    BY <1>6, <2>2
<1>15. CASE s.skip = 0 /\ b[i].type = "CONCAT"
  <2>1. r = [s EXCEPT !.state = IF @ = "Placeholder" THEN "Normal" ELSE "Concat"]
    BY <1>15 DEF Put
  <2>2. /\ r \in Sub /\ r.out = s.out /\ r.skip = 0
        /\ r.state = IF s.state = "Placeholder" THEN "Normal" ELSE "Concat"
    BY <1>1, <1>15, <2>1 DEF Sub
  <2>3. i + 1 \in 1 .. Len(b) => b[i + 1].type # "CONCAT"
    <3>1. i + 1 \in 1 .. Len(b) /\ b[i + 1].type = "CONCAT" => b[(i + 1) - 1].type # "CONCAT"
      BY <1>1 DEF Parsed
    <3>2. (i + 1) - 1 = i
      BY <1>1
    <3> QED
      BY <1>15, <3>1, <3>2
  <2>4. i + r.skip + 1 = i + 1
    BY <1>1, <2>2
  <2>5. r.state = "Concat" => r.out # <<>>
    BY <1>4, <1>15, <2>2
  <2> HIDE DEF r, H
  <2> QED
    BY <1>1, <2>2, <2>3, <2>4, <2>5 DEF SubAt, SubOK
<1>16. CASE s.skip = 0 /\ b[i].type = "KLUDGE"
  <2> DEFINE k == Kludge(b, args, i)
  <2>1. k.comma \in BOOLEAN /\ k.skip \in Nat
    BY <1>1, <1>16, KludgeIs
  <2>2. r = [IF k.comma THEN join(s, text(",", paint)) ELSE Empty(s) EXCEPT !.skip = k.skip]
    BY <1>16 DEF Put
  <2>3. AllPlain(text(",", paint), H) /\ text(",", paint) # <<>>
    <3>1. "," \in Texts
      BY MacroAssumption
    <3> QED
      BY <1>1, <3>1, TextIs
  <2> HIDE DEF r, H, k
  <2> QED
    BY <1>5, <1>6, <2>1, <2>2, <2>3
<1>17. b[i].type \in {"text", "MACRO", "QUOTED", "STR", "CONCAT", "KLUDGE"}
  BY <1>2 DEF BodyToken
<1> QED
  BY <1>1, <1>8, <1>9, <1>10, <1>11, <1>12, <1>13, <1>14, <1>15, <1>16, <1>17

\* What replaces a macro call: tokens painted by the call, without a marker.
LEMMA SubstituteIs ==
    ASSUME NEW b, NEW wanted, NEW args, NEW expanded, NEW paint, Ready(b, wanted, args, expanded, paint)
    PROVE  AllPlain(substitute(b, args, expanded, paint), paint.hide)
<1> DEFINE H == paint.hide
           N == Len(b)
           none == [out |-> <<>>, state |-> "Normal", skip |-> 0]
           put(s, i) == Put(s, b, i, args, expanded, paint)
           after[i \in 0 .. Len(b)] ==
              IF i = 0 THEN [out |-> <<>>, state |-> "Normal", skip |-> 0]
              ELSE CHOOSE r \in {Put(s, b, i, args, expanded, paint) : s \in {after[i - 1]}} : TRUE
           G == [x \in Nat \X Sub |-> IF put(x[2], x[1]) \in Sub THEN put(x[2], x[1]) ELSE x[2]]
<1>1. N \in Nat /\ none \in Sub
  BY DEF Ready, Sub
<1>2. SubAt(none, b, 0, H)
  <2>1. SubOK(none, H)
    BY <1>1 DEF SubOK, AllPlain
  <2>2. 1 \in 1 .. Len(b) => b[1].type # "CONCAT"
    BY DEF Ready, Parsed
  <2>3. 0 + none.skip + 1 = 1
    OBVIOUS
  <2> HIDE DEF none, H
  <2> QED
    BY <2>1, <2>2, <2>3 DEF SubAt
<1>3. \A i \in 1 .. N : \A s : SubAt(s, b, i - 1, H) => SubAt(put(s, i), b, i, H)
  BY PutIs
<1>4. \A r : (CHOOSE x \in {r} : TRUE) = r
  OBVIOUS
<1>5. PICK f \in [0 .. N -> Sub] : Follows(f, 0, N, none, G)
  <2>1. G \in [Nat \X Sub -> Sub]
    <3> HIDE DEF put
    <3> QED
      OBVIOUS
  <2> HIDE DEF G, none, N
  <2> QED
    BY <1>1, <2>1, Recursive
<1>6. \A i \in 1 .. N : i \in Nat /\ i # 0 /\ i - 1 \in 0 .. N /\ ~(i <= i - 1) /\ i \in 0 .. N
  BY <1>1
<1> HIDE DEF none, put, N, H
<1>7. /\ f[0] = none
      /\ \A i \in 1 .. N : f[i] = IF put(f[i - 1], i) \in Sub THEN put(f[i - 1], i) ELSE f[i - 1]
  <2>1. 0 \in 0 .. N
    BY <1>1
  <2>2. f[0] = none
    BY <1>5, <2>1 DEF Follows
  <2>3. ASSUME NEW i \in 1 .. N
        PROVE  f[i] = IF put(f[i - 1], i) \in Sub THEN put(f[i - 1], i) ELSE f[i - 1]
    <3>1. f[i - 1] \in Sub
      BY <1>5, <1>6
    <3>2. G[<<i, f[i - 1]>>] = IF put(f[i - 1], i) \in Sub THEN put(f[i - 1], i) ELSE f[i - 1]
      BY <1>6, <3>1
    <3>3. f[i] = G[<<i, f[i - 1]>>]
      <4> HIDE DEF G
      <4> QED
        BY <1>5, <1>6 DEF Follows
    <3> HIDE DEF G
    <3> QED
      BY <3>2, <3>3
  <2> QED
    BY <2>2, <2>3
<1> HIDE DEF G
<1>8. \A n \in 0 .. N : SubAt(f[n], b, n, H) /\ (n # 0 => f[n] = put(f[n - 1], n))
  <2> DEFINE OK(n) == SubAt(f[n], b, n, H) /\ (n # 0 => f[n] = put(f[n - 1], n))
             T == {n \in 0 .. N : ~OK(n)}
  <2>1. ASSUME T # {} PROVE FALSE
    <3>1. PICK n \in T : \A l \in T : n <= l
      <4>1. T \subseteq Nat
        BY <1>1
      <4> HIDE DEF T
      <4> QED
        BY <2>1, <4>1, Least
    <3>2. n \in 0 .. N /\ ~OK(n)
      BY <3>1
    <3>3. n # 0
      BY <1>2, <1>7, <3>2
    <3>4. n \in 1 .. N
      BY <1>1, <3>2, <3>3
    <3>5. n - 1 \notin T
      <4>1. ~(n <= n - 1)
        BY <1>6, <3>4
      <4> HIDE DEF T
      <4> QED
        BY <3>1, <4>1
    <3>6. SubAt(f[n - 1], b, n - 1, H)
      BY <1>6, <3>4, <3>5
    <3>7. SubAt(put(f[n - 1], n), b, n, H)
      BY <1>3, <3>4, <3>6
    <3>8. f[n] = put(f[n - 1], n)
      <4>1. put(f[n - 1], n) \in Sub
        BY <3>7 DEF SubAt, SubOK
      <4> QED
        BY <1>7, <3>4, <4>1
    <3> QED
      BY <3>2, <3>7, <3>8
  <2> QED
    BY <2>1
<1>9. after = [i \in 0 .. Len(b) |->
                 IF i = 0 THEN [out |-> <<>>, state |-> "Normal", skip |-> 0]
                 ELSE CHOOSE r \in {Put(s, b, i, args, expanded, paint) : s \in {after[i - 1]}} : TRUE]
  <2>1. ASSUME NEW i \in 0 .. N
        PROVE  f[i] = IF i = 0 THEN none
                      ELSE CHOOSE r \in {Put(s, b, i, args, expanded, paint) : s \in {f[i - 1]}} : TRUE
    <3>1. {Put(s, b, i, args, expanded, paint) : s \in {f[i - 1]}} = {put(f[i - 1], i)}
      BY DEF put
    <3>2. i # 0 => f[i] = put(f[i - 1], i)
      BY <1>8
    <3> QED
      BY <1>4, <1>7, <3>1, <3>2
  <2>2. f = [i \in 0 .. N |->
               IF i = 0 THEN none
               ELSE CHOOSE r \in {Put(s, b, i, args, expanded, paint) : s \in {f[i - 1]}} : TRUE]
    BY <1>5, <2>1
  <2> QED
    BY <2>2 DEF none, N
<1> HIDE DEF after
<1>10. \A n \in 0 .. N : after[n] = IF n = 0 THEN none ELSE put(after[n - 1], n)
  <2> TAKE n \in 0 .. N
  <2>1. after[n] = IF n = 0 THEN none
                   ELSE CHOOSE r \in {Put(s, b, n, args, expanded, paint) : s \in {after[n - 1]}} : TRUE
    BY <1>9 DEF none, N
  <2>2. {Put(s, b, n, args, expanded, paint) : s \in {after[n - 1]}} = {put(after[n - 1], n)}
    BY DEF put
  <2> QED
    BY <1>4, <2>1, <2>2
<1>11. \A n \in 0 .. N : after[n] = f[n]
  <2> DEFINE T == {n \in 0 .. N : after[n] # f[n]}
  <2>1. ASSUME T # {} PROVE FALSE
    <3>1. PICK n \in T : \A l \in T : n <= l
      <4>1. T \subseteq Nat
        BY <1>1
      <4> HIDE DEF T
      <4> QED
        BY <2>1, <4>1, Least
    <3>2. n \in 0 .. N /\ after[n] # f[n]
      BY <3>1
    <3>3. n # 0
      BY <1>7, <1>10, <3>2
    <3>4. n \in 1 .. N
      BY <1>1, <3>2, <3>3
    <3>5. n - 1 \notin T
      <4>1. ~(n <= n - 1)
        BY <1>6, <3>4
      <4> HIDE DEF T
      <4> QED
        BY <3>1, <4>1
    <3>6. after[n - 1] = f[n - 1]
      BY <1>6, <3>4, <3>5
    <3> QED
      BY <1>8, <1>10, <3>2, <3>3, <3>6
  <2> QED
    BY <2>1
<1>12. substitute(b, args, expanded, paint) = after[N].out
  BY DEF substitute, after, N
<1>13. SubAt(after[N], b, N, H)
  <2>1. N \in 0 .. N
    BY <1>1
  <2> QED
    BY <1>8, <1>11, <2>1
<1> QED
  BY <1>12, <1>13 DEF SubAt, SubOK, H

-----------------------------------------------------------------------------
\* The macros are as parse_expansion makes them.
LEMMA DefIs ==
    ASSUME Defines, NEW m \in DOMAIN macros
    PROVE  /\ m \in Texts /\ m \notin {"(", ")", ",", "string"}
           /\ macros[m] \in Macro /\ Parsed(macros[m].body, macros[m].wanted)
           /\ macros[m].body \in Seq(BodyToken) /\ macros[m].wanted \in Nat
           /\ ~macros[m].call => macros[m].wanted = 0
<1>1. PICK p \in Programs : macros = p.macros
  BY DEF Defines
<1>2. /\ m \in Texts /\ m \notin {"(", ")", ",", "string"}
      /\ macros[m] \in Macro /\ Parsed(macros[m].body, macros[m].wanted)
      /\ ~macros[m].call => macros[m].wanted = 0
  BY <1>1, MacroAssumption
<1> QED
  BY <1>2 DEF Macro

\* The markers of the lists before list i are in the lists before a later one.
LEMMA BelowIs ==
    ASSUME NEW L, NEW i \in Nat \ {0}
    PROVE  /\ Below(L, i + 1) = Below(L, i) \cup Untainted(L[i].rest)
           /\ Below(L, 1) = {}
           /\ \A j \in 1 .. i - 1 : Untainted(L[j].rest) \subseteq Below(L, i)
<1>1. 1 .. (i + 1) - 1 = (1 .. i - 1) \cup {i} /\ 1 .. 1 - 1 = {}
  OBVIOUS
<1>2. Below(L, i + 1) = Below(L, i) \cup Untainted(L[i].rest)
  BY <1>1 DEF Below
<1>3. Below(L, 1) = {}
  BY <1>1 DEF Below
<1> QED
  BY <1>2, <1>3 DEF Below

\* It depends on these lists alone.
LEMMA BelowSame ==
    ASSUME NEW L, NEW K, NEW i \in Nat, \A j \in 1 .. i - 1 : K[j].rest = L[j].rest
    PROVE  Below(K, i) = Below(L, i)
<1>1. \A j \in 1 .. i - 1 : Untainted(K[j].rest) = Untainted(L[j].rest)
  OBVIOUS
<1>2. {Untainted(K[j].rest) : j \in 1 .. i - 1} = {Untainted(L[j].rest) : j \in 1 .. i - 1}
  BY <1>1
<1> QED
  BY <1>2 DEF Below

\* The list on top and what is tainted.
LEMMA TopIs ==
    ASSUME NEW L, NEW T, Stack(L, T)
    PROVE  /\ Len(L) \in 1 .. Len(L) /\ Len(L) \in Nat \ {0} /\ L \in Seq(ListRec)
           /\ ListOK(L[Len(L)], Below(L, Len(L))) /\ L[Len(L)] \in ListRec
           /\ T = Below(L, Len(L)) \cup Untainted(L[Len(L)].rest)
<1>1. L \in Seq(ListRec) /\ Len(L) \in 1 .. Len(L) /\ Len(L) \in Nat \ {0}
  BY DEF Stack
<1>2. ListOK(L[Len(L)], Below(L, Len(L))) /\ T = Below(L, Len(L) + 1)
  BY <1>1 DEF Stack
<1> QED
  BY <1>1, <1>2, BelowIs DEF ListOK

\* Another list on top.
LEMMA TopChanged ==
    ASSUME NEW L, NEW T, Stack(L, T), NEW l, ListOK(l, Below(L, Len(L)))
    PROVE  Stack([L EXCEPT ![Len(L)] = l], Below(L, Len(L)) \cup Untainted(l.rest))
<1> DEFINE n == Len(L)
           K == [L EXCEPT ![n] = l]
<1>1. n \in 1 .. Len(L) /\ n \in Nat \ {0} /\ L \in Seq(ListRec)
  BY TopIs
<1>2. l \in ListRec
  BY DEF ListOK
<1>3. K \in Seq(ListRec) /\ Len(K) = n /\ K # <<>> /\ K[n] = l /\ \A i \in 1 .. n - 1 : K[i] = L[i] /\ i \in 1 .. n
  BY <1>1, <1>2
<1> HIDE DEF K
<1>4. \A i \in 1 .. n : Below(K, i) = Below(L, i)
  <2> TAKE i \in 1 .. n
  <2>1. \A j \in 1 .. i - 1 : j \in 1 .. n - 1
    BY <1>1
  <2>2. i \in Nat
    BY <1>1
  <2>3. \A j \in 1 .. i - 1 : K[j].rest = L[j].rest
    BY <1>3, <2>1
  <2> QED
    BY <2>2, <2>3, BelowSame
<1>5. \A i \in 1 .. n : ListOK(K[i], Below(K, i))
  <2> TAKE i \in 1 .. n
  <2>1. i = n \/ i \in 1 .. n - 1
    BY <1>1
  <2>2. CASE i = n
    BY <1>1, <1>3, <1>4, <2>2
  <2>3. CASE i \in 1 .. n - 1
    BY <1>3, <1>4, <2>3 DEF Stack
  <2> QED
    BY <2>1, <2>2, <2>3
<1>6. Below(K, n + 1) = Below(L, n) \cup Untainted(l.rest)
  BY <1>1, <1>3, <1>4, BelowIs
<1>7. \A i \in 1 .. n - 1 : K[i].call # NoCall /\ Len(K[i].call.expanded) < Len(K[i].call.args)
  BY <1>3 DEF Stack
<1> QED
  BY <1>3, <1>5, <1>6, <1>7 DEF Stack, K

\* A list for an argument, on those that wait.
LEMMA Pushed ==
    ASSUME NEW L, NEW T, Stack(L, T), L[Len(L)].call # NoCall,
           Len(L[Len(L)].call.expanded) < Len(L[Len(L)].call.args), NEW l, ListOK(l, T)
    PROVE  Stack(Append(L, l), T \cup Untainted(l.rest))
<1> DEFINE n == Len(L)
           K == Append(L, l)
<1>1. n \in 1 .. Len(L) /\ n \in Nat \ {0} /\ L \in Seq(ListRec) /\ T = Below(L, n + 1)
  BY TopIs DEF Stack
<1>2. l \in ListRec
  BY DEF ListOK
<1>3. K \in Seq(ListRec) /\ Len(K) = n + 1 /\ K # <<>> /\ K[n + 1] = l /\ \A i \in 1 .. n : K[i] = L[i]
  BY <1>1, <1>2
<1> HIDE DEF K
<1>4. \A i \in 1 .. n + 1 : Below(K, i) = Below(L, i)
  <2> TAKE i \in 1 .. n + 1
  <2>1. \A j \in 1 .. i - 1 : j \in 1 .. n
    BY <1>1
  <2> QED
    BY <1>1, <1>3, <2>1, BelowSame
<1>5. \A i \in 1 .. n + 1 : ListOK(K[i], Below(K, i))
  <2> TAKE i \in 1 .. n + 1
  <2>1. i = n + 1 \/ i \in 1 .. n
    BY <1>1
  <2>2. CASE i = n + 1
    BY <1>1, <1>3, <1>4, <2>2
  <2>3. CASE i \in 1 .. n
    BY <1>3, <1>4, <2>3 DEF Stack
  <2> QED
    BY <2>1, <2>2, <2>3
<1>6. Below(K, (n + 1) + 1) = T \cup Untainted(l.rest)
  <2>1. n + 1 \in Nat \ {0} /\ n + 1 \in 1 .. n + 1
    BY <1>1
  <2>2. Below(K, (n + 1) + 1) = Below(K, n + 1) \cup Untainted(K[n + 1].rest)
    BY <2>1, BelowIs
  <2> QED
    BY <1>1, <1>3, <1>4, <2>1, <2>2
<1>7. \A i \in 1 .. (n + 1) - 1 : K[i].call # NoCall /\ Len(K[i].call.expanded) < Len(K[i].call.args)
  <2> TAKE i \in 1 .. (n + 1) - 1
  <2>1. i \in 1 .. n /\ (i = n \/ i \in 1 .. n - 1)
    BY <1>1
  <2> QED
    BY <1>3, <2>1 DEF Stack
<1> QED
  BY <1>3, <1>5, <1>6, <1>7 DEF Stack, K

\* The list on top is done.
LEMMA Popped ==
    ASSUME NEW L, NEW T, Stack(L, T), Len(L) > 1
    PROVE  /\ Stack(SubSeq(L, 1, Len(L) - 1), Below(L, Len(L)))
           /\ Len(SubSeq(L, 1, Len(L) - 1)) = Len(L) - 1
           /\ SubSeq(L, 1, Len(L) - 1)[Len(L) - 1] = L[Len(L) - 1]
           /\ L[Len(L) - 1].call # NoCall
           /\ Len(L[Len(L) - 1].call.expanded) < Len(L[Len(L) - 1].call.args)
<1> DEFINE n == Len(L)
           k == n - 1
           K == SubSeq(L, 1, k)
<1>1. n \in 1 .. Len(L) /\ n \in Nat \ {0} /\ L \in Seq(ListRec) /\ k \in Nat \ {0} /\ k \in 0 .. Len(L) /\ k + 1 = n
  BY TopIs
<1> HIDE DEF k
<1>2. K \in Seq(ListRec) /\ Len(K) = k /\ \A i \in 1 .. k : K[i] = L[i] /\ i \in 1 .. n
  BY <1>1, DroppedIs
<1>3. K # <<>> /\ K[k] = L[k] /\ k \in 1 .. k
  BY <1>1, <1>2
<1> HIDE DEF K
<1>4. \A i \in 1 .. k + 1 : Below(K, i) = Below(L, i)
  <2> TAKE i \in 1 .. k + 1
  <2>1. \A j \in 1 .. i - 1 : j \in 1 .. k
    BY <1>1
  <2> QED
    BY <1>1, <1>2, <2>1, BelowSame
<1>5. \A i \in 1 .. k : ListOK(K[i], Below(K, i))
  <2> TAKE i \in 1 .. k
  <2>1. i \in 1 .. k + 1
    BY <1>1
  <2> QED
    BY <1>2, <1>4, <2>1 DEF Stack
<1>6. Below(K, k + 1) = Below(L, n)
  <2>1. k + 1 \in 1 .. k + 1
    BY <1>1
  <2> QED
    BY <1>1, <1>4, <2>1
<1>7. \A i \in 1 .. k : L[i].call # NoCall /\ Len(L[i].call.expanded) < Len(L[i].call.args)
  BY DEF Stack, k
<1>8. \A i \in 1 .. k - 1 : K[i].call # NoCall /\ Len(K[i].call.expanded) < Len(K[i].call.args)
  <2>1. \A i \in 1 .. k - 1 : i \in 1 .. k
    BY <1>1
  <2> QED
    BY <1>2, <1>7, <2>1
<1>9. Stack(K, Below(L, n))
  BY <1>2, <1>3, <1>5, <1>6, <1>8 DEF Stack
<1> QED
  BY <1>2, <1>3, <1>7, <1>9 DEF K, k

-----------------------------------------------------------------------------
\* Where the scan goes on: it has undone the taint of the markers it skipped, and
\* the token there was in front of all that are left.
LEMMA ScanIs ==
    ASSUME NEW s, NEW B, Unscanned(s, B)
    PROVE  /\ Unscanned(scan_next(s), B)
           /\ (B \cup Untainted(s)) \ Skipped(s) = B \cup Untainted(scan_next(s))
           /\ scan_next(s) # <<>> =>
                 /\ Plain(scan_next(s)[1])
                 /\ B \cup Untainted(scan_next(s)) \subseteq scan_next(s)[1].hide
                 /\ Unscanned(Tail(scan_next(s)), B)
                 /\ B \cup Untainted(Tail(scan_next(s))) = B \cup Untainted(scan_next(s))
<1> DEFINE r == scan_next(s)
           k == Skip(s)
<1>1. s \in Seq(Token)
  BY DEF Unscanned
<1>2. /\ k \in 0 .. Len(s) /\ r = Dropped(s, k)
      /\ r # <<>> => /\ k + 1 \in 1 .. Len(s) /\ r[1] = s[k + 1] /\ ~s[k + 1].untaint
                     /\ Tail(r) = Dropped(s, k + 1)
  BY <1>1, SkipIs
<1>3. Skipped(s) = Untainted(SubSeq(s, 1, k))
  BY DEF Skipped
<1> HIDE DEF r, k
<1>4. Unscanned(r, B) /\ (B \cup Untainted(s)) \ Skipped(s) = B \cup Untainted(r)
  BY <1>2, <1>3, Drop
<1>5. ASSUME r # <<>>
      PROVE  /\ Plain(r[1]) /\ B \cup Untainted(r) \subseteq r[1].hide
             /\ Unscanned(Tail(r), B) /\ B \cup Untainted(Tail(r)) = B \cup Untainted(r)
  <2>1. /\ r \in Seq(Token) /\ 1 \in 0 .. Len(r) /\ Tail(r) = Dropped(r, 1)
        /\ SubSeq(r, 1, 1) \in Seq(Token) /\ Len(SubSeq(r, 1, 1)) = 1 /\ SubSeq(r, 1, 1)[1] = r[1]
    <3>1. r \in Seq(Token)
      BY <1>4 DEF Unscanned
    <3>2. Len(r) >= 1 /\ Len(r) \in Nat
      BY <1>5, <3>1
    <3> QED
      BY <1>5, <3>1, <3>2 DEF Dropped
  <2>2. ~r[1].untaint
    BY <1>2, <1>5
  <2>3. Untainted(SubSeq(r, 1, 1)) = {}
    <3> DEFINE h == SubSeq(r, 1, 1)
    <3>1. h \in Seq(Token) /\ \A i \in 1 .. Len(h) : ~h[i].untaint
      BY <2>1, <2>2
    <3> HIDE DEF h
    <3>2. \A x : x \notin Untainted(h)
      BY <3>1, UntaintedIs
    <3> QED
      BY <3>2 DEF h
  <2>4. /\ Unscanned(Tail(r), B)
        /\ (B \cup Untainted(r)) \ Untainted(SubSeq(r, 1, 1)) = B \cup Untainted(Tail(r))
        /\ Plain(r[1]) /\ B \cup Untainted(Tail(r)) \subseteq r[1].hide
    <3>1. /\ Unscanned(Dropped(r, 1), B)
          /\ (B \cup Untainted(r)) \ Untainted(SubSeq(r, 1, 1)) = B \cup Untainted(Dropped(r, 1))
          /\ \A i \in 1 .. 1 : ~r[i].untaint =>
                Plain(r[i]) /\ B \cup Untainted(Dropped(r, 1)) \subseteq r[i].hide
      BY <1>4, <2>1, Drop
    <3>2. 1 \in 1 .. 1
      OBVIOUS
    <3>3. Plain(r[1]) /\ B \cup Untainted(Dropped(r, 1)) \subseteq r[1].hide
      BY <2>2, <3>1, <3>2
    <3> QED
      BY <2>1, <3>1, <3>3
  <2> QED
    BY <2>3, <2>4
<1> QED
  BY <1>4, <1>5 DEF r

\* What the actions find on top of the stack.
AtTop(B) ==
    /\ Len(lists) \in 1 .. Len(lists) /\ Len(lists) \in Nat \ {0} /\ lists \in Seq(ListRec)
    /\ B = Below(lists, Len(lists)) /\ Top \in ListRec /\ ListOK(Top, B)
    /\ tainted = B \cup Untainted(Top.rest)
    /\ Unscanned(Rest, B) /\ TaintedHere = B \cup Untainted(Rest)
    /\ Rest # <<>> => /\ Plain(Here) /\ B \cup Untainted(Rest) \subseteq Here.hide
                      /\ Unscanned(Tail(Rest), B)
                      /\ B \cup Untainted(Tail(Rest)) = B \cup Untainted(Rest)
                      /\ Unscanned(AfterName, B) /\ TaintedAfter = B \cup Untainted(AfterName)

LEMMA AtTopIs ==
    ASSUME Stack(lists, tainted)
    PROVE  AtTop(Below(lists, Len(lists)))
<1> DEFINE B == Below(lists, Len(lists))
<1>1. /\ Len(lists) \in 1 .. Len(lists) /\ Len(lists) \in Nat \ {0} /\ lists \in Seq(ListRec)
      /\ ListOK(Top, B) /\ Top \in ListRec /\ tainted = B \cup Untainted(Top.rest)
  BY TopIs DEF Top
<1> HIDE DEF B
<1>2. Unscanned(Top.rest, B)
  BY <1>1 DEF ListOK
<1>3. /\ Unscanned(Rest, B) /\ TaintedHere = B \cup Untainted(Rest)
      /\ Rest # <<>> => /\ Plain(Here) /\ B \cup Untainted(Rest) \subseteq Here.hide
                        /\ Unscanned(Tail(Rest), B)
                        /\ B \cup Untainted(Tail(Rest)) = B \cup Untainted(Rest)
  BY <1>1, <1>2, ScanIs DEF Rest, Here, TaintedHere
<1>4. Rest # <<>> => Unscanned(AfterName, B) /\ TaintedAfter = B \cup Untainted(AfterName)
  <2> SUFFICES ASSUME Rest # <<>>
               PROVE  Unscanned(AfterName, B) /\ TaintedAfter = B \cup Untainted(AfterName)
    OBVIOUS
  <2>1. Unscanned(Tail(Rest), B) /\ TaintedHere = B \cup Untainted(Tail(Rest))
    BY <1>3
  <2> QED
    BY <2>1, ScanIs DEF AfterName, TaintedAfter
<1> QED
  BY <1>1, <1>3, <1>4 DEF AtTop, B

-----------------------------------------------------------------------------
\* Every action leaves the stack as it should be.  A token is passed over.
LEMMA PassIs ==
    ASSUME Stack(lists, tainted), NEW B, AtTop(B), Scanning, NEW token, NEW rest, NEW taint,
           Pass(token, rest, taint), Plain(token), B \subseteq token.hide,
           Unscanned(rest, B), taint = B \cup Untainted(rest)
    PROVE  Stack(lists', tainted')
<1> DEFINE n == Len(lists)
           l == [Top EXCEPT !.scanned = Append(@, token), !.rest = rest]
<1>1. n \in 1 .. n /\ Top \in ListRec /\ ListOK(Top, B) /\ B = Below(lists, n) /\ lists \in Seq(ListRec)
  BY DEF AtTop
<1>2. lists' = [lists EXCEPT ![n] = l] /\ tainted' = taint
  BY <1>1 DEF Pass, Top
<1>3. token \in Token /\ rest \in Seq(Token) /\ AllPlain(Top.scanned, B)
  BY <1>1 DEF Plain, Unscanned, ListOK
<1>4. AllPlain(Append(Top.scanned, token), B)
  <2>1. /\ Append(Top.scanned, token) \in Seq(Token)
        /\ Len(Append(Top.scanned, token)) = Len(Top.scanned) + 1 /\ Len(Top.scanned) \in Nat
        /\ \A i \in 1 .. Len(Top.scanned) + 1 :
              Append(Top.scanned, token)[i] = IF i = Len(Top.scanned) + 1 THEN token ELSE Top.scanned[i]
    BY <1>3 DEF AllPlain
  <2>2. \A i \in 1 .. Len(Top.scanned) + 1 : i = Len(Top.scanned) + 1 \/ i \in 1 .. Len(Top.scanned)
    BY <2>1
  <2> QED
    BY <1>3, <2>1, <2>2 DEF AllPlain
<1>5. /\ l.scanned = Append(Top.scanned, token) /\ l.rest = rest /\ l.call = NoCall /\ l \in ListRec
  BY <1>1, <1>3, <1>4 DEF ListRec, Scanning, AllPlain
<1> HIDE DEF l
<1>6. ListOK(l, B)
  BY <1>4, <1>5 DEF ListOK
<1> QED
  BY <1>1, <1>2, <1>5, <1>6, TopChanged

\* PassToken, PassTainted and PassName.
LEMMA PassedOver ==
    ASSUME Stack(lists, tainted), PassToken \/ PassTainted \/ PassName
    PROVE  Stack(lists', tainted')
<1> DEFINE B == Below(lists, Len(lists))
<1>1. AtTop(B)
  BY AtTopIs
<1> HIDE DEF B
<1>2. /\ Rest # <<>> /\ Scanning /\ Plain(Here) /\ B \cup Untainted(Rest) \subseteq Here.hide
      /\ Unscanned(Tail(Rest), B) /\ TaintedHere = B \cup Untainted(Tail(Rest))
      /\ TaintedHere \subseteq Here.hide
      /\ Unscanned(AfterName, B) /\ TaintedAfter = B \cup Untainted(AfterName)
  <2>1. Rest # <<>> /\ Scanning
    BY DEF PassToken, PassTainted, PassName, AtMacro, Expandable
  <2> QED
    BY <1>1, <2>1 DEF AtTop
<1>3. CASE PassToken
  <2>1. Pass(Here, Tail(Rest), TaintedHere)
    BY <1>3 DEF PassToken
  <2> QED
    BY <1>1, <1>2, <2>1, PassIs
<1>4. CASE PassTainted
  <2> DEFINE t == [Here EXCEPT !.noexpand = TRUE]
  <2>1. Pass(t, Tail(Rest), TaintedHere) /\ Here.text \in TaintedHere
    BY <1>4 DEF PassTainted
  <2>2. t \in Token /\ t.text = Here.text /\ t.hide = Here.hide /\ ~t.untaint /\ t.noexpand
    BY <1>2 DEF Plain, Token
  <2> HIDE DEF t
  <2>3. Plain(t) /\ B \subseteq t.hide
    BY <1>2, <2>1, <2>2 DEF Plain
  <2> QED
    BY <1>1, <1>2, <2>1, <2>3, PassIs
<1>5. CASE PassName
  <2>1. Pass(Here, AfterName, TaintedAfter)
    BY <1>5 DEF PassName
  <2> QED
    BY <1>1, <1>2, <2>1, PassIs
<1> QED
  BY <1>3, <1>4, <1>5

\* A call that is not one: its tokens are dropped, with the markers among them.
LEMMA BadCallIs ==
    ASSUME Stack(lists, tainted), BadCall
    PROVE  Stack(lists', tainted')
<1> DEFINE B == Below(lists, Len(lists))
           s == AfterName
           end == IF Close(s) = 0 THEN Len(s) ELSE Close(s)
<1>1. AtTop(B)
  BY AtTopIs
<1>2. Rest # <<>> /\ Scanning /\ Pass(Here, Dropped(s, end), Collecting(TaintedAfter, s, end))
  BY DEF BadCall, AtMacro, Expandable, Dropped
<1> HIDE DEF B
<1>3. /\ Plain(Here) /\ B \subseteq Here.hide
      /\ Unscanned(s, B) /\ TaintedAfter = B \cup Untainted(s)
  BY <1>1, <1>2 DEF AtTop
<1> HIDE DEF s
<1>4. s \in Seq(Token) /\ end \in 0 .. Len(s)
  <2>1. s \in Seq(Token)
    BY <1>3 DEF Unscanned
  <2>2. Close(s) # 0 => Close(s) \in 1 .. Len(s)
    BY <2>1, CloseIs
  <2> QED
    BY <2>1, <2>2
<1> HIDE DEF end
<1>5. /\ Unscanned(Dropped(s, end), B)
      /\ Collecting(TaintedAfter, s, end) = B \cup Untainted(Dropped(s, end))
  BY <1>3, <1>4, Drop DEF Collecting
<1> QED
  BY <1>1, <1>2, <1>3, <1>5, PassIs

\* The body of m and its TOKEN_UNTAINT in front of the rest.
LEMMA BodyIs ==
    ASSUME NEW B, NEW H, NEW out, AllPlain(out, H), NEW m \in DOMAIN macros, m \in Texts,
           NEW rest, Unscanned(rest, B), m \notin B \cup Untainted(rest),
           m \in H, B \cup Untainted(rest) \subseteq H
    PROVE  /\ Unscanned(out \o <<Untaint(m)>> \o rest, B)
           /\ B \cup Untainted(out \o <<Untaint(m)>> \o rest) = B \cup Untainted(rest) \cup {m}
<1> DEFINE u == Untaint(m)
           k == Len(out)
           new == out \o <<u>> \o rest
<1>1. u \in Token /\ u.untaint /\ u.text = m /\ Marker(u)
  BY UntaintFields DEF Marker
<1>2. /\ out \in Seq(Token) /\ k \in Nat /\ rest \in Seq(Token) /\ Len(rest) \in Nat
      /\ \A i \in 1 .. k : Plain(out[i]) /\ H \subseteq out[i].hide /\ ~out[i].untaint
  BY DEF AllPlain, Unscanned, Plain
<1> HIDE DEF u
<1>3. /\ new \in Seq(Token) /\ Len(new) = k + 1 + Len(rest)
      /\ \A i \in 1 .. k : new[i] = out[i]
      /\ new[k + 1] = u
      /\ \A i \in 1 .. Len(rest) : new[k + 1 + i] = rest[i]
  BY <1>1, <1>2
<1>4. \A i \in 1 .. Len(new) :
         \/ i \in 1 .. k
         \/ i = k + 1
         \/ i - k - 1 \in 1 .. Len(rest) /\ i = k + 1 + (i - k - 1)
  BY <1>2, <1>3
<1>5. k + 1 \in 1 .. Len(new) /\ \A i \in 1 .. Len(rest) : k + 1 + i \in 1 .. Len(new)
  BY <1>2, <1>3
<1>6. \A i \in 1 .. Len(new) : new[i].untaint => new[i].text = m \/ new[i].text \in Untainted(rest)
  <2> TAKE i \in 1 .. Len(new)
  <2> SUFFICES ASSUME new[i].untaint PROVE new[i].text = m \/ new[i].text \in Untainted(rest)
    OBVIOUS
  <2>1. CASE i \in 1 .. k
    BY <1>2, <1>3, <2>1
  <2>2. CASE i = k + 1
    BY <1>1, <1>3, <2>2
  <2>3. CASE i - k - 1 \in 1 .. Len(rest) /\ i = k + 1 + (i - k - 1)
    <3> DEFINE j == i - k - 1
    <3>1. j \in 1 .. Len(rest) /\ new[i] = rest[j]
      BY <1>3, <2>3
    <3> HIDE DEF j, new
    <3> QED
      BY <1>2, <3>1, UntaintedIs
  <2> QED
    BY <1>4, <2>1, <2>2, <2>3
<1> HIDE DEF new
<1>7. ASSUME NEW i \in 1 .. Len(new)
      PROVE  \/ Plain(new[i]) /\ B \subseteq new[i].hide
                /\ \A j \in i + 1 .. Len(new) : new[j].untaint => new[j].text \in new[i].hide
             \/ Marker(new[i]) /\ new[i].text \notin B
                /\ \A j \in i + 1 .. Len(new) : new[j].untaint => new[j].text # new[i].text
  <2>1. CASE i \in 1 .. k
    <3>1. Plain(new[i]) /\ H \subseteq new[i].hide
      BY <1>2, <1>3, <2>1
    <3>2. \A j \in i + 1 .. Len(new) : new[j].untaint => new[j].text \in new[i].hide
      <4>1. \A j \in i + 1 .. Len(new) : j \in 1 .. Len(new)
        BY <1>2, <1>3
      <4> QED
        BY <1>6, <3>1, <4>1
    <3> QED
      BY <3>1, <3>2
  <2>2. CASE i = k + 1
    <3>1. Marker(new[i]) /\ new[i].text = m /\ m \notin B
      BY <1>1, <1>3, <2>2
    <3>2. ASSUME NEW j \in i + 1 .. Len(new), new[j].untaint PROVE new[j].text # m
      <4> DEFINE l == j - k - 1
      <4>1. l \in 1 .. Len(rest) /\ j = k + 1 + l
        BY <1>2, <1>3, <2>2
      <4>2. new[j] = rest[l]
        BY <1>3, <4>1
      <4> HIDE DEF l
      <4>3. rest[l].text \in Untainted(rest)
        BY <1>2, <3>2, <4>1, <4>2, UntaintedIs
      <4> QED
        BY <4>2, <4>3
    <3> QED
      BY <3>1, <3>2
  <2>3. CASE i - k - 1 \in 1 .. Len(rest) /\ i = k + 1 + (i - k - 1)
    <3> DEFINE q == i - k - 1
    <3>1. q \in 1 .. Len(rest) /\ new[i] = rest[q]
      BY <1>3, <2>3
    <3>2. \A j \in i + 1 .. Len(new) : j - k - 1 \in q + 1 .. Len(rest) /\ j - k - 1 \in 1 .. Len(rest)
             /\ j = k + 1 + (j - k - 1)
      BY <1>2, <1>3, <3>1
    <3>3. \A j \in i + 1 .. Len(new) : j - k - 1 \in q + 1 .. Len(rest) /\ new[j] = rest[j - k - 1]
      BY <1>3, <3>2
    <3>4. \/ Plain(rest[q]) /\ B \subseteq rest[q].hide
             /\ \A j \in q + 1 .. Len(rest) : rest[j].untaint => rest[j].text \in rest[q].hide
          \/ Marker(rest[q]) /\ rest[q].text \notin B
             /\ \A j \in q + 1 .. Len(rest) : rest[j].untaint => rest[j].text # rest[q].text
      BY <3>1 DEF Unscanned
    <3> HIDE DEF q
    <3> QED
      BY <3>1, <3>3, <3>4
  <2> QED
    BY <1>4, <2>1, <2>2, <2>3
<1>8. Unscanned(new, B)
  BY <1>3, <1>7 DEF Unscanned
<1>9. Untainted(new) = Untainted(rest) \cup {m}
  <2>1. ASSUME NEW x \in Untainted(new) PROVE x \in Untainted(rest) \cup {m}
    <3>1. PICK i \in 1 .. Len(new) : new[i].untaint /\ new[i].text = x
      BY <1>3, UntaintedIs
    <3> QED
      BY <1>6, <3>1
  <2>2. m \in Untainted(new)
    BY <1>1, <1>3, <1>5, UntaintedIs
  <2>3. ASSUME NEW x \in Untainted(rest) PROVE x \in Untainted(new)
    <3>1. PICK i \in 1 .. Len(rest) : rest[i].untaint /\ rest[i].text = x
      BY <1>2, UntaintedIs
    <3>2. new[k + 1 + i].untaint /\ new[k + 1 + i].text = x /\ k + 1 + i \in 1 .. Len(new)
      BY <1>3, <1>5, <3>1
    <3> QED
      BY <1>3, <3>2, UntaintedIs
  <2> QED
    BY <2>1, <2>2, <2>3
<1>10. B \cup Untainted(new) = B \cup Untainted(rest) \cup {m}
  BY <1>9
<1> QED
  BY <1>8, <1>10 DEF new, u

\* The body of a call in its place, with its arguments put in.
LEMMA ReplacedIs ==
    ASSUME Stack(lists, tainted), Defines, NEW B, AtTop(B), NEW m \in DOMAIN macros,
           NEW args, NEW expanded, NEW hide \in SUBSET Texts, NEW rest, NEW taint,
           Replaced(m, args, expanded, hide, rest, taint),
           Unscanned(rest, B), taint = B \cup Untainted(rest),
           m \notin taint, taint \subseteq hide,
           Len(args) = macros[m].wanted, ArgsOK(args, {}), Len(expanded) = macros[m].wanted,
           \A n \in 1 .. Len(expanded) : AllPlain(expanded[n], {})
    PROVE  Stack(lists', tainted')
<1> DEFINE n == Len(lists)
           W == (UNION {Untainted(lists[i].rest) : i \in 1 .. Len(lists) - 1}) \cup Untainted(rest) \cup {m}
           paint == [tainted |-> Mark(taint, m), hide |-> hide \cup {m}, within |-> W]
           out == substitute(macros[m].body, args, expanded, paint)
           new == out \o <<Untaint(m)>> \o rest
           l == [Top EXCEPT !.rest = new, !.call = NoCall]
<1>1. n \in 1 .. n /\ Top \in ListRec /\ ListOK(Top, B) /\ B = Below(lists, n) /\ lists \in Seq(ListRec)
  BY DEF AtTop
<1>2. /\ lists' = [lists EXCEPT ![n].rest = new, ![n].call = NoCall]
      /\ tainted' = taint \cup {m}
  BY DEF Replaced, Mark
<1>3. lists' = [lists EXCEPT ![n] = l]
  <2> HIDE DEF new
  <2> QED
    BY <1>1, <1>2 DEF Top
<1>4. /\ m \in Texts /\ macros[m].body \in Seq(BodyToken)
      /\ Parsed(macros[m].body, macros[m].wanted)
  BY DefIs
<1>5. PaintOK(paint)
  <2>1. W = taint \cup {m}
    BY <1>1 DEF Below
  <2>2. taint \cup {m} \subseteq hide \cup {m} /\ hide \cup {m} \in SUBSET Texts /\ taint \cup {m} \in SUBSET Texts
    BY <1>4
  <2>3. paint.tainted = taint \cup {m} /\ paint.within = W /\ paint.hide = hide \cup {m}
    BY DEF Mark
  <2> HIDE DEF W
  <2>4. paint \in Paint
    BY <2>1, <2>2 DEF Paint, Mark
  <2> HIDE DEF paint
  <2> QED
    BY <2>1, <2>2, <2>3, <2>4 DEF PaintOK
<1>6. AllPlain(out, hide \cup {m})
  <2>1. paint.hide = hide \cup {m}
    OBVIOUS
  <2> HIDE DEF paint
  <2>2. Ready(macros[m].body, macros[m].wanted, args, expanded, paint)
    BY <1>4, <1>5 DEF Ready
  <2>3. AllPlain(substitute(macros[m].body, args, expanded, paint), paint.hide)
    BY <2>2, SubstituteIs
  <2> QED
    BY <2>1, <2>3
<1> HIDE DEF out
<1>7. /\ Unscanned(new, B) /\ B \cup Untainted(new) = B \cup Untainted(rest) \cup {m}
  <2>1. m \notin B \cup Untainted(rest) /\ m \in hide \cup {m} /\ B \cup Untainted(rest) \subseteq hide \cup {m}
    OBVIOUS
  <2>2. m \in Texts /\ Unscanned(rest, B) /\ m \in DOMAIN macros
    BY <1>4
  <2> DEFINE H == hide \cup {m}
  <2>3. AllPlain(out, H) /\ m \in H /\ B \cup Untainted(rest) \subseteq H
    BY <1>6, <2>1
  <2> HIDE DEF H, paint, W
  <2> QED
    <3>1. /\ Unscanned(out \o <<Untaint(m)>> \o rest, B)
          /\ B \cup Untainted(out \o <<Untaint(m)>> \o rest) = B \cup Untainted(rest) \cup {m}
      <4> HIDE DEF new, l, n
      <4>1. /\ AllPlain(out, H) /\ m \in DOMAIN macros /\ m \in Texts /\ Unscanned(rest, B)
            /\ m \notin B \cup Untainted(rest) /\ m \in H /\ B \cup Untainted(rest) \subseteq H
        BY <2>1, <2>2, <2>3
      <4> QED
        BY <4>1, BodyIs
    <3> QED
      BY <3>1
<1> HIDE DEF new
<1>8. new \in Seq(Token)
  BY <1>7 DEF Unscanned
<1>9. l.scanned = Top.scanned /\ l.rest = new /\ l.call = NoCall /\ l \in ListRec
  BY <1>1, <1>8 DEF ListRec
<1> HIDE DEF l
<1>10. ListOK(l, B)
  BY <1>1, <1>7, <1>9 DEF ListOK
<1>11. tainted' = B \cup Untainted(l.rest)
  BY <1>2, <1>7, <1>9
<1> QED
  BY <1>1, <1>3, <1>10, <1>11, TopChanged

\* An object-like macro.
LEMMA ExpandObjectIs ==
    ASSUME Stack(lists, tainted), Defines, ExpandObject
    PROVE  Stack(lists', tainted')
<1> DEFINE B == Below(lists, Len(lists))
           m == Here.text
<1>1. AtTop(B)
  BY AtTopIs
<1>2. /\ Rest # <<>> /\ m \in DOMAIN macros /\ ~macros[m].call /\ m \notin TaintedHere
      /\ Replaced(m, <<>>, <<>>, Here.hide, Tail(Rest), TaintedHere)
  BY DEF ExpandObject, AtMacro, Expandable, Def
<1> HIDE DEF B
<1>3. /\ Plain(Here) /\ TaintedHere \subseteq Here.hide
      /\ Unscanned(Tail(Rest), B) /\ TaintedHere = B \cup Untainted(Tail(Rest))
  BY <1>1, <1>2 DEF AtTop
<1>4. Here.hide \in SUBSET Texts
  BY <1>3 DEF Plain, Token
<1>5. macros[m].wanted = 0
  BY <1>2, DefIs
<1>6. Len(<<>>) = 0 /\ ArgsOK(<<>>, {}) /\ \A n \in 1 .. Len(<<>>) : AllPlain(<<>>[n], {})
  BY DEF ArgsOK
<1> HIDE DEF m
<1> QED
  BY <1>1, <1>2, <1>3, <1>4, <1>5, <1>6, ReplacedIs

\* Fewer need be in the hide sets.
LEMMA PlainFor ==
    ASSUME NEW B, NEW s, AllPlain(s, B), NEW C, C \subseteq B
    PROVE  AllPlain(s, C)
BY DEF AllPlain

\* A call whose arguments have been expanded.
LEMMA ExpandCallIs ==
    ASSUME Stack(lists, tainted), Defines, ExpandCall
    PROVE  Stack(lists', tainted')
<1> DEFINE B == Below(lists, Len(lists))
           c == Top.call
           T == B \cup Untainted(Top.rest)
<1>1. AtTop(B)
  BY AtTopIs
<1>2. /\ c # NoCall /\ Len(c.expanded) + 1 > Len(c.args)
      /\ Replaced(c.mac, c.args, c.expanded, c.hide, Top.rest, tainted)
  BY DEF ExpandCall, Scanning, NextArg
<1> HIDE DEF B
<1>3. Waiting(c, T) /\ Unscanned(Top.rest, B) /\ tainted = T
  BY <1>1, <1>2 DEF AtTop, ListOK
<1>4. /\ c.mac \in DOMAIN macros /\ c.hide \in SUBSET Texts /\ c.args \in Seq(Arg)
      /\ c.expanded \in Seq(Seq(Token))
  BY <1>3 DEF Waiting, Call
<1>5. /\ c.mac \notin T /\ T \subseteq c.hide /\ Len(c.args) = macros[c.mac].wanted
      /\ \A n \in 1 .. Len(c.args) : AllPlain(c.args[n].arg, {})
      /\ \A n \in 1 .. Len(c.expanded) : AllPlain(c.expanded[n], {})
      /\ Len(c.expanded) <= Len(c.args)
  <2>1. \A n \in 1 .. Len(c.args) : AllPlain(c.args[n].arg, {})
    <3>1. \A n \in 1 .. Len(c.args) : AllPlain(c.args[n].arg, T)
      BY <1>3 DEF Waiting
    <3>2. {} \subseteq T
      OBVIOUS
    <3> HIDE DEF T, c
    <3> QED
      BY <3>1, <3>2, PlainFor
  <2> QED
    BY <1>3, <2>1 DEF Waiting
<1>6. Len(c.expanded) = Len(c.args)
  BY <1>2, <1>4, <1>5
<1>7. ArgsOK(c.args, {})
  BY <1>4, <1>5 DEF ArgsOK
<1> HIDE DEF c
<1> QED
  BY <1>1, <1>2, <1>3, <1>4, <1>5, <1>6, <1>7, ReplacedIs

\* A call with as many arguments as the macro wants.
LEMMA CollectIs ==
    ASSUME Stack(lists, tainted), Defines, collect_arguments
    PROVE  Stack(lists', tainted')
<1> DEFINE B == Below(lists, Len(lists))
           n == Len(lists)
           m == Here.text
           s == AfterName
           end == Close(s)
           args == Given(Collected(s, Def), Def)
           hide == Here.hide \cap s[end].hide
           rest == Dropped(s, end)
           c == [mac |-> m, args |-> args, expanded |-> <<>>, hide |-> hide]
           l == [Top EXCEPT !.rest = rest, !.call = c]
           T == B \cup Untainted(rest)
<1>1. AtTop(B)
  BY AtTopIs
<1>2. /\ Scanning /\ Rest # <<>> /\ m \in DOMAIN macros /\ m \notin TaintedHere
      /\ end # 0 /\ Fits(Collected(s, Def), Def)
      /\ lists' = [lists EXCEPT ![n].rest = rest, ![n].call = c]
      /\ tainted' = Collecting(TaintedAfter, s, end)
  BY DEF collect_arguments, Expandable, AtMacro, Dropped
<1> HIDE DEF B
<1>3. /\ n \in 1 .. n /\ Top \in ListRec /\ ListOK(Top, B) /\ B = Below(lists, n) /\ lists \in Seq(ListRec)
      /\ Plain(Here) /\ B \cup Untainted(Rest) \subseteq Here.hide
      /\ Unscanned(s, B) /\ TaintedAfter = B \cup Untainted(s) /\ TaintedHere = B \cup Untainted(Rest)
  BY <1>1, <1>2 DEF AtTop
<1>4. lists' = [lists EXCEPT ![n] = l]
  <2> HIDE DEF rest, c
  <2> QED
    BY <1>2, <1>3 DEF Top
<1>5. Def = macros[m] /\ Def \in Macro /\ m \in Texts /\ Def.wanted = macros[m].wanted
  BY <1>2, DefIs DEF Def
<1>6. ArgsOK(Collected(s, Def), T)
  BY <1>2, <1>3, CollectedIs
<1> HIDE DEF s, m
<1>7. s \in Seq(Token) /\ end \in 1 .. Len(s) /\ end \in 0 .. Len(s) /\ s[end].text = ")"
  <2>1. s \in Seq(Token)
    BY <1>3 DEF Unscanned
  <2>2. end \in 1 .. Len(s) /\ s[end].text = ")"
    BY <1>2, <2>1, CloseIs
  <2> QED
    BY <2>1, <2>2
<1> HIDE DEF end
<1>8. /\ Unscanned(rest, B) /\ tainted' = T
      /\ \A i \in 1 .. end : ~s[i].untaint => Plain(s[i]) /\ T \subseteq s[i].hide
  BY <1>2, <1>3, <1>7, Drop DEF Collecting
<1> HIDE DEF rest
<1>9. s[end].hide \in SUBSET Texts /\ T \subseteq s[end].hide
  <2>1. ~Marker(s[end])
    <3>1. ")" \notin DOMAIN macros
      BY DefIs
    <3> QED
      BY <1>7, <3>1 DEF Marker
  <2>2. Plain(s[end])
    BY <1>3, <1>7, <2>1 DEF Unscanned
  <2>3. end \in 1 .. end /\ ~s[end].untaint
    BY <1>7, <2>2 DEF Plain
  <2> QED
    BY <1>8, <2>2, <2>3 DEF Plain, Token
\* What is tainted behind the call was so at its name.
<1>10. T \subseteq TaintedHere
  <2>1. tainted' \subseteq TaintedAfter /\ TaintedAfter \subseteq TaintedHere
    BY <1>2 DEF Collecting, TaintedAfter
  <2> HIDE DEF T
  <2> QED
    BY <1>8, <2>1
<1>11. Here.hide \in SUBSET Texts /\ TaintedHere \subseteq Here.hide
  BY <1>3 DEF Plain, Token
<1>12. ArgsOK(args, T) /\ Len(args) = Def.wanted
  <2> HIDE DEF T
  <2> QED
    BY <1>2, <1>5, <1>6, GivenIs
<1> HIDE DEF args
<1>13. hide \in SUBSET Texts /\ T \subseteq hide /\ m \notin T
  <2>1. hide \in SUBSET Texts
    BY <1>11
  <2> HIDE DEF T
  <2> QED
    BY <1>2, <1>9, <1>10, <1>11, <2>1
<1> HIDE DEF hide
<1>14. /\ c \in Call /\ c.mac = m /\ c.args = args /\ c.hide = hide /\ Len(c.expanded) = 0
       /\ Len(c.args) \in Nat
  <2>1. args \in Seq(Arg) /\ <<>> \in Seq(Seq(Token)) /\ Len(<<>>) = 0 /\ m \in DOMAIN macros
    BY <1>2, <1>12 DEF ArgsOK
  <2> QED
    BY <1>13, <2>1 DEF Call
<1> HIDE DEF c
<1>15. Waiting(c, T)
  <2>1. 0 <= Len(c.args) /\ 1 .. 0 = {}
    BY <1>14
  <2> HIDE DEF T
  <2> QED
    BY <1>5, <1>12, <1>13, <1>14, <2>1 DEF Waiting, ArgsOK
<1>16. l.scanned = Top.scanned /\ l.rest = rest /\ l.call = c /\ l \in ListRec
  <2>1. rest \in Seq(Token)
    BY <1>8 DEF Unscanned
  <2> QED
    BY <1>3, <1>14, <2>1 DEF ListRec
<1> HIDE DEF l
<1>17. ListOK(l, B)
  BY <1>3, <1>8, <1>15, <1>16 DEF ListOK
<1> QED
  BY <1>3, <1>4, <1>8, <1>16, <1>17, TopChanged

\* What an argument comes to, behind those that have been expanded.
LEMMA Expanded ==
    ASSUME NEW l, NEW B, ListOK(l, B), l.call # NoCall,
           Len(l.call.expanded) < Len(l.call.args), NEW e, AllPlain(e, {}), NEW k,
           k = [l EXCEPT !.call.expanded = Append(@, e)]
    PROVE  ListOK(k, B) /\ k.rest = l.rest
<1> DEFINE c == l.call
           d == [c EXCEPT !.expanded = Append(@, e)]
           T == B \cup Untainted(l.rest)
<1>1. l \in ListRec /\ AllPlain(l.scanned, B) /\ Unscanned(l.rest, B) /\ Waiting(c, T)
  BY DEF ListOK
<1>2. c \in Call /\ c.expanded \in Seq(Seq(Token)) /\ e \in Seq(Token) /\ Len(c.args) \in Nat /\ c.args \in Seq(Arg)
  BY <1>1 DEF Waiting, Call, AllPlain
<1>3. /\ Append(c.expanded, e) \in Seq(Seq(Token))
      /\ Len(Append(c.expanded, e)) = Len(c.expanded) + 1 /\ Len(c.expanded) \in Nat
      /\ \A n \in 1 .. Len(c.expanded) + 1 :
            Append(c.expanded, e)[n] = IF n = Len(c.expanded) + 1 THEN e ELSE c.expanded[n]
  BY <1>2
<1>4. /\ d \in Call /\ d.mac = c.mac /\ d.args = c.args /\ d.hide = c.hide
      /\ d.expanded = Append(c.expanded, e)
  BY <1>2, <1>3 DEF Call
<1>5. k = [l EXCEPT !.call = d]
  BY <1>1 DEF ListRec
<1>6. k \in ListRec /\ k.scanned = l.scanned /\ k.rest = l.rest /\ k.call = d
  BY <1>1, <1>4, <1>5 DEF ListRec
<1>7. Len(c.expanded) + 1 <= Len(c.args)
  BY <1>2, <1>3
<1>8. \A n \in 1 .. Len(c.expanded) + 1 : n = Len(c.expanded) + 1 \/ n \in 1 .. Len(c.expanded)
  BY <1>3
<1> HIDE DEF d, c, T
<1>9. \A n \in 1 .. Len(d.expanded) : AllPlain(d.expanded[n], {})
  BY <1>1, <1>3, <1>4, <1>8 DEF Waiting
<1>10. Waiting(d, T)
  BY <1>1, <1>3, <1>4, <1>7, <1>9 DEF Waiting
<1> QED
  BY <1>1, <1>6, <1>10 DEF ListOK, T

\* An argument is expanded, or need not be.
LEMMA expand_argumentIs ==
    ASSUME Stack(lists, tainted), expand_argument
    PROVE  Stack(lists', tainted')
<1> DEFINE B == Below(lists, Len(lists))
           n == Len(lists)
           c == Top.call
           a == c.args[NextArg].arg
           T == B \cup Untainted(Top.rest)
           l == [Top EXCEPT !.call.expanded = Append(@, <<>>)]
<1>1. AtTop(B)
  BY AtTopIs
<1>2. c # NoCall /\ NextArg <= Len(c.args) /\ NextArg = Len(c.expanded) + 1 /\ tainted' = tainted
  BY DEF expand_argument, Scanning, NextArg
<1> HIDE DEF B
<1>3. /\ n \in 1 .. n /\ Top \in ListRec /\ ListOK(Top, B) /\ B = Below(lists, n) /\ lists \in Seq(ListRec)
      /\ Waiting(c, T) /\ tainted = T
  BY <1>1, <1>2 DEF AtTop, ListOK
<1>4. Len(c.expanded) < Len(c.args) /\ NextArg \in 1 .. Len(c.args)
  <2>1. Len(c.expanded) \in Nat /\ Len(c.args) \in Nat
    BY <1>3 DEF Waiting, Call
  <2> HIDE DEF c
  <2> QED
    BY <1>2, <2>1
<1>5. CASE lists' = Append(lists, List(a))
  <2>1. AllPlain(a, T)
    BY <1>3, <1>4 DEF Waiting
  <2>2. List(a).scanned = <<>> /\ List(a).rest = a /\ List(a).call = NoCall /\ List(a) \in ListRec
    <3>1. a \in Seq(Token)
      BY <2>1 DEF AllPlain
    <3> HIDE DEF a
    <3> QED
      BY <3>1 DEF List, ListRec
  <2> HIDE DEF a, T
  <2>3. Unscanned(a, T) /\ Untainted(a) = {}
    <3>1. a \in Seq(Token) /\ \A i \in 1 .. Len(a) : Plain(a[i]) /\ T \subseteq a[i].hide /\ ~a[i].untaint
      BY <2>1 DEF AllPlain, Plain
    <3>2. \A x : x \notin Untainted(a)
      BY <3>1, UntaintedIs
    <3>3. \A i \in 1 .. Len(a) : \A j \in i + 1 .. Len(a) : j \in 1 .. Len(a)
      BY <3>1
    <3> QED
      BY <3>1, <3>2, <3>3 DEF Unscanned
  <2>4. AllPlain(<<>>, T)
    BY DEF AllPlain
  <2>5. ListOK(List(a), T)
    BY <2>2, <2>3, <2>4 DEF ListOK
  <2>6. Stack(Append(lists, List(a)), T \cup Untainted(List(a).rest))
    <3>1. lists[Len(lists)].call # NoCall
          /\ Len(lists[Len(lists)].call.expanded) < Len(lists[Len(lists)].call.args)
      BY <1>2, <1>4 DEF Top
    <3> QED
      BY <1>3, <2>5, <3>1, Pushed
  <2>7. T \cup Untainted(List(a).rest) = tainted'
    BY <1>2, <1>3, <2>2, <2>3
  <2> QED
    BY <1>5, <2>6, <2>7
<1>6. CASE lists' = [lists EXCEPT ![n].call.expanded = Append(@, <<>>)]
  <2>1. lists' = [lists EXCEPT ![n] = l]
    BY <1>3, <1>6 DEF Top
  <2>2. AllPlain(<<>>, {})
    BY DEF AllPlain
  <2>3. ListOK(l, B) /\ l.rest = Top.rest
    BY <1>2, <1>3, <1>4, <2>2, Expanded
  <2> HIDE DEF l
  <2> QED
    BY <1>2, <1>3, <2>1, <2>3, TopChanged
<1> QED
  BY <1>5, <1>6 DEF expand_argument

\* The end of a list, whose tokens are what the argument comes to.
LEMMA EndOfListIs ==
    ASSUME Stack(lists, tainted), EndOfList
    PROVE  Stack(lists', tainted')
<1> DEFINE B == Below(lists, Len(lists))
           n == Len(lists)
           k == n - 1
           L == SubSeq(lists, 1, k)
           l == [L[k] EXCEPT !.call.expanded = Append(@, Top.scanned)]
<1>1. AtTop(B)
  BY AtTopIs
<1>2. /\ Rest = <<>> /\ tainted' = TaintedHere
      /\ lists' = IF n = 1 THEN [lists EXCEPT ![1].rest = <<>>]
                  ELSE [L EXCEPT ![k].call.expanded = Append(@, Top.scanned)]
  BY DEF EndOfList, Front
<1>3. /\ n \in 1 .. n /\ n \in Nat \ {0} /\ Top \in ListRec /\ ListOK(Top, B) /\ lists \in Seq(ListRec)
      /\ TaintedHere = B \cup Untainted(Rest)
  BY <1>1 DEF AtTop
<1>4. Untainted(<<>>) = {} /\ Unscanned(<<>>, B) /\ <<>> \in Seq(Token)
  <2>1. <<>> \in Seq(Token) /\ 1 .. Len(<<>>) = {}
    OBVIOUS
  <2>2. \A x : x \notin Untainted(<<>>)
    BY <2>1, UntaintedIs
  <2>3. Unscanned(<<>>, B)
    BY <2>1 DEF Unscanned
  <2> QED
    BY <2>1, <2>2, <2>3
<1>5. tainted' = B
  BY <1>2, <1>3, <1>4
<1>6. CASE n = 1
  <2> DEFINE e == [Top EXCEPT !.rest = <<>>]
  <2>1. lists' = [lists EXCEPT ![n] = e]
    BY <1>2, <1>3, <1>6 DEF Top
  <2>2. e \in ListRec /\ e.scanned = Top.scanned /\ e.rest = <<>> /\ e.call = Top.call
    BY <1>3, <1>4 DEF ListRec
  <2>3. Top.call = NoCall /\ AllPlain(Top.scanned, B)
    BY <1>3 DEF EndOfList, Scanning, ListOK
  <2> HIDE DEF e, B
  <2>4. ListOK(e, B)
    BY <1>4, <2>2, <2>3 DEF ListOK
  <2>5. Stack([lists EXCEPT ![Len(lists)] = e], Below(lists, Len(lists)) \cup Untainted(e.rest))
    BY <2>4, TopChanged DEF B
  <2>6. Below(lists, Len(lists)) \cup Untainted(e.rest) = tainted'
    BY <1>4, <1>5, <2>2 DEF B
  <2> QED
    BY <2>1, <2>5, <2>6
<1>7. CASE n > 1
  <2>1. lists' = [L EXCEPT ![k].call.expanded = Append(@, Top.scanned)]
    <3>1. n # 1
      <4>1. n \in Nat
        BY <1>3
      <4> HIDE DEF n
      <4> QED
        BY <1>7, <4>1
    <3> HIDE DEF n, L, k
    <3> QED
      BY <1>2, <3>1
  <2>2. /\ Stack(L, B) /\ Len(L) = k /\ L[k] = lists[k]
        /\ lists[k].call # NoCall /\ Len(lists[k].call.expanded) < Len(lists[k].call.args)
    BY <1>7, Popped
  <2>3. AllPlain(Top.scanned, {})
    <3>1. AllPlain(Top.scanned, B)
      BY <1>3 DEF ListOK
    <3>2. {} \subseteq B
      OBVIOUS
    <3> HIDE DEF B
    <3> QED
      BY <3>1, <3>2, PlainFor
  <2> HIDE DEF L, k, B
  <2>4. /\ k \in 1 .. k /\ L \in Seq(ListRec) /\ ListOK(L[k], Below(L, k))
        /\ B = Below(L, k) \cup Untainted(L[k].rest)
    BY <2>2, TopIs
  <2>5. lists' = [L EXCEPT ![k] = l]
    BY <2>1, <2>2, <2>4
  <2>6. ListOK(l, Below(L, k)) /\ l.rest = L[k].rest
    <3> DEFINE j == L[k]
    <3>1. /\ ListOK(j, Below(L, k)) /\ j.call # NoCall
          /\ Len(j.call.expanded) < Len(j.call.args)
          /\ l = [j EXCEPT !.call.expanded = Append(@, Top.scanned)]
      BY <2>2, <2>4
    <3> HIDE DEF j, l
    <3>2. ListOK(l, Below(L, k)) /\ l.rest = j.rest
      BY <2>3, <3>1, Expanded
    <3> QED
      BY <3>2 DEF j
  <2> HIDE DEF l
  <2>7. Stack([L EXCEPT ![k] = l], Below(L, k) \cup Untainted(l.rest))
    BY <2>2, <2>6, TopChanged
  <2> QED
    BY <1>5, <2>4, <2>5, <2>6, <2>7
<1>8. n = 1 \/ n > 1
  <2>1. n \in Nat /\ n # 0
    BY <1>3
  <2> HIDE DEF n
  <2> QED
    BY <2>1
<1> QED
  BY <1>6, <1>7, <1>8

-----------------------------------------------------------------------------
\* The list to be expanded has no markers, and nothing is tainted.
LEMMA InitInv == Init => Inv
<1> SUFFICES ASSUME Init PROVE Inv
  OBVIOUS
<1>1. PICK p \in Programs :
         /\ macros = p.macros
         /\ lists = <<List([i \in DOMAIN p.source |-> Tok(p.source[i])])>>
  BY DEF Init
<1> DEFINE s == [i \in DOMAIN p.source |-> Tok(p.source[i])]
           l == List(s)
<1>2. Defines /\ p.source \in Seq(Texts)
  BY <1>1, MacroAssumption DEF Defines
<1>3. /\ s \in Seq(Token)
      /\ \A i \in 1 .. Len(s) : Plain(s[i]) /\ ~s[i].untaint
  <2> DEFINE N == Len(p.source)
  <2>1. DOMAIN p.source = 1 .. N /\ N \in Nat /\ \A i \in 1 .. N : p.source[i] \in Texts
    BY <1>2
  <2>2. \A i \in 1 .. N : Tok(p.source[i]) \in Token /\ Plain(Tok(p.source[i])) /\ ~Tok(p.source[i]).untaint
    BY <2>1, UntaintFields DEF Plain
  <2>3. s = [i \in 1 .. N |-> Tok(p.source[i])]
    BY <2>1
  <2> HIDE DEF s, N
  <2>4. s \in Seq(Token) /\ Len(s) = N
    BY <2>1, <2>2, <2>3
  <2> QED
    BY <2>2, <2>3, <2>4
<1> HIDE DEF s
<1>4. l.scanned = <<>> /\ l.rest = s /\ l.call = NoCall /\ l \in ListRec
  BY <1>3 DEF List, ListRec
<1> HIDE DEF l
<1>5. Untainted(s) = {}
  <2>1. \A x : x \notin Untainted(s)
    BY <1>3, UntaintedIs
  <2> QED
    BY <2>1
<1>6. ListOK(l, {})
  <2>1. \A i \in 1 .. Len(s) : \A j \in i + 1 .. Len(s) : j \in 1 .. Len(s)
    BY <1>3
  <2>2. Unscanned(s, {})
    BY <1>3, <2>1 DEF Unscanned
  <2>3. AllPlain(<<>>, {})
    BY DEF AllPlain
  <2> QED
    BY <1>4, <2>2, <2>3 DEF ListOK
<1>7. lists = <<l>> /\ lists \in Seq(ListRec) /\ Len(lists) = 1 /\ lists[1] = l /\ lists # <<>>
  BY <1>1, <1>4 DEF l, s
<1>8. Below(lists, 1) = {} /\ Below(lists, 1 + 1) = {}
  <2>1. 1 \in Nat \ {0}
    OBVIOUS
  <2>2. Below(lists, 1) = {} /\ Below(lists, 1 + 1) = Below(lists, 1) \cup Untainted(lists[1].rest)
    BY <2>1, BelowIs
  <2> QED
    BY <1>4, <1>5, <1>7, <2>2
<1>9. \A i \in 1 .. 1 : i = 1
  OBVIOUS
<1>10. 1 .. 1 - 1 = {}
  OBVIOUS
<1>11. tainted = {}
  BY DEF Init
<1>12. Stack(lists, tainted)
  BY <1>6, <1>7, <1>8, <1>9, <1>10, <1>11 DEF Stack
<1> QED
  BY <1>2, <1>12 DEF Inv

\* With the same macros a stack is one still.
LEMMA StackSame ==
    ASSUME macros' = macros, Stack(lists', tainted')
    PROVE  Stack(lists, tainted)'
<1>1. Call' = Call
  BY DEF Call
<1>2. ListRec' = ListRec
  BY <1>1 DEF ListRec
<1>3. \A t : Marker(t)' <=> Marker(t)
  BY DEF Marker
<1>4. \A s, B : Unscanned(s, B)' <=> Unscanned(s, B)
  BY <1>3 DEF Unscanned
<1>5. \A c, B : Waiting(c, B)' <=> Waiting(c, B)
  BY <1>1 DEF Waiting
<1>6. \A l, B : ListOK(l, B)' <=> ListOK(l, B)
  BY <1>2, <1>4, <1>5 DEF ListOK
<1> QED
  BY <1>2, <1>6 DEF Stack

\* Inv is kept by every step.
LEMMA NextInv == Inv /\ [Next]_vars => Inv'
<1> SUFFICES ASSUME Inv, [Next]_vars PROVE Inv'
  OBVIOUS
<1>1. Defines /\ Stack(lists, tainted)
  BY DEF Inv
<1>2. macros' = macros
  BY DEF Next, vars, PassToken, PassTainted, PassName, Pass, BadCall, ExpandObject, Replaced,
         collect_arguments, expand_argument, ExpandCall, EndOfList
<1>3. Defines'
  BY <1>1, <1>2 DEF Defines
<1>4. Stack(lists', tainted')
  <2>1. CASE PassToken \/ PassTainted \/ PassName
    BY <1>1, <2>1, PassedOver
  <2>2. CASE BadCall
    BY <1>1, <2>2, BadCallIs
  <2>3. CASE ExpandObject
    BY <1>1, <2>3, ExpandObjectIs
  <2>4. CASE collect_arguments
    BY <1>1, <2>4, CollectIs
  <2>5. CASE expand_argument
    BY <1>1, <2>5, expand_argumentIs
  <2>6. CASE ExpandCall
    BY <1>1, <2>6, ExpandCallIs
  <2>7. CASE EndOfList
    BY <1>1, <2>7, EndOfListIs
  <2>8. CASE UNCHANGED vars
    BY <1>1, <2>8 DEF vars
  <2> QED
    BY <2>1, <2>2, <2>3, <2>4, <2>5, <2>6, <2>7, <2>8 DEF Next
<1>5. Stack(lists, tainted)'
  BY <1>2, <1>4, StackSame
<1> QED
  BY <1>3, <1>5 DEF Inv

-----------------------------------------------------------------------------
\* The invariant gives the types.
LEMMA InvTypes == Inv => TypeOK
<1> SUFFICES ASSUME Inv PROVE TypeOK
  OBVIOUS
<1>1. /\ Stack(lists, tainted) /\ lists \in Seq(ListRec) /\ lists # <<>>
      /\ DOMAIN lists = 1 .. Len(lists) /\ Len(lists) \in Nat /\ tainted = Below(lists, Len(lists) + 1)
  BY DEF Inv, Stack
<1>2. ASSUME NEW i \in DOMAIN lists
      PROVE  /\ lists[i].scanned \in Seq(Token) /\ lists[i].rest \in Seq(Token)
             /\ lists[i].call \in Call \cup {NoCall}
             /\ i < Len(lists) => lists[i].call # NoCall
             /\ \A j \in DOMAIN lists[i].scanned : ~lists[i].scanned[j].untaint
  <2>1. lists[i] \in ListRec /\ ListOK(lists[i], Below(lists, i))
    BY <1>1 DEF Stack
  <2>2. i < Len(lists) => i \in 1 .. Len(lists) - 1
    BY <1>1
  <2>3. i < Len(lists) => lists[i].call # NoCall
    BY <1>1, <2>2 DEF Stack
  <2>4. \A j \in DOMAIN lists[i].scanned : ~lists[i].scanned[j].untaint
    BY <2>1 DEF ListOK, AllPlain, Plain
  <2> QED
    BY <2>1, <2>3, <2>4 DEF ListRec
<1>3. tainted \subseteq DOMAIN macros
  <2> SUFFICES ASSUME NEW x \in tainted PROVE x \in DOMAIN macros
    OBVIOUS
  <2>1. PICK i \in 1 .. Len(lists) : x \in Untainted(lists[i].rest)
    <3>1. (Len(lists) + 1) - 1 = Len(lists)
      BY <1>1
    <3> QED
      BY <1>1, <3>1 DEF Below
  <2>2. Unscanned(lists[i].rest, Below(lists, i))
    BY <1>1 DEF Stack, ListOK
  <2> DEFINE s == lists[i].rest
  <2> HIDE DEF s
  <2>3. s \in Seq(Token)
    BY <2>2 DEF Unscanned, s
  <2>4. PICK j \in 1 .. Len(s) : s[j].untaint /\ s[j].text = x
    BY <2>1, <2>3, UntaintedIs DEF s
  <2>5. Marker(s[j])
    BY <2>2, <2>4 DEF Unscanned, Plain, s
  <2> QED
    BY <2>4, <2>5 DEF Marker
<1> QED
  BY <1>1, <1>2, <1>3 DEF TypeOK

\* A marker of a list is not in one below, nor twice in the list.
LEMMA MarkerOnce ==
    ASSUME Inv, NEW m, NEW i \in 1 .. Len(lists), NEW a \in 1 .. Len(lists[i].rest),
           lists[i].rest[a] = Untaint(m),
           NEW j \in 1 .. i, NEW b \in 1 .. Len(lists[j].rest), lists[j].rest[b] = Untaint(m)
    PROVE  j = i /\ b = a
<1>1. Stack(lists, tainted) /\ lists \in Seq(ListRec) /\ Len(lists) \in Nat /\ i \in Nat \ {0} /\ j \in Nat
  BY DEF Inv, Stack
<1>2. Untaint(m).untaint /\ Untaint(m).text = m
  BY DEF Untaint, Tok
<1> DEFINE s == lists[i].rest
           B == Below(lists, i)
<1>3. Unscanned(s, B)
  BY <1>1 DEF Stack, ListOK
<1>4. s \in Seq(Token) /\ Len(s) \in Nat
  BY <1>3 DEF Unscanned
<1> HIDE DEF s, B
<1>5. \A k \in 1 .. Len(s) : s[k] = Untaint(m) =>
         m \notin B /\ \A l \in k + 1 .. Len(s) : s[l].untaint => s[l].text # m
  BY <1>2, <1>3 DEF Unscanned, Plain
<1>6. CASE j # i
  <2>1. j \in 1 .. i - 1 /\ j \in 1 .. Len(lists)
    BY <1>1, <1>6
  <2>2. lists[j].rest \in Seq(Token)
    <3>1. lists[j] \in ListRec
      BY <1>1, <2>1
    <3> QED
      BY <3>1 DEF ListRec
  <2>3. m \in Untainted(lists[j].rest)
    <3> DEFINE r == lists[j].rest
    <3>1. r \in Seq(Token) /\ b \in 1 .. Len(r) /\ r[b].untaint /\ r[b].text = m
      BY <1>2, <2>2
    <3> HIDE DEF r
    <3>2. m \in Untainted(r)
      BY <3>1, UntaintedIs
    <3> QED
      BY <3>2 DEF r
  <2>4. m \in B
    BY <1>1, <2>1, <2>3, BelowIs DEF B
  <2> QED
    BY <1>5, <2>4 DEF s
<1>7. CASE j = i
  <2>1. a \in 1 .. Len(s) /\ b \in 1 .. Len(s) /\ s[a] = Untaint(m) /\ s[b] = Untaint(m)
    BY <1>7 DEF s
  <2>2. a \notin b + 1 .. Len(s) /\ b \notin a + 1 .. Len(s)
    BY <1>2, <1>5, <2>1
  <2>3. a = b
    BY <1>4, <2>1, <2>2
  <2> QED
    BY <1>7, <2>3
<1> QED
  BY <1>6, <1>7

\* And that taint is balanced.
LEMMA InvBalanced == Inv => TaintIsBalanced
<1> SUFFICES ASSUME Inv PROVE TaintIsBalanced
  OBVIOUS
<1>1. /\ Stack(lists, tainted) /\ lists \in Seq(ListRec) /\ Len(lists) \in Nat
      /\ DOMAIN lists = 1 .. Len(lists) /\ tainted = Below(lists, Len(lists) + 1)
  BY DEF Inv, Stack
<1>2. tainted = Within
  <2>1. 1 .. (Len(lists) + 1) - 1 = DOMAIN lists
    BY <1>1
  <2> QED
    BY <1>1, <2>1 DEF Below, Within
<1>3. ASSUME NEW m \in tainted
      PROVE  Cardinality({q \in UNION {{i} \X DOMAIN lists[i].rest : i \in DOMAIN lists} :
                            lists[q[1]].rest[q[2]] = Untaint(m)}) = 1
  <2> DEFINE Q == {q \in UNION {{i} \X DOMAIN lists[i].rest : i \in DOMAIN lists} :
                      lists[q[1]].rest[q[2]] = Untaint(m)}
  <2>1. \A i \in DOMAIN lists : /\ lists[i].rest \in Seq(Token)
                                /\ DOMAIN lists[i].rest = 1 .. Len(lists[i].rest)
    <3> TAKE i \in DOMAIN lists
    <3>1. lists[i] \in ListRec
      BY <1>1
    <3>2. lists[i].rest \in Seq(Token)
      BY <3>1 DEF ListRec
    <3> QED
      BY <3>2
  <2>2. \A q : q \in Q <=> \E i \in DOMAIN lists : \E a \in DOMAIN lists[i].rest :
                              q = <<i, a>> /\ lists[i].rest[a] = Untaint(m)
    OBVIOUS
  <2> HIDE DEF Q
  <2>3. PICK i \in DOMAIN lists : m \in Untainted(lists[i].rest)
    BY <1>2 DEF Within
  <2>4. PICK a \in DOMAIN lists[i].rest : lists[i].rest[a] = Untaint(m)
    <3> DEFINE s == lists[i].rest
    <3>1. s \in Seq(Token) /\ Unscanned(s, Below(lists, i)) /\ DOMAIN s = 1 .. Len(s)
      BY <1>1, <2>1 DEF Stack, ListOK
    <3>2. m \in Untainted(s)
      BY <2>3
    <3> HIDE DEF s
    <3>3. PICK a \in 1 .. Len(s) : s[a].untaint /\ s[a].text = m
      BY <3>1, <3>2, UntaintedIs
    <3>4. s[a] = Untaint(m)
      BY <3>1, <3>3 DEF Unscanned, Plain, Marker
    <3> QED
      BY <3>1, <3>3, <3>4 DEF s
  <2>5. \A j \in DOMAIN lists : \A b \in DOMAIN lists[j].rest :
           lists[j].rest[b] = Untaint(m) => j = i /\ b = a
    <3> SUFFICES ASSUME NEW j \in DOMAIN lists, NEW b \in DOMAIN lists[j].rest,
                        lists[j].rest[b] = Untaint(m)
                 PROVE  j = i /\ b = a
      OBVIOUS
    <3>1. /\ i \in 1 .. Len(lists) /\ j \in 1 .. Len(lists)
          /\ a \in 1 .. Len(lists[i].rest) /\ b \in 1 .. Len(lists[j].rest)
      BY <1>1, <2>1
    <3>2. j \in 1 .. i \/ i \in 1 .. j
      BY <1>1, <3>1
    <3>3. CASE j \in 1 .. i
      BY <2>4, <3>1, <3>3, MarkerOnce
    <3>4. CASE i \in 1 .. j
      BY <2>4, <3>1, <3>4, MarkerOnce
    <3> QED
      BY <3>2, <3>3, <3>4
  <2>6. Q = {<<i, a>>}
    <3>1. \A q : q \in Q <=> q = <<i, a>>
      BY <2>2, <2>4, <2>5
    <3> QED
      BY <3>1
  <2>7. Cardinality(Q) = 1
    BY <2>6, FS_Singleton
  <2> QED
    BY <2>7 DEF Q
<1> QED
  BY <1>2, <1>3 DEF TaintIsBalanced

\* An action that passes over or expands the token here has found it so.
LEMMA HereIs ==
    ASSUME Inv, Rest # <<>>
    PROVE  /\ Plain(Here) /\ TaintedHere \subseteq Here.hide
           /\ TaintedHere = Within \ Skipped(Top.rest)
<1>1. AtTop(Below(lists, Len(lists)))
  BY AtTopIs DEF Inv
<1>2. tainted = Within
  BY InvBalanced DEF TaintIsBalanced
<1> QED
  BY <1>1, <1>2 DEF AtTop, TaintedHere

\* The types are right, whatever macros there are and whatever is expanded.
THEOREM TypeCorrect == Spec => []TypeOK
<1>1. Spec => []Inv
  BY InitInv, NextInv, PTL DEF Spec
<1> QED
  BY <1>1, InvTypes, PTL

\* An identifier is tainted exactly as long as its TOKEN_UNTAINT is ahead, once,
\* in one of the lists: expand taints it, scan_next undoes that, however calls,
\* arguments and pasted tokens follow each other.
THEOREM TaintCorrect == Spec => []TaintIsBalanced
<1>1. Spec => []Inv
  BY InitInv, NextInv, PTL DEF Spec
<1> QED
  BY <1>1, InvBalanced, PTL

\* No macro is expanded by expand within its own expansion, nor where a token of
\* its name came out of there.
THEOREM NeverExpandedWithin == Spec => NeverWithinItself
<1>1. Inv /\ [Next]_vars =>
         [ExpandObject \/ collect_arguments =>
             ~Here.within /\ Here.text \notin Within \ Skipped(Top.rest)]_vars
  <2> SUFFICES ASSUME Inv, ExpandObject \/ collect_arguments
               PROVE  ~Here.within /\ Here.text \notin Within \ Skipped(Top.rest)
    OBVIOUS
  <2>1. Rest # <<>> /\ ~Here.noexpand /\ Here.text \notin TaintedHere
    BY DEF ExpandObject, collect_arguments, Expandable, AtMacro
  <2> QED
    BY <2>1, HereIs DEF Plain
<1>2. Spec => []Inv
  BY InitInv, NextInv, PTL DEF Spec
<1> QED
  BY <1>1, <1>2, PTL DEF Spec, NeverWithinItself

\* What expand leaves alone for good has its name in the hide set that the
\* standard's algorithm gives it.
THEOREM HiddenCorrect == Spec => HiddenOnlyWithinItself
<1>1. Inv /\ [Next]_vars =>
         [PassTainted \/ (PassToken /\ Here.noexpand) => Here.text \in Here.hide]_vars
  <2> SUFFICES ASSUME Inv, PassTainted \/ (PassToken /\ Here.noexpand)
               PROVE  Here.text \in Here.hide
    OBVIOUS
  <2>1. Rest # <<>> /\ (Here.noexpand \/ Here.text \in TaintedHere)
    BY DEF PassTainted, PassToken, AtMacro
  <2> QED
    BY <2>1, HereIs DEF Plain
<1>2. Spec => []Inv
  BY InitInv, NextInv, PTL DEF Spec
<1> QED
  BY <1>1, <1>2, PTL DEF Spec, HiddenOnlyWithinItself
=============================================================================
