-------------------------- MODULE SymbolScope_proofs --------------------------
(***************************************************************************)
(* For any number of identifiers, symbols and scopes: the chains of the    *)
(* identifiers and the lists of the scopes name the same symbols, and a    *)
(* lookup finds the innermost one.  What the parser has open says which    *)
(* scopes there are and where each one leads when it ends; that is why     *)
(* ending a function ends its two scopes, and no other.                    *)
(***************************************************************************)
EXTENDS SymbolScope, Recursion_proofs, FiniteSetTheorems

NoRepeat(s) == \A i, j \in 1 .. Len(s) : s[i] = s[j] => i = j

\* The chains and the lists of the scopes agree, and what is in neither is free.
Chained(t) ==
    /\ \A id \in AllIdents : NoRepeat(t.chain[id])
    /\ \A id \in AllIdents : \A s \in Elems(t.chain[id]) :
          /\ t.sym[s].ident = id /\ t.sym[s].ns # "NONE"
          /\ t.sym[s].scope \in 1 .. Len(t.scopes)
          /\ s \in Elems(t.scopes[t.sym[s].scope].symbols)
    /\ \A sc \in 1 .. Len(t.scopes) : \A s \in Elems(t.scopes[sc].symbols) :
          t.sym[s].scope = sc /\ s \in Elems(t.chain[t.sym[s].ident])

\* Which scopes belong to the functions and blocks op that are open in a file:
\* P[i] is the block scope and F[i] the function scope within the first i.
Levels(scopes, file, op, P, F) ==
    /\ P[0] = file /\ F[0] = file
    /\ \A i, j \in 0 .. Len(op) : i < j => P[i] < P[j]
    /\ \A i \in 0 .. Len(op) : F[i] \in 1 .. P[i]
    /\ \A i \in 1 .. Len(op) : scopes[P[i]].next = P[i - 1]
    /\ \A i \in 1 .. Len(op) : op[i] = "function" =>
          P[i] = P[i - 1] + 2 /\ F[i] = P[i - 1] + 1 /\ scopes[F[i]].next = F[i - 1]
    /\ \A i \in 1 .. Len(op) : op[i] = "block" => P[i] = P[i - 1] + 1 /\ F[i] = F[i - 1]

Leveled(scopes, file, op, top, fn) ==
    \E P, F \in [0 .. Len(op) -> Nat] :
        Levels(scopes, file, op, P, F) /\ P[Len(op)] = top /\ F[Len(op)] = fn

Stacked(t, op) ==
    /\ t.file_scope \in {1, 2} /\ t.scopes[t.file_scope].next = Builtin
    /\ t.block_scope = Len(t.scopes)
    /\ Leveled(t.scopes, t.file_scope, op, t.block_scope, t.function_scope)

\* InnermostWins of a table.
Inner(t) ==
    \A id \in AllIdents : \A i, j \in 1 .. Len(t.chain[id]) :
        LET a == t.sym[t.chain[id][i]]
            b == t.sym[t.chain[id][j]]
        IN  i < j /\ Class(a.ns) = Class(b.ns) /\ b.scope > t.file_scope => a.scope >= b.scope

Good(t, op) == t \in Table /\ Chained(t) /\ Stacked(t, op) /\ Inner(t)

Inv == TypeOK /\ Good(tab, open) /\ (phase = "preprocess" => open = <<>>)

-----------------------------------------------------------------------------
\* r is what a walk along the first n of s keeps: k says where each one was.
Picks(k, r, s, n, gone) ==
    /\ k \in [1 .. Len(r) -> 1 .. n]
    /\ \A i \in 1 .. Len(r) : r[i] = s[k[i]] /\ r[i] \notin gone
    /\ \A i, j \in 1 .. Len(r) : i < j => k[i] < k[j]
    /\ \A m \in 1 .. n : s[m] \in gone \/ \E i \in 1 .. Len(r) : k[i] = m

\* An element that the walk passes over.
LEMMA PicksOver ==
    ASSUME NEW K, NEW s \in Seq(K), NEW r \in Seq(K), NEW gone, NEW n \in 1 .. Len(s),
           NEW k, Picks(k, r, s, n - 1, gone), s[n] \in gone
    PROVE  Picks(k, r, s, n, gone)
<1>1. n \in Nat /\ n - 1 \in Nat /\ Len(r) \in Nat
  OBVIOUS
<1>2. k \in [1 .. Len(r) -> 1 .. n]
  BY <1>1 DEF Picks
<1>3. \A m \in 1 .. n : m = n \/ m \in 1 .. n - 1
  BY <1>1
<1> QED
  BY <1>2, <1>3 DEF Picks

\* An element that the walk keeps is one more of what it picks.
LEMMA PicksOne ==
    ASSUME NEW K, NEW s \in Seq(K), NEW r \in Seq(K), NEW gone, NEW n \in 1 .. Len(s),
           NEW k, Picks(k, r, s, n - 1, gone), s[n] \notin gone
    PROVE  \E l : Picks(l, Append(r, s[n]), s, n, gone)
<1> DEFINE q == Append(r, s[n])
           l == [i \in 1 .. Len(q) |-> IF i = Len(r) + 1 THEN n ELSE k[i]]
<1>1. n \in Nat /\ n - 1 \in Nat /\ Len(r) \in Nat /\ s[n] \in K
  OBVIOUS
<1>2. /\ Len(q) = Len(r) + 1
      /\ \A i \in 1 .. Len(r) : q[i] = r[i] /\ i \in 1 .. Len(q) /\ i # Len(r) + 1
      /\ q[Len(r) + 1] = s[n]
  BY <1>1
<1>3. \A i \in 1 .. Len(r) : k[i] \in 1 .. n - 1
  BY DEF Picks
<1> HIDE DEF q
<1>4. \A i \in 1 .. Len(q) : i = Len(r) + 1 \/ i \in 1 .. Len(r)
  BY <1>1, <1>2
<1>5. l[Len(r) + 1] = n /\ \A i \in 1 .. Len(r) : l[i] = k[i]
  <2>1. Len(r) + 1 \in 1 .. Len(q)
    BY <1>1, <1>2
  <2> QED
    BY <1>2, <2>1
<1>6. l \in [1 .. Len(q) -> 1 .. n]
  <2> SUFFICES ASSUME NEW i \in 1 .. Len(q) PROVE l[i] \in 1 .. n
    OBVIOUS
  <2> QED
    BY <1>1, <1>3, <1>4
<1> HIDE DEF l
<1>7. \A i \in 1 .. Len(q) : q[i] = s[l[i]] /\ q[i] \notin gone
  BY <1>2, <1>4, <1>5 DEF Picks
<1>8. \A i, j \in 1 .. Len(q) : i < j => l[i] < l[j]
  <2> SUFFICES ASSUME NEW i \in 1 .. Len(q), NEW j \in 1 .. Len(q), i < j PROVE l[i] < l[j]
    OBVIOUS
  <2>1. i \in 1 .. Len(r)
    BY <1>1, <1>2
  <2>2. CASE j = Len(r) + 1
    BY <1>1, <1>3, <1>5, <2>1, <2>2
  <2>3. CASE j \in 1 .. Len(r)
    BY <1>5, <2>1, <2>3 DEF Picks
  <2> QED
    BY <1>4, <2>2, <2>3
<1>9. \A m \in 1 .. n : s[m] \in gone \/ \E i \in 1 .. Len(q) : l[i] = m
  <2> TAKE m \in 1 .. n
  <2>1. CASE m = n
    <3>1. Len(r) + 1 \in 1 .. Len(q)
      BY <1>1, <1>2
    <3> QED
      BY <1>5, <2>1, <3>1
  <2>2. CASE m # n
    <3>1. m \in 1 .. n - 1
      BY <1>1, <2>2
    <3>2. s[m] \in gone \/ \E i \in 1 .. Len(r) : k[i] = m
      BY <3>1 DEF Picks
    <3> QED
      BY <1>2, <1>5, <3>2
  <2> QED
    BY <2>1, <2>2
<1>10. Picks(l, q, s, n, gone)
  BY <1>6, <1>7, <1>8, <1>9 DEF Picks
<1> QED
  BY <1>10 DEF q

\* remove_symbol_scope takes out what is gone, leaves the rest and its order.
LEMMA KeptPicks ==
    ASSUME NEW K, NEW s \in Seq(K), NEW gone
    PROVE  Kept(s, gone) \in Seq(K) /\ \E k : Picks(k, Kept(s, gone), s, Len(s), gone)
<1> DEFINE D == 0 .. Len(s)
           left[n \in D] ==
              IF n = 0 THEN <<>> ELSE IF s[n] \in gone THEN left[n - 1] ELSE Append(left[n - 1], s[n])
           step(n, r) == IF n \notin 1 .. Len(s) THEN r
                         ELSE IF s[n] \in gone THEN r ELSE Append(r, s[n])
           G == [x \in Nat \X Seq(K) |-> step(x[1], x[2])]
<1>1. PICK f \in [0 .. Len(s) -> Seq(K)] : Follows(f, 0, Len(s), <<>>, G)
  <2>1. G \in [Nat \X Seq(K) -> Seq(K)]
    <3> SUFFICES ASSUME NEW n \in Nat, NEW r \in Seq(K) PROVE step(n, r) \in Seq(K)
      OBVIOUS
    <3>1. n \in 1 .. Len(s) => s[n] \in K
      OBVIOUS
    <3> QED
      BY <3>1
  <2>2. Len(s) \in Nat /\ <<>> \in Seq(K) /\ 0 \in Nat
    OBVIOUS
  <2> HIDE DEF G
  <2> QED
    BY <2>1, <2>2, Recursive
<1>2. \A n \in D : f[n] = IF n = 0 THEN <<>>
                          ELSE IF s[n] \in gone THEN f[n - 1] ELSE Append(f[n - 1], s[n])
  <2> TAKE n \in D
  <2>1. n # 0 => n \in 1 .. Len(s) /\ n \in Nat /\ f[n - 1] \in Seq(K)
    BY <1>1
  <2>2. n # 0 => G[<<n, f[n - 1]>>] = IF s[n] \in gone THEN f[n - 1] ELSE Append(f[n - 1], s[n])
    BY <2>1
  <2>3. f[n] = IF n = 0 THEN <<>> ELSE G[<<n, f[n - 1]>>]
    BY <1>1 DEF Follows
  <2> HIDE DEF G
  <2> QED
    BY <2>2, <2>3
<1>3. left = f
  <2>1. f = [n \in D |-> IF n = 0 THEN <<>>
                          ELSE IF s[n] \in gone THEN f[n - 1] ELSE Append(f[n - 1], s[n])]
    BY <1>1, <1>2
  <2>2. left = [n \in D |-> IF n = 0 THEN <<>>
                             ELSE IF s[n] \in gone THEN left[n - 1] ELSE Append(left[n - 1], s[n])]
    BY <2>1
  <2> DEFINE T == {n \in D : left[n] # f[n]}
  <2>3. ASSUME T # {} PROVE FALSE
    <3>1. PICK n \in T : \A l \in T : n <= l
      <4> T \subseteq Nat
        OBVIOUS
      <4> HIDE DEF T
      <4> QED
        BY <2>3, Least
    <3>2. n \in D /\ n # 0 => n - 1 \in D /\ ~(n <= n - 1)
      OBVIOUS
    <3> HIDE DEF left
    <3>3. n # 0 => left[n - 1] = f[n - 1]
      BY <3>1, <3>2
    <3> QED
      BY <1>2, <2>2, <3>1, <3>3
  <2> HIDE DEF left
  <2> QED
    BY <2>1, <2>2, <2>3
<1> HIDE DEF left
<1>4. \A n \in D : \E k : Picks(k, f[n], s, n, gone)
  <2> DEFINE T == {n \in D : ~\E k : Picks(k, f[n], s, n, gone)}
  <2>1. ASSUME T # {} PROVE FALSE
    <3>1. PICK n \in T : \A l \in T : n <= l
      <4> T \subseteq Nat
        OBVIOUS
      <4> HIDE DEF T
      <4> QED
        BY <2>1, Least
    <3>2. CASE n = 0
      <4>1. f[n] = <<>>
        BY <1>2, <3>1, <3>2
      <4> DEFINE k == [i \in {} |-> 0]
      <4>2. Len(f[n]) = 0 /\ 1 .. Len(f[n]) = {} /\ 1 .. n = {} /\ k \in [{} -> 1 .. n]
        BY <3>2, <4>1
      <4> HIDE DEF k
      <4>3. Picks(k, f[n], s, n, gone)
        BY <4>2 DEF Picks
      <4> QED
        BY <3>1, <4>3
    <3>3. CASE n # 0
      <4>1. n \in 1 .. Len(s) /\ n - 1 \in D /\ ~(n <= n - 1) /\ f[n - 1] \in Seq(K)
        <5>1. n \in D
          BY <3>1
        <5> HIDE DEF T
        <5>2. n \in 1 .. Len(s) /\ n - 1 \in D /\ ~(n <= n - 1)
          BY <3>3, <5>1
        <5> QED
          BY <1>1, <5>2
      <4>2. PICK k : Picks(k, f[n - 1], s, n - 1, gone)
        BY <3>1, <4>1
      <4>3. f[n] = IF s[n] \in gone THEN f[n - 1] ELSE Append(f[n - 1], s[n])
        BY <1>2, <3>1, <3>3
      <4> HIDE DEF T
      <4>4. \E l : Picks(l, f[n], s, n, gone)
        BY <4>1, <4>2, <4>3, PicksOver, PicksOne
      <4> QED
        BY <3>1, <4>4 DEF T
    <3> QED
      BY <3>2, <3>3
  <2> QED
    BY <2>1
<1>5. Kept(s, gone) = left[Len(s)] /\ Len(s) \in D
  BY DEF Kept, left
<1> QED
  BY <1>1, <1>3, <1>4, <1>5

-----------------------------------------------------------------------------
\* u is t with the new symbol s, first in the chain of id and last in scope sc.
Fresh(t, u, id, s, sc) ==
    /\ s \in Free(t)
    /\ sc \in 1 .. Len(t.scopes)
    /\ u.chain = [t.chain EXCEPT ![id] = <<s>> \o @]
    /\ u.scopes = [t.scopes EXCEPT ![sc].symbols = Append(@, s)]
    /\ \A r \in SymIds : r # s => u.sym[r] = t.sym[r]
    /\ u.sym[s].ident = id /\ u.sym[s].scope = sc /\ u.sym[s].ns # "NONE"
    /\ u.block_scope = t.block_scope /\ u.function_scope = t.function_scope
    /\ u.file_scope = t.file_scope

\* The fields of a table.
LEMMA Fields ==
    ASSUME NEW t, t \in Table
    PROVE  /\ t.chain \in [AllIdents -> Seq(SymIds)] /\ t.sym \in [SymIds -> Symbol]
           /\ t.scopes \in Seq(Scope)
           /\ t.block_scope \in ScopeIds /\ t.function_scope \in ScopeIds /\ t.file_scope \in ScopeIds
           /\ t = [chain |-> t.chain, sym |-> t.sym, scopes |-> t.scopes, block_scope |-> t.block_scope,
                   function_scope |-> t.function_scope, file_scope |-> t.file_scope]
BY DEF Table

\* What the free symbol of a new binding is.
LEMMA FirstFree ==
    ASSUME NEW t, Free(t) # {}
    PROVE  FirstOf(Free(t)) \in Free(t)
<1>1. Free(t) \subseteq Nat
  BY DEF Free, SymIds
<1>2. \E i \in Free(t) : \A j \in Free(t) : i <= j
  BY <1>1, Least
<1> QED
  BY <1>2 DEF FirstOf

\* Sequences put together, and one with a new element in place of another.
LEMMA Concatenated ==
    ASSUME NEW K, NEW c \in Seq(K), NEW d \in Seq(K)
    PROVE  /\ d \o c \in Seq(K) /\ Len(d \o c) = Len(d) + Len(c)
           /\ \A i \in 1 .. Len(d) + Len(c) : (d \o c)[i] = IF i <= Len(d) THEN d[i] ELSE c[i - Len(d)]
<1>1. d \o c \in Seq(K) /\ Len(d \o c) = Len(d) + Len(c)
  OBVIOUS
<1>2. \A i \in 1 .. Len(d) + Len(c) : (d \o c)[i] = IF i <= Len(d) THEN d[i] ELSE c[i - Len(d)]
  OBVIOUS
<1> QED
  BY <1>1, <1>2

\* A sequence with another element in one place.
LEMMA Replaced ==
    ASSUME NEW K, NEW c \in Seq(K), NEW i \in 1 .. Len(c), NEW v \in K
    PROVE  /\ [c EXCEPT ![i] = v] \in Seq(K) /\ Len([c EXCEPT ![i] = v]) = Len(c)
           /\ \A j \in 1 .. Len(c) : [c EXCEPT ![i] = v][j] = IF j = i THEN v ELSE c[j]
<1>1. [c EXCEPT ![i] = v] \in Seq(K) /\ Len([c EXCEPT ![i] = v]) = Len(c)
  OBVIOUS
<1>2. \A j \in 1 .. Len(c) : [c EXCEPT ![i] = v][j] = IF j = i THEN v ELSE c[j]
  OBVIOUS
<1> QED
  BY <1>1, <1>2

\* A sequence with one element more in front.
LEMMA Prepended ==
    ASSUME NEW K, NEW c \in Seq(K), NEW s \in K
    PROVE  /\ <<s>> \o c \in Seq(K) /\ Len(<<s>> \o c) = Len(c) + 1
           /\ (<<s>> \o c)[1] = s
           /\ \A i \in 1 .. Len(c) : (<<s>> \o c)[i + 1] = c[i]
           /\ \A i \in 1 .. Len(c) + 1 : i = 1 \/ (i - 1 \in 1 .. Len(c) /\ (<<s>> \o c)[i] = c[i - 1])
           /\ Elems(<<s>> \o c) = Elems(c) \cup {s}
<1> DEFINE one == <<s>>
<1>1. one \in Seq(K) /\ Len(one) = 1 /\ one[1] = s
  OBVIOUS
<1> HIDE DEF one
<1> DEFINE q == one \o c
<1>a. /\ q \in Seq(K) /\ Len(q) = Len(one) + Len(c)
      /\ \A i \in 1 .. Len(one) + Len(c) : q[i] = IF i <= Len(one) THEN one[i] ELSE c[i - Len(one)]
  BY <1>1, Concatenated
<1> HIDE DEF q
<1>b. Len(c) \in Nat
  OBVIOUS
<1>2. /\ q \in Seq(K) /\ Len(q) = Len(c) + 1 /\ q[1] = s
      /\ \A i \in 1 .. Len(c) : q[i + 1] = c[i]
  <2>1. 1 \in 1 .. Len(one) + Len(c)
    BY <1>1, <1>b
  <2>2. q[1] = s
    BY <1>1, <1>a, <2>1
  <2>3. \A i \in 1 .. Len(c) : i + 1 \in 1 .. Len(one) + Len(c) /\ ~(i + 1 <= 1) /\ (i + 1) - 1 = i
    BY <1>1, <1>b
  <2> QED
    BY <1>1, <1>a, <1>b, <2>2, <2>3
<1>3. \A i \in 1 .. Len(c) + 1 : i = 1 \/ (i - 1 \in 1 .. Len(c) /\ q[i] = c[i - 1])
  BY <1>1, <1>a, <1>b
<1>4. Elems(q) = Elems(c) \cup {s}
  <2>1. Elems(q) \subseteq Elems(c) \cup {s}
    <3> SUFFICES ASSUME NEW i \in 1 .. Len(q) PROVE q[i] \in Elems(c) \cup {s}
      BY DEF Elems
    <3>1. i = 1 \/ (i - 1 \in 1 .. Len(c) /\ q[i] = c[i - 1])
      BY <1>2, <1>3
    <3> QED
      BY <1>2, <3>1 DEF Elems
  <2>2. \A i \in 1 .. Len(c) : i + 1 \in 1 .. Len(q)
    BY <1>2
  <2>3. Elems(c) \subseteq Elems(q)
    BY <1>2, <2>2 DEF Elems
  <2>4. 1 \in 1 .. Len(q)
    BY <1>2
  <2>5. s \in Elems(q)
    BY <1>2, <2>4 DEF Elems
  <2> QED
    BY <2>1, <2>3, <2>5
<1> QED
  BY <1>2, <1>3, <1>4 DEF one, q

\* And with one more at the end.
LEMMA Appended ==
    ASSUME NEW K, NEW c \in Seq(K), NEW s \in K
    PROVE  Append(c, s) \in Seq(K) /\ Elems(Append(c, s)) = Elems(c) \cup {s}
<1>1. Append(c, s) \in Seq(K) /\ Len(Append(c, s)) = Len(c) + 1 /\ Append(c, s)[Len(c) + 1] = s
  OBVIOUS
<1>2. \A i \in 1 .. Len(c) : Append(c, s)[i] = c[i] /\ i \in 1 .. Len(c) + 1
  OBVIOUS
<1>3. \A i \in 1 .. Len(c) + 1 : i = Len(c) + 1 \/ i \in 1 .. Len(c)
  OBVIOUS
<1>4. Len(c) + 1 \in 1 .. Len(c) + 1
  OBVIOUS
<1> QED
  BY <1>1, <1>2, <1>3, <1>4 DEF Elems

\* Another symbol in a slot of a table.
Put(t, s, r) == [t EXCEPT !.sym[s] = r]

\* Giving another symbol to a slot keeps a table a table.
LEMMA WithSymbol ==
    ASSUME NEW t, t \in Table, NEW s \in SymIds, NEW r \in Symbol
    PROVE  Put(t, s, r) \in Table
BY DEF Table, Put

\* What alloc_symbol and bind_symbol put into a symbol.
LEMMA NewSymbol ==
    ASSUME NEW id \in AllIdents, NEW ns \in Namespaces, NEW sc \in ScopeIds
    PROVE  LET r == SymbolOf(id, ns, sc)
           IN  r \in Symbol /\ r.ident = id /\ r.ns = ns /\ r.scope = sc
BY DEF Symbol, SymbolOf

\* bind_symbol makes a fresh symbol in the scope that BoundIn names.
LEMMA BindIsFresh ==
    ASSUME NEW t, t \in Table, Free(t) # {}, NEW id \in AllIdents,
           NEW ns \in Namespaces \ {"NONE"}, NEW static \in BOOLEAN,
           BoundIn(t, ns, static) \in 1 .. Len(t.scopes),
           BoundIn(t, ns, static) \in ScopeIds
    PROVE  LET u == bind_symbol(t, id, ns, static)
           IN  /\ u \in Table /\ u.chain[id][1] = FirstOf(Free(t))
               /\ Fresh(t, u, id, FirstOf(Free(t)), BoundIn(t, ns, static))
               /\ u.sym[FirstOf(Free(t))] = SymbolOf(id, ns, BoundIn(t, ns, static))
<1> DEFINE s == FirstOf(Free(t))
           sc == BoundIn(t, ns, static)
           c == <<s>> \o t.chain[id]
           new == SymbolOf(id, ns, sc)
           u == bind_symbol(t, id, ns, static)
           chain == [t.chain EXCEPT ![id] = c]
           sym == [t.sym EXCEPT ![s] = new]
           scopes == [t.scopes EXCEPT ![sc].symbols = Append(@, s)]
<1>1. s \in Free(t) /\ s \in SymIds
  BY FirstFree DEF Free
<1>2. t.chain[id] \in Seq(SymIds)
  BY Fields
<1>3. c \in Seq(SymIds) /\ c[1] = s
  <2> HIDE DEF s
  <2> QED
    BY <1>1, <1>2, Prepended
<1>4. new \in Symbol /\ new.ident = id /\ new.scope = sc /\ new.ns = ns
  <2>1. sc \in ScopeIds /\ ns \in Namespaces
    OBVIOUS
  <2> HIDE DEF sc
  <2> QED
    BY <2>1, NewSymbol
<1>5. t.scopes[sc] \in Scope
  BY Fields
<1>6. scopes \in Seq(Scope)
  <2>1. Append(t.scopes[sc].symbols, s) \in Seq(SymIds)
    <3>1. t.scopes[sc].symbols \in Seq(SymIds)
      BY <1>5 DEF Scope
    <3> HIDE DEF s, sc
    <3> QED
      BY <1>1, <3>1, Appended
  <2> DEFINE v == [t.scopes[sc] EXCEPT !.symbols = Append(@, s)]
  <2>2. v \in Scope
    <3> HIDE DEF s, sc
    <3> QED
      BY <1>5, <2>1 DEF Scope
  <2>3. scopes = [t.scopes EXCEPT ![sc] = v]
    OBVIOUS
  <2>4. sc \in 1 .. Len(t.scopes)
    OBVIOUS
  <2> HIDE DEF s, sc, v, scopes
  <2> QED
    BY <2>2, <2>3, <2>4, Fields, Replaced
<1>7. u = [t EXCEPT !.chain = chain, !.sym = sym, !.scopes = scopes]
  BY Fields DEF bind_symbol
<1> HIDE DEF u, s, sc, c, new
<1>8. u.chain = chain /\ u.sym = sym /\ u.scopes = scopes /\ u.block_scope = t.block_scope
      /\ u.function_scope = t.function_scope /\ u.file_scope = t.file_scope
  <2> HIDE DEF chain, sym, scopes
  <2> QED
    BY <1>7, Fields
<1>9. u \in Table
  <2>1. chain \in [AllIdents -> Seq(SymIds)] /\ sym \in [SymIds -> Symbol]
    BY <1>1, <1>3, <1>4, Fields
  <2> HIDE DEF chain, sym, scopes
  <2> QED
    BY <1>6, <1>7, <2>1, Fields DEF Table
<1>10. u.sym[s] = new /\ u.chain[id][1] = s
  BY <1>1, <1>3, <1>8, Fields
<1>11. Fresh(t, u, id, s, sc)
  <2>1. \A r \in SymIds : r # s => u.sym[r] = t.sym[r]
    BY <1>8, Fields
  <2> QED
    BY <1>1, <1>4, <1>8, <1>10, <2>1 DEF Fresh, c, sc
<1> QED
  BY <1>9, <1>10, <1>11 DEF u, s, sc, new

\* What a fresh symbol changes: its chain and the list of its scope.
Parts(t, u, id, s, sc) ==
    /\ s \in SymIds /\ t.sym[s].ns = "NONE" /\ sc \in 1 .. Len(t.scopes)
    /\ u.chain[id] = <<s>> \o t.chain[id]
    /\ Elems(u.chain[id]) = Elems(t.chain[id]) \cup {s}
    /\ \A i \in AllIdents : i # id => u.chain[i] = t.chain[i]
    /\ Len(u.scopes) = Len(t.scopes)
    /\ \A i \in 1 .. Len(t.scopes) : u.scopes[i].next = t.scopes[i].next
    /\ Elems(u.scopes[sc].symbols) = Elems(t.scopes[sc].symbols) \cup {s}
    /\ \A i \in 1 .. Len(t.scopes) : i # sc => u.scopes[i] = t.scopes[i]

\* Only the chain of id and the list of scope sc get the new symbol.
LEMMA FreshParts ==
    ASSUME NEW t, t \in Table, NEW u, NEW id \in AllIdents, NEW s, NEW sc, Fresh(t, u, id, s, sc)
    PROVE  Parts(t, u, id, s, sc)
<1>1. s \in SymIds /\ t.sym[s].ns = "NONE" /\ sc \in 1 .. Len(t.scopes)
  BY DEF Fresh, Free
<1>2. u.chain[id] = <<s>> \o t.chain[id] /\ \A i \in AllIdents : i # id => u.chain[i] = t.chain[i]
  BY Fields DEF Fresh
<1>3. Elems(<<s>> \o t.chain[id]) = Elems(t.chain[id]) \cup {s}
  BY <1>1, Fields, Prepended
<1> DEFINE v == [t.scopes[sc] EXCEPT !.symbols = Append(@, s)]
<1>4. u.scopes = [t.scopes EXCEPT ![sc] = v]
  BY DEF Fresh
<1>5. t.scopes \in Seq(Scope) /\ t.scopes[sc] \in Scope
  BY <1>1, Fields
<1>6. v.next = t.scopes[sc].next /\ v.symbols = Append(t.scopes[sc].symbols, s)
  BY <1>5 DEF Scope
<1>7. Elems(Append(t.scopes[sc].symbols, s)) = Elems(t.scopes[sc].symbols) \cup {s}
  <2>1. t.scopes[sc].symbols \in Seq(SymIds)
    BY <1>5 DEF Scope
  <2> QED
    BY <1>1, <2>1, Appended
<1>8. v \in Scope
  <2>1. Append(t.scopes[sc].symbols, s) \in Seq(SymIds)
    BY <1>1, <1>5, Appended DEF Scope
  <2> QED
    BY <1>5, <2>1 DEF Scope
<1> HIDE DEF v
<1>9. Len(u.scopes) = Len(t.scopes)
      /\ \A i \in 1 .. Len(t.scopes) : u.scopes[i] = IF i = sc THEN v ELSE t.scopes[i]
  BY <1>1, <1>4, <1>5, <1>8, Replaced
<1> QED
  BY <1>1, <1>2, <1>3, <1>6, <1>7, <1>9 DEF Parts

\* With the new symbol, chains and lists still agree.
LEMMA FreshChained ==
    ASSUME NEW t, t \in Table, Chained(t), NEW u, NEW id \in AllIdents, NEW s, NEW sc,
           Fresh(t, u, id, s, sc)
    PROVE  Chained(u)
<1>0. Parts(t, u, id, s, sc)
  BY FreshParts
<1>1. /\ s \in SymIds /\ t.sym[s].ns = "NONE" /\ sc \in 1 .. Len(t.scopes)
      /\ u.chain[id] = <<s>> \o t.chain[id]
      /\ Elems(u.chain[id]) = Elems(t.chain[id]) \cup {s}
      /\ \A i \in AllIdents : i # id => u.chain[i] = t.chain[i]
      /\ Len(u.scopes) = Len(t.scopes)
      /\ Elems(u.scopes[sc].symbols) = Elems(t.scopes[sc].symbols) \cup {s}
      /\ \A i \in 1 .. Len(t.scopes) : i # sc => u.scopes[i] = t.scopes[i]
  BY <1>0 DEF Parts
<1>2. /\ \A r \in SymIds : r # s => u.sym[r] = t.sym[r]
      /\ u.sym[s].ident = id /\ u.sym[s].scope = sc /\ u.sym[s].ns # "NONE"
  BY DEF Fresh
<1>3. /\ \A i \in AllIdents : t.chain[i] \in Seq(SymIds)
      /\ \A i \in 1 .. Len(t.scopes) : t.scopes[i].symbols \in Seq(SymIds)
  <2>1. t.chain \in [AllIdents -> Seq(SymIds)] /\ t.scopes \in Seq(Scope)
    BY Fields
  <2>2. \A i \in 1 .. Len(t.scopes) : t.scopes[i] \in Scope
    BY <2>1
  <2> QED
    BY <2>1, <2>2 DEF Scope
<1>4. /\ \A i \in AllIdents : Elems(t.chain[i]) \subseteq SymIds \ {s}
      /\ \A i \in 1 .. Len(t.scopes) : Elems(t.scopes[i].symbols) \subseteq SymIds
  <2>1. \A i \in AllIdents : s \notin Elems(t.chain[i])
    BY <1>1 DEF Chained
  <2> QED
    BY <1>3, <2>1 DEF Elems
<1>5. \A i \in 1 .. Len(t.scopes) : s \notin Elems(t.scopes[i].symbols)
  <2>1. t.sym[s].ident \in AllIdents
    BY <1>1, Fields DEF Symbol
  <2> QED
    BY <1>4, <2>1 DEF Chained
<1>6. ASSUME NEW i \in AllIdents PROVE NoRepeat(u.chain[i])
  <2>1. CASE i # id
    BY <1>1, <2>1 DEF Chained
  <2>2. CASE i = id
    <3> DEFINE c == t.chain[id]
               q == <<s>> \o c
    <3>1. /\ Len(q) = Len(c) + 1 /\ q[1] = s
          /\ \A j \in 1 .. Len(c) + 1 : j = 1 \/ (j - 1 \in 1 .. Len(c) /\ q[j] = c[j - 1])
      BY <1>1, <1>3, Prepended
    <3>2. \A j \in 1 .. Len(c) : c[j] # s
      BY <1>4 DEF Elems
    <3>3. \A j, k \in 1 .. Len(c) : c[j] = c[k] => j = k
      BY DEF Chained, NoRepeat
    <3>4. u.chain[i] = q /\ Len(c) \in Nat
      BY <1>1, <1>3, <2>2
    <3> HIDE DEF q, c
    <3> SUFFICES ASSUME NEW j \in 1 .. Len(q), NEW k \in 1 .. Len(q), q[j] = q[k] PROVE j = k
      BY <3>4 DEF NoRepeat
    <3>5. j = 1 \/ (j - 1 \in 1 .. Len(c) /\ q[j] = c[j - 1])
      BY <3>1
    <3>6. k = 1 \/ (k - 1 \in 1 .. Len(c) /\ q[k] = c[k - 1])
      BY <3>1
    <3> QED
      BY <3>1, <3>2, <3>3, <3>4, <3>5, <3>6
  <2> QED
    BY <2>1, <2>2
<1>7. ASSUME NEW i \in AllIdents, NEW r \in Elems(u.chain[i])
      PROVE  /\ u.sym[r].ident = i /\ u.sym[r].ns # "NONE"
             /\ u.sym[r].scope \in 1 .. Len(u.scopes)
             /\ r \in Elems(u.scopes[u.sym[r].scope].symbols)
  <2>1. CASE r = s
    <3>1. i = id
      BY <1>1, <1>4, <2>1
    <3> QED
      BY <1>1, <1>2, <2>1, <3>1
  <2>2. CASE r # s
    <3>1. r \in Elems(t.chain[i]) /\ u.sym[r] = t.sym[r]
      BY <1>1, <1>2, <1>4, <2>2
    <3>2. /\ t.sym[r].ident = i /\ t.sym[r].ns # "NONE"
          /\ t.sym[r].scope \in 1 .. Len(t.scopes)
          /\ r \in Elems(t.scopes[t.sym[r].scope].symbols)
      BY <3>1 DEF Chained
    <3> QED
      BY <1>1, <3>1, <3>2
  <2> QED
    BY <2>1, <2>2
<1>8. ASSUME NEW i \in 1 .. Len(u.scopes), NEW r \in Elems(u.scopes[i].symbols)
      PROVE  u.sym[r].scope = i /\ r \in Elems(u.chain[u.sym[r].ident])
  <2>1. CASE r = s
    <3>1. i = sc
      BY <1>1, <1>5, <2>1
    <3> QED
      BY <1>1, <1>2, <2>1, <3>1
  <2>2. CASE r # s
    <3>1. r \in Elems(t.scopes[i].symbols) /\ i \in 1 .. Len(t.scopes)
      BY <1>1, <2>2
    <3>2. u.sym[r] = t.sym[r] /\ t.sym[r].ident \in AllIdents
      BY <1>2, <1>4, <2>2, <3>1, Fields DEF Symbol
    <3>3. t.sym[r].scope = i /\ r \in Elems(t.chain[t.sym[r].ident])
      BY <3>1 DEF Chained
    <3> QED
      BY <1>1, <3>2, <3>3
  <2> QED
    BY <2>1, <2>2
<1> QED
  BY <1>6, <1>7, <1>8 DEF Chained

\* Only the lists of symbols of scopes change.
SameScopes(t, u) ==
    /\ Len(u.scopes) = Len(t.scopes)
    /\ \A i \in 1 .. Len(t.scopes) : u.scopes[i].next = t.scopes[i].next
    /\ u.block_scope = t.block_scope /\ u.function_scope = t.function_scope
    /\ u.file_scope = t.file_scope

\* Where the scopes of what is open are.
LEMMA Within ==
    ASSUME NEW scopes, NEW file \in Nat, NEW op, NEW top \in Nat,
           op \in Seq({"function", "block"}),
           NEW P \in [0 .. Len(op) -> Nat], NEW F \in [0 .. Len(op) -> Nat],
           Levels(scopes, file, op, P, F), P[Len(op)] = top
    PROVE  \A i \in 0 .. Len(op) : P[i] \in file .. top /\ F[i] \in 1 .. P[i]
<1>1. Len(op) \in Nat /\ 0 \in 0 .. Len(op) /\ Len(op) \in 0 .. Len(op)
  OBVIOUS
<1> TAKE i \in 0 .. Len(op)
<1>2. P[i] \in Nat /\ F[i] \in 1 .. P[i]
  BY DEF Levels
<1>3. file <= P[i]
  <2>1. i = 0 \/ 0 < i
    BY <1>1
  <2> QED
    BY <1>1, <1>2, <2>1 DEF Levels
<1>4. P[i] <= top
  <2>1. i = Len(op) \/ i < Len(op)
    BY <1>1
  <2> QED
    BY <1>1, <1>2, <2>1 DEF Levels
<1> QED
  BY <1>2, <1>3, <1>4

\* Whatever the symbols of the scopes are, the same things are open.
LEMMA SameStacked ==
    ASSUME NEW t, t \in Table, NEW u, NEW op \in Seq({"function", "block"}), Stacked(t, op),
           SameScopes(t, u)
    PROVE  Stacked(u, op)
<1>1. PICK P, F \in [0 .. Len(op) -> Nat] :
         /\ Levels(t.scopes, t.file_scope, op, P, F)
         /\ P[Len(op)] = t.block_scope /\ F[Len(op)] = t.function_scope
  BY DEF Stacked, Leveled
<1>2. t.block_scope = Len(t.scopes) /\ Len(t.scopes) \in Nat /\ t.file_scope \in {1, 2}
  BY Fields DEF Stacked
<1>3. \A i \in 0 .. Len(op) : P[i] \in t.file_scope .. Len(t.scopes) /\ F[i] \in 1 .. P[i]
  BY <1>1, <1>2, Within
<1>4. \A i \in 0 .. Len(op) : P[i] \in 1 .. Len(t.scopes) /\ F[i] \in 1 .. Len(t.scopes)
  BY <1>2, <1>3
<1>5. \A i \in 1 .. Len(op) : i \in 0 .. Len(op)
  OBVIOUS
<1>6. Levels(u.scopes, u.file_scope, op, P, F)
  BY <1>1, <1>4, <1>5 DEF Levels, SameScopes
<1>7. u.scopes[u.file_scope].next = Builtin
  <2>1. 0 \in 0 .. Len(op) /\ P[0] = t.file_scope
    BY <1>1 DEF Levels
  <2>2. t.file_scope \in 1 .. Len(t.scopes)
    BY <1>4, <2>1
  <2> QED
    BY <2>2 DEF Stacked, SameScopes
<1> QED
  BY <1>1, <1>2, <1>6, <1>7 DEF Stacked, Leveled, SameScopes

\* A fresh symbol goes in front of those of its kind that it is to hide.
LEMMA FreshInner ==
    ASSUME NEW t, t \in Table, Inner(t), Chained(t), NEW u, NEW id \in AllIdents, NEW s, NEW sc,
           Fresh(t, u, id, s, sc),
           \A r \in Elems(t.chain[id]) :
              Class(t.sym[r].ns) = Class(u.sym[s].ns) /\ t.sym[r].scope > t.file_scope
                 => sc >= t.sym[r].scope
    PROVE  Inner(u)
<1>0. Parts(t, u, id, s, sc)
  BY FreshParts
<1>1. /\ s \in SymIds /\ t.sym[s].ns = "NONE"
      /\ u.chain[id] = <<s>> \o t.chain[id]
      /\ \A i \in AllIdents : i # id => u.chain[i] = t.chain[i]
  BY <1>0 DEF Parts
<1>2. /\ \A r \in SymIds : r # s => u.sym[r] = t.sym[r]
      /\ u.sym[s].scope = sc /\ u.file_scope = t.file_scope
  BY DEF Fresh
<1>3. \A i \in AllIdents : t.chain[i] \in Seq(SymIds)
  BY Fields
<1>4. \A i \in AllIdents : \A j \in 1 .. Len(t.chain[i]) :
         t.chain[i][j] \in Elems(t.chain[i]) /\ u.sym[t.chain[i][j]] = t.sym[t.chain[i][j]]
  <2>1. \A i \in AllIdents : \A j \in 1 .. Len(t.chain[i]) :
           t.chain[i][j] \in Elems(t.chain[i]) /\ t.chain[i][j] \in SymIds
    BY <1>3 DEF Elems
  <2>2. \A i \in AllIdents : s \notin Elems(t.chain[i])
    BY <1>1 DEF Chained
  <2> QED
    BY <1>2, <2>1, <2>2
<1> SUFFICES ASSUME NEW i \in AllIdents, NEW j \in 1 .. Len(u.chain[i]), NEW k \in 1 .. Len(u.chain[i]),
                    j < k, Class(u.sym[u.chain[i][j]].ns) = Class(u.sym[u.chain[i][k]].ns),
                    u.sym[u.chain[i][k]].scope > u.file_scope
             PROVE  u.sym[u.chain[i][j]].scope >= u.sym[u.chain[i][k]].scope
  BY DEF Inner
<1>5. CASE i # id
  <2>1. u.chain[i] = t.chain[i]
    BY <1>1, <1>5
  <2> QED
    <3> DEFINE a == t.chain[i][j]
               b == t.chain[i][k]
    <3>1. /\ u.chain[i][j] = a /\ u.sym[a] = t.sym[a] /\ u.chain[i][k] = b /\ u.sym[b] = t.sym[b]
          /\ j \in 1 .. Len(t.chain[i]) /\ k \in 1 .. Len(t.chain[i])
      BY <1>4, <2>1
    <3>2. Class(t.sym[a].ns) = Class(t.sym[b].ns) /\ t.sym[b].scope > t.file_scope
             => t.sym[a].scope >= t.sym[b].scope
      BY <3>1 DEF Inner
    <3> HIDE DEF a, b
    <3> QED
      BY <1>2, <3>1, <3>2
<1>6. CASE i = id
  <2> DEFINE c == t.chain[id]
             q == <<s>> \o c
  <2>1. /\ Len(q) = Len(c) + 1 /\ q[1] = s
        /\ \A l \in 1 .. Len(c) + 1 : l = 1 \/ (l - 1 \in 1 .. Len(c) /\ q[l] = c[l - 1])
    BY <1>1, <1>3, Prepended
  <2>2. u.chain[i] = q /\ Len(c) \in Nat
    BY <1>1, <1>3, <1>6
  <2>3. k - 1 \in 1 .. Len(c) /\ q[k] = c[k - 1]
    <3> HIDE DEF q, c
    <3> QED
      BY <2>1, <2>2
  <2>4. CASE j = 1
    <3>1. u.chain[i][j] = s
      BY <2>1, <2>2, <2>4
    <3> DEFINE r == c[k - 1]
    <3>2. u.chain[i][k] = r /\ r \in Elems(c) /\ u.sym[r] = t.sym[r]
      BY <1>4, <2>2, <2>3
    <3> QED
      BY <1>2, <3>1, <3>2
  <2>5. CASE j # 1
    <3>1. j - 1 \in 1 .. Len(c) /\ q[j] = c[j - 1] /\ j - 1 < k - 1
      <4> HIDE DEF q, c
      <4> QED
        BY <2>1, <2>2, <2>5
    <3> DEFINE a == c[j - 1]
               b == c[k - 1]
    <3>2. u.chain[i][j] = a /\ u.sym[a] = t.sym[a] /\ u.chain[i][k] = b /\ u.sym[b] = t.sym[b]
      BY <1>4, <2>2, <2>3, <3>1
    <3>3. Class(t.sym[a].ns) = Class(t.sym[b].ns) /\ t.sym[b].scope > t.file_scope
             => t.sym[a].scope >= t.sym[b].scope
      BY <2>3, <3>1 DEF Inner
    <3> HIDE DEF a, b
    <3> QED
      BY <1>2, <3>2, <3>3
  <2> QED
    BY <2>4, <2>5
<1> QED
  BY <1>5, <1>6

-----------------------------------------------------------------------------
\* A new scope is empty.
Pushed(t, u, up) ==
    /\ u.chain = t.chain /\ u.sym = t.sym /\ u.file_scope = t.file_scope
    /\ u.scopes = Append(t.scopes, [next |-> up, symbols |-> <<>>])

\* A scope that is pushed has no symbol, and leaves the other ones alone.
LEMMA PushParts ==
    ASSUME NEW t, t \in Table, NEW u, NEW up \in ScopeIds, Pushed(t, u, up)
    PROVE  /\ u.scopes \in Seq(Scope) /\ Len(u.scopes) = Len(t.scopes) + 1 /\ Len(t.scopes) \in Nat
           /\ \A i \in 1 .. Len(t.scopes) : u.scopes[i] = t.scopes[i] /\ i \in 1 .. Len(u.scopes)
           /\ u.scopes[Len(t.scopes) + 1].next = up /\ Elems(u.scopes[Len(t.scopes) + 1].symbols) = {}
<1> DEFINE v == [next |-> up, symbols |-> <<>>]
<1>1. v \in Scope /\ v.next = up
  BY DEF Scope
<1>2. Elems(v.symbols) = {}
  BY DEF Elems
<1>3. t.scopes \in Seq(Scope) /\ u.scopes = Append(t.scopes, v)
  BY Fields DEF Pushed
<1> HIDE DEF v
<1>4. Append(t.scopes, v) \in Seq(Scope) /\ Len(Append(t.scopes, v)) = Len(t.scopes) + 1
  BY <1>1, <1>3
<1>5. \A i \in 1 .. Len(t.scopes) : Append(t.scopes, v)[i] = t.scopes[i] /\ i \in 1 .. Len(t.scopes) + 1
  BY <1>1, <1>3
<1>6. Append(t.scopes, v)[Len(t.scopes) + 1] = v
  BY <1>1, <1>3
<1>7. Len(t.scopes) \in Nat
  BY <1>3
<1> QED
  BY <1>1, <1>2, <1>3, <1>4, <1>5, <1>6, <1>7

\* So it changes no chain, and no list.
LEMMA PushChained ==
    ASSUME NEW t, t \in Table, Chained(t), Inner(t), NEW u, NEW up \in ScopeIds, Pushed(t, u, up)
    PROVE  Chained(u) /\ Inner(u)
<1>1. /\ Len(u.scopes) = Len(t.scopes) + 1 /\ Len(t.scopes) \in Nat
      /\ \A i \in 1 .. Len(t.scopes) : u.scopes[i] = t.scopes[i] /\ i \in 1 .. Len(u.scopes)
      /\ Elems(u.scopes[Len(t.scopes) + 1].symbols) = {}
  BY PushParts
<1>2. u.chain = t.chain /\ u.sym = t.sym /\ u.file_scope = t.file_scope
  BY DEF Pushed
<1>3. \A i \in 1 .. Len(u.scopes) : i = Len(t.scopes) + 1 \/ i \in 1 .. Len(t.scopes)
  BY <1>1
<1>4. \A id \in AllIdents : \A s \in Elems(u.chain[id]) :
        /\ u.sym[s].ident = id /\ u.sym[s].ns # "NONE"
        /\ u.sym[s].scope \in 1 .. Len(u.scopes)
        /\ s \in Elems(u.scopes[u.sym[s].scope].symbols)
  <2> SUFFICES ASSUME NEW id \in AllIdents, NEW s \in Elems(t.chain[id])
               PROVE  /\ t.sym[s].ident = id /\ t.sym[s].ns # "NONE"
                      /\ t.sym[s].scope \in 1 .. Len(u.scopes)
                      /\ s \in Elems(u.scopes[t.sym[s].scope].symbols)
    BY <1>2
  <2>1. /\ t.sym[s].ident = id /\ t.sym[s].ns # "NONE"
        /\ t.sym[s].scope \in 1 .. Len(t.scopes)
        /\ s \in Elems(t.scopes[t.sym[s].scope].symbols)
    BY DEF Chained
  <2> QED
    BY <1>1, <2>1
<1>5. \A sc \in 1 .. Len(u.scopes) : \A s \in Elems(u.scopes[sc].symbols) :
        u.sym[s].scope = sc /\ s \in Elems(u.chain[u.sym[s].ident])
  <2> SUFFICES ASSUME NEW sc \in 1 .. Len(u.scopes), NEW s \in Elems(u.scopes[sc].symbols)
               PROVE  t.sym[s].scope = sc /\ s \in Elems(t.chain[t.sym[s].ident])
    BY <1>2
  <2>1. sc \in 1 .. Len(t.scopes) /\ s \in Elems(t.scopes[sc].symbols)
    BY <1>1, <1>3
  <2> QED
    BY <2>1 DEF Chained
<1> QED
  BY <1>2, <1>4, <1>5 DEF Chained, Inner

\* The first n elements.
LEMMA Front ==
    ASSUME NEW K, NEW c \in Seq(K), NEW n \in Nat, n <= Len(c)
    PROVE  LET q == SubSeq(c, 1, n)
           IN  q \in Seq(K) /\ Len(q) = n /\ \A i \in 1 .. n : q[i] = c[i]
<1>1. SubSeq(c, 1, n) \in Seq(K)
  OBVIOUS
<1>2. Len(SubSeq(c, 1, n)) = n
  OBVIOUS
<1>3. \A i \in 1 .. n : SubSeq(c, 1, n)[i] = c[i]
  OBVIOUS
<1> QED
  BY <1>1, <1>2, <1>3

\* What is open grows or shrinks at its end.
LEMMA OpenSeq ==
    ASSUME NEW op \in Seq({"function", "block"}), NEW o \in {"function", "block"}
    PROVE  LET oq == Append(op, o)
           IN  /\ oq \in Seq({"function", "block"}) /\ Len(oq) = Len(op) + 1 /\ Len(op) \in Nat
               /\ oq[Len(op) + 1] = o /\ \A i \in 1 .. Len(op) : oq[i] = op[i]
OBVIOUS

\* And what is open without the innermost.
LEMMA CloseSeq ==
    ASSUME NEW op \in Seq({"function", "block"}), op # <<>>
    PROVE  LET oq == SubSeq(op, 1, Len(op) - 1)
           IN  /\ oq \in Seq({"function", "block"}) /\ Len(oq) = Len(op) - 1 /\ Len(oq) \in Nat
               /\ Len(op) \in 1 .. Len(op) /\ \A i \in 1 .. Len(oq) : oq[i] = op[i]
<1>1. Len(op) \in Nat /\ Len(op) # 0
  OBVIOUS
<1>2. Len(op) - 1 \in Nat /\ Len(op) - 1 <= Len(op)
  BY <1>1
<1> DEFINE oq == SubSeq(op, 1, Len(op) - 1)
<1>3. /\ oq \in Seq({"function", "block"}) /\ Len(oq) = Len(op) - 1
      /\ \A i \in 1 .. Len(op) - 1 : oq[i] = op[i]
  BY <1>2, Front
<1> HIDE DEF oq
<1>4. Len(op) \in 1 .. Len(op)
  BY <1>1
<1>5. oq \in Seq({"function", "block"}) /\ Len(oq) = Len(op) - 1 /\ Len(oq) \in Nat
      /\ \A i \in 1 .. Len(oq) : oq[i] = op[i]
  BY <1>2, <1>3
<1> QED
  BY <1>4, <1>5 DEF oq

\* One level more, with the scopes p of the block and f of the function.
Opens(scopes, more, n, fn, o, p, f) ==
    /\ \A i \in 1 .. n : more[i].next = scopes[i].next
    /\ more[p].next = n
    /\ o = "function" => p = n + 2 /\ f = n + 1 /\ more[f].next = fn
    /\ o = "block" => p = n + 1 /\ f = fn

\* Opening something puts its scopes, one or two, on top of the others.
LEMMA OneLevelMore ==
    ASSUME NEW scopes, NEW more, NEW n \in Nat, NEW fn, NEW file \in {1, 2},
           NEW op \in Seq({"function", "block"}), NEW o \in {"function", "block"},
           NEW p \in Nat, NEW f \in Nat,
           Leveled(scopes, file, op, n, fn), Opens(scopes, more, n, fn, o, p, f)
    PROVE  Leveled(more, file, Append(op, o), p, f)
<1>a. PICK P, F \in [0 .. Len(op) -> Nat] :
         Levels(scopes, file, op, P, F) /\ P[Len(op)] = n /\ F[Len(op)] = fn
  BY DEF Leveled
<1>b. /\ \A i \in 1 .. n : more[i].next = scopes[i].next
      /\ more[p].next = n
      /\ o = "function" => p = n + 2 /\ f = n + 1 /\ more[f].next = F[Len(op)]
      /\ o = "block" => p = n + 1 /\ f = F[Len(op)]
  BY <1>a DEF Opens
<1> DEFINE m == Len(op) + 1
           oq == Append(op, o)
           Q == [i \in 0 .. m |-> IF i = m THEN p ELSE P[i]]
           G == [i \in 0 .. m |-> IF i = m THEN f ELSE F[i]]
<1>1. /\ Len(oq) = m /\ Len(op) \in Nat /\ m \in Nat /\ m - 1 = Len(op)
      /\ oq[m] = o /\ \A i \in 1 .. Len(op) : oq[i] = op[i]
  BY OpenSeq
<1> HIDE DEF oq
<1>2. \A i \in 0 .. Len(op) : P[i] \in file .. n /\ F[i] \in 1 .. P[i]
  <2>1. file \in Nat
    OBVIOUS
  <2> HIDE DEF Q, G, m
  <2> QED
    BY <2>1, <1>a, Within
<1>3. p > n /\ f \in 1 .. p
  <2>1. F[Len(op)] \in 1 .. n
    BY <1>1, <1>2, <1>a
  <2> QED
    BY <2>1, <1>b
<1>4. Q \in [0 .. m -> Nat] /\ G \in [0 .. m -> Nat] /\ Q[m] = p /\ G[m] = f
      /\ \A i \in 0 .. Len(op) : Q[i] = P[i] /\ G[i] = F[i] /\ i \in 0 .. m /\ i # m
  BY <1>1
<1>5. \A i \in 0 .. m : i = m \/ i \in 0 .. Len(op)
  BY <1>1
<1>6. \A i \in 1 .. m : i = m \/ i \in 1 .. Len(op)
  BY <1>1
<1>7. \A i \in 1 .. Len(op) : i \in 0 .. Len(op) /\ i - 1 \in 0 .. Len(op)
  BY <1>1
<1>8. P[0] = file /\ F[0] = file /\ 0 \in 0 .. Len(op) /\ Len(op) \in 0 .. Len(op)
  BY <1>1, <1>a DEF Levels
<1> HIDE DEF Q, G, m
<1>9. \A i, j \in 0 .. m : i < j => Q[i] < Q[j]
  <2> SUFFICES ASSUME NEW i \in 0 .. m, NEW j \in 0 .. m, i < j PROVE Q[i] < Q[j]
    OBVIOUS
  <2>1. i \in 0 .. Len(op)
    BY <1>1
  <2>2. CASE j = m
    <3>1. P[i] \in Nat /\ P[i] <= n
      BY <1>2, <2>1
    <3> QED
      BY <1>3, <1>4, <2>1, <2>2, <3>1
  <2>3. CASE j \in 0 .. Len(op)
    BY <1>a, <1>4, <2>1, <2>3 DEF Levels
  <2> QED
    BY <1>5, <2>2, <2>3
<1>10. \A i \in 0 .. m : G[i] \in 1 .. Q[i]
  BY <1>2, <1>3, <1>4, <1>5
<1>11. \A i \in 1 .. m : more[Q[i]].next = Q[i - 1]
  <2> TAKE i \in 1 .. m
  <2>1. CASE i = m
    BY <1>1, <1>4, <1>8, <2>1, <1>a, <1>b
  <2>2. CASE i \in 1 .. Len(op)
    <3>1. scopes[P[i]].next = P[i - 1] /\ Q[i] = P[i] /\ Q[i - 1] = P[i - 1]
      BY <1>a, <1>4, <1>7, <2>2 DEF Levels
    <3>2. P[i] \in 1 .. n
      BY <1>2, <1>7, <2>2
    <3> QED
      BY <3>1, <3>2, <1>b
  <2> QED
    BY <1>6, <2>1, <2>2
<1>12. \A i \in 1 .. m : oq[i] = "function" =>
          Q[i] = Q[i - 1] + 2 /\ G[i] = Q[i - 1] + 1 /\ more[G[i]].next = G[i - 1]
  <2> SUFFICES ASSUME NEW i \in 1 .. m, oq[i] = "function"
               PROVE  Q[i] = Q[i - 1] + 2 /\ G[i] = Q[i - 1] + 1 /\ more[G[i]].next = G[i - 1]
    OBVIOUS
  <2>1. CASE i = m
    BY <1>1, <1>4, <1>8, <2>1, <1>a, <1>b
  <2>2. CASE i \in 1 .. Len(op)
    <3>1. P[i] = P[i - 1] + 2 /\ F[i] = P[i - 1] + 1 /\ scopes[F[i]].next = F[i - 1]
      BY <1>a, <1>1, <2>2 DEF Levels
    <3>2. /\ Q[i] = P[i] /\ Q[i - 1] = P[i - 1] /\ G[i] = F[i] /\ G[i - 1] = F[i - 1]
          /\ F[i] \in 1 .. P[i] /\ P[i] \in file .. n
      BY <1>2, <1>4, <1>7, <2>2
    <3>3. F[i] \in 1 .. n
      BY <3>2
    <3> QED
      BY <3>1, <3>2, <3>3, <1>b
  <2> QED
    BY <1>6, <2>1, <2>2
<1>13. \A i \in 1 .. m : oq[i] = "block" => Q[i] = Q[i - 1] + 1 /\ G[i] = G[i - 1]
  <2> SUFFICES ASSUME NEW i \in 1 .. m, oq[i] = "block"
               PROVE  Q[i] = Q[i - 1] + 1 /\ G[i] = G[i - 1]
    OBVIOUS
  <2>1. CASE i = m
    BY <1>1, <1>4, <1>8, <2>1, <1>a, <1>b
  <2>2. CASE i \in 1 .. Len(op)
    <3>1. P[i] = P[i - 1] + 1 /\ F[i] = F[i - 1]
      BY <1>a, <1>1, <2>2 DEF Levels
    <3> QED
      BY <1>4, <1>7, <2>2, <3>1
  <2> QED
    BY <1>6, <2>1, <2>2
<1>14. Levels(more, file, oq, Q, G)
  BY <1>1, <1>4, <1>8, <1>9, <1>10, <1>11, <1>12, <1>13 DEF Levels
<1> QED
  BY <1>1, <1>4, <1>14 DEF Leveled, m, oq

\* And one less: pn and fp are the scopes that are left.
Closes(scopes, op, n, fn, pn, fp) ==
    /\ scopes[n].next = pn
    /\ op[Len(op)] = "function" => pn = n - 2 /\ fn = n - 1 /\ scopes[fn].next = fp
    /\ op[Len(op)] = "block" => pn = n - 1 /\ fp = fn

Outer(scopes, file, oq, pn, fp) ==
    /\ pn >= file /\ fp >= 1 /\ fp <= pn
    /\ \A less : (\A i \in 1 .. pn : less[i].next = scopes[i].next) => Leveled(less, file, oq, pn, fp)

\* The other way round: where ending the innermost thing leads.
LEMMA OneLevelLess ==
    ASSUME NEW scopes, NEW file \in {1, 2}, NEW op \in Seq({"function", "block"}), op # <<>>,
           NEW n \in Nat, NEW fn, Leveled(scopes, file, op, n, fn)
    PROVE  \E pn, fp \in Nat : /\ Closes(scopes, op, n, fn, pn, fp)
                               /\ Outer(scopes, file, SubSeq(op, 1, Len(op) - 1), pn, fp)
<1>a. PICK P, F \in [0 .. Len(op) -> Nat] :
         Levels(scopes, file, op, P, F) /\ P[Len(op)] = n /\ F[Len(op)] = fn
  BY DEF Leveled
<1> DEFINE oq == SubSeq(op, 1, Len(op) - 1)
           m == P[Len(op) - 1]
           Q == [i \in 0 .. Len(oq) |-> P[i]]
           G == [i \in 0 .. Len(oq) |-> F[i]]
<1>1. /\ Len(oq) = Len(op) - 1 /\ Len(oq) \in Nat /\ Len(op) \in Nat
      /\ \A i \in 1 .. Len(oq) : oq[i] = op[i]
  BY CloseSeq
<1> HIDE DEF oq
<1>2. \A i \in 0 .. Len(oq) : i \in 0 .. Len(op) /\ Q[i] = P[i] /\ G[i] = F[i]
  BY <1>1
<1>3. \A i \in 1 .. Len(oq) : i \in 0 .. Len(oq) /\ i - 1 \in 0 .. Len(oq) /\ i \in 1 .. Len(op)
  BY <1>1
<1>4. Q \in [0 .. Len(oq) -> Nat] /\ G \in [0 .. Len(oq) -> Nat]
  BY <1>2
<1> HIDE DEF Q, G
<1>5. 0 \in 0 .. Len(oq) /\ Len(oq) \in 0 .. Len(oq) /\ Q[Len(oq)] = m /\ m \in Nat
  <2>1. 0 \in 0 .. Len(oq) /\ Len(oq) \in 0 .. Len(oq)
    BY <1>1
  <2>2. Len(op) - 1 \in 0 .. Len(op)
    BY <1>1
  <2>3. m \in Nat
    BY <2>2
  <2>4. Q[Len(oq)] = P[Len(oq)]
    BY <1>2, <2>1
  <2> QED
    BY <1>1, <2>1, <2>3, <2>4
<1>6. \A i, j \in 0 .. Len(oq) : i < j => Q[i] < Q[j]
  BY <1>a, <1>2 DEF Levels
<1>7. \A i \in 0 .. Len(oq) : G[i] \in 1 .. Q[i] /\ Q[i] \in 1 .. m
  <2> SUFFICES ASSUME NEW i \in 0 .. Len(oq) PROVE G[i] \in 1 .. Q[i] /\ Q[i] \in 1 .. m
    OBVIOUS
  <2>1. G[i] \in 1 .. Q[i] /\ Q[i] \in Nat
    BY <1>a, <1>2 DEF Levels
  <2>2. i = Len(oq) \/ i < Len(oq)
    BY <1>1
  <2>3. Q[i] <= m
    BY <1>5, <1>6, <2>1, <2>2
  <2> QED
    BY <1>5, <2>1, <2>3
<1>8. \A i \in 0 .. Len(oq) : G[i] \in 1 .. m
  BY <1>5, <1>7
<1> HIDE DEF m
<1>9. ASSUME NEW less, \A i \in 1 .. m : less[i].next = scopes[i].next
      PROVE  Leveled(less, file, oq, m, F[Len(op) - 1])
  <2>9. \A i \in 1 .. m : less[i].next = scopes[i].next
    BY <1>9
  <2>10. \A i \in 1 .. Len(oq) : less[Q[i]].next = Q[i - 1]
    BY <1>a, <1>2, <1>3, <1>7, <2>9 DEF Levels
  <2>11. \A i \in 1 .. Len(oq) : oq[i] = "function" =>
            Q[i] = Q[i - 1] + 2 /\ G[i] = Q[i - 1] + 1 /\ less[G[i]].next = G[i - 1]
    <3> SUFFICES ASSUME NEW i \in 1 .. Len(oq), oq[i] = "function"
                 PROVE  Q[i] = Q[i - 1] + 2 /\ G[i] = Q[i - 1] + 1 /\ less[G[i]].next = G[i - 1]
      OBVIOUS
    <3>1. i \in 1 .. Len(op) /\ op[i] = "function"
      BY <1>1, <1>3
    <3>2. P[i] = P[i - 1] + 2 /\ F[i] = P[i - 1] + 1 /\ scopes[F[i]].next = F[i - 1]
      BY <1>a, <3>1 DEF Levels
    <3>3. Q[i] = P[i] /\ Q[i - 1] = P[i - 1] /\ G[i] = F[i] /\ G[i - 1] = F[i - 1]
      BY <1>2, <1>3
    <3>4. G[i] \in 1 .. m
      BY <1>3, <1>8
    <3> QED
      BY <2>9, <3>2, <3>3, <3>4
  <2>12. \A i \in 1 .. Len(oq) : oq[i] = "block" => Q[i] = Q[i - 1] + 1 /\ G[i] = G[i - 1]
    BY <1>a, <1>1, <1>2, <1>3 DEF Levels
  <2>13. Q[0] = file /\ G[0] = file
    BY <1>a, <1>2, <1>5 DEF Levels
  <2>14. Levels(less, file, oq, Q, G)
    BY <1>6, <1>7, <2>10, <2>11, <2>12, <2>13 DEF Levels
  <2>15. G[Len(oq)] = F[Len(op) - 1]
    BY <1>1, <1>2, <1>5
  <2> QED
    BY <1>4, <1>5, <2>14, <2>15 DEF Leveled
<1>10. Len(op) \in 1 .. Len(op) /\ Len(op) - 1 \in 0 .. Len(op) /\ 0 \in 0 .. Len(op)
  BY <1>1
<1>11. Closes(scopes, op, n, fn, m, F[Len(op) - 1])
  <2>1. scopes[n].next = m
    BY <1>a, <1>10 DEF Levels, m
  <2>2. op[Len(op)] = "function" => m = n - 2 /\ fn = n - 1 /\ scopes[fn].next = F[Len(op) - 1]
    <3> SUFFICES ASSUME op[Len(op)] = "function"
                 PROVE  m = n - 2 /\ fn = n - 1 /\ scopes[fn].next = F[Len(op) - 1]
      OBVIOUS
    <3>1. n = m + 2 /\ fn = m + 1 /\ scopes[fn].next = F[Len(op) - 1]
      BY <1>a, <1>10 DEF Levels, m
    <3> QED
      BY <1>5, <3>1
  <2>3. op[Len(op)] = "block" => m = n - 1 /\ F[Len(op) - 1] = fn
    <3> SUFFICES ASSUME op[Len(op)] = "block" PROVE m = n - 1 /\ F[Len(op) - 1] = fn
      OBVIOUS
    <3>1. n = m + 1 /\ fn = F[Len(op) - 1]
      BY <1>a, <1>10 DEF Levels, m
    <3> QED
      BY <1>5, <3>1
  <2> QED
    BY <2>1, <2>2, <2>3 DEF Closes
<1>12. F[Len(op) - 1] \in Nat /\ F[Len(op) - 1] >= 1 /\ F[Len(op) - 1] <= m
  <2>1. F[Len(op) - 1] \in 1 .. m
    BY <1>a, <1>10 DEF Levels, m
  <2> QED
    BY <1>5, <2>1
<1>13. m >= file
  <2>1. Len(op) - 1 = 0 \/ 0 < Len(op) - 1
    BY <1>1
  <2>2. P[0] = file /\ file \in Nat
    BY <1>a DEF Levels
  <2> QED
    BY <1>a, <1>5, <1>10, <2>1, <2>2 DEF Levels, m
<1>14. Outer(scopes, file, oq, m, F[Len(op) - 1])
  BY <1>9, <1>12, <1>13 DEF Outer
<1> QED
  BY <1>5, <1>11, <1>12, <1>14 DEF oq

-----------------------------------------------------------------------------
\* end_scope is called for the innermost scope: it and its symbols are gone.
Ended(t, u, sc) ==
    /\ u.scopes = SubSeq(t.scopes, 1, sc - 1)
    /\ u.chain = [i \in AllIdents |-> Kept(t.chain[i], Elems(t.scopes[sc].symbols))]
    /\ \A s \in SymIds : s \notin Elems(t.scopes[sc].symbols) => u.sym[s] = t.sym[s]

\* end_scope, field by field.
LEMMA EndScope ==
    ASSUME NEW t, t \in Table, NEW sc \in 1 .. Len(t.scopes)
    PROVE  LET u == end_scope(t, sc)
           IN  /\ u \in Table /\ Ended(t, u, sc)
               /\ u.block_scope = t.block_scope /\ u.function_scope = t.function_scope
               /\ u.file_scope = t.file_scope
<1> DEFINE u == end_scope(t, sc)
           gone == Elems(t.scopes[sc].symbols)
           chain == [i \in AllIdents |-> Kept(t.chain[i], gone)]
           sym == [s \in SymIds |-> IF s \in gone THEN Unbound ELSE t.sym[s]]
           scopes == SubSeq(t.scopes, 1, sc - 1)
<1>1. u = [t EXCEPT !.chain = chain, !.sym = sym, !.scopes = scopes]
  BY Fields DEF end_scope
<1>2. chain \in [AllIdents -> Seq(SymIds)]
  <2> HIDE DEF gone
  <2>1. \A i \in AllIdents : t.chain[i] \in Seq(SymIds)
    BY Fields
  <2>2. \A i \in AllIdents : Kept(t.chain[i], gone) \in Seq(SymIds)
    BY <2>1, KeptPicks
  <2> QED
    BY <2>2
<1>3. sym \in [SymIds -> Symbol]
  <2> HIDE DEF gone
  <2>1. Unbound \in Symbol
    BY DEF Unbound, SymbolOf, Symbol, AllIdents, ParserIdents, Namespaces
  <2>2. \A s \in SymIds : t.sym[s] \in Symbol
    BY Fields
  <2> QED
    BY <2>1, <2>2
<1>4. scopes \in Seq(Scope)
  <2>1. t.scopes \in Seq(Scope) /\ Len(t.scopes) \in Nat
    BY Fields
  <2>2. sc - 1 \in Nat /\ sc - 1 <= Len(t.scopes)
    BY <2>1
  <2> QED
    BY <2>1, <2>2, Front
<1>5. \A s \in SymIds : s \notin gone => sym[s] = t.sym[s]
  OBVIOUS
<1> HIDE DEF u, chain, sym, scopes
<1>6. /\ u.chain = chain /\ u.sym = sym /\ u.scopes = scopes
      /\ u.block_scope = t.block_scope /\ u.function_scope = t.function_scope
      /\ u.file_scope = t.file_scope
  BY <1>1, Fields
<1>7. u \in Table
  BY <1>1, <1>2, <1>3, <1>4, Fields DEF Table
<1>8. Ended(t, u, sc)
  BY <1>5, <1>6 DEF Ended, chain, scopes
<1> QED
  BY <1>6, <1>7, <1>8 DEF u

\* What is kept of the chains is as it was.
KeptParts(t, u, sc, gone) ==
    /\ \A id \in AllIdents :
          /\ \E k : Picks(k, u.chain[id], t.chain[id], Len(t.chain[id]), gone)
          /\ u.chain[id] \in Seq(SymIds)
          /\ Elems(u.chain[id]) = Elems(t.chain[id]) \ gone
    /\ Len(u.scopes) = sc - 1 /\ \A i \in 1 .. sc - 1 : u.scopes[i] = t.scopes[i]

\* Every chain keeps what was not in the scope, in its order.
LEMMA EndedParts ==
    ASSUME NEW t, t \in Table, NEW u, NEW sc \in 1 .. Len(t.scopes), Ended(t, u, sc)
    PROVE  KeptParts(t, u, sc, Elems(t.scopes[sc].symbols))
<1> DEFINE gone == Elems(t.scopes[sc].symbols)
<1>1. ASSUME NEW id \in AllIdents
      PROVE  /\ \E k : Picks(k, u.chain[id], t.chain[id], Len(t.chain[id]), gone)
             /\ u.chain[id] \in Seq(SymIds)
             /\ Elems(u.chain[id]) = Elems(t.chain[id]) \ gone
  <2>1. t.chain[id] \in Seq(SymIds) /\ u.chain[id] = Kept(t.chain[id], gone)
    BY Fields DEF Ended
  <2> HIDE DEF gone
  <2>2. u.chain[id] \in Seq(SymIds)
        /\ \E k : Picks(k, u.chain[id], t.chain[id], Len(t.chain[id]), gone)
    BY <2>1, KeptPicks
  <2>3. PICK k : Picks(k, u.chain[id], t.chain[id], Len(t.chain[id]), gone)
    BY <2>2
  <2>4. Elems(u.chain[id]) \subseteq Elems(t.chain[id]) \ gone
    <3> SUFFICES ASSUME NEW i \in 1 .. Len(u.chain[id])
                 PROVE  u.chain[id][i] \in Elems(t.chain[id]) \ gone
      BY DEF Elems
    <3> QED
      BY <2>3 DEF Picks, Elems
  <2>5. Elems(t.chain[id]) \ gone \subseteq Elems(u.chain[id])
    <3> SUFFICES ASSUME NEW m \in 1 .. Len(t.chain[id]), t.chain[id][m] \notin gone
                 PROVE  t.chain[id][m] \in Elems(u.chain[id])
      BY DEF Elems
    <3>1. PICK i \in 1 .. Len(u.chain[id]) : k[i] = m
      BY <2>3 DEF Picks
    <3> QED
      BY <2>3, <3>1 DEF Picks, Elems
  <2> QED
    BY <2>2, <2>4, <2>5
<1>2. Len(u.scopes) = sc - 1 /\ \A i \in 1 .. sc - 1 : u.scopes[i] = t.scopes[i]
  <2>1. t.scopes \in Seq(Scope) /\ Len(t.scopes) \in Nat
    BY Fields
  <2>2. sc - 1 \in Nat /\ sc - 1 <= Len(t.scopes)
    BY <2>1
  <2>3. u.scopes = SubSeq(t.scopes, 1, sc - 1)
    BY DEF Ended
  <2> QED
    BY <2>1, <2>2, <2>3, Front
<1> QED
  BY <1>1, <1>2 DEF KeptParts

\* Ending the last scope, chains and lists still agree.
LEMMA EndedChained ==
    ASSUME NEW t, t \in Table, NEW u, NEW sc \in 1 .. Len(t.scopes), Ended(t, u, sc),
           Chained(t), sc = Len(t.scopes)
    PROVE  Chained(u)
<1> DEFINE gone == Elems(t.scopes[sc].symbols)
<1>0. KeptParts(t, u, sc, gone)
  BY EndedParts
<1>1. /\ \A id \in AllIdents :
            /\ \E k : Picks(k, u.chain[id], t.chain[id], Len(t.chain[id]), gone)
            /\ u.chain[id] \in Seq(SymIds)
            /\ Elems(u.chain[id]) = Elems(t.chain[id]) \ gone
      /\ Len(u.scopes) = sc - 1 /\ \A i \in 1 .. sc - 1 : u.scopes[i] = t.scopes[i]
  <2> HIDE DEF gone
  <2> QED
    BY <1>0 DEF KeptParts
<1>2. \A s \in SymIds : s \notin gone => u.sym[s] = t.sym[s]
  BY DEF Ended
<1>3. \A s \in gone : t.sym[s].scope = sc
  BY DEF Chained
<1> HIDE DEF gone
<1>4. ASSUME NEW id \in AllIdents PROVE NoRepeat(u.chain[id])
  <2> DEFINE c == t.chain[id]
             r == u.chain[id]
  <2>1. PICK k : Picks(k, r, c, Len(c), gone)
    BY <1>1
  <2>2. NoRepeat(c)
    BY DEF Chained
  <2>3. r \in Seq(SymIds)
    BY <1>1
  <2> HIDE DEF c, r
  <2> SUFFICES ASSUME NEW i \in 1 .. Len(r), NEW j \in 1 .. Len(r), r[i] = r[j] PROVE i = j
    BY DEF NoRepeat, r
  <2>4. k[i] \in 1 .. Len(c) /\ k[j] \in 1 .. Len(c) /\ c[k[i]] = c[k[j]]
    BY <2>1 DEF Picks
  <2>5. k[i] = k[j]
    BY <2>2, <2>4 DEF NoRepeat
  <2>6. ~(k[i] < k[j]) /\ ~(k[j] < k[i])
    BY <2>4, <2>5
  <2>7. ~(i < j) /\ ~(j < i)
    BY <2>1, <2>6 DEF Picks
  <2> QED
    BY <2>7
<1>5. ASSUME NEW id \in AllIdents, NEW s \in Elems(u.chain[id])
      PROVE  /\ u.sym[s].ident = id /\ u.sym[s].ns # "NONE"
             /\ u.sym[s].scope \in 1 .. Len(u.scopes)
             /\ s \in Elems(u.scopes[u.sym[s].scope].symbols)
  <2>1. s \in Elems(t.chain[id]) /\ s \notin gone
    BY <1>1
  <2>2. s \in SymIds
    <3>1. t.chain[id] \in Seq(SymIds)
      BY Fields
    <3> QED
      BY <2>1, <3>1 DEF Elems
  <2>3. /\ t.sym[s].ident = id /\ t.sym[s].ns # "NONE"
        /\ t.sym[s].scope \in 1 .. Len(t.scopes)
        /\ s \in Elems(t.scopes[t.sym[s].scope].symbols)
    BY <2>1 DEF Chained
  <2>4. t.sym[s].scope # sc
    BY <2>1, <2>3 DEF gone
  <2>5. t.sym[s].scope \in 1 .. sc - 1
    BY <2>3, <2>4
  <2>6. u.sym[s] = t.sym[s]
    BY <1>2, <2>1, <2>2
  <2> QED
    BY <1>1, <2>3, <2>5, <2>6
<1>6. ASSUME NEW i \in 1 .. Len(u.scopes), NEW s \in Elems(u.scopes[i].symbols)
      PROVE  u.sym[s].scope = i /\ s \in Elems(u.chain[u.sym[s].ident])
  <2>1. i \in 1 .. sc - 1 /\ i \in 1 .. Len(t.scopes) /\ i # sc /\ u.scopes[i] = t.scopes[i]
    BY <1>1
  <2>2. t.sym[s].scope = i /\ s \in Elems(t.chain[t.sym[s].ident])
    BY <2>1 DEF Chained
  <2>3. s \notin gone
    BY <1>3, <2>1, <2>2
  <2>4. s \in SymIds
    <3>1. t.scopes[i] \in Scope
      BY <2>1, Fields
    <3>2. t.scopes[i].symbols \in Seq(SymIds)
      BY <3>1 DEF Scope
    <3> QED
      BY <2>1, <3>2 DEF Elems
  <2>5. u.sym[s] = t.sym[s] /\ t.sym[s].ident \in AllIdents
    BY <1>2, <2>3, <2>4, Fields DEF Symbol
  <2> QED
    BY <1>1, <2>2, <2>3, <2>5
<1> QED
  BY <1>4, <1>5, <1>6 DEF Chained

\* And of those that are left, the inner ones still come first.
LEMMA EndedInner ==
    ASSUME NEW t, t \in Table, NEW u, NEW sc \in 1 .. Len(t.scopes), Ended(t, u, sc),
           Inner(t), u.file_scope = t.file_scope
    PROVE  Inner(u)
<1> DEFINE gone == Elems(t.scopes[sc].symbols)
<1>0. KeptParts(t, u, sc, gone)
  BY EndedParts
<1>1. \A id \in AllIdents : \E k : Picks(k, u.chain[id], t.chain[id], Len(t.chain[id]), gone)
  <2> HIDE DEF gone
  <2> QED
    BY <1>0 DEF KeptParts
<1>2. \A s \in SymIds : s \notin gone => u.sym[s] = t.sym[s]
  BY DEF Ended
<1> HIDE DEF gone
<1> SUFFICES ASSUME NEW id \in AllIdents, NEW i \in 1 .. Len(u.chain[id]), NEW j \in 1 .. Len(u.chain[id]),
                    i < j, Class(u.sym[u.chain[id][i]].ns) = Class(u.sym[u.chain[id][j]].ns),
                    u.sym[u.chain[id][j]].scope > u.file_scope
             PROVE  u.sym[u.chain[id][i]].scope >= u.sym[u.chain[id][j]].scope
  BY DEF Inner
<1>3. PICK k : Picks(k, u.chain[id], t.chain[id], Len(t.chain[id]), gone)
  BY <1>1
<1> DEFINE a == u.chain[id][i]
           b == u.chain[id][j]
<1>4. /\ k[i] \in 1 .. Len(t.chain[id]) /\ k[j] \in 1 .. Len(t.chain[id]) /\ k[i] < k[j]
      /\ a = t.chain[id][k[i]] /\ b = t.chain[id][k[j]] /\ a \notin gone /\ b \notin gone
  BY <1>3 DEF Picks
<1>5. a \in SymIds /\ b \in SymIds
  <2>1. t.chain[id] \in Seq(SymIds)
    BY Fields
  <2> QED
    BY <1>4, <2>1
<1>6. u.sym[a] = t.sym[a] /\ u.sym[b] = t.sym[b]
  BY <1>2, <1>4, <1>5
<1>7. Class(t.sym[a].ns) = Class(t.sym[b].ns) /\ t.sym[b].scope > t.file_scope
         => t.sym[a].scope >= t.sym[b].scope
  BY <1>4 DEF Inner
<1> QED
  BY <1>6, <1>7

-----------------------------------------------------------------------------
\* The innermost scope of what is open.
LEMMA Tops ==
    ASSUME NEW t, t \in Table, NEW op \in Seq({"function", "block"}), Stacked(t, op)
    PROVE  /\ t.block_scope = Len(t.scopes) /\ Len(t.scopes) \in Nat
           /\ t.file_scope \in 1 .. Len(t.scopes) /\ t.function_scope \in 1 .. Len(t.scopes)
           /\ op = <<>> => t.file_scope = Len(t.scopes) /\ t.function_scope = Len(t.scopes)
           /\ op # <<>> => t.file_scope < Len(t.scopes)
<1>1. PICK P, F \in [0 .. Len(op) -> Nat] :
         /\ Levels(t.scopes, t.file_scope, op, P, F)
         /\ P[Len(op)] = t.block_scope /\ F[Len(op)] = t.function_scope
  BY DEF Stacked, Leveled
<1>2. t.block_scope = Len(t.scopes) /\ Len(t.scopes) \in Nat /\ t.file_scope \in {1, 2}
  BY Fields DEF Stacked
<1>3. Len(op) \in Nat /\ 0 \in 0 .. Len(op) /\ Len(op) \in 0 .. Len(op)
  OBVIOUS
<1>4. P[0] = t.file_scope /\ F[0] = t.file_scope
  BY <1>1 DEF Levels
<1>5. \A i \in 0 .. Len(op) : P[i] \in t.file_scope .. Len(t.scopes) /\ F[i] \in 1 .. P[i]
  BY <1>1, <1>2, Within
<1>6. t.file_scope \in 1 .. Len(t.scopes)
  BY <1>2, <1>3, <1>4, <1>5
<1>7. t.function_scope \in 1 .. Len(t.scopes)
  BY <1>1, <1>2, <1>3, <1>5
<1>8. ASSUME op = <<>> PROVE t.file_scope = Len(t.scopes) /\ t.function_scope = Len(t.scopes)
  <2>1. Len(op) = 0
    BY <1>8
  <2> QED
    BY <1>1, <1>2, <1>4, <2>1
<1>9. ASSUME op # <<>> PROVE t.file_scope < Len(t.scopes)
  <2>1. Len(op) # 0
    BY <1>9
  <2>2. 0 < Len(op)
    BY <1>3, <2>1
  <2>3. P[0] < P[Len(op)]
    BY <1>1, <1>3, <2>2 DEF Levels
  <2> QED
    BY <1>1, <1>2, <1>4, <2>3
<1> QED
  BY <1>2, <1>6, <1>7, <1>8, <1>9

\* start_symbol_scope and start_function_scope open one level.
LEMMA OpenBlock ==
    ASSUME NEW t, NEW op \in Seq({"function", "block"}), Good(t, op), Len(t.scopes) + 1 <= MaxScopes
    PROVE  LET u == start_symbol_scope(t)
           IN  /\ Good(u, Append(op, "block")) /\ u.block_scope = Len(t.scopes) + 1
               /\ Free(u) = Free(t)
<1> DEFINE u == start_symbol_scope(t)
           v == [next |-> t.block_scope, symbols |-> <<>>]
           scopes == Append(t.scopes, v)
           n == Len(t.scopes)
<1>1. t \in Table /\ Chained(t) /\ Stacked(t, op) /\ Inner(t)
  BY DEF Good
<1>2. u = [t EXCEPT !.scopes = scopes, !.block_scope = n + 1]
  BY <1>1, Fields DEF start_symbol_scope, Push
<1>3. /\ t.block_scope = n /\ n \in Nat /\ t.file_scope \in 1 .. n /\ t.function_scope \in 1 .. n
  BY <1>1, Tops
<1>4. t.block_scope \in ScopeIds /\ n + 1 \in ScopeIds
  BY <1>1, <1>3, Fields, ScopeAssumption DEF ScopeIds
<1> HIDE DEF u
<1>5. /\ u.chain = t.chain /\ u.sym = t.sym /\ u.scopes = scopes /\ u.block_scope = n + 1
      /\ u.function_scope = t.function_scope /\ u.file_scope = t.file_scope
  <2> HIDE DEF scopes, n
  <2> QED
    BY <1>1, <1>2, Fields
<1>6. Pushed(t, u, t.block_scope)
  BY <1>5 DEF Pushed
<1>7. /\ u.scopes \in Seq(Scope) /\ Len(u.scopes) = n + 1
      /\ \A i \in 1 .. n : u.scopes[i] = t.scopes[i]
      /\ u.scopes[n + 1].next = t.block_scope
  BY <1>1, <1>4, <1>6, PushParts
<1>8. u \in Table
  <2>1. scopes \in Seq(Scope)
    BY <1>5, <1>7
  <2> HIDE DEF scopes, n
  <2> QED
    BY <1>1, <1>2, <1>4, <2>1, Fields DEF Table
<1>9. Chained(u) /\ Inner(u)
  BY <1>1, <1>4, <1>6, PushChained
<1>10. Stacked(u, Append(op, "block"))
  <2>1. /\ t.file_scope \in {1, 2} /\ t.scopes[t.file_scope].next = Builtin
        /\ Leveled(t.scopes, t.file_scope, op, n, t.function_scope)
    BY <1>1, <1>3 DEF Stacked
  <2>2. \A i \in 1 .. n : u.scopes[i].next = t.scopes[i].next
    BY <1>7
  <2>3. Opens(t.scopes, u.scopes, n, t.function_scope, "block", n + 1, t.function_scope)
    BY <1>3, <1>7, <2>2 DEF Opens
  <2>4. n + 1 \in Nat /\ t.function_scope \in Nat /\ "block" \in {"function", "block"}
    BY <1>3
  <2> HIDE DEF n
  <2>5. Leveled(u.scopes, t.file_scope, Append(op, "block"), n + 1, t.function_scope)
    BY <1>3, <2>1, <2>3, <2>4, OneLevelMore
  <2>6. u.scopes[u.file_scope].next = Builtin
    BY <1>3, <1>5, <2>1, <2>2
  <2> QED
    BY <1>5, <1>7, <2>1, <2>5, <2>6 DEF Stacked
<1>11. Free(u) = Free(t)
  BY <1>5 DEF Free
<1> QED
  BY <1>5, <1>8, <1>9, <1>10, <1>11 DEF Good, u

\* start_function_scope.
LEMMA OpenFunction ==
    ASSUME NEW t, NEW op \in Seq({"function", "block"}), Good(t, op), Len(t.scopes) + 2 <= MaxScopes
    PROVE  LET u == start_function_scope(t)
           IN  /\ Good(u, Append(op, "function")) /\ u.block_scope = Len(t.scopes) + 2
               /\ Free(u) = Free(t)
<1> DEFINE n == Len(t.scopes)
           v == [next |-> t.function_scope, symbols |-> <<>>]
           w == [t EXCEPT !.scopes = Append(t.scopes, v), !.function_scope = n + 1]
           u == start_function_scope(t)
           v2 == [next |-> t.block_scope, symbols |-> <<>>]
           scopes == Append(w.scopes, v2)
<1>1. t \in Table /\ Chained(t) /\ Stacked(t, op) /\ Inner(t)
  BY DEF Good
<1>2. /\ t.block_scope = n /\ n \in Nat /\ t.file_scope \in 1 .. n /\ t.function_scope \in 1 .. n
  BY <1>1, Tops
<1>3. t.block_scope \in ScopeIds /\ t.function_scope \in ScopeIds /\ n + 1 \in ScopeIds /\ n + 2 \in ScopeIds
  BY <1>1, <1>2, Fields, ScopeAssumption DEF ScopeIds
<1>4. u = start_symbol_scope(w)
  BY DEF start_function_scope, Push
<1>5. /\ w.chain = t.chain /\ w.sym = t.sym /\ w.scopes = Append(t.scopes, v)
      /\ w.block_scope = t.block_scope /\ w.function_scope = n + 1 /\ w.file_scope = t.file_scope
  <2> HIDE DEF v, n
  <2> QED
    BY <1>1, Fields
<1>6. Pushed(t, w, t.function_scope)
  BY <1>5 DEF Pushed
<1>7. /\ w.scopes \in Seq(Scope) /\ Len(w.scopes) = n + 1
      /\ \A i \in 1 .. n : w.scopes[i] = t.scopes[i]
      /\ w.scopes[n + 1].next = t.function_scope
  BY <1>1, <1>3, <1>6, PushParts
<1>8. w \in Table
  <2>1. Append(t.scopes, v) \in Seq(Scope)
    BY <1>5, <1>7
  <2> HIDE DEF v, n
  <2> QED
    BY <1>1, <1>3, <2>1, Fields DEF Table
<1>9. Chained(w) /\ Inner(w)
  BY <1>1, <1>3, <1>6, PushChained
<1> HIDE DEF w
<1>10. u = [w EXCEPT !.scopes = scopes, !.block_scope = n + 2]
  <2>1. u = [w EXCEPT !.scopes = scopes, !.block_scope = Len(w.scopes) + 1]
    BY <1>4, <1>5 DEF start_symbol_scope, Push
  <2>2. Len(w.scopes) + 1 = n + 2
    BY <1>2, <1>7
  <2> QED
    BY <2>1, <2>2
<1> HIDE DEF u
<1>11. /\ u.chain = t.chain /\ u.sym = t.sym /\ u.scopes = scopes /\ u.block_scope = n + 2
       /\ u.function_scope = n + 1 /\ u.file_scope = t.file_scope
  <2> HIDE DEF scopes, n
  <2> QED
    BY <1>5, <1>8, <1>10, Fields
<1>12. Pushed(w, u, t.block_scope)
  BY <1>5, <1>11 DEF Pushed
<1>13. /\ u.scopes \in Seq(Scope) /\ Len(u.scopes) = n + 2
       /\ \A i \in 1 .. n + 1 : u.scopes[i] = w.scopes[i]
       /\ u.scopes[n + 2].next = t.block_scope
  <2>1. /\ u.scopes \in Seq(Scope) /\ Len(u.scopes) = Len(w.scopes) + 1
        /\ \A i \in 1 .. Len(w.scopes) : u.scopes[i] = w.scopes[i]
        /\ u.scopes[Len(w.scopes) + 1].next = t.block_scope
    BY <1>3, <1>8, <1>12, PushParts
  <2>2. Len(w.scopes) + 1 = n + 2 /\ Len(w.scopes) = n + 1
    BY <1>2, <1>7
  <2> QED
    BY <2>1, <2>2
<1>14. u \in Table
  <2>1. scopes \in Seq(Scope)
    BY <1>11, <1>13
  <2> HIDE DEF scopes, n
  <2> QED
    BY <1>3, <1>8, <1>10, <2>1, Fields DEF Table
<1>15. Chained(u) /\ Inner(u)
  BY <1>3, <1>8, <1>9, <1>12, PushChained
<1>16. Stacked(u, Append(op, "function"))
  <2>1. /\ t.file_scope \in {1, 2} /\ t.scopes[t.file_scope].next = Builtin
        /\ Leveled(t.scopes, t.file_scope, op, n, t.function_scope)
    BY <1>1, <1>2 DEF Stacked
  <2>2. \A i \in 1 .. n : u.scopes[i].next = t.scopes[i].next
    <3>1. \A i \in 1 .. n : i \in 1 .. n + 1
      BY <1>2
    <3> QED
      BY <1>7, <1>13, <3>1
  <2>3. u.scopes[n + 1].next = t.function_scope
    <3>1. n + 1 \in 1 .. n + 1
      BY <1>2
    <3> QED
      BY <1>7, <1>13, <3>1
  <2>4. Opens(t.scopes, u.scopes, n, t.function_scope, "function", n + 2, n + 1)
    BY <1>2, <1>13, <2>2, <2>3 DEF Opens
  <2>5. n + 1 \in Nat /\ n + 2 \in Nat /\ "function" \in {"function", "block"}
    BY <1>2
  <2> HIDE DEF n
  <2>6. Leveled(u.scopes, t.file_scope, Append(op, "function"), n + 2, n + 1)
    BY <1>2, <2>1, <2>4, <2>5, OneLevelMore
  <2>7. u.scopes[u.file_scope].next = Builtin
    BY <1>2, <1>11, <2>1, <2>2
  <2> QED
    BY <1>11, <1>13, <2>1, <2>6, <2>7 DEF Stacked
<1>17. Free(u) = Free(t)
  BY <1>11 DEF Free
<1> QED
  BY <1>11, <1>14, <1>15, <1>16, <1>17 DEF Good, u

\* What ending the innermost scope leaves.
LEMMA EndInnermost ==
    ASSUME NEW t, t \in Table, Chained(t), Inner(t), NEW sc \in 1 .. Len(t.scopes), sc = Len(t.scopes)
    PROVE  LET u == end_scope(t, sc)
           IN  /\ u \in Table /\ Chained(u) /\ Inner(u)
               /\ u.block_scope = t.block_scope /\ u.function_scope = t.function_scope
               /\ u.file_scope = t.file_scope
               /\ Len(u.scopes) = sc - 1 /\ \A i \in 1 .. sc - 1 : u.scopes[i] = t.scopes[i]
<1> DEFINE u == end_scope(t, sc)
<1>1. /\ u \in Table /\ Ended(t, u, sc)
      /\ u.block_scope = t.block_scope /\ u.function_scope = t.function_scope
      /\ u.file_scope = t.file_scope
  BY EndScope
<1> HIDE DEF u
<1>2. Chained(u) /\ Inner(u)
  BY <1>1, EndedChained, EndedInner
<1>3. Len(u.scopes) = sc - 1 /\ \A i \in 1 .. sc - 1 : u.scopes[i] = t.scopes[i]
  <2>1. KeptParts(t, u, sc, Elems(t.scopes[sc].symbols))
    BY <1>1, EndedParts
  <2> QED
    BY <2>1 DEF KeptParts
<1> QED
  BY <1>1, <1>2, <1>3 DEF u

\* The places of the innermost scopes are no part of the chains.
LEMMA SamePlaces ==
    ASSUME NEW t, Chained(t), Inner(t), NEW u, u.chain = t.chain, u.sym = t.sym, u.scopes = t.scopes,
           u.file_scope = t.file_scope
    PROVE  Chained(u) /\ Inner(u)
BY DEF Chained, Inner

\* Another block scope changes nothing else.
LEMMA BlockPlace ==
    ASSUME NEW t, t \in Table, NEW sc \in ScopeIds, NEW u, u = [t EXCEPT !.block_scope = sc]
    PROVE  /\ u \in Table /\ u.chain = t.chain /\ u.sym = t.sym /\ u.scopes = t.scopes
           /\ u.block_scope = sc /\ u.function_scope = t.function_scope /\ u.file_scope = t.file_scope
BY DEF Table

\* Another function scope changes nothing else.
LEMMA FunctionPlace ==
    ASSUME NEW t, t \in Table, NEW sc \in ScopeIds, NEW u, u = [t EXCEPT !.function_scope = sc]
    PROVE  /\ u \in Table /\ u.chain = t.chain /\ u.sym = t.sym /\ u.scopes = t.scopes
           /\ u.block_scope = t.block_scope /\ u.function_scope = sc /\ u.file_scope = t.file_scope
BY DEF Table

\* end_symbol_scope ends the innermost scope.
LEMMA EndBlockScope ==
    ASSUME NEW t, t \in Table, Chained(t), Inner(t), t.block_scope = Len(t.scopes),
           Len(t.scopes) \in Nat, Len(t.scopes) > 0, t.scopes[Len(t.scopes)].next \in ScopeIds
    PROVE  LET u == end_symbol_scope(t)
               n == Len(t.scopes)
           IN  /\ u \in Table /\ Chained(u) /\ Inner(u)
               /\ u.block_scope = t.scopes[n].next /\ u.function_scope = t.function_scope
               /\ u.file_scope = t.file_scope
               /\ Len(u.scopes) = n - 1 /\ \A i \in 1 .. n - 1 : u.scopes[i] = t.scopes[i]
<1> DEFINE n == Len(t.scopes)
           w == end_scope(t, n)
           up == t.scopes[n].next
           u == [w EXCEPT !.block_scope = up]
<1>1. u = end_symbol_scope(t)
  BY DEF end_symbol_scope
<1>2. n \in 1 .. Len(t.scopes) /\ n = Len(t.scopes) /\ up \in ScopeIds
  OBVIOUS
<1> HIDE DEF n, up
<1>3. /\ w \in Table /\ Chained(w) /\ Inner(w)
      /\ w.block_scope = t.block_scope /\ w.function_scope = t.function_scope
      /\ w.file_scope = t.file_scope
      /\ Len(w.scopes) = n - 1 /\ \A i \in 1 .. n - 1 : w.scopes[i] = t.scopes[i]
  BY <1>2, EndInnermost
<1> HIDE DEF w
<1>4. /\ u \in Table /\ u.chain = w.chain /\ u.sym = w.sym /\ u.scopes = w.scopes
      /\ u.block_scope = up /\ u.function_scope = w.function_scope
      /\ u.file_scope = w.file_scope
  <2>1. u = [w EXCEPT !.block_scope = up]
    OBVIOUS
  <2> HIDE DEF u
  <2> QED
    BY <1>2, <1>3, <2>1, BlockPlace
<1> HIDE DEF u
<1>5. Chained(u) /\ Inner(u)
  BY <1>3, <1>4, SamePlaces
<1>6. /\ u \in Table /\ Chained(u) /\ Inner(u)
      /\ u.block_scope = t.scopes[n].next /\ u.function_scope = t.function_scope
      /\ u.file_scope = t.file_scope
      /\ Len(u.scopes) = n - 1 /\ \A i \in 1 .. n - 1 : u.scopes[i] = t.scopes[i]
  BY <1>3, <1>4, <1>5 DEF up
<1> QED
  BY <1>1, <1>6 DEF n

\* end_symbol_scope, when a block is the innermost thing that is open.
LEMMA CloseBlock ==
    ASSUME NEW t, NEW op \in Seq({"function", "block"}), op # <<>>, Good(t, op), op[Len(op)] = "block"
    PROVE  Good(end_symbol_scope(t), SubSeq(op, 1, Len(op) - 1))
<1> DEFINE n == Len(t.scopes)
           oq == SubSeq(op, 1, Len(op) - 1)
           u == end_symbol_scope(t)
<1>1. t \in Table /\ Chained(t) /\ Stacked(t, op) /\ Inner(t)
  BY DEF Good
<1>2. /\ t.block_scope = n /\ n \in Nat /\ t.file_scope \in 1 .. n /\ t.file_scope \in {1, 2}
      /\ t.scopes[t.file_scope].next = Builtin
      /\ Leveled(t.scopes, t.file_scope, op, n, t.function_scope)
  BY <1>1, Tops DEF Stacked
<1>a. PICK pn, fp \in Nat : /\ Closes(t.scopes, op, n, t.function_scope, pn, fp)
                            /\ Outer(t.scopes, t.file_scope, oq, pn, fp)
  <2> HIDE DEF n
  <2> QED
    BY <1>2, OneLevelLess
<1>3. /\ Closes(t.scopes, op, n, t.function_scope, pn, fp) /\ pn >= t.file_scope /\ fp >= 1 /\ fp <= pn
      /\ \A less : (\A i \in 1 .. pn : less[i].next = t.scopes[i].next) =>
            Leveled(less, t.file_scope, oq, pn, fp)
  <2> HIDE DEF oq, n
  <2> QED
    BY <1>a DEF Outer
<1>4. t.scopes[n].next = pn /\ pn = n - 1 /\ fp = t.function_scope
  BY <1>3 DEF Closes
<1>5. t.scopes[Len(t.scopes)].next \in ScopeIds /\ Len(t.scopes) > 0
  <2>1. n \in ScopeIds /\ pn <= n /\ pn >= 1 /\ n > 0
    BY <1>1, <1>2, <1>3, <1>4, Fields
  <2>2. pn \in ScopeIds
    BY <1>a, <2>1, ScopeAssumption DEF ScopeIds
  <2> QED
    BY <1>4, <2>1, <2>2
<1>6. /\ u \in Table /\ Chained(u) /\ Inner(u)
      /\ u.block_scope = t.scopes[n].next /\ u.function_scope = t.function_scope
      /\ u.file_scope = t.file_scope
      /\ Len(u.scopes) = n - 1 /\ \A i \in 1 .. n - 1 : u.scopes[i] = t.scopes[i]
  BY <1>1, <1>2, <1>5, EndBlockScope
<1> HIDE DEF u, n, oq
<1>7. \A i \in 1 .. pn : u.scopes[i].next = t.scopes[i].next
  BY <1>4, <1>6
<1>8. Leveled(u.scopes, t.file_scope, oq, pn, fp)
  BY <1>3, <1>7
<1>9. t.file_scope \in 1 .. pn
  BY <1>2, <1>3
<1>10. Stacked(u, oq)
  BY <1>2, <1>4, <1>6, <1>7, <1>8, <1>9 DEF Stacked
<1> QED
  BY <1>6, <1>10 DEF Good, u, oq

\* end_function_scope ends the two innermost scopes.
LEMMA CloseFunction ==
    ASSUME NEW t, NEW op \in Seq({"function", "block"}), op # <<>>, Good(t, op),
           op[Len(op)] = "function"
    PROVE  Good(end_function_scope(t), SubSeq(op, 1, Len(op) - 1))
<1> DEFINE n == Len(t.scopes)
           oq == SubSeq(op, 1, Len(op) - 1)
           w == end_symbol_scope(t)
           f == w.function_scope
           v == end_scope(w, f)
           up == w.scopes[f].next
           u == [v EXCEPT !.function_scope = up]
<1>1. t \in Table /\ Chained(t) /\ Stacked(t, op) /\ Inner(t)
  BY DEF Good
<1>2. /\ t.block_scope = n /\ n \in Nat /\ t.file_scope \in 1 .. n /\ t.file_scope \in {1, 2}
      /\ t.scopes[t.file_scope].next = Builtin
      /\ Leveled(t.scopes, t.file_scope, op, n, t.function_scope)
  BY <1>1, Tops DEF Stacked
<1>a. PICK pn, fp \in Nat : /\ Closes(t.scopes, op, n, t.function_scope, pn, fp)
                            /\ Outer(t.scopes, t.file_scope, oq, pn, fp)
  <2> HIDE DEF n
  <2> QED
    BY <1>2, OneLevelLess
<1>3. /\ Closes(t.scopes, op, n, t.function_scope, pn, fp) /\ pn >= t.file_scope /\ fp >= 1 /\ fp <= pn
      /\ \A less : (\A i \in 1 .. pn : less[i].next = t.scopes[i].next) =>
            Leveled(less, t.file_scope, oq, pn, fp)
  <2> HIDE DEF oq, n
  <2> QED
    BY <1>a DEF Outer
<1>4. t.scopes[n].next = pn /\ pn = n - 2 /\ t.function_scope = n - 1 /\ t.scopes[n - 1].next = fp
  BY <1>3 DEF Closes
<1>5. t.scopes[Len(t.scopes)].next \in ScopeIds /\ Len(t.scopes) > 0 /\ fp \in ScopeIds
  <2>1. n \in ScopeIds /\ pn <= n /\ pn >= 1 /\ n > 0
    BY <1>1, <1>2, <1>3, <1>4, Fields
  <2>2. pn \in ScopeIds /\ fp \in ScopeIds
    BY <1>3, <2>1, ScopeAssumption DEF ScopeIds
  <2> QED
    BY <1>4, <2>1, <2>2
<1>6. /\ w \in Table /\ Chained(w) /\ Inner(w)
      /\ w.block_scope = t.scopes[n].next /\ w.function_scope = t.function_scope
      /\ w.file_scope = t.file_scope
      /\ Len(w.scopes) = n - 1 /\ \A i \in 1 .. n - 1 : w.scopes[i] = t.scopes[i]
  BY <1>1, <1>2, <1>5, EndBlockScope
<1>7. u = end_function_scope(t)
  BY DEF end_function_scope
<1> HIDE DEF w, n, oq
<1>8. f \in 1 .. Len(w.scopes) /\ f = Len(w.scopes) /\ f = n - 1 /\ f - 1 = n - 2
  BY <1>2, <1>3, <1>4, <1>6
<1>9. up = fp
  <2>1. n - 1 \in 1 .. n - 1
    BY <1>8, <1>6
  <2> QED
    BY <1>4, <1>6, <1>8, <2>1
<1> HIDE DEF f
<1>10. /\ v \in Table /\ Chained(v) /\ Inner(v)
       /\ v.block_scope = w.block_scope /\ v.function_scope = w.function_scope
       /\ v.file_scope = w.file_scope
       /\ Len(v.scopes) = f - 1 /\ \A i \in 1 .. f - 1 : v.scopes[i] = w.scopes[i]
  BY <1>6, <1>8, EndInnermost
<1> HIDE DEF v, up
<1>11. /\ u \in Table /\ u.chain = v.chain /\ u.sym = v.sym /\ u.scopes = v.scopes
       /\ u.block_scope = v.block_scope /\ u.function_scope = up
       /\ u.file_scope = v.file_scope
  <2>1. u = [v EXCEPT !.function_scope = up] /\ up \in ScopeIds
    BY <1>5, <1>9
  <2> HIDE DEF u
  <2> QED
    BY <1>10, <2>1, FunctionPlace
<1> HIDE DEF u
<1>12. Chained(u) /\ Inner(u)
  BY <1>10, <1>11, SamePlaces
<1>13. \A i \in 1 .. pn : u.scopes[i].next = t.scopes[i].next
  <2>1. \A i \in 1 .. pn : i \in 1 .. f - 1 /\ i \in 1 .. n - 1
    BY <1>2, <1>4, <1>8
  <2> QED
    BY <1>6, <1>10, <1>11, <2>1
<1>14. Leveled(u.scopes, t.file_scope, oq, pn, fp)
  BY <1>3, <1>13
<1>15. t.file_scope \in 1 .. pn
  BY <1>2, <1>3
<1>16. Len(u.scopes) = pn /\ u.block_scope = pn /\ u.function_scope = fp /\ u.file_scope = t.file_scope
  BY <1>4, <1>6, <1>8, <1>9, <1>10, <1>11
<1>17. Stacked(u, oq)
  BY <1>2, <1>13, <1>14, <1>15, <1>16 DEF Stacked
<1> QED
  BY <1>7, <1>11, <1>12, <1>17 DEF Good, oq

\* With nothing open no symbol is of a scope within the file.
LEMMA FlatInner ==
    ASSUME NEW t, t \in Table, Chained(t), t.file_scope = Len(t.scopes)
    PROVE  Inner(t)
<1> SUFFICES ASSUME NEW id \in AllIdents, NEW j \in 1 .. Len(t.chain[id])
             PROVE  ~(t.sym[t.chain[id][j]].scope > t.file_scope)
  BY DEF Inner
<1>1. t.chain[id][j] \in Elems(t.chain[id])
  BY DEF Elems
<1>2. t.sym[t.chain[id][j]].scope \in 1 .. Len(t.scopes)
  BY <1>1 DEF Chained
<1>3. Len(t.scopes) \in Nat
  BY Fields
<1> QED
  BY <1>2, <1>3

\* Nothing is open: the scope of the file is the block's and the function's.
LEMMA FlatLeveled ==
    ASSUME NEW scopes, NEW file \in Nat, file >= 1
    PROVE  Leveled(scopes, file, <<>>, file, file)
<1> DEFINE op == <<>>
           P == [i \in 0 .. Len(op) |-> file]
<1>1. Len(op) = 0 /\ 0 \in 0 .. Len(op) /\ \A i \in 0 .. Len(op) : i = 0
  OBVIOUS
<1>2. P \in [0 .. Len(op) -> Nat] /\ P[0] = file /\ P[Len(op)] = file
  BY <1>1
<1>3. 1 .. Len(op) = {}
  BY <1>1
<1> HIDE DEF P, op
<1>4. Levels(scopes, file, op, P, P)
  BY <1>1, <1>2, <1>3 DEF Levels
<1> QED
  BY <1>2, <1>4 DEF Leveled, op

\* start_file_scope after the builtin scope.
LEMMA StartFile ==
    ASSUME NEW t, t \in Table, Chained(t), Inner(t), Len(t.scopes) = 1, MaxScopes >= 2
    PROVE  Good(start_file_scope(t), <<>>)
<1> DEFINE v == [next |-> Builtin, symbols |-> <<>>]
           scopes == Append(t.scopes, v)
           u == start_file_scope(t)
           w == [t EXCEPT !.scopes = scopes]
<1>1. u = [t EXCEPT !.scopes = scopes, !.file_scope = 2, !.function_scope = 2, !.block_scope = 2]
  BY DEF start_file_scope, Push
<1>2. 2 \in ScopeIds /\ Builtin \in ScopeIds
  BY ScopeAssumption DEF ScopeIds, Builtin
<1>3. /\ w.chain = t.chain /\ w.sym = t.sym /\ w.scopes = scopes /\ w.file_scope = t.file_scope
  <2> HIDE DEF scopes
  <2> QED
    BY Fields
<1>4. Pushed(t, w, Builtin)
  BY <1>3 DEF Pushed
<1>5. Chained(w) /\ w.scopes \in Seq(Scope) /\ Len(w.scopes) = 2 /\ w.scopes[2].next = Builtin
  <2>1. Chained(w)
    BY <1>2, <1>4, PushChained
  <2>2. /\ w.scopes \in Seq(Scope) /\ Len(w.scopes) = Len(t.scopes) + 1
        /\ w.scopes[Len(t.scopes) + 1].next = Builtin
    BY <1>2, <1>4, PushParts
  <2> QED
    BY <2>1, <2>2
<1> HIDE DEF u, w
<1>6. /\ u.chain = w.chain /\ u.sym = w.sym /\ u.scopes = w.scopes
      /\ u.file_scope = 2 /\ u.function_scope = 2 /\ u.block_scope = 2
  <2>1. /\ u.chain = t.chain /\ u.sym = t.sym /\ u.scopes = scopes
        /\ u.file_scope = 2 /\ u.function_scope = 2 /\ u.block_scope = 2
    <3> HIDE DEF scopes
    <3> QED
      BY <1>1, Fields
  <2> QED
    BY <1>3, <2>1
<1>7. u \in Table
  <2>1. scopes \in Seq(Scope)
    BY <1>3, <1>5
  <2> HIDE DEF scopes
  <2> QED
    BY <1>1, <1>2, <2>1, Fields DEF Table
<1>8. Chained(u)
  BY <1>5, <1>6 DEF Chained
<1>9. Inner(u)
  BY <1>5, <1>6, <1>7, <1>8, FlatInner
<1>10. Leveled(u.scopes, 2, <<>>, 2, 2)
  BY FlatLeveled
<1>11. Stacked(u, <<>>)
  BY <1>5, <1>6, <1>10 DEF Stacked
<1> QED
  BY <1>7, <1>8, <1>9, <1>11 DEF Good, u

\* new_file_scope.
LEMMA NextFile ==
    ASSUME NEW t, Good(t, <<>>), MaxScopes >= 2
    PROVE  Good(new_file_scope(t), <<>>)
<1> DEFINE n == Len(t.scopes)
<1>1. t \in Table /\ Chained(t) /\ Stacked(t, <<>>) /\ Inner(t)
  BY DEF Good
<1>2. t.file_scope = n /\ t.file_scope \in {1, 2} /\ t.scopes[t.file_scope].next = Builtin
  <2>1. <<>> \in Seq({"function", "block"})
    OBVIOUS
  <2> QED
    BY <1>1, <2>1, Tops DEF Stacked
<1>3. CASE t.file_scope = Builtin
  <2>1. new_file_scope(t) = start_file_scope(t) /\ Len(t.scopes) = 1
    BY <1>2, <1>3 DEF new_file_scope, Builtin
  <2> QED
    BY <1>1, <2>1, StartFile
<1>4. CASE t.file_scope # Builtin
  <2> DEFINE w == end_scope(t, 2)
             v == [w EXCEPT !.file_scope = Builtin]
  <2>1. t.file_scope = 2 /\ 2 = Len(t.scopes) /\ 2 \in 1 .. Len(t.scopes)
    <3>1. t.file_scope = 2
      BY <1>2, <1>4 DEF Builtin
    <3> QED
      BY <1>2, <3>1
  <2>2. new_file_scope(t) = start_file_scope(v)
    BY <1>2, <1>4, <2>1 DEF new_file_scope
  <2>3. w \in Table /\ Chained(w) /\ Inner(w) /\ Len(w.scopes) = 2 - 1
    BY <1>1, <2>1, EndInnermost
  <2> HIDE DEF w
  <2>4. /\ v \in Table /\ v.chain = w.chain /\ v.sym = w.sym /\ v.scopes = w.scopes
        /\ v.file_scope = Builtin
    <3>1. Builtin \in ScopeIds
      BY ScopeAssumption DEF ScopeIds, Builtin
    <3> QED
      BY <2>3, <3>1 DEF Table
  <2> HIDE DEF v
  <2>5. Chained(v)
    BY <2>3, <2>4 DEF Chained
  <2>6. Len(v.scopes) = 1 /\ Inner(v)
    <3>1. Len(v.scopes) = 1 /\ v.file_scope = 1
      BY <2>3, <2>4 DEF Builtin
    <3> QED
      BY <2>4, <2>5, <3>1, FlatInner
  <2> QED
    BY <2>2, <2>4, <2>5, <2>6, StartFile
<1> QED
  BY <1>3, <1>4

-----------------------------------------------------------------------------
\* Room for a symbol is a free one, and the next is another one.
LEMMA RoomIsFree ==
    ASSUME NEW t, NEW n \in Nat, n >= 1, Cardinality(Free(t)) >= n
    PROVE  /\ Free(t) # {} /\ IsFiniteSet(Free(t))
           /\ \A s \in Free(t) : n >= 2 => Free(t) \ {s} # {}
<1>1. IsFiniteSet(SymIds)
  BY ScopeAssumption, FS_Interval DEF SymIds
<1>2. Free(t) \in SUBSET SymIds
  BY DEF Free
<1>3. IsFiniteSet(Free(t)) /\ Cardinality(Free(t)) \in Nat
  BY <1>1, <1>2, FS_Subset, FS_CardinalityType
<1>4. Free(t) # {}
  <2> SUFFICES ASSUME Free(t) = {} PROVE FALSE
    OBVIOUS
  <2>1. Cardinality(Free(t)) = 0
    BY FS_EmptySet
  <2> QED
    BY <2>1
<1>5. ASSUME NEW s \in Free(t), n >= 2 PROVE Free(t) \ {s} # {}
  <2> SUFFICES ASSUME Free(t) \ {s} = {} PROVE FALSE
    OBVIOUS
  <2>1. Cardinality(Free(t) \ {s}) = Cardinality(Free(t)) - 1
    BY <1>3, FS_RemoveElement
  <2>2. Cardinality(Free(t) \ {s}) = 0
    BY FS_EmptySet
  <2> QED
    BY <1>3, <1>5, <2>1, <2>2
<1> QED
  BY <1>3, <1>4, <1>5

\* A new symbol is no longer free.
LEMMA FreshFree ==
    ASSUME NEW t, NEW u, NEW id, NEW s, NEW sc, Fresh(t, u, id, s, sc)
    PROVE  Free(u) = Free(t) \ {s}
<1>1. \A r \in SymIds : r # s => u.sym[r] = t.sym[r]
  BY DEF Fresh
<1>2. u.sym[s].ns # "NONE"
  BY DEF Fresh
<1> QED
  BY <1>1, <1>2 DEF Free

\* A fresh symbol may be given another namespace and what a macro has.
LEMMA FreshWith ==
    ASSUME NEW t, NEW b, b \in Table, NEW id, NEW s, NEW sc, Fresh(t, b, id, s, sc),
           NEW r \in Symbol, r.ident = id, r.scope = sc, r.ns # "NONE"
    PROVE  Put(b, s, r) \in Table /\ Fresh(t, Put(b, s, r), id, s, sc) /\ Put(b, s, r).sym[s] = r
<1> DEFINE u == Put(b, s, r)
<1>1. s \in SymIds
  BY DEF Fresh, Free
<1>2. u \in Table
  BY <1>1, WithSymbol
<1>3. /\ u.chain = b.chain /\ u.scopes = b.scopes /\ u.sym = [b.sym EXCEPT ![s] = r]
      /\ u.block_scope = b.block_scope /\ u.function_scope = b.function_scope
      /\ u.file_scope = b.file_scope
  BY Fields DEF Put
<1>4. u.sym[s] = r /\ \A q \in SymIds : q # s => u.sym[q] = b.sym[q]
  BY <1>1, <1>3, Fields
<1> QED
  BY <1>2, <1>3, <1>4 DEF Fresh

\* Which scope a symbol goes to, so as to hide what it is to hide.
Hides(t, id, ns, sc) ==
    \/ sc = Len(t.scopes)
    \/ t.file_scope = Len(t.scopes)
    \/ \A r \in Elems(t.chain[id]) : Class(t.sym[r].ns) # Class(ns)

\* A new symbol that hides what it is to hide keeps all of the invariant.
LEMMA FreshGood ==
    ASSUME NEW t, NEW op \in Seq({"function", "block"}), Good(t, op), NEW u, u \in Table,
           NEW id \in AllIdents, NEW s, NEW sc, Fresh(t, u, id, s, sc), Hides(t, id, u.sym[s].ns, sc)
    PROVE  Good(u, op) /\ Len(u.scopes) = Len(t.scopes)
<1>1. t \in Table /\ Chained(t) /\ Stacked(t, op) /\ Inner(t)
  BY DEF Good
<1>0. Parts(t, u, id, s, sc)
  BY <1>1, FreshParts
<1>2. /\ Len(u.scopes) = Len(t.scopes) /\ s \in SymIds
      /\ \A i \in 1 .. Len(t.scopes) : u.scopes[i].next = t.scopes[i].next
  BY <1>0 DEF Parts
<1>3. SameScopes(t, u)
  BY <1>2 DEF SameScopes, Fresh
<1>4. Chained(u) /\ Stacked(u, op)
  BY <1>1, <1>3, FreshChained, SameStacked
<1>5. ASSUME NEW r \in Elems(t.chain[id]), Class(t.sym[r].ns) = Class(u.sym[s].ns),
             t.sym[r].scope > t.file_scope
      PROVE  sc >= t.sym[r].scope
  <2>1. t.sym[r].scope \in 1 .. Len(t.scopes) /\ Len(t.scopes) \in Nat
    BY <1>1, Fields DEF Chained
  <2>2. t.file_scope # Len(t.scopes)
    BY <1>5, <2>1
  <2>3. sc = Len(t.scopes)
    BY <1>5, <2>2 DEF Hides
  <2> QED
    BY <2>1, <2>3
<1>6. Inner(u)
  BY <1>1, <1>5, FreshInner
<1> QED
  BY <1>2, <1>4, <1>6 DEF Good

\* BoundIn picks an open scope.
LEMMA BoundOpen ==
    ASSUME NEW t, NEW op \in Seq({"function", "block"}), Good(t, op), NEW ns, NEW static \in BOOLEAN
    PROVE  BoundIn(t, ns, static) \in 1 .. Len(t.scopes) /\ BoundIn(t, ns, static) \in ScopeIds
<1>1. t \in Table /\ Stacked(t, op)
  BY DEF Good
<1>2. /\ t.block_scope \in 1 .. Len(t.scopes) /\ t.function_scope \in 1 .. Len(t.scopes)
      /\ t.file_scope \in 1 .. Len(t.scopes) /\ Builtin \in 1 .. Len(t.scopes)
  BY <1>1, Tops DEF Builtin
<1>3. /\ t.block_scope \in ScopeIds /\ t.function_scope \in ScopeIds
      /\ t.file_scope \in ScopeIds /\ Builtin \in ScopeIds
  <2>1. Builtin \in ScopeIds
    BY ScopeAssumption DEF ScopeIds, Builtin
  <2> QED
    BY <1>1, <2>1, Fields
<1> QED
  BY <1>2, <1>3 DEF BoundIn

\* u is what bind_symbol makes of t: symbol s of kind ns, in scope sc.
Binding(t, u, id, ns, s, sc) ==
    /\ u \in Table /\ Fresh(t, u, id, s, sc) /\ u.chain[id][1] = s
    /\ s \in SymIds /\ sc \in ScopeIds
    /\ u.sym[s].ident = id /\ u.sym[s].scope = sc /\ u.sym[s].ns = ns
    /\ Free(u) = Free(t) \ {s} /\ Len(u.scopes) = Len(t.scopes)

\* bind_symbol, when the kind goes to the innermost scope or hides nothing.
LEMMA BindGood ==
    ASSUME NEW t, NEW op \in Seq({"function", "block"}), Good(t, op), Free(t) # {},
           NEW id \in AllIdents, NEW ns \in Namespaces \ {"NONE"}, NEW static \in BOOLEAN
    PROVE  LET u == bind_symbol(t, id, ns, static)
               sc == BoundIn(t, ns, static)
           IN  /\ Binding(t, u, id, ns, FirstOf(Free(t)), sc)
               /\ Hides(t, id, ns, sc) => Good(u, op)
<1> DEFINE u == bind_symbol(t, id, ns, static)
           s == FirstOf(Free(t))
           sc == BoundIn(t, ns, static)
<1>1. t \in Table
  BY DEF Good
<1>2. sc \in 1 .. Len(t.scopes) /\ sc \in ScopeIds
  BY BoundOpen
<1>3. u \in Table /\ u.chain[id][1] = s /\ Fresh(t, u, id, s, sc) /\ u.sym[s] = SymbolOf(id, ns, sc)
  BY <1>1, <1>2, BindIsFresh
<1>4. s \in Free(t)
  BY FirstFree
<1> HIDE DEF u, s, sc
<1>5. u.sym[s].ident = id /\ u.sym[s].scope = sc /\ u.sym[s].ns = ns
  BY <1>2, <1>3, NewSymbol
<1>6. Free(u) = Free(t) \ {s}
  BY <1>3, FreshFree
<1>7. Parts(t, u, id, s, sc)
  BY <1>1, <1>3, FreshParts
<1>8. Len(u.scopes) = Len(t.scopes)
  BY <1>7 DEF Parts
<1>9. Hides(t, id, ns, sc) => Good(u, op)
  BY <1>3, <1>5, FreshGood
<1> QED
  BY <1>2, <1>3, <1>4, <1>5, <1>6, <1>8, <1>9 DEF u, s, sc, Binding, Free

\* What goes to the block scope, and what to the file scope or beyond it.
LEMMA Ordinary ==
    ASSUME NEW t, NEW op \in Seq({"function", "block"}), Good(t, op), NEW id, NEW static \in BOOLEAN,
           NEW ns \in {"SYMBOL", "TYPEDEF", "STRUCT", "ITERATOR"}
    PROVE  Hides(t, id, ns, BoundIn(t, ns, static))
<1>1. t \in Table /\ Stacked(t, op)
  BY DEF Good
<1>2. /\ t.block_scope = Len(t.scopes) /\ Len(t.scopes) \in Nat /\ t.file_scope \in 1 .. Len(t.scopes)
  BY <1>1, Tops
<1>3. CASE ns = "SYMBOL" /\ toplevel(t)
  <2>1. t.file_scope = Len(t.scopes)
    <3>1. toplevel(t)
      BY <1>3
    <3>2. t.block_scope = t.file_scope \/ t.block_scope = 1
      BY <3>1 DEF toplevel, Builtin
    <3> DEFINE n == Len(t.scopes)
               f == t.file_scope
    <3>3. n \in Nat /\ f \in 1 .. n /\ (n = f \/ n = 1)
      BY <1>2, <3>2
    <3> HIDE DEF n, f
    <3>4. f = n
      BY <3>3
    <3> QED
      BY <3>4 DEF n, f
  <2> QED
    BY <2>1 DEF Hides
<1>4. CASE ~(ns = "SYMBOL" /\ toplevel(t))
  <2>1. BoundIn(t, ns, static) = t.block_scope
    BY <1>4 DEF BoundIn
  <2> QED
    BY <1>2, <2>1 DEF Hides
<1> QED
  BY <1>3, <1>4

\* lookup_symbol finds a symbol of the chain, or there is none.
LEMMA Lookup ==
    ASSUME NEW t, t \in Table, NEW id \in AllIdents, NEW spaces
    PROVE  LET s == lookup_symbol(t, id, spaces)
           IN  /\ s # 0 => s \in Elems(t.chain[id]) /\ t.sym[s].ns \in spaces
               /\ s = 0 => \A r \in Elems(t.chain[id]) : t.sym[r].ns \notin spaces
<1> DEFINE hits == {i \in 1 .. Len(t.chain[id]) : t.sym[t.chain[id][i]].ns \in spaces}
<1>1. t.chain[id] \in Seq(SymIds)
  BY Fields
<1>2. CASE hits = {}
  <2>1. lookup_symbol(t, id, spaces) = 0
    BY <1>2 DEF lookup_symbol
  <2>2. \A r \in Elems(t.chain[id]) : t.sym[r].ns \notin spaces
    BY <1>2 DEF Elems
  <2> QED
    BY <2>1, <2>2
<1>3. CASE hits # {}
  <2> DEFINE i == FirstOf(hits)
  <2>1. lookup_symbol(t, id, spaces) = t.chain[id][i]
    BY <1>3 DEF lookup_symbol
  <2>2. i \in hits
    <3>1. hits \subseteq Nat
      OBVIOUS
    <3> HIDE DEF hits
    <3>2. \E k \in hits : \A j \in hits : k <= j
      BY <1>3, <3>1, Least
    <3> QED
      BY <3>2 DEF FirstOf
  <2> HIDE DEF i
  <2>3. i \in 1 .. Len(t.chain[id]) /\ t.sym[t.chain[id][i]].ns \in spaces
    BY <2>2
  <2>4. t.chain[id][i] \in SymIds /\ t.chain[id][i] # 0
    <3>1. t.chain[id][i] \in SymIds
      BY <1>1, <2>3
    <3>2. \A x \in SymIds : x # 0
      BY DEF SymIds
    <3> QED
      BY <3>1, <3>2
  <2> QED
    BY <2>1, <2>3, <2>4 DEF Elems
<1> QED
  BY <1>2, <1>3

\* A symbol of a chain is changed in what is not its place.
LEMMA Changed ==
    ASSUME NEW t, Good(t, <<>>), NEW id \in AllIdents, NEW s \in Elems(t.chain[id]), NEW r \in Symbol,
           r.ident = t.sym[s].ident, r.scope = t.sym[s].scope, r.ns # "NONE",
           NEW u, u = Put(t, s, r)
    PROVE  Good(u, <<>>)
<1>1. t \in Table /\ Chained(t) /\ Stacked(t, <<>>) /\ Inner(t)
  BY DEF Good
<1>2. s \in SymIds
  <2>1. t.chain[id] \in Seq(SymIds)
    BY <1>1, Fields
  <2> QED
    BY <2>1 DEF Elems
<1>3. u \in Table
  BY <1>1, <1>2, WithSymbol
<1>4. /\ u.chain = t.chain /\ u.scopes = t.scopes /\ u.sym = [t.sym EXCEPT ![s] = r]
      /\ u.block_scope = t.block_scope /\ u.function_scope = t.function_scope
      /\ u.file_scope = t.file_scope
  BY <1>1, Fields DEF Put
<1>5. \A q \in SymIds : u.sym[q] = IF q = s THEN r ELSE t.sym[q]
  BY <1>1, <1>2, <1>4, Fields
<1>6. Chained(u)
  <2>1. /\ \A i \in AllIdents : Elems(t.chain[i]) \subseteq SymIds
        /\ \A sc \in 1 .. Len(t.scopes) : Elems(t.scopes[sc].symbols) \subseteq SymIds
    <3>1. /\ \A i \in AllIdents : t.chain[i] \in Seq(SymIds)
          /\ \A sc \in 1 .. Len(t.scopes) : t.scopes[sc] \in Scope
      BY <1>1, Fields
    <3> QED
      BY <3>1 DEF Elems, Scope
  <2>2. \A q \in SymIds : u.sym[q].ident = t.sym[q].ident /\ u.sym[q].scope = t.sym[q].scope
    BY <1>5
  <2>3. \A i \in AllIdents : \A q \in Elems(t.chain[i]) : u.sym[q].ns # "NONE"
    BY <1>1, <1>5, <2>1 DEF Chained
  <2>4. \A i \in AllIdents : NoRepeat(u.chain[i])
    BY <1>1, <1>4 DEF Chained
  <2>5. ASSUME NEW i \in AllIdents, NEW q \in Elems(u.chain[i])
        PROVE  /\ u.sym[q].ident = i /\ u.sym[q].ns # "NONE"
               /\ u.sym[q].scope \in 1 .. Len(u.scopes)
               /\ q \in Elems(u.scopes[u.sym[q].scope].symbols)
    <3>1. /\ t.sym[q].ident = i /\ t.sym[q].scope \in 1 .. Len(t.scopes)
          /\ q \in Elems(t.scopes[t.sym[q].scope].symbols) /\ q \in SymIds
      BY <1>1, <1>4, <2>1 DEF Chained
    <3> QED
      BY <1>4, <2>2, <2>3, <3>1
  <2>6. ASSUME NEW sc \in 1 .. Len(u.scopes), NEW q \in Elems(u.scopes[sc].symbols)
        PROVE  u.sym[q].scope = sc /\ q \in Elems(u.chain[u.sym[q].ident])
    <3>1. t.sym[q].scope = sc /\ q \in Elems(t.chain[t.sym[q].ident]) /\ q \in SymIds
      BY <1>1, <1>4, <2>1 DEF Chained
    <3> QED
      BY <1>4, <2>2, <3>1
  <2> QED
    BY <2>4, <2>5, <2>6 DEF Chained
<1>7. Stacked(u, <<>>)
  BY <1>1, <1>4 DEF Stacked
<1>8. t.file_scope = Len(t.scopes)
  <2>1. <<>> \in Seq({"function", "block"})
    OBVIOUS
  <2> QED
    BY <1>1, <2>1, Tops
<1>9. Inner(u)
  BY <1>3, <1>4, <1>6, <1>8, FlatInner
<1> QED
  BY <1>3, <1>6, <1>7, <1>9 DEF Good

-----------------------------------------------------------------------------
\* u is t, but that symbol s is now of kind k, and has another content.
Alters(t, u, s, k) ==
    \E r \in Symbol : /\ r.ident = t.sym[s].ident /\ r.scope = t.sym[s].scope /\ r.ns = k
                      /\ u = Put(t, s, r)

\* What a #define does to a symbol of a table.
LEMMA Defines ==
    ASSUME NEW b, b \in Table, NEW s \in SymIds, NEW body \in Bodies, NEW attr \in 0 .. 2
    PROVE  Alters(b, [b EXCEPT !.sym[s].body = body, !.sym[s].attr = attr], s, b.sym[s].ns)
<1> DEFINE r == [b.sym[s] EXCEPT !.body = body, !.attr = attr]
<1>1. b.sym \in [SymIds -> Symbol] /\ b.sym[s] \in Symbol
  BY Fields
<1>3. r \in Symbol /\ r.ident = b.sym[s].ident /\ r.scope = b.sym[s].scope /\ r.ns = b.sym[s].ns
  BY <1>1 DEF Symbol
<1>4. [b EXCEPT !.sym[s].body = body, !.sym[s].attr = attr] = Put(b, s, r)
  BY <1>1, Fields DEF Put
<1> QED
  BY <1>3, <1>4 DEF Alters

\* The same of undefined().
LEMMA Undefines ==
    ASSUME NEW b, b \in Table, NEW s \in SymIds, NEW attr \in 0 .. 2
    PROVE  Alters(b, undefined(b, s, attr), s, "UNDEF")
<1> DEFINE r == [b.sym[s] EXCEPT !.ns = "UNDEF", !.used_in = 0, !.attr = attr]
<1>1. b.sym \in [SymIds -> Symbol] /\ b.sym[s] \in Symbol
  BY Fields
<1>3. r \in Symbol /\ r.ident = b.sym[s].ident /\ r.scope = b.sym[s].scope /\ r.ns = "UNDEF"
  BY <1>1 DEF Symbol, Namespaces
<1>4. undefined(b, s, attr) = Put(b, s, r)
  BY <1>1, Fields DEF undefined, Put
<1> QED
  BY <1>3, <1>4 DEF Alters

\* The same of a symbol that is given a namespace of its own.
LEMMA Renames ==
    ASSUME NEW b, b \in Table, NEW s \in SymIds, NEW ns \in Namespaces
    PROVE  Alters(b, [b EXCEPT !.sym[s].ns = ns], s, ns)
<1> DEFINE r == [b.sym[s] EXCEPT !.ns = ns]
<1>1. b.sym \in [SymIds -> Symbol] /\ b.sym[s] \in Symbol
  BY Fields
<1>3. r \in Symbol /\ r.ident = b.sym[s].ident /\ r.scope = b.sym[s].scope /\ r.ns = ns
  BY <1>1 DEF Symbol
<1>4. [b EXCEPT !.sym[s].ns = ns] = Put(b, s, r)
  BY <1>1, Fields DEF Put
<1> QED
  BY <1>3, <1>4 DEF Alters

\* The same of a macro that is used.
LEMMA Uses ==
    ASSUME NEW b, b \in Table, NEW s \in SymIds, NEW sc \in ScopeIds
    PROVE  Alters(b, [b EXCEPT !.sym[s].used_in = sc], s, b.sym[s].ns)
<1> DEFINE r == [b.sym[s] EXCEPT !.used_in = sc]
<1>1. b.sym \in [SymIds -> Symbol] /\ b.sym[s] \in Symbol
  BY Fields
<1>3. r \in Symbol /\ r.ident = b.sym[s].ident /\ r.scope = b.sym[s].scope /\ r.ns = b.sym[s].ns
  BY <1>1 DEF Symbol
<1>4. [b EXCEPT !.sym[s].used_in = sc] = Put(b, s, r)
  BY <1>1, Fields DEF Put
<1> QED
  BY <1>3, <1>4 DEF Alters

-----------------------------------------------------------------------------
\* A new symbol that is then altered.
LEMMA Rebound ==
    ASSUME NEW t, NEW op \in Seq({"function", "block"}), Good(t, op), Free(t) # {},
           NEW id \in AllIdents, NEW ns \in Namespaces \ {"NONE"}, NEW k, k # "NONE",
           Hides(t, id, k, BoundIn(t, ns, TRUE)),
           NEW u, Alters(bind_symbol(t, id, ns, TRUE), u, FirstOf(Free(t)), k)
    PROVE  Good(u, op)
<1> DEFINE b == bind_symbol(t, id, ns, TRUE)
           s == FirstOf(Free(t))
           sc == BoundIn(t, ns, TRUE)
<1>1. Binding(t, b, id, ns, s, sc)
  BY BindGood
<1>2. Hides(t, id, k, sc) /\ Alters(b, u, s, k)
  OBVIOUS
<1> HIDE DEF b, s, sc
<1>3. b \in Table /\ Fresh(t, b, id, s, sc) /\ b.sym[s].ident = id /\ b.sym[s].scope = sc
  BY <1>1 DEF Binding
<1>4. PICK r \in Symbol : r.ident = id /\ r.scope = sc /\ r.ns = k /\ u = Put(b, s, r)
  BY <1>2, <1>3 DEF Alters
<1>5. u \in Table /\ Fresh(t, u, id, s, sc) /\ u.sym[s] = r
  <2>1. r.ident = id /\ r.scope = sc /\ r.ns # "NONE"
    BY <1>4
  <2> QED
    BY <1>3, <2>1, FreshWith, <1>4
<1> QED
  BY <1>2, <1>4, <1>5, FreshGood

\* An old symbol that is altered keeps its place.
LEMMA Altered ==
    ASSUME NEW t, Good(t, <<>>), NEW id \in AllIdents, NEW s \in Elems(t.chain[id]), NEW k, k # "NONE",
           NEW u, Alters(t, u, s, k)
    PROVE  Good(u, <<>>)
<1>1. PICK r \in Symbol :
         r.ident = t.sym[s].ident /\ r.scope = t.sym[s].scope /\ r.ns = k /\ u = Put(t, s, r)
  BY DEF Alters
<1> QED
  BY <1>1, Changed

\* #define.
LEMMA DefineInv ==
    ASSUME Inv, NEW m \in Idents, NEW body \in Bodies, NEW attr \in Attrs,
           do_handle_define(m, body, attr)
    PROVE  Inv'
<1>1. /\ TypeOK /\ Good(tab, <<>>) /\ phase = "preprocess" /\ open = <<>>
      /\ UNCHANGED <<open, current_fn, phase>>
  BY DEF Inv, do_handle_define
<1>2. CASE UNCHANGED tab /\ warned' = FALSE
  BY <1>1, <1>2 DEF Inv, TypeOK
<1>3. CASE /\ Room(1) /\ warned' \in BOOLEAN
           /\ LET b == bind_symbol(tab, m, "MACRO", TRUE)
              IN  tab' = [b EXCEPT !.sym[b.chain[m][1]].body = body, !.sym[b.chain[m][1]].attr = attr]
  <2> DEFINE b == bind_symbol(tab, m, "MACRO", TRUE)
             s == FirstOf(Free(tab))
             sc == BoundIn(tab, "MACRO", TRUE)
  <2>1. Free(tab) # {}
    BY <1>3, RoomIsFree DEF Room
  <2>2. <<>> \in Seq({"function", "block"}) /\ m \in AllIdents /\ "MACRO" \in Namespaces \ {"NONE"}
    BY DEF AllIdents, Namespaces
  <2>3. Binding(tab, b, m, "MACRO", s, sc)
    BY <1>1, <2>1, <2>2, BindGood
  <2>4. tab.file_scope = Len(tab.scopes)
    BY <1>1, <2>2, Tops DEF Good
  <2>5. tab' = [b EXCEPT !.sym[b.chain[m][1]].body = body, !.sym[b.chain[m][1]].attr = attr]
    BY <1>3
  <2> HIDE DEF b, s, sc
  <2>6. /\ b \in Table /\ s \in SymIds /\ b.sym[s].ns = "MACRO"
        /\ tab' = [b EXCEPT !.sym[s].body = body, !.sym[s].attr = attr]
    BY <2>3, <2>5 DEF Binding
  <2>7. Alters(b, tab', s, "MACRO")
    BY <2>6, Defines, ScopeAssumption
  <2>8. Hides(tab, m, "MACRO", sc)
    BY <2>4 DEF Hides
  <2>9. Good(tab', <<>>)
    BY <1>1, <2>1, <2>2, <2>7, <2>8, Rebound DEF b, s, sc
  <2> QED
    BY <1>1, <1>3, <2>9 DEF Inv, TypeOK, Good
<1> QED
  BY <1>2, <1>3 DEF do_handle_define

\* #undef.
LEMMA UndefInv ==
    ASSUME Inv, NEW m \in Idents, NEW attr \in Attrs, do_handle_undef(m, attr)
    PROVE  Inv'
<1> DEFINE s == lookup_symbol(tab, m, {"MACRO", "UNDEF"})
<1>1. /\ TypeOK /\ Good(tab, <<>>) /\ phase = "preprocess" /\ open = <<>>
      /\ UNCHANGED <<open, current_fn, phase>> /\ warned' = FALSE
  BY DEF Inv, do_handle_undef, Quiet
<1>2. <<>> \in Seq({"function", "block"}) /\ m \in AllIdents /\ "MACRO" \in Namespaces \ {"NONE"}
  BY DEF AllIdents, Namespaces
<1>3. CASE UNCHANGED tab
  BY <1>1, <1>3 DEF Inv, TypeOK
<1>4. CASE s # 0 /\ tab' = undefined(tab, s, attr)
  <2>1. tab \in Table
    BY <1>1 DEF Good
  <2>2. s \in Elems(tab.chain[m]) /\ s \in SymIds
    <3>1. s \in Elems(tab.chain[m])
      BY <1>2, <1>4, <2>1, Lookup
    <3>2. tab.chain[m] \in Seq(SymIds)
      BY <1>2, <2>1, Fields
    <3> HIDE DEF s
    <3> QED
      BY <3>1, <3>2 DEF Elems
  <2> HIDE DEF s
  <2>3. Alters(tab, tab', s, "UNDEF")
    BY <1>4, <2>1, <2>2, Undefines, ScopeAssumption
  <2>4. Good(tab', <<>>)
    BY <1>1, <1>2, <2>2, <2>3, Altered
  <2> QED
    BY <1>1, <2>4 DEF Inv, TypeOK, Good
<1>5. CASE /\ Room(1)
           /\ LET b == bind_symbol(tab, m, "MACRO", TRUE) IN tab' = undefined(b, b.chain[m][1], attr)
  <2> DEFINE b == bind_symbol(tab, m, "MACRO", TRUE)
             n == FirstOf(Free(tab))
             sc == BoundIn(tab, "MACRO", TRUE)
  <2>1. Free(tab) # {}
    BY <1>5, RoomIsFree DEF Room
  <2>3. Binding(tab, b, m, "MACRO", n, sc)
    BY <1>1, <1>2, <2>1, BindGood
  <2>4. tab.file_scope = Len(tab.scopes)
    BY <1>1, <1>2, Tops DEF Good
  <2>5. tab' = undefined(b, b.chain[m][1], attr)
    BY <1>5
  <2> HIDE DEF b, n, sc
  <2>6. b \in Table /\ n \in SymIds /\ tab' = undefined(b, n, attr)
    BY <2>3, <2>5 DEF Binding
  <2>7. Alters(b, tab', n, "UNDEF")
    BY <2>6, Undefines, ScopeAssumption
  <2>8. Hides(tab, m, "UNDEF", sc)
    BY <2>4 DEF Hides
  <2>9. Good(tab', <<>>)
    BY <1>1, <1>2, <2>1, <2>7, <2>8, Rebound DEF b, n, sc
  <2> QED
    BY <1>1, <2>9 DEF Inv, TypeOK, Good
<1> QED
  BY <1>3, <1>4, <1>5 DEF do_handle_undef

\* A test or an expansion of a macro.
LEMMA UseInv ==
    ASSUME Inv, NEW m \in Idents, UseMacro(m)
    PROVE  Inv'
<1> DEFINE s == lookup_symbol(tab, m, {"MACRO", "UNDEF"})
<1>1. /\ TypeOK /\ Good(tab, <<>>) /\ phase = "preprocess" /\ open = <<>>
      /\ UNCHANGED <<open, current_fn, phase>> /\ warned' = FALSE
  BY DEF Inv, UseMacro, Quiet
<1>2. m \in AllIdents /\ tab \in Table
  BY <1>1 DEF AllIdents, Good
<1>3. s # 0 /\ tab.sym[s].ns = "MACRO" /\ tab' = [tab EXCEPT !.sym[s].used_in = tab.file_scope]
  BY DEF UseMacro, lookup_macro
<1>4. s \in Elems(tab.chain[m]) /\ s \in SymIds
  <2>1. s \in Elems(tab.chain[m])
    BY <1>2, <1>3, Lookup
  <2>2. tab.chain[m] \in Seq(SymIds)
    BY <1>2, Fields
  <2> HIDE DEF s
  <2> QED
    BY <2>1, <2>2 DEF Elems
<1> HIDE DEF s
<1>5. tab.file_scope \in ScopeIds
  BY <1>2, Fields
<1>6. Alters(tab, tab', s, "MACRO")
  BY <1>2, <1>3, <1>4, <1>5, Uses
<1>7. Good(tab', <<>>)
  BY <1>1, <1>2, <1>4, <1>6, Altered
<1> QED
  BY <1>1, <1>7 DEF Inv, TypeOK, Good

\* A declaration.
LEMMA DeclareInv ==
    ASSUME Inv, NEW i \in Idents, NEW ns \in {"SYMBOL", "TYPEDEF", "STRUCT"}, NEW static \in BOOLEAN,
           phase = "parse", Room(1), tab' = bind_symbol(tab, i, ns, static), Quiet
    PROVE  Inv'
<1>1. TypeOK /\ Good(tab, open) /\ open \in Seq({"function", "block"})
  BY DEF Inv, TypeOK
<1>2. i \in AllIdents /\ ns \in Namespaces \ {"NONE"} /\ Free(tab) # {}
  <2>1. Free(tab) # {}
    BY RoomIsFree DEF Room
  <2> QED
    BY <2>1 DEF AllIdents, Namespaces
<1>3. Hides(tab, i, ns, BoundIn(tab, ns, static))
  BY <1>1, Ordinary
<1>4. Good(tab', open)
  BY <1>1, <1>2, <1>3, BindGood
<1> QED
  BY <1>1, <1>4 DEF Inv, TypeOK, Good, Quiet

\* A label, or a goto to one: no other one is bound.
LEMMA LabelInv ==
    ASSUME Inv, NEW i \in Idents, label_symbol(i)
    PROVE  Inv'
<1>1. /\ TypeOK /\ Good(tab, open) /\ open \in Seq({"function", "block"}) /\ phase = "parse" /\ Quiet
      /\ tab' = bind_symbol(tab, i, "LABEL", FALSE) /\ Room(1)
      /\ lookup_symbol(tab, i, {"LABEL"}) = 0 /\ tab \in Table
  BY DEF Inv, TypeOK, label_symbol, Parsing, Good
<1>2. i \in AllIdents /\ "LABEL" \in Namespaces \ {"NONE"} /\ Free(tab) # {}
  <2>1. Free(tab) # {}
    BY <1>1, RoomIsFree DEF Room
  <2> QED
    BY <2>1 DEF AllIdents, Namespaces
<1>3. \A r \in Elems(tab.chain[i]) : tab.sym[r].ns \notin {"LABEL"}
  BY <1>1, <1>2, Lookup
<1>4. \A r \in Elems(tab.chain[i]) : Class(tab.sym[r].ns) # Class("LABEL")
  BY <1>3 DEF Class
<1>5. Hides(tab, i, "LABEL", BoundIn(tab, "LABEL", FALSE))
  BY <1>4 DEF Hides
<1>6. Good(tab', open)
  BY <1>1, <1>2, <1>5, BindGood
<1> QED
  BY <1>1, <1>6 DEF Inv, TypeOK, Good, Quiet

\* __label__: in the innermost block, which is within a function.
LEMMA LocalLabelInv ==
    ASSUME Inv, NEW i \in Idents, label_statement(i)
    PROVE  Inv'
<1> DEFINE b == bind_symbol(tab, i, "SYMBOL", TRUE)
           n == FirstOf(Free(tab))
           sc == BoundIn(tab, "SYMBOL", TRUE)
<1>1. /\ TypeOK /\ Good(tab, open) /\ open \in Seq({"function", "block"}) /\ phase = "parse" /\ Quiet
      /\ open # <<>> /\ tab' = [b EXCEPT !.sym[b.chain[i][1]].ns = "LABEL"] /\ Room(1) /\ tab \in Table
  BY DEF Inv, TypeOK, label_statement, Parsing, InFunction, Good, bind_as
<1>2. /\ i \in AllIdents /\ "SYMBOL" \in Namespaces \ {"NONE"} /\ "LABEL" \in Namespaces
      /\ Free(tab) # {}
  <2>1. Free(tab) # {}
    BY <1>1, RoomIsFree DEF Room
  <2> QED
    BY <2>1 DEF AllIdents, Namespaces
<1>3. Binding(tab, b, i, "SYMBOL", n, sc)
  BY <1>1, <1>2, BindGood
<1>4. Hides(tab, i, "SYMBOL", sc)
  BY <1>1, Ordinary
<1>5. Hides(tab, i, "LABEL", sc)
  <2>1. tab.file_scope < Len(tab.scopes) /\ Len(tab.scopes) \in Nat /\ tab.block_scope = Len(tab.scopes)
        /\ tab.file_scope \in 1 .. Len(tab.scopes)
    BY <1>1, Tops DEF Good
  <2>2. ~toplevel(tab)
    <3> DEFINE l == Len(tab.scopes)
               f == tab.file_scope
    <3>1. f < l /\ l \in Nat /\ f \in 1 .. l /\ tab.block_scope = l
      BY <2>1
    <3>2. f = tab.file_scope
      OBVIOUS
    <3> HIDE DEF l, f
    <3>3. l # f /\ l # 1
      BY <3>1
    <3> QED
      BY <3>1, <3>2, <3>3 DEF toplevel, Builtin
  <2>3. sc = Len(tab.scopes)
    BY <2>1, <2>2 DEF BoundIn
  <2> QED
    BY <2>3 DEF Hides
<1> HIDE DEF b, n, sc
<1>6. b \in Table /\ n \in SymIds /\ tab' = [b EXCEPT !.sym[n].ns = "LABEL"]
  BY <1>1, <1>3 DEF Binding
<1>7. Alters(b, tab', n, "LABEL")
  BY <1>2, <1>6, Renames
<1>8. Good(tab', open)
  BY <1>1, <1>2, <1>5, <1>7, Rebound DEF b, n, sc
<1> QED
  BY <1>1, <1>8 DEF Inv, TypeOK, Good, Quiet

\* __func__: there is no other one in the chain that it could hide.
LEMMA FuncInv ==
    ASSUME Inv, handle_func
    PROVE  Inv'
<1> DEFINE i == "__func__"
           b == bind_symbol(tab, i, "LABEL", TRUE)
           n == FirstOf(Free(tab))
           sc == BoundIn(tab, "LABEL", TRUE)
<1>1. /\ TypeOK /\ Good(tab, open) /\ open \in Seq({"function", "block"}) /\ phase = "parse" /\ Quiet
      /\ tab' = [b EXCEPT !.sym[b.chain[i][1]].ns = "SYMBOL"] /\ Room(1) /\ tab \in Table
      /\ lookup_symbol(tab, i, {"SYMBOL", "TYPEDEF"}) = 0
  BY DEF Inv, TypeOK, handle_func, Parsing, Good, bind_as
<1>2. /\ i \in AllIdents /\ "LABEL" \in Namespaces \ {"NONE"} /\ "SYMBOL" \in Namespaces
      /\ Free(tab) # {}
  <2>1. Free(tab) # {}
    BY <1>1, RoomIsFree DEF Room
  <2> QED
    BY <2>1 DEF AllIdents, Namespaces, ParserIdents
<1>3. Binding(tab, b, i, "LABEL", n, sc)
  BY <1>1, <1>2, BindGood
<1>4. \A r \in Elems(tab.chain[i]) : tab.sym[r].ns \notin {"SYMBOL", "TYPEDEF"}
  BY <1>1, <1>2, Lookup
<1>5. Hides(tab, i, "SYMBOL", sc)
  <2>1. \A r \in Elems(tab.chain[i]) : tab.sym[r].ns \in Namespaces
    <3>1. tab.chain[i] \in Seq(SymIds) /\ tab.sym \in [SymIds -> Symbol]
      BY <1>1, <1>2, Fields
    <3>2. \A r \in Elems(tab.chain[i]) : tab.sym[r] \in Symbol
      BY <3>1 DEF Elems
    <3> QED
      BY <3>2 DEF Symbol
  <2>2. \A ns \in Namespaces \ {"SYMBOL", "TYPEDEF"} : Class(ns) # Class("SYMBOL")
    BY DEF Class, Namespaces
  <2>3. \A r \in Elems(tab.chain[i]) : Class(tab.sym[r].ns) # Class("SYMBOL")
    BY <1>4, <2>1, <2>2
  <2> QED
    BY <2>3 DEF Hides
<1> HIDE DEF b, n, sc, i
<1>6. b \in Table /\ n \in SymIds /\ tab' = [b EXCEPT !.sym[n].ns = "SYMBOL"]
  BY <1>1, <1>3 DEF Binding
<1>7. Alters(b, tab', n, "SYMBOL")
  BY <1>2, <1>6, Renames
<1>8. Good(tab', open)
  BY <1>1, <1>2, <1>5, <1>7, Rebound DEF b, n, sc
<1> QED
  BY <1>1, <1>8 DEF Inv, TypeOK, Good, Quiet

\* struct, union and enum.
LEMMA StructInv ==
    ASSUME Inv, NEW i \in Idents, NEW w \in BOOLEAN, struct_union_enum_specifier(i, w)
    PROVE  Inv'
<1>1. CASE Room(1) /\ tab' = bind_symbol(tab, i, "STRUCT", FALSE)
  BY <1>1, DeclareInv DEF struct_union_enum_specifier, Parsing
<1>2. CASE UNCHANGED tab
  BY <1>2 DEF Inv, TypeOK, struct_union_enum_specifier, Quiet
<1> QED
  BY <1>1, <1>2 DEF struct_union_enum_specifier

-----------------------------------------------------------------------------
\* One of the free symbols of t is taken.
Taken(t, u) == \E s \in Free(t) : Free(u) = Free(t) \ {s}

\* A symbol of a function or a block that has just been opened.
LEMMA BindOrdinary ==
    ASSUME NEW t, NEW op \in Seq({"function", "block"}), Good(t, op), Free(t) # {},
           NEW id \in AllIdents, NEW ns \in {"SYMBOL", "TYPEDEF", "STRUCT", "ITERATOR"}
    PROVE  /\ Good(bind_symbol(t, id, ns, FALSE), op)
           /\ Taken(t, bind_symbol(t, id, ns, FALSE))
<1> DEFINE u == bind_symbol(t, id, ns, FALSE)
           sc == BoundIn(t, ns, FALSE)
           s == FirstOf(Free(t))
<1>1. ns \in Namespaces \ {"NONE"}
  BY DEF Namespaces
<1>2. Hides(t, id, ns, sc)
  BY Ordinary
<1>3. Binding(t, u, id, ns, s, sc) /\ Good(u, op)
  BY <1>1, <1>2, BindGood
<1>4. s \in Free(t)
  BY FirstFree
<1> HIDE DEF u, s, sc
<1>5. Free(u) = Free(t) \ {s}
  BY <1>3 DEF Binding
<1> QED
  BY <1>3, <1>4, <1>5 DEF u, Taken

\* A function with the arguments args.
LEMMA StartFunctionInv ==
    ASSUME Inv, NEW args \in SUBSET Idents, start_function(args)
    PROVE  Inv'
<1> DEFINE t == start_function_scope(tab)
           u == bind_symbol(t, "return", "ITERATOR", FALSE)
           op == Append(open, "function")
<1>1. /\ TypeOK /\ Good(tab, open) /\ open \in Seq({"function", "block"}) /\ phase = "parse"
      /\ Len(tab.scopes) + 2 <= MaxScopes
      /\ current_fn' = TRUE /\ open' = op /\ UNCHANGED phase /\ warned' = FALSE
  BY DEF Inv, TypeOK, start_function, Parsing, MayOpen
<1>2. /\ Cardinality(Free(tab)) >= 1 + Cardinality(args)
      /\ \/ args = {} /\ tab' = u
         \/ \E a \in args : args = {a} /\ tab' = bind_symbol(u, a, "SYMBOL", FALSE)
  BY DEF start_function, Room
<1>3. op \in Seq({"function", "block"})
  BY <1>1, OpenSeq
<1>4. Good(t, op) /\ Free(t) = Free(tab)
  BY <1>1, OpenFunction
<1>5. "return" \in AllIdents
  BY DEF AllIdents, ParserIdents
<1> HIDE DEF t, u, op
<1>6. ASSUME args = {}, tab' = u PROVE Good(tab', op)
  <2>1. Free(tab) # {}
    <3>1. Cardinality(args) = 0
      BY <1>6, FS_EmptySet
    <3> QED
      BY <1>2, <3>1, RoomIsFree
  <2>2. Free(t) # {}
    BY <1>4, <2>1
  <2>3. Good(u, op)
    BY <1>3, <1>4, <1>5, <2>2, BindOrdinary DEF u
  <2> QED
    BY <1>6, <2>3
<1>7. ASSUME \E a \in args : args = {a} /\ tab' = bind_symbol(u, a, "SYMBOL", FALSE)
      PROVE  Good(tab', op)
  <2>1. PICK a \in args : args = {a} /\ tab' = bind_symbol(u, a, "SYMBOL", FALSE)
    BY <1>7
  <2>2. Cardinality(Free(tab)) >= 2
    <3>1. Cardinality(args) = 1
      BY <2>1, FS_Singleton
    <3> QED
      BY <1>2, <3>1
  <2>3. Free(tab) # {} /\ \A s \in Free(tab) : Free(tab) \ {s} # {}
    BY <2>2, RoomIsFree
  <2>4. Good(u, op) /\ Free(u) # {}
    <3>1. Free(t) # {} /\ \A s \in Free(t) : Free(t) \ {s} # {}
      BY <1>4, <2>3
    <3>2. Good(u, op) /\ Taken(t, u)
      BY <1>3, <1>4, <1>5, <3>1, BindOrdinary DEF u
    <3> QED
      BY <3>1, <3>2 DEF Taken
  <2>5. a \in AllIdents
    BY DEF AllIdents
  <2>6. Good(bind_symbol(u, a, "SYMBOL", FALSE), op)
    BY <1>3, <2>4, <2>5, BindOrdinary
  <2> QED
    BY <2>1, <2>6
<1>8. Good(tab', op)
  BY <1>2, <1>6, <1>7
<1> QED
  BY <1>1, <1>3, <1>8 DEF Inv, TypeOK, Good

\* A compound statement, a loop or a switch.
LEMMA StartBlockInv ==
    ASSUME Inv, NEW binds \in {<<>>, <<"continue", "break">>, <<"break", "case">>}, start_block(binds)
    PROVE  Inv'
<1> DEFINE t == start_symbol_scope(tab)
           u == bind_symbol(t, binds[1], "ITERATOR", FALSE)
           op == Append(open, "block")
<1>1. /\ TypeOK /\ Good(tab, open) /\ open \in Seq({"function", "block"}) /\ phase = "parse"
      /\ Len(tab.scopes) + 1 <= MaxScopes /\ Cardinality(Free(tab)) >= Len(binds)
      /\ open' = op /\ UNCHANGED <<current_fn, phase>> /\ warned' = FALSE
      /\ tab' = IF binds = <<>> THEN t ELSE bind_symbol(u, binds[2], "ITERATOR", FALSE)
  BY DEF Inv, TypeOK, start_block, Parsing, MayOpen, Room
<1>2. op \in Seq({"function", "block"})
  BY <1>1, OpenSeq
<1>3. Good(t, op) /\ Free(t) = Free(tab)
  BY <1>1, OpenBlock
<1> HIDE DEF t, u, op
<1>4. ASSUME binds = <<>> PROVE Good(tab', op)
  BY <1>1, <1>3, <1>4
<1>5. ASSUME binds # <<>> PROVE Good(tab', op)
  <2>1. /\ Len(binds) = 2 /\ binds[1] \in {"continue", "break", "case"}
        /\ binds[2] \in {"continue", "break", "case"}
    BY <1>5
  <2>2. binds[1] \in AllIdents /\ binds[2] \in AllIdents
    BY <2>1 DEF AllIdents, ParserIdents
  <2>3. Free(tab) # {} /\ \A s \in Free(tab) : Free(tab) \ {s} # {}
    BY <1>1, <2>1, RoomIsFree
  <2>4. Good(u, op) /\ Free(u) # {}
    <3>1. Free(t) # {} /\ \A s \in Free(t) : Free(t) \ {s} # {}
      BY <1>3, <2>3
    <3>2. Good(u, op) /\ Taken(t, u)
      BY <1>2, <1>3, <2>2, <3>1, BindOrdinary DEF u
    <3> QED
      BY <3>1, <3>2 DEF Taken
  <2>5. Good(bind_symbol(u, binds[2], "ITERATOR", FALSE), op)
    BY <1>2, <2>2, <2>4, BindOrdinary
  <2> QED
    BY <1>1, <1>5, <2>5
<1>6. Good(tab', op)
  BY <1>4, <1>5
<1> QED
  BY <1>1, <1>2, <1>6 DEF Inv, TypeOK, Good

\* The end of a function ends its two scopes.
LEMMA EndFunctionInv ==
    ASSUME Inv, end_function
    PROVE  Inv'
<1>1. /\ TypeOK /\ Good(tab, open) /\ open \in Seq({"function", "block"}) /\ phase = "parse"
      /\ open # <<>> /\ open[Len(open)] = "function" /\ tab' = end_function_scope(tab)
      /\ open' = SubSeq(open, 1, Len(open) - 1)
      /\ current_fn' = FALSE /\ UNCHANGED phase /\ warned' = FALSE
  BY DEF Inv, TypeOK, end_function, Parsing
<1>2. open' \in Seq({"function", "block"})
  BY <1>1, CloseSeq
<1>3. Good(tab', open')
  BY <1>1, CloseFunction
<1> QED
  BY <1>1, <1>2, <1>3 DEF Inv, TypeOK, Good

\* The end of a compound statement, a loop or a switch.
LEMMA EndBlockInv ==
    ASSUME Inv, end_block
    PROVE  Inv'
<1>1. /\ TypeOK /\ Good(tab, open) /\ open \in Seq({"function", "block"}) /\ phase = "parse"
      /\ open # <<>> /\ open[Len(open)] = "block" /\ tab' = end_symbol_scope(tab)
      /\ open' = SubSeq(open, 1, Len(open) - 1)
      /\ UNCHANGED <<current_fn, phase>> /\ warned' = FALSE
  BY DEF Inv, TypeOK, end_block, Parsing
<1>2. open' \in Seq({"function", "block"})
  BY <1>1, CloseSeq
<1>3. Good(tab', open')
  BY <1>1, CloseBlock
<1> QED
  BY <1>1, <1>2, <1>3 DEF Inv, TypeOK, Good

\* The end of a file, and the next one.
LEMMA NewFileInv ==
    ASSUME Inv, NewFile
    PROVE  Inv'
<1>1. /\ TypeOK /\ Good(tab, <<>>) /\ open = <<>> /\ MaxScopes >= 2 /\ tab' = new_file_scope(tab)
      /\ phase' = "preprocess" /\ UNCHANGED <<open, current_fn>> /\ warned' = FALSE
  BY DEF Inv, NewFile
<1>2. Good(tab', <<>>)
  BY <1>1, NextFile
<1> QED
  BY <1>1, <1>2 DEF Inv, TypeOK, Good

-----------------------------------------------------------------------------
\* At first there is the builtin scope, and it is empty.
LEMMA InitInv ==
    ASSUME Init
    PROVE  Inv
<1>1. /\ tab.chain = [i \in AllIdents |-> <<>>] /\ tab.sym = [s \in SymIds |-> Unbound]
      /\ tab.scopes = <<[next |-> Builtin, symbols |-> <<>>]>>
      /\ tab.block_scope = Builtin /\ tab.function_scope = Builtin /\ tab.file_scope = Builtin
      /\ open = <<>> /\ current_fn = FALSE /\ phase = "preprocess" /\ warned = FALSE
  BY DEF Init
<1>2. Builtin \in ScopeIds /\ Builtin = 1
  BY ScopeAssumption DEF ScopeIds, Builtin
<1>3. Unbound \in Symbol
  BY DEF Unbound, SymbolOf, Symbol, AllIdents, ParserIdents, Namespaces
<1>4. tab \in Table
  <2>1. [i \in AllIdents |-> <<>>] \in [AllIdents -> Seq(SymIds)]
    OBVIOUS
  <2>2. [s \in SymIds |-> Unbound] \in [SymIds -> Symbol]
    BY <1>3
  <2>3. <<[next |-> Builtin, symbols |-> <<>>]>> \in Seq(Scope)
    BY <1>2 DEF Scope
  <2> QED
    BY <1>2, <2>1, <2>2, <2>3 DEF Table, Init
<1>5. Len(tab.scopes) = 1 /\ tab.scopes[1].next = 1 /\ tab.scopes[1].symbols = <<>>
  BY <1>1, <1>2
<1>6. \A id \in AllIdents : tab.chain[id] = <<>>
  BY <1>1
<1>7. Chained(tab)
  BY <1>5, <1>6 DEF Chained, NoRepeat, Elems
<1>8. Stacked(tab, <<>>)
  BY <1>1, <1>2, <1>5, FlatLeveled DEF Stacked
<1>9. Inner(tab)
  BY <1>1, <1>2, <1>4, <1>5, <1>7, FlatInner
<1>10. open \in Seq({"function", "block"}) /\ open = <<>>
  BY <1>1
<1>11. Good(tab, open)
  BY <1>4, <1>7, <1>8, <1>9, <1>10 DEF Good
<1>12. TypeOK
  BY <1>1, <1>4, <1>10 DEF TypeOK
<1> QED
  BY <1>10, <1>11, <1>12 DEF Inv

\* Every step keeps the invariant.
LEMMA StepInv ==
    ASSUME Inv, [Next]_vars
    PROVE  Inv'
<1>1. CASE UNCHANGED vars
  BY <1>1 DEF Inv, TypeOK, vars
<1>2. ASSUME NEW m \in Idents, NEW b \in Bodies, NEW a \in Attrs, do_handle_define(m, b, a)
      PROVE  Inv'
  BY <1>2, DefineInv
<1>3. ASSUME NEW m \in Idents, NEW a \in Attrs \ {WEAK}, do_handle_undef(m, a)
      PROVE  Inv'
  BY <1>3, UndefInv
<1>4. ASSUME NEW m \in Idents, UseMacro(m)
      PROVE  Inv'
  BY <1>4, UseInv
<1>5. ASSUME NEW i \in Idents, NEW ns \in {"SYMBOL", "TYPEDEF"}, NEW st \in BOOLEAN, declare(i, ns, st)
      PROVE  Inv'
  BY <1>5, DeclareInv DEF declare, Parsing
<1>6. ASSUME NEW i \in Idents, NEW w \in BOOLEAN, struct_union_enum_specifier(i, w)
      PROVE  Inv'
  BY <1>6, StructInv
<1>7. ASSUME NEW i \in Idents, label_symbol(i)
      PROVE  Inv'
  BY <1>7, LabelInv
<1>8. ASSUME NEW i \in Idents, label_statement(i)
      PROVE  Inv'
  BY <1>8, LocalLabelInv
<1>9. CASE handle_func
  BY <1>9, FuncInv
<1>10. ASSUME NEW args \in SUBSET Idents, start_function(args)
       PROVE  Inv'
  BY <1>10, StartFunctionInv
<1>11. CASE end_function
  BY <1>11, EndFunctionInv
<1>12. CASE compound_statement \/ start_iterator \/ start_switch
  BY <1>12, StartBlockInv DEF compound_statement, start_iterator, start_switch
<1>13. CASE end_block
  BY <1>13, EndBlockInv
<1>14. CASE EndOfPreprocessing
  BY <1>14 DEF EndOfPreprocessing, Inv, TypeOK
<1>15. CASE NewFile
  BY <1>15, NewFileInv
<1> QED
  BY <1>1, <1>2, <1>3, <1>4, <1>5, <1>6, <1>7, <1>8, <1>9, <1>10, <1>11, <1>12, <1>13, <1>14, <1>15
     DEF Next

\* Inv is an invariant of the specification.
THEOREM Invariance == Spec => []Inv
<1>1. Init => Inv
  BY InitInv
<1>2. Inv /\ [Next]_vars => Inv'
  BY StepInv
<1> QED
  BY <1>1, <1>2, PTL DEF Spec

\* The tables, the parser's state and the phase keep their types.
THEOREM TypeCorrect == Spec => []TypeOK
<1>1. Inv => TypeOK
  BY DEF Inv
<1> QED
  BY <1>1, Invariance, PTL

\* No symbol is in a chain twice, and a chain and the list of a scope agree.
LEMMA ChainedMatches ==
    ASSUME tab \in Table, Chained(tab)
    PROVE  ChainsMatchScopes
<1>1. ASSUME NEW sc \in 1 .. Len(tab.scopes), NEW s \in Elems(tab.scopes[sc].symbols)
      PROVE  /\ tab.sym[s].scope = sc
             /\ Cardinality({i \in 1 .. Len(tab.chain[tab.sym[s].ident]) :
                                tab.chain[tab.sym[s].ident][i] = s}) = 1
  <2> DEFINE c == tab.chain[tab.sym[s].ident]
  <2>1. tab.sym[s].scope = sc /\ s \in Elems(c)
    BY DEF Chained
  <2>2. NoRepeat(c)
    <3>1. tab.scopes[sc] \in Scope
      BY Fields
    <3>2. s \in SymIds
      BY <3>1 DEF Scope, Elems
    <3>3. tab.sym[s] \in Symbol
      BY <3>2, Fields
    <3>4. tab.sym[s].ident \in AllIdents
      BY <3>3 DEF Symbol
    <3> QED
      BY <3>4 DEF Chained
  <2> HIDE DEF c
  <2>3. PICK k \in 1 .. Len(c) : c[k] = s
    BY <2>1 DEF Elems
  <2>4. {i \in 1 .. Len(c) : c[i] = s} = {k}
    BY <2>2, <2>3 DEF NoRepeat
  <2>5. Cardinality({i \in 1 .. Len(c) : c[i] = s}) = 1
    BY <2>4, FS_Singleton
  <2> QED
    BY <2>1, <2>5 DEF c
<1>2. ASSUME NEW id \in AllIdents, NEW s \in Elems(tab.chain[id])
      PROVE  /\ tab.sym[s].ident = id /\ tab.sym[s].scope \in 1 .. Len(tab.scopes)
             /\ s \in Elems(tab.scopes[tab.sym[s].scope].symbols)
  BY DEF Chained
<1> QED
  BY <1>1, <1>2 DEF ChainsMatchScopes

\* Whatever is defined, declared, opened and ended, remove_symbol_scope finds
\* each symbol of a scope in the chain of its identifier, once, and no symbol
\* outlives its scope.
THEOREM ChainsCorrect == Spec => []ChainsMatchScopes
<1>1. Inv => ChainsMatchScopes
  BY ChainedMatches DEF Inv, Good
<1> QED
  BY <1>1, Invariance, PTL

\* A lookup finds the innermost of the bindings it takes together.
THEOREM InnermostCorrect == Spec => []InnermostWins
<1>1. Inv => InnermostWins
  BY DEF Inv, Good, Inner, InnermostWins
<1> QED
  BY <1>1, Invariance, PTL

-----------------------------------------------------------------------------
\* SymbolScope implements MacroSpec: chains and scopes are a table of macros that
\* every source file starts afresh from the builtin one.  What a chain says of a
\* macro is said by its first symbol of that kind; whatever the parser binds and
\* ends around it changes nothing, because macros are only in the builtin scope
\* and in the scope of the file.

IsMacro(r) == r.ns \in {"MACRO", "UNDEF"}
Nothing == [body |-> NoBody, attr |-> 0]
Content(r) == IF r.ns = "UNDEF" THEN Nothing ELSE [body |-> r.body, attr |-> r.attr]

\* Symbol i of the chain of id is a macro of one of the scopes S.
Hit(t, id, S, i) == IsMacro(t.sym[t.chain[id][i]]) /\ t.sym[t.chain[id][i]].scope \in S

\* ... and the first one.
First(t, id, S, i) == Hit(t, id, S, i) /\ \A j \in 1 .. i - 1 : ~Hit(t, id, S, j)

\* What the scopes S say of id is d.
Says(t, id, S, d) ==
    \/ d = Nothing /\ \A i \in 1 .. Len(t.chain[id]) : ~Hit(t, id, S, i)
    \/ \E i \in 1 .. Len(t.chain[id]) :
          First(t, id, S, i) /\ d = Content(t.sym[t.chain[id][i]])

\* Macros are of the builtin scope or of the file.
Placed(t) ==
    \A id \in AllIdents : \A s \in Elems(t.chain[id]) :
        IsMacro(t.sym[s]) => t.sym[s].scope \in {Builtin, t.file_scope}

\* u says what t says.
Keeps(t, u) ==
    /\ u.file_scope = t.file_scope /\ (Placed(t) => Placed(u))
    /\ \A id \in AllIdents : \A S, d : Says(t, id, S, d) => Says(u, id, S, d)

\* Something is said of every identifier.
LEMMA SaysSome ==
    ASSUME NEW t, t \in Table, NEW id \in AllIdents, NEW S
    PROVE  \E d : Says(t, id, S, d)
<1> DEFINE H == {i \in 1 .. Len(t.chain[id]) : Hit(t, id, S, i)}
<1>1. CASE H = {}
  BY <1>1 DEF Says
<1>2. CASE H # {}
  <2>1. H \subseteq Nat
    OBVIOUS
  <2>2. PICK i \in H : \A j \in H : i <= j
    <3> HIDE DEF H
    <3> QED
      BY <1>2, <2>1, Least
  <2>3. Len(t.chain[id]) \in Nat
    BY Fields
  <2>4. \A j \in 1 .. i - 1 : j \in 1 .. Len(t.chain[id]) /\ ~(i <= j)
    BY <2>2, <2>3
  <2>5. First(t, id, S, i)
    BY <2>2, <2>4 DEF First
  <2> QED
    BY <2>2, <2>5 DEF Says
<1> QED
  BY <1>1, <1>2

\* The first of a set of numbers is the least one.
LEMMA FirstIs ==
    ASSUME NEW I, I \subseteq Nat, NEW i \in I, \A j \in I : i <= j
    PROVE  FirstOf(I) = i
<1>1. \A k \in I : (\A j \in I : k <= j) => k = i
  <2> TAKE k \in I
  <2>1. (k <= i /\ i <= k) => k = i
    OBVIOUS
  <2> QED
    BY <2>1
<1> QED
  BY <1>1 DEF FirstOf

\* And that is the meaning of a macro, here and in every new file.
LEMMA SaysMeaning ==
    ASSUME NEW t, t \in Table, NEW id \in AllIdents, NEW d
    PROVE  /\ Says(t, id, Nat, d) => Meaning(t, id) = d
           /\ Says(t, id, {Builtin}, d) => MeaningOf(t, id, OnlyBuiltin) = d
<1> DEFINE hits == {i \in 1 .. Len(t.chain[id]) :
                       /\ t.sym[t.chain[id][i]].ns \in {"MACRO", "UNDEF"}
                       /\ AnyScope(t.sym[t.chain[id][i]].scope)}
           base == {i \in 1 .. Len(t.chain[id]) :
                       /\ t.sym[t.chain[id][i]].ns \in {"MACRO", "UNDEF"}
                       /\ OnlyBuiltin(t.sym[t.chain[id][i]].scope)}
<1>1. \A i \in 1 .. Len(t.chain[id]) : t.sym[t.chain[id][i]].scope \in Nat
  <2>1. t.chain[id] \in Seq(SymIds) /\ t.sym \in [SymIds -> Symbol]
    BY Fields
  <2>2. \A i \in 1 .. Len(t.chain[id]) : t.sym[t.chain[id][i]] \in Symbol
    BY <2>1
  <2>3. ScopeIds \cup {0} \subseteq Nat
    BY DEF ScopeIds
  <2> QED
    BY <2>2, <2>3 DEF Symbol
<1>2. hits = {i \in 1 .. Len(t.chain[id]) : Hit(t, id, Nat, i)}
  BY <1>1 DEF Hit, IsMacro, AnyScope
<1>3. base = {i \in 1 .. Len(t.chain[id]) : Hit(t, id, {Builtin}, i)}
  BY DEF Hit, IsMacro, OnlyBuiltin
<1>4. Meaning(t, id) = IF hits = {} \/ t.sym[t.chain[id][FirstOf(hits)]].ns = "UNDEF" THEN Nothing
                       ELSE [body |-> t.sym[t.chain[id][FirstOf(hits)]].body,
                             attr |-> t.sym[t.chain[id][FirstOf(hits)]].attr]
  BY DEF Meaning, MeaningOf, Nothing
<1>5. MeaningOf(t, id, OnlyBuiltin) =
         IF base = {} \/ t.sym[t.chain[id][FirstOf(base)]].ns = "UNDEF" THEN Nothing
         ELSE [body |-> t.sym[t.chain[id][FirstOf(base)]].body,
               attr |-> t.sym[t.chain[id][FirstOf(base)]].attr]
  BY DEF MeaningOf, Nothing
<1>6. ASSUME NEW S, NEW H, H = {i \in 1 .. Len(t.chain[id]) : Hit(t, id, S, i)},
             NEW i \in 1 .. Len(t.chain[id]), First(t, id, S, i)
      PROVE  H # {} /\ FirstOf(H) = i
  <2>1. i \in H /\ H \subseteq Nat
    BY <1>6 DEF First
  <2>2. \A j \in H : j \in 1 .. Len(t.chain[id]) /\ Hit(t, id, S, j)
    BY <1>6
  <2>3. \A j \in H : ~(j \in 1 .. i - 1)
    BY <1>6, <2>2 DEF First
  <2>4. \A j \in H : i <= j
    BY <2>1, <2>2, <2>3
  <2> QED
    BY <2>1, <2>4, FirstIs
<1> HIDE DEF hits, base
<1>7. Says(t, id, Nat, d) => Meaning(t, id) = d
  BY <1>2, <1>4, <1>6 DEF Says, Content
<1>8. Says(t, id, {Builtin}, d) => MeaningOf(t, id, OnlyBuiltin) = d
  BY <1>3, <1>5, <1>6 DEF Says, Content
<1> QED
  BY <1>7, <1>8

-----------------------------------------------------------------------------
\* A chain of the same symbols, of which those that are hit are the same, says
\* the same.
LEMMA SameSays ==
    ASSUME NEW t, NEW u, NEW id, NEW S, NEW d, u.chain[id] = t.chain[id],
           \A r \in Elems(t.chain[id]) :
              /\ (IsMacro(u.sym[r]) /\ u.sym[r].scope \in S) <=> (IsMacro(t.sym[r]) /\ t.sym[r].scope \in S)
              /\ IsMacro(t.sym[r]) /\ t.sym[r].scope \in S => Content(u.sym[r]) = Content(t.sym[r]),
           Len(t.chain[id]) \in Nat, Says(t, id, S, d)
    PROVE  Says(u, id, S, d)
<1>1. \A i \in 1 .. Len(t.chain[id]) : t.chain[id][i] \in Elems(t.chain[id])
  BY DEF Elems
<1>2. \A i \in 1 .. Len(t.chain[id]) : Hit(u, id, S, i) <=> Hit(t, id, S, i)
  BY <1>1 DEF Hit
<1>3. \A i \in 1 .. Len(t.chain[id]) : \A j \in 1 .. i - 1 : j \in 1 .. Len(t.chain[id])
  OBVIOUS
<1>4. \A i \in 1 .. Len(t.chain[id]) : First(t, id, S, i) =>
         First(u, id, S, i) /\ Content(u.sym[u.chain[id][i]]) = Content(t.sym[t.chain[id][i]])
  <2> TAKE i \in 1 .. Len(t.chain[id])
  <2> HAVE First(t, id, S, i)
  <2>1. Hit(t, id, S, i) /\ \A j \in 1 .. i - 1 : ~Hit(t, id, S, j)
    BY DEF First
  <2>2. First(u, id, S, i)
    BY <1>2, <1>3, <2>1 DEF First
  <2>3. Content(u.sym[u.chain[id][i]]) = Content(t.sym[t.chain[id][i]])
    BY <1>1, <2>1 DEF Hit
  <2> QED
    BY <2>2, <2>3
<1>5. CASE d = Nothing /\ \A i \in 1 .. Len(t.chain[id]) : ~Hit(t, id, S, i)
  BY <1>2, <1>5 DEF Says
<1>6. CASE \E i \in 1 .. Len(t.chain[id]) : First(t, id, S, i) /\ d = Content(t.sym[t.chain[id][i]])
  <2>1. PICK i \in 1 .. Len(t.chain[id]) : First(t, id, S, i) /\ d = Content(t.sym[t.chain[id][i]])
    BY <1>6
  <2>2. i \in 1 .. Len(u.chain[id]) /\ First(u, id, S, i) /\ d = Content(u.sym[u.chain[id][i]])
    BY <1>4, <2>1
  <2> QED
    BY <2>2 DEF Says
<1> QED
  BY <1>5, <1>6 DEF Says

\* The elements of a chain are symbols, and bound.
LEMMA InChain ==
    ASSUME NEW t, t \in Table, Chained(t), NEW id \in AllIdents, NEW r \in Elems(t.chain[id])
    PROVE  /\ r \in SymIds /\ t.sym[r] \in Symbol /\ t.sym[r].ident = id /\ t.sym[r].ns # "NONE"
           /\ t.sym[r].scope \in 1 .. Len(t.scopes) /\ t.sym[r].scope \in Nat
<1>1. t.chain[id] \in Seq(SymIds) /\ t.sym \in [SymIds -> Symbol] /\ Len(t.scopes) \in Nat
  BY Fields
<1>2. r \in SymIds
  BY <1>1 DEF Elems
<1>3. t.sym[r].ident = id /\ t.sym[r].ns # "NONE" /\ t.sym[r].scope \in 1 .. Len(t.scopes)
  BY DEF Chained
<1> QED
  BY <1>1, <1>2, <1>3

\* Where the new symbol is not hit, what was said is still said.
LEMMA FreshSays ==
    ASSUME NEW t, t \in Table, Chained(t), NEW u, NEW id \in AllIdents, NEW s, NEW sc,
           Fresh(t, u, id, s, sc), NEW i \in AllIdents, NEW S, NEW d, Says(t, i, S, d),
           i # id \/ ~IsMacro(u.sym[s]) \/ sc \notin S
    PROVE  Says(u, i, S, d)
<1>1. Parts(t, u, id, s, sc) /\ u.sym[s].scope = sc /\ \A r \in SymIds : r # s => u.sym[r] = t.sym[r]
  BY FreshParts DEF Fresh
<1>2. t.chain[i] \in Seq(SymIds) /\ Len(t.chain[i]) \in Nat
  BY Fields
<1>3. \A r \in Elems(t.chain[i]) : u.sym[r] = t.sym[r]
  <2> TAKE r \in Elems(t.chain[i])
  <2>1. r \in SymIds /\ t.sym[r].ns # "NONE"
    BY InChain
  <2>2. r # s
    BY <1>1, <2>1 DEF Parts
  <2> QED
    BY <1>1, <2>1, <2>2
<1>4. CASE i # id
  <2>1. u.chain[i] = t.chain[i]
    BY <1>1, <1>4 DEF Parts
  <2> QED
    BY <1>2, <1>3, <2>1, SameSays
<1>5. CASE i = id
  <2> DEFINE c == t.chain[i]
             e == u.chain[i]
  <2>1. e = <<s>> \o c /\ s \in SymIds /\ c \in Seq(SymIds)
    BY <1>1, <1>2, <1>5 DEF Parts
  <2>2. /\ Len(e) = Len(c) + 1 /\ e[1] = s /\ Len(c) \in Nat
        /\ \A j \in 1 .. Len(c) : j + 1 \in 1 .. Len(e) /\ e[j + 1] = c[j]
        /\ \A j \in 1 .. Len(e) : j = 1 \/ j - 1 \in 1 .. Len(c)
    <3> HIDE DEF c, e
    <3>1. /\ Len(<<s>> \o c) = Len(c) + 1 /\ (<<s>> \o c)[1] = s
          /\ \A j \in 1 .. Len(c) : (<<s>> \o c)[j + 1] = c[j]
          /\ \A j \in 1 .. Len(c) + 1 : j = 1 \/ j - 1 \in 1 .. Len(c)
      BY <2>1, Prepended
    <3>2. Len(c) \in Nat /\ \A j \in 1 .. Len(c) : j + 1 \in 1 .. Len(c) + 1
      BY <2>1
    <3> QED
      BY <2>1, <3>1, <3>2
  <2>3. ~Hit(u, i, S, 1)
    BY <1>1, <1>5, <2>2 DEF Hit
  <2>4. \A j \in 1 .. Len(c) : Hit(u, i, S, j + 1) <=> Hit(t, i, S, j)
    <3> TAKE j \in 1 .. Len(c)
    <3>1. c[j] \in Elems(t.chain[i])
      BY DEF Elems
    <3> QED
      BY <1>3, <2>2, <3>1 DEF Hit
  <2>5. CASE d = Nothing /\ \A j \in 1 .. Len(t.chain[i]) : ~Hit(t, i, S, j)
    <3>1. \A j \in 1 .. Len(e) : ~Hit(u, i, S, j)
      <4> TAKE j \in 1 .. Len(e)
      <4>1. j = 1 \/ (j - 1 \in 1 .. Len(c) /\ (j - 1) + 1 = j)
        BY <2>2
      <4> QED
        BY <2>3, <2>4, <2>5, <4>1
    <3> QED
      BY <2>5, <3>1 DEF Says
  <2>6. CASE \E j \in 1 .. Len(t.chain[i]) : First(t, i, S, j) /\ d = Content(t.sym[t.chain[i][j]])
    <3>1. PICK j \in 1 .. Len(c) : First(t, i, S, j) /\ d = Content(t.sym[c[j]])
      BY <2>6
    <3>2. c[j] \in Elems(t.chain[i])
      BY DEF Elems
    <3>3. j + 1 \in 1 .. Len(e) /\ d = Content(u.sym[e[j + 1]])
      BY <1>3, <2>2, <3>1, <3>2
    <3>4. \A k \in 1 .. (j + 1) - 1 : k = 1 \/ (k - 1 \in 1 .. j - 1 /\ k - 1 \in 1 .. Len(c) /\ (k - 1) + 1 = k)
      BY <2>2
    <3>5. First(u, i, S, j + 1)
      BY <2>3, <2>4, <3>1, <3>4 DEF First
    <3> QED
      BY <3>3, <3>5 DEF Says
  <2> QED
    BY <2>5, <2>6 DEF Says
<1> QED
  BY <1>4, <1>5

\* Where it is hit it is what is said.
LEMMA FreshHit ==
    ASSUME NEW t, t \in Table, NEW u, NEW id \in AllIdents, NEW s, NEW sc, Fresh(t, u, id, s, sc),
           NEW S, IsMacro(u.sym[s]), sc \in S
    PROVE  Says(u, id, S, Content(u.sym[s]))
<1>1. Parts(t, u, id, s, sc) /\ u.sym[s].scope = sc /\ t.chain[id] \in Seq(SymIds)
  <2>1. u.sym[s].scope = sc
    BY DEF Fresh
  <2> QED
    BY <2>1, FreshParts, Fields
<1>2. u.chain[id][1] = s /\ 1 \in 1 .. Len(u.chain[id])
  <2>1. u.chain[id] = <<s>> \o t.chain[id] /\ s \in SymIds
    BY <1>1 DEF Parts
  <2>2. Len(u.chain[id]) = Len(t.chain[id]) + 1 /\ Len(t.chain[id]) \in Nat /\ u.chain[id][1] = s
    BY <1>1, <2>1, Prepended
  <2> QED
    BY <2>2
<1>3. Hit(u, id, S, 1)
  BY <1>1, <1>2 DEF Hit
<1>4. First(u, id, S, 1)
  BY <1>3 DEF First
<1> QED
  BY <1>2, <1>4 DEF Says

\* A new symbol, be it a macro, is placed.
LEMMA FreshPlaced ==
    ASSUME NEW t, t \in Table, Chained(t), NEW u, NEW id \in AllIdents, NEW s, NEW sc,
           Fresh(t, u, id, s, sc), Placed(t), ~IsMacro(u.sym[s]) \/ sc \in {Builtin, t.file_scope}
    PROVE  Placed(u)
<1>1. /\ Parts(t, u, id, s, sc) /\ u.sym[s].scope = sc /\ u.file_scope = t.file_scope
      /\ \A r \in SymIds : r # s => u.sym[r] = t.sym[r]
  BY FreshParts DEF Fresh
<1> SUFFICES ASSUME NEW i \in AllIdents, NEW r \in Elems(u.chain[i]), IsMacro(u.sym[r])
             PROVE  u.sym[r].scope \in {Builtin, u.file_scope}
  BY DEF Placed
<1>2. r = s \/ r \in Elems(t.chain[i])
  BY <1>1 DEF Parts
<1>3. CASE r = s
  BY <1>1, <1>3
<1>4. CASE r # s
  <2>1. r \in Elems(t.chain[i]) /\ r \in SymIds
    BY <1>2, <1>4, InChain
  <2>2. u.sym[r] = t.sym[r]
    BY <1>1, <1>4, <2>1
  <2> QED
    BY <1>1, <2>1, <2>2 DEF Placed
<1> QED
  BY <1>3, <1>4

\* So the parser's symbols change nothing.
LEMMA FreshKeeps ==
    ASSUME NEW t, t \in Table, Chained(t), NEW u, NEW id \in AllIdents, NEW s, NEW sc,
           Fresh(t, u, id, s, sc), ~IsMacro(u.sym[s])
    PROVE  Keeps(t, u)
<1>1. u.file_scope = t.file_scope
  BY DEF Fresh
<1> QED
  BY <1>1, FreshSays, FreshPlaced DEF Keeps

-----------------------------------------------------------------------------
\* A scope ends that has no macro among the scopes S.
LEMMA EndedSays ==
    ASSUME NEW t, t \in Table, Chained(t), NEW u, NEW sc \in 1 .. Len(t.scopes), Ended(t, u, sc),
           NEW S, \A r \in Elems(t.scopes[sc].symbols) : ~(IsMacro(t.sym[r]) /\ t.sym[r].scope \in S),
           NEW id \in AllIdents, NEW d, Says(t, id, S, d)
    PROVE  Says(u, id, S, d)
<1> DEFINE gone == Elems(t.scopes[sc].symbols)
           c == t.chain[id]
           e == u.chain[id]
<1>1. PICK k : Picks(k, e, c, Len(c), gone)
  BY EndedParts DEF KeptParts
<1>2. c \in Seq(SymIds) /\ Len(c) \in Nat /\ Len(e) \in Nat
  <2>1. e \in Seq(SymIds)
    BY EndedParts DEF KeptParts
  <2> QED
    BY <2>1, Fields
<1>3. \A r \in SymIds : r \notin gone => u.sym[r] = t.sym[r]
  BY DEF Ended
<1>4. \A i \in 1 .. Len(e) : /\ k[i] \in 1 .. Len(c) /\ e[i] = c[k[i]] /\ e[i] \notin gone
                             /\ u.sym[e[i]] = t.sym[c[k[i]]]
  <2> TAKE i \in 1 .. Len(e)
  <2>1. k[i] \in 1 .. Len(c) /\ e[i] = c[k[i]] /\ e[i] \notin gone
    <3> HIDE DEF c, e, gone
    <3> QED
      BY <1>1 DEF Picks
  <2>2. e[i] \in SymIds
    <3> HIDE DEF c, e, gone
    <3> QED
      BY <1>2, <2>1
  <2> QED
    BY <1>3, <2>1, <2>2
<1>5. \A i \in 1 .. Len(e) : Hit(u, id, S, i) <=> Hit(t, id, S, k[i])
  BY <1>4 DEF Hit
<1>6. CASE d = Nothing /\ \A i \in 1 .. Len(t.chain[id]) : ~Hit(t, id, S, i)
  <2>1. \A i \in 1 .. Len(e) : ~Hit(u, id, S, i)
    BY <1>4, <1>5, <1>6
  <2> QED
    BY <1>6, <2>1 DEF Says
<1>7. CASE \E i \in 1 .. Len(t.chain[id]) : First(t, id, S, i) /\ d = Content(t.sym[t.chain[id][i]])
  <2>1. PICK i \in 1 .. Len(c) : First(t, id, S, i) /\ d = Content(t.sym[c[i]])
    BY <1>7
  <2>2. c[i] \notin gone
    BY <2>1 DEF First, Hit
  <2>3. PICK j \in 1 .. Len(e) : k[j] = i
    <3> HIDE DEF c, e, gone
    <3> QED
      BY <1>1, <2>2 DEF Picks
  <2>4. \A l \in 1 .. j - 1 : l \in 1 .. Len(e) /\ k[l] \in 1 .. i - 1
    <3> HIDE DEF c, e, gone
    <3> TAKE l \in 1 .. j - 1
    <3>1. l \in 1 .. Len(e) /\ l < j
      BY <1>2
    <3>2. k[l] < k[j]
      BY <1>1, <3>1 DEF Picks
    <3>3. k[l] \in 1 .. Len(c)
      BY <1>4, <3>1
    <3> QED
      BY <1>2, <2>3, <3>1, <3>2, <3>3
  <2>5. First(u, id, S, j)
    BY <1>5, <2>1, <2>3, <2>4 DEF First
  <2>6. d = Content(u.sym[e[j]])
    BY <1>4, <2>1, <2>3
  <2> QED
    BY <2>5, <2>6 DEF Says
<1> QED
  BY <1>6, <1>7 DEF Says

\* A scope within the file ends; it has no macro.
LEMMA EndedKeeps ==
    ASSUME NEW t, t \in Table, Chained(t), Placed(t), NEW u, NEW sc \in 1 .. Len(t.scopes),
           Ended(t, u, sc), sc \notin {Builtin, t.file_scope}, u.file_scope = t.file_scope
    PROVE  Keeps(t, u)
<1>1. \A r \in Elems(t.scopes[sc].symbols) : ~IsMacro(t.sym[r])
  <2> TAKE r \in Elems(t.scopes[sc].symbols)
  <2>1. t.scopes[sc] \in Scope
    BY Fields
  <2>2. r \in SymIds
    BY <2>1 DEF Elems, Scope
  <2>3. t.sym[r] \in Symbol
    BY <2>2, Fields
  <2>4. t.sym[r].ident \in AllIdents
    BY <2>3 DEF Symbol
  <2>5. t.sym[r].scope = sc /\ r \in Elems(t.chain[t.sym[r].ident])
    BY DEF Chained
  <2> QED
    BY <2>4, <2>5 DEF Placed
<1>2. \A id \in AllIdents : \A S, d : Says(t, id, S, d) => Says(u, id, S, d)
  BY <1>1, EndedSays
<1>3. Placed(u)
  <2> SUFFICES ASSUME NEW id \in AllIdents, NEW r \in Elems(u.chain[id]), IsMacro(u.sym[r])
               PROVE  u.sym[r].scope \in {Builtin, u.file_scope}
    BY DEF Placed
  <2>1. r \in Elems(t.chain[id]) /\ r \notin Elems(t.scopes[sc].symbols)
    <3>1. KeptParts(t, u, sc, Elems(t.scopes[sc].symbols))
      BY EndedParts
    <3>2. Elems(u.chain[id]) = Elems(t.chain[id]) \ Elems(t.scopes[sc].symbols)
      BY <3>1 DEF KeptParts
    <3> QED
      BY <3>2
  <2>2. r \in SymIds
    BY <2>1, InChain
  <2>3. u.sym[r] = t.sym[r]
    BY <2>1, <2>2 DEF Ended
  <2> QED
    BY <2>1, <2>3 DEF Placed
<1> QED
  BY <1>2, <1>3 DEF Keeps

\* Nothing changes with a scope that is pushed, or another current scope.
LEMMA SameKeeps ==
    ASSUME NEW t, NEW u, u.chain = t.chain, u.sym = t.sym, u.file_scope = t.file_scope
    PROVE  Keeps(t, u)
<1>1. \A id, S, i : Hit(u, id, S, i) <=> Hit(t, id, S, i)
  BY DEF Hit
<1>2. \A id, S, i : First(u, id, S, i) <=> First(t, id, S, i)
  BY <1>1 DEF First
<1>3. \A id, S, d : Says(u, id, S, d) <=> Says(t, id, S, d)
  BY <1>1, <1>2 DEF Says
<1>4. Placed(t) => Placed(u)
  BY DEF Placed
<1> QED
  BY <1>3, <1>4 DEF Keeps

\* One change after the other.
LEMMA KeepsOn ==
    ASSUME NEW t, NEW u, NEW v, Keeps(t, u), Keeps(u, v)
    PROVE  Keeps(t, v)
BY DEF Keeps

\* used_in says nothing.
LEMMA UseKeeps ==
    ASSUME NEW t, t \in Table, Chained(t), NEW s \in SymIds, NEW sc \in ScopeIds,
           NEW u, u = [t EXCEPT !.sym[s].used_in = sc]
    PROVE  Keeps(t, u)
<1>1. u.chain = t.chain /\ u.file_scope = t.file_scope /\ u.sym = [t.sym EXCEPT ![s].used_in = sc]
  BY Fields
<1>2. \A r \in SymIds : /\ u.sym[r].ns = t.sym[r].ns /\ u.sym[r].scope = t.sym[r].scope
                        /\ u.sym[r].body = t.sym[r].body /\ u.sym[r].attr = t.sym[r].attr
  <2> TAKE r \in SymIds
  <2>1. t.sym \in [SymIds -> Symbol] /\ t.sym[s] \in Symbol
    BY Fields
  <2>2. u.sym[r] = IF r = s THEN [t.sym[s] EXCEPT !.used_in = sc] ELSE t.sym[r]
    BY <1>1, <2>1
  <2> QED
    BY <2>1, <2>2 DEF Symbol
<1>3. \A id \in AllIdents : \A r \in Elems(t.chain[id]) :
         /\ IsMacro(u.sym[r]) <=> IsMacro(t.sym[r])
         /\ u.sym[r].scope = t.sym[r].scope /\ Content(u.sym[r]) = Content(t.sym[r])
  BY <1>2, InChain DEF IsMacro, Content
<1>4. Placed(t) => Placed(u)
  BY <1>1, <1>3 DEF Placed
<1>5. ASSUME NEW id \in AllIdents, NEW S, NEW d, Says(t, id, S, d)
      PROVE  Says(u, id, S, d)
  <2>1. u.chain[id] = t.chain[id] /\ Len(t.chain[id]) \in Nat
    BY <1>1, Fields
  <2> QED
    BY <1>3, <1>5, <2>1, SameSays
<1> QED
  BY <1>1, <1>4, <1>5 DEF Keeps

\* s is the first symbol in the chain of id that is of one of the namespaces.
Finds(t, id, spaces, s) ==
    \/ s = 0 /\ \A i \in 1 .. Len(t.chain[id]) : t.sym[t.chain[id][i]].ns \notin spaces
    \/ s # 0 /\ \E i \in 1 .. Len(t.chain[id]) :
          /\ s = t.chain[id][i] /\ t.sym[s].ns \in spaces
          /\ \A j \in 1 .. i - 1 : t.sym[t.chain[id][j]].ns \notin spaces

\* A lookup finds it.
LEMMA LookupFirst ==
    ASSUME NEW t, t \in Table, NEW id \in AllIdents, NEW spaces
    PROVE  Finds(t, id, spaces, lookup_symbol(t, id, spaces))
<1> DEFINE hits == {i \in 1 .. Len(t.chain[id]) : t.sym[t.chain[id][i]].ns \in spaces}
           s == lookup_symbol(t, id, spaces)
<1>1. t.chain[id] \in Seq(SymIds) /\ Len(t.chain[id]) \in Nat
  BY Fields
<1>2. CASE hits = {}
  <2>1. s = 0
    BY <1>2 DEF lookup_symbol
  <2> HIDE DEF s
  <2>2. Finds(t, id, spaces, s)
    BY <1>2, <2>1 DEF Finds
  <2> QED
    BY <2>2 DEF s
<1>3. CASE hits # {}
  <2>1. hits \subseteq Nat
    OBVIOUS
  <2>2. PICK i \in hits : \A j \in hits : i <= j
    <3> HIDE DEF hits
    <3> QED
      BY <1>3, <2>1, Least
  <2>3. FirstOf(hits) = i
    <3> HIDE DEF hits
    <3> QED
      BY <2>1, <2>2, FirstIs
  <2>4. s = t.chain[id][i]
    BY <1>3, <2>3 DEF lookup_symbol
  <2>5. s # 0
    <3>1. t.chain[id][i] \in SymIds
      BY <1>1
    <3>2. \A x \in SymIds : x # 0
      BY DEF SymIds
    <3> QED
      BY <2>4, <3>1, <3>2
  <2>6. \A j \in 1 .. i - 1 : j \in 1 .. Len(t.chain[id]) /\ ~(i <= j)
    BY <1>1, <2>1
  <2>7. \A j \in 1 .. i - 1 : t.sym[t.chain[id][j]].ns \notin spaces
    BY <2>2, <2>6
  <2> HIDE DEF s
  <2>8. Finds(t, id, spaces, s)
    BY <2>2, <2>4, <2>5, <2>7 DEF Finds
  <2> QED
    BY <2>8 DEF s
<1> QED
  BY <1>2, <1>3

-----------------------------------------------------------------------------
\* id, and only id, now stands for d; it does in later files too if no file
\* has started.
Changes(t, u, id, d) ==
    /\ u.file_scope = t.file_scope /\ (Placed(t) => Placed(u)) /\ Says(u, id, Nat, d)
    /\ \A i \in AllIdents \ {id} : \A S, e : Says(t, i, S, e) => Says(u, i, S, e)
    /\ t.file_scope # Builtin => \A e : Says(t, id, {Builtin}, e) => Says(u, id, {Builtin}, e)

\* A new macro of the file changes what its identifier stands for.
LEMMA FreshChanges ==
    ASSUME NEW t, t \in Table, Chained(t), NEW u, NEW id \in AllIdents, NEW s,
           Fresh(t, u, id, s, t.file_scope), IsMacro(u.sym[s])
    PROVE  Changes(t, u, id, Content(u.sym[s]))
<1>1. u.file_scope = t.file_scope
  BY DEF Fresh
<1>2. t.file_scope \in Nat
  BY Fields DEF ScopeIds
<1>3. Says(u, id, Nat, Content(u.sym[s]))
  BY <1>2, FreshHit
<1>4. Placed(t) => Placed(u)
  BY FreshPlaced
<1>5. \A i \in AllIdents \ {id} : \A S, e : Says(t, i, S, e) => Says(u, i, S, e)
  BY FreshSays
<1>6. ASSUME t.file_scope # Builtin, NEW e, Says(t, id, {Builtin}, e)
      PROVE  Says(u, id, {Builtin}, e)
  <2>1. t.file_scope \notin {Builtin}
    BY <1>6
  <2> QED
    BY <1>6, <2>1, FreshSays
<1> QED
  BY <1>1, <1>3, <1>4, <1>5, <1>6 DEF Changes

\* And so does the symbol of the file that becomes an undefined one.
LEMMA UndefChanges ==
    ASSUME NEW t, t \in Table, Chained(t), NEW id \in AllIdents, NEW s, s # 0,
           Finds(t, id, {"MACRO", "UNDEF"}, s), t.sym[s].scope = t.file_scope,
           NEW attr \in 0 .. 2, NEW u, u = undefined(t, s, attr)
    PROVE  Changes(t, u, id, Nothing)
<1>1. PICK k \in 1 .. Len(t.chain[id]) :
         /\ s = t.chain[id][k] /\ t.sym[s].ns \in {"MACRO", "UNDEF"}
         /\ \A j \in 1 .. k - 1 : t.sym[t.chain[id][j]].ns \notin {"MACRO", "UNDEF"}
  BY DEF Finds
<1>2. s \in Elems(t.chain[id])
  BY <1>1 DEF Elems
<1>3. s \in SymIds /\ t.sym[s].ident = id
  BY <1>2, InChain
<1>4. PICK r \in Symbol : /\ r.ident = t.sym[s].ident /\ r.scope = t.sym[s].scope /\ r.ns = "UNDEF"
                          /\ u = Put(t, s, r)
  BY <1>3, Undefines DEF Alters
<1>5. /\ u.chain = t.chain /\ u.file_scope = t.file_scope
      /\ \A q \in SymIds : u.sym[q] = IF q = s THEN r ELSE t.sym[q]
  <2>1. u.chain = t.chain /\ u.file_scope = t.file_scope /\ u.sym = [t.sym EXCEPT ![s] = r]
    BY <1>4, Fields DEF Put
  <2> QED
    BY <1>3, <2>1, Fields
<1>6. \A i \in AllIdents \ {id} : \A q \in Elems(t.chain[i]) : u.sym[q] = t.sym[q]
  <2> TAKE i \in AllIdents \ {id}
  <2> TAKE q \in Elems(t.chain[i])
  <2>1. q \in SymIds /\ t.sym[q].ident = i
    BY InChain
  <2> QED
    BY <1>3, <1>5, <2>1
<1>7. \A i \in AllIdents \ {id} : \A S, e : Says(t, i, S, e) => Says(u, i, S, e)
  <2> TAKE i \in AllIdents \ {id}
  <2> TAKE S, e
  <2> HAVE Says(t, i, S, e)
  <2>1. u.chain[i] = t.chain[i] /\ Len(t.chain[i]) \in Nat
    BY <1>5, Fields
  <2> QED
    BY <1>6, <2>1, SameSays
<1>8. Says(u, id, Nat, Nothing)
  <2>1. t.file_scope \in Nat /\ t.chain[id] \in Seq(SymIds) /\ Len(t.chain[id]) \in Nat
    BY Fields DEF ScopeIds
  <2>2. u.chain[id] = t.chain[id] /\ u.sym[s] = r
    BY <1>3, <1>5
  <2>3. Hit(u, id, Nat, k) /\ Content(u.sym[u.chain[id][k]]) = Nothing
    BY <1>1, <1>4, <2>1, <2>2 DEF Hit, IsMacro, Content
  <2>4. \A j \in 1 .. k - 1 : ~Hit(u, id, Nat, j)
    <3> TAKE j \in 1 .. k - 1
    <3>1. t.chain[id][j] \in SymIds /\ t.sym[t.chain[id][j]].ns \notin {"MACRO", "UNDEF"}
      BY <1>1, <2>1
    <3>2. u.sym[t.chain[id][j]] = t.sym[t.chain[id][j]]
      BY <1>1, <1>5, <3>1
    <3> QED
      BY <2>2, <3>1, <3>2 DEF Hit, IsMacro
  <2>5. First(u, id, Nat, k)
    BY <2>3, <2>4 DEF First
  <2> QED
    BY <2>2, <2>3, <2>5 DEF Says
<1>9. ASSUME t.file_scope # Builtin, NEW e, Says(t, id, {Builtin}, e)
      PROVE  Says(u, id, {Builtin}, e)
  <2>1. u.chain[id] = t.chain[id] /\ Len(t.chain[id]) \in Nat
    BY <1>5, Fields
  <2>2. r.scope \notin {Builtin} /\ t.sym[s].scope \notin {Builtin}
    BY <1>4, <1>9
  <2>3. \A q \in Elems(t.chain[id]) : q = s \/ u.sym[q] = t.sym[q]
    BY <1>5, InChain
  <2>4. u.sym[s] = r
    BY <1>3, <1>5
  <2>5. \A q \in Elems(t.chain[id]) :
           /\ (IsMacro(u.sym[q]) /\ u.sym[q].scope \in {Builtin})
                 <=> (IsMacro(t.sym[q]) /\ t.sym[q].scope \in {Builtin})
           /\ IsMacro(t.sym[q]) /\ t.sym[q].scope \in {Builtin} => Content(u.sym[q]) = Content(t.sym[q])
    BY <2>2, <2>3, <2>4
  <2> QED
    BY <1>9, <2>1, <2>5, SameSays
<1>10. Placed(t) => Placed(u)
  <2> SUFFICES ASSUME Placed(t), NEW i \in AllIdents, NEW q \in Elems(u.chain[i]), IsMacro(u.sym[q])
               PROVE  u.sym[q].scope \in {Builtin, u.file_scope}
    BY DEF Placed
  <2>1. q \in Elems(t.chain[i]) /\ q \in SymIds
    BY <1>5, InChain
  <2>2. CASE q = s
    BY <1>4, <1>5, <2>1, <2>2
  <2>3. CASE q # s
    BY <1>5, <2>1, <2>3 DEF Placed
  <2> QED
    BY <2>2, <2>3
<1> QED
  BY <1>5, <1>7, <1>8, <1>9, <1>10 DEF Changes

\* Before the first file everything is of the builtin scope.
LEMMA FlatSays ==
    ASSUME NEW t, t \in Table, Chained(t), Placed(t), t.file_scope = Builtin,
           NEW id \in AllIdents, NEW d
    PROVE  Says(t, id, Nat, d) <=> Says(t, id, {Builtin}, d)
<1>1. Len(t.chain[id]) \in Nat
  BY Fields
<1>2. \A i \in 1 .. Len(t.chain[id]) : Hit(t, id, Nat, i) <=> Hit(t, id, {Builtin}, i)
  <2> TAKE i \in 1 .. Len(t.chain[id])
  <2>1. t.chain[id][i] \in Elems(t.chain[id])
    BY DEF Elems
  <2>2. t.sym[t.chain[id][i]].scope \in Nat
    BY <2>1, InChain
  <2>3. IsMacro(t.sym[t.chain[id][i]]) => t.sym[t.chain[id][i]].scope = Builtin
    BY <2>1 DEF Placed
  <2> QED
    BY <2>2, <2>3 DEF Hit
<1>3. \A i \in 1 .. Len(t.chain[id]) : First(t, id, Nat, i) <=> First(t, id, {Builtin}, i)
  <2>1. \A i \in 1 .. Len(t.chain[id]) : \A j \in 1 .. i - 1 : j \in 1 .. Len(t.chain[id])
    BY <1>1
  <2> QED
    BY <1>2, <2>1 DEF First
<1> QED
  BY <1>2, <1>3 DEF Says

-----------------------------------------------------------------------------
\* The steps of the table, seen as steps of MacroSpec.
Places == tab \in Table /\ Chained(tab) /\ Placed(tab)

\* What says the same means the same.
LEMMA KeepsImplements ==
    ASSUME Places, tab' \in Table, Keeps(tab, tab')
    PROVE  UNCHANGED MS!vars
<1>1. tab \in Table
  BY DEF Places
<1>2. \A m \in Idents : /\ Meaning(tab', m) = Meaning(tab, m)
                        /\ MeaningOf(tab', m, OnlyBuiltin) = MeaningOf(tab, m, OnlyBuiltin)
  <2> TAKE m \in Idents
  <2>1. m \in AllIdents
    BY DEF AllIdents
  <2>2. PICK d : Says(tab, m, Nat, d)
    BY <1>1, <2>1, SaysSome
  <2>3. PICK e : Says(tab, m, {Builtin}, e)
    BY <1>1, <2>1, SaysSome
  <2>4. Says(tab', m, Nat, d) /\ Says(tab', m, {Builtin}, e)
    BY <2>1, <2>2, <2>3 DEF Keeps
  <2>5. Meaning(tab, m) = d /\ Meaning(tab', m) = d
    BY <1>1, <2>1, <2>2, <2>4, SaysMeaning
  <2>6. MeaningOf(tab, m, OnlyBuiltin) = e /\ MeaningOf(tab', m, OnlyBuiltin) = e
    BY <1>1, <2>1, <2>3, <2>4, SaysMeaning
  <2> QED
    BY <2>5, <2>6
<1>3. tab'.file_scope = tab.file_scope
  BY DEF Keeps
<1> QED
  BY <1>2, <1>3 DEF MS!vars

\* A change is what MacroSpec says it is.
LEMMA ChangesImplements ==
    ASSUME Places, tab' \in Table, Chained(tab'), NEW m \in Idents, NEW d, Changes(tab, tab', m, d)
    PROVE  MS!Becomes(m, d)
<1>1. /\ tab \in Table /\ Placed(tab') /\ tab'.file_scope = tab.file_scope /\ Says(tab', m, Nat, d)
      /\ m \in AllIdents /\ Idents \subseteq AllIdents
  BY DEF Places, Changes, AllIdents
<1>2. \A i \in Idents : Meaning(tab', i) = IF i = m THEN d ELSE Meaning(tab, i)
  <2> TAKE i \in Idents
  <2>1. PICK e : Says(tab, i, Nat, e)
    BY <1>1, SaysSome
  <2>2. CASE i = m
    BY <1>1, <2>2, SaysMeaning
  <2>3. CASE i # m
    <3>1. Says(tab', i, Nat, e)
      BY <1>1, <2>1, <2>3 DEF Changes
    <3> QED
      BY <1>1, <2>1, <2>3, <3>1, SaysMeaning
  <2> QED
    BY <2>2, <2>3
<1>3. ASSUME tab.file_scope # Builtin, NEW i \in Idents
      PROVE  MeaningOf(tab', i, OnlyBuiltin) = MeaningOf(tab, i, OnlyBuiltin)
  <2>1. PICK e : Says(tab, i, {Builtin}, e)
    BY <1>1, SaysSome
  <2>2. Says(tab', i, {Builtin}, e)
    BY <1>1, <1>3, <2>1 DEF Changes
  <2>3. MeaningOf(tab', i, OnlyBuiltin) = e
    BY <1>1, <2>2, SaysMeaning
  <2>4. MeaningOf(tab, i, OnlyBuiltin) = e
    BY <1>1, <2>1, SaysMeaning
  <2> QED
    BY <2>3, <2>4
<1>4. ASSUME tab.file_scope = Builtin, NEW i \in Idents
      PROVE  MeaningOf(tab', i, OnlyBuiltin) = Meaning(tab', i)
  <2>1. PICK e : Says(tab', i, Nat, e)
    BY <1>1, SaysSome
  <2>2. Says(tab', i, {Builtin}, e)
    BY <1>1, <1>4, <2>1, FlatSays
  <2>3. MeaningOf(tab', i, OnlyBuiltin) = e
    BY <1>1, <2>2, SaysMeaning
  <2>4. Meaning(tab', i) = e
    BY <1>1, <2>1, SaysMeaning
  <2> QED
    BY <2>3, <2>4
<1>5. [i \in Idents |-> Meaning(tab', i)] = [[i \in Idents |-> Meaning(tab, i)] EXCEPT ![m] = d]
  BY <1>2
<1>6. tab.file_scope # Builtin =>
         [i \in Idents |-> MeaningOf(tab', i, OnlyBuiltin)] = [i \in Idents |-> MeaningOf(tab, i, OnlyBuiltin)]
  BY <1>3
<1>7. tab.file_scope = Builtin =>
         [i \in Idents |-> MeaningOf(tab', i, OnlyBuiltin)] = [i \in Idents |-> Meaning(tab', i)]
  BY <1>4
<1> QED
  BY <1>1, <1>5, <1>6, <1>7 DEF MS!Becomes

\* A fresh symbol that is altered is fresh.
LEMMA AlteredFresh ==
    ASSUME NEW t, NEW b, b \in Table, NEW id, NEW s, NEW sc, Fresh(t, b, id, s, sc), NEW k, k # "NONE",
           NEW u, Alters(b, u, s, k)
    PROVE  u \in Table /\ Fresh(t, u, id, s, sc) /\ u.sym[s].ns = k
<1>1. b.sym[s].ident = id /\ b.sym[s].scope = sc
  BY DEF Fresh
<1>2. PICK r \in Symbol : r.ident = id /\ r.scope = sc /\ r.ns = k /\ u = Put(b, s, r)
  BY <1>1 DEF Alters
<1>3. r.ns # "NONE"
  BY <1>2
<1> QED
  BY <1>2, <1>3, FreshWith

\* A macro is not defined more weakly than it was: what it was said to be.
LEMMA WeakerIsRefused ==
    ASSUME NEW t, t \in Table, Chained(t), NEW id \in AllIdents, NEW d, Says(t, id, Nat, d),
           NEW attr \in Attrs, NEW spaces \in {{"MACRO"}, {"MACRO", "UNDEF"}}, NEW s,
           Finds(t, id, spaces, s), s # 0 => ~(attr < t.sym[s].attr)
    PROVE  d.attr <= attr
<1>1. attr \in 0 .. 2 /\ t.chain[id] \in Seq(SymIds) /\ t.sym \in [SymIds -> Symbol]
      /\ Len(t.chain[id]) \in Nat
  BY ScopeAssumption, Fields
<1>2. CASE d = Nothing
  BY <1>1, <1>2 DEF Nothing
<1>3. CASE d # Nothing
  <2>1. PICK i \in 1 .. Len(t.chain[id]) : First(t, id, Nat, i) /\ d = Content(t.sym[t.chain[id][i]])
    BY <1>3 DEF Says
  <2>2. t.sym[t.chain[id][i]].ns = "MACRO" /\ d.attr = t.sym[t.chain[id][i]].attr
    BY <1>3, <2>1 DEF Content, First, Hit, IsMacro
  <2>3. \A j \in 1 .. i - 1 : t.sym[t.chain[id][j]].ns \notin {"MACRO", "UNDEF"}
    <3> TAKE j \in 1 .. i - 1
    <3>1. t.chain[id][j] \in Elems(t.chain[id])
      <4>1. j \in 1 .. Len(t.chain[id])
        BY <1>1
      <4> QED
        BY <4>1 DEF Elems
    <3>2. t.sym[t.chain[id][j]].scope \in Nat
      BY <3>1, InChain
    <3> QED
      BY <2>1, <3>2 DEF First, Hit, IsMacro
  <2>4. s = t.chain[id][i] /\ s # 0
    <3>1. ~(s = 0 /\ \A j \in 1 .. Len(t.chain[id]) : t.sym[t.chain[id][j]].ns \notin spaces)
      BY <2>2
    <3>2. PICK k \in 1 .. Len(t.chain[id]) :
             /\ s = t.chain[id][k] /\ t.sym[s].ns \in spaces /\ s # 0
             /\ \A j \in 1 .. k - 1 : t.sym[t.chain[id][j]].ns \notin spaces
      BY <3>1 DEF Finds
    <3>3. ~(i \in 1 .. k - 1)
      BY <2>2, <3>2
    <3>4. ~(k \in 1 .. i - 1)
      BY <2>3, <3>2
    <3>5. i = k
      BY <3>3, <3>4
    <3> QED
      BY <3>2, <3>5
  <2>5. t.sym[s].attr \in 0 .. 2
    <3>1. s \in SymIds
      BY <1>1, <2>4
    <3>2. t.sym[s] \in Symbol
      BY <1>1, <3>1
    <3> QED
      BY <3>2 DEF Symbol
  <2> QED
    BY <1>1, <2>2, <2>4, <2>5
<1> QED
  BY <1>2, <1>3

\* A symbol that is put into a slot is there.
LEMMA PutSym ==
    ASSUME NEW b, b \in Table, NEW s \in SymIds, NEW r
    PROVE  Put(b, s, r).sym[s] = r
BY Fields DEF Put

\* What a #define makes of a symbol.
Defined(b, s, body, attr) == [b EXCEPT !.sym[s].body = body, !.sym[s].attr = attr]

\* And what that says.
LEMMA DefinedContent ==
    ASSUME NEW b, b \in Table, NEW s \in SymIds, b.sym[s].ns = "MACRO", NEW body, NEW attr
    PROVE  /\ IsMacro(Defined(b, s, body, attr).sym[s])
           /\ Content(Defined(b, s, body, attr).sym[s]) = [body |-> body, attr |-> attr]
<1> DEFINE u == Defined(b, s, body, attr)
<1>1. b.sym \in [SymIds -> Symbol] /\ b.sym[s] \in Symbol
  BY Fields
<1>2. u.sym[s] = [b.sym[s] EXCEPT !.body = body, !.attr = attr]
  <2> DEFINE r == [b.sym[s] EXCEPT !.body = body, !.attr = attr]
  <2>1. u = Put(b, s, r)
    BY <1>1, Fields DEF Put, Defined
  <2> HIDE DEF r, u
  <2> QED
    BY <2>1, PutSym DEF r
<1> HIDE DEF u
<1>3. u.sym[s].ns = "MACRO" /\ u.sym[s].body = body /\ u.sym[s].attr = attr
  BY <1>1, <1>2 DEF Symbol
<1> QED
  BY <1>3 DEF IsMacro, Content, u

\* A #define that is not refused changes what its macro stands for.
LEMMA DefineChanges ==
    ASSUME Inv, NEW m \in Idents, NEW body \in Bodies, NEW attr \in 0 .. 2,
           do_handle_define(m, body, attr), NEW s, s = lookup_symbol(tab, m, {"MACRO"}),
           ~(s # 0 /\ attr < tab.sym[s].attr)
    PROVE  Changes(tab, tab', m, [body |-> body, attr |-> attr])
<1>1. tab \in Table /\ Chained(tab) /\ m \in AllIdents /\ Good(tab, <<>>)
  BY DEF Inv, Good, AllIdents, do_handle_define
<1> DEFINE b == bind_symbol(tab, m, "MACRO", TRUE)
           n == FirstOf(Free(tab))
           sc == BoundIn(tab, "MACRO", TRUE)
<1>2. Room(1) /\ tab' = [b EXCEPT !.sym[b.chain[m][1]].body = body, !.sym[b.chain[m][1]].attr = attr]
  BY DEF do_handle_define
<1>3. Free(tab) # {}
  BY <1>2, RoomIsFree DEF Room
<1>4. <<>> \in Seq({"function", "block"}) /\ "MACRO" \in Namespaces \ {"NONE"}
  BY DEF Namespaces
<1>5. Binding(tab, b, m, "MACRO", n, sc) /\ sc = tab.file_scope
  <2>1. Binding(tab, b, m, "MACRO", n, sc)
    BY <1>1, <1>3, <1>4, BindGood
  <2> QED
    BY <2>1 DEF BoundIn
<1> HIDE DEF b, n, sc
<1>6. /\ b \in Table /\ n \in SymIds /\ b.sym[n].ns = "MACRO" /\ Fresh(tab, b, m, n, tab.file_scope)
      /\ tab' = [b EXCEPT !.sym[n].body = body, !.sym[n].attr = attr]
  BY <1>2, <1>5 DEF Binding
<1>7. Alters(b, tab', n, "MACRO")
  BY <1>6, Defines
<1>8. Fresh(tab, tab', m, n, tab.file_scope)
  BY <1>6, <1>7, AlteredFresh
<1>9. IsMacro(tab'.sym[n]) /\ Content(tab'.sym[n]) = [body |-> body, attr |-> attr]
  <2>1. tab' = Defined(b, n, body, attr)
    BY <1>6 DEF Defined
  <2>2. /\ IsMacro(Defined(b, n, body, attr).sym[n])
        /\ Content(Defined(b, n, body, attr).sym[n]) = [body |-> body, attr |-> attr]
    BY <1>6, DefinedContent
  <2> QED
    BY <2>1, <2>2
<1> QED
  BY <1>1, <1>8, <1>9, FreshChanges

\* #define.
LEMMA DefineImplements ==
    ASSUME Inv, Inv', Placed(tab), NEW m \in Idents, NEW body \in Bodies, NEW attr \in Attrs,
           do_handle_define(m, body, attr)
    PROVE  (UNCHANGED MS!vars \/ MS!Define(m, body, attr)) /\ Placed(tab')
<1> DEFINE s == lookup_symbol(tab, m, {"MACRO"})
<1>1. /\ tab \in Table /\ Chained(tab) /\ tab' \in Table /\ Chained(tab') /\ Places /\ m \in AllIdents
      /\ attr \in 0 .. 2
  BY ScopeAssumption DEF Inv, Good, Places, AllIdents
<1>2. CASE UNCHANGED tab
  <2>1. Keeps(tab, tab')
    BY <1>2, SameKeeps
  <2> QED
    BY <1>1, <2>1, KeepsImplements DEF Keeps
<1>3. CASE ~(s # 0 /\ attr < tab.sym[s].attr)
  <2>1. Changes(tab, tab', m, [body |-> body, attr |-> attr])
    BY <1>1, <1>3, DefineChanges
  <2>2. Finds(tab, m, {"MACRO"}, s)
    BY <1>1, LookupFirst
  <2>3. s # 0 => ~(attr < tab.sym[s].attr)
    BY <1>3
  <2> HIDE DEF s
  <2>4. MS!Becomes(m, [body |-> body, attr |-> attr])
    BY <1>1, <2>1, ChangesImplements
  <2>5. PICK d : Says(tab, m, Nat, d)
    BY <1>1, SaysSome
  <2>6. Meaning(tab, m) = d /\ d.attr <= attr
    BY <1>1, <2>2, <2>3, <2>5, SaysMeaning, WeakerIsRefused
  <2>7. Placed(tab')
    BY <2>1 DEF Changes, Places
  <2> QED
    BY <2>4, <2>6, <2>7 DEF MS!Define
<1> QED
  BY <1>2, <1>3 DEF do_handle_define

\* An #undef that leaves the table as it was has nothing to undefine, or is
\* weaker than what it finds; any other one undefines its macro.
LEMMA UndefTakes ==
    ASSUME Inv, NEW m \in Idents, NEW attr \in 0 .. 2, do_handle_undef(m, attr),
           NEW s, s = lookup_symbol(tab, m, {"MACRO", "UNDEF"})
    PROVE  \/ UNCHANGED tab /\ (s = 0 \/ attr < tab.sym[s].attr \/ tab.sym[s].ns = "UNDEF")
           \/ (s # 0 => ~(attr < tab.sym[s].attr)) /\ Changes(tab, tab', m, Nothing)
<1>1. tab \in Table /\ Chained(tab) /\ m \in AllIdents /\ Good(tab, <<>>)
  BY DEF Inv, Good, AllIdents, do_handle_undef
<1>2. \/ UNCHANGED tab /\ (s = 0 \/ attr < tab.sym[s].attr \/ tab.sym[s].ns = "UNDEF")
      \/ /\ s # 0 => ~(attr < tab.sym[s].attr)
         /\ \/ s # 0 /\ tab.sym[s].scope = tab.file_scope /\ tab' = undefined(tab, s, attr)
            \/ /\ Room(1)
               /\ LET b == bind_symbol(tab, m, "MACRO", TRUE) IN tab' = undefined(b, b.chain[m][1], attr)
  BY DEF do_handle_undef
<1>3. Finds(tab, m, {"MACRO", "UNDEF"}, s)
  BY <1>1, LookupFirst
<1>4. ASSUME s # 0, tab.sym[s].scope = tab.file_scope, tab' = undefined(tab, s, attr)
      PROVE  Changes(tab, tab', m, Nothing)
  BY <1>1, <1>3, <1>4, UndefChanges
<1>5. ASSUME Room(1),
             LET b == bind_symbol(tab, m, "MACRO", TRUE) IN tab' = undefined(b, b.chain[m][1], attr)
      PROVE  Changes(tab, tab', m, Nothing)
  <2> DEFINE b == bind_symbol(tab, m, "MACRO", TRUE)
             n == FirstOf(Free(tab))
             sc == BoundIn(tab, "MACRO", TRUE)
  <2>1. Free(tab) # {}
    BY <1>5, RoomIsFree DEF Room
  <2>2. <<>> \in Seq({"function", "block"}) /\ "MACRO" \in Namespaces \ {"NONE"}
    BY DEF Namespaces
  <2>3. Binding(tab, b, m, "MACRO", n, sc) /\ sc = tab.file_scope
    <3>1. Binding(tab, b, m, "MACRO", n, sc)
      BY <1>1, <2>1, <2>2, BindGood
    <3> QED
      BY <3>1 DEF BoundIn
  <2>4. tab' = undefined(b, b.chain[m][1], attr)
    BY <1>5
  <2> HIDE DEF b, n, sc
  <2>5. /\ b \in Table /\ n \in SymIds /\ Fresh(tab, b, m, n, tab.file_scope)
        /\ tab' = undefined(b, n, attr)
    BY <2>3, <2>4 DEF Binding
  <2>6. Alters(b, tab', n, "UNDEF")
    BY <2>5, Undefines
  <2>7. Fresh(tab, tab', m, n, tab.file_scope) /\ tab'.sym[n].ns = "UNDEF"
    BY <2>5, <2>6, AlteredFresh
  <2>8. IsMacro(tab'.sym[n]) /\ Content(tab'.sym[n]) = Nothing
    BY <2>7 DEF IsMacro, Content
  <2> QED
    BY <1>1, <2>7, <2>8, FreshChanges
<1> QED
  BY <1>2, <1>4, <1>5

\* #undef.
LEMMA UndefImplements ==
    ASSUME Inv, Inv', Placed(tab), NEW m \in Idents, NEW attr \in Attrs, do_handle_undef(m, attr)
    PROVE  (UNCHANGED MS!vars \/ MS!Undef(m, attr)) /\ Placed(tab')
<1> DEFINE s == lookup_symbol(tab, m, {"MACRO", "UNDEF"})
<1>1. /\ tab \in Table /\ Chained(tab) /\ tab' \in Table /\ Chained(tab') /\ Places /\ m \in AllIdents
      /\ attr \in 0 .. 2
  BY ScopeAssumption DEF Inv, Good, Places, AllIdents
<1>2. CASE UNCHANGED tab
  <2>1. Keeps(tab, tab')
    BY <1>2, SameKeeps
  <2> QED
    BY <1>1, <2>1, KeepsImplements DEF Keeps
<1>3. CASE ~UNCHANGED tab
  <2>1. (s # 0 => ~(attr < tab.sym[s].attr)) /\ Changes(tab, tab', m, Nothing)
    BY <1>1, <1>3, UndefTakes
  <2>2. Finds(tab, m, {"MACRO", "UNDEF"}, s)
    BY <1>1, LookupFirst
  <2> HIDE DEF s
  <2>3. MS!Becomes(m, Nothing)
    BY <1>1, <2>1, ChangesImplements
  <2>4. PICK d : Says(tab, m, Nat, d)
    BY <1>1, SaysSome
  <2>5. Meaning(tab, m) = d /\ d.attr <= attr
    BY <1>1, <2>1, <2>2, <2>4, SaysMeaning, WeakerIsRefused
  <2>6. Placed(tab')
    BY <2>1 DEF Changes, Places
  <2> QED
    BY <2>3, <2>5, <2>6 DEF MS!Undef, MS!Undefined, Nothing
<1> QED
  BY <1>2, <1>3

\* A use of a macro.
LEMMA UseImplements ==
    ASSUME Inv, Inv', Placed(tab), NEW m \in Idents, UseMacro(m)
    PROVE  Keeps(tab, tab')
<1> DEFINE s == lookup_symbol(tab, m, {"MACRO", "UNDEF"})
<1>1. tab \in Table /\ Chained(tab) /\ m \in AllIdents /\ tab.file_scope \in ScopeIds
  BY Fields DEF Inv, Good, AllIdents
<1>2. s # 0 /\ tab' = [tab EXCEPT !.sym[s].used_in = tab.file_scope]
  BY DEF UseMacro, lookup_macro
<1>3. s \in Elems(tab.chain[m])
  BY <1>1, <1>2, Lookup
<1> HIDE DEF s
<1>4. s \in SymIds
  BY <1>1, <1>3, InChain
<1> QED
  BY <1>1, <1>2, <1>4, UseKeeps

-----------------------------------------------------------------------------
\* A symbol that is not a macro.
LEMMA BindKeeps ==
    ASSUME NEW t, NEW op \in Seq({"function", "block"}), Good(t, op), Free(t) # {},
           NEW id \in AllIdents, NEW ns \in Namespaces \ {"NONE", "MACRO", "UNDEF"}, NEW static \in BOOLEAN
    PROVE  Keeps(t, bind_symbol(t, id, ns, static))
<1> DEFINE u == bind_symbol(t, id, ns, static)
           s == FirstOf(Free(t))
           sc == BoundIn(t, ns, static)
<1>1. Binding(t, u, id, ns, s, sc)
  BY BindGood
<1>2. t \in Table /\ Chained(t)
  BY DEF Good
<1> HIDE DEF u, s, sc
<1>3. Fresh(t, u, id, s, sc) /\ ~IsMacro(u.sym[s])
  BY <1>1 DEF Binding, IsMacro
<1>4. Keeps(t, u)
  BY <1>2, <1>3, FreshKeeps
<1> QED
  BY <1>4 DEF u

\* One that is then given another namespace.
LEMMA BindAsKeeps ==
    ASSUME NEW t, NEW op \in Seq({"function", "block"}), Good(t, op), Free(t) # {}, NEW id \in AllIdents,
           NEW ns \in {"SYMBOL", "LABEL"}, NEW k \in {"SYMBOL", "LABEL"}
    PROVE  Keeps(t, bind_as(t, id, ns, k))
<1> DEFINE b == bind_symbol(t, id, ns, TRUE)
           s == FirstOf(Free(t))
           sc == BoundIn(t, ns, TRUE)
           u == bind_as(t, id, ns, k)
<1>1. Binding(t, b, id, ns, s, sc)
  <2>1. ns \in Namespaces \ {"NONE"}
    BY DEF Namespaces
  <2> QED
    BY <2>1, BindGood
<1>2. t \in Table /\ Chained(t) /\ k \in Namespaces
  BY DEF Good, Namespaces
<1>3. u = [b EXCEPT !.sym[b.chain[id][1]].ns = k]
  BY DEF bind_as
<1> HIDE DEF b, s, sc, u
<1>4. b \in Table /\ Fresh(t, b, id, s, sc) /\ s \in SymIds /\ u = [b EXCEPT !.sym[s].ns = k]
  BY <1>1, <1>3 DEF Binding
<1>5. Alters(b, u, s, k)
  BY <1>2, <1>4, Renames
<1>6. u \in Table /\ Fresh(t, u, id, s, sc) /\ u.sym[s].ns = k
  <2>1. k # "NONE"
    OBVIOUS
  <2>2. b \in Table /\ Fresh(t, b, id, s, sc)
    BY <1>4
  <2> QED
    BY <1>5, <2>1, <2>2, AlteredFresh
<1>7. ~IsMacro(u.sym[s])
  BY <1>6 DEF IsMacro
<1>8. Keeps(t, u)
  BY <1>2, <1>6, <1>7, FreshKeeps
<1> QED
  BY <1>8 DEF u

\* start_symbol_scope and start_function_scope.
LEMMA StartsKeep ==
    ASSUME NEW t, t \in Table
    PROVE  Keeps(t, start_symbol_scope(t)) /\ Keeps(t, start_function_scope(t))
<1>1. \A w : w \in Table => LET v == start_symbol_scope(w)
                            IN  v.chain = w.chain /\ v.sym = w.sym /\ v.file_scope = w.file_scope
  BY DEF start_symbol_scope, Table
<1> DEFINE w == [t EXCEPT !.scopes = Push(t, t.function_scope), !.function_scope = Len(t.scopes) + 1]
<1>2. w.chain = t.chain /\ w.sym = t.sym /\ w.file_scope = t.file_scope
  BY Fields
<1>3. LET v == start_symbol_scope(w)
      IN  v.chain = w.chain /\ v.sym = w.sym /\ v.file_scope = w.file_scope
  BY Fields DEF start_symbol_scope
<1>4. start_function_scope(t) = start_symbol_scope(w)
  BY DEF start_function_scope
<1> HIDE DEF w
<1> QED
  BY <1>1, <1>2, <1>3, <1>4, SameKeeps

\* end_scope of the last scope, one within the file.
LEMMA EndKeeps ==
    ASSUME NEW t, t \in Table, Chained(t), Placed(t), NEW sc \in 1 .. Len(t.scopes),
           sc \notin {Builtin, t.file_scope}
    PROVE  Keeps(t, end_scope(t, sc))
<1> DEFINE u == end_scope(t, sc)
<1>1. Ended(t, u, sc) /\ u.file_scope = t.file_scope
  BY EndScope
<1> HIDE DEF u
<1>2. Keeps(t, u)
  BY <1>1, EndedKeeps
<1> QED
  BY <1>2 DEF u

\* end_symbol_scope.
LEMMA EndBlockKeeps ==
    ASSUME NEW t, t \in Table, Chained(t), Placed(t), t.block_scope \in 1 .. Len(t.scopes),
           t.block_scope \notin {Builtin, t.file_scope}
    PROVE  Keeps(t, end_symbol_scope(t))
<1> DEFINE w == end_scope(t, t.block_scope)
           u == end_symbol_scope(t)
<1>1. Keeps(t, w)
  BY EndKeeps
<1>2. u = [w EXCEPT !.block_scope = t.scopes[t.block_scope].next]
  BY DEF end_symbol_scope
<1>3. w \in Table
  BY EndScope
<1> HIDE DEF w, u
<1>4. u.chain = w.chain /\ u.sym = w.sym /\ u.file_scope = w.file_scope
  BY <1>2, <1>3, Fields
<1>5. Keeps(t, u)
  BY <1>1, <1>4, SameKeeps, KeepsOn
<1> QED
  BY <1>5 DEF u

\* A block ends.
LEMMA CloseBlockKeeps ==
    ASSUME NEW t, NEW op \in Seq({"function", "block"}), op # <<>>, Good(t, op), Placed(t)
    PROVE  Keeps(t, end_symbol_scope(t))
<1>1. t \in Table /\ Chained(t) /\ Stacked(t, op)
  BY DEF Good
<1>2. t.block_scope = Len(t.scopes) /\ Len(t.scopes) \in Nat /\ t.file_scope \in 1 .. Len(t.scopes)
      /\ t.file_scope < Len(t.scopes)
  BY <1>1, Tops
<1>3. t.block_scope \in 1 .. Len(t.scopes) /\ t.block_scope \notin {Builtin, t.file_scope}
  <2> DEFINE n == Len(t.scopes)
             f == t.file_scope
             b == t.block_scope
  <2>1. b = n /\ n \in Nat /\ f \in 1 .. n /\ f < n
    BY <1>2
  <2> HIDE DEF n, f, b
  <2>2. b \in 1 .. n /\ b # 1 /\ b # f
    BY <2>1
  <2> QED
    BY <2>2 DEF n, f, b, Builtin
<1> QED
  BY <1>1, <1>3, EndBlockKeeps

\* A function ends, and both of its scopes are within the file.
LEMMA CloseFunctionKeeps ==
    ASSUME NEW t, NEW op \in Seq({"function", "block"}), op # <<>>, Good(t, op), Placed(t),
           op[Len(op)] = "function"
    PROVE  Keeps(t, end_function_scope(t))
<1> DEFINE n == Len(t.scopes)
           oq == SubSeq(op, 1, Len(op) - 1)
           w == end_symbol_scope(t)
           f == w.function_scope
           v == end_scope(w, f)
           u == end_function_scope(t)
<1>1. t \in Table /\ Chained(t) /\ Stacked(t, op) /\ Inner(t)
  BY DEF Good
<1>2. /\ t.block_scope = n /\ n \in Nat /\ t.file_scope \in 1 .. n /\ t.file_scope \in {1, 2}
      /\ Leveled(t.scopes, t.file_scope, op, n, t.function_scope)
  BY <1>1, Tops DEF Stacked
<1>3. PICK pn, fp \in Nat : /\ Closes(t.scopes, op, n, t.function_scope, pn, fp)
                            /\ Outer(t.scopes, t.file_scope, oq, pn, fp)
  <2> HIDE DEF n
  <2> QED
    BY <1>2, OneLevelLess
<1>4. pn >= t.file_scope
  <2> HIDE DEF oq, n
  <2> QED
    BY <1>3 DEF Outer
<1>5. t.scopes[n].next = pn /\ pn = n - 2 /\ t.function_scope = n - 1
  BY <1>3 DEF Closes
<1>6. t.scopes[Len(t.scopes)].next \in ScopeIds /\ Len(t.scopes) > 0
  <2>1. n \in ScopeIds /\ pn <= n /\ pn >= 1 /\ n > 0
    BY <1>1, <1>2, <1>4, <1>5, Fields
  <2>2. pn \in ScopeIds
    BY <1>3, <2>1, ScopeAssumption DEF ScopeIds
  <2> QED
    BY <1>5, <2>1, <2>2
<1>7. /\ w \in Table /\ Chained(w) /\ w.function_scope = t.function_scope
      /\ w.file_scope = t.file_scope /\ Len(w.scopes) = n - 1
  BY <1>1, <1>2, <1>6, EndBlockScope
<1>8. Keeps(t, w)
  BY CloseBlockKeeps
<1>9. u = [v EXCEPT !.function_scope = w.scopes[f].next]
  BY DEF end_function_scope
<1> HIDE DEF w, n, oq
<1>10. f \in 1 .. Len(w.scopes) /\ f \notin {Builtin, w.file_scope}
  <2> DEFINE g == t.file_scope
  <2>1. g \in 1 .. n /\ n \in Nat /\ pn = n - 2 /\ pn >= g /\ f = n - 1 /\ w.file_scope = g
    BY <1>2, <1>4, <1>5, <1>7
  <2> HIDE DEF g, f
  <2>2. f \in 1 .. n - 1 /\ f # 1 /\ f # g
    BY <2>1
  <2> QED
    BY <1>7, <2>1, <2>2 DEF Builtin
<1>11. Placed(w)
  BY <1>8 DEF Keeps
<1>12. Keeps(w, v) /\ v \in Table
  <2> HIDE DEF f
  <2>1. Keeps(w, v)
    BY <1>7, <1>10, <1>11, EndKeeps
  <2>2. v \in Table
    BY <1>7, <1>10, EndScope
  <2> QED
    BY <2>1, <2>2
<1> HIDE DEF v, f, u
<1>13. u.chain = v.chain /\ u.sym = v.sym /\ u.file_scope = v.file_scope
  BY <1>9, <1>12, Fields
<1>14. Keeps(v, u)
  BY <1>13, SameKeeps
<1>15. Keeps(t, u)
  BY <1>8, <1>12, <1>14, KeepsOn
<1> QED
  BY <1>15 DEF u

-----------------------------------------------------------------------------
\* A file starts from what the builtin scope says, and with nothing else.
Restarts(t, u) ==
    /\ u.file_scope # Builtin /\ Placed(u)
    /\ \A id \in AllIdents : \A d : Says(t, id, {Builtin}, d) => Says(u, id, Nat, d) /\ Says(u, id, {Builtin}, d)

\* start_file_scope, with only the builtin scope there.
LEMMA StartFileRestarts ==
    ASSUME NEW t, t \in Table, Chained(t), Placed(t), t.file_scope = Builtin, Len(t.scopes) = 1
    PROVE  Restarts(t, start_file_scope(t))
<1> DEFINE u == start_file_scope(t)
<1>1. u.chain = t.chain /\ u.sym = t.sym /\ u.file_scope = 2
  BY Fields DEF start_file_scope
<1> HIDE DEF u
<1>2. \A id, S, i : Hit(u, id, S, i) <=> Hit(t, id, S, i)
  BY <1>1 DEF Hit
<1>3. \A id, S, i : First(u, id, S, i) <=> First(t, id, S, i)
  BY <1>2 DEF First
<1>4. \A id, S, d : Says(u, id, S, d) <=> Says(t, id, S, d)
  BY <1>1, <1>2, <1>3 DEF Says
<1>5. Placed(u)
  BY <1>1 DEF Placed
<1>6. \A id \in AllIdents : \A d : Says(t, id, {Builtin}, d) => Says(t, id, Nat, d)
  BY FlatSays
<1>7. Restarts(t, u)
  BY <1>1, <1>4, <1>5, <1>6 DEF Restarts, Builtin
<1> QED
  BY <1>7 DEF u

\* new_file_scope.
LEMMA NewFileRestarts ==
    ASSUME NEW t, Good(t, <<>>), Placed(t), MaxScopes >= 2
    PROVE  Restarts(t, new_file_scope(t))
<1>1. t \in Table /\ Chained(t) /\ Stacked(t, <<>>) /\ Inner(t)
  BY DEF Good
<1>2. t.file_scope = Len(t.scopes) /\ t.file_scope \in {1, 2}
  <2>1. <<>> \in Seq({"function", "block"})
    OBVIOUS
  <2> QED
    BY <1>1, <2>1, Tops DEF Stacked
<1>3. CASE t.file_scope = Builtin
  <2>1. new_file_scope(t) = start_file_scope(t) /\ Len(t.scopes) = 1
    BY <1>2, <1>3 DEF new_file_scope, Builtin
  <2> QED
    BY <1>1, <1>3, <2>1, StartFileRestarts
<1>4. CASE t.file_scope # Builtin
  <2> DEFINE w == end_scope(t, 2)
             v == [w EXCEPT !.file_scope = t.scopes[t.file_scope].next]
  <2>1. t.file_scope = 2 /\ 2 = Len(t.scopes) /\ 2 \in 1 .. Len(t.scopes)
    <3>1. t.file_scope = 2
      BY <1>2, <1>4 DEF Builtin
    <3> QED
      BY <1>2, <3>1
  <2>2. new_file_scope(t) = start_file_scope(v)
    BY <1>4, <2>1 DEF new_file_scope
  <2>3. w \in Table /\ Chained(w) /\ Len(w.scopes) = 2 - 1 /\ Ended(t, w, 2)
    BY <1>1, <2>1, EndInnermost, EndScope
  <2>4. t.scopes[t.file_scope].next = Builtin /\ Builtin \in ScopeIds
    BY <1>1, ScopeAssumption DEF Stacked, ScopeIds, Builtin
  <2> HIDE DEF w
  <2>5. /\ v \in Table /\ v.chain = w.chain /\ v.sym = w.sym /\ v.scopes = w.scopes
        /\ v.file_scope = Builtin
    BY <2>3, <2>4 DEF Table
  <2> HIDE DEF v
  <2>6. Chained(v) /\ Len(v.scopes) = 1
    BY <2>3, <2>5 DEF Chained
  <2>7. Placed(v)
    <3> SUFFICES ASSUME NEW id \in AllIdents, NEW s \in Elems(v.chain[id])
                 PROVE  v.sym[s].scope = Builtin
      BY DEF Placed
    <3>1. v.sym[s].scope \in 1 .. Len(v.scopes)
      BY <2>6 DEF Chained
    <3> QED
      BY <2>6, <3>1 DEF Builtin
  <2>8. Restarts(v, start_file_scope(v))
    BY <2>5, <2>6, <2>7, StartFileRestarts
  <2>9. \A r \in Elems(t.scopes[2].symbols) : t.sym[r].scope \notin {Builtin}
    BY <1>1, <2>1 DEF Chained, Builtin
  <2>10. \A id \in AllIdents : \A d : Says(t, id, {Builtin}, d) => Says(w, id, {Builtin}, d)
    BY <1>1, <2>1, <2>3, <2>9, EndedSays
  <2>11. \A id \in AllIdents : \A d : Says(w, id, {Builtin}, d) => Says(v, id, {Builtin}, d)
    <3>1. \A id, S, i : Hit(v, id, S, i) <=> Hit(w, id, S, i)
      BY <2>5 DEF Hit
    <3>2. \A id, S, i : First(v, id, S, i) <=> First(w, id, S, i)
      BY <3>1 DEF First
    <3> QED
      BY <2>5, <3>1, <3>2 DEF Says
  <2> QED
    BY <2>2, <2>8, <2>10, <2>11 DEF Restarts
<1> QED
  BY <1>3, <1>4

\* NewFile is a new file.
LEMMA NewFileImplements ==
    ASSUME Inv, Inv', Placed(tab), NewFile
    PROVE  MS!NewFile /\ Placed(tab')
<1>1. /\ tab \in Table /\ tab' \in Table /\ Good(tab, <<>>) /\ MaxScopes >= 2 /\ tab' = new_file_scope(tab)
  BY DEF Inv, Good, NewFile
<1>2. Restarts(tab, tab')
  BY <1>1, NewFileRestarts
<1>3. \A m \in Idents : /\ Meaning(tab', m) = MeaningOf(tab, m, OnlyBuiltin)
                        /\ MeaningOf(tab', m, OnlyBuiltin) = MeaningOf(tab, m, OnlyBuiltin)
  <2> TAKE m \in Idents
  <2>1. m \in AllIdents
    BY DEF AllIdents
  <2>2. PICK d : Says(tab, m, {Builtin}, d)
    BY <1>1, <2>1, SaysSome
  <2>3. Says(tab', m, Nat, d) /\ Says(tab', m, {Builtin}, d)
    BY <1>2, <2>1, <2>2 DEF Restarts
  <2>4. MeaningOf(tab, m, OnlyBuiltin) = d
    BY <1>1, <2>1, <2>2, SaysMeaning
  <2>5. Meaning(tab', m) = d /\ MeaningOf(tab', m, OnlyBuiltin) = d
    BY <1>1, <2>1, <2>3, SaysMeaning
  <2> QED
    BY <2>4, <2>5
<1>4. tab'.file_scope # Builtin /\ Placed(tab')
  BY <1>2 DEF Restarts
<1> QED
  BY <1>3, <1>4 DEF MS!NewFile

-----------------------------------------------------------------------------
\* What the parser does to the table is nothing to macros.
LEMMA ParserKeeps ==
    ASSUME Inv, Placed(tab),
           \/ \E i \in Idents, ns \in {"SYMBOL", "TYPEDEF"}, st \in BOOLEAN : declare(i, ns, st)
           \/ \E i \in Idents, w \in BOOLEAN : struct_union_enum_specifier(i, w)
           \/ \E i \in Idents : label_symbol(i)
           \/ \E i \in Idents : label_statement(i)
           \/ handle_func
    PROVE  Keeps(tab, tab')
<1>1. Good(tab, open) /\ open \in Seq({"function", "block"}) /\ (Room(1) => Free(tab) # {})
  BY RoomIsFree DEF Inv, TypeOK, Room
<1>2. \A i \in Idents : i \in AllIdents
  BY DEF AllIdents
<1>3. /\ "__func__" \in AllIdents
      /\ {"SYMBOL", "TYPEDEF", "STRUCT", "LABEL"} \subseteq Namespaces \ {"NONE", "MACRO", "UNDEF"}
  BY DEF AllIdents, ParserIdents, Namespaces
<1>4. CASE \E i \in Idents, ns \in {"SYMBOL", "TYPEDEF"}, st \in BOOLEAN : declare(i, ns, st)
  <2>1. PICK i \in Idents, ns \in {"SYMBOL", "TYPEDEF"}, st \in BOOLEAN : declare(i, ns, st)
    BY <1>4
  <2>2. Room(1) /\ tab' = bind_symbol(tab, i, ns, st)
    BY <2>1 DEF declare
  <2>3. ns \in Namespaces \ {"NONE", "MACRO", "UNDEF"}
    BY <1>3
  <2> QED
    BY <1>1, <1>2, <2>2, <2>3, BindKeeps
<1>5. CASE \E i \in Idents, w \in BOOLEAN : struct_union_enum_specifier(i, w)
  <2>1. PICK i \in Idents, w \in BOOLEAN : struct_union_enum_specifier(i, w)
    BY <1>5
  <2>2. UNCHANGED tab \/ (Room(1) /\ tab' = bind_symbol(tab, i, "STRUCT", FALSE))
    BY <2>1 DEF struct_union_enum_specifier
  <2>3. CASE UNCHANGED tab
    BY <2>3, SameKeeps
  <2>4. CASE Room(1) /\ tab' = bind_symbol(tab, i, "STRUCT", FALSE)
    BY <1>1, <1>2, <1>3, <2>4, BindKeeps
  <2> QED
    BY <2>2, <2>3, <2>4
<1>6. CASE \E i \in Idents : label_symbol(i)
  <2>1. PICK i \in Idents : label_symbol(i)
    BY <1>6
  <2>2. Room(1) /\ tab' = bind_symbol(tab, i, "LABEL", FALSE)
    BY <2>1 DEF label_symbol
  <2> QED
    BY <1>1, <1>2, <1>3, <2>2, BindKeeps
<1>7. CASE \E i \in Idents : label_statement(i)
  <2>1. PICK i \in Idents : label_statement(i)
    BY <1>7
  <2>2. Room(1) /\ tab' = bind_as(tab, i, "SYMBOL", "LABEL")
    BY <2>1 DEF label_statement
  <2> QED
    BY <1>1, <1>2, <2>2, BindAsKeeps
<1>8. CASE handle_func
  <2>1. Room(1) /\ tab' = bind_as(tab, "__func__", "LABEL", "SYMBOL")
    BY <1>8 DEF handle_func
  <2> QED
    BY <1>1, <1>3, <2>1, BindAsKeeps
<1> QED
  BY <1>4, <1>5, <1>6, <1>7, <1>8

\* Nor is what it opens.
LEMMA StartFunctionKeeps ==
    ASSUME Inv, NEW args \in SUBSET Idents, start_function(args)
    PROVE  Keeps(tab, tab')
<1> DEFINE t == start_function_scope(tab)
           u == bind_symbol(t, "return", "ITERATOR", FALSE)
           op == Append(open, "function")
<1>1. /\ Good(tab, open) /\ open \in Seq({"function", "block"}) /\ Len(tab.scopes) + 2 <= MaxScopes
      /\ tab \in Table
  BY DEF Inv, TypeOK, start_function, MayOpen
<1>2. /\ Cardinality(Free(tab)) >= 1 + Cardinality(args)
      /\ \/ args = {} /\ tab' = u
         \/ \E a \in args : args = {a} /\ tab' = bind_symbol(u, a, "SYMBOL", FALSE)
  BY DEF start_function, Room
<1>3. op \in Seq({"function", "block"})
  BY <1>1, OpenSeq
<1>4. Good(t, op) /\ Free(t) = Free(tab) /\ Keeps(tab, t)
  BY <1>1, OpenFunction, StartsKeep
<1>5. /\ "return" \in AllIdents /\ \A i \in Idents : i \in AllIdents
      /\ {"ITERATOR", "SYMBOL"} \subseteq Namespaces \ {"NONE", "MACRO", "UNDEF"}
  BY DEF AllIdents, ParserIdents, Namespaces
<1> HIDE DEF t, u, op
<1>6. Free(t) # {} /\ (args # {} => \A s \in Free(t) : Free(t) \ {s} # {})
  <2>1. CASE args = {}
    <3>1. Cardinality(args) = 0
      BY <2>1, FS_EmptySet
    <3>2. Free(tab) # {}
      BY <1>2, <3>1, RoomIsFree
    <3> QED
      BY <1>4, <2>1, <3>2
  <2>2. CASE args # {}
    <3>1. PICK a \in args : args = {a}
      BY <1>2, <2>2
    <3>2. Cardinality(args) = 1
      BY <3>1, FS_Singleton
    <3>3. Cardinality(Free(tab)) >= 2
      BY <1>2, <3>2
    <3>4. Free(tab) # {} /\ \A s \in Free(tab) : Free(tab) \ {s} # {}
      BY <3>3, RoomIsFree
    <3> QED
      BY <1>4, <3>4
  <2> QED
    BY <2>1, <2>2
<1>7. Good(u, op) /\ Taken(t, u)
  BY <1>3, <1>4, <1>5, <1>6, BindOrdinary DEF u
<1>8. Keeps(tab, u)
  <2>1. Keeps(t, u)
    BY <1>3, <1>4, <1>5, <1>6, BindKeeps DEF u
  <2> QED
    BY <1>4, <2>1, KeepsOn
<1>9. ASSUME NEW a \in args, tab' = bind_symbol(u, a, "SYMBOL", FALSE)
      PROVE  Keeps(tab, tab')
  <2>1. Free(u) # {}
    BY <1>6, <1>7 DEF Taken
  <2>2. Keeps(u, bind_symbol(u, a, "SYMBOL", FALSE))
    BY <1>3, <1>5, <1>7, <2>1, BindKeeps
  <2> QED
    BY <1>8, <1>9, <2>2, KeepsOn
<1> QED
  BY <1>2, <1>8, <1>9

\* A block, with what it binds.
LEMMA StartBlockKeeps ==
    ASSUME Inv, NEW binds \in {<<>>, <<"continue", "break">>, <<"break", "case">>}, start_block(binds)
    PROVE  Keeps(tab, tab')
<1> DEFINE t == start_symbol_scope(tab)
           u == bind_symbol(t, binds[1], "ITERATOR", FALSE)
           op == Append(open, "block")
<1>1. /\ Good(tab, open) /\ open \in Seq({"function", "block"}) /\ Len(tab.scopes) + 1 <= MaxScopes
      /\ Cardinality(Free(tab)) >= Len(binds) /\ tab \in Table
      /\ tab' = IF binds = <<>> THEN t ELSE bind_symbol(u, binds[2], "ITERATOR", FALSE)
  BY DEF Inv, TypeOK, start_block, MayOpen, Room
<1>2. op \in Seq({"function", "block"})
  BY <1>1, OpenSeq
<1>3. Good(t, op) /\ Free(t) = Free(tab) /\ Keeps(tab, t)
  BY <1>1, OpenBlock, StartsKeep
<1> HIDE DEF t, u, op
<1>4. ASSUME binds # <<>> PROVE Keeps(tab, tab')
  <2>1. /\ Len(binds) = 2 /\ binds[1] \in {"continue", "break", "case"}
        /\ binds[2] \in {"continue", "break", "case"}
    BY <1>4
  <2>2. /\ binds[1] \in AllIdents /\ binds[2] \in AllIdents
        /\ "ITERATOR" \in Namespaces \ {"NONE", "MACRO", "UNDEF"}
    BY <2>1 DEF AllIdents, ParserIdents, Namespaces
  <2>3. Free(t) # {} /\ \A s \in Free(t) : Free(t) \ {s} # {}
    <3>1. Free(tab) # {} /\ \A s \in Free(tab) : Free(tab) \ {s} # {}
      BY <1>1, <2>1, RoomIsFree
    <3> QED
      BY <1>3, <3>1
  <2>4. Good(u, op) /\ Taken(t, u)
    BY <1>2, <1>3, <2>2, <2>3, BindOrdinary DEF u
  <2>5. Keeps(t, u)
    BY <1>2, <1>3, <2>2, <2>3, BindKeeps DEF u
  <2>6. Free(u) # {}
    BY <2>3, <2>4 DEF Taken
  <2>7. Keeps(u, bind_symbol(u, binds[2], "ITERATOR", FALSE))
    BY <1>2, <2>2, <2>4, <2>6, BindKeeps
  <2>8. tab' = bind_symbol(u, binds[2], "ITERATOR", FALSE)
    BY <1>1, <1>4
  <2> QED
    BY <1>3, <2>5, <2>7, <2>8, KeepsOn
<1> QED
  BY <1>1, <1>3, <1>4

\* Nor is what ends, nor a step that leaves the table alone.
LEMMA EndsKeep ==
    ASSUME Inv, Placed(tab), end_function \/ end_block \/ UNCHANGED tab
    PROVE  Keeps(tab, tab')
<1>1. Good(tab, open) /\ open \in Seq({"function", "block"})
  BY DEF Inv, TypeOK
<1>2. CASE end_function
  <2>1. open # <<>> /\ open[Len(open)] = "function" /\ tab' = end_function_scope(tab)
    BY <1>2 DEF end_function
  <2> QED
    BY <1>1, <2>1, CloseFunctionKeeps
<1>3. CASE end_block
  <2>1. open # <<>> /\ tab' = end_symbol_scope(tab)
    BY <1>3 DEF end_block
  <2> QED
    BY <1>1, <2>1, CloseBlockKeeps
<1>4. CASE UNCHANGED tab
  BY <1>4, SameKeeps
<1> QED
  BY <1>2, <1>3, <1>4

-----------------------------------------------------------------------------
\* The builtin stream starts with nothing defined.
LEMMA InitImplements ==
    ASSUME Init
    PROVE  MS!Init /\ Placed(tab)
<1>1. tab \in Table /\ tab.file_scope = Builtin /\ \A id \in AllIdents : tab.chain[id] = <<>>
  BY InitInv DEF Init, Inv, TypeOK
<1>2. \A id \in AllIdents : Len(tab.chain[id]) = 0 /\ Elems(tab.chain[id]) = {}
  BY <1>1 DEF Elems
<1>3. \A id \in AllIdents : \A S : Says(tab, id, S, Nothing)
  BY <1>2 DEF Says
<1>4. \A m \in Idents : Meaning(tab, m) = Nothing /\ MeaningOf(tab, m, OnlyBuiltin) = Nothing
  BY <1>1, <1>3, SaysMeaning DEF AllIdents
<1>5. Placed(tab)
  BY <1>2 DEF Placed
<1> QED
  BY <1>1, <1>4, <1>5 DEF MS!Init, MS!Undefined, Nothing

\* A step of SymbolScope is one of MacroSpec or none.
Implements == (MS!Next \/ UNCHANGED MS!vars) /\ Placed(tab')

\* What says the same is no step of MacroSpec.
LEMMA KeptImplements ==
    ASSUME Inv, Inv', Placed(tab), Keeps(tab, tab')
    PROVE  Implements
<1>1. Places /\ tab' \in Table
  BY DEF Inv, Good, Places
<1>2. UNCHANGED MS!vars
  BY <1>1, KeepsImplements
<1> QED
  BY <1>2 DEF Keeps, Implements

\* One case for each action.
LEMMA StepImplements ==
    ASSUME Inv, Inv', Placed(tab), [Next]_vars
    PROVE  Implements
<1>1. CASE end_function \/ end_block \/ EndOfPreprocessing \/ UNCHANGED vars
  <2>1. end_function \/ end_block \/ UNCHANGED tab
    BY <1>1 DEF EndOfPreprocessing, vars
  <2> QED
    BY <2>1, EndsKeep, KeptImplements
<1>2. ASSUME NEW m \in Idents, NEW b \in Bodies, NEW a \in Attrs, do_handle_define(m, b, a)
      PROVE  Implements
  <2>1. (UNCHANGED MS!vars \/ MS!Define(m, b, a)) /\ Placed(tab')
    BY <1>2, DefineImplements
  <2>2. a \in MS!Strengths
    BY ScopeAssumption DEF MS!Strengths
  <2> QED
    BY <2>1, <2>2 DEF MS!Next, Implements
<1>3. ASSUME NEW m \in Idents, NEW a \in Attrs \ {WEAK}, do_handle_undef(m, a)
      PROVE  Implements
  <2>1. (UNCHANGED MS!vars \/ MS!Undef(m, a)) /\ Placed(tab')
    BY <1>3, UndefImplements
  <2>2. a \in MS!Strengths
    BY ScopeAssumption DEF MS!Strengths
  <2> QED
    BY <2>1, <2>2 DEF MS!Next, Implements
<1>4. ASSUME NEW m \in Idents, UseMacro(m)
      PROVE  Implements
  BY <1>4, UseImplements, KeptImplements
<1>5. CASE \/ \E i \in Idents, ns \in {"SYMBOL", "TYPEDEF"}, st \in BOOLEAN : declare(i, ns, st)
           \/ \E i \in Idents, w \in BOOLEAN : struct_union_enum_specifier(i, w)
           \/ \E i \in Idents : label_symbol(i)
           \/ \E i \in Idents : label_statement(i)
           \/ handle_func
  BY <1>5, ParserKeeps, KeptImplements
<1>6. ASSUME NEW args \in SUBSET Idents, start_function(args)
      PROVE  Implements
  BY <1>6, StartFunctionKeeps, KeptImplements
<1>7. CASE compound_statement \/ start_iterator \/ start_switch
  BY <1>7, StartBlockKeeps, KeptImplements DEF compound_statement, start_iterator, start_switch
<1>8. CASE NewFile
  BY <1>8, NewFileImplements DEF MS!Next, Implements
<1> QED
  BY <1>1, <1>2, <1>3, <1>4, <1>5, <1>6, <1>7, <1>8 DEF Next

\* Chains and scopes are a table of macros that every source file starts
\* afresh from the builtin one: whatever a file defines, undefines, declares,
\* opens and ends, the macros of the next one are those of the builtin scope.
THEOREM MacroRefinement == Spec => ImplementsMacroSpec
<1>1. Init => Placed(tab)
  BY InitImplements
<1>2. Inv /\ Inv' /\ Placed(tab) /\ [Next]_vars => Placed(tab)'
  BY StepImplements DEF Implements
<1>3. Spec => []Placed(tab)
  BY <1>1, <1>2, Invariance, PTL DEF Spec
<1>4. Init => MS!Init
  BY InitImplements
<1>5. Inv /\ Inv' /\ Placed(tab) /\ [Next]_vars => [MS!Next]_(MS!vars)
  BY StepImplements DEF Implements
<1> QED
  BY <1>3, <1>4, <1>5, Invariance, PTL DEF Spec, MS!Spec, ImplementsMacroSpec

-----------------------------------------------------------------------------
\* How strongly a symbol is defined comes from a directive, or is nothing: no
\* operation makes a strong definition of a weaker one.

\* r has the fields of a symbol.
IsSymbol(r) == r = [ident |-> r.ident, ns |-> r.ns, scope |-> r.scope,
                    body |-> r.body, attr |-> r.attr, used_in |-> r.used_in]

\* The strength of r is one that directives give, or that of no directive.
Attributed(r) == IsSymbol(r) /\ r.attr \in Attrs \cup {WEAK}

\* And that of every symbol of t.
Given(t) ==
    /\ t = [chain |-> t.chain, sym |-> t.sym, scopes |-> t.scopes, block_scope |-> t.block_scope,
            function_scope |-> t.function_scope, file_scope |-> t.file_scope]
    /\ t.sym = [s \in SymIds |-> t.sym[s]]
    /\ \A s \in SymIds : Attributed(t.sym[s])

\* A new symbol has no strength.
LEMMA NewAttributed ==
    ASSUME NEW id, NEW ns, NEW sc
    PROVE  Attributed(SymbolOf(id, ns, sc))
BY DEF Attributed, IsSymbol, SymbolOf, WEAK

\* One symbol is replaced.
LEMMA PutGiven ==
    ASSUME NEW t, Given(t), NEW s, NEW r, s \in SymIds => Attributed(r),
           NEW u, u = [t EXCEPT !.sym = [t.sym EXCEPT ![s] = r]]
    PROVE  Given(u)
<1>1. u.sym = [t.sym EXCEPT ![s] = r]
  BY DEF Given
<1>2. u = [chain |-> u.chain, sym |-> u.sym, scopes |-> u.scopes, block_scope |-> u.block_scope,
           function_scope |-> u.function_scope, file_scope |-> u.file_scope]
  BY DEF Given
<1>3. t.sym = [q \in SymIds |-> t.sym[q]] /\ \A q \in SymIds : Attributed(t.sym[q])
  BY DEF Given
<1>4. u.sym = [q \in SymIds |-> IF q = s THEN r ELSE t.sym[q]]
  BY <1>1, <1>3
<1>5. u.sym = [q \in SymIds |-> u.sym[q]] /\ \A q \in SymIds : Attributed(u.sym[q])
  BY <1>3, <1>4
<1> QED
  BY <1>2, <1>5 DEF Given

\* Nothing else in a table matters.
LEMMA ElseGiven ==
    ASSUME NEW t, Given(t), NEW c, NEW sc, NEW b, NEW f, NEW l, NEW u,
           u = [chain |-> c, sym |-> t.sym, scopes |-> sc, block_scope |-> b,
                function_scope |-> f, file_scope |-> l]
    PROVE  Given(u)
<1>1. u.sym = t.sym
  OBVIOUS
<1>2. u = [chain |-> u.chain, sym |-> u.sym, scopes |-> u.scopes, block_scope |-> u.block_scope,
           function_scope |-> u.function_scope, file_scope |-> u.file_scope]
  OBVIOUS
<1>3. t.sym = [q \in SymIds |-> t.sym[q]] /\ \A q \in SymIds : Attributed(t.sym[q])
  BY DEF Given
<1>4. u.sym = [q \in SymIds |-> u.sym[q]]
  BY <1>1, <1>3
<1>5. \A q \in SymIds : Attributed(u.sym[q])
  BY <1>1, <1>3
<1> QED
  BY <1>2, <1>4, <1>5 DEF Given

\* bind_symbol.
LEMMA BindGiven ==
    ASSUME NEW t, Given(t), NEW id, NEW ns, NEW static
    PROVE  Given(bind_symbol(t, id, ns, static))
<1> DEFINE s == FirstOf(Free(t))
           sc == BoundIn(t, ns, static)
           r == SymbolOf(id, ns, sc)
           chain == [t.chain EXCEPT ![id] = <<s>> \o @]
           scopes == [t.scopes EXCEPT ![sc].symbols = Append(@, s)]
           w == [t EXCEPT !.sym = [t.sym EXCEPT ![s] = r]]
           u == bind_symbol(t, id, ns, static)
<1>1. u = [t EXCEPT !.chain = chain, !.sym = [t.sym EXCEPT ![s] = r], !.scopes = scopes]
  BY DEF bind_symbol, Given
<1>2. Attributed(r)
  BY NewAttributed
<1> HIDE DEF s, sc, r, chain, scopes, u
<1>3. Given(w)
  BY <1>2, PutGiven
<1>4. w.sym = [t.sym EXCEPT ![s] = r]
  BY DEF Given
<1>5. u = [chain |-> chain, sym |-> w.sym, scopes |-> scopes, block_scope |-> t.block_scope,
           function_scope |-> t.function_scope, file_scope |-> t.file_scope]
  BY <1>1, <1>4 DEF Given
<1> HIDE DEF w
<1>6. Given(u)
  BY <1>3, <1>5, ElseGiven
<1> QED
  BY <1>6 DEF u

\* A symbol is given another namespace, or used.
LEMMA RenamedGiven ==
    ASSUME NEW t, Given(t), NEW s, NEW v
    PROVE  Given([t EXCEPT !.sym[s].ns = v]) /\ Given([t EXCEPT !.sym[s].used_in = v])
<1> DEFINE r == t.sym[s]
           r1 == [r EXCEPT !.ns = v]
           r2 == [r EXCEPT !.used_in = v]
<1>1. s \in SymIds => Attributed(r)
  BY DEF Given
<1>2. s \in SymIds => Attributed(r1)
  BY <1>1 DEF Attributed, IsSymbol
<1>3. s \in SymIds => Attributed(r2)
  BY <1>1 DEF Attributed, IsSymbol
<1>4. [t EXCEPT !.sym[s].ns = v] = [t EXCEPT !.sym = [t.sym EXCEPT ![s] = r1]]
  BY DEF Given
<1>5. [t EXCEPT !.sym[s].used_in = v] = [t EXCEPT !.sym = [t.sym EXCEPT ![s] = r2]]
  BY DEF Given
<1> HIDE DEF r1, r2
<1> QED
  BY <1>2, <1>3, <1>4, <1>5, PutGiven

\* What a directive makes of a symbol has the strength of the directive.
LEMMA DirectedSymbol ==
    ASSUME NEW r, Attributed(r), NEW body, NEW attr \in Attrs
    PROVE  /\ Attributed([r EXCEPT !.body = body, !.attr = attr])
           /\ Attributed([r EXCEPT !.ns = "UNDEF", !.used_in = 0, !.attr = attr])
<1>1. \A q : Attributed(q) => /\ Attributed([q EXCEPT !.body = body])
                              /\ Attributed([q EXCEPT !.ns = "UNDEF"])
                              /\ Attributed([q EXCEPT !.used_in = 0])
                              /\ Attributed([q EXCEPT !.attr = attr])
  BY DEF Attributed, IsSymbol
<1>2. Attributed([r EXCEPT !.body = body, !.attr = attr])
  <2> DEFINE v == [r EXCEPT !.body = body]
  <2>1. [r EXCEPT !.body = body, !.attr = attr] = [v EXCEPT !.attr = attr]
    OBVIOUS
  <2>2. Attributed(v)
    BY <1>1
  <2> HIDE DEF v
  <2> QED
    BY <1>1, <2>1, <2>2
<1>3. Attributed([r EXCEPT !.ns = "UNDEF", !.used_in = 0, !.attr = attr])
  <2> DEFINE v == [r EXCEPT !.ns = "UNDEF"]
             w == [v EXCEPT !.used_in = 0]
  <2>1. [r EXCEPT !.ns = "UNDEF", !.used_in = 0, !.attr = attr] = [w EXCEPT !.attr = attr]
    OBVIOUS
  <2>2. Attributed(v)
    BY <1>1
  <2> HIDE DEF v
  <2>3. Attributed(w)
    BY <1>1, <2>2
  <2> HIDE DEF w
  <2> QED
    BY <1>1, <2>1, <2>3
<1> QED
  BY <1>2, <1>3

\* A directive gives a symbol its strength.
LEMMA DirectedGiven ==
    ASSUME NEW t, Given(t), NEW s, NEW body, NEW attr \in Attrs
    PROVE  /\ Given([t EXCEPT !.sym[s].body = body, !.sym[s].attr = attr])
           /\ Given(undefined(t, s, attr))
<1> DEFINE r == t.sym[s]
           r1 == [r EXCEPT !.body = body, !.attr = attr]
           r2 == [r EXCEPT !.ns = "UNDEF", !.used_in = 0, !.attr = attr]
<1>1. s \in SymIds => Attributed(r)
  BY DEF Given
<1>2. s \in SymIds => Attributed(r1)
  BY <1>1, DirectedSymbol
<1>3. s \in SymIds => Attributed(r2)
  BY <1>1, DirectedSymbol
<1>4. [t EXCEPT !.sym[s].body = body, !.sym[s].attr = attr] = [t EXCEPT !.sym = [t.sym EXCEPT ![s] = r1]]
  BY DEF Given
<1>5. undefined(t, s, attr) = [t EXCEPT !.sym = [t.sym EXCEPT ![s] = r2]]
  BY DEF Given, undefined
<1> HIDE DEF r1, r2
<1> QED
  BY <1>2, <1>3, <1>4, <1>5, PutGiven

\* end_scope: what is freed has no strength.
LEMMA EndGiven ==
    ASSUME NEW t, Given(t), NEW sc
    PROVE  Given(end_scope(t, sc))
<1> DEFINE gone == Elems(t.scopes[sc].symbols)
           chain == [i \in AllIdents |-> Kept(t.chain[i], gone)]
           sym == [s \in SymIds |-> IF s \in gone THEN Unbound ELSE t.sym[s]]
           scopes == SubSeq(t.scopes, 1, sc - 1)
           u == end_scope(t, sc)
<1>1. u = [t EXCEPT !.chain = chain, !.sym = sym, !.scopes = scopes]
  BY DEF end_scope, Given
<1>2. Attributed(Unbound)
  BY NewAttributed DEF Unbound
<1>3. \A s \in SymIds : Attributed(t.sym[s])
  BY DEF Given
<1>4. sym = [s \in SymIds |-> sym[s]] /\ \A s \in SymIds : Attributed(sym[s])
  BY <1>2, <1>3
<1> HIDE DEF gone, chain, sym, scopes, u
<1>5. u = [chain |-> chain, sym |-> sym, scopes |-> scopes, block_scope |-> t.block_scope,
           function_scope |-> t.function_scope, file_scope |-> t.file_scope]
  BY <1>1 DEF Given
<1>6. u.sym = sym /\ u = [chain |-> u.chain, sym |-> u.sym, scopes |-> u.scopes, block_scope |-> u.block_scope,
           function_scope |-> u.function_scope, file_scope |-> u.file_scope]
  BY <1>5
<1>7. Given(u)
  BY <1>4, <1>6 DEF Given
<1> QED
  BY <1>7 DEF u

\* The other scopes, and where the innermost ones are, do not matter.
LEMMA PlacesGiven ==
    ASSUME NEW t, Given(t), NEW v
    PROVE  /\ Given([t EXCEPT !.scopes = v]) /\ Given([t EXCEPT !.block_scope = v])
           /\ Given([t EXCEPT !.function_scope = v]) /\ Given([t EXCEPT !.file_scope = v])
<1> DEFINE u1 == [t EXCEPT !.scopes = v]
           u2 == [t EXCEPT !.block_scope = v]
           u3 == [t EXCEPT !.function_scope = v]
           u4 == [t EXCEPT !.file_scope = v]
<1>1. u1 = [chain |-> t.chain, sym |-> t.sym, scopes |-> v, block_scope |-> t.block_scope,
            function_scope |-> t.function_scope, file_scope |-> t.file_scope]
  BY DEF Given
<1>2. u2 = [chain |-> t.chain, sym |-> t.sym, scopes |-> t.scopes, block_scope |-> v,
            function_scope |-> t.function_scope, file_scope |-> t.file_scope]
  BY DEF Given
<1>3. u3 = [chain |-> t.chain, sym |-> t.sym, scopes |-> t.scopes, block_scope |-> t.block_scope,
            function_scope |-> v, file_scope |-> t.file_scope]
  BY DEF Given
<1>4. u4 = [chain |-> t.chain, sym |-> t.sym, scopes |-> t.scopes, block_scope |-> t.block_scope,
            function_scope |-> t.function_scope, file_scope |-> v]
  BY DEF Given
<1> HIDE DEF u1, u2, u3, u4
<1>5. Given(u1) /\ Given(u2) /\ Given(u3) /\ Given(u4)
  BY <1>1, <1>2, <1>3, <1>4, ElseGiven
<1> QED
  BY <1>5 DEF u1, u2, u3, u4

\* What opens scopes.
LEMMA StartsGiven ==
    ASSUME NEW t, Given(t)
    PROVE  /\ Given(start_symbol_scope(t)) /\ Given(start_function_scope(t))
           /\ Given(start_file_scope(t))
<1>1. ASSUME NEW w, Given(w) PROVE Given(start_symbol_scope(w))
  <2> DEFINE v == [w EXCEPT !.scopes = Push(w, w.block_scope)]
             u == [v EXCEPT !.block_scope = Len(w.scopes) + 1]
  <2>1. start_symbol_scope(w) = u
    BY DEF start_symbol_scope
  <2>2. Given(v)
    BY <1>1, PlacesGiven
  <2> HIDE DEF v
  <2>3. Given(u)
    BY <2>2, PlacesGiven
  <2> HIDE DEF u
  <2> QED
    BY <2>1, <2>3
<1>2. Given(start_function_scope(t))
  <2> DEFINE v == [t EXCEPT !.scopes = Push(t, t.function_scope)]
             w == [v EXCEPT !.function_scope = Len(t.scopes) + 1]
  <2>1. start_function_scope(t) = start_symbol_scope(w)
    BY DEF start_function_scope
  <2>2. Given(v)
    BY PlacesGiven
  <2> HIDE DEF v
  <2>3. Given(w)
    BY <2>2, PlacesGiven
  <2> HIDE DEF w
  <2> QED
    BY <1>1, <2>1, <2>3
<1>3. Given(start_file_scope(t))
  <2> DEFINE f == Len(t.scopes) + 1
             a == [t EXCEPT !.scopes = Push(t, Builtin)]
             b == [a EXCEPT !.file_scope = f]
             c == [b EXCEPT !.function_scope = f]
             d == [c EXCEPT !.block_scope = f]
  <2>1. start_file_scope(t) = d
    BY DEF start_file_scope
  <2> HIDE DEF f
  <2>2. Given(a)
    BY PlacesGiven
  <2> HIDE DEF a
  <2>3. Given(b)
    BY <2>2, PlacesGiven
  <2> HIDE DEF b
  <2>4. Given(c)
    BY <2>3, PlacesGiven
  <2> HIDE DEF c
  <2>5. Given(d)
    BY <2>4, PlacesGiven
  <2> HIDE DEF d
  <2> QED
    BY <2>1, <2>5
<1> QED
  BY <1>1, <1>2, <1>3

\* What ends scopes.
LEMMA EndsGiven ==
    ASSUME NEW t, Given(t)
    PROVE  /\ Given(end_symbol_scope(t)) /\ Given(end_function_scope(t))
           /\ Given(new_file_scope(t))
<1>1. Given(end_symbol_scope(t))
  <2> DEFINE w == end_scope(t, t.block_scope)
             v == [w EXCEPT !.block_scope = t.scopes[t.block_scope].next]
  <2>1. end_symbol_scope(t) = v
    BY DEF end_symbol_scope
  <2>2. Given(w)
    BY EndGiven
  <2> HIDE DEF w
  <2>3. Given(v)
    BY <2>2, PlacesGiven
  <2> HIDE DEF v
  <2> QED
    BY <2>1, <2>3
<1>2. Given(end_function_scope(t))
  <2> DEFINE u == end_symbol_scope(t)
             w == end_scope(u, u.function_scope)
             v == [w EXCEPT !.function_scope = u.scopes[u.function_scope].next]
  <2>1. end_function_scope(t) = v
    BY DEF end_function_scope
  <2>2. Given(u)
    BY <1>1
  <2> HIDE DEF u
  <2>3. Given(w)
    BY <2>2, EndGiven
  <2> HIDE DEF w
  <2>4. Given(v)
    BY <2>3, PlacesGiven
  <2> HIDE DEF v
  <2> QED
    BY <2>1, <2>4
<1>3. Given(new_file_scope(t))
  <2> DEFINE w == end_scope(t, t.file_scope)
             v == [w EXCEPT !.file_scope = t.scopes[t.file_scope].next]
  <2>1. new_file_scope(t) = start_file_scope(IF t.file_scope = Builtin THEN t ELSE v)
    BY DEF new_file_scope
  <2>2. Given(w)
    BY EndGiven
  <2> HIDE DEF w
  <2>3. Given(v)
    BY <2>2, PlacesGiven
  <2> HIDE DEF v
  <2> QED
    BY <2>1, <2>3, StartsGiven
<1> QED
  BY <1>1, <1>2, <1>3

\* The builtin stream starts with symbols of no strength.
LEMMA InitGiven ==
    ASSUME Init
    PROVE  Given(tab)
<1>1. Attributed(Unbound)
  BY NewAttributed DEF Unbound
<1> QED
  BY <1>1 DEF Init, Given

\* One case for each action.
LEMMA StepGiven ==
    ASSUME Given(tab), [Next]_vars
    PROVE  Given(tab')
<1>1. CASE UNCHANGED tab
  BY <1>1
<1>2. ASSUME NEW m \in Idents, NEW b \in Bodies, NEW a \in Attrs, do_handle_define(m, b, a)
      PROVE  Given(tab')
  <2> DEFINE d == bind_symbol(tab, m, "MACRO", TRUE)
  <2>1. \/ UNCHANGED tab
        \/ tab' = [d EXCEPT !.sym[d.chain[m][1]].body = b, !.sym[d.chain[m][1]].attr = a]
    BY <1>2 DEF do_handle_define
  <2>2. Given(d)
    BY BindGiven
  <2> HIDE DEF d
  <2>3. Given([d EXCEPT !.sym[d.chain[m][1]].body = b, !.sym[d.chain[m][1]].attr = a])
    BY <2>2, DirectedGiven
  <2> QED
    BY <1>1, <2>1, <2>3
<1>3. ASSUME NEW m \in Idents, NEW a \in Attrs \ {WEAK}, do_handle_undef(m, a)
      PROVE  Given(tab')
  <2> DEFINE d == bind_symbol(tab, m, "MACRO", TRUE)
  <2>1. \/ UNCHANGED tab
        \/ \E s : tab' = undefined(tab, s, a)
        \/ tab' = undefined(d, d.chain[m][1], a)
    BY <1>3 DEF do_handle_undef
  <2>2. Given(d)
    BY BindGiven
  <2> HIDE DEF d
  <2> QED
    BY <1>1, <2>1, <2>2, DirectedGiven
<1>4. ASSUME NEW m \in Idents, UseMacro(m)
      PROVE  Given(tab')
  BY <1>4, RenamedGiven DEF UseMacro
<1>5. CASE \E id, ns, static : tab' = bind_symbol(tab, id, ns, static)
  BY <1>5, BindGiven
<1>6. CASE \E id, ns, then : tab' = bind_as(tab, id, ns, then)
  <2>1. PICK id, ns, then : tab' = bind_as(tab, id, ns, then)
    BY <1>6
  <2> DEFINE b == bind_symbol(tab, id, ns, TRUE)
  <2>2. Given(b)
    BY BindGiven
  <2>3. tab' = [b EXCEPT !.sym[b.chain[id][1]].ns = then]
    BY <2>1 DEF bind_as
  <2> HIDE DEF b
  <2> QED
    BY <2>2, <2>3, RenamedGiven
<1>7. CASE \/ \E i \in Idents, ns \in {"SYMBOL", "TYPEDEF"}, st \in BOOLEAN : declare(i, ns, st)
           \/ \E i \in Idents, w \in BOOLEAN : struct_union_enum_specifier(i, w)
           \/ \E i \in Idents : label_symbol(i)
           \/ \E i \in Idents : label_statement(i)
           \/ handle_func
  BY <1>1, <1>5, <1>6, <1>7
     DEF declare, struct_union_enum_specifier, label_symbol, label_statement, handle_func
<1>8. ASSUME NEW args \in SUBSET Idents, start_function(args)
      PROVE  Given(tab')
  <2> DEFINE u == bind_symbol(start_function_scope(tab), "return", "ITERATOR", FALSE)
  <2>1. tab' = u \/ \E a \in args : tab' = bind_symbol(u, a, "SYMBOL", FALSE)
    BY <1>8 DEF start_function
  <2>2. Given(u)
    BY StartsGiven, BindGiven
  <2> HIDE DEF u
  <2> QED
    BY <2>1, <2>2, BindGiven
<1>9. ASSUME NEW binds, start_block(binds)
      PROVE  Given(tab')
  <2> DEFINE t == start_symbol_scope(tab)
             u == bind_symbol(t, binds[1], "ITERATOR", FALSE)
  <2>1. tab' = t \/ tab' = bind_symbol(u, binds[2], "ITERATOR", FALSE)
    BY <1>9 DEF start_block
  <2>2. Given(t)
    BY StartsGiven
  <2>3. Given(u)
    BY <2>2, BindGiven
  <2> HIDE DEF t, u
  <2> QED
    BY <2>1, <2>2, <2>3, BindGiven
<1>10. CASE end_function \/ end_block \/ NewFile
  BY <1>10, EndsGiven DEF end_function, end_block, NewFile
<1>11. CASE EndOfPreprocessing \/ UNCHANGED vars
  BY <1>1, <1>11 DEF EndOfPreprocessing, vars
<1> QED
  BY <1>2, <1>3, <1>4, <1>7, <1>8, <1>9, <1>10, <1>11
     DEF Next, compound_statement, start_iterator, start_switch

\* What a lookup of a macro finds is what is said of it.
LEMMA FindsSays ==
    ASSUME NEW t, t \in Table, Chained(t), NEW id \in AllIdents, NEW s,
           Finds(t, id, {"MACRO", "UNDEF"}, s)
    PROVE  Says(t, id, Nat, IF s = 0 THEN Nothing ELSE Content(t.sym[s]))
<1>1. \A i \in 1 .. Len(t.chain[id]) :
         Hit(t, id, Nat, i) <=> t.sym[t.chain[id][i]].ns \in {"MACRO", "UNDEF"}
  <2>1. \A i \in 1 .. Len(t.chain[id]) : t.chain[id][i] \in Elems(t.chain[id])
    BY DEF Elems
  <2> QED
    BY <2>1, InChain DEF Hit, IsMacro
<1>2. CASE s = 0
  BY <1>1, <1>2 DEF Finds, Says
<1>3. CASE s # 0
  <2>1. PICK i \in 1 .. Len(t.chain[id]) :
           /\ s = t.chain[id][i] /\ t.sym[s].ns \in {"MACRO", "UNDEF"}
           /\ \A j \in 1 .. i - 1 : t.sym[t.chain[id][j]].ns \notin {"MACRO", "UNDEF"}
    BY <1>3 DEF Finds
  <2>2. Len(t.chain[id]) \in Nat
    BY Fields
  <2>3. \A j \in 1 .. i - 1 : j \in 1 .. Len(t.chain[id])
    BY <2>2
  <2>4. First(t, id, Nat, i)
    BY <1>1, <2>1, <2>3 DEF First
  <2> QED
    BY <1>3, <2>1, <2>4 DEF Says
<1> QED
  BY <1>2, <1>3

\* Nothing that a lookup finds is stronger than a plain directive.
LEMMA NoneStronger ==
    ASSUME \A a \in Attrs : a <= NORMAL, NEW t, t \in Table, Given(t), NEW id \in AllIdents,
           NEW spaces, NEW s, s = lookup_symbol(t, id, spaces), s # 0
    PROVE  ~(NORMAL < t.sym[s].attr)
<1>1. s \in Elems(t.chain[id])
  BY Lookup
<1>2. t.chain[id] \in Seq(SymIds)
  BY Fields
<1>3. s \in SymIds
  BY <1>1, <1>2 DEF Elems
<1>4. t.sym[s].attr \in Attrs \cup {0}
  BY <1>3 DEF Given, Attributed, WEAK
<1>5. Attrs \subseteq 0 .. 2
  BY ScopeAssumption
<1>6. t.sym[s].attr \in 0 .. 2 /\ t.sym[s].attr <= 1
  <2>1. CASE t.sym[s].attr \in Attrs
    BY <1>5, <2>1 DEF NORMAL
  <2>2. CASE t.sym[s].attr = 0
    BY <2>2
  <2> QED
    BY <1>4, <2>1, <2>2
<1> QED
  BY <1>6 DEF NORMAL

\* Without strong definitions every plain #define gives its macro the new
\* body, and after every plain #undef it is not defined, whatever is hidden
\* further down the chain of the identifier.
THEOREM ObeyedWithoutStrong ==
    ASSUME \A a \in Attrs : a <= NORMAL
    PROVE  Spec => DirectivesObeyed
<1>1. ASSUME Inv, Inv', Given(tab), NEW m \in Idents, NEW b \in Bodies, do_handle_define(m, b, NORMAL)
      PROVE  Meaning(tab', m) = [body |-> b, attr |-> NORMAL]
  <2> DEFINE s == lookup_symbol(tab, m, {"MACRO"})
  <2>1. tab \in Table /\ tab' \in Table /\ m \in AllIdents /\ NORMAL \in 0 .. 2
    BY <1>1 DEF Inv, Good, AllIdents, NORMAL
  <2>2. ~(s # 0 /\ NORMAL < tab.sym[s].attr)
    BY <1>1, <2>1, NoneStronger
  <2>3. Changes(tab, tab', m, [body |-> b, attr |-> NORMAL])
    BY <1>1, <2>1, <2>2, DefineChanges
  <2> QED
    BY <2>1, <2>3, SaysMeaning DEF Changes
<1>2. ASSUME Inv, Inv', Given(tab), NEW m \in Idents, do_handle_undef(m, NORMAL)
      PROVE  Meaning(tab', m).body = NoBody
  <2> DEFINE s == lookup_symbol(tab, m, {"MACRO", "UNDEF"})
  <2>1. /\ tab \in Table /\ Chained(tab) /\ tab' \in Table /\ m \in AllIdents /\ NORMAL \in 0 .. 2
    BY <1>2 DEF Inv, Good, AllIdents, NORMAL
  <2>2. ~(s # 0 /\ NORMAL < tab.sym[s].attr)
    BY <1>2, <2>1, NoneStronger
  <2>3. Finds(tab, m, {"MACRO", "UNDEF"}, s)
    BY <2>1, LookupFirst
  <2>4. \/ tab' = tab /\ (s = 0 \/ tab.sym[s].ns = "UNDEF")
        \/ Changes(tab, tab', m, Nothing)
    BY <1>2, <2>1, <2>2, UndefTakes
  <2> HIDE DEF s
  <2>5. CASE Changes(tab, tab', m, Nothing)
    BY <2>1, <2>5, SaysMeaning DEF Changes, Nothing
  <2>6. CASE tab' = tab /\ (s = 0 \/ tab.sym[s].ns = "UNDEF")
    <3>1. Says(tab, m, Nat, IF s = 0 THEN Nothing ELSE Content(tab.sym[s]))
      BY <2>1, <2>3, FindsSays
    <3>2. Says(tab', m, Nat, Nothing)
      BY <2>6, <3>1 DEF Content
    <3> QED
      BY <2>1, <3>2, SaysMeaning DEF Nothing
  <2> QED
    BY <2>4, <2>5, <2>6
<1>3. Spec => []Given(tab)
  <2>1. Init => Given(tab)
    BY InitGiven
  <2>2. Given(tab) /\ [Next]_vars => Given(tab)'
    BY StepGiven
  <2> QED
    BY <2>1, <2>2, PTL DEF Spec
<1>4. Inv /\ Inv' /\ Given(tab) /\ [Next]_vars =>
         [\A m \in Idents :
            /\ \A b \in Bodies :
                  do_handle_define(m, b, NORMAL) => Meaning(tab', m) = [body |-> b, attr |-> NORMAL]
            /\ do_handle_undef(m, NORMAL) => Meaning(tab', m).body = NoBody]_vars
  BY <1>1, <1>2
<1> QED
  BY <1>3, <1>4, Invariance, PTL DEF Spec, DirectivesObeyed
=============================================================================
