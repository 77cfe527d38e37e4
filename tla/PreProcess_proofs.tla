-------------------------- MODULE PreProcess_proofs --------------------------
(***************************************************************************)
(* Proofs about PreProcess, for every set of macros, headers and           *)
(* conditions and every bound.                                             *)
(***************************************************************************)
EXTENDS PreProcess, TLAPS

Kinds == {"IF", "SKIP_GROUPS", "ELSE"}

\* The helpers on streams return streams and leave the open groups alone.
LEMMA HelperTypes ==
    ASSUME NEW s \in Stream
    PROVE  /\ dirty_stream(s) \in Stream /\ dirty_stream(s).top = s.top
           /\ end_group(s) \in Stream /\ end_group(s).top = s.top
           /\ nesting_error(s) \in Stream /\ nesting_error(s).top = s.top
           /\ \A m \in Macros : NoteGuard(s, m) \in Stream /\ NoteGuard(s, m).top = s.top
           /\ EndOfStream(s) \in Stream
           /\ Finish(s) \in Closed
<1>1. dirty_stream(s) \in Stream /\ dirty_stream(s).top = s.top
  BY DEF Stream, dirty_stream
<1>2. end_group(s) \in Stream /\ end_group(s).top = s.top
  BY DEF Stream, end_group
<1>3. nesting_error(s) \in Stream /\ nesting_error(s).top = s.top
  BY DEF Stream, nesting_error
<1>4. ASSUME NEW m \in Macros PROVE NoteGuard(s, m) \in Stream /\ NoteGuard(s, m).top = s.top
  <2> DEFINE i == Len(s.top) + 1
  <2>1. i \in Nat /\ m \in Macros \cup {None}
    BY DEF Stream
  <2>2. /\ [s EXCEPT !.ifndef = i, !.protect = m] \in Stream
        /\ [s EXCEPT !.ifndef = i, !.protect = m].top = s.top
    BY <2>1 DEF Stream
  <2>3. /\ [s EXCEPT !.ifndef = i, !.dirty = TRUE] \in Stream
        /\ [s EXCEPT !.ifndef = i, !.dirty = TRUE].top = s.top
    BY <2>1 DEF Stream
  <2> QED BY <2>2, <2>3 DEF NoteGuard
<1>5. EndOfStream(s) \in Stream
  <2>1. <<>> \in Seq(Kinds)
    OBVIOUS
  <2> QED BY <1>3, <2>1 DEF Stream, EndOfStream, Kinds
<1>6. Finish(s) \in Closed
  BY DEF Stream, Closed, Finish
<1> QED BY <1>1, <1>2, <1>3, <1>4, <1>5, <1>6

LEMMA FreshStream == \A f \in Files : init_stream(f) \in Stream /\ init_stream(f).top = <<>>
  BY DEF init_stream, Stream

\* A sequence without its last element.
LEMMA FrontFacts ==
    ASSUME NEW S, NEW s \in Seq(S), s # <<>>
    PROVE  /\ SubSeq(s, 1, Len(s) - 1) \in Seq(S)
           /\ Len(SubSeq(s, 1, Len(s) - 1)) = Len(s) - 1
           /\ \A i \in 1..(Len(s) - 1) : SubSeq(s, 1, Len(s) - 1)[i] = s[i]
<1> DEFINE N == Len(s) - 1
<1>1. N \in Nat /\ N < Len(s) /\ Len(s) \in Nat
  OBVIOUS
<1> HIDE DEF N
<1>2. SubSeq(s, 1, N) \in Seq(S) /\ Len(SubSeq(s, 1, N)) = N
  BY <1>1
<1>3. ASSUME NEW i \in 1..N PROVE SubSeq(s, 1, N)[i] = s[i]
  BY <1>1
<1> QED BY <1>2, <1>3 DEF N

\* Pushing, replacing and popping the innermost group.
LEMMA TopTypes ==
    ASSUME NEW s \in Stream, NEW k \in Kinds
    PROVE  /\ [s EXCEPT !.top = Append(@, k)] \in Stream
           /\ s.top # <<>> => /\ SetTop(s, k) \in Stream
                              /\ SetTop(s, k).top = [s.top EXCEPT ![Len(s.top)] = k]
                              /\ SubSeq(s.top, 1, Len(s.top) - 1) \in Seq(Kinds)
                              /\ Len(s.top) \in Nat \ {0}
<1>1. [s EXCEPT !.top = Append(@, k)] \in Stream
  BY DEF Stream, Kinds
<1>2. ASSUME s.top # <<>>
      PROVE  /\ SetTop(s, k) \in Stream
             /\ SetTop(s, k).top = [s.top EXCEPT ![Len(s.top)] = k]
  BY <1>2 DEF Stream, Kinds, SetTop
<1>3. ASSUME s.top # <<>>
      PROVE  /\ SubSeq(s.top, 1, Len(s.top) - 1) \in Seq(Kinds)
             /\ Len(s.top) \in Nat \ {0}
  BY <1>3 DEF Stream, Kinds
<1> QED BY <1>1, <1>2, <1>3

-----------------------------------------------------------------------------
\* The inductive invariant.

IInv == TypeOK /\ NestingOK

\* What the conditional directives do to the kinds of the open groups.
LEMMA GroupsOpened ==
    ASSUME NEW top \in Seq(Kinds), NEW fn \in Nat, GroupsOK(top, fn), NEW v \in BOOLEAN
    PROVE  LET t == Append(top, IF fn > 0 THEN "SKIP_GROUPS" ELSE "IF")
               n == IF fn > 0 \/ ~v THEN fn + 1 ELSE fn
           IN  GroupsOK(t, n)
  BY DEF GroupsOK, Kinds

LEMMA GroupsTurned ==
    ASSUME NEW top \in Seq(Kinds), top # <<>>, NEW fn \in Nat, GroupsOK(top, fn)
    PROVE  /\ fn = 0 => GroupsOK([top EXCEPT ![Len(top)] = "SKIP_GROUPS"], 1)
           /\ top[Len(top)] = "IF" /\ fn > 0 => GroupsOK(top, 0) /\ GroupsOK(top, 1)
           /\ fn = 0 /\ top[Len(top)] = "ELSE" => GroupsOK(top, 1)
           /\ fn = 0 => GroupsOK([top EXCEPT ![Len(top)] = "ELSE"], 1)
           /\ top[Len(top)] = "IF" /\ fn > 0 => GroupsOK([top EXCEPT ![Len(top)] = "ELSE"], 0)
           /\ fn > 0 => GroupsOK([top EXCEPT ![Len(top)] = "ELSE"], fn)
  BY DEF GroupsOK, Kinds

\* A sequence without its last element.
LEMMA FrontOfSeq ==
    ASSUME NEW K, NEW s \in Seq(K), Len(s) \in Nat \ {0}
    PROVE  /\ Len(SubSeq(s, 1, Len(s) - 1)) = Len(s) - 1
           /\ \A i \in 1 .. Len(SubSeq(s, 1, Len(s) - 1)) : SubSeq(s, 1, Len(s) - 1)[i] = s[i]
<1>1. Len(SubSeq(s, 1, Len(s) - 1)) = Len(s) - 1
  OBVIOUS
<1>2. \A i \in 1 .. Len(s) - 1 : SubSeq(s, 1, Len(s) - 1)[i] = s[i]
  OBVIOUS
<1> QED BY <1>1, <1>2

LEMMA NonEmptySeq ==
    ASSUME NEW K, NEW s \in Seq(K), s # <<>>
    PROVE  Len(s) \in Nat \ {0}
  OBVIOUS

LEMMA GroupsClosed ==
    ASSUME NEW top \in Seq(Kinds), top # <<>>, NEW fn \in Nat, GroupsOK(top, fn)
    PROVE  GroupsOK(SubSeq(top, 1, Len(top) - 1), IF fn > 0 THEN fn - 1 ELSE 0)
<1> DEFINE t == SubSeq(top, 1, Len(top) - 1)
           n == IF fn > 0 THEN fn - 1 ELSE 0
<1>1. /\ Len(top) \in Nat \ {0}
      /\ Len(t) = Len(top) - 1
      /\ \A i \in 1..Len(t) : t[i] = top[i]
  BY FrontOfSeq, NonEmptySeq
<1>2. n \in Nat /\ (fn > 0 => n = fn - 1) /\ (fn = 0 => n = 0)
  OBVIOUS
<1>3. /\ fn <= Len(top)
      /\ \A i \in 1..Len(top) : i + fn <= Len(top) => top[i] # "SKIP_GROUPS"
      /\ \A i \in 1..Len(top) : i + fn > Len(top) + 1 => top[i] # "IF"
  BY DEF GroupsOK
<1> HIDE DEF t, n
<1>4. n <= Len(t)
  BY <1>1, <1>2, <1>3
<1>5. ASSUME NEW i \in 1..Len(t)
      PROVE  /\ i + n <= Len(t) => t[i] # "SKIP_GROUPS"
             /\ i + n > Len(t) + 1 => t[i] # "IF"
  <2>1. i \in 1..Len(top) /\ t[i] = top[i]
    BY <1>1, <1>5
  <2>2. /\ i + n <= Len(t) => i + fn <= Len(top)
        /\ i + n > Len(t) + 1 => i + fn > Len(top) + 1
    BY <1>1, <1>2, <1>3, <1>5
  <2> QED BY <1>3, <2>1, <2>2
<1>6. GroupsOK(t, n)
  BY <1>4, <1>5 DEF GroupsOK
<1> QED BY <1>6 DEF t, n

LEMMA InitIInv == Init => IInv
  BY PreAssumption, FreshStream DEF Init, IInv, TypeOK, NestingOK, GroupsOK, Files

\* A line of the current stream keeps the invariant if it leaves a stream and
\* a counter that fit each other.
LEMMA LineStep ==
    ASSUME IInv, cur' \in Stream, false_nesting' \in Nat, GroupsOK(cur'.top, false_nesting'),
           outer' = outer, defs' \subseteq Macros, done' = done, passed' \in BOOLEAN
    PROVE  IInv'
  BY DEF IInv, TypeOK, NestingOK

LEMMA OpenStep ==
    ASSUME IInv, NEW s \in Stream, s.top = cur.top, NEW v \in BOOLEAN, preprocessor_if(s, v)
    PROVE  IInv'
<1> DEFINE k == IF false_nesting > 0 THEN "SKIP_GROUPS" ELSE "IF"
<1>1. k \in Kinds /\ cur' = [s EXCEPT !.top = Append(@, k)]
  BY DEF preprocessor_if, Kinds
<1>2. cur' \in Stream /\ cur'.top = Append(cur.top, k)
  BY <1>1, TopTypes DEF Stream
<1>3. cur.top \in Seq(Kinds) /\ false_nesting \in Nat /\ GroupsOK(cur.top, false_nesting)
  BY DEF IInv, TypeOK, NestingOK, Stream, Kinds
<1>4. false_nesting' \in Nat /\ GroupsOK(cur'.top, false_nesting')
  BY <1>2, <1>3, GroupsOpened DEF preprocessor_if
<1> QED
  BY <1>2, <1>4, LineStep DEF preprocessor_if, IInv, TypeOK

\* The handlers that keep the groups and the counter.
LEMMA QuietStep ==
    ASSUME IInv, cur' \in Stream, cur'.top = cur.top,
           outer' = outer, false_nesting' = false_nesting, defs' \subseteq Macros,
           done' = done, passed' \in BOOLEAN
    PROVE  IInv'
  BY LineStep DEF IInv, TypeOK, NestingOK

LEMMA CurFacts ==
    ASSUME IInv
    PROVE  /\ cur \in Stream /\ cur.top \in Seq(Kinds)
           /\ false_nesting \in Nat /\ GroupsOK(cur.top, false_nesting)
           /\ defs \subseteq Macros /\ passed \in BOOLEAN
  BY DEF IInv, TypeOK, NestingOK, Stream, Kinds

\* #elif, #else and #endif.
LEMMA BranchStep ==
    ASSUME IInv,
           \/ \E c \in Conds : handle_elif(c)
           \/ ElifAfterElse
           \/ Unmatched
           \/ handle_else
           \/ handle_endif
    PROVE  IInv'
<1> DEFINE s == end_group(cur)
<1> USE CurFacts
<1>1. /\ s \in Stream /\ s.top = cur.top
      /\ dirty_stream(s) \in Stream /\ dirty_stream(s).top = cur.top
      /\ nesting_error(s) \in Stream /\ nesting_error(s).top = cur.top
  BY HelperTypes
<1>2. ASSUME NEW c \in Conds, handle_elif(c) PROVE IInv'
  <2>1. \/ cur' = dirty_stream(s) /\ false_nesting' = false_nesting
        \/ /\ TopIf(cur) = "IF" /\ false_nesting > 0
           /\ cur' = dirty_stream(s) /\ false_nesting' \in {0, 1}
        \/ /\ false_nesting = 0
           /\ cur' = SetTop(dirty_stream(s), "SKIP_GROUPS") /\ false_nesting' = 1
    BY <1>2 DEF handle_elif
  <2>2. CASE cur' = dirty_stream(s) /\ false_nesting' = false_nesting
    BY <1>1, <1>2, <2>2, QuietStep DEF handle_elif
  <2>3. CASE /\ TopIf(cur) = "IF" /\ false_nesting > 0
             /\ cur' = dirty_stream(s) /\ false_nesting' \in {0, 1}
    <3>1. GroupsOK(cur'.top, false_nesting')
      BY <1>1, <1>2, <2>3, GroupsTurned DEF handle_elif, TopIf
    <3> QED BY <1>1, <1>2, <2>3, <3>1, LineStep DEF handle_elif
  <2>4. CASE /\ false_nesting = 0
             /\ cur' = SetTop(dirty_stream(s), "SKIP_GROUPS") /\ false_nesting' = 1
    <3>1. /\ cur' \in Stream
          /\ cur'.top = [cur.top EXCEPT ![Len(cur.top)] = "SKIP_GROUPS"]
      BY <1>1, <1>2, <2>4, TopTypes DEF handle_elif, Kinds
    <3>2. GroupsOK(cur'.top, false_nesting')
      BY <1>2, <2>4, <3>1, GroupsTurned DEF handle_elif
    <3> QED BY <1>2, <2>4, <3>1, <3>2, LineStep DEF handle_elif
  <2> QED BY <2>1, <2>2, <2>3, <2>4
<1>3. ASSUME ElifAfterElse PROVE IInv'
  <2>1. GroupsOK(cur'.top, false_nesting') /\ false_nesting' \in Nat
    BY <1>1, <1>3, GroupsTurned DEF ElifAfterElse, TopIf
  <2> QED BY <1>1, <1>3, <2>1, LineStep DEF ElifAfterElse
<1>4. ASSUME Unmatched PROVE IInv'
  BY <1>1, <1>4, QuietStep DEF Unmatched
<1>5. ASSUME handle_else PROVE IInv'
  <2> DEFINE t == IF TopIf(cur) = "ELSE" THEN nesting_error(s) ELSE s
  <2>1. t \in Stream /\ t.top = cur.top /\ cur.top # <<>> /\ cur' = SetTop(t, "ELSE")
    BY <1>1, <1>5 DEF handle_else
  <2> HIDE DEF t
  <2>2. cur' \in Stream /\ cur'.top = [cur.top EXCEPT ![Len(cur.top)] = "ELSE"]
    BY <2>1, TopTypes DEF Kinds
  <2>3. /\ false_nesting = 0 => GroupsOK(cur'.top, 1)
        /\ TopIf(cur) = "IF" /\ false_nesting > 0 => GroupsOK(cur'.top, 0)
        /\ false_nesting > 0 => GroupsOK(cur'.top, false_nesting)
    BY <2>1, <2>2, GroupsTurned DEF TopIf
  <2>4. false_nesting' = IF false_nesting = 0 THEN 1
                         ELSE IF TopIf(cur) = "IF" THEN 0 ELSE false_nesting
    BY <1>5 DEF handle_else
  <2>5. GroupsOK(cur'.top, false_nesting') /\ false_nesting' \in Nat
    BY <2>3, <2>4
  <2> QED BY <1>5, <2>5, <2>2, <2>3, LineStep DEF handle_else
<1>6. ASSUME handle_endif PROVE IInv'
  <2>1. cur.top # <<>> /\ SubSeq(cur.top, 1, Len(cur.top) - 1) \in Seq(Kinds)
    BY <1>6, TopTypes DEF handle_endif, Kinds
  <2>2. cur' \in Stream /\ cur'.top = SubSeq(cur.top, 1, Len(cur.top) - 1)
    BY <1>1, <1>6, <2>1 DEF handle_endif, Stream, Kinds
  <2>3. GroupsOK(cur'.top, false_nesting') /\ false_nesting' \in Nat
    BY <1>6, <2>1, <2>2, GroupsClosed DEF handle_endif
  <2> QED BY <1>6, <2>2, <2>3, LineStep DEF handle_endif
<1> QED BY <1>2, <1>3, <1>4, <1>5, <1>6

\* Text and the normal directives of the current stream.
LEMMA PlainStep ==
    ASSUME IInv,
           \/ Text
           \/ \E m \in Macros : handle_define(m)
           \/ \E m \in Macros : handle_undef(m)
           \/ handle_pragma_once
    PROVE  IInv'
<1> USE CurFacts
<1>1. dirty_stream(cur) \in Stream /\ dirty_stream(cur).top = cur.top
  BY HelperTypes
<1>2. ASSUME Text PROVE IInv'
  BY <1>1, <1>2, QuietStep DEF Text
<1>3. ASSUME NEW d \in SUBSET Macros, SetDefs(d) PROVE IInv'
  BY <1>1, <1>3, QuietStep DEF SetDefs
<1>4. ASSUME NEW m \in Macros, handle_define(m) \/ handle_undef(m) PROVE IInv'
  BY <1>3, <1>4 DEF handle_define, handle_undef
<1>5. ASSUME handle_pragma_once PROVE IInv'
  <2>1. cur' \in Stream /\ cur'.top = cur.top
    BY <1>1, <1>5 DEF handle_pragma_once, Stream
  <2> QED BY <1>5, <2>1, QuietStep DEF handle_pragma_once
<1> QED BY <1>2, <1>4, <1>5

\* An #include: the includer waits with no group skipped.
LEMMA IncludeStep ==
    ASSUME IInv, NEW f \in Headers, handle_include(f)
    PROVE  IInv'
<1> DEFINE s == dirty_stream(cur)
<1> USE CurFacts
<1>1. s \in Stream /\ s.top = cur.top
  BY HelperTypes
<1>2. CASE cur' = s /\ outer' = outer
  BY <1>1, <1>2, QuietStep DEF handle_include
<1>3. CASE /\ false_nesting = 0
           /\ outer' = Append(outer, s) /\ cur' = init_stream(f)
  <2>1. cur' \in Stream /\ cur'.top = <<>>
    BY <1>3, FreshStream DEF Files
  <2>2. GroupsOK(s.top, 0)
    BY <1>1, <1>3
  <2>3. outer' \in Seq(Stream) /\ \A j \in 1..Len(outer') : GroupsOK(outer'[j].top, 0)
    BY <1>1, <1>3, <2>2 DEF IInv, TypeOK, NestingOK
  <2>4. GroupsOK(cur'.top, false_nesting')
    BY <1>3, <2>1 DEF handle_include, GroupsOK
  <2>5. passed' \in BOOLEAN /\ false_nesting' = false_nesting /\ defs' = defs /\ done' = done
    BY DEF handle_include
  <2> QED BY <2>1, <2>3, <2>4, <2>5 DEF IInv, TypeOK, NestingOK
<1> QED BY <1>2, <1>3 DEF handle_include

\* The end of a stream: whatever was left open, nothing is skipped after it.
LEMMA EndStep ==
    ASSUME IInv, Return \/ NextFile
    PROVE  IInv'
<1> USE CurFacts
<1>1. StreamEnd
  BY DEF Return, NextFile
<1>2. Finish(EndOfStream(cur)) \in Closed
  BY HelperTypes
<1>3. done' \in Seq(Closed) /\ passed' \in BOOLEAN
  BY <1>1, <1>2 DEF StreamEnd, IInv, TypeOK
<1>4. false_nesting' = 0
  BY <1>1 DEF StreamEnd, GroupsOK
<1>5. ASSUME Return PROVE IInv'
  <2>1. Len(outer) \in 1..Len(outer) /\ outer \in Seq(Stream)
    BY <1>5 DEF Return, IInv, TypeOK
  <2>2. cur' \in Stream /\ GroupsOK(cur'.top, 0)
    BY <1>5, <2>1 DEF Return, IInv, TypeOK, NestingOK
  <2>3. outer' \in Seq(Stream) /\ \A j \in 1..Len(outer') : GroupsOK(outer'[j].top, 0)
    BY <1>5, <2>1 DEF Return, IInv, TypeOK, NestingOK
  <2>4. defs' \subseteq Macros
    BY <1>5 DEF Return
  <2> QED BY <1>3, <1>4, <2>2, <2>3, <2>4 DEF IInv, TypeOK, NestingOK
<1>6. ASSUME NextFile PROVE IInv'
  <2>1. cur' \in Stream /\ GroupsOK(cur'.top, 0)
    BY <1>6, FreshStream DEF NextFile, Files, GroupsOK
  <2>2. defs' \subseteq Macros /\ outer' = outer
    BY <1>6, PreAssumption DEF NextFile
  <2> QED BY <1>3, <1>4, <2>1, <2>2 DEF IInv, TypeOK, NestingOK
<1> QED BY <1>5, <1>6

\* Every line keeps the invariant.
LEMMA NextIInv == IInv /\ [Next]_vars => IInv'
<1> SUFFICES ASSUME IInv, [Next]_vars PROVE IInv'
  OBVIOUS
<1> USE CurFacts
<1>1. CASE \E m \in Macros : handle_ifdef(m)
  <2>1. PICK m \in Macros : handle_ifdef(m)
    BY <1>1
  <2>2. (m \in defs) \in BOOLEAN /\ preprocessor_if(cur, m \in defs)
    BY <2>1 DEF handle_ifdef
  <2> QED BY <2>2, OpenStep
<1>2. CASE \E m \in Macros : handle_ifndef(m)
  <2>1. PICK m \in Macros : handle_ifndef(m)
    BY <1>2
  <2>2. NoteGuard(cur, m) \in Stream /\ NoteGuard(cur, m).top = cur.top
    BY HelperTypes
  <2> QED BY <2>1, <2>2, OpenStep DEF handle_ifndef
<1>3. dirty_stream(cur) \in Stream /\ dirty_stream(cur).top = cur.top
  BY HelperTypes
<1>4. CASE handle_ifdef_bad
  BY <1>3, <1>4, OpenStep DEF handle_ifdef_bad
<1>5. CASE \E c \in Conds : handle_if(c)
  <2>1. PICK c \in Conds : handle_if(c)
    BY <1>5
  <2>2. (defs \in c) \in BOOLEAN /\ preprocessor_if(dirty_stream(cur), defs \in c)
    BY <2>1 DEF handle_if
  <2> QED BY <1>3, <2>2, OpenStep
<1>6. CASE \/ \E c \in Conds : handle_elif(c)
           \/ ElifAfterElse
           \/ Unmatched
           \/ handle_else
           \/ handle_endif
  BY <1>6, BranchStep
<1>7. CASE \/ Text
           \/ \E m \in Macros : handle_define(m)
           \/ \E m \in Macros : handle_undef(m)
           \/ handle_pragma_once
  BY <1>7, PlainStep
<1>8. CASE \E f \in Headers : handle_include(f)
  BY <1>8, IncludeStep
<1>9. CASE Return \/ NextFile
  BY <1>9, EndStep
<1>10. CASE UNCHANGED vars
  BY <1>10 DEF vars, IInv, TypeOK, NestingOK
<1> QED BY <1>1, <1>2, <1>4, <1>5, <1>6, <1>7, <1>8, <1>9, <1>10 DEF Next

\* Every variable keeps its type.
THEOREM TypeCorrect == Spec => []TypeOK
<1>1. IInv => TypeOK
  BY DEF IInv
<1> QED BY <1>1, InitIInv, NextIInv, PTL DEF Spec

\* handle_elif and handle_else may store 0 or 1 into false_nesting: the
\* counter and the kinds of the open groups always fit each other.
THEOREM NestingCorrect == Spec => []NestingOK
<1>1. IInv => NestingOK
  BY DEF IInv
<1> QED BY <1>1, InitIInv, NextIInv, PTL DEF Spec
-----------------------------------------------------------------------------
\* PreProcess implements CondSpec: the kinds of the open groups and one counter
\* say as much as the groups themselves.

\* A group is processed iff nothing is skipped.
LEMMA GroupsLive ==
    ASSUME NEW top \in Seq(Kinds), NEW fn \in Nat, GroupsOK(top, fn)
    PROVE  /\ GroupsOf(top, fn) \in Seq(Group)
           /\ Len(GroupsOf(top, fn)) = Len(top)
           /\ Live(GroupsOf(top, fn)) <=> fn = 0
           /\ GroupsOf(top, fn) = <<>> <=> top = <<>>
<1> DEFINE G == GroupsOf(top, fn)
<1>1. G \in Seq(Group) /\ Len(G) = Len(top)
  BY DEF GroupsOf, Group
<1>2. G = <<>> <=> top = <<>>
  BY <1>1
<1>3. ASSUME top # <<>> PROVE G[Len(G)].active <=> fn = 0
  <2>1. Len(top) \in 1..Len(top) /\ Len(top) \in Nat
    BY <1>3
  <2>2. G[Len(top)].active = (Len(top) + fn <= Len(top))
    BY <2>1 DEF GroupsOf
  <2>3. (Len(top) + fn <= Len(top)) <=> fn = 0
    BY <2>1
  <2> QED BY <1>1, <2>2, <2>3
<1>4. Live(G) <=> fn = 0
  BY <1>2, <1>3 DEF Live, GroupsOK
<1> QED BY <1>1, <1>2, <1>4

LEMMA OpenRefines ==
    ASSUME NEW top \in Seq(Kinds), NEW fn \in Nat, GroupsOK(top, fn), NEW v \in BOOLEAN
    PROVE  LET t == Append(top, IF fn > 0 THEN "SKIP_GROUPS" ELSE "IF")
               n == IF fn > 0 \/ ~v THEN fn + 1 ELSE fn
           IN  GroupsOf(t, n) = OpenGroup(GroupsOf(top, fn), v)
<1> DEFINE G == GroupsOf(top, fn)
           t == Append(top, IF fn > 0 THEN "SKIP_GROUPS" ELSE "IF")
           n == IF fn > 0 \/ ~v THEN fn + 1 ELSE fn
           H == OpenGroup(G, v)
<1>1. G \in Seq(Group) /\ Len(G) = Len(top) /\ (Live(G) <=> fn = 0)
  BY GroupsLive
<1>2. H = Append(G, [active |-> fn = 0 /\ v, may |-> fn = 0 /\ ~v, els |-> FALSE])
  BY <1>1 DEF OpenGroup
<1>3. H \in Seq(Group) /\ Len(H) = Len(top) + 1
  BY <1>1, <1>2 DEF Group
<1>4. t \in Seq(Kinds) /\ Len(t) = Len(top) + 1 /\ n \in Nat
  BY DEF Kinds
<1>5. ASSUME NEW i \in 1..Len(t) PROVE GroupsOf(t, n)[i] = H[i]
  <2>1. CASE i = Len(t)
    <3>1. GroupsOf(t, n)[i] = [active |-> i + n <= Len(t),
                               may |-> i + n = Len(t) + 1 /\ t[i] = "IF",
                               els |-> t[i] = "ELSE"]
      BY DEF GroupsOf
    <3> DEFINE a == fn = 0 /\ v
               m == fn = 0 /\ ~v
               a1 == i + n <= Len(t)
               m1 == i + n = Len(t) + 1 /\ t[i] = "IF"
               e1 == t[i] = "ELSE"
    <3>2. H[i] = [active |-> a, may |-> m, els |-> FALSE]
      BY <1>1, <1>2, <1>4, <2>1
    <3>3. a1 = a
      BY <1>4, <2>1
    <3>4. m1 = m
      BY <1>4, <2>1
    <3>5. e1 = FALSE
      BY <1>4, <2>1
    <3>6. GroupsOf(t, n)[i] = [active |-> a1, may |-> m1, els |-> e1]
      BY <3>1
    <3> HIDE DEF a, m, a1, m1, e1
    <3> QED BY <3>2, <3>3, <3>4, <3>5, <3>6
  <2>2. CASE i # Len(t)
    <3>1. i \in 1..Len(top) /\ t[i] = top[i]
      BY <1>4, <2>2
    <3>2. GroupsOf(t, n)[i] = [active |-> i + n <= Len(t),
                               may |-> i + n = Len(t) + 1 /\ t[i] = "IF",
                               els |-> t[i] = "ELSE"]
      BY DEF GroupsOf
    <3>3. H[i] = G[i]
      BY <1>1, <1>2, <3>1
    <3>4. G[i] = [active |-> i + fn <= Len(top),
                  may |-> i + fn = Len(top) + 1 /\ top[i] = "IF",
                  els |-> top[i] = "ELSE"]
      BY <3>1 DEF GroupsOf
    <3>5. (i + n <= Len(t)) <=> (i + fn <= Len(top))
      BY <1>4, <3>1
    <3>6. (i + n = Len(t) + 1 /\ t[i] = "IF") <=> (i + fn = Len(top) + 1 /\ top[i] = "IF")
      BY <1>4, <3>1 DEF GroupsOK
    <3> QED BY <3>1, <3>2, <3>3, <3>4, <3>5, <3>6
  <2> QED BY <2>1, <2>2
<1>6. /\ GroupsOf(t, n) = [i \in 1..Len(t) |-> GroupsOf(t, n)[i]]
      /\ H = [i \in 1..Len(t) |-> H[i]]
  BY <1>3, <1>4 DEF GroupsOf
<1> QED BY <1>5, <1>6

\* Turning the innermost group with an #elif or an #else: from kinds top and
\* counter fn to t and n, where g is the group after the turn.
Turned(top, fn, t, n, g) ==
    /\ Len(t) = Len(top)
    /\ \A i \in 1..(Len(top) - 1) :
          /\ t[i] = top[i]
          /\ (i + n <= Len(top)) <=> (i + fn <= Len(top))
          /\ (i + n = Len(top) + 1 /\ top[i] = "IF") <=> (i + fn = Len(top) + 1 /\ top[i] = "IF")
    /\ g.active <=> n = 0
    /\ g.may <=> n = 1 /\ t[Len(top)] = "IF"
    /\ g.els <=> t[Len(top)] = "ELSE"

LEMMA TurnRefines ==
    ASSUME NEW top \in Seq(Kinds), top # <<>>, NEW fn \in Nat, GroupsOK(top, fn),
           NEW t \in Seq(Kinds), NEW n \in Nat, NEW g \in Group, Turned(top, fn, t, n, g)
    PROVE  GroupsOf(t, n) = [GroupsOf(top, fn) EXCEPT ![Len(GroupsOf(top, fn))] = g]
<1> DEFINE G == GroupsOf(top, fn)
           H == [G EXCEPT ![Len(G)] = g]
           N == Len(top)
<1> USE DEF Turned
<1>1. G \in Seq(Group) /\ Len(G) = N /\ N \in Nat \ {0}
  BY GroupsLive
<1>2. ASSUME NEW i \in 1..N PROVE GroupsOf(t, n)[i] = H[i]
  <2>1. GroupsOf(t, n)[i] = [active |-> i + n <= N,
                             may |-> i + n = N + 1 /\ t[i] = "IF",
                             els |-> t[i] = "ELSE"]
    BY DEF GroupsOf
  <2>2. CASE i = N
    <3>1. H[i] = [active |-> g.active, may |-> g.may, els |-> g.els]
      BY <1>1, <2>2 DEF Group
    <3>2. /\ (i + n <= N) <=> g.active
          /\ (i + n = N + 1 /\ t[i] = "IF") <=> g.may
          /\ (t[i] = "ELSE") <=> g.els
      BY <1>1, <2>2
    <3>3. g.active \in BOOLEAN /\ g.may \in BOOLEAN /\ g.els \in BOOLEAN
      BY DEF Group
    <3> QED BY <2>1, <3>1, <3>2, <3>3
  <2>3. CASE i # N
    <3>1. i \in 1..(N - 1) /\ H[i] = G[i]
      BY <1>1, <2>3
    <3>2. G[i] = [active |-> i + fn <= N,
                  may |-> i + fn = N + 1 /\ top[i] = "IF",
                  els |-> top[i] = "ELSE"]
      BY DEF GroupsOf
    <3> QED BY <2>1, <3>1, <3>2
  <2> QED BY <2>2, <2>3
<1>3. /\ GroupsOf(t, n) = [i \in 1..N |-> GroupsOf(t, n)[i]]
      /\ H = [i \in 1..N |-> H[i]]
  BY <1>1 DEF GroupsOf
<1> QED BY <1>2, <1>3

LEMMA CloseRefines ==
    ASSUME NEW top \in Seq(Kinds), top # <<>>, NEW fn \in Nat, GroupsOK(top, fn)
    PROVE  GroupsOf(SubSeq(top, 1, Len(top) - 1), IF fn > 0 THEN fn - 1 ELSE 0)
             = CloseGroup(GroupsOf(top, fn))
<1> DEFINE G == GroupsOf(top, fn)
           t == SubSeq(top, 1, Len(top) - 1)
           n == IF fn > 0 THEN fn - 1 ELSE 0
           H == CloseGroup(G)
<1>1. G \in Seq(Group) /\ Len(G) = Len(top) /\ Len(top) \in Nat \ {0}
  BY GroupsLive
<1>2. t \in Seq(Kinds) /\ Len(t) = Len(top) - 1 /\ \A i \in 1..Len(t) : t[i] = top[i]
  BY FrontFacts
<1>3. H \in Seq(Group) /\ Len(H) = Len(top) - 1 /\ \A i \in 1..Len(t) : H[i] = G[i]
  BY <1>1, <1>2 DEF CloseGroup
<1>4. ASSUME NEW i \in 1..Len(t) PROVE GroupsOf(t, n)[i] = H[i]
  <2>1. GroupsOf(t, n)[i] = [active |-> i + n <= Len(t),
                             may |-> i + n = Len(t) + 1 /\ t[i] = "IF",
                             els |-> t[i] = "ELSE"]
    BY DEF GroupsOf
  <2>2. G[i] = [active |-> i + fn <= Len(top),
                may |-> i + fn = Len(top) + 1 /\ top[i] = "IF",
                els |-> top[i] = "ELSE"]
    BY <1>2 DEF GroupsOf
  <2>3. (i + n <= Len(t)) <=> (i + fn <= Len(top))
    BY <1>1, <1>2
  <2>4. (i + n = Len(t) + 1) <=> (i + fn = Len(top) + 1)
    <3>1. i \in Nat /\ i <= Len(t) /\ Len(t) = Len(top) - 1 /\ Len(top) \in Nat
      BY <1>1, <1>2
    <3> QED BY <3>1
  <2> QED BY <1>2, <1>3, <2>1, <2>2, <2>3, <2>4
<1>5. GroupsOf(t, n) = [i \in 1..Len(t) |-> GroupsOf(t, n)[i]]
  BY DEF GroupsOf
<1>6. H = [i \in 1..Len(t) |-> H[i]]
  BY <1>2, <1>3
<1> QED BY <1>4, <1>5, <1>6

-----------------------------------------------------------------------------
\* The stack of files.

Now == GroupsOf(cur.top, false_nesting)

LEMMA AbsFacts ==
    ASSUME IInv
    PROVE  /\ AbsFiles \in Seq(Seq(Group))
           /\ Len(AbsFiles) = Len(outer) + 1
           /\ AbsFiles[Len(AbsFiles)] = Now
           /\ Now \in Seq(Group)
           /\ Live(Now) <=> false_nesting = 0
           /\ Now = <<>> <=> cur.top = <<>>
<1>1. Now \in Seq(Group) /\ (Live(Now) <=> false_nesting = 0) /\ (Now = <<>> <=> cur.top = <<>>)
  BY CurFacts, GroupsLive DEF Now
<1>2. Len(outer) \in Nat
  BY DEF IInv, TypeOK
<1>3. ASSUME NEW i \in 1..Len(outer) PROVE GroupsOf(outer[i].top, 0) \in Seq(Group)
  <2>1. outer[i].top \in Seq(Kinds) /\ GroupsOK(outer[i].top, 0)
    <3>1. outer[i] \in Stream /\ GroupsOK(outer[i].top, 0)
      BY DEF IInv, TypeOK, NestingOK
    <3> QED BY <3>1 DEF Stream, Kinds
  <2> QED BY <2>1, GroupsLive
<1>4. AbsFiles \in Seq(Seq(Group)) /\ Len(AbsFiles) = Len(outer) + 1
  BY <1>1, <1>2, <1>3 DEF AbsFiles, Now
<1>5. AbsFiles[Len(AbsFiles)] = Now
  BY <1>2, <1>4 DEF AbsFiles, Now
<1> QED BY <1>1, <1>4, <1>5

\* A line of the current stream changes the groups of the last file only.
LEMMA AbsLine ==
    ASSUME IInv, outer' = outer
    PROVE  AbsFiles' = [AbsFiles EXCEPT ![Len(AbsFiles)] = Now']
<1>1. Len(outer) \in Nat /\ AbsFiles \in Seq(Seq(Group)) /\ Len(AbsFiles) = Len(outer) + 1
  BY AbsFacts DEF IInv, TypeOK
<1> DEFINE H == [AbsFiles EXCEPT ![Len(AbsFiles)] = Now']
<1>2. ASSUME NEW i \in 1..(Len(outer) + 1) PROVE AbsFiles'[i] = H[i]
  BY <1>1, <1>2 DEF AbsFiles, Now
<1>3. AbsFiles' = [i \in 1..(Len(outer) + 1) |-> AbsFiles'[i]]
  BY DEF AbsFiles
<1>4. H = [i \in 1..(Len(outer) + 1) |-> H[i]]
  BY <1>1 DEF AbsFiles
<1> QED BY <1>2, <1>3, <1>4

\* Lines that keep the groups.
LEMMA AbsSame ==
    ASSUME IInv, outer' = outer, false_nesting' = false_nesting, cur'.top = cur.top
    PROVE  AbsFiles' = AbsFiles
<1>1. Now' = Now
  BY DEF Now
<1>2. AbsFiles \in Seq(Seq(Group)) /\ Len(AbsFiles) \in 1..Len(AbsFiles)
      /\ AbsFiles[Len(AbsFiles)] = Now
  BY AbsFacts DEF IInv, TypeOK
<1> QED BY <1>1, <1>2, AbsLine

\* A turn of the innermost group is a step of CondSpec.
LEMMA ReplaceStep ==
    ASSUME IInv, outer' = outer, passed' = passed, NEW g, Now' = g
    PROVE  CS!Replace(g)
  BY AbsLine DEF CS!Replace

\* The instance has copies of the operators on groups.
LEMMA SameOperators ==
    /\ \A g, v : CS!OpenGroup(g, v) = OpenGroup(g, v) /\ CS!ElifGroup(g, v) = ElifGroup(g, v)
    /\ \A g : CS!ElseGroup(g) = ElseGroup(g) /\ CS!CloseGroup(g) = CloseGroup(g)
    /\ \A g : CS!Live(g) <=> Live(g)
<1>1. \A g : CS!Live(g) <=> Live(g)
  BY DEF CS!Live, Live
<1>2. \A g, v : CS!OpenGroup(g, v) = OpenGroup(g, v)
  BY DEF CS!Live, Live, CS!OpenGroup, OpenGroup
<1>3. \A g, v : CS!ElifGroup(g, v) = ElifGroup(g, v)
  BY DEF CS!ElifGroup, ElifGroup
<1>4. \A g : CS!ElseGroup(g) = ElseGroup(g) /\ CS!CloseGroup(g) = CloseGroup(g)
  BY DEF CS!ElseGroup, ElseGroup, CS!CloseGroup, CloseGroup
<1> QED BY <1>1, <1>2, <1>3, <1>4

\* The directives that open a group.
LEMMA OpenImplements ==
    ASSUME IInv, NEW s \in Stream, s.top = cur.top, NEW v \in BOOLEAN, preprocessor_if(s, v)
    PROVE  CS!Open
<1> USE CurFacts
<1> DEFINE t == Append(cur.top, IF false_nesting > 0 THEN "SKIP_GROUPS" ELSE "IF")
           n == IF false_nesting > 0 \/ ~v THEN false_nesting + 1 ELSE false_nesting
<1>1. cur'.top = t /\ false_nesting' = n
  BY DEF preprocessor_if, Stream
<1>2. Now' = GroupsOf(t, n)
  BY <1>1 DEF Now
<1>3. Now' = OpenGroup(Now, v)
  BY <1>2, OpenRefines DEF Now
<1>4. CS!Replace(OpenGroup(Now, v))
  BY <1>3, ReplaceStep DEF preprocessor_if
<1>5. CS!Innermost = Now
  BY AbsFacts DEF CS!Innermost
<1>6. CS!Replace(CS!OpenGroup(CS!Innermost, v))
  BY <1>4, <1>5, SameOperators
<1> QED BY <1>6 DEF CS!Open

\* The innermost group as CondSpec sees it.
LEMMA LastGroup ==
    ASSUME IInv, cur.top # <<>>
    PROVE  /\ Now # <<>> /\ CS!Innermost = Now
           /\ Now[Len(Now)] \in Group
           /\ Now[Len(Now)].may <=> false_nesting = 1 /\ TopIf(cur) = "IF"
           /\ Now[Len(Now)].els <=> TopIf(cur) = "ELSE"
<1> USE CurFacts
<1>1. Now \in Seq(Group) /\ Len(Now) = Len(cur.top) /\ Now # <<>>
  BY GroupsLive DEF Now
<1>2. CS!Innermost = Now
  BY AbsFacts DEF CS!Innermost
<1> DEFINE N == Len(cur.top)
<1>3. N \in 1..N /\ N \in Nat
  OBVIOUS
<1>4. Now[N] = [active |-> N + false_nesting <= N,
                may |-> N + false_nesting = N + 1 /\ cur.top[N] = "IF",
                els |-> cur.top[N] = "ELSE"]
  BY <1>3 DEF Now, GroupsOf
<1>5. (N + false_nesting = N + 1) <=> false_nesting = 1
  BY <1>3
<1>6. Now[N] \in Group
  BY <1>1, <1>3
<1>7. Now[N].may = (N + false_nesting = N + 1 /\ cur.top[N] = "IF")
  BY <1>4
<1>8. Now[N].els = (cur.top[N] = "ELSE")
  BY <1>4
<1>9. Now[N].may <=> false_nesting = 1 /\ TopIf(cur) = "IF"
  BY <1>5, <1>7 DEF TopIf
<1> QED BY <1>1, <1>2, <1>6, <1>8, <1>9 DEF TopIf

\* The innermost group after an #elif or an #else: only the counter's last
\* unit and the kind of that group change.
LEMMA TurnImplements ==
    ASSUME IInv, cur.top # <<>>, outer' = outer, passed' = passed,
           NEW t \in Seq(Kinds), Len(t) = Len(cur.top),
           \A i \in 1..(Len(cur.top) - 1) : t[i] = cur.top[i],
           cur'.top = t, false_nesting' \in Nat,
           false_nesting > 1 => false_nesting' = false_nesting,
           false_nesting <= 1 => false_nesting' <= 1,
           NEW g \in Group,
           g.active <=> false_nesting' = 0,
           g.may <=> false_nesting' = 1 /\ t[Len(cur.top)] = "IF",
           g.els <=> t[Len(cur.top)] = "ELSE"
    PROVE  CS!Replace([Now EXCEPT ![Len(Now)] = g])
<1> USE CurFacts
<1> DEFINE N == Len(cur.top)
           top == cur.top
           fn == false_nesting
           n == false_nesting'
<1>1. N \in Nat \ {0} /\ top \in Seq(Kinds) /\ fn \in Nat
  OBVIOUS
<1>2. ASSUME NEW i \in 1..(N - 1)
      PROVE  /\ t[i] = top[i]
             /\ (i + n <= N) <=> (i + fn <= N)
             /\ (i + n = N + 1 /\ top[i] = "IF") <=> (i + fn = N + 1 /\ top[i] = "IF")
  <2> HIDE DEF n
  <2>1. i \in Nat /\ i < N /\ n \in Nat
    BY <1>1 DEF n
  <2>2. \/ n = fn
        \/ n <= 1 /\ fn <= 1
    BY <1>1 DEF n
  <2>3. (i + n <= N) <=> (i + fn <= N)
    BY <1>1, <2>1, <2>2
  <2>4. (i + n = N + 1) <=> (i + fn = N + 1)
    <3>1. CASE n = fn
      BY <3>1
    <3>2. CASE n <= 1 /\ fn <= 1
      <4>1. i + n < N + 1 /\ i + fn < N + 1
        BY <1>1, <2>1, <3>2
      <4> QED BY <1>1, <2>1, <4>1
    <3> QED BY <2>2, <3>1, <3>2
  <2> QED BY <2>3, <2>4
<1>3. GroupsOf(t, n) = [GroupsOf(top, fn) EXCEPT ![Len(GroupsOf(top, fn))] = g]
  <2>1. Turned(top, fn, t, n, g)
    BY <1>2 DEF Turned
  <2>2. top \in Seq(Kinds) /\ top # <<>> /\ fn \in Nat /\ GroupsOK(top, fn) /\ n \in Nat
    OBVIOUS
  <2> HIDE DEF n, top, fn
  <2> QED BY <2>1, <2>2, TurnRefines
<1>4. Now' = [Now EXCEPT ![Len(Now)] = g]
  BY <1>3 DEF Now
<1> QED BY <1>4, ReplaceStep

LEMMA ElifImplements ==
    ASSUME IInv, NEW c \in Conds, handle_elif(c)
    PROVE  CS!Elif
<1> USE CurFacts
<1> DEFINE s == dirty_stream(end_group(cur))
           last == Now[Len(Now)]
           v == defs \in c
           g == [active |-> last.may /\ v, may |-> last.may /\ ~v, els |-> last.els]
<1>1. cur.top # <<>> /\ TopIf(cur) # "ELSE" /\ outer' = outer /\ passed' = passed
  BY DEF handle_elif
<1>2. s \in Stream /\ s.top = cur.top
  BY HelperTypes
<1>3. last \in Group /\ (last.may <=> false_nesting = 1 /\ TopIf(cur) = "IF") /\ ~last.els
  BY <1>1, LastGroup
<1>4. g \in Group
  BY <1>3 DEF Group
<1> DEFINE t == IF TopIf(cur) = "IF" /\ false_nesting = 0
                THEN [cur.top EXCEPT ![Len(cur.top)] = "SKIP_GROUPS"] ELSE cur.top
<1>5. t \in Seq(Kinds) /\ Len(t) = Len(cur.top) /\ \A i \in 1..(Len(cur.top) - 1) : t[i] = cur.top[i]
  BY <1>1 DEF Kinds
<1>6. cur'.top = t
  <2>1. CASE TopIf(cur) = "IF" /\ false_nesting = 0
    <3>1. cur' = SetTop(s, "SKIP_GROUPS")
      BY <2>1 DEF handle_elif
    <3>2. SetTop(s, "SKIP_GROUPS").top = [cur.top EXCEPT ![Len(cur.top)] = "SKIP_GROUPS"]
      BY <1>1, <1>2, TopTypes DEF Kinds
    <3> QED BY <2>1, <3>1, <3>2
  <2>2. CASE ~(TopIf(cur) = "IF" /\ false_nesting = 0)
    <3>1. cur' = s
      BY <2>2 DEF handle_elif
    <3> QED BY <1>2, <2>2, <3>1
  <2> QED BY <2>1, <2>2
<1>7. false_nesting' = IF TopIf(cur) # "IF" THEN false_nesting
                       ELSE IF false_nesting > 0 THEN (IF v THEN 0 ELSE 1) ELSE 1
  BY DEF handle_elif
<1>8. /\ TopIf(cur) = "IF" => false_nesting <= 1
      /\ TopIf(cur) = "SKIP_GROUPS" => false_nesting > 0
      /\ TopIf(cur) \in Kinds
  BY <1>1 DEF TopIf, GroupsOK
<1>9. /\ g.active <=> false_nesting' = 0
      /\ g.may <=> false_nesting' = 1 /\ t[Len(cur.top)] = "IF"
      /\ g.els <=> t[Len(cur.top)] = "ELSE"
  <2> DEFINE n == false_nesting'
             k == t[Len(cur.top)]
             A == last.may
  <2>1. /\ g.active <=> (A /\ v)
        /\ g.may <=> (A /\ ~v)
        /\ ~g.els
    BY <1>3 DEF Group
  <2>2. k = IF TopIf(cur) = "IF" /\ false_nesting = 0 THEN "SKIP_GROUPS" ELSE TopIf(cur)
    BY <1>1 DEF TopIf
  <2>3. A <=> false_nesting = 1 /\ TopIf(cur) = "IF"
    BY <1>3
  <2>4. n = IF TopIf(cur) # "IF" THEN false_nesting
            ELSE IF false_nesting > 0 THEN (IF v THEN 0 ELSE 1) ELSE 1
    BY <1>7
  <2> HIDE DEF n, k, A, g, t, last, v
  <2>5. (A /\ v) <=> n = 0
    BY <1>1, <1>8, <2>3, <2>4 DEF Kinds
  <2>6. (A /\ ~v) <=> n = 1 /\ k = "IF"
    BY <1>1, <1>8, <2>2, <2>3, <2>4 DEF Kinds
  <2>7. k # "ELSE"
    BY <1>1, <2>2
  <2> QED BY <2>1, <2>5, <2>6, <2>7 DEF n, k
<1>10. CS!Replace([Now EXCEPT ![Len(Now)] = g])
  <2>1. /\ false_nesting' \in Nat
        /\ false_nesting > 1 => false_nesting' = false_nesting
        /\ false_nesting <= 1 => false_nesting' <= 1
    BY <1>7, <1>8
  <2> HIDE DEF g, t, s
  <2> QED BY <1>1, <1>4, <1>5, <1>6, <1>9, <2>1, TurnImplements
<1>11. CS!ElifGroup(CS!Innermost, v) = [Now EXCEPT ![Len(Now)] = g]
  BY <1>1, LastGroup, SameOperators DEF ElifGroup
<1>12. v \in BOOLEAN /\ CS!Replace(CS!ElifGroup(CS!Innermost, v)) /\ CS!Innermost # <<>>
  BY <1>1, <1>10, <1>11, LastGroup
<1> QED BY <1>12 DEF CS!Elif

\* An #elif after the #else turns a group that was being processed off.
LEMMA LateElifImplements ==
    ASSUME IInv, ElifAfterElse
    PROVE  CS!Elif
<1> USE CurFacts
<1> DEFINE s == nesting_error(end_group(cur))
           last == Now[Len(Now)]
           g == [active |-> last.may /\ FALSE, may |-> last.may /\ ~FALSE, els |-> last.els]
<1>1. cur.top # <<>> /\ TopIf(cur) = "ELSE" /\ outer' = outer /\ passed' = passed
  BY DEF ElifAfterElse
<1>2. s.top = cur.top /\ cur' = s
  BY HelperTypes DEF ElifAfterElse
<1>3. last \in Group /\ ~last.may /\ last.els
  BY <1>1, LastGroup
<1>4. g \in Group /\ ~g.active /\ ~g.may /\ g.els
  BY <1>3 DEF Group
<1>5. /\ false_nesting' \in Nat /\ false_nesting' # 0
      /\ false_nesting > 1 => false_nesting' = false_nesting
      /\ false_nesting <= 1 => false_nesting' <= 1
  BY DEF ElifAfterElse
<1>6. cur.top[Len(cur.top)] = "ELSE" /\ cur'.top = cur.top
  BY <1>1, <1>2 DEF TopIf
<1>7. CS!Replace([Now EXCEPT ![Len(Now)] = g])
  <2> HIDE DEF g
  <2> QED BY <1>1, <1>4, <1>5, <1>6, TurnImplements
<1>8. CS!ElifGroup(CS!Innermost, FALSE) = [Now EXCEPT ![Len(Now)] = g]
  BY <1>1, LastGroup, SameOperators DEF ElifGroup
<1>9. CS!Replace(CS!ElifGroup(CS!Innermost, FALSE)) /\ CS!Innermost # <<>>
  BY <1>1, <1>7, <1>8, LastGroup
<1> QED BY <1>9 DEF CS!Elif

LEMMA ElseImplements ==
    ASSUME IInv, handle_else
    PROVE  CS!Else
<1> USE CurFacts
<1> DEFINE s == IF TopIf(cur) = "ELSE" THEN nesting_error(end_group(cur)) ELSE end_group(cur)
           last == Now[Len(Now)]
           g == [active |-> last.may, may |-> FALSE, els |-> TRUE]
           t == [cur.top EXCEPT ![Len(cur.top)] = "ELSE"]
<1>1. cur.top # <<>> /\ outer' = outer /\ passed' = passed
  BY DEF handle_else
<1>2. s \in Stream /\ s.top = cur.top /\ cur' = SetTop(s, "ELSE")
  BY HelperTypes DEF handle_else
<1>3. cur'.top = t
  <2> HIDE DEF s
  <2> QED BY <1>1, <1>2, TopTypes DEF Kinds
<1>4. t \in Seq(Kinds) /\ Len(t) = Len(cur.top) /\ t[Len(cur.top)] = "ELSE"
      /\ \A i \in 1..(Len(cur.top) - 1) : t[i] = cur.top[i]
  BY <1>1 DEF Kinds
<1>5. last \in Group /\ (last.may <=> false_nesting = 1 /\ TopIf(cur) = "IF")
  BY <1>1, LastGroup
<1>6. g \in Group /\ (g.active <=> last.may) /\ ~g.may /\ g.els
  BY <1>5 DEF Group
<1>7. /\ false_nesting' = IF false_nesting = 0 THEN 1
                          ELSE IF TopIf(cur) = "IF" THEN 0 ELSE false_nesting
      /\ TopIf(cur) = "IF" => false_nesting <= 1
  BY <1>1 DEF handle_else, TopIf, GroupsOK
<1>8. /\ false_nesting' \in Nat
      /\ false_nesting > 1 => false_nesting' = false_nesting
      /\ false_nesting <= 1 => false_nesting' <= 1
      /\ last.may <=> false_nesting' = 0
  BY <1>5, <1>7
<1>9. CS!Replace([Now EXCEPT ![Len(Now)] = g])
  <2> HIDE DEF g, t, last
  <2> QED BY <1>1, <1>3, <1>4, <1>6, <1>8, TurnImplements
<1>10. CS!ElseGroup(CS!Innermost) = [Now EXCEPT ![Len(Now)] = g]
  BY <1>1, LastGroup, SameOperators DEF ElseGroup
<1> QED BY <1>1, <1>9, <1>10, LastGroup DEF CS!Else

LEMMA EndifImplements ==
    ASSUME IInv, handle_endif
    PROVE  CS!Close
<1> USE CurFacts
<1> DEFINE t == SubSeq(cur.top, 1, Len(cur.top) - 1)
           n == IF false_nesting > 0 THEN false_nesting - 1 ELSE 0
<1>1. cur.top # <<>> /\ outer' = outer /\ passed' = passed /\ false_nesting' = n
  BY DEF handle_endif
<1>2. cur'.top = t
  BY HelperTypes DEF handle_endif, Stream
<1>3. Now' = GroupsOf(t, n)
  BY <1>1, <1>2 DEF Now
<1>4. Now' = CloseGroup(Now)
  BY <1>1, <1>3, CloseRefines DEF Now
<1>5. CS!Replace(CloseGroup(Now))
  BY <1>1, <1>4, ReplaceStep
<1> QED BY <1>1, <1>5, LastGroup, SameOperators DEF CS!Close

-----------------------------------------------------------------------------
\* Lines that are no conditional directives.

LEMMA LineImplements ==
    ASSUME IInv, outer' = outer, false_nesting' = false_nesting, cur'.top = cur.top,
           passed' = (false_nesting = 0)
    PROVE  CS!Line
<1>1. AbsFiles' = AbsFiles
  BY AbsSame
<1>2. CS!Innermost = Now /\ (CS!Live(Now) <=> false_nesting = 0)
  BY AbsFacts, SameOperators DEF CS!Innermost
<1>3. CS!Live(CS!Innermost) \in BOOLEAN
  BY DEF CS!Live
<1> QED BY <1>1, <1>2, <1>3 DEF CS!Line

LEMMA IncludeImplements ==
    ASSUME IInv, NEW f \in Headers, handle_include(f)
    PROVE  CS!Line \/ CS!Enter
<1> USE CurFacts
<1> DEFINE s == dirty_stream(cur)
<1>1. s \in Stream /\ s.top = cur.top
  BY HelperTypes
<1>2. passed' = (false_nesting = 0) /\ false_nesting' = false_nesting
  BY DEF handle_include
<1>3. CASE cur' = s /\ outer' = outer
  BY <1>1, <1>2, <1>3, LineImplements
<1>4. CASE /\ false_nesting = 0
           /\ outer' = Append(outer, s) /\ cur' = init_stream(f)
  <2>1. AbsFiles \in Seq(Seq(Group)) /\ Len(AbsFiles) = Len(outer) + 1 /\ outer \in Seq(Stream)
    BY AbsFacts DEF IInv, TypeOK
  <2>2. Now' = <<>>
    BY <1>4, FreshStream DEF Now, GroupsOf, Files
  <2> DEFINE H == Append(AbsFiles, <<>>)
             N == Len(outer) + 1
  <2>3. Len(outer') = N /\ \A i \in 1..Len(outer) : outer'[i] = outer[i]
    BY <1>1, <1>4, <2>1
  <2>4. outer'[N] = s /\ N \in Nat
    BY <1>1, <1>4, <2>1
  <2>5. ASSUME NEW i \in 1..(N + 1) PROVE AbsFiles'[i] = H[i]
    <3>1. CASE i < N
      BY <2>1, <2>3, <2>4, <3>1 DEF AbsFiles
    <3>2. CASE i = N
      BY <1>1, <1>4, <2>1, <2>3, <2>4, <3>2 DEF AbsFiles
    <3>3. CASE i = N + 1
      BY <2>1, <2>2, <2>3, <2>4, <3>3 DEF AbsFiles, Now
    <3>4. i \in Nat /\ i <= N + 1 /\ N \in Nat
      BY <2>4
    <3>5. i < N \/ i = N \/ i = N + 1
      BY <3>4
    <3> QED BY <3>1, <3>2, <3>3, <3>5
  <2>6. AbsFiles' = [i \in 1..(N + 1) |-> AbsFiles'[i]]
    BY <2>3 DEF AbsFiles
  <2>7. H = [i \in 1..(N + 1) |-> H[i]]
    <3>1. H \in Seq(Seq(Group)) /\ Len(H) = N + 1
      BY <2>1
    <3> HIDE DEF H
    <3> QED BY <3>1
  <2>8. AbsFiles' = H
    BY <2>5, <2>6, <2>7
  <2>9. CS!Live(CS!Innermost)
    BY <1>4, AbsFacts, SameOperators DEF CS!Innermost
  <2> QED BY <1>2, <1>4, <2>8, <2>9 DEF CS!Enter
<1> QED BY <1>3, <1>4 DEF handle_include

LEMMA EndImplements ==
    ASSUME IInv, Return \/ NextFile
    PROVE  CS!Leave
<1> USE CurFacts
<1>1. false_nesting' = 0 /\ passed' = passed
  BY DEF Return, NextFile, StreamEnd, GroupsOK
<1>2. AbsFiles \in Seq(Seq(Group)) /\ Len(AbsFiles) = Len(outer) + 1 /\ outer \in Seq(Stream)
  BY AbsFacts DEF IInv, TypeOK
<1>3. CASE Return
  <2> DEFINE N == Len(outer)
             H == SubSeq(AbsFiles, 1, Len(AbsFiles) - 1)
  <2>1. outer # <<>> /\ outer' = SubSeq(outer, 1, N - 1) /\ cur' = outer[N] /\ N \in Nat \ {0}
    BY <1>2, <1>3 DEF Return
  <2>2. Len(outer') = N - 1 /\ \A i \in 1..(N - 1) : outer'[i] = outer[i]
    BY <1>2, <2>1, FrontFacts
  <2>3. H \in Seq(Seq(Group)) /\ Len(H) = N /\ \A i \in 1..N : H[i] = AbsFiles[i]
    <3>1. AbsFiles # <<>> /\ Len(AbsFiles) - 1 = N
      BY <1>2, <2>1
    <3> QED BY <1>2, <3>1, FrontFacts
  <2> HIDE DEF H
  <2>4. ASSUME NEW i \in 1..N PROVE AbsFiles'[i] = H[i]
    <3>1. H[i] = GroupsOf(outer[i].top, 0)
      <4>1. i \in 1..(Len(outer) + 1) /\ i <= Len(outer)
        BY <2>1
      <4>2. AbsFiles[i] = GroupsOf(outer[i].top, 0)
        BY <4>1 DEF AbsFiles
      <4> QED BY <2>3, <4>2
    <3>2. Len(outer') + 1 = N /\ i \in 1..(Len(outer') + 1)
      BY <2>1, <2>2
    <3>3. AbsFiles'[i] = IF i <= Len(outer') THEN GroupsOf(outer'[i].top, 0)
                         ELSE GroupsOf(cur'.top, false_nesting')
      BY <3>2 DEF AbsFiles
    <3>4. CASE i = N
      <4>1. ~(i <= Len(outer'))
        BY <2>1, <2>2, <3>4
      <4> QED BY <1>1, <2>1, <3>1, <3>3, <3>4, <4>1
    <3>5. CASE i # N
      <4>1. i \in 1..(N - 1) /\ i <= Len(outer')
        BY <2>1, <2>2, <3>5
      <4> QED BY <2>2, <3>1, <3>3, <4>1
    <3> QED BY <3>4, <3>5
  <2>5. AbsFiles' = [i \in 1..N |-> AbsFiles'[i]]
    BY <2>1, <2>2 DEF AbsFiles
  <2>6. H = [i \in 1..N |-> H[i]]
    BY <2>3
  <2>7. AbsFiles' = H
    BY <2>4, <2>5, <2>6
  <2> QED BY <1>1, <1>2, <2>1, <2>7 DEF CS!Leave, H
<1>4. CASE NextFile
  <2>1. outer = <<>> /\ outer' = <<>> /\ cur'.top = <<>>
    BY <1>4, FreshStream DEF NextFile, Files
  <2>2. AbsFiles' = << <<>> >>
    BY <1>1, <2>1 DEF AbsFiles, GroupsOf
  <2> QED BY <1>1, <1>2, <2>1, <2>2 DEF CS!Leave
<1> QED BY <1>3, <1>4

-----------------------------------------------------------------------------
LEMMA InitImplements == Init => CS!Init
<1> SUFFICES ASSUME Init PROVE CS!Init
  OBVIOUS
<1>1. cur.top = <<>> /\ outer = <<>> /\ passed = TRUE
  BY FreshStream DEF Init, Files
<1>2. AbsFiles = << <<>> >>
  BY <1>1 DEF AbsFiles, GroupsOf
<1> QED BY <1>1, <1>2 DEF CS!Init

LEMMA NextImplements == IInv /\ [Next]_vars => [CS!Next]_(CS!vars)
<1> SUFFICES ASSUME IInv, [Next]_vars PROVE [CS!Next]_(CS!vars)
  OBVIOUS
<1> USE CurFacts
<1>1. dirty_stream(cur) \in Stream /\ dirty_stream(cur).top = cur.top
      /\ \A m \in Macros : NoteGuard(cur, m) \in Stream /\ NoteGuard(cur, m).top = cur.top
  BY HelperTypes
<1>2. ASSUME NEW s \in Stream, s.top = cur.top, NEW v \in BOOLEAN, preprocessor_if(s, v)
      PROVE  CS!Next
  BY <1>2, OpenImplements DEF CS!Next
<1>3. CASE \E m \in Macros : handle_ifdef(m)
  <2>1. PICK m \in Macros : handle_ifdef(m)
    BY <1>3
  <2>2. (m \in defs) \in BOOLEAN /\ preprocessor_if(cur, m \in defs)
    BY <2>1 DEF handle_ifdef
  <2> QED BY <1>2, <2>2
<1>4. CASE \E m \in Macros : handle_ifndef(m)
  <2>1. PICK m \in Macros : handle_ifndef(m)
    BY <1>4
  <2>2. (m \notin defs) \in BOOLEAN /\ preprocessor_if(NoteGuard(cur, m), m \notin defs)
    BY <2>1 DEF handle_ifndef
  <2> QED BY <1>1, <1>2, <2>2
<1>5. CASE handle_ifdef_bad
  BY <1>1, <1>2, <1>5 DEF handle_ifdef_bad
<1>6. CASE \E c \in Conds : handle_if(c)
  <2>1. PICK c \in Conds : handle_if(c)
    BY <1>6
  <2>2. (defs \in c) \in BOOLEAN /\ preprocessor_if(dirty_stream(cur), defs \in c)
    BY <2>1 DEF handle_if
  <2> QED BY <1>1, <1>2, <2>2
<1>7. CASE (\E c \in Conds : handle_elif(c)) \/ ElifAfterElse
  BY <1>7, ElifImplements, LateElifImplements DEF CS!Next
<1>8. CASE handle_else \/ handle_endif
  BY <1>8, ElseImplements, EndifImplements DEF CS!Next
<1>9. CASE Unmatched
  <2>1. cur'.top = cur.top /\ outer' = outer /\ false_nesting' = false_nesting /\ passed' = passed
    BY <1>9, HelperTypes DEF Unmatched
  <2> QED BY <2>1, AbsSame DEF CS!vars
<1>10. CASE Text
  BY <1>1, <1>10, LineImplements DEF Text, CS!Next
<1>11. ASSUME NEW d, SetDefs(d) PROVE CS!Next
  BY <1>1, <1>11, LineImplements DEF SetDefs, CS!Next
<1>12. CASE (\E m \in Macros : handle_define(m)) \/ (\E m \in Macros : handle_undef(m))
  BY <1>11, <1>12 DEF handle_define, handle_undef
<1>13. CASE handle_pragma_once
  <2>1. cur'.top = cur.top
    BY <1>1, <1>13 DEF handle_pragma_once, Stream
  <2> QED BY <1>13, <2>1, LineImplements DEF handle_pragma_once, CS!Next
<1>14. CASE \E f \in Headers : handle_include(f)
  BY <1>14, IncludeImplements DEF CS!Next
<1>15. CASE Return \/ NextFile
  BY <1>15, EndImplements DEF CS!Next
<1>16. CASE UNCHANGED vars
  BY <1>16 DEF vars, CS!vars, AbsFiles
<1> QED
  BY <1>3, <1>4, <1>5, <1>6, <1>7, <1>8, <1>9, <1>10, <1>12, <1>13, <1>14, <1>15, <1>16 DEF Next

\* The shared counter false_nesting and one kind per open group implement the
\* conditional directives over a stack of included files: a line is processed
\* iff it is in a branch that C's rules choose, whatever directives are
\* missing, doubled or out of order, and a header, with its groups closed or
\* not, leaves the groups of its includer as they were.
THEOREM Refinement == Spec => ImplementsCondSpec
<1>1. Spec => []IInv
  BY InitIInv, NextIInv, PTL DEF Spec
<1> QED BY <1>1, InitImplements, NextImplements, PTL DEF Spec, CS!Spec, ImplementsCondSpec
=============================================================================
