--------------------------- MODULE PreGuard_proofs ---------------------------
(***************************************************************************)
(* The include-guard detector is sound: proofs about PreGuard.             *)
(***************************************************************************)
EXTENDS PreGuard, PreProcess_proofs

\* A group is active, or may become so, only inside active ones.
Nested(gs) ==
    \A i, j \in 1..Len(gs) : i < j /\ (gs[j].active \/ gs[j].may) => gs[i].active

LEMMA NestedLive ==
    ASSUME NEW gs \in Seq(Group), Nested(gs), NEW i \in 1..Len(gs), ~gs[i].active
    PROVE  ~Live(gs)
  BY DEF Nested, Live, Group

LEMMA NestedOpen ==
    ASSUME NEW gs \in Seq(Group), Nested(gs), NEW v \in BOOLEAN
    PROVE  /\ OpenGroup(gs, v) \in Seq(Group)
           /\ Len(OpenGroup(gs, v)) = Len(gs) + 1
           /\ Nested(OpenGroup(gs, v))
           /\ \A i \in 1..Len(gs) : OpenGroup(gs, v)[i] = gs[i]
           /\ OpenGroup(gs, v)[Len(gs) + 1].active => v
<1> DEFINE H == OpenGroup(gs, v)
           N == Len(gs)
           r == [active |-> Live(gs) /\ v, may |-> Live(gs) /\ ~v, els |-> FALSE]
<1>1. r \in Group /\ N \in Nat /\ (r.active => v) /\ (r.active \/ r.may => Live(gs))
  <2>1. Live(gs) \in BOOLEAN
    BY DEF Live, Group
  <2> QED BY <2>1 DEF Group
<1>2. H = Append(gs, r)
  BY DEF OpenGroup
<1> HIDE DEF r, H
<1>3. H \in Seq(Group) /\ Len(H) = N + 1 /\ H[N + 1] = r /\ \A i \in 1..N : H[i] = gs[i]
  BY <1>1, <1>2
<1>4. ASSUME NEW i \in 1..(N + 1), NEW j \in 1..(N + 1), i < j, H[j].active \/ H[j].may
      PROVE  H[i].active
  <2>1. i \in 1..N /\ H[i] = gs[i]
    BY <1>1, <1>3, <1>4
  <2>2. CASE j \in 1..N
    BY <1>3, <1>4, <2>1, <2>2 DEF Nested
  <2>3. CASE j = N + 1
    <3>1. Live(gs)
      BY <1>1, <1>3, <1>4, <2>3
    <3>2. gs[N].active /\ N \in 1..N
      BY <1>1, <2>1, <3>1 DEF Live
    <3> QED BY <2>1, <3>2 DEF Nested
  <2> QED BY <1>1, <2>2, <2>3
<1>5. Nested(H)
  BY <1>3, <1>4 DEF Nested
<1> QED BY <1>1, <1>3, <1>5 DEF H

\* An #elif or #else: the last group becomes active, or stays able to, only
\* if it was able to.
LEMMA NestedTurn ==
    ASSUME NEW gs \in Seq(Group), Nested(gs), gs # <<>>, NEW r \in Group,
           r.active \/ r.may => gs[Len(gs)].may
    PROVE  /\ [gs EXCEPT ![Len(gs)] = r] \in Seq(Group)
           /\ Len([gs EXCEPT ![Len(gs)] = r]) = Len(gs)
           /\ Nested([gs EXCEPT ![Len(gs)] = r])
           /\ \A i \in 1..(Len(gs) - 1) : [gs EXCEPT ![Len(gs)] = r][i] = gs[i]
  BY DEF Nested

LEMMA NestedElif ==
    ASSUME NEW gs \in Seq(Group), Nested(gs), gs # <<>>, NEW v \in BOOLEAN
    PROVE  /\ ElifGroup(gs, v) \in Seq(Group) /\ Len(ElifGroup(gs, v)) = Len(gs)
           /\ Nested(ElifGroup(gs, v))
           /\ \A i \in 1..(Len(gs) - 1) : ElifGroup(gs, v)[i] = gs[i]
<1> DEFINE t == gs[Len(gs)]
           r == [active |-> t.may /\ v, may |-> t.may /\ ~v, els |-> t.els]
<1>1. r \in Group /\ (r.active \/ r.may => gs[Len(gs)].may)
  <2>1. t \in Group
    OBVIOUS
  <2> HIDE DEF t
  <2>2. r \in Group /\ (r.active \/ r.may => t.may)
    BY <2>1 DEF Group
  <2> QED BY <2>2 DEF t
<1>2. ElifGroup(gs, v) = [gs EXCEPT ![Len(gs)] = r]
  BY DEF ElifGroup
<1> HIDE DEF r
<1>3. /\ [gs EXCEPT ![Len(gs)] = r] \in Seq(Group)
      /\ Len([gs EXCEPT ![Len(gs)] = r]) = Len(gs)
      /\ Nested([gs EXCEPT ![Len(gs)] = r])
      /\ \A i \in 1..(Len(gs) - 1) : [gs EXCEPT ![Len(gs)] = r][i] = gs[i]
  BY <1>1, NestedTurn
<1> QED BY <1>2, <1>3

LEMMA NestedElse ==
    ASSUME NEW gs \in Seq(Group), Nested(gs), gs # <<>>
    PROVE  /\ ElseGroup(gs) \in Seq(Group) /\ Len(ElseGroup(gs)) = Len(gs)
           /\ Nested(ElseGroup(gs))
           /\ \A i \in 1..(Len(gs) - 1) : ElseGroup(gs)[i] = gs[i]
<1> DEFINE t == gs[Len(gs)]
           r == [active |-> t.may, may |-> FALSE, els |-> TRUE]
<1>1. r \in Group /\ (r.active \/ r.may => gs[Len(gs)].may)
  <2>1. t \in Group
    OBVIOUS
  <2> HIDE DEF t
  <2>2. r \in Group /\ (r.active \/ r.may => t.may)
    BY <2>1 DEF Group
  <2> QED BY <2>2 DEF t
<1>2. ElseGroup(gs) = [gs EXCEPT ![Len(gs)] = r]
  BY DEF ElseGroup
<1> HIDE DEF r
<1>3. /\ [gs EXCEPT ![Len(gs)] = r] \in Seq(Group)
      /\ Len([gs EXCEPT ![Len(gs)] = r]) = Len(gs)
      /\ Nested([gs EXCEPT ![Len(gs)] = r])
      /\ \A i \in 1..(Len(gs) - 1) : [gs EXCEPT ![Len(gs)] = r][i] = gs[i]
  BY <1>1, NestedTurn
<1> QED BY <1>2, <1>3

LEMMA NestedClose ==
    ASSUME NEW gs \in Seq(Group), Nested(gs), gs # <<>>
    PROVE  /\ CloseGroup(gs) \in Seq(Group) /\ Len(CloseGroup(gs)) = Len(gs) - 1
           /\ Nested(CloseGroup(gs))
           /\ \A i \in 1..(Len(gs) - 1) : CloseGroup(gs)[i] = gs[i]
<1> DEFINE H == CloseGroup(gs)
<1>1. /\ H \in Seq(Group) /\ Len(H) = Len(gs) - 1
      /\ \A i \in 1..(Len(gs) - 1) : H[i] = gs[i]
  BY FrontFacts DEF CloseGroup
<1> HIDE DEF H
<1>2. Len(gs) \in Nat
  OBVIOUS
<1>3. Nested(H)
  BY <1>1, <1>2 DEF Nested
<1> QED BY <1>1, <1>3 DEF H

-----------------------------------------------------------------------------
(***************************************************************************)
(* The inductive invariant, of a stream s and the history h of its lines.  *)
(* An effect already seen (Safe) excludes a clean stream without a guard,  *)
(* and under a guard it was in an environment without the guard's macro:   *)
(* in the others the guard's group is not processed, so nothing in it is.  *)
(***************************************************************************)

Tracks(s, h) ==
    /\ h \in History
    /\ \A e \in MacroEnv \ h.effect : Len(h.groups[e]) = Len(s.top) /\ Nested(h.groups[e])

Safe(s, h) ==
    /\ s.ifndef <= Len(s.top)
    /\ s.ifndef # 0 => s.protect \in Macros
    /\ \A e \in h.effect :
          /\ s.dirty \/ (s.protect # None /\ s.ifndef = 0)
          /\ ~s.dirty \/ s.ifndef # 0 => s.protect \notin e
    /\ s.ifndef # 0 =>
          \A e \in MacroEnv \ h.effect : s.protect \in e => ~h.groups[e][s.ifndef].active

Shaped(s, h) ==
    /\ h.shape.at = "start" =>
          s.top = <<>> /\ ~s.dirty /\ s.ifndef = 0 /\ s.protect = None
    /\ h.shape.at = "within" =>
          s.top # <<>> /\ s.ifndef = 1 /\ s.protect = h.shape.guard
    /\ h.shape.at = "behind" =>
          s.top = <<>> /\ ~s.dirty /\ s.ifndef = 0 /\ s.protect \in {None, h.shape.guard}

Ghost(s, h) == Tracks(s, h) /\ Safe(s, h) /\ Shaped(s, h)

ClosedOK(r, h) ==
    /\ \A e \in h.effect : r.constant => r.protect # None /\ r.protect \notin e
    /\ h.shape.at = "behind" => r.constant /\ r.protect \in {None, h.shape.guard}

GInv ==
    /\ IInv
    /\ Ghost(cur, hist)
    /\ outerHist \in Seq(History) /\ Len(outerHist) = Len(outer)
    /\ \A j \in 1..Len(outer) : Ghost(outer[j], outerHist[j])
    /\ doneHist \in Seq(DoneHistory) /\ Len(doneHist) = Len(done)
    /\ \A i \in 1..Len(done) : ClosedOK(done[i], doneHist[i])

\* A line of the current stream keeps the rest.
LEMMA GhostLine ==
    ASSUME GInv, IInv', outer' = outer, done' = done,
           UNCHANGED <<outerHist, doneHist>>, Ghost(cur', hist')
    PROVE  GInv'
  BY DEF GInv

\* What a history becomes.
Fits(s, E, G) ==
    \A e \in MacroEnv \ E : G[e] \in Seq(Group) /\ Len(G[e]) = Len(s.top) /\ Nested(G[e])

LEMMA AsOfTracks ==
    ASSUME NEW s \in Stream, NEW E \in SUBSET MacroEnv, NEW G, NEW S \in Shape, Fits(s, E, G)
    PROVE  /\ Tracks(s, AsOf(E, G, S))
           /\ AsOf(E, G, S).effect = E /\ AsOf(E, G, S).shape = S
           /\ \A e \in MacroEnv \ E : AsOf(E, G, S).groups[e] = G[e]
<1> USE DEF Fits
<1> DEFINE H == AsOf(E, G, S)
<1>1. H.effect = E /\ H.shape = S /\ \A e \in MacroEnv \ E : H.groups[e] = G[e]
  BY DEF AsOf
<1>2. <<>> \in Seq(Group)
  OBVIOUS
<1>3. H.groups \in [MacroEnv -> Seq(Group)]
  BY <1>2 DEF AsOf
<1>4. H \in History
  BY <1>3 DEF AsOf, History
<1> HIDE DEF H
<1> QED BY <1>1, <1>4 DEF Tracks, H

LEMMA HistFacts ==
    ASSUME GInv
    PROVE  /\ cur \in Stream /\ hist \in History
           /\ hist.effect \in SUBSET MacroEnv /\ LiveEnvs \in SUBSET MacroEnv
           /\ hist.shape \in Shape /\ Inside \in Shape /\ Spoilt \in Shape
           /\ InsideDeep \in Shape
           /\ \A e \in MacroEnv : hist.groups[e] \in Seq(Group)
           /\ \A e \in MacroEnv \ hist.effect :
                 Len(hist.groups[e]) = Len(cur.top) /\ Nested(hist.groups[e])
           /\ Tracks(cur, hist) /\ Safe(cur, hist) /\ Shaped(cur, hist)
<1>1. cur \in Stream /\ Tracks(cur, hist) /\ Safe(cur, hist) /\ Shaped(cur, hist)
  BY CurFacts DEF GInv, Ghost
<1>2. hist \in History
  BY <1>1 DEF Tracks
<1>3. hist.effect \in SUBSET MacroEnv /\ hist.shape \in Shape
      /\ \A e \in MacroEnv : hist.groups[e] \in Seq(Group)
  BY <1>2 DEF History
<1>4. Spoilt \in Shape
  BY DEF Spoilt, Shape
<1>5. Inside \in Shape /\ InsideDeep \in Shape
  BY <1>3, <1>4 DEF Inside, InsideDeep
<1>6. LiveEnvs \in SUBSET MacroEnv
  BY <1>3 DEF LiveEnvs
<1> QED BY <1>1, <1>2, <1>3, <1>4, <1>5, <1>6 DEF Tracks

\* Within a guard, no line has an effect while the guard's macro is defined.
LEMMA GuardHolds ==
    ASSUME GInv, cur.ifndef # 0, NEW e \in MacroEnv, cur.protect \in e
    PROVE  e \notin LiveEnvs
<1> USE HistFacts
<1>1. e \notin hist.effect
  BY DEF Safe
<1>2. ~hist.groups[e][cur.ifndef].active
  BY <1>1 DEF Safe
<1>3. hist.groups[e] \in Seq(Group) /\ Len(hist.groups[e]) = Len(cur.top) /\ Nested(hist.groups[e])
  BY <1>1
<1>4. cur.ifndef \in 1..Len(hist.groups[e])
  BY <1>3 DEF Safe, Stream
<1>5. ~Live(hist.groups[e])
  BY <1>2, <1>3, <1>4, NestedLive
<1> QED BY <1>1, <1>5 DEF LiveEnvs

\* A line that may have an effect: the stream is dirtied.
LEMMA DirtyFields ==
    ASSUME NEW s \in Stream
    PROVE  /\ dirty_stream(s).dirty
           /\ dirty_stream(s).top = s.top /\ dirty_stream(s).ifndef = s.ifndef
           /\ s.ifndef # 0 => dirty_stream(s).protect = s.protect
  BY DEF dirty_stream, Stream

LEMMA DirtySeen ==
    ASSUME GInv, NEW s \in Stream, s.top = cur.top, s.dirty, s.ifndef = cur.ifndef,
           cur.ifndef # 0 => s.protect = cur.protect
    PROVE  Ghost(s, Seen)
<1> USE HistFacts
<1>1. /\ Tracks(s, Seen) /\ Seen.effect = LiveEnvs /\ Seen.shape = Inside
      /\ \A e \in MacroEnv \ LiveEnvs : Seen.groups[e] = hist.groups[e]
  <2>1. Fits(s, LiveEnvs, hist.groups)
    BY DEF LiveEnvs, Fits
  <2> QED BY <2>1, AsOfTracks DEF Seen
<1>2. Safe(s, Seen)
  <2>1. s.ifndef <= Len(s.top) /\ (s.ifndef # 0 => s.protect \in Macros)
    BY DEF Safe
  <2>2. ASSUME NEW e \in LiveEnvs, s.ifndef # 0 PROVE s.protect \notin e
    BY <2>2, GuardHolds
  <2>3. ASSUME s.ifndef # 0, NEW e \in MacroEnv \ LiveEnvs, s.protect \in e
        PROVE  ~Seen.groups[e][s.ifndef].active
    <3>1. e \in MacroEnv \ hist.effect
      BY DEF LiveEnvs
    <3>2. ~hist.groups[e][s.ifndef].active
      BY <2>3, <3>1 DEF Safe
    <3> QED BY <1>1, <3>2
  <2> QED BY <1>1, <2>1, <2>2, <2>3 DEF Safe
<1>3. Shaped(s, Seen)
  BY <1>1 DEF Shaped, Inside, Spoilt
<1> QED BY <1>1, <1>2, <1>3 DEF Ghost

\* An error: the detector gives up, and the shape is spoilt.
LEMMA ErrorSeen ==
    ASSUME GInv, NEW s \in Stream, s.dirty, s.ifndef = 0, NEW G
    PROVE  Ghost(s, AsOf(MacroEnv, G, Spoilt))
<1>1. /\ Tracks(s, AsOf(MacroEnv, G, Spoilt))
      /\ AsOf(MacroEnv, G, Spoilt).effect = MacroEnv /\ AsOf(MacroEnv, G, Spoilt).shape = Spoilt
  <2> DEFINE E == MacroEnv
  <2>1. Fits(s, E, G) /\ E \in SUBSET MacroEnv
    BY DEF Fits
  <2>2. Spoilt \in Shape
    BY HistFacts
  <2> HIDE DEF E
  <2>3. Tracks(s, AsOf(E, G, Spoilt)) /\ AsOf(E, G, Spoilt).effect = E /\ AsOf(E, G, Spoilt).shape = Spoilt
    BY <2>1, <2>2, AsOfTracks
  <2> QED BY <2>3 DEF E
<1>2. Safe(s, AsOf(MacroEnv, G, Spoilt))
  BY <1>1 DEF Safe, Stream
<1>3. Shaped(s, AsOf(MacroEnv, G, Spoilt))
  BY <1>1 DEF Shaped, Spoilt
<1> QED BY <1>1, <1>2, <1>3 DEF Ghost

\* A directive that opens a group; s is the stream before the push.
LEMMA OpenSeen ==
    ASSUME GInv, NEW s \in Stream, NEW k \in Kinds, NEW holds, NEW S \in Shape,
           NEW E \in SUBSET MacroEnv, hist.effect \subseteq E,
           s.top = cur.top, s.ifndef <= Len(s.top) + 1,
           s.ifndef # 0 => s.protect \in Macros,
           \A e \in E : /\ s.dirty \/ (s.protect # None /\ s.ifndef = 0)
                        /\ ~s.dirty \/ s.ifndef # 0 => s.protect \notin e,
           s.ifndef = Len(s.top) + 1 => \A e \in holds : s.protect \notin e,
           s.ifndef \in 1..Len(s.top) =>
               \A e \in MacroEnv \ E : s.protect \in e => ~hist.groups[e][s.ifndef].active,
           Shaped([s EXCEPT !.top = Append(@, k)], AsOf(E, Opened(holds), S))
    PROVE  Ghost([s EXCEPT !.top = Append(@, k)], AsOf(E, Opened(holds), S))
<1> USE HistFacts
<1> DEFINE t == [s EXCEPT !.top = Append(@, k)]
           H == AsOf(E, Opened(holds), S)
           N == Len(s.top)
<1>1. /\ t \in Stream /\ Len(t.top) = N + 1 /\ N \in Nat
      /\ t.ifndef = s.ifndef /\ t.dirty = s.dirty /\ t.protect = s.protect
  <2>1. t \in Stream
    BY TopTypes
  <2>2. N \in Nat /\ s.top \in Seq(Kinds) /\ t.top = Append(s.top, k)
    BY DEF Stream, Kinds
  <2>3. Len(t.top) = N + 1
    BY <2>2
  <2> QED BY <2>1, <2>2, <2>3 DEF Stream
<1>2. ASSUME NEW e \in MacroEnv \ E
      PROVE  /\ Opened(holds)[e] \in Seq(Group) /\ Len(Opened(holds)[e]) = N + 1
             /\ Nested(Opened(holds)[e])
             /\ \A i \in 1..N : Opened(holds)[e][i] = hist.groups[e][i]
             /\ Opened(holds)[e][N + 1].active => e \in holds
  <2>1. hist.groups[e] \in Seq(Group) /\ Len(hist.groups[e]) = N /\ Nested(hist.groups[e])
    OBVIOUS
  <2> DEFINE b == e \in holds
             gs == hist.groups[e]
  <2>2. Opened(holds)[e] = OpenGroup(gs, b) /\ b \in BOOLEAN
    BY DEF Opened
  <2> HIDE DEF b, gs
  <2>3. gs \in Seq(Group) /\ Nested(gs) /\ Len(gs) = N
    BY <2>1 DEF gs
  <2>4. /\ OpenGroup(gs, b) \in Seq(Group)
        /\ Len(OpenGroup(gs, b)) = N + 1
        /\ Nested(OpenGroup(gs, b))
        /\ \A i \in 1..N : OpenGroup(gs, b)[i] = gs[i]
        /\ OpenGroup(gs, b)[N + 1].active => b
    BY <2>2, <2>3, NestedOpen
  <2> QED BY <2>2, <2>4 DEF b, gs
<1>3. /\ Tracks(t, H) /\ H.effect = E /\ H.shape = S
      /\ \A e \in MacroEnv \ E : H.groups[e] = Opened(holds)[e]
  <2>1. Fits(t, E, Opened(holds))
    BY <1>1, <1>2 DEF Fits
  <2> HIDE DEF t
  <2> QED BY <1>1, <2>1, AsOfTracks
<1> HIDE DEF t, H
<1>4. ASSUME t.ifndef # 0, NEW e \in MacroEnv \ E, t.protect \in e
      PROVE  ~H.groups[e][t.ifndef].active
  <2>1. CASE s.ifndef = N + 1
    BY <1>1, <1>2, <1>3, <1>4, <2>1
  <2>2. CASE s.ifndef \in 1..N
    BY <1>1, <1>2, <1>3, <1>4, <2>2
  <2> QED BY <1>1, <1>4, <2>1, <2>2 DEF Stream
<1>5. Safe(t, H)
  BY <1>1, <1>3, <1>4 DEF Safe
<1> QED BY <1>3, <1>5 DEF Ghost, t, H

\* What end_group leaves: a stream whose innermost group is not the guard, and
\* that is clean only if the guard it has closed has kept every effect seen in.
LEMMA EndGroupSafe ==
    ASSUME GInv, cur.top # <<>>
    PROVE  /\ end_group(cur) \in Stream /\ end_group(cur).top = cur.top
           /\ end_group(cur).ifndef < Len(cur.top)
           /\ Safe(end_group(cur), hist)
           /\ end_group(cur).ifndef # 0 =>
                 end_group(cur).ifndef = cur.ifndef /\ end_group(cur).protect = cur.protect
           /\ cur.ifndef = Len(cur.top) =>
                 /\ end_group(cur).ifndef = 0 /\ ~end_group(cur).dirty
                 /\ end_group(cur).protect \in {None, cur.protect}
<1> DEFINE s == end_group(cur)
<1>1. s \in Stream /\ s.top = cur.top /\ cur \in Stream /\ Safe(cur, hist)
  BY HistFacts, HelperTypes
<1>2. Len(cur.top) \in Nat \ {0} /\ cur.ifndef \in Nat /\ cur.dirty \in BOOLEAN
  BY <1>1 DEF Stream
<1>3. CASE cur.ifndef # Len(cur.top)
  <2>1. s = cur
    BY <1>3 DEF end_group
  <2>2. cur.ifndef <= Len(cur.top)
    BY <1>1 DEF Safe
  <2> QED BY <1>1, <1>2, <1>3, <2>1, <2>2
<1>4. CASE cur.ifndef = Len(cur.top)
  <2>1. cur.protect \in Macros /\ cur.ifndef # 0
    BY <1>1, <1>2, <1>4 DEF Safe
  <2>2. /\ s.ifndef = 0 /\ ~s.dirty
        /\ s.protect = IF cur.dirty THEN cur.protect ELSE None
    BY <1>1, <1>4, <2>1, PreAssumption DEF end_group, Stream
  <2>3. ASSUME NEW e \in hist.effect PROVE cur.dirty /\ cur.protect \notin e
    BY <1>1, <2>1 DEF Safe
  <2>4. Safe(s, hist)
    BY <1>1, <1>2, <2>1, <2>2, <2>3, PreAssumption DEF Safe
  <2> QED BY <1>1, <1>2, <2>2, <2>4
<1> QED BY <1>3, <1>4

LEMMA DirtySafe ==
    ASSUME NEW s \in Stream, NEW h, Safe(s, h)
    PROVE  Safe(dirty_stream(s), h)
  BY DirtyFields DEF Safe, Stream

\* A turn or the end of the innermost group, seen in every environment; s is
\* the stream after it, G the groups.
LEMMA InnerSeen ==
    ASSUME GInv, NEW s \in Stream, NEW G, NEW S \in Shape,
           Len(s.top) \in {Len(cur.top), Len(cur.top) - 1},
           Safe(s, hist),
           s.ifndef # 0 => /\ s.ifndef < Len(cur.top)
                           /\ s.ifndef = cur.ifndef /\ s.protect = cur.protect,
           \A e \in MacroEnv \ hist.effect :
              /\ G[e] \in Seq(Group) /\ Len(G[e]) = Len(s.top) /\ Nested(G[e])
              /\ \A i \in 1..(Len(cur.top) - 1) : G[e][i] = hist.groups[e][i],
           Shaped(s, AsOf(hist.effect, G, S))
    PROVE  Ghost(s, AsOf(hist.effect, G, S))
<1> DEFINE H == AsOf(hist.effect, G, S)
           E == hist.effect
<1>1. Fits(s, E, G) /\ E \in SUBSET MacroEnv
  BY HistFacts DEF Fits
<1>2. Tracks(s, H) /\ H.effect = E /\ H.shape = S /\ \A e \in MacroEnv \ E : H.groups[e] = G[e]
  <2> HIDE DEF E
  <2>1. E = hist.effect
    BY DEF E
  <2> QED BY <1>1, <2>1, AsOfTracks
<1> HIDE DEF H
<1>3. ASSUME s.ifndef # 0, NEW e \in MacroEnv \ E, s.protect \in e
      PROVE  ~H.groups[e][s.ifndef].active
  <2>1. s.ifndef \in 1..(Len(cur.top) - 1)
    <3>1. Len(cur.top) \in Nat /\ s.ifndef \in Nat
      BY HistFacts DEF Stream
    <3> QED BY <1>3, <3>1
  <2>2. H.groups[e][s.ifndef] = hist.groups[e][s.ifndef]
    BY <1>2, <2>1
  <2>3. ~hist.groups[e][cur.ifndef].active
    BY <1>3, HistFacts DEF Safe
  <2> QED BY <1>3, <2>2, <2>3
<1>4. Safe(s, H)
  BY <1>2, <1>3 DEF Safe
<1> QED BY <1>2, <1>4 DEF Ghost, H

-----------------------------------------------------------------------------
\* The lines that open a group.
LEMMA IfGhost ==
    ASSUME GInv, NEW v \in BOOLEAN, preprocessor_if(dirty_stream(cur), v), NEW holds,
           NEW E \in {hist.effect, LiveEnvs}, See(E, Opened(holds), Inside)
    PROVE  Ghost(cur', hist')
<1> USE HistFacts
<1> DEFINE s == dirty_stream(cur)
           k == IF false_nesting > 0 THEN "SKIP_GROUPS" ELSE "IF"
<1>1. /\ s \in Stream /\ s.top = cur.top /\ s.dirty /\ s.ifndef = cur.ifndef
      /\ s.ifndef # 0 => s.protect = cur.protect
  BY HelperTypes, DirtyFields
<1>2. k \in Kinds /\ cur' = [s EXCEPT !.top = Append(@, k)]
  BY DEF preprocessor_if, Kinds
<1>3. hist' = AsOf(E, Opened(holds), Inside)
  BY DEF See
<1>4. E \in SUBSET MacroEnv /\ hist.effect \subseteq E /\ E \subseteq LiveEnvs
  BY DEF LiveEnvs
<1> HIDE DEF s, k
<1>5. /\ s \in Stream /\ s.ifndef <= Len(s.top) /\ Len(s.top) \in Nat /\ s.ifndef \in Nat
      /\ s.ifndef # 0 => s.protect \in Macros
      /\ s.ifndef # Len(s.top) + 1
  BY <1>1 DEF Safe, Stream
<1>6. \A e \in E : /\ s.dirty \/ (s.protect # None /\ s.ifndef = 0)
                   /\ ~s.dirty \/ s.ifndef # 0 => s.protect \notin e
  BY <1>1, <1>4, GuardHolds
<1>7. s.ifndef \in 1..Len(s.top) =>
          \A e \in MacroEnv \ E : s.protect \in e => ~hist.groups[e][s.ifndef].active
  BY <1>1, <1>4 DEF Safe
<1>8. Shaped([s EXCEPT !.top = Append(@, k)], AsOf(E, Opened(holds), Inside))
  <2> DEFINE t == [s EXCEPT !.top = Append(@, k)]
  <2>1. /\ t.top = Append(s.top, k) /\ t.top # <<>>
        /\ t.ifndef = s.ifndef /\ t.protect = s.protect
    BY <1>5 DEF Stream
  <2>2. AsOf(E, Opened(holds), Inside).shape = Inside
    BY DEF AsOf
  <2> HIDE DEF t
  <2>3. Shaped(t, AsOf(E, Opened(holds), Inside))
    BY <1>1, <2>1, <2>2 DEF Shaped, Inside, Spoilt
  <2> QED BY <2>3 DEF t
<1>9. s.ifndef <= Len(s.top) + 1 /\ (s.ifndef = Len(s.top) + 1 => \A e \in holds : s.protect \notin e)
  BY <1>5
<1>10. Inside \in Shape /\ s.top = cur.top
  BY <1>1
<1>11. Ghost([s EXCEPT !.top = Append(@, k)], AsOf(E, Opened(holds), Inside))
  BY <1>2, <1>4, <1>5, <1>6, <1>7, <1>8, <1>9, <1>10, OpenSeen
<1> QED BY <1>2, <1>3, <1>11

LEMMA IfdefGhost ==
    ASSUME GInv, NEW v \in BOOLEAN, preprocessor_if(cur, v), NEW holds, SeeOpen(holds)
    PROVE  Ghost(cur', hist')
<1> USE HistFacts
<1> DEFINE s == cur
           k == IF false_nesting > 0 THEN "SKIP_GROUPS" ELSE "IF"
           E == hist.effect
<1>1. k \in Kinds /\ cur' = [s EXCEPT !.top = Append(@, k)]
  BY DEF preprocessor_if, Kinds
<1>2. hist' = AsOf(E, Opened(holds), Inside)
  BY DEF See, SeeOpen
<1> HIDE DEF k
<1>3. /\ s.ifndef <= Len(s.top) /\ Len(s.top) \in Nat /\ s.ifndef \in Nat
      /\ s.ifndef # 0 => s.protect \in Macros
  BY DEF Safe, Stream
<1>4. \A e \in E : /\ s.dirty \/ (s.protect # None /\ s.ifndef = 0)
                   /\ ~s.dirty \/ s.ifndef # 0 => s.protect \notin e
  BY DEF Safe
<1>5. s.ifndef \in 1..Len(s.top) =>
          \A e \in MacroEnv \ E : s.protect \in e => ~hist.groups[e][s.ifndef].active
  BY DEF Safe
<1>6. Shaped([s EXCEPT !.top = Append(@, k)], AsOf(E, Opened(holds), Inside))
  <2> DEFINE t == [s EXCEPT !.top = Append(@, k)]
  <2>1. /\ t.top = Append(s.top, k) /\ t.top # <<>>
        /\ t.ifndef = s.ifndef /\ t.protect = s.protect
    BY DEF Stream
  <2>2. AsOf(E, Opened(holds), Inside).shape = Inside
    BY DEF AsOf
  <2> HIDE DEF t
  <2>3. Shaped(t, AsOf(E, Opened(holds), Inside))
    BY <2>1, <2>2 DEF Shaped, Inside, Spoilt
  <2> QED BY <2>3 DEF t
<1> HIDE DEF s, E
<1>7. /\ s \in Stream /\ s.top = cur.top /\ E \in SUBSET MacroEnv /\ hist.effect \subseteq E
  BY DEF s, E
<1>8. s.ifndef <= Len(s.top) + 1 /\ (s.ifndef = Len(s.top) + 1 => \A e \in holds : s.protect \notin e)
  BY <1>3
<1>9. k \in Kinds /\ Inside \in Shape /\ (s.ifndef # 0 => s.protect \in Macros)
  BY <1>1, <1>3
<1> HIDE HistFacts
<1>10. Ghost([s EXCEPT !.top = Append(@, k)], AsOf(E, Opened(holds), Inside))
  BY <1>4, <1>5, <1>6, <1>7, <1>8, <1>9, OpenSeen
<1> QED BY <1>1, <1>2, <1>10

\* What handle_ifndef does with a clean stream.
LEMMA NoteCases ==
    ASSUME GInv, NEW m \in Macros
    PROVE  LET s == NoteGuard(cur, m) IN
           \/ s = cur /\ hist.shape.at # "start"
           \/ /\ s = [cur EXCEPT !.ifndef = Len(cur.top) + 1, !.protect = m]
              /\ ~cur.dirty /\ cur.ifndef = 0 /\ cur.protect = None /\ hist.effect = {}
              /\ hist.shape.at # "within"
           \/ /\ s = [cur EXCEPT !.ifndef = Len(cur.top) + 1, !.dirty = TRUE]
              /\ cur.protect = m /\ ~cur.dirty /\ cur.ifndef = 0
              /\ hist.shape.at \notin {"start", "within"}
<1> USE HistFacts
<1>1. hist.shape.at = "start" => ~cur.dirty /\ cur.ifndef = 0 /\ cur.protect = None
  BY DEF Shaped
<1>2. hist.shape.at = "within" => cur.ifndef # 0
  BY DEF Shaped
<1>3. ~cur.dirty /\ cur.protect = None => hist.effect = {}
  BY DEF Safe
<1> QED BY <1>1, <1>2, <1>3, PreAssumption DEF NoteGuard

LEMMA IfndefGhost ==
    ASSUME GInv, NEW m \in Macros, NEW v \in BOOLEAN, preprocessor_if(NoteGuard(cur, m), v),
           SeeIfndef(m)
    PROVE  Ghost(cur', hist')
<1> USE HistFacts
<1> DEFINE s == NoteGuard(cur, m)
           k == IF false_nesting > 0 THEN "SKIP_GROUPS" ELSE "IF"
           E == hist.effect
           holds == {e \in MacroEnv : m \notin e}
           S == IF hist.shape.at = "start" THEN [at |-> "within", guard |-> m] ELSE Inside
           N == Len(cur.top)
<1>1. k \in Kinds /\ cur' = [s EXCEPT !.top = Append(@, k)]
  BY DEF preprocessor_if, Kinds
<1>2. hist' = AsOf(E, Opened(holds), S)
  BY DEF See, SeeIfndef
<1>3. S \in Shape
  BY DEF Shape
<1>4. s \in Stream /\ s.top = cur.top /\ N \in Nat /\ cur.ifndef \in Nat /\ cur.dirty \in BOOLEAN
  BY HelperTypes DEF Stream
<1>5. \/ /\ s.ifndef = cur.ifndef /\ s.dirty = cur.dirty /\ s.protect = cur.protect
         /\ hist.shape.at # "start"
      \/ /\ s.ifndef = N + 1 /\ ~s.dirty /\ s.protect = m /\ E = {}
         /\ hist.shape.at # "within"
      \/ /\ s.ifndef = N + 1 /\ s.dirty /\ s.protect = m /\ cur.protect = m /\ ~cur.dirty
         /\ hist.shape.at \notin {"start", "within"}
  <2> DEFINE i == N + 1
  <2>1. /\ [cur EXCEPT !.ifndef = i, !.protect = m].ifndef = i
        /\ [cur EXCEPT !.ifndef = i, !.protect = m].protect = m
        /\ [cur EXCEPT !.ifndef = i, !.protect = m].dirty = cur.dirty
        /\ [cur EXCEPT !.ifndef = i, !.dirty = TRUE].ifndef = i
        /\ [cur EXCEPT !.ifndef = i, !.dirty = TRUE].protect = cur.protect
        /\ [cur EXCEPT !.ifndef = i, !.dirty = TRUE].dirty
    BY DEF Stream
  <2> HIDE DEF s
  <2>2. \/ s = cur /\ hist.shape.at # "start"
        \/ /\ s = [cur EXCEPT !.ifndef = i, !.protect = m]
           /\ ~cur.dirty /\ cur.ifndef = 0 /\ cur.protect = None /\ hist.effect = {}
           /\ hist.shape.at # "within"
        \/ /\ s = [cur EXCEPT !.ifndef = i, !.dirty = TRUE]
           /\ cur.protect = m /\ ~cur.dirty /\ cur.ifndef = 0
           /\ hist.shape.at \notin {"start", "within"}
    BY NoteCases DEF s
  <2> HIDE DEF i
  <2>3. i = N + 1
    BY DEF i
  <2> QED BY <2>1, <2>2, <2>3
<1> HIDE DEF s, k
<1>6. cur.ifndef <= N /\ (cur.ifndef # 0 => cur.protect \in Macros)
  BY DEF Safe
<1>7. s.ifndef <= Len(s.top) + 1 /\ (s.ifndef # 0 => s.protect \in Macros)
  BY <1>4, <1>5, <1>6
<1>8. \A e \in E : /\ s.dirty \/ (s.protect # None /\ s.ifndef = 0)
                   /\ ~s.dirty \/ s.ifndef # 0 => s.protect \notin e
  <2>1. \A e \in E : /\ cur.dirty \/ (cur.protect # None /\ cur.ifndef = 0)
                     /\ ~cur.dirty \/ cur.ifndef # 0 => cur.protect \notin e
    BY DEF Safe
  <2> QED BY <1>5, <2>1
<1>9. s.ifndef = Len(s.top) + 1 => \A e \in holds : s.protect \notin e
  BY <1>4, <1>5, <1>6
<1>10. s.ifndef \in 1..Len(s.top) =>
          \A e \in MacroEnv \ E : s.protect \in e => ~hist.groups[e][s.ifndef].active
  <2>1. s.ifndef \in 1..Len(s.top) => s.ifndef = cur.ifndef /\ s.protect = cur.protect
    BY <1>4, <1>5
  <2> QED BY <1>4, <2>1 DEF Safe
<1>11. Shaped([s EXCEPT !.top = Append(@, k)], AsOf(E, Opened(holds), S))
  <2> DEFINE t == [s EXCEPT !.top = Append(@, k)]
  <2>1. /\ t.top = Append(s.top, k) /\ t.top # <<>>
        /\ t.ifndef = s.ifndef /\ t.protect = s.protect
    BY <1>4 DEF Stream
  <2>2. AsOf(E, Opened(holds), S).shape = S
    BY DEF AsOf
  <2> HIDE DEF t
  <2>3. CASE hist.shape.at = "start"
    <3>1. cur.top = <<>> /\ N = 0
      BY <2>3 DEF Shaped
    <3>2. s.ifndef = 1 /\ s.protect = m /\ S = [at |-> "within", guard |-> m]
      BY <1>4, <1>5, <2>3, <3>1, PreAssumption
    <3>3. Shaped(t, AsOf(E, Opened(holds), S))
      BY <2>1, <2>2, <3>2 DEF Shaped
    <3> QED BY <3>3 DEF t
  <2>4. CASE hist.shape.at = "within"
    <3>1. s.ifndef = cur.ifndef /\ s.protect = cur.protect /\ S = hist.shape
      BY <1>5, <2>4 DEF Inside
    <3>2. Shaped(t, AsOf(E, Opened(holds), S))
      BY <2>1, <2>2, <2>4, <3>1 DEF Shaped
    <3> QED BY <3>2 DEF t
  <2>5. CASE hist.shape.at \notin {"start", "within"}
    <3>1. Shaped(t, AsOf(E, Opened(holds), S))
      BY <2>2, <2>5 DEF Shaped, Inside, Spoilt
    <3> QED BY <3>1 DEF t
  <2> QED BY <2>3, <2>4, <2>5
<1> HIDE DEF holds, S, E
<1>12. E \in SUBSET MacroEnv /\ hist.effect \subseteq E
  BY DEF E
<1>13. Ghost([s EXCEPT !.top = Append(@, k)], AsOf(E, Opened(holds), S))
  BY <1>1, <1>3, <1>4, <1>7, <1>8, <1>9, <1>10, <1>11, <1>12, OpenSeen
<1> QED BY <1>1, <1>2, <1>13

-----------------------------------------------------------------------------
\* #elif, #else and #endif.

\* A branch of the guard itself spoils the shape; one further in does not.
LEMMA BranchShape ==
    ASSUME GInv, cur.top # <<>>, NEW s \in Stream, s.top # <<>>, NEW h, h.shape = InsideDeep,
           s.ifndef = end_group(cur).ifndef,
           s.ifndef # 0 => s.protect = end_group(cur).protect
    PROVE  Shaped(s, h)
<1> USE HistFacts
<1>1. Len(cur.top) \in Nat \ {0}
  BY DEF Stream
<1>2. CASE hist.shape.at = "within" /\ Len(cur.top) > 1
  <2>1. cur.ifndef = 1 /\ cur.protect = hist.shape.guard /\ h.shape = hist.shape
    BY <1>2 DEF Shaped, InsideDeep, Inside
  <2>2. cur.ifndef # Len(cur.top)
    <3> DEFINE N == Len(cur.top)
    <3>1. N \in Nat /\ N > 1 /\ cur.ifndef = 1
      BY <1>1, <1>2, <2>1
    <3> HIDE DEF N
    <3>2. cur.ifndef # N
      BY <3>1
    <3> QED BY <3>2 DEF N
  <2>3. end_group(cur) = cur
    BY <2>2 DEF end_group
  <2>4. s.ifndef = 1 /\ s.protect = hist.shape.guard
    BY <2>1, <2>3
  <2> QED BY <1>2, <2>1, <2>4 DEF Shaped
<1>3. CASE ~(hist.shape.at = "within" /\ Len(cur.top) > 1)
  BY <1>1, <1>3 DEF Shaped, InsideDeep, Inside, Spoilt
<1> QED BY <1>2, <1>3

\* A further branch of the innermost group.
LEMMA TurnSeen ==
    ASSUME GInv, cur.top # <<>>, NEW s \in Stream, NEW G,
           Len(s.top) = Len(cur.top),
           Safe(s, hist),
           s.ifndef = end_group(cur).ifndef,
           s.ifndef # 0 => s.protect = end_group(cur).protect,
           Fits(s, hist.effect, G),
           \A e \in MacroEnv \ hist.effect :
              \A i \in 1..(Len(cur.top) - 1) : G[e][i] = hist.groups[e][i]
    PROVE  Ghost(s, AsOf(hist.effect, G, InsideDeep))
<1> DEFINE H == AsOf(hist.effect, G, InsideDeep)
<1>1. s.top # <<>>
  <2>1. cur.top \in Seq(Kinds) /\ s.top \in Seq(Kinds)
    BY HistFacts DEF Stream, Kinds
  <2> QED BY <2>1
<1>2. H.shape = InsideDeep
  BY DEF AsOf
<1>3. Shaped(s, H)
  <2> HIDE DEF H
  <2> QED BY <1>1, <1>2, BranchShape
<1>4. s.ifndef # 0 => /\ s.ifndef < Len(cur.top)
                      /\ s.ifndef = cur.ifndef /\ s.protect = cur.protect
  BY EndGroupSafe
<1>5. \A e \in MacroEnv \ hist.effect :
         /\ G[e] \in Seq(Group) /\ Len(G[e]) = Len(s.top) /\ Nested(G[e])
         /\ \A i \in 1..(Len(cur.top) - 1) : G[e][i] = hist.groups[e][i]
  BY DEF Fits
<1>6. InsideDeep \in Shape /\ Len(s.top) \in {Len(cur.top), Len(cur.top) - 1}
  BY HistFacts
<1> QED BY <1>3, <1>4, <1>5, <1>6, InnerSeen

LEMMA ElifGhost ==
    ASSUME GInv, NEW c \in Conds, handle_elif(c), SeeElif(c)
    PROVE  Ghost(cur', hist')
<1> USE HistFacts
<1> DEFINE s == end_group(cur)
           t == dirty_stream(s)
           G == [e \in MacroEnv |-> IF e \in hist.effect THEN <<>>
                                    ELSE ElifGroup(hist.groups[e], e \in c)]
<1>1. cur.top # <<>> /\ cur.top \in Seq(Kinds) /\ Len(cur.top) \in Nat \ {0}
  BY CurFacts DEF handle_elif, GInv
<1>2. /\ s \in Stream /\ s.top = cur.top /\ Safe(s, hist)
  BY <1>1, EndGroupSafe
<1>3. /\ t \in Stream /\ t.top = cur.top /\ t.ifndef = s.ifndef
      /\ s.ifndef # 0 => t.protect = s.protect
      /\ Safe(t, hist)
  BY <1>2, HelperTypes, DirtyFields, DirtySafe
<1>4. cur' = t \/ cur' = SetTop(t, "SKIP_GROUPS")
  BY DEF handle_elif
<1>5. hist' = AsOf(hist.effect, G, InsideDeep)
  BY DEF SeeElif, See
<1>6. ASSUME NEW e \in MacroEnv \ hist.effect
      PROVE  /\ G[e] \in Seq(Group) /\ Len(G[e]) = Len(cur.top) /\ Nested(G[e])
             /\ \A i \in 1..(Len(cur.top) - 1) : G[e][i] = hist.groups[e][i]
  <2> DEFINE b == e \in c
             gs == hist.groups[e]
  <2>1. G[e] = ElifGroup(gs, b) /\ b \in BOOLEAN
    OBVIOUS
  <2>2. gs \in Seq(Group) /\ Len(gs) = Len(cur.top) /\ Nested(gs)
    OBVIOUS
  <2> HIDE DEF b, gs, G
  <2>3. gs # <<>>
    BY <1>1, <2>2
  <2>4. /\ ElifGroup(gs, b) \in Seq(Group) /\ Len(ElifGroup(gs, b)) = Len(gs)
        /\ Nested(ElifGroup(gs, b))
        /\ \A i \in 1..(Len(gs) - 1) : ElifGroup(gs, b)[i] = gs[i]
    BY <2>1, <2>2, <2>3, NestedElif
  <2> QED BY <2>1, <2>2, <2>4 DEF gs
<1> HIDE DEF s, t, G
<1>7. ASSUME NEW u \in Stream, Len(u.top) = Len(cur.top), Safe(u, hist),
             u.ifndef = t.ifndef, u.protect = t.protect
      PROVE  Ghost(u, AsOf(hist.effect, G, InsideDeep))
  <2>1. Fits(u, hist.effect, G)
    BY <1>6, <1>7 DEF Fits
  <2>2. u.ifndef = end_group(cur).ifndef /\ (u.ifndef # 0 => u.protect = end_group(cur).protect)
    BY <1>3, <1>7 DEF s
  <2> QED BY <1>1, <1>6, <1>7, <2>1, <2>2, TurnSeen
<1>8. CASE cur' = t
  BY <1>3, <1>5, <1>7, <1>8
<1>9. CASE cur' = SetTop(t, "SKIP_GROUPS")
  <2> DEFINE u == SetTop(t, "SKIP_GROUPS")
  <2>1. u \in Stream /\ Len(u.top) = Len(cur.top)
    <3>1. u \in Stream /\ u.top = [t.top EXCEPT ![Len(t.top)] = "SKIP_GROUPS"]
      BY <1>1, <1>3, TopTypes DEF Kinds
    <3> QED BY <1>1, <1>3, <3>1
  <2>2. u.ifndef = t.ifndef /\ u.protect = t.protect /\ u.dirty = t.dirty
    BY <1>3 DEF SetTop, Stream
  <2> HIDE DEF u
  <2>3. Safe(u, hist)
    BY <1>3, <2>1, <2>2 DEF Safe
  <2>4. Ghost(u, AsOf(hist.effect, G, InsideDeep))
    BY <1>7, <2>1, <2>2, <2>3
  <2> QED BY <1>5, <1>9, <2>4 DEF u
<1> QED BY <1>4, <1>8, <1>9

LEMMA ElseGhost ==
    ASSUME GInv, handle_else, SeeElse
    PROVE  Ghost(cur', hist')
<1> USE HistFacts
<1> DEFINE s == end_group(cur)
           t == nesting_error(s)
           G == [e \in MacroEnv |-> IF e \in hist.effect THEN <<>> ELSE ElseGroup(hist.groups[e])]
<1>1. cur.top # <<>> /\ cur.top \in Seq(Kinds) /\ Len(cur.top) \in Nat \ {0}
  BY CurFacts DEF handle_else, GInv
<1>2. /\ s \in Stream /\ s.top = cur.top /\ Safe(s, hist)
  BY <1>1, EndGroupSafe
<1>3. CASE TopIf(cur) = "ELSE"
  <2> DEFINE u == SetTop(t, "ELSE")
  <2>1. t \in Stream /\ t.top = cur.top
    BY <1>2, HelperTypes
  <2>2. u \in Stream
    BY <1>1, <2>1, TopTypes DEF Kinds
  <2>3. u.dirty /\ u.ifndef = 0
    BY <1>2 DEF SetTop, nesting_error, Stream
  <2>4. cur' = u /\ hist' = AsOf(MacroEnv, hist.groups, Spoilt)
    BY <1>3 DEF handle_else, SeeElse, SeeError, See
  <2> HIDE DEF u
  <2> QED BY <2>2, <2>3, <2>4, ErrorSeen
<1>4. CASE TopIf(cur) # "ELSE"
  <2> DEFINE u == SetTop(s, "ELSE")
  <2>1. u \in Stream /\ Len(u.top) = Len(cur.top)
    <3> HIDE DEF s
    <3>1. u \in Stream /\ u.top = [s.top EXCEPT ![Len(s.top)] = "ELSE"]
      BY <1>1, <1>2, TopTypes DEF Kinds
    <3> QED BY <1>1, <1>2, <3>1
  <2>2. u.ifndef = s.ifndef /\ u.protect = s.protect /\ u.dirty = s.dirty
    BY <1>2 DEF SetTop, Stream
  <2>3. cur' = u
    BY <1>4 DEF handle_else
  <2>4. hist' = AsOf(hist.effect, G, InsideDeep)
    BY <1>4 DEF SeeElse, See
  <2>5. ASSUME NEW e \in MacroEnv \ hist.effect
        PROVE  /\ G[e] \in Seq(Group) /\ Len(G[e]) = Len(cur.top) /\ Nested(G[e])
               /\ \A i \in 1..(Len(cur.top) - 1) : G[e][i] = hist.groups[e][i]
    <3> DEFINE gs == hist.groups[e]
    <3>1. G[e] = ElseGroup(gs)
      OBVIOUS
    <3>2. gs \in Seq(Group) /\ Len(gs) = Len(cur.top) /\ Nested(gs)
      OBVIOUS
    <3> HIDE DEF gs, G
    <3>3. gs # <<>>
      BY <1>1, <3>2
    <3> QED BY <3>1, <3>2, <3>3, NestedElse DEF gs
  <2> HIDE DEF u, G
  <2>6. Safe(u, hist)
    BY <1>2, <2>1, <2>2 DEF Safe
  <2>7. Fits(u, hist.effect, G)
    BY <2>1, <2>5 DEF Fits
  <2>8. Ghost(u, AsOf(hist.effect, G, InsideDeep))
    BY <1>1, <2>1, <2>2, <2>5, <2>6, <2>7, TurnSeen
  <2> QED BY <2>3, <2>4, <2>8
<1> QED BY <1>3, <1>4

LEMMA EndifGhost ==
    ASSUME GInv, handle_endif, SeeEndif
    PROVE  Ghost(cur', hist')
<1> USE HistFacts
<1> DEFINE s == end_group(cur)
           N == Len(cur.top) - 1
           u == [s EXCEPT !.top = SubSeq(cur.top, 1, N)]
           G == [e \in MacroEnv |-> IF e \in hist.effect THEN <<>> ELSE CloseGroup(hist.groups[e])]
           S == IF Len(cur.top) = 1 /\ hist.shape.at = "within"
                THEN [hist.shape EXCEPT !.at = "behind"] ELSE Inside
<1>1. cur.top # <<>> /\ cur.top \in Seq(Kinds) /\ N \in Nat /\ Len(cur.top) = N + 1
  BY CurFacts DEF handle_endif, GInv
<1>2. /\ s \in Stream /\ s.top = cur.top /\ Safe(s, hist) /\ s.ifndef < Len(cur.top)
      /\ s.ifndef # 0 => s.ifndef = cur.ifndef /\ s.protect = cur.protect
  BY <1>1, EndGroupSafe
<1>3. /\ u \in Stream /\ Len(u.top) = N
      /\ u.ifndef = s.ifndef /\ u.protect = s.protect /\ u.dirty = s.dirty
  <2>1. SubSeq(cur.top, 1, N) \in Seq(Kinds) /\ Len(SubSeq(cur.top, 1, N)) = N
    BY <1>1, FrontFacts
  <2> HIDE DEF s, N
  <2> QED BY <1>2, <2>1 DEF Stream, Kinds
<1>4. cur' = u /\ hist' = AsOf(hist.effect, G, S)
  BY DEF handle_endif, SeeEndif, See
<1>5. S \in Shape
  BY DEF Shape
<1>6. ASSUME NEW e \in MacroEnv \ hist.effect
      PROVE  /\ G[e] \in Seq(Group) /\ Len(G[e]) = N /\ Nested(G[e])
             /\ \A i \in 1..N : G[e][i] = hist.groups[e][i]
  <2> DEFINE gs == hist.groups[e]
  <2>1. G[e] = CloseGroup(gs)
    OBVIOUS
  <2>2. gs \in Seq(Group) /\ Len(gs) = Len(cur.top) /\ Nested(gs)
    OBVIOUS
  <2> HIDE DEF gs, G
  <2>3. gs # <<>>
    BY <1>1, <2>2
  <2> QED BY <2>1, <2>2, <2>3, NestedClose DEF gs
<1>7. Shaped(u, AsOf(hist.effect, G, S))
  <2>1. AsOf(hist.effect, G, S).shape = S
    BY DEF AsOf
  <2>2. CASE hist.shape.at = "within" /\ N = 0
    <3>1. cur.ifndef = 1 /\ cur.protect = hist.shape.guard
      BY <2>2 DEF Shaped
    <3>2. s.ifndef = 0 /\ ~s.dirty /\ s.protect \in {None, hist.shape.guard}
      BY <1>1, <2>2, <3>1, EndGroupSafe
    <3>3. u.top = <<>>
      BY <1>3, <2>2 DEF Stream
    <3>4. S.at = "behind" /\ S.guard = hist.shape.guard
      BY <1>1, <2>2 DEF Shape
    <3> HIDE DEF u, S
    <3>5. Shaped(u, AsOf(hist.effect, G, S))
      BY <1>3, <2>1, <3>2, <3>3, <3>4 DEF Shaped
    <3> QED BY <3>5
  <2>3. CASE hist.shape.at = "within" /\ N # 0
    <3>1. cur.ifndef = 1 /\ cur.protect = hist.shape.guard /\ S = hist.shape
      BY <1>1, <2>3 DEF Shaped, Inside
    <3>2. s.ifndef = 1 /\ s.protect = hist.shape.guard
      BY <1>1, <2>3, <3>1 DEF end_group
    <3>3. u.top # <<>>
      BY <1>3, <2>3 DEF Stream
    <3> HIDE DEF u, S
    <3>4. Shaped(u, AsOf(hist.effect, G, S))
      BY <1>3, <2>1, <2>3, <3>1, <3>2, <3>3 DEF Shaped
    <3> QED BY <3>4
  <2>4. CASE hist.shape.at # "within"
    BY <2>1, <2>4 DEF Shaped, Inside, Spoilt
  <2> QED BY <2>2, <2>3, <2>4
<1> HIDE DEF s, u, G, S
<1>8. Safe(u, hist)
  BY <1>1, <1>2, <1>3 DEF Safe, Stream
<1>9. Len(u.top) \in {Len(cur.top), Len(cur.top) - 1}
  BY <1>1, <1>3
<1>10. u.ifndef # 0 => /\ u.ifndef < Len(cur.top)
                       /\ u.ifndef = cur.ifndef /\ u.protect = cur.protect
  BY <1>2, <1>3
<1>11. \A e \in MacroEnv \ hist.effect :
          /\ G[e] \in Seq(Group) /\ Len(G[e]) = Len(u.top) /\ Nested(G[e])
          /\ \A i \in 1..(Len(cur.top) - 1) : G[e][i] = hist.groups[e][i]
  BY <1>3, <1>6
<1>12. Ghost(u, AsOf(hist.effect, G, S))
  BY <1>3, <1>5, <1>7, <1>8, <1>9, <1>10, <1>11, InnerSeen
<1> QED BY <1>4, <1>12

\* The two errors that are actions of their own.
LEMMA ErrorGhost ==
    ASSUME GInv, ElifAfterElse \/ Unmatched, SeeError
    PROVE  Ghost(cur', hist')
<1> DEFINE s == nesting_error(end_group(cur))
<1>1. end_group(cur) \in Stream /\ s \in Stream
  BY HistFacts, HelperTypes
<1>2. s.dirty /\ s.ifndef = 0
  BY <1>1 DEF nesting_error, Stream
<1>3. cur' = s
  BY DEF ElifAfterElse, Unmatched
<1>4. hist' = AsOf(MacroEnv, hist.groups, Spoilt)
  BY DEF SeeError, See
<1> HIDE DEF s
<1> QED BY <1>1, <1>2, <1>3, <1>4, ErrorSeen

-----------------------------------------------------------------------------
\* Ordinary lines.
LEMMA PlainGhost ==
    ASSUME GInv, SeeLine,
           \/ Text
           \/ \E m \in Macros : handle_define(m)
           \/ \E m \in Macros : handle_undef(m)
           \/ handle_pragma_once
    PROVE  Ghost(cur', hist')
<1> DEFINE s == dirty_stream(cur)
<1>1. cur \in Stream
  BY HistFacts
<1>2. /\ s \in Stream /\ s.top = cur.top /\ s.dirty /\ s.ifndef = cur.ifndef
      /\ cur.ifndef # 0 => s.protect = cur.protect
  BY <1>1, HelperTypes, DirtyFields
<1>3. hist' = Seen
  BY DEF SeeLine, See, Seen
<1>4. CASE cur' = s
  BY <1>2, <1>3, <1>4, DirtySeen
<1>5. CASE handle_pragma_once
  <2> DEFINE b == s.once \/ false_nesting = 0
             t == [s EXCEPT !.once = b]
  <2>1. b \in BOOLEAN /\ cur' = t
    BY <1>5 DEF handle_pragma_once
  <2> HIDE DEF b, s
  <2>2. /\ t \in Stream /\ t.top = s.top /\ t.dirty = s.dirty
        /\ t.ifndef = s.ifndef /\ t.protect = s.protect
    BY <1>2, <2>1 DEF Stream
  <2> HIDE DEF t
  <2>3. /\ t.top = cur.top /\ t.dirty /\ t.ifndef = cur.ifndef
        /\ cur.ifndef # 0 => t.protect = cur.protect
    BY <1>2, <2>2
  <2>4. Ghost(t, Seen)
    BY <2>2, <2>3, DirtySeen
  <2> QED BY <1>3, <2>1, <2>4
<1>6. cur' = s \/ handle_pragma_once
  BY DEF Text, handle_define, handle_undef, SetDefs
<1> QED BY <1>4, <1>5, <1>6

LEMMA FreshGhost == \A f \in Files : Ghost(init_stream(f), FreshHistory)
<1> SUFFICES ASSUME NEW f \in Files PROVE Ghost(init_stream(f), FreshHistory)
  OBVIOUS
<1> DEFINE s == init_stream(f)
<1>1. s.top = <<>> /\ ~s.dirty /\ s.ifndef = 0 /\ s.protect = None
  BY DEF init_stream
<1>2. FreshHistory \in History
  BY DEF FreshHistory, History, Shape
<1>3. Tracks(s, FreshHistory)
  <2>1. Nested(<<>>)
    BY DEF Nested
  <2>2. \A e \in MacroEnv : FreshHistory.groups[e] = <<>>
    BY DEF FreshHistory
  <2> HIDE DEF s
  <2> QED BY <1>1, <1>2, <2>1, <2>2 DEF Tracks
<1> HIDE DEF s
<1>4. Safe(s, FreshHistory)
  BY <1>1 DEF Safe, FreshHistory
<1>5. Shaped(s, FreshHistory)
  BY <1>1 DEF Shaped, FreshHistory
<1> QED BY <1>3, <1>4, <1>5 DEF Ghost, s

\* The stacks of streams and of histories grow together.
LEMMA IncludeInv ==
    ASSUME GInv, IInv', NEW f \in Headers, handle_include(f), SeeInclude
    PROVE  GInv'
<1> DEFINE s == dirty_stream(cur)
<1>1. cur \in Stream
  BY HistFacts
<1>2. /\ s \in Stream /\ s.top = cur.top /\ s.dirty /\ s.ifndef = cur.ifndef
      /\ cur.ifndef # 0 => s.protect = cur.protect
  BY <1>1, HelperTypes, DirtyFields
<1>3. Ghost(s, Seen)
  BY <1>2, DirtySeen
<1>4. done' = done /\ doneHist' = doneHist
  BY DEF handle_include, SeeInclude
<1>5. outer \in Seq(Stream) /\ outerHist \in Seq(History) /\ Len(outerHist) = Len(outer)
  BY DEF GInv, IInv, TypeOK
<1>6. CASE cur' = s /\ outer' = outer
  <2>1. hist' = Seen /\ outerHist' = outerHist
    BY <1>6 DEF SeeInclude
  <2> QED BY <1>3, <1>4, <1>6, <2>1, GhostLine
<1>7. CASE cur' = init_stream(f) /\ outer' = Append(outer, s)
  <2>1. outer' # outer
    BY <1>2, <1>5, <1>7
  <2>2. hist' = FreshHistory /\ outerHist' = Append(outerHist, Seen)
    BY <2>1 DEF SeeInclude
  <2>3. Ghost(cur', hist')
    BY <1>7, <2>2, FreshGhost DEF Files
  <2>4. Seen \in History
    BY <1>3 DEF Ghost, Tracks
  <2> HIDE DEF s
  <2>5. outerHist' \in Seq(History) /\ Len(outerHist') = Len(outer')
    BY <1>2, <1>5, <1>7, <2>2, <2>4
  <2>6. ASSUME NEW j \in 1..Len(outer') PROVE Ghost(outer'[j], outerHist'[j])
    <3>1. CASE j \in 1..Len(outer)
      <4>1. outer'[j] = outer[j] /\ outerHist'[j] = outerHist[j]
        BY <1>2, <1>5, <1>7, <2>2, <2>4, <3>1
      <4> QED BY <3>1, <4>1 DEF GInv
    <3>2. CASE j = Len(outer) + 1
      <4>1. outer'[j] = s /\ outerHist'[j] = Seen
        BY <1>2, <1>5, <1>7, <2>2, <2>4, <3>2
      <4> QED BY <1>3, <4>1
    <3>3. Len(outer') = Len(outer) + 1
      BY <1>2, <1>5, <1>7
    <3> QED BY <1>5, <3>1, <3>2, <3>3
  <2> QED BY <1>4, <2>3, <2>5, <2>6 DEF GInv
<1> QED BY <1>6, <1>7 DEF handle_include

\* What is kept of a stream that ends.
LEMMA EndGhost ==
    ASSUME GInv, Return \/ NextFile, SeeEnd
    PROVE  /\ doneHist' \in Seq(DoneHistory) /\ Len(doneHist') = Len(done')
           /\ \A i \in 1..Len(done') : ClosedOK(done'[i], doneHist'[i])
<1> USE HistFacts
<1> DEFINE r == Finish(EndOfStream(cur))
           d == IF cur.top = <<>> THEN [effect |-> hist.effect, shape |-> hist.shape]
                ELSE [effect |-> MacroEnv, shape |-> Spoilt]
<1>1. done' = Append(done, r) /\ doneHist' = Append(doneHist, d)
  BY DEF Return, NextFile, StreamEnd, SeeEnd
<1>2. d \in DoneHistory
  BY DEF DoneHistory
<1>3. r \in Closed
  BY HelperTypes
<1>4. ASSUME cur.top = <<>> PROVE ClosedOK(r, d)
  <2>1. /\ r.constant <=> ~cur.dirty
        /\ r.protect = cur.protect
        /\ d.effect = hist.effect /\ d.shape = hist.shape
    BY <1>4 DEF Finish, EndOfStream
  <2>2. cur.ifndef = 0
    BY <1>4 DEF Safe, Stream
  <2> HIDE DEF r, d
  <2> QED BY <2>1, <2>2 DEF ClosedOK, Safe, Shaped
<1>5. ASSUME cur.top # <<>> PROVE ClosedOK(r, d)
  <2>1. ~r.constant /\ d.shape = Spoilt
    BY <1>5 DEF Finish, EndOfStream, nesting_error, Stream
  <2> HIDE DEF r, d
  <2>2. ClosedOK(r, d)
    BY <2>1 DEF ClosedOK, Spoilt
  <2> QED BY <2>2
<1> HIDE DEF r, d
<1>6. ClosedOK(r, d)
  BY <1>4, <1>5
<1>7. done \in Seq(Closed) /\ doneHist \in Seq(DoneHistory) /\ Len(doneHist) = Len(done)
      /\ \A i \in 1..Len(done) : ClosedOK(done[i], doneHist[i])
  BY DEF GInv, IInv, TypeOK
<1>8. /\ doneHist' \in Seq(DoneHistory) /\ Len(doneHist') = Len(done')
      /\ Len(done') = Len(done) + 1
  BY <1>1, <1>2, <1>3, <1>7
<1>9. ASSUME NEW i \in 1..Len(done') PROVE ClosedOK(done'[i], doneHist'[i])
  <2>1. CASE i \in 1..Len(done)
    <3>1. done'[i] = done[i] /\ doneHist'[i] = doneHist[i]
      BY <1>1, <1>2, <1>3, <1>7, <2>1
    <3> QED BY <1>7, <2>1, <3>1
  <2>2. CASE i = Len(done) + 1
    <3>1. done'[i] = r /\ doneHist'[i] = d
      BY <1>1, <1>2, <1>3, <1>7, <2>2
    <3> QED BY <1>6, <3>1
  <2> QED BY <1>7, <1>8, <2>1, <2>2
<1> QED BY <1>8, <1>9

LEMMA ReturnInv ==
    ASSUME GInv, IInv', Return, SeeReturn
    PROVE  GInv'
<1> DEFINE N == Len(outer) - 1
<1>1. /\ outer \in Seq(Stream) /\ outerHist \in Seq(History) /\ Len(outerHist) = Len(outer)
      /\ outer # <<>> /\ \A j \in 1..Len(outer) : Ghost(outer[j], outerHist[j])
  BY DEF GInv, IInv, TypeOK, Return
<1>2. /\ doneHist' \in Seq(DoneHistory) /\ Len(doneHist') = Len(done')
      /\ \A i \in 1..Len(done') : ClosedOK(done'[i], doneHist'[i])
  BY EndGhost DEF SeeReturn
<1>3. N \in Nat /\ Len(outer) = N + 1 /\ outerHist # <<>> /\ Len(outer) \in 1..Len(outer)
  BY <1>1
<1>4. Ghost(cur', hist')
  BY <1>1, <1>3 DEF Return, SeeReturn
<1>5. /\ outer' = SubSeq(outer, 1, N) /\ outerHist' = SubSeq(outerHist, 1, Len(outerHist) - 1)
  BY DEF Return, SeeReturn
<1>6. /\ outerHist' \in Seq(History) /\ Len(outerHist') = N /\ Len(outer') = N
      /\ \A j \in 1..N : outer'[j] = outer[j] /\ outerHist'[j] = outerHist[j]
  BY <1>1, <1>3, <1>5, FrontFacts
<1> HIDE DEF N
<1>7. \A j \in 1..N : Ghost(outer'[j], outerHist'[j])
  BY <1>1, <1>3, <1>6
<1> QED BY <1>2, <1>4, <1>6, <1>7 DEF GInv

LEMMA NextFileInv ==
    ASSUME GInv, IInv', NextFile, SeeNextFile
    PROVE  GInv'
<1>1. /\ doneHist' \in Seq(DoneHistory) /\ Len(doneHist') = Len(done')
      /\ \A i \in 1..Len(done') : ClosedOK(done'[i], doneHist'[i])
  BY EndGhost DEF SeeNextFile
<1>2. Ghost(cur', hist')
  BY FreshGhost DEF NextFile, SeeNextFile, Files
<1>3. outer' = outer /\ outerHist' = outerHist
  BY DEF NextFile, SeeNextFile
<1> QED BY <1>1, <1>2, <1>3 DEF GInv

-----------------------------------------------------------------------------
LEMMA InitGInv == GuardInit => GInv
<1> SUFFICES ASSUME GuardInit PROVE GInv
  OBVIOUS
<1>1. IInv
  BY InitIInv DEF GuardInit
<1>2. Ghost(cur, hist)
  BY FreshGhost DEF GuardInit, Init, Files
<1> QED BY <1>1, <1>2 DEF GuardInit, Init, GInv

\* The history does not constrain the machine.
LEMMA GuardNextNext == GuardNext => Next
  BY DEF GuardNext, Next

LEMMA NextGInv == GInv /\ [GuardNext]_gvars => GInv'
<1> SUFFICES ASSUME GInv, [GuardNext]_gvars PROVE GInv'
  OBVIOUS
<1>1. IInv'
  BY GuardNextNext, NextIInv DEF GInv, gvars
<1>2. ASSUME Ghost(cur', hist'), UNCHANGED <<outer, done, outerHist, doneHist>> PROVE GInv'
  BY <1>1, <1>2, GhostLine
<1>3. CASE \E m \in Macros : handle_ifdef(m) /\ SeeOpen({e \in MacroEnv : m \in e})
  <2>1. PICK m \in Macros : handle_ifdef(m) /\ SeeOpen({e \in MacroEnv : m \in e})
    BY <1>3
  <2> DEFINE v == m \in defs
  <2>2. v \in BOOLEAN /\ preprocessor_if(cur, v)
    BY <2>1 DEF handle_ifdef
  <2> HIDE DEF v
  <2>3. Ghost(cur', hist')
    BY <2>1, <2>2, IfdefGhost
  <2> QED BY <1>2, <2>1, <2>2, <2>3 DEF preprocessor_if, SeeOpen, See
<1>4. CASE \E m \in Macros : handle_ifndef(m) /\ SeeIfndef(m)
  <2>1. PICK m \in Macros : handle_ifndef(m) /\ SeeIfndef(m)
    BY <1>4
  <2> DEFINE v == m \notin defs
  <2>2. v \in BOOLEAN /\ preprocessor_if(NoteGuard(cur, m), v)
    BY <2>1 DEF handle_ifndef
  <2> HIDE DEF v
  <2>3. Ghost(cur', hist')
    BY <2>1, <2>2, IfndefGhost
  <2> QED BY <1>2, <2>1, <2>2, <2>3 DEF preprocessor_if, SeeIfndef, See
<1>5. CASE handle_ifdef_bad /\ SeeBadIfdef
  <2> DEFINE E == LiveEnvs
             holds == {}
  <2>1. preprocessor_if(dirty_stream(cur), FALSE) /\ See(E, Opened(holds), Inside)
    BY <1>5 DEF handle_ifdef_bad, SeeBadIfdef
  <2>2. E \in {hist.effect, LiveEnvs}
    OBVIOUS
  <2> HIDE DEF E, holds
  <2>3. Ghost(cur', hist')
    BY <2>1, <2>2, IfGhost
  <2> QED BY <1>2, <2>1, <2>3 DEF preprocessor_if, See
<1>6. CASE \E c \in Conds : handle_if(c) /\ SeeOpen(c)
  <2>1. PICK c \in Conds : handle_if(c) /\ SeeOpen(c)
    BY <1>6
  <2> DEFINE v == defs \in c
             E == hist.effect
  <2>2. v \in BOOLEAN /\ preprocessor_if(dirty_stream(cur), v)
    BY <2>1 DEF handle_if
  <2>3. See(E, Opened(c), Inside) /\ E \in {hist.effect, LiveEnvs}
    BY <2>1 DEF SeeOpen
  <2> HIDE DEF v, E
  <2>4. Ghost(cur', hist')
    BY <2>2, <2>3, IfGhost
  <2> QED BY <1>2, <2>2, <2>3, <2>4 DEF preprocessor_if, See
<1>7. CASE \E c \in Conds : handle_elif(c) /\ SeeElif(c)
  <2>1. PICK c \in Conds : handle_elif(c) /\ SeeElif(c)
    BY <1>7
  <2>2. Ghost(cur', hist')
    BY <2>1, ElifGhost
  <2> QED BY <1>2, <2>1, <2>2 DEF handle_elif, SeeElif, See
<1>8. CASE (ElifAfterElse \/ Unmatched) /\ SeeError
  BY <1>2, <1>8, ErrorGhost DEF ElifAfterElse, Unmatched, SeeError, See
<1>9. CASE handle_else /\ SeeElse
  BY <1>2, <1>9, ElseGhost DEF handle_else, SeeElse, SeeError, See
<1>10. CASE handle_endif /\ SeeEndif
  BY <1>2, <1>10, EndifGhost DEF handle_endif, SeeEndif, See
<1>11. CASE Text /\ SeeLine
  BY <1>2, <1>11, PlainGhost DEF Text, SeeLine, See
<1>12. CASE \E m \in Macros : handle_define(m) /\ SeeLine
  <2>1. Ghost(cur', hist')
    BY <1>12, PlainGhost
  <2> QED BY <1>2, <1>12, <2>1 DEF handle_define, SetDefs, SeeLine, See
<1>13. CASE \E m \in Macros : handle_undef(m) /\ SeeLine
  <2>1. Ghost(cur', hist')
    BY <1>13, PlainGhost
  <2> QED BY <1>2, <1>13, <2>1 DEF handle_undef, SetDefs, SeeLine, See
<1>14. CASE handle_pragma_once /\ SeeLine
  BY <1>2, <1>14, PlainGhost DEF handle_pragma_once, SeeLine, See
<1>15. CASE \E f \in Headers : handle_include(f) /\ SeeInclude
  BY <1>1, <1>15, IncludeInv
<1>16. CASE Return /\ SeeReturn
  BY <1>1, <1>16, ReturnInv
<1>17. CASE NextFile /\ SeeNextFile
  BY <1>1, <1>17, NextFileInv
<1>18. CASE UNCHANGED gvars
  BY <1>18 DEF gvars, vars, GInv, IInv, TypeOK, NestingOK
<1> QED
  BY <1>3, <1>4, <1>5, <1>6, <1>7, <1>8, <1>9, <1>10, <1>11, <1>12, <1>13, <1>14,
     <1>15, <1>16, <1>17, <1>18 DEF GuardNext

LEMMA GuardInvariant == GuardSpec => []GInv
  BY InitGInv, NextGInv, PTL DEF GuardSpec

\* Every history variable has its type: what the machine reads is tracked in
\* every macro environment, however deep the includes.
THEOREM GuardTypeCorrect == GuardSpec => []GuardTypeOK
<1>1. GInv => GuardTypeOK
  BY DEF GInv, IInv, GuardTypeOK, Ghost, Tracks
<1> QED BY <1>1, GuardInvariant, PTL

\* already_tokenized never skips a header for its guard when reading it again
\* would have had an effect: for every file, every nesting of conditionals and
\* includes, and every macro environment at the time of the #include.
THEOREM GuardSoundness == GuardSpec => []GuardSound
<1>1. GInv => GuardSound
  BY DEF GInv, ClosedOK, GuardSound
<1> QED BY <1>1, GuardInvariant, PTL

\* Every header wrapped in one #ifndef m ... #endif is found constant.
THEOREM GuardEffectiveness == GuardSpec => []GuardEffective
<1>1. GInv => GuardEffective
  BY DEF GInv, ClosedOK, GuardEffective
<1> QED BY <1>1, GuardInvariant, PTL
=============================================================================
