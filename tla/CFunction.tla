----------------------------- MODULE CFunction -----------------------------
(***************************************************************************)
(* What the tree of a function means in C, for comparison with what the    *)
(* code makes of it: an interpreter that keeps the rest of the program as  *)
(* a sequence of things to do.  A function acts on the world through its   *)
(* calls, its accesses to volatile variables and its return; the world     *)
(* answers a call with a value and may change the variables it can see.    *)
(***************************************************************************)
EXTENDS Naturals, SequencesExt

CONSTANTS Syms, None,
          Visible,    \* variables that called functions see and may change
          Volatile,   \* those the world may answer for, as it does for a call
          Global,     \* those that outlive the function
          Undef,      \* what a variable holds before the first assignment
          MaxSilent   \* steps without a call after which it never makes one

\* What a machine shows when it stops: at a call, at the return, at a use of
\* an undefined value, in an endless loop or at the end of a block.
Silent == [at |-> "silent", fn |-> None, seen |-> <<>>]
Shows(at, fn, seen) == [at |-> at, fn |-> fn, seen |-> seen]

Look(mem, S) == LET order == SetToSeq(S) IN [i \in DOMAIN order |-> mem[order[i]]]

\* One showing is as another, where the first is defined.
Matches(o, p) ==
    \/ o.at = "undefined"
    \/ /\ o.at = p.at /\ o.fn = p.fn /\ Len(o.seen) = Len(p.seen)
       /\ \A i \in DOMAIN o.seen : o.seen[i] \in {Undef, p.seen[i]}

St(s) == [do |-> "stmt", s |-> s]
X(x) == [do |-> "expr", x |-> x]
Pop == [do |-> "pop"]
Give(v) == [do |-> "give", v |-> v]
Void == [do |-> "void"]                 \* the value so far is none
Choose(yes, no) == [do |-> "choose", yes |-> yes, no |-> no]

\* Where a break, a continue or a return of this label goes on, with n values.
Mark(label, n) == [do |-> "mark", label |-> label, n |-> n]

Always == [kind |-> "value", n |-> 1]
Test(x) == X(IF x.kind = "none" THEN Always ELSE x)

\* A loop from its test on; one from its body on.
Again(s) == [do |-> "again", s |-> s]
FromBody(s, n) ==
    <<Pop, Mark(s.cont, n)>>
        \o (IF s.until.kind # "none" THEN <<Test(s.until), Choose(<<Again(s)>>, <<>>)>>
            ELSE <<St(s.post), Pop, Again(s)>>)
LoopEnd(s, n) == <<Mark(s.brk, n), Give(Undef)>>

BlockFrom(s, i, n) ==
    FlattenSeq([j \in 1 .. Len(s.stmts) - i |-> <<Pop, St(s.stmts[i + j])>>])
        \o (IF s.ret = None THEN <<>> ELSE <<Void, Mark(s.ret, n)>>)

\* What is left of s when it is entered at a label.
RECURSIVE Within(_, _, _)
Within(s, l, n) ==
    CASE s.kind \in {"label", "case"} ->
            IF s.label = l THEN {<<St(s.body)>>} ELSE Within(s.body, l, n)
      [] s.kind = "block" ->
            UNION {{w \o BlockFrom(s, i, n) : w \in Within(s.stmts[i], l, n)} : i \in DOMAIN s.stmts}
      [] s.kind = "if" -> Within(s.yes, l, n) \cup Within(s.no, l, n)
      [] s.kind = "loop" -> {w \o FromBody(s, n) \o LoopEnd(s, n) : w \in Within(s.body, l, n)}
      [] s.kind = "switch" -> {w \o <<Pop>> \o LoopEnd(s, n) : w \in Within(s.body, l, n)}
      [] OTHER -> {}

Config(program, mem) ==
    [program |-> program, k |-> <<St(program)>>, vals |-> <<>>, mem |-> mem, obs |-> Silent]

Step(c) ==
    LET i == Head(c.k)
        rest == Tail(c.k)
        v == Last(c.vals)
        Go(items) == [c EXCEPT !.k = items \o rest]
        Ret(n, r) == [c EXCEPT !.k = rest, !.vals = Append(SubSeq(@, 1, Len(@) - n), r)]
        Popped(items) == [c EXCEPT !.k = items \o rest, !.vals = Front(@)]
        Stop(at, fn, seen) == [c EXCEPT !.obs = Shows(at, fn, seen)]
        Unwind(label, val) ==
            LET at == SelectInSeq(c.k, LAMBDA j : j.do = "mark" /\ j.label = label)
            IN  [c EXCEPT !.k = SubSeq(@, at + 1, Len(@)),
                          !.vals = SubSeq(@, 1, c.k[at].n) \o val]
        Statement(s) ==
            CASE s.kind = "none" -> Go(<<Give(Undef)>>)
              [] s.kind = "expr" -> Go(<<X(s.x)>>)
              [] s.kind = "return" -> Go(<<X(s.x), [do |-> "return", label |-> s.label]>>)
              [] s.kind \in {"label", "case"} -> Go(<<St(s.body)>>)
              [] s.kind = "block" ->
                    IF s.stmts = <<>> THEN Go(<<Give(Undef)>> \o BlockFrom(s, 0, Len(c.vals)))
                    ELSE Go(<<St(s.stmts[1])>> \o BlockFrom(s, 1, Len(c.vals)))
              [] s.kind = "if" -> Go(<<X(s.c), Choose(<<St(s.yes)>>, <<St(s.no)>>)>>)
              [] s.kind = "loop" ->
                    Go(<<St(s.pre), Pop>>
                          \o (IF s.until.kind # "none"
                              THEN <<St(s.body)>> \o FromBody(s, Len(c.vals)) ELSE <<Again(s)>>)
                          \o LoopEnd(s, Len(c.vals)))
              [] s.kind = "switch" -> Go(<<X(s.x), [do |-> "select", s |-> s]>>)
              [] s.kind = "cgoto" -> Go(<<X(s.x), [do |-> "jump", to |-> s.to]>>)
              [] s.kind = "goto" ->
                    IF \E j \in DOMAIN c.k : c.k[j].do = "mark" /\ c.k[j].label = s.label
                    THEN Unwind(s.label, <<>>)
                    ELSE [c EXCEPT !.k = CHOOSE w \in Within(c.program, s.label, 0) : TRUE,
                                   !.vals = <<>>]
        Expression(x) ==
            CASE x.kind = "none" -> Ret(0, Undef)
              [] x.kind = "value" -> Ret(0, x.n)
              [] x.kind = "load" ->
                    IF x.sym \in Volatile THEN Go(<<[do |-> "call", fn |-> x.sym, n |-> 0]>>)
                    ELSE Ret(0, c.mem[x.sym])
              [] x.kind = "assign" -> Go(<<X(x.x), [do |-> "store", sym |-> x.sym]>>)
              [] x.kind = "call" -> Go([j \in DOMAIN x.args |-> X(x.args[j])]
                                          \o <<[do |-> "call", fn |-> x.fn, n |-> Len(x.args)]>>)
              [] x.kind = "not" -> Go(<<X(x.x), Choose(<<Give(0)>>, <<Give(1)>>)>>)
              [] x.kind = "eq" -> Go(<<X(x.x), X(x.y), [do |-> "eq"]>>)
              [] x.kind = "comma" -> Go(<<X(x.x), Pop, X(x.y)>>)
              [] x.kind = "stmt" -> Go(<<St(x.s)>>)
              [] x.kind \in {"cond", "select"} /\ x.x.kind # "none" ->
                    Go(<<X(x.c), Choose(<<X(x.x)>>, <<X(x.y)>>)>>)
              [] x.kind \in {"cond", "select"} -> Go(<<X(x.c), [do |-> "orelse", x |-> x.y]>>)
              [] x.kind = "logical" ->
                    LET truth == <<X(x.y), Choose(<<Give(1)>>, <<Give(0)>>)>>
                    IN  Go(<<X(x.x), IF x.op = "or" THEN Choose(<<Give(1)>>, truth)
                                     ELSE Choose(truth, <<Give(0)>>)>>)
    IN  IF c.k = <<>> THEN Stop("return", None, <<v>> \o Look(c.mem, Global))
        ELSE CASE i.do = "stmt" -> Statement(i.s)
               [] i.do = "expr" -> Expression(i.x)
               [] i.do = "pop" -> Popped(<<>>)
               [] i.do = "give" -> Ret(0, i.v)
               [] i.do = "void" -> Ret(1, Undef)
               [] i.do = "mark" -> Go(<<>>)
               [] i.do = "store" ->
                    IF i.sym \in Volatile THEN Stop("store", i.sym, <<v>> \o Look(c.mem, Visible))
                    ELSE [c EXCEPT !.k = rest, !.mem[i.sym] = v]
               [] i.do = "eq" ->
                    LET w == c.vals[Len(c.vals) - 1]
                    IN  Ret(2, IF Undef \in {v, w} THEN Undef ELSE IF v = w THEN 1 ELSE 0)
               [] i.do = "call" ->
                    Stop("call", i.fn, SubSeq(c.vals, Len(c.vals) - i.n + 1, Len(c.vals))
                                           \o Look(c.mem, Visible))
               [] i.do = "return" -> Unwind(i.label, <<v>>)
               [] i.do = "again" ->
                    Go(<<Test(i.s.cond),
                         Choose(<<St(i.s.body)>> \o FromBody(i.s, Len(c.vals)), <<>>)>>)
               [] i.do \in {"choose", "orelse", "select", "jump"} /\ v = Undef ->
                    Stop("undefined", None, <<>>)
               [] i.do = "choose" -> Popped(IF v # 0 THEN i.yes ELSE i.no)
               [] i.do = "orelse" -> IF v # 0 THEN Go(<<>>) ELSE Popped(<<X(i.x)>>)
               [] i.do = "jump" ->
                    [c EXCEPT !.k = CHOOSE w \in Within(c.program, i.to[(v % Len(i.to)) + 1], 0) : TRUE,
                              !.vals = <<>>]
               [] i.do = "select" ->
                    LET s == i.s
                        n == Len(c.vals) - 1
                        hit == {j \in DOMAIN s.cases : s.cases[j].lo <= v /\ v <= s.cases[j].hi}
                        dflt == {j \in DOMAIN s.cases : s.cases[j].hi < s.cases[j].lo}
                        goes == IF hit # {} THEN hit ELSE dflt
                    IN  IF goes = {} THEN Popped(<<Give(Undef)>>)
                        ELSE LET label == s.cases[CHOOSE j \in goes : TRUE].label
                             IN  Popped((CHOOSE w \in Within(s.body, label, n) : TRUE)
                                            \o <<Pop>> \o LoopEnd(s, n))

\* To the next showing.
RECURSIVE RunFor(_, _)
RunFor(c, n) ==
    IF c.obs # Silent THEN c
    ELSE IF n = 0 THEN [c EXCEPT !.obs = Shows("diverges", None, <<>>)]
    ELSE RunFor(Step(c), n - 1)

Run(c) == RunFor(c, MaxSilent)

\* The call is answered with r, and the world holds what world says.  An
\* assignment keeps its value.
Answered(c, r, world) ==
    LET n == Head(c.k).n
    IN  Run([c EXCEPT !.k = Tail(@),
                      !.vals = IF Head(c.k).do = "store" THEN @ ELSE Append(SubSeq(@, 1, Len(@) - n), r),
                      !.mem = [s \in Syms |-> IF s \in Visible THEN world[s] ELSE @[s]],
                      !.obs = Silent])
=============================================================================
