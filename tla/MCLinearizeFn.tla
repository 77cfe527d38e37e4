--------------------------- MODULE MCLinearizeFn ---------------------------
\* Functions of two arguments with two local variables, vx and vy, a global one,
\* vg, a volatile one, vv, and a local one, ve, whose address has been taken.
EXTENDS LinearizeFn

CONSTANTS va, vb, vx, vy, vg, ve, vv, fany, fask, fuse, R, L1, L2, Brk, Cont, C1, C2, D

NoExpr == [kind |-> "none"]
V(n) == [kind |-> "value", n |-> n]
Ld(s) == [kind |-> "load", sym |-> s]
As(s, v) == [kind |-> "assign", sym |-> s, x |-> v]
Call(fn, args) == [kind |-> "call", fn |-> fn, args |-> args]
Neg(v) == [kind |-> "not", x |-> v]
And(v, w) == [kind |-> "logical", op |-> "and", x |-> v, y |-> w]
Or(v, w) == [kind |-> "logical", op |-> "or", x |-> v, y |-> w]

\* A conditional as expand_conditional leaves it.
Cheap(v) == v.kind \in {"none", "value", "load", "eq"} \/ (v.kind = "not" /\ v.x.kind = "load")
Tern(t, v, w) ==
    [kind |-> IF Cheap(v) /\ Cheap(w) THEN "select" ELSE "cond", c |-> t, x |-> v, y |-> w]
Elvis(v, w) == Tern(v, NoExpr, w)
Comma(v, w) == [kind |-> "comma", x |-> v, y |-> w]
Inner(s) == [kind |-> "stmt", s |-> s]

NoStmt == [kind |-> "none"]
E(v) == [kind |-> "expr", x |-> v]
Return(v) == [kind |-> "return", x |-> v, label |-> R]
ReturnOf(l, v) == [kind |-> "return", x |-> v, label |-> l]
Label(l, s) == [kind |-> "label", label |-> l, used |-> TRUE, body |-> s]
Case(l, s) == [kind |-> "case", label |-> l, body |-> s]
GotoL(l) == [kind |-> "goto", label |-> l]
Computed(v) == [kind |-> "cgoto", x |-> v, to |-> <<L1, L2>>]
Block(ss) == [kind |-> "block", stmts |-> ss, ret |-> None]
Function(ss) == [kind |-> "block", stmts |-> ss, ret |-> R]
Inlined(l, ss) == [kind |-> "block", stmts |-> ss, ret |-> l]
If(t, s, n) == [kind |-> "if", c |-> t, yes |-> s, no |-> n]
SwitchOn(v, cases, s) == [kind |-> "switch", x |-> v, cases |-> cases, brk |-> Brk, body |-> s]
Loop(pre, t, s, post, until) ==
    [kind |-> "loop", pre |-> pre, cond |-> t, body |-> s, post |-> post, until |-> until,
     brk |-> Brk, cont |-> Cont]
While(t, s) == Loop(NoStmt, t, s, NoStmt, NoExpr)
Do(s, t) == Loop(NoStmt, NoExpr, s, NoStmt, t)
Break == GotoL(Brk)
Continue == GotoL(Cont)

F == Call(fany, <<>>)
Ask == Call(fask, <<>>)
Use(v) == E(Call(fuse, <<v>>))

Conds ==
    {Ld(va), Neg(Ask), V(0), V(1), And(Ld(va), Ask), Or(Neg(Ld(va)), Ask), And(V(1), Or(Ask, F)),
     Neg(Or(Ld(va), And(Ld(vb), Ask))), Tern(Ld(va), Ask, V(0)), Comma(F, Ld(vb)), Elvis(Ask, Ld(vb))}

\* Either arm may assign, leave or do nothing.
Arms == {NoStmt, E(As(vx, V(1))), E(As(vx, F)), Return(V(1)), GotoL(L1),
         If(Ask, E(As(vx, Ld(vb))), NoStmt)}
Ifs == {Function(<<E(As(vx, V(0))), If(p[1], p[2], p[3]), Use(Ld(vx)),
                  Label(L1, Return(Ld(vx)))>>) :
            p \in ({Ld(va)} \X Arms \X Arms) \cup 
                 (Conds \X {NoStmt, E(As(vx, V(1))), Return(V(1)), GotoL(L1)} \X {E(As(vx, F))})}

\* Loops, left and gone on with from within.
Bodies == {Use(Ld(vx)), E(As(vx, F)),
           Block(<<If(Ask, Break, NoStmt), E(As(vx, F))>>),
           Block(<<If(Ask, Continue, Use(Ld(vx))), E(As(vx, Neg(Ld(vx)))), If(Ld(vb), Break, Continue)>>),
           If(Ask, Return(Ld(vx)), E(As(vx, V(1))))}
Loops == {Function(<<E(As(vx, Ld(vb))), l, Return(Ld(vx))>>) :
            l \in {While(t, s) : t \in {Ask, Ld(vx), V(1), And(Ld(vx), Ask)}, s \in Bodies}
                 \cup {Do(s, t) : t \in {Ask, V(0), Or(Ld(vx), Ask)}, s \in Bodies}
                 \cup {Loop(E(As(vx, V(1))), t, s, E(As(vx, F)), NoExpr) : t \in {NoExpr, Ask}, s \in Bodies}}

\* Switches that fall through, end early, or have no default.
Switches ==
    {Function(<<E(As(vx, V(0))),
                SwitchOn(v, cs, Block(<<Case(C1, E(As(vx, F))), s, Case(D, Use(Ld(vx))),
                                        Case(C2, E(As(vx, V(1))))>>)),
                Return(Ld(vx))>>) :
        v \in {Ld(va), Ask, Tern(Ld(va), F, Ld(vb))}, s \in {NoStmt, Break, Return(V(0))},
        cs \in {<<[label |-> C1, lo |-> 1, hi |-> 1], [label |-> D, lo |-> 1, hi |-> 0],
                  [label |-> C2, lo |-> 0, hi |-> 0]>>,
                <<[label |-> C1, lo |-> 0, hi |-> 0], [label |-> D, lo |-> 2, hi |-> 3],
                  [label |-> C2, lo |-> 4, hi |-> 4]>>}}

\* l is the label at the end of an inlined function.
Exprs1(l) ==
    {V(1), Ld(va), F, And(Ld(va), Ask), Or(Ask, F), Tern(Ask, V(1), Ld(va)), Elvis(Ld(va), F),
     Neg(Ld(vb)), Comma(F, Ld(va)), As(vx, F), Inner(Block(<<Use(Ld(va)), E(Ld(vb))>>)),
     Inner(Inlined(l, <<If(Ld(vb), ReturnOf(l, F), NoStmt), ReturnOf(l, V(0))>>)),
     Inner(Inlined(l, <<Use(Ld(va)), ReturnOf(l, Ld(va))>>))}
Exprs2 == {Tern(Ld(vb), v, w) : v \in Exprs1(C1), w \in {F, Neg(Ld(vb))}}
             \cup {Elvis(v, w) : v \in Exprs1(C1), w \in {F, V(0)}}
             \cup {Call(fuse, <<v, Ld(vx)>>) : v \in Exprs1(C1)}
Values2 == {Function(<<E(As(vx, V(0))), E(As(vy, v)), Use(Ld(vx)), Return(Ld(vy))>>) : v \in Exprs2}

\* Labels ahead and behind, reached and not.
Gotos ==
    {Function(<<E(As(vx, Ld(va))), GotoL(L2), Label(L1, Use(V(1))), If(Ask, Return(V(1)), s),
                Label(L2, E(As(vx, v))), If(Ld(vx), GotoL(L1), t), Return(Ld(vx))>>) :
        s \in {NoStmt, GotoL(L2), GotoL(L1)}, t \in {NoStmt, GotoL(L2)}, v \in {Ask, V(1)}}
    \cup {Function(<<If(Ld(va), While(V(1), NoStmt), Computed(Ld(vb))),
                     Label(L1, GotoL(L2)), Label(L2, NoStmt), Return(V(0))>>)}
    \cup {Function(<<Computed(v), Use(Ld(vb)), Label(L1, Use(Ld(va))), Label(L2, If(Ask, s, NoStmt))>>) :
            v \in {Ld(va), Ask}, s \in {NoStmt, Return(V(1)), Computed(F)}}

\* The same comparison twice, one after the other or in two arms, and
\* conditions that are known on some way.
Eq(v, w) == [kind |-> "eq", x |-> v, y |-> w]
Compare(v) == {E(As(vx, Eq(v, Ld(vb)))), Use(Eq(v, Ld(vb))), If(Eq(V(0), v), E(As(vx, V(1))), E(Ask)),
               If(Eq(v, Ld(vb)), E(As(vx, V(1))), E(As(vx, V(0)))), E(Eq(v, Ld(vb))),
               E(As(vx, Tern(v, V(2), V(1)))), E(As(vx, Tern(v, V(0), V(1))))}
Twice ==
    {Function(<<E(As(vx, V(0))), t1, t2, If(Ld(vx), Use(V(0)), Use(Ld(va))), Return(V(0))>>) :
        t1 \in Compare(Ld(va)), t2 \in Compare(Ld(va))}
    \cup {Function(<<E(As(vx, V(0))), E(As(vy, V(0))), t, If(Ld(vx), Use(V(0)), Use(Ld(va))),
                     Return(V(0))>>) : t \in Compare(Ld(vy))}
    \cup {Function(<<E(As(vx, V(0))), If(Ask, t1, t2), Return(Ld(vx))>>) :
        t1 \in Compare(Ld(va)), t2 \in Compare(Ld(va))}
    \cup {Function(<<E(As(vx, v)),
                     SwitchOn(Ld(vx), <<[label |-> C1, lo |-> 1, hi |-> 1],
                                        [label |-> D, lo |-> 1, hi |-> 0]>>,
                              Block(<<Case(C1, Use(Ld(va))), Case(D, Break)>>)),
                     If(Ld(va), Use(Ld(vx)), NoStmt), Return(Ld(va))>>) : v \in {V(0), V(1)}}
    \cup {Function(<<E(As(vx, Eq(Ld(va), Ld(vb)))), E(As(vy, Eq(Ld(va), Ld(vb)))),
                     Return(Tern(Ask, Ld(vx), Ld(vy)))>>),
          Function(<<E(As(vx, Tern(Ld(va), V(1), V(0)))), If(Eq(Ld(vx), V(0)), Use(V(1)), E(Ask)),
                     Return(V(0))>>)}

\* Variables that calls see, one of them volatile.
Touch(s) == {E(As(s, F)), E(As(s, V(1))), Use(Ld(s)), E(As(vx, Ld(s))), E(Ask)}
Memory ==
    {Function(<<t1, If(Ld(va), t2, NoStmt), t3, Return(Ld(vb))>>) :
        t1 \in {E(As(vg, F)), Use(Ld(vg))}, t2 \in Touch(vg), t3 \in {E(As(vg, V(1))), Use(Ld(vg))}}
    \cup {Function(<<E(As(ve, V(0))), t1, If(Ld(va), t2, t3), E(As(ve, V(1))), Return(V(0))>>) :
        t1 \in {E(As(ve, F)), E(As(vx, Ld(ve))), E(Ask)}, t2 \in Touch(ve), t3 \in {NoStmt, Use(Ld(ve))}}
    \cup {Function(<<E(As(vg, V(1))), While(Ld(va), Block(<<t, If(Ask, Break, E(As(vg, F)))>>)),
                     Return(V(0))>>) : t \in {Use(Ld(vg)), E(As(ve, V(1)))}}
    \cup {Function(<<Use(Ld(vy)), s, Return(V(0))>>) :
        s \in {NoStmt, Block(<<E(As(vy, F)), E(As(vy, F)), Use(Ld(vy))>>)}}
    \cup {Function(<<E(As(vv, V(1))), E(Ask), s, Use(Ld(vv)), E(As(vv, F)), Return(V(0))>>) :
        s \in {NoStmt, If(Ask, E(As(vv, V(0))), NoStmt)}}

\* A block between two branches on one condition defines what is used after
\* the second; a value comes straight from the branch or through an arm, in
\* either order.
Bypassed ==
    {Function(<<If(Ld(va), Use(V(1)), NoStmt), E(As(vx, Ld(vg))), If(Ld(va), p[1], p[2]), Return(V(0))>>) :
        p \in {<<Use(V(0)), Use(Ld(vx))>>, <<Use(Ld(vx)), Use(V(0))>>}}
    \cup {Function(<<E(As(vx, Ld(vb))), If(Ld(va), GotoL(L1), NoStmt), E(As(vx, V(1))), GotoL(L2),
                     Label(L1, s), GotoL(L2), Label(L2, Use(Ld(vx))), Return(V(0))>>) :
        s \in {NoStmt, E(As(vx, V(0)))}}

MCPrograms == Ifs \cup Bypassed \cup Loops \cup Switches \cup Values2 \cup Gotos \cup Memory \cup Twice
\* return (x = ask()) ? x : 1;
MCSelect == {Function(<<Return(Tern(As(vx, Ask), Ld(vx), V(1)))>>)}

MCParams == <<va, vb>>
=============================================================================
