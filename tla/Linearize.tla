----------------------------- MODULE Linearize -----------------------------
(***************************************************************************)
(* linearize_fn (linearize.c) up to the first kill_unreachable_bbs: the    *)
(* tree of a function becomes basic blocks of instructions.  The C code    *)
(* recurses over the tree and remembers the blocks it has allocated in its *)
(* stack frames; here the frames are a stack of work still to do, and each *)
(* action is the entry of one handler or one call of a helper.             *)
(* Types, sizes and offsets are left out: a symbol is a scalar that is      *)
(* loaded and stored, an operand is a number, a label or a pseudo, and == is *)
(* the only arithmetic.                                                    *)
(***************************************************************************)
EXTENDS Naturals, SequencesExt

CONSTANTS
    Programs,       \* bodies of functions, as evaluated and expanded
    Labels,         \* symbols of labels, cases, break, continue and return
    Syms,           \* variables
    Fns,            \* functions that are called
    Params,         \* the arguments of the function, a sequence of Syms
    None            \* NULL

ASSUME LinearizeAssumption ==
    /\ Params \in Seq(Syms)
    /\ None \notin Labels \cup Syms \cup Fns

VARIABLES
    todo,   \* the work left, the innermost frame first
    vals,   \* results of linearize_expression and linearize_statement, in frames
    ep      \* the entrypoint

lvars == <<todo, vals, ep>>

-----------------------------------------------------------------------------
\* Pseudos: VOID, PSEUDO_VAL, PSEUDO_ARG, and the targets of instructions
\* (PSEUDO_REG, PSEUDO_PHI), named by the instruction that defines them; "tmp"
\* is the temporary unssa makes for a phi-node.
Pseudo == [kind: {"void", "val", "arg", "reg", "phi", "tmp"}, nr: Nat]
VOID == [kind |-> "void", nr |-> 0]
value_pseudo(n) == [kind |-> "val", nr |-> n]

Terminators == {"ret", "br", "switch", "computedgoto"}

\* args: what the instruction uses.  to: where a branch goes, on the values
\* from sel[i][1] to sel[i][2] if it has a multijmp_list (1, 0 is "default").
\* target: what OP_COPY defines and OP_DEATHNOTE names.
Insn == [op: Terminators \cup {"entry", "load", "store", "call", "set_eq", "set_ne", "sel", "phi",
                               "phisrc", "copy", "deathnote", "lnop", "snop", "nop"},
         bb: Nat, args: Seq(Pseudo), sym: Syms \cup Fns \cup {None},
         to: Seq(Nat), sel: Seq(Nat \X Nat), target: Pseudo]

Op(op, args, sym) ==
    [op |-> op, bb |-> 0, args |-> args, sym |-> sym, to |-> <<>>, sel |-> <<>>, target |-> VOID]

Entrypoint ==
    [active: Nat,                  \* the block that is being filled, 0 for none
     bbs: Seq(Nat),                \* in the order they became active
     insn: Seq(Insn),              \* all instructions
     insns: Seq(Seq(Nat)),         \* those of each block
     parents: Seq(Seq(Nat)),
     children: Seq(Seq(Nat)),
     bound: [Labels -> Nat],       \* bb_target of the labels, 0 for none
     accesses: Seq(Syms),          \* symbols in the order of their pseudos
     held: SUBSET Nat,             \* phi-sources in use by no instruction
     repeat: BOOLEAN,              \* REPEAT_CSE in repeat_phase
     fault: BOOLEAN]               \* an assertion failed or a NULL block was written to

TypeOK == ep \in Entrypoint /\ vals \in Seq(Pseudo)

\* The block that alloc_basic_block returns next, and the one after that.
NewBB(h) == Len(h.insns) + 1

alloc_basic_block(h) ==
    [h EXCEPT !.insns = Append(@, <<>>), !.parents = Append(@, <<>>),
              !.children = Append(@, <<>>)]

LastOp(h, b) == IF h.insns[b] = <<>> THEN "none" ELSE h.insn[Last(h.insns[b])].op

bb_terminated(h, b) == b # 0 /\ LastOp(h, b) \in Terminators

\* The target of the instruction that add_one_insn adds next.
NewReg(h) == [kind |-> "reg", nr |-> Len(h.insn) + 1]

\* An instruction of unreachable code is allocated but in no block.
add_one_insn(h, i) ==
    LET id == Len(h.insn) + 1
        s == [h EXCEPT !.insn = Append(@, [i EXCEPT !.bb = h.active])]
    IN  IF h.active = 0 THEN s ELSE [s EXCEPT !.insns[h.active] = Append(@, id)]

AddEdge(h, p, c) == [h EXCEPT !.parents[c] = Append(@, p), !.children[p] = Append(@, c)]

add_goto(h, dst) ==
    IF h.active = 0 THEN h
    ELSE [add_one_insn(AddEdge(h, h.active, dst), [Op("br", <<>>, None) EXCEPT !.to = <<dst>>])
              EXCEPT !.active = 0]

set_activeblock(h, b) ==
    [(IF bb_terminated(h, h.active) THEN h ELSE add_goto(h, b))
         EXCEPT !.active = b, !.bbs = Append(@, b)]

add_branch(h, cond, t, f) ==
    IF h.active = 0 THEN h
    ELSE add_one_insn(AddEdge(AddEdge(h, h.active, t), h.active, f),
                      [Op("br", <<cond>>, None) EXCEPT !.to = <<t, f>>])

\* get_bound_block(h, l) is Bound(h, l).bound[l].
Bound(h, l) ==
    IF h.bound[l] # 0 THEN h ELSE [alloc_basic_block(h) EXCEPT !.bound[l] = NewBB(h)]

add_label(h, l) ==
    IF h.bound[l] # 0 THEN set_activeblock(h, h.bound[l])
    ELSE IF h.active # 0 /\ h.insns[h.active] = <<>> THEN [h EXCEPT !.bound[l] = h.active]
    ELSE [set_activeblock(alloc_basic_block(h), NewBB(h)) EXCEPT !.bound[l] = NewBB(h)]

bind_label(h, l, b) == [h EXCEPT !.bound[l] = b]

\* The target of the OP_PHISOURCE that alloc_phi adds next.  It does not ask
\* whether there is an active block.
NewPhi(h) == [kind |-> "phi", nr |-> Len(h.insn) + 1]

alloc_phi(h, src) ==
    [add_one_insn(h, Op("phisrc", <<src>>, None)) EXCEPT !.fault = @ \/ h.active = 0]

\* symbol_pseudo
Access(h, sym) ==
    IF Contains(h.accesses, sym) THEN h ELSE [h EXCEPT !.accesses = Append(@, sym)]
-----------------------------------------------------------------------------
\* Work: the calls still to be made.
Stmt(s) == [do |-> "stmt", s |-> s]
Expr(x) == [do |-> "expr", x |-> x]
Cond(x, t, f) == [do |-> "cond", x |-> x, t |-> t, f |-> f]
Goto(b) == [do |-> "goto", b |-> b]
Activate(b) == [do |-> "activate", b |-> b]
Drop == [do |-> "drop"]          \* a result nobody uses
Yield(p) == [do |-> "yield", p |-> p]

top == Head(todo)
At(kind) == todo # <<>> /\ top.do = kind
AtStmt(kind) == At("stmt") /\ top.s.kind = kind
AtExpr(kind) == At("expr") /\ top.x.kind = kind

\* A frame goes on with calls, having done h to the entrypoint.
Calls(items, h) == todo' = items \o Tail(todo) /\ ep' = h /\ UNCHANGED vals

\* A frame takes the results of its last n calls and returns p.
result == Last(vals)
Returns(n, p, h) ==
    /\ todo' = Tail(todo)
    /\ ep' = h
    /\ vals' = Append(SubSeq(vals, 1, Len(vals) - n), p)

drop == At("drop") /\ todo' = Tail(todo) /\ vals' = Front(vals) /\ UNCHANGED ep
yield == At("yield") /\ Returns(0, top.p, ep)
-----------------------------------------------------------------------------
\* linearize_expression.  An absent expression (kind "none") is VOID.
linearize_no_expr == AtExpr("none") /\ Returns(0, VOID, ep)

linearize_value == AtExpr("value") /\ Returns(0, value_pseudo(top.x.n), ep)

\* linearize_access
linearize_access ==
    /\ AtExpr("load")
    /\ LET h == Access(ep, top.x.sym)
       IN  Returns(0, NewReg(h), add_one_insn(h, Op("load", <<>>, top.x.sym)))

linearize_assignment ==
    AtExpr("assign") /\ Calls(<<Expr(top.x.x), [do |-> "store", sym |-> top.x.sym]>>, ep)

\* linearize_store_gen: no store of unreachable code is made.
add_store ==
    /\ At("store")
    /\ LET h == Access(ep, top.sym)
       IN  Returns(1, result, IF h.active = 0 THEN h
                              ELSE add_one_insn(h, Op("store", <<result>>, top.sym)))

linearize_call_expression ==
    AtExpr("call") /\ Calls([i \in DOMAIN top.x.args |-> Expr(top.x.args[i])]
                                \o <<[do |-> "call", x |-> top.x]>>, ep)

add_call ==
    /\ At("call")
    /\ LET n == Len(top.x.args)
           args == SubSeq(vals, Len(vals) - n + 1, Len(vals))
       IN  Returns(n, NewReg(ep), add_one_insn(ep, Op("call", args, top.x.fn)))

linearize_compare == AtExpr("eq") /\ Calls(<<Expr(top.x.x), Expr(top.x.y), [do |-> "eq"]>>, ep)

add_binary_op ==
    /\ At("eq")
    /\ Returns(2, NewReg(ep),
               add_one_insn(ep, Op("set_eq", SubSeq(vals, Len(vals) - 1, Len(vals)), None)))

linearize_regular_preop == AtExpr("not") /\ Calls(<<Expr(top.x.x), [do |-> "not"]>>, ep)

\* ! compares with 0.
add_not ==
    /\ At("not")
    /\ Returns(1, NewReg(ep), add_one_insn(ep, Op("set_eq", <<result, value_pseudo(0)>>, None)))

linearize_comma == AtExpr("comma") /\ Calls(<<Expr(top.x.x), Drop, Expr(top.x.y)>>, ep)

linearize_statement_expr == AtExpr("stmt") /\ Calls(<<Stmt(top.x.s)>>, ep)

\* linearize_select: expand.c makes it of a conditional whose two values cost
\* little.  They are computed before the condition is; x ?: y takes its value.
linearize_select ==
    AtExpr("select") /\ Calls(<<Expr(top.x.x), Expr(top.x.y), Expr(top.x.c),
                                [do |-> "sel", short |-> top.x.x.kind = "none"]>>, ep)

add_select ==
    /\ At("sel")
    /\ LET v == SubSeq(vals, Len(vals) - 2, Len(vals))
           yes == IF top.short THEN v[3] ELSE v[1]
       IN  Returns(3, NewReg(ep), add_one_insn(ep, Op("sel", <<v[3], yes, v[2]>>, None)))

\* The two arms end in a phi-source each, wherever they have got to.
Phi == [do |-> "phi"]
Join == [do |-> "join"]

Conditional(cond, x, y) ==
    IF ep.active = 0 THEN Returns(0, VOID, ep)
    ELSE LET t == NewBB(ep)
         IN  Calls(<<Cond(cond, t, t + 1),
                     Activate(t), Expr(x), Phi, Goto(t + 2),
                     Activate(t + 1), Expr(y), Phi,
                     Activate(t + 2), Join>>,
                   alloc_basic_block(alloc_basic_block(alloc_basic_block(ep))))

linearize_conditional ==
    AtExpr("cond") /\ top.x.x.kind # "none" /\ Conditional(top.x.c, top.x.x, top.x.y)

\* linearize_logical: a constant where the right side is not evaluated.
linearize_logical ==
    /\ AtExpr("logical")
    /\ IF top.x.op = "or"
       THEN Conditional(top.x.x, [kind |-> "value", n |-> 1], top.x.y)
       ELSE Conditional(top.x.x, top.x.y, [kind |-> "value", n |-> 0])

linearize_short_conditional ==
    /\ AtExpr("cond") /\ top.x.x.kind = "none"
    /\ LET h == alloc_basic_block(ep)
           merge == NewBB(ep)
       IN  IF ep.active = 0 THEN Returns(0, VOID, h)
           ELSE Calls(<<Expr(top.x.c), [do |-> "shortcut", t |-> merge, f |-> merge + 1],
                        Activate(merge + 1), Expr(top.x.y), Phi,
                        Activate(merge), Join>>, alloc_basic_block(h))

add_shortcut ==
    At("shortcut") /\ Returns(1, NewPhi(ep), add_branch(alloc_phi(ep, result), result, top.t, top.f))

add_phi == At("phi") /\ Returns(1, NewPhi(ep), alloc_phi(ep, result))

\* No operand of a join is VOID: alloc_phi does not return it.
add_join_conditional ==
    /\ At("join")
    /\ Returns(2, NewReg(ep),
               add_one_insn(ep, Op("phi", SubSeq(vals, Len(vals) - 1, Len(vals)), None)))
-----------------------------------------------------------------------------
\* linearize_cond_branch
CondReached == At("cond") /\ ep.active # 0 /\ top.x.kind # "none"

cond_unreachable == At("cond") /\ ~CondReached /\ Calls(<<>>, ep)

cond_value ==
    /\ CondReached /\ top.x.kind = "value"
    /\ Calls(<<>>, add_goto(ep, IF top.x.n # 0 THEN top.t ELSE top.f))

\* linearize_logical_branch
cond_logical ==
    /\ CondReached /\ top.x.kind = "logical"
    /\ LET next == NewBB(ep)
       IN  Calls(<<IF top.x.op = "or" THEN Cond(top.x.x, top.t, next)
                                      ELSE Cond(top.x.x, next, top.f),
                   Activate(next), Cond(top.x.y, top.t, top.f)>>, alloc_basic_block(ep))

cond_not == CondReached /\ top.x.kind = "not" /\ Calls(<<Cond(top.x.x, top.f, top.t)>>, ep)

cond_other ==
    /\ CondReached /\ top.x.kind \notin {"value", "logical", "not"}
    /\ Calls(<<Expr(top.x), [do |-> "branch", t |-> top.t, f |-> top.f]>>, ep)

branch ==
    /\ At("branch")
    /\ todo' = Tail(todo)
    /\ vals' = Front(vals)
    /\ ep' = add_branch(ep, result, top.t, top.f)
-----------------------------------------------------------------------------
\* linearize_statement.  Only an expression, a compound statement and an
\* inlined call have a result.
goto == At("goto") /\ Calls(<<>>, add_goto(ep, top.b))
activate == At("activate") /\ Calls(<<>>, set_activeblock(ep, top.b))

linearize_none == AtStmt("none") /\ Returns(0, VOID, ep)

linearize_expression_statement == AtStmt("expr") /\ Calls(<<Expr(top.s.x)>>, ep)

linearize_return ==
    /\ AtStmt("return")
    /\ LET h == Bound(ep, top.s.label)
       IN  Calls(<<Expr(top.s.x), [do |-> "return", b |-> h.bound[top.s.label]]>>, h)

\* The first value returned makes the OP_PHI that the block of the end of the
\* function starts with.
add_return ==
    /\ At("return")
    /\ LET phi == alloc_phi(ep, result)
           node == Len(phi.insn) + 1
           first == IF ep.insns[top.b] = <<>>
                    THEN [phi EXCEPT
                            !.insn = Append(@, [Op("phi", <<NewPhi(ep)>>, None)
                                                    EXCEPT !.bb = top.b]),
                            !.insns[top.b] = <<node>>]
                    ELSE [phi EXCEPT !.insn[Head(ep.insns[top.b])].args = Append(@, NewPhi(ep))]
       IN  Returns(1, VOID, add_goto(IF ep.active # 0 /\ result # VOID THEN first ELSE ep, top.b))

linearize_case ==
    AtStmt("case") /\ Calls(<<Stmt(top.s.body), Drop, Yield(VOID)>>, add_label(ep, top.s.label))

\* A label no goto has named is skipped, and so is its statement.
linearize_label ==
    /\ AtStmt("label")
    /\ IF top.s.used
       THEN Calls(<<Stmt(top.s.body), Drop, Yield(VOID)>>, add_label(ep, top.s.label))
       ELSE Returns(0, VOID, ep)

linearize_goto ==
    /\ AtStmt("goto")
    /\ IF ep.active = 0 THEN Returns(0, VOID, ep)
       ELSE LET h == Bound(ep, top.s.label)
            IN  Returns(0, VOID, add_goto(h, h.bound[top.s.label]))

\* The active block is read before the expression is linearized.
linearize_computed_goto ==
    /\ AtStmt("cgoto")
    /\ IF ep.active = 0 THEN Returns(0, VOID, ep)
       ELSE Calls(<<Expr(top.s.x), [do |-> "jump", to |-> top.s.to, active |-> ep.active]>>, ep)

BoundAll(h, labels) == FoldLeft(Bound, h, labels)

add_computed_goto ==
    /\ At("jump")
    /\ LET h == BoundAll(ep, top.to)
           to == [i \in DOMAIN top.to |-> h.bound[top.to[i]]]
           s == add_one_insn(h, [Op("computedgoto", <<result>>, None)
                                     EXCEPT !.to = to, !.sel = [i \in DOMAIN to |-> <<1, 0>>]])
           edges == FoldLeft(LAMBDA k, b :
                        [k EXCEPT !.parents[b] = Append(@, ep.active),
                                  !.children[top.active] = Append(@, b)], s, to)
       IN  Returns(1, VOID, [edges EXCEPT !.active = 0])

\* linearize_compound_statement; an inlined call is one with a return label.
linearize_compound_statement ==
    /\ AtStmt("block")
    /\ LET n == Len(top.s.stmts)
           body == FlattenSeq([i \in 1 .. n |-> IF i < n THEN <<Stmt(top.s.stmts[i]), Drop>>
                                                ELSE <<Stmt(top.s.stmts[i])>>])
       IN  Calls((IF n = 0 THEN <<Yield(VOID)>> ELSE body)
                     \o IF top.s.ret = None THEN <<>> ELSE <<[do |-> "ret", label |-> top.s.ret]>>,
                 ep)

\* What the returns have left in the block of the return label: nothing, one
\* phi-source, whose value will do, or more.
compound_result ==
    /\ At("ret")
    /\ LET h == add_label(ep, top.label)
           insns == h.insns[h.bound[top.label]]
           node == h.insn[Head(insns)]
       IN  Returns(1, IF insns = <<>> THEN result
                      ELSE IF Len(node.args) = 1 THEN h.insn[node.args[1].nr].args[1]
                      ELSE [kind |-> "reg", nr |-> Head(insns)], h)

linearize_if ==
    /\ AtStmt("if")
    /\ LET t == NewBB(ep)
           h == alloc_basic_block(alloc_basic_block(ep))
       IN  IF top.s.no.kind = "none"
           THEN Calls(<<Cond(top.s.c, t, t + 1),
                        Activate(t), Stmt(top.s.yes), Drop,
                        Activate(t + 1), Yield(VOID)>>, h)
           ELSE Calls(<<Cond(top.s.c, t, t + 1),
                        Activate(t), Stmt(top.s.yes), Drop, Goto(t + 2),
                        Activate(t + 1), Stmt(top.s.no), Drop,
                        Activate(t + 2), Yield(VOID)>>, alloc_basic_block(h))
-----------------------------------------------------------------------------
linearize_switch ==
    /\ AtStmt("switch")
    /\ Calls(<<Expr(top.s.x), [do |-> "cases", s |-> top.s, end |-> NewBB(ep)]>>,
             alloc_basic_block(ep))

\* cases: the symbol_list of the switch; one with hi < lo is the default, which
\* is put off to the end.
add_switch_case(h, active, id, sel, b) ==
    [AddEdge(h, active, b) EXCEPT !.insn[id].to = Append(@, b), !.insn[id].sel = Append(@, sel)]

add_switch ==
    /\ At("cases")
    /\ IF ep.active = 0 THEN Returns(1, VOID, ep)
       ELSE LET s == top.s
                id == Len(ep.insn) + 1
                one(h, i) ==
                    LET k == Bound(h, s.cases[i].label)
                    IN  IF s.cases[i].hi < s.cases[i].lo THEN k
                        ELSE add_switch_case(k, ep.active, id, <<s.cases[i].lo, s.cases[i].hi>>,
                                             k.bound[s.cases[i].label])
                h == FoldLeft(one, add_one_insn(ep, Op("switch", <<result>>, None)),
                              [i \in DOMAIN s.cases |-> i])
                defaults == {i \in DOMAIN s.cases : s.cases[i].hi < s.cases[i].lo}
                default == IF defaults = {} THEN top.end
                           ELSE h.bound[s.cases[CHOOSE i \in defaults : TRUE].label]
            IN  /\ todo' = <<Stmt(s.body), Drop, Activate(top.end),
                             [do |-> "default", b |-> default, active |-> ep.active, id |-> id]>>
                               \o Tail(todo)
                /\ vals' = Front(vals)
                /\ ep' = bind_label([h EXCEPT !.active = 0], s.brk, top.end)

add_default ==
    At("default") /\ Returns(0, VOID, add_switch_case(ep, top.active, top.id, <<1, 0>>, top.b))

linearize_iterator ==
    AtStmt("loop") /\ Calls(<<Stmt(top.s.pre), Drop, [do |-> "loop", s |-> top.s]>>, ep)

\* With a condition at the end (do while) there is none at the start.
iterator_loop ==
    /\ At("loop")
    /\ LET s == top.s
           b == NewBB(ep)            \* loop_body, loop_continue, loop_end, loop_top
           h == alloc_basic_block(alloc_basic_block(alloc_basic_block(ep)))
           body == <<[do |-> "bind", s |-> s, b |-> b],
                     Activate(b), Stmt(s.body), Drop, Goto(b + 1),
                     Activate(b + 1), Stmt(s.post), Drop>>
       IN  IF s.until.kind # "none"
           THEN Calls(body \o <<Cond(s.until, b, b + 2), Activate(b + 2), Yield(VOID)>>, h)
           ELSE Calls(<<Activate(b + 3), Cond(s.cond, b, b + 2)>>
                         \o body \o <<Goto(b + 3), Activate(b + 2), Yield(VOID)>>,
                      alloc_basic_block(h))

\* Only now do break and continue have a target.
bind_iterator ==
    At("bind") /\ Calls(<<>>, bind_label(bind_label(ep, top.s.cont, top.b + 1), top.s.brk, top.b + 2))

\* The end of linearize_fn's first part: the function falls off its end.
linearize_ret ==
    /\ At("end")
    /\ todo' = <<>>
    /\ vals' = <<>>
    /\ ep' = IF ep.active # 0 /\ ~bb_terminated(ep, ep.active)
             THEN add_one_insn(ep, Op("ret", <<result>>, None)) ELSE ep
-----------------------------------------------------------------------------
\* linearize_argument stores every argument in its symbol.
Entered ==
    LET fresh == [active |-> 1, bbs |-> <<1>>, insn |-> <<>>, insns |-> <<<<>>>>,
                  parents |-> <<<<>>>>, children |-> <<<<>>>>,
                  bound |-> [l \in Labels |-> 0], accesses |-> <<>>, held |-> {},
                  repeat |-> FALSE, fault |-> FALSE]
    IN  FoldLeft(LAMBDA h, i :
                     add_one_insn(Access(h, Params[i]),
                                  Op("store", <<[kind |-> "arg", nr |-> i]>>, Params[i])),
                 add_one_insn(fresh, Op("entry", <<>>, None)), [i \in DOMAIN Params |-> i])

LinearizeInit ==
    /\ \E s \in Programs : todo = <<Stmt(s), [do |-> "end"]>>
    /\ vals = <<>>
    /\ ep = Entered

LinearizeNext ==
    \/ drop \/ yield \/ goto \/ activate
    \/ linearize_no_expr \/ linearize_value \/ linearize_access
    \/ linearize_assignment \/ add_store \/ linearize_call_expression \/ add_call
    \/ linearize_compare \/ add_binary_op \/ linearize_regular_preop \/ add_not
    \/ linearize_comma \/ linearize_statement_expr
    \/ linearize_select \/ add_select \/ linearize_conditional \/ linearize_logical
    \/ linearize_short_conditional \/ add_shortcut \/ add_phi \/ add_join_conditional
    \/ cond_unreachable \/ cond_value \/ cond_logical \/ cond_not \/ cond_other \/ branch
    \/ linearize_none \/ linearize_expression_statement
    \/ linearize_return \/ add_return \/ linearize_case \/ linearize_label
    \/ linearize_goto \/ linearize_computed_goto \/ add_computed_goto
    \/ linearize_compound_statement \/ compound_result \/ linearize_if
    \/ linearize_switch \/ add_switch \/ add_default
    \/ linearize_iterator \/ iterator_loop \/ bind_iterator \/ linearize_ret
=============================================================================
