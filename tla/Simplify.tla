------------------------------ MODULE Simplify ------------------------------
(***************************************************************************)
(* simplify_instruction (simplify.c): one instruction of the cleanup that  *)
(* cleanup_and_cse makes, with what insert_branch and insert_select        *)
(* (linearize.c) make of the blocks.                                       *)
(***************************************************************************)
EXTENDS Liveness

VAL(p) == p.kind = "val"

Asserted(h, fact) == [h EXCEPT !.fault = @ \/ ~fact]
Again(h) == [h EXCEPT !.repeat = TRUE]
Killed(h, id) == [h EXCEPT !.insn[id].bb = 0, !.repeat = TRUE]

\* dead_insn, with the slots of the operands it kills.
Dead(h, id) == ~Used(h, Defines(h, id))
dead_insn(h, id, slots) == kill_uses(Killed(h, id), id, slots)

replace_with_pseudo(h, id, src) == Killed(convert_instruction_target(h, id, src), id)

-----------------------------------------------------------------------------
\* Mutant: the parent does not forget the child.
UnlinkOneSide(h, parent, child) ==
    Asserted([h EXCEPT !.parents[child] = RemoveFirst(@, parent)], Contains(h.parents[child], parent))

\* Edges.  Removing one that is not there fails an assertion.
Unlink(h, parent, child) ==
    Asserted([h EXCEPT !.parents[child] = RemoveFirst(@, parent),
                       !.children[parent] = RemoveFirst(@, child)],
             Contains(h.parents[child], parent) /\ Contains(h.children[parent], child))

\* remove_parent: what has no parents any more is killed.
remove_parent(h, child, parent) ==
    LET s == Unlink(h, parent, child)
    IN  IF s.parents[child] = <<>> THEN kill_bb(s, child) ELSE s

Add(h, i) == [h EXCEPT !.insn = Append(@, i)]
Added(h) == Len(h.insn) + 1

\* insert_branch: block b ends in a branch to goal.  The edges to all children
\* but one that is goal are removed.
insert_branch(h, b, goal) ==
    LET one(s, child) == IF child = goal /\ ~s.kept THEN [s EXCEPT !.kept = TRUE]
                         ELSE [s EXCEPT !.h = remove_parent(@, child, b)]
        br == [Op("br", <<>>, None) EXCEPT !.bb = b, !.to = <<goal>>]
    IN  FoldLeft(one, [kept |-> FALSE,
                       h |-> [Add(h, br) EXCEPT !.insns[b] = Append(Front(@), Added(h))]],
                 h.children[b]).h

\* add_instruction_to_end: before the branch.
BeforeLast(h, b, id) == [h EXCEPT !.insns[b] = Front(@) \o <<id, Last(@)>>]

\* insert_select: the target of the phi-node is defined by a OP_SEL at the end
\* of b, here the same instruction, which is no longer one of its old block.
insert_select(h, b, id, cond, yes, no) ==
    BeforeLast([h EXCEPT !.insn[id] = [Op("sel", <<cond, yes, no>>, None) EXCEPT !.bb = b]], b, id)

-----------------------------------------------------------------------------
\* Phi-nodes

clear_phi(h, id) == [Killed(h, id) EXCEPT !.insn[id].args = [k \in DOMAIN @ |-> VOID]]

\* The phi-sources that count.
Sources(h, id) ==
    SelectSeq(h.insn[id].args,
              LAMBDA p : p # VOID /\ h.insn[p.nr].args[1] # VOID /\ h.insn[p.nr].bb # 0)

phi_parent(h, source, p) ==
    IF \/ p.kind = "reg" /\ h.insn[p.nr].bb = source
       \/ Len(h.children[source]) # 1 \/ Len(h.parents[source]) # 1
    THEN source ELSE Head(h.parents[source])

\* A phi-node of two sources that one conditional branch decides about is a
\* select at that branch.
if_convert_phi(h, id) ==
    LET i == h.insn[id]
        from == [k \in 1 .. 2 |-> h.insn[i.args[k].nr]]
        p == [k \in 1 .. 2 |-> from[k].args[1]]
        source == phi_parent(h, from[1].bb, p[1])
        br == h.insn[Last(h.insns[source])]
        swapped == br.to[1] = from[2].bb \/ br.to[2] = from[1].bb
    IN  IF \/ Len(i.args) # 2 \/ Len(h.parents[i.bb]) # 2
           \/ h.parents[i.bb] \notin {<<from[1].bb, from[2].bb>>, <<from[2].bb, from[1].bb>>}
           \/ source # phi_parent(h, from[2].bb, p[2])
           \/ br.op # "br"
        THEN h
        ELSE IF Len(br.to) # 2 THEN Asserted(h, FALSE)
        ELSE Again(insert_select(h, source, id, br.args[1], IF swapped THEN p[2] ELSE p[1],
                                 IF swapped THEN p[1] ELSE p[2]))

simplify_phi(h, id) ==
    LET from == Sources(h, id)
        values == {h.insn[p.nr].args[1] : p \in ToSet(from)}
        src == IF values = {} THEN VOID ELSE CHOOSE v \in values : TRUE
    IN  IF Dead(h, id) THEN clear_phi(h, id)
        ELSE IF Cardinality(values) <= 1
        THEN clear_phi(convert_instruction_target(h, id, src), id)
        ELSE if_convert_phi(h, id)

-----------------------------------------------------------------------------
\* Mutant: a constant goes to the other side, whichever side it is on.
SwapsForever(h, id) ==
    LET i == h.insn[id]
        both == VAL(i.args[1]) /\ VAL(i.args[2])
    IN  IF Dead(h, id) THEN dead_insn(h, id, <<1, 2>>)
        ELSE IF ~both /\ (VAL(i.args[1]) \/ VAL(i.args[2]))
        THEN Again([h EXCEPT !.insn[id].args = <<@[2], @[1]>>])
        ELSE h

\* simplify_binop and, a constant goes to the right, simplify_commutative_binop.
simplify_binop(h, id) ==
    LET i == h.insn[id]
        x == i.args[1]
        y == i.args[2]
        holds == (x.nr = y.nr) = (i.op = "set_eq")
    IN  IF Dead(h, id) THEN dead_insn(h, id, <<1, 2>>)
        ELSE IF VAL(x) /\ VAL(y)
        THEN replace_with_pseudo(h, id, value_pseudo(IF holds THEN 1 ELSE 0))
        ELSE IF VAL(x) THEN Again([h EXCEPT !.insn[id].args = <<y, x>>])
        ELSE h

simplify_phisource(h, id) == IF Dead(h, id) THEN dead_insn(h, id, <<1>>) ELSE h

\* A select of 1 or 0 is a comparison.
simplify_select(h, id) ==
    LET i == h.insn[id]
        cond == i.args[1]
        yes == i.args[2]
        no == i.args[3]
        taken == IF VAL(cond) /\ cond.nr = 0 THEN 3 ELSE 2
    IN  IF Dead(h, id) THEN dead_insn(h, id, <<1, 2, 3>>)
        ELSE IF VAL(cond) \/ yes = no
        THEN replace_with_pseudo(kill_uses(h, id, <<1, 5 - taken>>), id, i.args[taken])
        ELSE IF VAL(yes) /\ VAL(no) /\ {yes.nr, no.nr} = {0, 1}
        THEN Again([h EXCEPT !.insn[id].op = IF yes.nr = 1 THEN "set_ne" ELSE "set_eq",
                             !.insn[id].args = <<cond, value_pseudo(0)>>])
        ELSE h

-----------------------------------------------------------------------------
\* The condition becomes p, which the old one was made from.
BranchOn(h, id, p, to) ==
    LET old == h.insn[id].args[1]
        s == Again([h EXCEPT !.insn[id].args = <<p>>, !.insn[id].to = to])
    IN  IF Used(s, old) THEN s ELSE kill_instruction(s, old.nr)

simplify_branch(h, id) ==
    LET i == h.insn[id]
        cond == i.args[1]
        swapped == <<i.to[2], i.to[1]>>
        def == h.insn[cond.nr]
        zero(k) == def.args[k] = value_pseudo(0)
        truth(k) == VAL(def.args[k]) /\ def.args[k].nr # 0
    IN  IF Len(i.to) = 1 THEN h
        ELSE IF VAL(cond)
        THEN Again(insert_branch(h, i.bb, IF cond.nr # 0 THEN i.to[1] ELSE i.to[2]))
        ELSE IF i.to[1] = i.to[2]
        THEN Again([kill_uses(Unlink(h, i.bb, i.to[1]), id, <<1>>)
                      EXCEPT !.insn[id].to = <<i.to[1]>>, !.insn[id].args = <<>>])
        ELSE IF cond.kind = "reg" /\ def.op \in {"set_ne", "set_eq"} /\ (zero(1) \/ zero(2))
        THEN BranchOn(h, id, def.args[IF zero(1) THEN 2 ELSE 1],
                      IF def.op = "set_eq" THEN swapped ELSE i.to)
        ELSE IF cond.kind = "reg" /\ def.op = "sel" /\ VAL(def.args[2]) /\ VAL(def.args[3])
        THEN IF ~truth(2) /\ ~truth(3) THEN Again(insert_branch(h, i.bb, i.to[2]))
             ELSE IF truth(2) /\ truth(3) THEN Again(insert_branch(h, i.bb, i.to[1]))
             ELSE BranchOn(h, id, def.args[1], IF truth(3) THEN swapped ELSE i.to)
        ELSE h

\* The first that matches, or is the default.
simplify_switch(h, id) ==
    LET i == h.insn[id]
        v == i.args[1].nr
        found == SelectInSeq(i.sel, LAMBDA s : s[2] < s[1] \/ (s[1] <= v /\ v <= s[2]))
    IN  IF ~VAL(i.args[1]) \/ found = 0 THEN h ELSE Again(insert_branch(h, i.bb, i.to[found]))

simplify_instruction(h, id) ==
    LET op == h.insn[id].op
    IN  CASE op \in {"set_eq", "set_ne"} -> simplify_binop(h, id)
          [] op = "phi" -> simplify_phi(h, id)
          [] op = "phisrc" -> simplify_phisource(h, id)
          [] op = "sel" -> simplify_select(h, id)
          [] op = "br" -> simplify_branch(h, id)
          [] op = "switch" -> simplify_switch(h, id)
          [] OTHER -> h
=============================================================================
