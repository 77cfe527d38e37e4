-------------------------------- MODULE Flow --------------------------------
(***************************************************************************)
(* What linearize_fn does with whole blocks of instructions:               *)
(* pack_basic_blocks and simplify_flow (flow.c), track_pseudo_death        *)
(* (liveness.c) and, after it, unssa (unssa.c).                            *)
(***************************************************************************)
EXTENDS Cse

\* rewrite_branch: target n of the terminator of b was old.
rewrite_branch(h, b, n, old, new) ==
    LET id == Last(h.insns[b])
        k == SelectInSeq(h.children[b], LAMBDA c : c = old)
    IN  IF h.insn[id].to[n] # old \/ new = old THEN h
        ELSE Asserted([h EXCEPT !.insn[id].to[n] = new, !.repeat = TRUE,
                                !.children[b][k] = new,
                                !.parents[old] = RemoveFirst(@, b), !.parents[new] = Append(@, b)],
                      k # 0 /\ Contains(h.parents[old], b))

rewrite_branches(h, b, old, new) ==
    FoldLeft(LAMBDA k, n : rewrite_branch(k, b, n, old, new), h,
             [n \in DOMAIN h.insn[Last(h.insns[b])].to |-> n])

\* rewrite_branch_bb: every branch to b goes to new instead; not all can be
\* rewritten.
RECURSIVE rewrite_parents(_, _, _)
rewrite_parents(h, b, new) ==
    LET p == Head(h.parents[b])
        s == rewrite_branches(h, p, b, new)
    IN  IF h.parents[b] = <<>> THEN [h |-> h, done |-> TRUE]
        ELSE IF b = new \/ LastOp(h, p) \notin {"br", "switch"} THEN [h |-> h, done |-> FALSE]
        ELSE IF s = h THEN [h |-> Asserted(h, FALSE), done |-> FALSE]
        ELSE rewrite_parents(s, b, new)

\* The only parent of b has no other child.
Mergeable(h, b, p) == p # b /\ ToSet(h.parents[b]) = {p} /\ ToSet(h.children[p]) = {b}

\* Mutant: the children of b keep their parent.
MergeKeepsParents(h, b, p) ==
    LET br == Last(h.insns[p])
        s == [h EXCEPT
                !.children[p] = h.children[b], !.children[b] = <<>>, !.parents[b] = <<>>,
                !.insns[p] = Front(@) \o Live(h, b), !.insns[b] = <<>>,
                !.insn = Each(@, LAMBDA i : IF Contains(Live(h, b), i) THEN [h.insn[i] EXCEPT !.bb = p]
                                            ELSE h.insn[i]),
                !.repeat = TRUE]
    IN  kill_instruction(s, br)

merge(h, b, p) ==
    LET br == Last(h.insns[p])
        s == [h EXCEPT
                !.children[p] = h.children[b], !.children[b] = <<>>,
                !.parents = Each(@, LAMBDA c : IF c = b THEN <<>> ELSE ReplaceAll(h.parents[c], b, p)),
                !.insns[p] = Front(@) \o Live(h, b), !.insns[b] = <<>>,
                !.insn = Each(@, LAMBDA i : IF Contains(Live(h, b), i) THEN [h.insn[i] EXCEPT !.bb = p]
                                            ELSE h.insn[i]),
                !.repeat = TRUE]
    IN  kill_instruction(s, br)

pack_one(h, b) ==
    LET id == Head(Live(h, b))
        i == h.insn[id]
        just == Live(h, b) # <<>> /\ i.op = "br" /\ (Len(i.to) = 1 \/ VAL(i.args[1]))
        new == IF Len(i.to) = 1 \/ i.args[1].nr # 0 THEN i.to[1] ELSE i.to[2]
        tried == IF just THEN rewrite_parents(h, b, new) ELSE [h |-> h, done |-> FALSE]
        s == tried.h
    IN  IF tried.done THEN kill_bb(s, b)
        ELSE IF \E p \in Blocks(s) : Mergeable(s, b, p)
        THEN merge(s, b, CHOOSE p \in Blocks(s) : Mergeable(s, b, p))
        ELSE s

\* vrfy_flow
Verified(h) ==
    /\ Contains(h.bbs, 1)
    /\ \A b \in ToSet(h.bbs) :
          /\ h.insns[b] = <<>> => h.children[b] = <<>>
          /\ h.insns[b] # <<>> => ToSet(h.insn[Last(h.insns[b])].to) \subseteq ToSet(h.children[b])
          /\ \A c \in ToSet(h.children[b]) : Contains(h.parents[c], b)
          /\ \A p \in ToSet(h.parents[b]) : Contains(h.children[p], b)

-----------------------------------------------------------------------------
\* simplify_flow

bb_depends_on(on, b) == live.defines[b] \cap live.needs[on] # {}

bb_has_side_effects(h, b) == \E id \in ToSet(h.insns[b]) : h.insn[id].op \in {"call", "store"}

\* try_to_simplify_bb: a parent that knows which way b goes on goes there.
try_to_simplify_bb(h, b, phi, br) ==
    LET one(k, p) ==
            LET src == k.insn[p.nr]
                v == src.args[1]
                goal == k.insn[br].to[IF v.nr # 0 THEN 1 ELSE 2]
            IN  IF p = VOID \/ src.bb = 0 THEN k
                ELSE IF LastOp(k, src.bb) # "br" \/ ~VAL(v) \/ bb_depends_on(goal, b) THEN k
                ELSE rewrite_branches(k, src.bb, b, goal)
    IN  FoldLeft(one, h, h.insn[phi].args)

simplify_phi_branch(h, b, br) ==
    LET cond == h.insn[br].args[1]
    IN  IF \/ cond.kind # "reg" \/ h.insn[cond.nr].bb # b \/ h.insn[cond.nr].op # "phi"
           \/ bb_has_side_effects(h, b)
        THEN h ELSE try_to_simplify_bb(h, b, cond.nr, br)

\* simplify_branch_branch: way n of b leads to a branch on the same condition.
simplify_branch_branch(h, b, br, n) ==
    LET on == h.insn[br].to[n]
        id == Last(h.insns[on])
        second == h.insn[id]
        final == second.to[n]
    IN  IF on = b \/ h.insns[on] = <<>> THEN h
        ELSE IF second.op # "br" \/ second.args # h.insn[br].args THEN h
        ELSE IF ~bb_has_side_effects(h, on) /\ ~bb_depends_on(final, on)
        THEN rewrite_branch(h, b, n, on, final)
        ELSE IF Len(h.parents[on]) = 1
        THEN Again(kill_instruction(insert_branch(h, on, final), id))
        ELSE h

simplify_one_branch(h, b, first) ==
    LET br == Last(h.insns[b])
        s == simplify_phi_branch(h, b, br)
    IN  IF s # h THEN s
        ELSE simplify_branch_branch(simplify_branch_branch(h, b, br, first), b, br, 3 - first)

\* The compiler chooses which way of a branch comes first.
simplify_branch_nodes(h, first) ==
    FoldLeft(LAMBDA k, b : IF LastOp(k, b) = "br" /\ Len(k.insn[Last(k.insns[b])].to) = 2
                           THEN simplify_one_branch(k, b, first) ELSE k, h, h.bbs)

-----------------------------------------------------------------------------
\* track_pseudo_death: before an instruction, what it uses last.
Operands(h, id) ==
    IF h.insn[id].op = "phi" THEN {}
    ELSE {p \in ToSet(h.insn[id].args) : trackable_pseudo(p)}

deathnotes(h, b, dead) ==
    [h EXCEPT !.insn = @ \o [k \in DOMAIN dead |-> [Op("deathnote", <<>>, None)
                                                       EXCEPT !.bb = b, !.target = dead[k]]]]

track_pseudo_death_bb(h, b) ==
    LET out == UNION {live.needs[c] : c \in ToSet(h.children[b])}
        one(id, w) ==
            LET dead == SetToSeq(Operands(w.h, id) \ w.live)
                notes == [k \in DOMAIN dead |-> Len(w.h.insn) + k]
            IN  [h |-> deathnotes(w.h, b, dead), live |-> w.live \cup ToSet(dead),
                 insns |-> notes \o <<id>> \o w.insns]
        w == FoldRight(one, Live(h, b), [h |-> h, live |-> out, insns |-> <<>>])
    IN  [w.h EXCEPT !.insns[b] = w.insns]

track_pseudo_death(h) == FoldLeft(track_pseudo_death_bb, h, h.bbs)

-----------------------------------------------------------------------------
\* unssa: a phi-node copies its temporary, and each phi-source becomes copies to
\* the temporaries of the phi-nodes that use it.
Tmp(id) == [kind |-> "tmp", nr |-> id]
Copy(src, to) == [Op("copy", <<src>>, None) EXCEPT !.target = to]

phi_users(h, id) ==
    FoldLeft(LAMBDA s, b : s \o SelectSeq(Live(h, b), LAMBDA i :
                 h.insn[i].op = "phi" /\ Contains(h.insn[i].args, [kind |-> "phi", nr |-> id])),
             <<>>, h.bbs)

rewrite_phisrc(h, id) ==
    LET phis == phi_users(h, id)
        i == h.insn[id]
        copies == [k \in DOMAIN phis |-> [Copy(i.args[1], Tmp(phis[k])) EXCEPT !.bb = i.bb]]
        at == SelectInSeq(h.insns[i.bb], LAMBDA j : j = id)
        more == [k \in 1 .. Len(phis) - 1 |-> Len(h.insn) + k]
    IN  IF phis = <<>> THEN h
        ELSE [h EXCEPT !.insn = [@ EXCEPT ![id] = copies[1]] \o Tail(copies),
                       !.insns[i.bb] = SubSeq(@, 1, at - 1) \o more \o SubSeq(@, at, Len(@))]

unssa(h) ==
    LET sources == FoldLeft(LAMBDA s, b : s \o SelectSeq(Live(h, b), LAMBDA i : h.insn[i].op = "phisrc"),
                            <<>>, h.bbs)
        s == FoldLeft(rewrite_phisrc, h, sources)
    IN  [s EXCEPT !.insn = [i \in DOMAIN @ |->
            IF @[i].op = "phi" /\ @[i].bb # 0
            THEN [Copy(Tmp(i), [kind |-> "reg", nr |-> i]) EXCEPT !.bb = s.insn[i].bb] ELSE @[i]]]
=============================================================================
