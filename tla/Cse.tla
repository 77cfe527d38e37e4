--------------------------------- MODULE Cse ---------------------------------
(***************************************************************************)
(* cleanup_and_cse (cse.c) with simplify_memops (memops.c): loads of what  *)
(* is known and stores that are overwritten are removed, instructions are  *)
(* simplified, and of instructions that compute the same only one is kept. *)
(***************************************************************************)
EXTENDS Simplify

\* simplify_memops.  Nothing asks whether a symbol is volatile.
Loads(h, b) == SelectSeq(h.insns[b], LAMBDA i : h.insn[i].bb = b /\ h.insn[i].op = "load")

simplify_loads(h, b) ==
    FoldRight(LAMBDA id, k : find_dominating_stores(k, h.insn[id].sym, id).h, Loads(h, b), h)

\* The stores of b to the same symbol that store id overwrites, back to what
\* may read them.
kill_dominated_stores_mem(h, b) ==
    LET one(id, k) ==
            LET s == k.insns[b]
                sym == k.insn[id].sym
                n == SelectInSeq(s, LAMBDA i : i = id)
                ends == {j \in 1 .. n - 1 : /\ k.insn[s[j]].bb = b
                                            /\ \/ dominates(k, sym, s[j]) = "maybe"
                                               \/ k.insn[s[j]].op = "load" /\ k.insn[s[j]].sym = sym}
                useless == {s[j] : j \in {j \in 1 .. n - 1 : /\ \A e \in ends : e < j
                                                            /\ k.insn[s[j]].op = "store"
                                                            /\ k.insn[s[j]].sym = sym}}
            IN  IF k.insn[id].op = "store" /\ k.insn[id].bb = b THEN KillStores(k, useless) ELSE k
    IN  FoldRight(one, h.insns[b], h)

simplify_memops(h) ==
    FoldRight(LAMBDA b, k : kill_dominated_stores_mem(k, b), h.bbs,
              FoldRight(LAMBDA b, k : simplify_loads(k, b), h.bbs, h))

-----------------------------------------------------------------------------
\* What an instruction computes: what it is hashed and compared by.
Key(h, id) ==
    LET i == h.insn[id]
        defs == SelectSeq(i.args, LAMBDA p : p # VOID)
    IN  <<i.op, IF i.op # "phi" THEN i.args
                ELSE [k \in DOMAIN defs |-> <<h.insn[defs[k].nr].args[1], h.insn[defs[k].nr].bb>>]>>

\* clean_up_insns of one block, whose list may grow at its end meanwhile: the
\* graph, and the instructions hashed with their keys at that time.
RECURSIVE clean_up_from(_, _, _)
clean_up_from(w, b, n) ==
    LET id == w.h.insns[b][n]
        s == simplify_instruction(w.h, id)
    IN  IF n > Len(w.h.insns[b]) THEN w
        ELSE clean_up_from(
                IF w.h.insn[id].bb # b THEN w
                ELSE [h |-> s, hashed |->
                         IF s.insn[id].op \notin {"set_eq", "set_ne", "sel", "phi"} THEN w.hashed
                         ELSE Append(w.hashed, [id |-> id, key |-> Key(s, id)])],
                b, n + 1)

clean_up_insns(h, b, hashed) == clean_up_from([h |-> h, hashed |-> hashed], b, 1)

IdsOf(table) == FoldLeft(LAMBDA s, e : Append(s, e.id), <<>>, table)

\* The lists of the hash table that hold more than one instruction.
Chains(hashed) ==
    {c \in {IdsOf(SelectSeq(hashed, LAMBDA e : e.key = key)) : key \in {e.key : e \in ToSet(hashed)}} :
        Len(c) > 1}

-----------------------------------------------------------------------------
\* cse_one_instruction: def is used instead.
cse_one_instruction(h, id, def) ==
    LET s == Killed(convert_instruction_target(h, id, Defines(h, def)), id)
    IN  [s EXCEPT !.insn[id].op = "nop",
                  !.insn[id].args = IF h.insn[id].op = "phi" THEN [k \in DOMAIN @ |-> VOID] ELSE @]

\* bb_dominates: every way back from b2 meets b1 before the entry.
bb_dominates(h, b1, b2) ==
    LET back(S) == S \cup UNION {ToSet(h.parents[b]) \ {b1} : b \in S}
        met[n \in Nat] == IF n = 0 THEN {b2} ELSE back(met[n - 1])
    IN  1 \notin met[Len(h.insns)]

\* trivial_common_parent, 0 if there is none
trivial_common_parent(h, b1, b2) ==
    IF Len(h.parents[b1]) = 1 /\ h.parents[b2] = h.parents[b1] THEN Head(h.parents[b1]) ELSE 0

\* The instruction that is kept, and the graph.
try_to_cse(h, i1, i2) ==
    LET b1 == h.insn[i1].bb
        b2 == h.insn[i2].bb
        place(i) == SelectInSeq(h.insns[b1], LAMBDA j : j = i)
        common == trivial_common_parent(h, b1, b2)
        s == cse_one_instruction(h, i2, i1)
    IN  IF IF b1 = b2 THEN place(i1) < place(i2) ELSE bb_dominates(h, b1, b2)
        THEN [h |-> s, last |-> i1]
        ELSE IF b1 = b2 \/ bb_dominates(h, b2, b1)
        THEN [h |-> cse_one_instruction(h, i1, i2), last |-> i2]
        ELSE IF common # 0
        THEN [h |-> BeforeLast([s EXCEPT !.insn[i1].bb = common,
                                         !.insns[b1] = RemoveFirst(@, i1)], common, i1),
              last |-> i1]
        ELSE [h |-> h, last |-> i1]

\* One list of the hash table: sort_instruction_list brings what is the same
\* together.
cse_chain(h, chain) ==
    LET left == SelectSeq(chain, LAMBDA i : h.insn[i].bb # 0)
        alike == {SelectSeq(left, LAMBDA j : Key(h, i) = Key(h, j)) : i \in ToSet(left)}
        one(w, id) == IF w.h.insn[id].bb = 0 THEN w
                      ELSE IF w.last = 0 \/ Key(w.h, w.last) # Key(w.h, id) THEN [w EXCEPT !.last = id]
                      ELSE try_to_cse(w.h, w.last, id)
    IN  FoldLeft(one, [h |-> h, last |-> 0], FlattenSeq(SetToSeq(alike))).h
=============================================================================
