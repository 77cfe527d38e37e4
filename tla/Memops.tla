------------------------------- MODULE Memops -------------------------------
(***************************************************************************)
(* simplify_symbol_usage (flow.c): the loads of a symbol become the pseudos *)
(* that its stores have left there, and stores nobody reads are dropped.   *)
(* Every symbol is a scalar, so two accesses to it are the same memop.     *)
(***************************************************************************)
EXTENDS Linearize

CONSTANTS
    Nonlocal,      \* the symbols with external visibility (MOD_NONLOCAL, MOD_STATIC)
    Addressable,   \* those whose address is taken (MOD_ADDRESSABLE)
    Volatile

Local(sym) == sym \notin Nonlocal \cup Addressable

Ids(h) == DOMAIN h.insn
Blocks(h) == DOMAIN h.insns

\* The instructions of a block that have not been killed.
Live(h, b) == SelectSeq(h.insns[b], LAMBDA i : h.insn[i].bb = b)

\* The instructions that use the pseudo of a symbol, in the order of their use.
Users(h, sym) == SelectSeq([i \in Ids(h) |-> i], LAMBDA i : h.insn[i].sym = sym)

-----------------------------------------------------------------------------
\* Uses.  The use list of a pseudo is where it is an operand, in dead
\* instructions too.

\* The pseudo an instruction defines.
Defines(h, id) == [kind |-> IF h.insn[id].op = "phisrc" THEN "phi" ELSE "reg", nr |-> id]

\* Mutant: users in other blocks do not count.
UsedInItsBlock(h, p) ==
    \E i \in Ids(h) : h.insn[i].bb = h.insn[p.nr].bb /\ Contains(h.insn[i].args, p)

Used(h, p) == \/ p.kind = "phi" /\ p.nr \in h.held
              \/ \E i \in Ids(h) : Contains(h.insn[i].args, p)

\* The sequence s with F(i) in the place of s[i].
Each(s, F(_)) == SubSeq([i \in DOMAIN s |-> F(i)], 1, Len(s))

\* convert_instruction_target: whoever uses the target uses src now.
convert_instruction_target(h, id, src) ==
    [h EXCEPT !.insn =
        Each(@, LAMBDA i : [h.insn[i] EXCEPT !.args = ReplaceAll(@, Defines(h, id), src)])]

\* The slots from the first on, each with kill_use: what nobody uses any more is
\* killed with its own uses, unless it has side effects.
RECURSIVE kill_uses(_, _, _)
kill_uses(h, id, slots) ==
    LET p == h.insn[id].args[Head(slots)]
        s == [h EXCEPT !.insn[id].args[Head(slots)] = VOID]
        def == s.insn[p.nr]
        dead == [s EXCEPT !.insn[p.nr].bb = 0, !.repeat = TRUE]
    IN  IF slots = <<>> THEN h
        ELSE kill_uses(IF p.kind # "reg" \/ Used(s, p) \/ def.bb = 0 THEN s
                       ELSE IF def.op \in {"set_eq", "set_ne"} THEN kill_uses(dead, p.nr, <<1, 2>>)
                       ELSE IF def.op = "phi" THEN dead
                       ELSE s, id, Tail(slots))

kill_instruction(h, id) ==
    LET i == h.insn[id]
        dead == [h EXCEPT !.insn[id].bb = 0, !.repeat = TRUE]
    IN  IF i.bb = 0 THEN h
        ELSE IF i.op \in {"set_eq", "set_ne", "br"}
        THEN kill_uses(dead, id, [k \in DOMAIN i.args |-> k])
        ELSE IF i.op = "phi" THEN dead
        ELSE h

-----------------------------------------------------------------------------
\* kill_unreachable_bbs

\* mark_bb_reachable
Reached(h) ==
    LET next(S) == S \cup UNION {ToSet(h.children[b]) : b \in S}
        after[n \in Nat] == IF n = 0 THEN {1} ELSE next(after[n - 1])
    IN  after[Len(h.insns)]

\* An instruction in no block has been killed.
kill_bb(h, b) ==
    LET kill(k, id) ==
            [convert_instruction_target(kill_instruction(k, id), id, VOID) EXCEPT !.insn[id].bb = 0]
    IN  [FoldLeft(kill, h, Live(h, b)) EXCEPT
            !.insns[b] = <<>>,
            !.parents = Each(@, LAMBDA c : IF c = b THEN <<>> ELSE Remove(h.parents[c], b)),
            !.children = Each(@, LAMBDA p : IF p = b THEN <<>> ELSE Remove(h.children[p], b))]

kill_unreachable_bbs(h) ==
    LET dead(b) == b \notin Reached(h)
    IN  [FoldLeft(kill_bb, h, SelectSeq(h.bbs, dead))
            EXCEPT !.bbs = SelectSeq(@, LAMBDA b : ~dead(b))]

-----------------------------------------------------------------------------
\* Mutant: calls are taken to leave variables alone.
DominatesPastCalls(h, sym, i) ==
    IF h.insn[i].op \in {"load", "store"} /\ h.insn[i].sym = sym THEN "yes" ELSE "no"

\* dominates: does instruction i decide what an access to sym finds?
\* "maybe" ends the search.
dominates(h, sym, i) ==
    LET op == h.insn[i].op
    IN  IF op \in {"call", "entry"} THEN (IF Local(sym) THEN "no" ELSE "maybe")
        ELSE IF op \in {"load", "store"} /\ h.insn[i].sym = sym THEN "yes" ELSE "no"

\* What a store stores and a load loads.
target(h, i) == IF h.insn[i].op = "store" THEN h.insn[i].args[1] ELSE [kind |-> "reg", nr |-> i]

convert_load_instruction(h, id, src) ==
    LET s == convert_instruction_target(h, id, src)
    IN  [s EXCEPT !.insn[id].op = "lnop", !.insn[id].bb = 0]

kill_store(h, id) ==
    kill_uses([h EXCEPT !.insn[id].op = "snop", !.insn[id].bb = 0], id, <<1>>)

\* The last instruction of a block that decides, looking back from the end to
\* stop, or 0; a load counts only if loads.
LastDecisive(h, sym, b, stop, loads) ==
    LET from == SelectInSeq(h.insns[b], LAMBDA i : i = stop)
        decisive == {k \in from + 1 .. Len(h.insns[b]) :
                        LET i == h.insns[b][k]
                        IN  /\ dominates(h, sym, i) # "no"
                            /\ h.insn[i].op = "load" => loads}
    IN  IF decisive = {} THEN 0
        ELSE h.insns[b][CHOOSE k \in decisive : \A j \in decisive : j <= k]

\* A phi-source goes before the branch that ends the block.
PhiAtEnd(h, b, src) ==
    LET id == Len(h.insn) + 1
    IN  [h EXCEPT !.insn = Append(@, [Op("phisrc", <<src>>, None) EXCEPT !.bb = b]),
                  !.insns[b] = Front(@) \o <<id, Last(@)>>]

\* find_dominating_parents for the load id: w.h is the graph so far, w.seen the
\* blocks of this generation, w.phis the phi-sources, w.ok what it returns.
RECURSIVE find_dominating_parents(_, _, _, _, _)
find_dominating_parents(w, sym, id, b, loads) ==
    LET single == loads /\ Len(w.h.parents[b]) <= 1
        visit(v, p) ==
            LET one == LastDecisive(v.h, sym, p, id, single)
            IN  IF ~v.ok THEN v
                ELSE IF one # 0
                THEN IF dominates(v.h, sym, one) = "maybe" THEN [v EXCEPT !.ok = FALSE]
                     ELSE [v EXCEPT !.h = PhiAtEnd(v.h, p, target(v.h, one)),
                                    !.phis = Append(@, [kind |-> "phi", nr |-> Len(v.h.insn) + 1])]
                ELSE IF p \in v.seen THEN v
                ELSE find_dominating_parents([v EXCEPT !.seen = @ \cup {p}], sym, id, p, single)
    IN  IF w.h.parents[b] = <<>> THEN [w EXCEPT !.ok = Local(sym)]
        ELSE FoldLeft(visit, w, w.h.parents[b])

\* The same pseudo from everywhere replaces the load, else the load becomes a
\* phi-node.
rewrite_load_instruction(h, id, phis) ==
    LET srcs == {h.insn[p.nr].args[1] : p \in ToSet(phis)}
        dead == {p.nr : p \in ToSet(phis)}
    IN  IF Cardinality(srcs) = 1
        THEN convert_load_instruction(
                [h EXCEPT !.insn = Each(@, LAMBDA i : IF i \in dead THEN [h.insn[i] EXCEPT !.bb = 0]
                                                      ELSE h.insn[i])],
                id, CHOOSE s \in srcs : TRUE)
        ELSE [h EXCEPT !.insn[id].op = "phi", !.insn[id].args = phis, !.insn[id].sym = None]

\* Returns the graph and whether the load is gone.  Of a search that fails the
\* phi-sources it has made stay, used by the list that is forgotten.
find_dominating_stores(h, sym, id) ==
    LET b == h.insn[id].bb
        before == {k \in DOMAIN h.insns[b] :
                      /\ k < SelectInSeq(h.insns[b], LAMBDA i : i = id)
                      /\ dominates(h, sym, h.insns[b][k]) # "no"}
        dom == h.insns[b][CHOOSE k \in before : \A j \in before : j <= k]
        w == find_dominating_parents([h |-> h, seen |-> {b}, phis |-> <<>>, ok |-> TRUE],
                                     sym, id, b, TRUE)
    IN  IF b = 0 THEN [h |-> [h EXCEPT !.insn[id].op = "lnop"], ok |-> TRUE]
        ELSE IF before # {}
        THEN IF dominates(h, sym, dom) = "maybe" THEN [h |-> h, ok |-> FALSE]
             ELSE [h |-> convert_load_instruction(h, id, target(h, dom)), ok |-> TRUE]
        ELSE IF ~w.ok THEN [h |-> [w.h EXCEPT !.held = @ \cup {p.nr : p \in ToSet(w.phis)}],
                            ok |-> FALSE]
        ELSE IF w.phis # <<>> THEN [h |-> rewrite_load_instruction(w.h, id, w.phis), ok |-> TRUE]
        ELSE [h |-> IF Local(sym) THEN convert_load_instruction(w.h, id, value_pseudo(0)) ELSE w.h,
              ok |-> Local(sym)]

-----------------------------------------------------------------------------
KillStores(h, ids) == FoldLeft(kill_store, h, SetToSeq(ids))

\* What stops a search for stores that are overwritten (kill_dominated_stores)
\* or never read (kill_dead_stores).
Ends(h, sym, why, i) ==
    \/ h.insn[i].op = "load" /\ h.insn[i].sym = sym
    \/ why = "dominated" /\ dominates(h, sym, i) = "maybe"
    \/ why = "dead" /\ h.insn[i].op = "call" /\ ~Local(sym)

\* Back from position n of block b, killing stores; at the start of a block to
\* its parents, unless one goes elsewhere too, which ends the walk (the parents
\* before that one have been walked).
RECURSIVE WalkBack(_, _, _, _, _)
WalkBack(w, sym, why, b, n) ==
    LET at(k) == w.h.insns[b][k]
        stops == {k \in 1 .. n : Ends(w.h, sym, why, at(k))}
        useless == {at(k) : k \in {k \in 1 .. n : /\ \A j \in stops : j < k
                                                /\ w.h.insn[at(k)].op = "store"
                                                /\ w.h.insn[at(k)].sym = sym}}
        visit(v, p) ==
            IF v.stop \/ ToSet(v.h.children[p]) # {b} THEN [v EXCEPT !.stop = TRUE]
            ELSE [WalkBack(v, sym, why, p, Len(v.h.insns[p])) EXCEPT !.stop = FALSE]
        k == [h |-> KillStores(w.h, useless), seen |-> w.seen \cup {b}, stop |-> FALSE]
    IN  IF b \in w.seen THEN w
        ELSE IF stops # {} THEN k ELSE FoldLeft(visit, k, w.h.parents[b])

Unseen(h) == [h |-> h, seen |-> {}, stop |-> FALSE]

\* An earlier call may have killed the store.
kill_dominated_stores(h, sym, id) ==
    LET b == h.insn[id].bb
    IN  IF h.insn[id].op # "store" THEN h
        ELSE IF b = 0 THEN kill_store(h, id)
        ELSE WalkBack(Unseen(h), sym, "dominated", b,
                      SelectInSeq(h.insns[b], LAMBDA i : i = id) - 1).h

kill_dead_stores(h, sym, b) ==
    WalkBack(Unseen(h), sym, "dead", b, Len(h.insns[b])).h

\* All loads, the last first; whether all are gone.
FindAll(h, sym) ==
    FoldRight(LAMBDA id, w : IF w.h.insn[id].op # "load" THEN w
                             ELSE LET f == find_dominating_stores(w.h, sym, id)
                                  IN  [h |-> f.h, all |-> w.all /\ f.ok],
              Users(h, sym), [h |-> h, all |-> TRUE])

StoresOf(h, sym) == SelectSeq(Users(h, sym), LAMBDA i : h.insn[i].op = "store")

\* A single store: all loads are what it stores.
SingleStore(h, sym) ==
    LET stores == StoresOf(h, sym)
        src == IF stores = <<>> THEN VOID ELSE h.insn[stores[1]].args[1]
        loads == SelectSeq(Users(h, sym), LAMBDA i : h.insn[i].op = "load")
        s == FoldLeft(LAMBDA k, id : convert_load_instruction(k, id, src), h, loads)
    IN  KillStores(s, ToSet(stores))

simplify_one_symbol(h, sym) ==
    LET w == FindAll(h, sym)
        dominated == FoldLeft(LAMBDA k, id : kill_dominated_stores(k, sym, id),
                              w.h, StoresOf(w.h, sym))
        exits == SelectSeq(h.bbs, LAMBDA b : h.children[b] = <<>>)
    IN  IF sym \in Volatile THEN h
        ELSE IF Local(sym) /\ Len(StoresOf(h, sym)) <= 1 THEN SingleStore(h, sym)
        ELSE IF w.all /\ Local(sym) THEN KillStores(w.h, ToSet(StoresOf(w.h, sym)))
        ELSE IF sym \in Nonlocal THEN dominated
        ELSE FoldLeft(LAMBDA k, b : kill_dead_stores(k, sym, b), dominated, exits)
=============================================================================
