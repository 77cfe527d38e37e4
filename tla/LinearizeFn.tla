---------------------------- MODULE LinearizeFn ----------------------------
(***************************************************************************)
(* linearize_fn: the tree of a function is linearized, its unreachable     *)
(* blocks are killed, its symbols are simplified and the liveness of its   *)
(* pseudos is tracked.  In between, the blocks may be executed in step     *)
(* with the tree, one call after the other.                                *)
(***************************************************************************)
EXTENDS Flow

CONSTANTS Values, Undef, MaxSilent

VARIABLES
    program,  \* the tree
    phase,    \* how far linearize_fn is
    at,       \* position in ep.accesses
    table,    \* the hash table of cleanup_and_cse
    run       \* the two executions

vars == <<lvars, live, program, phase, at, table, run>>

Global == Nonlocal \ Volatile
Visible == Global \cup Addressable
C == INSTANCE CFunction
B == INSTANCE BlockMachine

Init ==
    /\ LinearizeInit
    /\ program = Head(todo).s
    /\ live = Idle
    /\ phase = "linearize"
    /\ at = 0
    /\ table = {}
    /\ run = <<>>

From(p, q) == phase = p /\ phase' = q

linearize == phase = "linearize" /\ LinearizeNext /\ UNCHANGED <<live, program, phase, at, table, run>>

\* kill_unreachable_bbs before simplify_symbol_usage
linearized ==
    /\ From("linearize", "symbols") /\ todo = <<>>
    /\ ep' = kill_unreachable_bbs(ep)
    /\ at' = 1
    /\ UNCHANGED <<todo, vals, live, program, table, run>>

simplify_symbol_usage ==
    /\ phase = "symbols" /\ at <= Len(ep.accesses)
    /\ ep' = simplify_one_symbol(ep, ep.accesses[at])
    /\ at' = at + 1
    /\ UNCHANGED <<todo, vals, live, program, phase, table, run>>

Rest == <<todo, vals, live, program, at, run>>

start_cleanup ==
    /\ From("symbols", "clean") /\ at > Len(ep.accesses)
    /\ ep' = simplify_memops(ep)
    /\ UNCHANGED <<Rest, table>>

clean_up ==
    /\ From("clean", "cse")
    /\ LET w == FoldLeft(LAMBDA k, b : clean_up_insns(k.h, b, k.hashed),
                         [h |-> [ep EXCEPT !.repeat = FALSE], hashed |-> <<>>], ep.bbs)
       IN  ep' = w.h /\ table' = Chains(w.hashed)
    /\ UNCHANGED Rest

\* The order of the hash table is that of addresses.
cse ==
    /\ phase = "cse"
    /\ \E chain \in table : ep' = cse_chain(ep, chain) /\ table' = table \ {chain}
    /\ UNCHANGED <<Rest, phase>>

cse_again == From("cse", "clean") /\ table = {} /\ ep.repeat /\ UNCHANGED <<ep, table, Rest>>

\* Packing that changes nothing is followed by kill_unreachable_bbs, vrfy_flow
\* and track_pseudo_liveness.
Packed == FoldLeft(pack_one, ep, ep.bbs)

pack_again ==
    /\ From("cse", "clean") /\ table = {} /\ ~ep.repeat
    /\ LET s == Packed IN s.repeat /\ ep' = simplify_memops(s)
    /\ UNCHANGED <<Rest, table>>

packed ==
    /\ From("cse", "liveness") /\ table = {} /\ ~ep.repeat
    /\ LET s == Packed
           k == kill_unreachable_bbs(s)
       IN  ~s.repeat /\ ep' = Asserted(k, Verified(k))
    /\ start_liveness
    /\ UNCHANGED <<todo, vals, program, at, table, run>>

track_pseudo_liveness ==
    /\ phase = "liveness" /\ LivenessNext
    /\ UNCHANGED <<lvars, program, phase, at, table, run>>

Rethought(first) == simplify_branch_nodes([ep EXCEPT !.repeat = FALSE], first)

simplify_flow ==
    /\ From("liveness", "clean") /\ live.stage = "done"
    /\ \E first \in 1 .. 2 :
          LET s == Rethought(first) IN s # ep /\ ep' = simplify_memops(s)
    /\ live' = Idle
    /\ UNCHANGED <<todo, vals, program, at, table, run>>

finished ==
    /\ From("liveness", "done") /\ live.stage = "done"
    /\ \E first \in 1 .. 2 : Rethought(first) = ep
    /\ UNCHANGED <<ep, table, Rest>>

\* Either of these, or neither, is what follows.
add_deathnotes == From("done", "dead") /\ ep' = track_pseudo_death(ep) /\ UNCHANGED <<table, Rest>>
un_ssa == From("done", "unssa") /\ ep' = unssa(ep) /\ UNCHANGED <<table, Rest>>

-----------------------------------------------------------------------------
\* What the function may find in the variables.
Memories(h) == {m \in [Syms -> Values \cup {Undef}] :
                   \A s \in Syms : IF s \in Global /\ Contains(h.accesses, s)
                                   THEN m[s] # Undef ELSE m[s] = Undef}

AsPassed(mem, argv) == [s \in Syms |-> IF Contains(Params, s)
                                       THEN argv[SelectInSeq(Params, LAMBDA p : p = s)] ELSE mem[s]]

execute ==
    /\ phase \in {"symbols", "clean", "done", "dead", "unssa"}
    /\ phase = "symbols" => at = 1
    /\ phase = "clean" => at = Len(ep.accesses) + 1
    /\ \E argv \in [DOMAIN Params -> Values], mem \in Memories(ep) :
          run' = [tree |-> C!Run(C!Config(program, AsPassed(mem, argv))),
                  blocks |-> B!Go(ep, B!Entry(ep, argv, mem))]
    /\ phase' = "run"
    /\ UNCHANGED <<lvars, live, program, at, table>>

Asking == {run.tree.obs.at, run.blocks.obs.at} \subseteq {"call", "store"}

\* Both get the same answer; the variables that can be seen may change.
answer ==
    /\ phase = "run" /\ Asking
    /\ \E r \in Values,
          world \in {w \in [Visible -> Values \cup {Undef}] :
                        \A s \in Visible : \/ w[s] = run.tree.mem[s]
                                           \/ Contains(ep.accesses, s) /\ w[s] # Undef} :
          run' = [tree |-> C!Answered(run.tree, r, world),
                  blocks |-> B!GoOn(ep, run.blocks, r, world)]
    /\ UNCHANGED <<lvars, live, program, phase, at, table>>

Optimize ==
    \/ linearize \/ linearized \/ simplify_symbol_usage \/ start_cleanup \/ clean_up
    \/ cse \/ cse_again \/ pack_again \/ packed \/ track_pseudo_liveness \/ simplify_flow \/ finished

\* The executions are over.
over == phase = "run" /\ ~Asking /\ UNCHANGED vars

Next == Optimize \/ add_deathnotes \/ un_ssa \/ execute \/ answer \/ over

Spec == Init /\ [][Next]_vars

\* linearize_fn goes on until it is done: WF_vars(Next), written out with what
\* enables Next.
Busy == phase \in {"linearize", "symbols", "clean", "cse", "liveness"}
FairSpec == Spec /\ (<>[]~Busy \/ []<><<TRUE>>_vars)

-----------------------------------------------------------------------------
\* An entrypoint is what struct entrypoint can hold, and the analysis tracks
\* registers and arguments only.
FnTypeOK ==
    /\ TypeOK /\ LiveTypeOK
    /\ phase \in {"linearize", "symbols", "clean", "cse", "liveness", "done", "dead", "unssa", "run"}

\* Linearizing, simplifying and the passages to death notes and out of SSA form
\* keep the meaning: whatever the function is called with, its calls return and
\* do to the variables they see, the blocks make the same calls with the same
\* arguments, leave the same variables to be seen and return the same value as
\* the tree, at every point where linearize_fn could hand them over.
SameBehaviour == phase = "run" => C!Matches(run.tree.obs, run.blocks.obs)

\* No assertion of linearize.c, simplify.c and flow.c fails, vrfy_flow among
\* them, and no instruction is added where there is no block.
NoFault == ~ep.fault

InBlocks == UNION {ToSet(Live(ep, b)) : b \in ToSet(ep.bbs)}

Times(s, e) == Len(SelectSeq(s, LAMBDA f : f = e))

\* bb->children and bb->parents mirror each other, edge by edge, and are where
\* the branch that ends the block goes.
EdgesAgree ==
    phase # "linearize" =>
        \A b \in ToSet(ep.bbs) :
            /\ \A c \in Blocks(ep) : /\ Times(ep.children[b], c) = Times(ep.parents[c], b)
                                     /\ Contains(ep.children[b], c) => Contains(ep.bbs, c)
            /\ ep.insns[b] # <<>> => ToSet(ep.insn[Last(ep.insns[b])].to) = ToSet(ep.children[b])

\* What an instruction that is left uses is defined by one that is left: none of
\* kill_use, dead_insn, kill_bb and the like removes a definition too many.
UsesDefined ==
    phase # "linearize" =>
        \A i \in InBlocks : \A p \in ToSet(ep.insn[i].args) : p.kind = "reg" => p.nr \in InBlocks

\* The needs that track_pseudo_liveness ends with are the exact solution: p is
\* needed by the blocks from which a use of p is reached without passing a block
\* that defines it, and by no other.
Needing(p) ==
    LET defines(b) == p \in DefinesOf(ep, b) \/ (p.kind = "reg" /\ b \in PhiDefines(ep, p.nr))
        back(S) == S \cup {b \in Blocks(ep) : ~defines(b) /\ ToSet(ep.children[b]) \cap S # {}}
        step[n \in Nat] == IF n = 0 THEN {b \in ToSet(ep.bbs) : p \in Uses(ep, b)}
                           ELSE back(step[n - 1])
    IN  step[Len(ep.bbs)]
NeedsExact ==
    phase = "liveness" /\ live.stage = "done" =>
        \A p \in UNION {live.needs[b] \cup Uses(ep, b) : b \in Blocks(ep)} :
            {b \in Blocks(ep) : p \in live.needs[b]} = Needing(p)

\* The rounds of linearize_fn end: those of cleaning up until nothing is repeated,
\* of packing, of the sweeps for liveness and of simplify_flow's starting over.
Optimized == <>~Busy
=============================================================================
