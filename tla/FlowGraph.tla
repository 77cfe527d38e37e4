------------------------------ MODULE FlowGraph ------------------------------
(***************************************************************************)
(* The control flow graph of a function (flow.c, linearize.c, simplify.c)  *)
(* while linearize_fn optimizes it.  An edge is kept in three places: as a *)
(* target of the branch that ends the source, in the children of the       *)
(* source and in the parents of the target; every edit has to change all   *)
(* of them, some of them lists that are being walked.                      *)
(* Instructions other than the terminator are abstracted to what the edits *)
(* ask of them: are there any, and have they side effects.                 *)
(***************************************************************************)
EXTENDS Naturals, FiniteSets, SequencesExt

CONSTANTS
    BB,        \* basic blocks
    entry,     \* the block of the OP_ENTRY instruction
    Order,     \* ep->bbs as linearized, entry first
    Programs   \* how the blocks may end and what they may hold, as linearized

\* What a branch depends on: the register "c", its negation (c == 0), another
\* register (one that no other block branches on), or a constant.
Conds == {"none", "c", "notc", "other", "true", "false"}

Term == [op: {"none", "br", "switch", "computedgoto", "ret"}, to: Seq(BB), cond: Conds]
NoTerm == [op |-> "none", to |-> <<>>, cond |-> "none"]
Goto(b) == [op |-> "br", to |-> <<b>>, cond |-> "none"]

\* add_goto and add_branch end a block with a branch to one target, or on a condition.
Formed(t) ==
    /\ t.op = "br" => Len(t.to) = IF t.cond = "none" THEN 1 ELSE 2
    /\ t.op \in {"none", "ret"} => t.to = <<>>

\* Where a path ends, or what happens on it for ever.
PathEnds == {"none", "br", "switch", "computedgoto", "ret", "forever"}

\* set_activeblock lists each block once, and Init has only those within reach.
\* No label, and no loop, starts in the block of the OP_ENTRY.
ASSUME FlowAssumption ==
    /\ entry \in BB /\ IsFiniteSet(BB)
    /\ Order \in Seq(BB) /\ Len(Order) > 0 /\ Order[1] = entry
    /\ \A b \in BB : \E i \in DOMAIN Order : Order[i] = b
    /\ \A i, j \in DOMAIN Order : Order[i] = Order[j] => i = j
    /\ BB \cap PathEnds = {}
    /\ \A p \in Programs : /\ p.term \in [BB -> Term] /\ \A b \in BB : Formed(p.term[b])
                           /\ \A b \in BB : entry \notin ToSet(p.term[b].to)
                           /\ p.body \in [BB -> {"empty", "pure", "effect"}]

VARIABLES
    g,        \* the graph
    phase,    \* where linearize_fn is: "cse", "pack", "flow" or "done"
    at,       \* position in ep->bbs of the loop of that phase
    changed   \* what simplify_flow will return

vars == <<g, phase, at, changed>>

Graph == [bbs: Seq(BB),
          children: [BB -> Seq(BB)],
          parents: [BB -> Seq(BB)],
          term: [BB -> Term],
          pure: [BB -> BOOLEAN],       \* instructions without side effects
          effects: [BB -> Seq(BB)],    \* side effects, named by the blocks they were in
          repeat: BOOLEAN,             \* REPEAT_CSE in repeat_phase
          asserts: BOOLEAN]            \* no assertion has failed

TypeOK ==
    /\ g \in Graph /\ \A b \in BB : Formed(g.term[b])
    /\ phase \in {"cse", "pack", "flow", "done"}
    /\ at \in 1 .. Len(g.bbs) + 1
    /\ changed \in BOOLEAN

Count(s, x) == Cardinality({i \in DOMAIN s : s[i] = x})

\* A loop over s: what body makes of the result so far and the next element.
\* (A fold to the left; the set has TLC evaluate every step once.)
Loop(body(_, _), start, s) ==
    LET after[n \in 0 .. Len(s)] ==
            IF n = 0 THEN start ELSE CHOOSE r \in {body(k, s[n]) : k \in {after[n - 1]}} : TRUE
    IN  after[Len(s)]

\* What the edges (pairs) lead to from S, in any number of steps.
From(edges, S) ==
    Loop(LAMBDA T, i : T \cup {q[2] : q \in {q \in edges : q[1] \in T}},
             S, [i \in 1 .. Cardinality(BB) |-> i])

\* mark_bb_reachable: the entry, the children of what is marked, and no more.
Reachable(h) ==
    {b \in BB : \A S \in SUBSET BB :
        entry \in S /\ (\A c \in S : ToSet(h.children[c]) \subseteq S) => b \in S}

\* s without the elements of D, whatever their number.
Without(s, D) == Loop(LAMBDA kept, x : IF x \in D THEN kept ELSE Append(kept, x), <<>>, s)

\* add_goto, add_branch and linearize_switch made both lists with the branch.
Linearized(term, body) ==
    [bbs |-> Order,
     children |-> [b \in BB |-> term[b].to],
     parents |-> [b \in BB |->
        Loop(LAMBDA ps, p : ps \o [i \in 1 .. Count(term[p].to, b) |-> p], <<>>, Order)],
     term |-> term,
     pure |-> [b \in BB |-> b = entry \/ body[b] = "pure"],
     effects |-> [b \in BB |-> IF b = entry \/ body[b] = "effect" THEN <<b>> ELSE <<>>],
     repeat |-> FALSE,
     asserts |-> TRUE]

\* As kill_unreachable_bbs and simplify_symbol_usage leave it.
Init ==
    /\ \E p \in Programs : g = Linearized(p.term, p.body)
    /\ Reachable(g) = BB
    /\ phase = "cse"
    /\ at = 1
    /\ changed = FALSE

-----------------------------------------------------------------------------
\* Edits of the graph.

Asserted(h, p) == [h EXCEPT !.asserts = @ /\ p]

\* remove_bb_from_list(.., 1) fails its assertion when there is nothing to
\* remove, and so does replace_bb_in_list(.., 1).
RemoveParent1(h, b, p) ==
    Asserted([h EXCEPT !.parents[b] = RemoveFirst(@, p)], Contains(h.parents[b], p))

ReplaceChild1(h, b, old, new) ==
    LET s == h.children[b]
    IN  IF Contains(s, old)
        THEN [h EXCEPT !.children[b] = ReplaceAt(s, SelectInSeq(s, LAMBDA c : c = old), new)]
        ELSE Asserted(h, FALSE)

\* Mutant: the source is not added to the parents of its new child.
NewChildUnaware(h, b, i, old, new) ==
    IF h.term[b].to[i] # old \/ new = old THEN h
    ELSE LET s == RemoveParent1(ReplaceChild1(h, b, old, new), old, b)
         IN  [s EXCEPT !.term[b].to[i] = new, !.repeat = TRUE]

\* Target i of the branch of b.
rewrite_branch(h, b, i, old, new) ==
    IF h.term[b].to[i] # old \/ new = old THEN h
    ELSE LET s == RemoveParent1(ReplaceChild1(h, b, old, new), old, b)
         IN  [s EXCEPT !.term[b].to[i] = new, !.parents[new] = Append(@, b), !.repeat = TRUE]

rewrite_branches(h, b, old, new) ==
    Loop(LAMBDA k, i : rewrite_branch(k, b, i, old, new), h,
             [i \in DOMAIN h.term[b].to |-> i])

\* First out of the parents of its children, then (a child no more of itself)
\* out of the children of its parents.  Killing a branch sets REPEAT_CSE.
kill_bb(h, b) ==
    LET k == [h EXCEPT !.parents = [c \in BB |-> IF Contains(h.children[b], c)
                                                 THEN Without(@[c], {b}) ELSE @[c]],
                       !.children[b] = <<>>,
                       !.term[b] = NoTerm, !.pure[b] = FALSE, !.effects[b] = <<>>,
                       !.repeat = @ \/ h.term[b].op = "br"]
    IN  [k EXCEPT !.children = [p \in BB |-> IF Contains(k.parents[b], p)
                                             THEN Without(@[p], {b}) ELSE @[p]],
                  !.parents[b] = <<>>]

\* A child without parents is killed, though not what that leaves without any.
remove_parent(h, child, parent) ==
    LET s == RemoveParent1(h, child, parent)
    IN  IF s.parents[child] = <<>> THEN kill_bb(s, child) ELSE s

\* The branch of b becomes one to target: all children but the first that is
\* target are deleted, while their list is walked.
insert_branch(h, b, target) ==
    LET walk(s, child) ==
            IF child = target /\ ~s.found THEN [s EXCEPT !.found = TRUE]
            ELSE [s EXCEPT !.h = remove_parent([s.h EXCEPT !.children[b] =
                                                    RemoveFirst(@, child)], child, b)]
    IN  Loop(walk, [h |-> [h EXCEPT !.term[b] = Goto(target)], found |-> FALSE],
                 h.children[b]).h

-----------------------------------------------------------------------------
\* cleanup_and_cse: any instructions may be found to be simpler or dead, in
\* any order; the block has not been killed, though it may be out of reach.

Cse ==
    /\ phase = "cse" /\ g.asserts
    /\ UNCHANGED <<phase, at, changed>>

Cond(b) == g.term[b].cond
TwoWay(b) == g.term[b].op = "br" /\ Len(g.term[b].to) = 2

\* The value of a condition becomes known (constant folding).
CondIsConstant(b) ==
    /\ Cse
    /\ Cond(b) = "other"
    /\ \E v \in {"true", "false"} : g' = [g EXCEPT !.term[b].cond = v]

\* The last of its instructions without side effects is dead.
BodyIsDead(b) ==
    /\ Cse
    /\ b # entry /\ g.pure[b]
    /\ g' = [g EXCEPT !.pure[b] = FALSE]

Chosen(t) == t.to[IF t.cond = "true" THEN 1 ELSE 2]

simplify_constant_branch(b) ==
    /\ Cse
    /\ TwoWay(b) /\ Cond(b) \in {"true", "false"}
    /\ g' = insert_branch(g, b, Chosen(g.term[b]))

simplify_same_target(b) ==
    /\ Cse
    /\ TwoWay(b) /\ Cond(b) \notin {"true", "false"}
    /\ LET t == g.term[b].to[1]
       IN  /\ g.term[b].to[2] = t
           /\ g' = [RemoveParent1(g, t, b) EXCEPT !.children[b] = RemoveFirst(@, t),
                                                  !.term[b] = Goto(t)]

\* Mutant: the targets stay as they are.
NegatedTargetsStay(b) ==
    /\ Cse
    /\ TwoWay(b) /\ Cond(b) = "notc" /\ g.term[b].to[1] # g.term[b].to[2]
    /\ g' = [g EXCEPT !.term[b].cond = "c"]

\* A branch on c == 0 becomes the opposite branch on c.
simplify_cond_branch(b) ==
    /\ Cse
    /\ TwoWay(b) /\ Cond(b) = "notc" /\ g.term[b].to[1] # g.term[b].to[2]
    /\ g' = [g EXCEPT !.term[b].cond = "c", !.term[b].to = <<@[2], @[1]>>]

\* Which case it is depends on the constant.
simplify_switch(b) ==
    /\ Cse
    /\ g.term[b].op = "switch" /\ Cond(b) \in {"true", "false"}
    /\ \E t \in ToSet(g.term[b].to) : g' = insert_branch(g, b, t)

\* It starts again (REPEAT_CSE) until no instruction changes.
Simplifies(b) ==
    \/ g.term[b].op = "switch" /\ Cond(b) \in {"true", "false"}
    \/ TwoWay(b) /\ (Cond(b) \notin {"other", "c"} \/ g.term[b].to[1] = g.term[b].to[2])

\* Mutant: repeat_phase is not reset.
RepeatPhaseStays ==
    /\ phase = "cse" /\ g.asserts
    /\ \A b \in ToSet(g.bbs) : ~Simplifies(b)
    /\ phase' = "pack"
    /\ UNCHANGED <<g, at, changed>>

EndOfCse ==
    /\ phase = "cse" /\ g.asserts
    /\ \A b \in ToSet(g.bbs) : ~Simplifies(b)
    /\ phase' = "pack"
    /\ g' = [g EXCEPT !.repeat = FALSE]
    /\ UNCHANGED <<at, changed>>

-----------------------------------------------------------------------------
\* pack_basic_blocks

JustABranch(h, b) == h.term[b].op = "br" /\ ~h.pure[b] /\ h.effects[b] = <<>>

\* Every branch to b goes to target instead; not all can be rewritten.
rewrite_parents(h, b, target) ==
    Loop(LAMBDA s, p :
                IF ~s.done \/ ~Contains(s.h.parents[b], p) THEN s
                ELSE IF b = target \/ s.h.term[p].op \notin {"br", "switch"}
                THEN [s EXCEPT !.done = FALSE]
                ELSE LET k == rewrite_branches(s.h, p, b, target)
                     IN  [s EXCEPT !.h = Asserted(k, k # s.h)],
             [h |-> h, done |-> TRUE], h.parents[b])

\* The only parent of b, when b is the only child of that.
MergesInto(h, b, p) ==
    /\ p # b
    /\ ToSet(h.parents[b]) = {p}
    /\ ToSet(h.children[p]) = {b}

merge(h, b, p) ==
    [h EXCEPT !.parents = [c \in BB |-> IF c = b THEN <<>>
                                        ELSE IF Contains(h.children[b], c)
                                        THEN ReplaceAll(@[c], b, p) ELSE @[c]],
              !.children = [h.children EXCEPT ![p] = h.children[b], ![b] = <<>>],
              !.term = [h.term EXCEPT ![p] = h.term[b], ![b] = NoTerm],
              !.pure = [h.pure EXCEPT ![p] = h.pure[p] \/ h.pure[b], ![b] = FALSE],
              !.effects = [h.effects EXCEPT ![p] = h.effects[p] \o h.effects[b], ![b] = <<>>],
              !.repeat = TRUE]

pack_one(h, b) ==
    LET t == h.term[b]
        known == Len(t.to) = 1 \/ t.cond \in {"true", "false"}
        k == rewrite_parents(h, b, IF Len(t.to) = 1 THEN t.to[1] ELSE Chosen(t))
        tried == IF JustABranch(h, b) /\ known THEN k ELSE [h |-> h, done |-> FALSE]
    IN  IF tried.done THEN kill_bb(tried.h, b)
        ELSE IF \E p \in BB : MergesInto(tried.h, b, p)
        THEN merge(tried.h, b, CHOOSE p \in BB : MergesInto(tried.h, b, p))
        ELSE tried.h

pack_basic_blocks ==
    /\ phase = "pack" /\ g.asserts
    /\ at <= Len(g.bbs)
    /\ g' = pack_one(g, g.bbs[at])
    /\ at' = at + 1
    /\ UNCHANGED <<phase, changed>>

\* Mutant: the next loop does not start with the first block.
NextPassGoesOn == g.asserts /\ at > Len(g.bbs) /\ at' = at /\ changed' = FALSE

EndOfPass == g.asserts /\ at > Len(g.bbs) /\ at' = 1 /\ changed' = FALSE

PackedSome ==
    /\ phase = "pack" /\ EndOfPass /\ g.repeat
    /\ phase' = "cse"
    /\ UNCHANGED g

\* Nothing to pack: kill_unreachable_bbs, vrfy_flow, then simplify_flow.
kill_unreachable_bbs(h) ==
    LET dead == BB \ Reachable(h)
    IN  [Loop(LAMBDA k, b : IF b \in dead THEN kill_bb(k, b) ELSE k, h, h.bbs)
            EXCEPT !.bbs = Without(@, dead)]

vrfy_flow(h) ==
    /\ Contains(h.bbs, entry)
    /\ \A b \in ToSet(h.bbs) :
         /\ ToSet(h.term[b].to) \subseteq ToSet(h.children[b])
         /\ \A c \in ToSet(h.children[b]) : Contains(h.parents[c], b)
         /\ \A p \in ToSet(h.parents[b]) : Contains(h.children[p], b)
         /\ h.term[b].op = "none" => h.children[b] = <<>>

PackedAll ==
    /\ phase = "pack" /\ EndOfPass /\ ~g.repeat
    /\ phase' = "flow"
    /\ LET k == kill_unreachable_bbs(g)
       IN  g' = Asserted(k, vrfy_flow(k))

-----------------------------------------------------------------------------
\* simplify_flow

\* The phi node that b branches on may know which way it goes when it comes
\* from parent p: way[p], 0 when it does not (or the target needs what b
\* defines).
try_to_simplify_bb(b) ==
    /\ Cond(b) = "other" /\ g.pure[b] /\ g.effects[b] = <<>>
    /\ \E way \in [ToSet(g.parents[b]) -> 0..2] :
         g' = Loop(LAMBDA h, p :
                          IF way[p] = 0 \/ h.term[p].op # "br" \/ ~h.pure[p] THEN h
                          ELSE rewrite_branches(h, p, b, h.term[b].to[way[p]]),
                       g, g.parents[b])
    /\ g' # g

\* Its way i leads to another branch on the same condition.  (A block that
\* defines what the final target needs cannot be left out.)
simplify_branch_branch(h, b, i, needed) ==
    LET target == h.term[b].to[i]
        t == h.term[target]
        final == t.to[i]
    IN  IF h.term[b].cond # "c" \/ target = b \/ t.op # "br" \/ t.cond # "c" THEN h
        ELSE IF h.effects[target] = <<>> /\ ~(needed /\ h.pure[target])
        THEN rewrite_branch(h, b, i, target, final)
        ELSE IF Len(h.parents[target]) = 1 THEN insert_branch(h, target, final)
        ELSE h

\* The compiler chooses which way comes first.
simplify_both_ways(b) ==
    \E i \in 1..2, needed \in [1..2 -> BOOLEAN] :
        LET h == simplify_branch_branch(g, b, i, needed[i])
        IN  g' = simplify_branch_branch(h, b, 3 - i, needed[3 - i])

simplify_branch_nodes ==
    /\ phase = "flow" /\ g.asserts
    /\ at <= Len(g.bbs)
    /\ IF TwoWay(g.bbs[at])
       THEN try_to_simplify_bb(g.bbs[at]) \/ simplify_both_ways(g.bbs[at])
       ELSE UNCHANGED g
    /\ at' = at + 1
    /\ changed' = (changed \/ g' # g)
    /\ UNCHANGED phase

EndOfFlow ==
    /\ phase = "flow" /\ EndOfPass
    /\ phase' = IF changed THEN "cse" ELSE "done"
    /\ UNCHANGED g

Next ==
    \/ \E b \in ToSet(g.bbs) :
         \/ CondIsConstant(b)
         \/ BodyIsDead(b)
         \/ simplify_constant_branch(b)
         \/ simplify_same_target(b)
         \/ simplify_cond_branch(b)
         \/ simplify_switch(b)
    \/ EndOfCse
    \/ pack_basic_blocks
    \/ PackedSome
    \/ PackedAll
    \/ simplify_branch_nodes
    \/ EndOfFlow

Spec == Init /\ [][Next]_vars
FairSpec == Spec /\ WF_vars(Next)

-----------------------------------------------------------------------------
\* Paths.  The side effects of a function, and in what order they may happen.

\* Where b may go when c has the value v.
Ways(h, b, v) ==
    LET t == h.term[b]
    IN  IF t.cond \in {"none", "other"} \/ t.op # "br" THEN ToSet(t.to)
        ELSE {t.to[IF t.cond = "true" \/ t.cond = IF v THEN "c" ELSE "notc" THEN 1 ELSE 2]}

Silent(h) == {b \in BB : h.effects[b] = <<>>}
Steps(h, v) == UNION {{<<b, c>> : c \in Ways(h, b, v)} : b \in Silent(h)}

\* What may happen next after b, from where met is met without a side effect: a
\* side effect, the end of the function (or of the path, in a block that was
\* killed), or nothing for ever.
Next_effects(h, b, met, steps) ==
    {h.effects[x][1] : x \in met \ Silent(h)}
    \cup {h.term[x].op : x \in {y \in {b} \cup (met \cap Silent(h)) : h.term[y].to = <<>>}}
    \cup {"forever" : x \in {y \in met :
                                   y \in From(steps, {q[2] : q \in {q \in steps : q[1] = y}})}}

\* Pairs of a side effect and what may happen next.
After(h, v) ==
    UNION {LET s == h.effects[b]
           IN  {<<s[i], s[i + 1]>> : i \in 1 .. Len(s) - 1}
               \cup UNION {{<<s[Len(s)], n>> : n \in Next_effects(h, b, met, steps)} :
                              met \in {From(steps, Ways(h, b, v))}} :
           b \in BB \ Silent(h), steps \in {Steps(h, v)}}

\* No edit lets the function do what it could not do before: side effects
\* happen in an order that they could always happen in, it returns only where
\* it could return, and it never runs into a block that was killed.  Ways may
\* be lost, and are, when a condition is found to be constant.
PathsKept ==
    [][\A v \in BOOLEAN : \A after \in {After(g', v)} : \A happen \in {From(after, {entry})} :
         /\ {q \in after : q[1] \in happen} \subseteq After(g, v)
         /\ \A s \in happen \cap BB : \E q \in after : q[1] = s]_<<g.term, g.effects>>

\* An edge is as often among the children of its source and the parents of its
\* target as it is a target of the branch.
EdgesAgree ==
    g.asserts =>
        \A b, c \in BB :
            /\ Count(g.children[b], c) = Count(g.term[b].to, c)
            /\ Count(g.parents[c], b) = Count(g.term[b].to, c)

\* The inner loop of linearize_fn, cleanup_and_cse and pack_basic_blocks as long
\* as REPEAT_CSE is set, ends: packing never undoes what it did.
PackingEnds == (phase = "cse") ~> (phase = "flow" \/ ~g.asserts)

\* linearize_fn ends: "start all over again" (linearize.c) happens only finitely
\* often.  A loop in which the jump threading of try_to_simplify_bb and that of
\* simplify_branch_branch undo each other refutes it.
Terminates == <>(phase = "done" \/ ~g.asserts)

\* No assertion fails: remove_bb_from_list and replace_bb_in_list find what
\* they look for, rewriting the branch of a parent changes it, and vrfy_flow
\* finds every edge in both lists.
NoAssertionFails == g.asserts
=============================================================================
