------------------------------ MODULE Liveness ------------------------------
(***************************************************************************)
(* track_pseudo_liveness (liveness.c): which pseudos each block needs from *)
(* its parents and which it defines for its children, by sweeping over the *)
(* blocks until nothing changes.                                           *)
(***************************************************************************)
EXTENDS Memops

VARIABLE live   \* needs and defines of the blocks; how far the analysis is

Idle == [needs |-> <<>>, defines |-> <<>>, stage |-> "none", at |-> 0, changed |-> FALSE]

LiveTypeOK ==
    /\ live.stage \in {"none", "usage", "spread", "trim", "done"}
    /\ live.at \in 0 .. Len(ep.bbs) + 1
    /\ \A b \in DOMAIN live.needs : \A p \in live.needs[b] \cup live.defines[b] :
            p.kind \in {"reg", "arg"}

\* Mutant: constants are tracked.
TrackableConstant(p) == p.kind \in {"reg", "arg", "val"}

trackable_pseudo(p) == p.kind \in {"reg", "arg"}

\* insn_uses: not a need if it is defined by an instruction of the block.
Needed(h, b, p) ==
    trackable_pseudo(p) /\ (p.kind = "reg" => h.insn[p.nr].bb # b \/ h.insn[p.nr].op = "phi")

\* track_instruction_usage with insn_uses and insn_defines.  A phi-node is
\* defined where its phi-sources are.
Uses(h, b) ==
    {p \in UNION {ToSet(h.insn[i].args) : i \in {i \in ToSet(h.insns[b]) :
                        h.insn[i].bb = b /\ h.insn[i].op # "phi"}} : Needed(h, b, p)}

DefinesOf(h, b) ==
    {[kind |-> "reg", nr |-> i] : i \in {i \in ToSet(h.insns[b]) :
            h.insn[i].bb = b /\ h.insn[i].op \in {"load", "call", "set_eq", "set_ne", "sel"}}}

PhiDefines(h, i) ==
    {b \in Blocks(h) : \E p \in ToSet(h.insn[i].args) : p.kind = "phi" /\ h.insn[p.nr].bb = b}

track_bb_usage ==
    /\ live.stage = "usage"
    /\ LET b == ep.bbs[live.at]
           phis == {i \in ToSet(ep.insns[b]) : ep.insn[i].bb = b /\ ep.insn[i].op = "phi"}
           last == live.at = Len(ep.bbs)
       IN  live' = [live EXCEPT
              !.needs[b] = Uses(ep, b),
              !.defines = [c \in DOMAIN @ |->
                  @[c] \cup (IF c = b THEN DefinesOf(ep, b) ELSE {})
                       \cup {[kind |-> "reg", nr |-> i] : i \in {i \in phis : c \in PhiDefines(ep, i)}}],
              !.stage = IF last THEN "spread" ELSE @,
              !.at = IF last THEN @ ELSE @ + 1]

\* track_bb_liveness of one block, the last block first.
track_bb_liveness ==
    /\ live.stage = "spread"
    /\ live.at > 0
    /\ LET b == ep.bbs[live.at]
           more == [c \in Blocks(ep) |-> IF Contains(ep.parents[b], c)
                                         THEN live.needs[b] \ live.defines[c] ELSE {}]
       IN  live' = [live EXCEPT
              !.needs = [c \in DOMAIN @ |-> @[c] \cup more[c]],
              !.changed = @ \/ \E c \in Blocks(ep) : ~(more[c] \subseteq live.needs[c]),
              !.at = @ - 1]

\* Mutant: one sweep is taken to be enough.
SweepOnce ==
    /\ live.stage = "spread"
    /\ live.at = 0
    /\ live' = [live EXCEPT !.stage = "trim", !.at = 1]

\* The end of a sweep.
sweep_again ==
    /\ live.stage = "spread"
    /\ live.at = 0
    /\ live' = IF live.changed THEN [live EXCEPT !.changed = FALSE, !.at = Len(ep.bbs)]
               ELSE [live EXCEPT !.stage = "trim", !.at = 1]

\* A definition no child needs is only used in the block.
remove_internal_defines ==
    /\ live.stage = "trim"
    /\ LET b == ep.bbs[live.at]
           last == live.at = Len(ep.bbs)
       IN  live' = [live EXCEPT
              !.defines[b] = {p \in @ : \E c \in ToSet(ep.children[b]) : p \in live.needs[c]},
              !.stage = IF last THEN "done" ELSE @,
              !.at = IF last THEN @ ELSE @ + 1]

start_liveness ==
    live' = [needs |-> [b \in Blocks(ep) |-> {}], defines |-> [b \in Blocks(ep) |-> {}],
             stage |-> "usage", at |-> 1, changed |-> FALSE]

LivenessNext ==
    \/ track_bb_usage \/ track_bb_liveness \/ sweep_again \/ remove_internal_defines
=============================================================================
