----------------------------- MODULE CondGroups -----------------------------
(***************************************************************************)
(* What #if / #elif / #else / #endif mean, independent of how sparse keeps *)
(* track of them.  The open groups of a file are a sequence, outermost     *)
(* first; of each one it is known whether its current branch is processed  *)
(* (active), whether a later branch may still be chosen (may) and whether  *)
(* its #else has been seen (els).                                          *)
(***************************************************************************)
EXTENDS Naturals, Sequences

Group == [active: BOOLEAN, may: BOOLEAN, els: BOOLEAN]

\* A line is processed iff the innermost group is; a group is only ever
\* active inside an active one, so the outer groups need no look.
Live(g) == g = <<>> \/ g[Len(g)].active

OpenGroup(g, v) ==
    Append(g, [active |-> Live(g) /\ v, may |-> Live(g) /\ ~v, els |-> FALSE])

\* An #elif after the #else is an error that ends the group's last branch.
ElifGroup(g, v) ==
    LET t == g[Len(g)]
    IN  [g EXCEPT ![Len(g)] = [active |-> t.may /\ v, may |-> t.may /\ ~v, els |-> t.els]]

ElseGroup(g) ==
    LET t == g[Len(g)]
    IN  [g EXCEPT ![Len(g)] = [active |-> t.may, may |-> FALSE, els |-> TRUE]]

CloseGroup(g) == SubSeq(g, 1, Len(g) - 1)
=============================================================================
