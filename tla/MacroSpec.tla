------------------------------ MODULE MacroSpec ------------------------------
(***************************************************************************)
(* What #define and #undef promise, independent of symbols and scopes.     *)
(* A table says what each macro stands for and how strongly it was defined.*)
(* The table built before the first source file (predefined macros, -D,    *)
(* -include) is what every source file starts from.                        *)
(***************************************************************************)
EXTENDS Naturals

CONSTANTS Macros, Bodies, NoBody

VARIABLES
    meaning,  \* what each macro stands for now
    base,     \* ... and what it stands for when a source file starts
    started   \* has the first source file started?

vars == <<meaning, base, started>>

Strengths == 0..2
Undefined == [body |-> NoBody, attr |-> 0]
Meanings == [body: Bodies, attr: Strengths] \cup {Undefined}

Init ==
    /\ meaning = [m \in Macros |-> Undefined]
    /\ base = meaning
    /\ started = FALSE

Becomes(m, d) ==
    /\ meaning' = [meaning EXCEPT ![m] = d]
    /\ base' = IF started THEN base ELSE meaning'
    /\ UNCHANGED started

\* A weaker definition does not replace a stronger one; it is ignored.
Define(m, b, a) ==
    /\ meaning[m].attr <= a
    /\ Becomes(m, [body |-> b, attr |-> a])

Undef(m, a) ==
    /\ meaning[m].attr <= a
    /\ Becomes(m, Undefined)

NewFile == started' = TRUE /\ meaning' = base /\ UNCHANGED base

Next ==
    \/ \E m \in Macros, b \in Bodies, a \in Strengths : Define(m, b, a)
    \/ \E m \in Macros, a \in Strengths : Undef(m, a)
    \/ NewFile

Spec == Init /\ [][Next]_vars
=============================================================================
