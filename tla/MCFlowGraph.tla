----------------------------- MODULE MCFlowGraph -----------------------------
\* The block of the OP_ENTRY, two that may end and hold anything, and one that
\* returns.
EXTENDS FlowGraph

CONSTANTS e, a, b, r

MCOrder == <<e, a, b, r>>
Inner == {a, b, r}

Ret == [op |-> "ret", to |-> <<>>, cond |-> "none"]
Br(t, f, c) == [op |-> "br", to |-> <<t, f>>, cond |-> c]
Switch(x, y, z) == [op |-> "switch", to |-> <<x, y, z>>, cond |-> "other"]
Computed == [op |-> "computedgoto", to |-> <<a, b>>, cond |-> "none"]

EndsE == {Br(a, b, "c"), Br(a, r, "other")}
EndsA == {Goto(t) : t \in Inner} \cup {Switch(a, r, b)}
            \cup {Br(t, f, c) : t \in Inner, f \in Inner, c \in {"c", "other"}}
EndsB == {Goto(t) : t \in Inner} \cup {Switch(b, a, r), Computed}
            \cup {Br(t, f, "notc") : t \in Inner, f \in Inner}

MCPrograms ==
    {[term |-> (e :> x) @@ (a :> y) @@ (b :> z) @@ (r :> Ret),
      body |-> (e :> "pure") @@ (a :> s) @@ (b :> t) @@ (r :> "effect")] :
        x \in EndsE, y \in EndsA, z \in EndsB,
        s \in {"empty", "pure", "effect"}, t \in {"empty", "effect"}}
=============================================================================
