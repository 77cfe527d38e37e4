---------------------------- MODULE MCMacroExpand ----------------------------
\* Two macros, with bodies that call each other, themselves, and what follows.
EXTENDS MacroExpand

Tx(t) == [type |-> "text", text |-> t, argnum |-> 0]
A(n) == [type |-> "MACRO", text |-> ",", argnum |-> n]
Q(n) == [type |-> "QUOTED", text |-> ",", argnum |-> n]
S(n) == [type |-> "STR", text |-> ",", argnum |-> n]
Cat == [type |-> "CONCAT", text |-> ",", argnum |-> 0]
Comma == [type |-> "KLUDGE", text |-> ",", argnum |-> 0]

F == Tx("f")
G == Tx("g")
X == Tx("x")
LP == Tx("(")
RP == Tx(")")

MCTexts == {"f", "g", "x", "(", ")", ",", "string"}
MCPaste == [q \in {<<"x", "x">>, <<"x", "f">>} |-> IF q[2] = "x" THEN "f" ELSE "g"]

Object(b) == [call |-> FALSE, wanted |-> 0, vararg |-> FALSE, body |-> b]
Fn(n, v, b) == [call |-> TRUE, wanted |-> n, vararg |-> v, body |-> b]

\* f(a) and g, or g().
FBodies == {<<A(1)>>, <<A(1), F>>, <<G, LP, A(1)>>, <<F, LP, A(1), RP>>, <<G, A(1), RP>>,
            <<S(1), F, LP, G>>, <<X, Cat, Q(1)>>, <<Q(1), Cat, F>>}
GBodies == {<<F>>, <<F, LP, G>>, <<G, LP>>, <<RP, F>>}

Short == [f : {Fn(1, FALSE, b) : b \in FBodies},
          g : {Object(b) : b \in GBodies \cup {<<>>, <<X>>}} \cup {Fn(0, FALSE, b) : b \in GBodies}]

ShortSources == {<<m>> \o s : m \in {"f", "g"}, s \in [1..3 -> {"f", "g", "x", "(", ")"}]}
                    \cup {<<"f", "(", a, ")", "(", b, ")">> : a \in {"f", "g", "x"}, b \in {"f", "g", "x"}}

\* f(a, b...), with the comma of ,##b and ,##a##b.
VBodies == {<<G, LP, A(1), Comma, Cat, Q(2), RP>>, <<F, LP, S(2), Comma, Cat, Q(1), Cat, Q(2), RP>>,
            <<Q(2), Cat, Q(1), A(2), F>>}
Vararg == [f : {Fn(2, TRUE, b) : b \in VBodies}, g : {Fn(2, FALSE, <<A(2), F, LP, A(1)>>)}]
VSources == {<<"f", "(">> \o s : s \in [1..4 -> {"f", "x", ",", ")"}]}

MCPrograms == {[macros |-> m, source |-> s] : m \in Short, s \in ShortSources}
                \cup {[macros |-> m, source |-> s] : m \in Vararg, s \in VSources}
=============================================================================
