---------------------------- MODULE MCPreProcess ----------------------------
\* One macro, and one header that may include itself.
EXTENDS PreProcess

CONSTANT g

MCMacros == {g}
\* A condition that never holds, and one that asks for g.
MCConds == {{}, {{g}}}
\* Groups open in the source file, in the header, in the header included by itself.
MCMaxNest == <<1, 3, 1>>
=============================================================================
