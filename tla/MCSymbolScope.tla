---------------------------- MODULE MCSymbolScope ----------------------------
\* One identifier, used as a macro and as everything a program can declare.
EXTENDS SymbolScope

CONSTANT x

MCIdents == {x}
MCAttrs == {WEAK, NORMAL}
=============================================================================
