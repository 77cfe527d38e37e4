------------------------------ MODULE MCPtrList ------------------------------
\* Two elements, which no action tells apart, in up to three blocks of two.
EXTENDS PtrList

AnyElement == Permutations(Ptrs)
=============================================================================
