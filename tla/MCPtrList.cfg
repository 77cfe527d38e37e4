CONSTANTS
    Ptrs = {p, q}
    NoPtr = NoPtr
    Garbage = Garbage
    NR = 2
    NBlocks = 3
SYMMETRY AnyElement
SPECIFICATION Spec
INVARIANT TypeOK
INVARIANT LinksAgree
INVARIANT NoBlockLost
PROPERTY ImplementsPtrSeq
