CONSTANTS
    Elements <- MCElements
    Rank <- MCRank
    NR = 2
    Lists <- MCLists
SPECIFICATION FairSpec
INVARIANT SortTypeOK
INVARIANT BufferExact
INVARIANT RingWhole
INVARIANT SortedStably
PROPERTY Sorts
