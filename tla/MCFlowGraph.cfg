CONSTANTS
    e = e
    a = a
    b = b
    r = r
    BB = {e, a, b, r}
    entry = e
    Order <- MCOrder
    Programs <- MCPrograms
SPECIFICATION FairSpec
INVARIANT TypeOK
INVARIANT EdgesAgree
PROPERTY PathsKept
PROPERTY PackingEnds
CHECK_DEADLOCK FALSE
