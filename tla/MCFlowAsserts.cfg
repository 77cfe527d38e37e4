CONSTANTS
    e = e
    a = a
    b = b
    r = r
    BB = {e, a, b, r}
    entry = e
    Order <- MCOrder
    Programs <- MCPrograms
SPECIFICATION Spec
INVARIANT NoAssertionFails
CHECK_DEADLOCK FALSE
