CONSTANTS
    e = e
    a = a
    b = b
    r = r
    BB = {e, a, b, r}
    entry = e
    Order <- MCOrder
    Programs <- MCPrograms
SPECIFICATION FairSpec
PROPERTY Terminates
CHECK_DEADLOCK FALSE
