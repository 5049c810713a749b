SPECIFICATION Spec
CONSTANTS
    c1 = c1
    c2 = c2
    Closers = {c1, c2}
    JobObjects = TRUE
INVARIANT NoChildAfterCrash
CHECK_DEADLOCK FALSE
