SPECIFICATION FairSpec
CONSTANTS
    c1 = c1
    c2 = c2
    Closers = {c1, c2}
    JobObjects = TRUE
INVARIANTS TunnelInv RunsManaged
PROPERTIES ImplementsHandle CallsReturn
CHECK_DEADLOCK FALSE
