SPECIFICATION FairSpec
CONSTANT MaxNested = 2
INVARIANTS ProcessInv IconGone
PROPERTIES ExitEnds IconPersists
CHECK_DEADLOCK FALSE
