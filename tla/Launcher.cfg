SPECIFICATION FairSpec
CONSTANTS
    old = old
    a1 = a1
    a2 = a2
    l1 = l1
    none = none
    Procs = {old, a1, a2}
    Old = {old}
    Launchers = {l1}
    NoAgent = none
    Windows = FALSE
    MaxConfigs = 2
INVARIANTS OnlyTheSaved LauncherInv LoneAgentOwnsFile
PROPERTY LauncherEnds
CHECK_DEADLOCK FALSE
