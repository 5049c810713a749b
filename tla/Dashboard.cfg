SPECIFICATION FairSpec
CONSTANTS
    N = 2
    Lifetime = 1
    MaxNow = 1
INVARIANTS DashboardInv FreshQR QRWorks ErrorShownOnce
PROPERTY IdleCloses
CHECK_DEADLOCK FALSE
