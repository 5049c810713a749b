SPECIFICATION FairSpec
CONSTANTS
    r1 = r1
    r2 = r2
    Requests = {r1}
    MaxChanges = 1
    Desk = Desk
    NoText = NoText
    Nobody = Nobody
PROPERTY NoLateWrite
CHECK_DEADLOCK FALSE
