SPECIFICATION FairSpec
CONSTANTS
    r1 = r1
    r2 = r2
    Requests = {r1, r2}
    MaxChanges = 1
    Desk = Desk
    NoText = NoText
    Nobody = Nobody
INVARIANTS APIInv OnlyTheTrusted
PROPERTIES ImplementsClipboard RequestEnds
CHECK_DEADLOCK FALSE
