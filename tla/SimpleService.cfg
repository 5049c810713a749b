SPECIFICATION Spec
CONSTANTS
  Hosts = {h1, h2}
  NoHost = NoHost
  Calls = {c1, c2}
  TicketLife = 1
  AttemptWindow = 1
  PairLimit = 2
  MaxRuns = 2
  MaxTickets = 2
  MaxTokens = 3
  MaxTime = 1
SYMMETRY Symmetry
INVARIANTS
  TypeOK
  TicketSingleUse
  PairedInThisSession
  ReadyIsCurrent
  NoOrphan
PROPERTY ImplementsAuthority
