SPECIFICATION AgentSpec
CONSTANTS
  Hosts = {h1}
  NoHost = NoHost
  Calls = {c1}
  TicketLife = 1
  AttemptWindow = 1
  PairLimit = 1
  MaxRuns = 2
  MaxTickets = 2
  MaxTokens = 2
  MaxTime = 1
INVARIANTS
  EntriesExclusive
  ChosenEntryServes
  QRIsTheTicket
  AgentInv
