SPECIFICATION FairAgentSpec
CONSTANTS
  Hosts = {h1}
  NoHost = NoHost
  Calls = {}
  TicketLife = 1
  AttemptWindow = 1
  PairLimit = 1
  MaxRuns = 2
  MaxTickets = 1
  MaxTokens = 2
  MaxTime = 1
PROPERTIES
  ActionsEnd
  ExitNoticed
