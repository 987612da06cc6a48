SPECIFICATION FairSpec
CONSTANTS
  EscalateAfter = 4
  Policies <- MCPolicies
  FileBreakers <- MCBreakers
  MaxSpend = 2
  MaxAttempts = 1
  MaxEpisodes = 2
  TurnLimited = TRUE
  PremiumNamed = {"premium"}
  MaxIncidents = 2
INVARIANTS TypeOK SpendIsCounted PolicyIsKept AttemptsArePaid
PROPERTIES WalksBack StuckSessionEnds
CHECK_DEADLOCK FALSE
