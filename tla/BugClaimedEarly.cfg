SPECIFICATION Spec
CONSTANTS
  Clients <- MCClients
  Pistons <- MCPistons
  Sessions <- EarlySessions
  Answers <- MCAnswers
  NoRow <- MCNoRow
  MaxPolls = 2
  MaxGen = 1
INVARIANT ClaimedWithInputs
CHECK_DEADLOCK FALSE
