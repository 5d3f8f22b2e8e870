SPECIFICATION FairSpec
CONSTANTS
  Clients <- MCClients
  Pistons <- MCPistons
  Sessions <- MCSessions
  Answers <- MCAnswers
  NoRow <- MCNoRow
  MaxPolls = 2
  MaxGen = 1
INVARIANTS TypeOK PourWhole PouredOnce ResetComplete LateAnswerServes
  ReadsAsWritten CycleSearchRight CleanProgramsRun LoopsChain JudgesSeeAll
PROPERTY CommandsEnd
CHECK_DEADLOCK FALSE
