CONSTANTS
  Programs <- TwoPrograms
  Order <- ThreeCells
  ProgOf <- OfProgram
  Yields <- YieldCount
  Lines <- LineCount
  Snapshots <- Reads
  Matching <- Typing
  Windows = {7}
  MaxAsked = 1
  MaxKeys = 4
  NoCell = noCell
SPECIFICATION Spec
INVARIANTS TypeOK OneTimer DetailMatches MoveLoads
PROPERTIES MoveShowsCursor ErrorsClear
CHECK_DEADLOCK FALSE
