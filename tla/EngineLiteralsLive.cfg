CONSTANTS
  Cells <- PairCells
  Fields = {"x", "y"}
  Slots <- PairSlots
  Kind <- PairKind
  Required <- PairRequired
  Prebound = {}
  Answers = {"more"}
  Pistons = {p1, p2}
  NoPiston = noPiston
  NoCell = noCell
  NoSlot = noSlot
  IterNo <- PairNumbers
  JudgeOf <- PairNumbers
  Suffix <- PairNumbers
  GuardSlot <- PairGuards
  MaxCrashes = 1
  Lapsing = "abandoned"
SPECIFICATION FairSpec
PROPERTIES Settles
