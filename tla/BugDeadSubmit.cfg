CONSTANTS
  Cells <- OneCells
  Fields = {"x", "y"}
  Slots <- OneSlots
  Kind <- OneKind
  Required <- OneRequired
  Prebound = {}
  Answers = {"more"}
  Pistons = {p1}
  NoPiston = noPiston
  NoCell = noCell
  NoSlot = noSlot
  IterNo <- OneNumbers
  JudgeOf <- OneNumbers
  Suffix <- OneNumbers
  GuardSlot <- OneGuards
  MaxCrashes = 1
  Lapsing = "abandoned"
SPECIFICATION FairSpec
PROPERTIES Settles
