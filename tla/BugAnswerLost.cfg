CONSTANTS
  Cells <- LoopCells
  Fields = {"x", "y"}
  Slots <- LoopSlots
  Literals = {"base"}
  Stems <- LoopStems
  Required <- LoopRequired
  Optional <- LoopOptional
  Pistons = {p1}
  NoPiston = noPiston
  NoCell = noCell
  NoSlot = noSlot
  MaxGen = 1
  MaxTime = 1
  MaxThaws = 1
SPECIFICATION Spec
INVARIANTS AnswersStored
CHECK_DEADLOCK FALSE
