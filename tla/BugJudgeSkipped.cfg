CONSTANTS
  Cells <- JudgedCells
  Fields = {"x", "y"}
  Slots <- JudgedSlots
  Kind <- JudgedKind
  Required <- JudgedRequired
  Prebound = {"seed"}
  Answers = {"more", "done"}
  Pistons = {p1}
  NoPiston = noPiston
  NoCell = noCell
  NoSlot = noSlot
  IterNo <- JudgedIterNo
  JudgeOf <- JudgedJudgeOf
  Suffix <- JudgedSecond
  GuardSlot <- JudgedGuards
  MaxCrashes = 0
  Lapsing = "none"
SPECIFICATION Spec
INVARIANTS JudgeFollowsIteration
