CONSTANTS
  Cells <- LoopCells
  Fields = {"x", "y"}
  Slots <- LoopSlots
  Literals = {"base"}
  Stems <- LoopStems
  Required <- LoopRequired
  Optional <- LoopOptional
  Pistons = {p1, p2}
  NoPiston = noPiston
  NoCell = noCell
  NoSlot = noSlot
  MaxGen = 2
  MaxTime = 1
  MaxThaws = 1
SYMMETRY Interchangeable
SPECIFICATION Spec
INVARIANTS TypeOK BindingsSound SpawnJustified
PROPERTIES AppendOnly
CHECK_DEADLOCK FALSE
