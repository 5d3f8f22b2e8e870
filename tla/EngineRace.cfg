CONSTANTS
  Cells <- ChainCells
  Fields = {"x", "y"}
  Slots <- ChainSlots
  Kind <- ChainKind
  Required <- ChainRequired
  Prebound = {}
  Answers = {"bad", "more"}
  Pistons = {p1, p2}
  NoPiston = noPiston
  NoCell = noCell
  NoSlot = noSlot
  IterNo <- ChainNumbers
  JudgeOf <- ChainNumbers
  Suffix <- ChainNumbers
  GuardSlot <- ChainGuards
  MaxCrashes = 1
  Lapsing = "any"
SYMMETRY Interchangeable
SPECIFICATION Spec
INVARIANTS TypeOK FrozenComplete InputsReady OneEvaluator OracleSound
PROPERTIES ImplementsClaimStore
