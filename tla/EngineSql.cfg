CONSTANTS
  Cells <- FetchCells
  Fields = {"x", "y"}
  Slots <- FetchSlots
  Kind <- FetchKind
  Required <- FetchRequired
  Prebound = {}
  Answers = {"bad", "more"}
  Pistons = {p1, p2}
  NoPiston = noPiston
  NoCell = noCell
  NoSlot = noSlot
  IterNo <- FetchNumbers
  JudgeOf <- FetchNumbers
  Suffix <- FetchNumbers
  GuardSlot <- FetchGuards
  MaxCrashes = 0
  Lapsing = "any"
SYMMETRY Interchangeable
SPECIFICATION Spec
INVARIANTS InputsReady OneEvaluator BottomSealed
PROPERTIES ImplementsClaimStore
