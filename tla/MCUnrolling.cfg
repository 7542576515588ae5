CONSTANTS
  Size = 4
  Plain = {"op", "ret"}
  Direct = {"jcc", "jcxz", "jmp"}
  UnrollCount = 2
  MaxDecided = 2
  Texts <- MCLoops
SPECIFICATION Spec
INVARIANTS GraphWired SamePaths SameUnderVerdicts NoDeadCodeLeft IterationsInARow
CHECK_DEADLOCK FALSE
