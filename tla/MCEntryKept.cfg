CONSTANTS
  Size = 4
  Plain = {"op", "nop", "ret"}
  Direct = {"jcc", "jmp"}
  UnrollCount = 0
  MaxDecided = 0
  Texts <- MCTexts
SPECIFICATION Spec
INVARIANT EntryKept
CHECK_DEADLOCK FALSE
