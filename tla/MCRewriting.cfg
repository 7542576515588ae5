CONSTANTS
  Size = 4
  Plain = {"op", "nop", "ijmp", "ret"}
  Direct = {"jcc", "jmp"}
  UnrollCount = 0
  MaxDecided = 0
  Texts <- MCTexts
SPECIFICATION Spec
INVARIANTS GraphWired SamePaths NothingForgotten AllWired EverythingGenerated FollowsUnlessVisited
PROPERTY RewritingEnds
CHECK_DEADLOCK FALSE
