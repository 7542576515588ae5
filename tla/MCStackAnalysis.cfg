CONSTANTS
  PtrBytes <- MCPtrBytes
  Radix <- MCRadix
  RegInfo <- MCRegInfo
  UsrPtrCfg <- MCUsrPtrCfg
  HostMem <- MCHostMem
  StackRange <- MCStackRange
  EntryRegs <- MCEntry
  Functions <- MCFunctions
  ReturnRegs <- MCReturnRegs
  MaxRun = 24
  MaxCoins = 3
SPECIFICATION Spec
INVARIANTS CachedRight SameResult AnalysisEnds
