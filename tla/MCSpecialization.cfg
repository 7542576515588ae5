CONSTANTS
  PtrBytes <- MCPtrBytes
  Radix <- MCRadix
  RegInfo <- MCRegInfo
  UsrPtrCfg <- MCUsrPtrCfg
  HostMem <- MCHostMem
  StackRange <- MCStackRange
  EntryRegs <- MCEntryRegs
  Instructions <- Preparing
  Predicates <- MCPredicates
  MaxSteps = 3
  Specializable <- MCSpecializable
SPECIFICATION Spec
INVARIANTS SpecializedSame KnowsNoLess
CHECK_DEADLOCK FALSE
