CONSTANTS
  PtrBytes <- MCPtrBytes
  Radix <- MCRadix
  RegInfo <- MCRegInfo
  UsrPtrCfg <- MCUsrPtrCfg
  HostMem <- MCHostMem
  StackRange <- MCStackRange
  EntryRegs <- MCEntryRegs
  Instructions <- MCInstructions
  Predicates <- MCPredicates
  MaxSteps = 3
SPECIFICATION Spec
INVARIANTS ClaimsHold NoHiddenStackPtr TailsBelong PredicatesRight MergeSettles
CHECK_DEADLOCK FALSE
