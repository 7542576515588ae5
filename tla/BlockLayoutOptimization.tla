------------------------ MODULE BlockLayoutOptimization ------------------------
(***************************************************************************)
(* Jump removal and merging of blocks                                      *)
(* (passes/BlockLayoutOptimizationPass.hpp).                               *)
(*                                                                         *)
(* While the blocks are visited, a final jump to a block that follows no   *)
(* other is replaced by the chain.  Merging has to wait until all blocks   *)
(* were visited, because it removes blocks; what was found out about a     *)
(* block is that much older when it is acted upon.                         *)
(***************************************************************************)
EXTENDS BlockGraph

VARIABLES
  toVisit,        \* the rest of the walk over the blocks
  blocksToMerge,
  layouts         \* how often the pass still runs

layoutVars == <<toVisit, blocksToMerge, layouts>>
LayoutInit == toVisit = <<>> /\ blocksToMerge = <<>>

\* The block the final jump of b can be replaced by, None if there is none.
ChainTarget(g, b) ==
  LET i == Last(g.instrs[b])
      d == g.edge[i].dst
  IN  IF g.op[i].kind \in Branches \ Conditional /\ HasEdge(g, i) /\ g.prev[d] = None
        THEN d ELSE None

Chain(g, b, d) ==
  RemoveInstruction([g EXCEPT !.prev[d] = b, !.next[b] = d], b, Last(g.instrs[b]))

CanMerge(g, b) == g.next[b] # None /\ g.incoming[g.next[b]] = {}

-----------------------------------------------------------------------------
StartLayout ==
  /\ pc = "layout"
  /\ toVisit' = f.blocks
  /\ layouts' = layouts - 1
  /\ pc' = "chain"
  /\ UNCHANGED <<text, f, blocksToMerge>>

\* An empty block is to be merged, whoever branches to its successor.
VisitEmpty ==
  /\ pc = "chain" /\ toVisit # <<>>
  /\ LET b == Head(toVisit)
     IN  /\ f.instrs[b] = <<>>
         /\ f' = Check(f, f.next[b] # None)
         /\ blocksToMerge' = Append(blocksToMerge, b)
  /\ toVisit' = Tail(toVisit)
  /\ UNCHANGED <<text, pc, layouts>>

VisitBlock ==
  /\ pc = "chain" /\ toVisit # <<>>
  /\ LET b == Head(toVisit)
         d == ChainTarget(f, b)
     IN  /\ f.instrs[b] # <<>>
         /\ f' = IF f.next[b] = None /\ d # None THEN Chain(f, b, d) ELSE f
         /\ blocksToMerge' = IF CanMerge(f', b) THEN Append(blocksToMerge, b)
                                                ELSE blocksToMerge
  /\ toVisit' = Tail(toVisit)
  /\ UNCHANGED <<text, pc, layouts>>

StartMerging ==
  /\ pc = "chain" /\ toVisit = <<>>
  /\ pc' = "merge"
  /\ UNCHANGED <<text, f, toVisit, blocksToMerge, layouts>>

MergeBlock ==
  /\ pc = "merge" /\ blocksToMerge # <<>>
  /\ f' = MergeBlockIntoNext(f, Head(blocksToMerge))
  /\ blocksToMerge' = Tail(blocksToMerge)
  /\ UNCHANGED <<text, pc, toVisit, layouts>>

LayoutDone ==
  /\ pc = "merge" /\ blocksToMerge = <<>>
  /\ pc' = CASE layouts = 2 -> "eliminate" [] layouts = 1 -> "layout" [] OTHER -> "generate"
  /\ UNCHANGED <<text, f, toVisit, blocksToMerge, layouts>>

Layout ==
  \/ StartLayout \/ VisitEmpty \/ VisitBlock \/ StartMerging \/ MergeBlock
  \/ LayoutDone
=============================================================================
