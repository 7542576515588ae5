---------------------------- MODULE CodeGeneration ----------------------------
(***************************************************************************)
(* The order in which code is generated for the blocks of a function:      *)
(* Function::for_each_block_dfs with the handleBlock of                    *)
(* passes/CodeGenerationPass.hpp.                                          *)
(*                                                                         *)
(* Starting at the entry, a fallthrough chain is walked to its end, while  *)
(* the targets of branches are put on a stack.  Code for a block is        *)
(* generated right behind the code of the block visited before it.         *)
(***************************************************************************)
EXTENDS BlockGraph

VARIABLES
  visited,
  branchTargets,   \* the stack
  cursor,          \* the block of the chain to look at next, None between chains
  generated        \* blocks in the order of their code

generateVars == <<visited, branchTargets, cursor, generated>>
GenerateInit ==
  /\ visited = {}
  /\ branchTargets = <<>>
  /\ cursor = None
  /\ generated = <<>>

\* What b branches to and was not visited, the target of the first branch on top
Targets_Backward(g, b) ==
  Only([k \in DOMAIN g.outgoing[b] |-> g.edge[Reverse(g.outgoing[b])[k]].dst],
       (1 .. b - 1) \ visited)
Targets(g, b) ==
  Without([k \in DOMAIN g.outgoing[b] |-> g.edge[Reverse(g.outgoing[b])[k]].dst],
          visited \cup {b})

\* The next block of the chain
Following_Branch(g, b) ==
  IF g.outgoing[b] # <<>> THEN g.edge[Last(g.outgoing[b])].dst ELSE g.next[b]
Following(g, b) == g.next[b]

-----------------------------------------------------------------------------
StartGeneration ==
  /\ pc = "generate"
  /\ f' = Check(f, f.entryBlock # None)
  /\ branchTargets' = <<f.entryBlock>>
  /\ pc' = "generating"
  /\ UNCHANGED <<text, visited, cursor, generated>>

\* A block on the stack may have been visited since.
PopBlock ==
  /\ pc = "generating" /\ cursor = None /\ branchTargets # <<>>
  /\ cursor' = IF Last(branchTargets) \in visited THEN None ELSE Last(branchTargets)
  /\ branchTargets' = Front(branchTargets)
  /\ UNCHANGED <<text, f, pc, visited, generated>>

SkipVisited ==
  /\ pc = "generating" /\ cursor # None
  /\ cursor \in visited
  /\ cursor' = Following(f, cursor)
  /\ UNCHANGED <<text, f, pc, visited, branchTargets, generated>>

GenerateBlock ==
  /\ pc = "generating" /\ cursor # None
  /\ cursor \notin visited
  /\ f' = Check(f, f.instrs[cursor] # <<>>)
  /\ visited' = visited \cup {cursor}
  /\ generated' = Append(generated, cursor)
  /\ branchTargets' = branchTargets \o Targets(f, cursor)
  /\ cursor' = Following(f, cursor)
  /\ UNCHANGED <<text, pc>>

FunctionGenerated ==
  /\ pc = "generating" /\ cursor = None /\ branchTargets = <<>>
  /\ pc' = "generated"
  /\ UNCHANGED <<text, f, visited, branchTargets, cursor, generated>>

Generate ==
  \/ StartGeneration \/ PopBlock \/ SkipVisited \/ GenerateBlock \/ FunctionGenerated
=============================================================================
