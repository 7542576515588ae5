-------------------------- MODULE ICFGReconstruction --------------------------
(***************************************************************************)
(* Decoding a function into super blocks                                   *)
(* (passes/ICFGReconstructionPass.hpp, decodeFunction).                    *)
(*                                                                         *)
(* Blocks that still have branches to wire up wait on a stack.  A branch   *)
(* into the middle of a known block splits that block, which may be the    *)
(* very block whose branches were just collected: they are collected       *)
(* again.  Overlapping blocks exist, because decoding does not stop at the *)
(* beginning of a known block; which of them is split depends on the       *)
(* iteration order of an unordered_map.                                    *)
(***************************************************************************)
EXTENDS BlockGraph

VARIABLES
  blockMap,      \* blockMap[l]: the block decoded from or split at label l
  resolveStack,
  srcBlock,      \* the block whose branches are being wired up
  collected      \* its branches, as collected by BranchEdgeCollector

decodeVars == <<blockMap, resolveStack, srcBlock, collected>>

DecodeInit ==
  /\ blockMap = [l \in DOMAIN text |-> None]
  /\ resolveStack = <<>>
  /\ srcBlock = None
  /\ collected = <<>>

\* Branches of block b without an edge, in their order
Unresolved(g, b) ==
  Only(g.instrs[b], {i \in ToSet(g.instrs[b]) : IsBranch(g, i) /\ ~HasEdge(g, i)})

\* Only the last instruction of a block can return.
WireReturn_Never(g, b) == g
WireReturn(g, b) ==
  LET i == Last(g.instrs[b])
  IN  IF g.instrs[b] # <<>> /\ g.op[i].kind = "ret" /\ ~HasEdge(g, i)
        THEN [g EXCEPT !.edge[i].src = b] ELSE g

\* iTextCovered(): places in known blocks where the instruction at l was decoded.
Covering(l) ==
  {p \in {blockMap[k] : k \in DOMAIN text} \X DOMAIN text :
     /\ p[1] # None
     /\ p[2] <= Len(f.instrs[p[1]])
     /\ f.op[f.instrs[p[1]][p[2]]].at = l}

Know_Unstacked(l, b) ==
  /\ blockMap' = [blockMap EXCEPT ![l] = b]
  /\ resolveStack' = resolveStack
Know(l, b) ==
  /\ blockMap' = [blockMap EXCEPT ![l] = b]
  /\ resolveStack' = Append(resolveStack, b)

Popped_Not(s) == s
Popped(s) == Front(s)

-----------------------------------------------------------------------------
DecodeEntry ==
  /\ pc = "decode"
  /\ f' = DecodeBlock(EmptyFunction, 1)
  /\ Know(1, Newest(f'))
  /\ pc' = "resolve"
  /\ UNCHANGED <<text, srcBlock, collected>>

ResolveBlock ==
  /\ pc = "resolve" /\ resolveStack # <<>>
  /\ srcBlock' = Last(resolveStack)
  /\ resolveStack' = Popped(resolveStack)
  /\ f' = WireReturn(f, srcBlock')
  /\ collected' = Unresolved(f', srcBlock')
  /\ pc' = "wire"
  /\ UNCHANGED <<text, blockMap>>

Branch == Head(collected)
Target == text[f.op[Branch].at].to      \* getRawTarget(), 0 if unknown

\* A branch into unknown code gets no edge.
SkipUnknown ==
  /\ pc = "wire" /\ collected # <<>> /\ Target = 0
  /\ collected' = Tail(collected)
  /\ UNCHANGED <<text, f, pc, blockMap, resolveStack, srcBlock>>

BranchToKnown ==
  /\ pc = "wire" /\ collected # <<>> /\ Target # 0
  /\ blockMap[Target] # None
  /\ f' = Connect(f, Branch, srcBlock, blockMap[Target])
  /\ collected' = Tail(collected)
  /\ UNCHANGED <<text, pc, blockMap, resolveStack, srcBlock>>

\* The target is decoded, but not the start of a block.  The edges collected
\* are stale then.
BranchIntoMiddle ==
  /\ pc = "wire" /\ collected # <<>> /\ Target # 0
  /\ blockMap[Target] = None
  /\ \E p \in Covering(Target) : f' = SplitBlock(f, p[1], p[2])
  /\ Know(Target, Newest(f'))
  /\ collected' = Unresolved(f', srcBlock)
  /\ UNCHANGED <<text, pc, srcBlock>>

BranchToNew ==
  /\ pc = "wire" /\ collected # <<>> /\ Target # 0
  /\ blockMap[Target] = None
  /\ Covering(Target) = {}
  /\ LET g == DecodeBlock(f, Target)
     IN  /\ f' = Connect(g, Branch, srcBlock, Newest(g))
         /\ Know(Target, Newest(g))
  /\ collected' = Tail(collected)
  /\ UNCHANGED <<text, pc, srcBlock>>

BranchesWired ==
  /\ pc = "wire" /\ collected = <<>>
  /\ pc' = "resolve"
  /\ UNCHANGED <<text, f, blockMap, resolveStack, srcBlock, collected>>

FunctionDecoded ==
  /\ pc = "resolve" /\ resolveStack = <<>>
  /\ pc' = "unroll"
  /\ UNCHANGED <<text, f, blockMap, resolveStack, srcBlock, collected>>

Decode ==
  \/ DecodeEntry \/ ResolveBlock \/ SkipUnknown \/ BranchToKnown
  \/ BranchIntoMiddle \/ BranchToNew \/ BranchesWired \/ FunctionDecoded
=============================================================================
