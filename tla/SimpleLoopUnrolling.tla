-------------------------- MODULE SimpleLoopUnrolling --------------------------
(***************************************************************************)
(* Unrolling of loops that consist of a single super block                 *)
(* (passes/SimpleLoopUnrollingPass.hpp).                                   *)
(*                                                                         *)
(* A loop is cut behind its last branch to itself and copied; the branches *)
(* of the original lead to the copy, which becomes the loop to copy next.  *)
(* If possible the last branch is inverted, so that the copy can follow in *)
(* the fallthrough chain.                                                  *)
(***************************************************************************)
EXTENDS BlockGraph

CONSTANT UnrollCount      \* simple_loop_unroll_count
ASSUME UnrollAssumption == UnrollCount \in Nat

VARIABLES
  loops,     \* blocksToProcess
  body,      \* the block to copy next, None between two loops
  copy,      \* its copy, None before it is made
  left       \* copies still to make

unrollVars == <<loops, body, copy, left>>
UnrollInit == loops = <<>> /\ body = None /\ copy = None /\ left = 0

SelfBranches(g, b) == Only(g.outgoing[b], {i \in ToSet(g.outgoing[b]) : g.edge[i].dst = b})

\* Cut the loop behind its last self-branch and make its exit explicit.
Isolate(g, b) ==
  LET i == Last(SelfBranches(g, b))
      k == CHOOSE j \in DOMAIN g.instrs[b] : g.instrs[b][j] = i
      checked == Check(g, SelfBranches(g, b) # <<>>)
      cut == IF i = Last(g.instrs[b]) THEN checked ELSE SplitBlock(checked, b, k + 1)
  IN  UnchainNext(cut, b)

\* Let the self-branches of b lead to block c.
RedirectSelf(g, b, c) ==
  LET self == ToSet(SelfBranches(g, b))
  IN  [g EXCEPT
         !.edge = [i \in 1 .. Len(@) |-> IF i \in self THEN [@[i] EXCEPT !.dst = c] ELSE @[i]],
         !.incoming = [d \in 1 .. Len(@) |-> CASE d = b -> @[d] \ self
                                            [] d = c -> @[d] \cup self
                                            [] OTHER -> @[d]]]

Inverted_Not(op) == op
Inverted(op) == [op EXCEPT !.inv = ~@]

\* There is no branch on rcx # 0.
Invertible(kind) == kind = "jcc"

\* jcc COPY; jmp END  becomes  jncc END  with COPY next in the chain, if the
\* condition has an inverse (arch_invert_branch).
InvertExit(g, b, c) ==
  LET size == Len(g.instrs[b])
      jmp  == g.instrs[b][size]
      jcc  == g.instrs[b][size - 1]
      dropped == RemoveInstruction(Check(g, g.prev[c] = None), b, jcc)
  IN  IF g.edge[jmp].dst = c THEN g
      ELSE IF g.op[jmp].kind \in Conditional THEN Check(g, FALSE)
      ELSE IF ~Invertible(g.op[jcc].kind) THEN g
      ELSE [dropped EXCEPT !.op[jmp] = Inverted(g.op[jcc]), !.next[b] = c, !.prev[c] = b]

Copies_Fewer == UnrollCount - 1
Copies == UnrollCount

-----------------------------------------------------------------------------
CollectLoops ==
  /\ pc = "unroll"
  /\ loops' = IF UnrollCount = 0 THEN <<>>
              ELSE Only(f.blocks, {b \in Block(f) : SelfBranches(f, b) # <<>>})
  /\ pc' = "unrolling"
  /\ UNCHANGED <<text, f, body, copy, left>>

IsolateLoop ==
  /\ pc = "unrolling" /\ body = None /\ loops # <<>>
  /\ f' = Isolate(f, Head(loops))
  /\ body' = Head(loops)
  /\ loops' = Tail(loops)
  /\ left' = Copies
  /\ UNCHANGED <<text, pc, copy>>

CopyLoop ==
  /\ pc = "unrolling" /\ body # None /\ copy = None
  /\ LET copied == CopyBlock(f, body)
     IN  /\ copy' = Newest(copied)
         /\ f' = RedirectSelf(copied, body, copy')
  /\ UNCHANGED <<text, pc, loops, body, left>>

PlaceCopy ==
  /\ pc = "unrolling" /\ copy # None
  /\ f' = InvertExit(f, body, copy)
  /\ body' = IF left = 1 THEN None ELSE copy
  /\ copy' = None
  /\ left' = left - 1
  /\ UNCHANGED <<text, pc, loops>>

LoopsUnrolled ==
  /\ pc = "unrolling" /\ body = None /\ loops = <<>>
  /\ pc' = IF UnrollCount = 0 THEN "eliminate" ELSE "layout"
  /\ UNCHANGED <<text, f, loops, body, copy, left>>

Unroll == CollectLoops \/ IsolateLoop \/ CopyLoop \/ PlaceCopy \/ LoopsUnrolled
=============================================================================
