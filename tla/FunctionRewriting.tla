--------------------------- MODULE FunctionRewriting ---------------------------
(***************************************************************************)
(* The passes that shape the graph of one function, in the order of        *)
(* Rewriter.cpp: decoding, loop unrolling, dead code elimination, block    *)
(* layout (after each of them and after dead write elimination), and the   *)
(* walk of code generation.                                                *)
(*                                                                         *)
(* An exception thrown by a failing drob_assert ends the rewriting for     *)
(* good: the caller is left with the original function.                    *)
(***************************************************************************)
EXTENDS ICFGReconstruction, SimpleLoopUnrolling, DeadCodeElimination,
        BlockLayoutOptimization, CodeGeneration

CONSTANT Texts      \* the functions to rewrite
ASSUME TextAssumption == \A t \in Texts : WellFormed(t)

vars == <<text, f, pc, decodeVars, unrollVars, eliminateVars, layoutVars, generateVars>>

Init ==
  /\ text \in Texts
  /\ f = EmptyFunction
  /\ pc = "decode"
  /\ DecodeInit /\ UnrollInit /\ EliminateInit /\ LayoutInit /\ GenerateInit
  /\ layouts = IF UnrollCount = 0 THEN 2 ELSE 3

Next ==
  /\ f.status = "ok"
  /\ \/ Decode /\ UNCHANGED <<unrollVars, eliminateVars, layoutVars, generateVars>>
     \/ Unroll /\ UNCHANGED <<decodeVars, eliminateVars, layoutVars, generateVars>>
     \/ Eliminate /\ UNCHANGED <<decodeVars, unrollVars, layoutVars, generateVars>>
     \/ Layout /\ UNCHANGED <<decodeVars, unrollVars, eliminateVars, generateVars>>
     \/ Generate /\ UNCHANGED <<decodeVars, unrollVars, eliminateVars, layoutVars>>

Spec == Init /\ [][Next]_vars /\ WF_vars(Next)

-----------------------------------------------------------------------------
Rewritable == f.status = "ok" /\ pc # "decode"
Decoding   == pc \in {"decode", "resolve", "wire"}

\* Every pointer has its counterpart: an edge is in the vectors of both its
\* blocks, outgoing edges are in the order of their instructions (the unrolling
\* looks for the last one), and next/prev agree.  The vectors are maintained
\* by hand in splitBlock, copyBlock, mergeBlockIntoNext and unchainNext.
GraphWired == Rewritable => Wired(f)

\* What follows an instruction in the machine code follows it in the graph,
\* however often blocks were split while their branches were being wired up,
\* copied, inverted, chained and merged: up to dead code elimination.  Until
\* the layout is touched the function also begins as the machine code does.
\* Calls are left out: nothing follows them in the graph.
Untouched == before = EmptyFunction
SamePaths ==
  Rewritable /\ ~Decoding /\ Untouched =>
    /\ \A b \in Block(f) : \A k \in DOMAIN f.instrs[b] :
         f.op[f.instrs[b][k]].kind = "call" \/ Continues(f, b, k)
    /\ pc \in {"unroll", "unrolling"} => Lands(f, f.entryBlock, 1) = TextLands(1)

\* Once dead code elimination is done, and again when all passes are, what is
\* left continues as it did before if branches go as the stack analysis says;
\* at first the function also begins as it did.  Instructions, conditions and
\* blocks are removed one after the other, edges and chains along with them.
SameUnderVerdicts ==
  /\ Rewritable /\ (Eliminated \/ pc = "generate") =>
       \A b \in Block(f) : \A k \in DOMAIN f.instrs[b] : ContinuesAsBefore(f, b, k)
  /\ Rewritable /\ Eliminated =>
       SameLead(Leads(f, f.entryBlock, 1), Leads(before, before.entryBlock, 1))

\* Dead code elimination leaves nothing that no path leads to.
Successors(b) == ({f.next[b]} \ {None}) \cup {f.edge[i].dst : i \in ToSet(f.outgoing[b])}
NoDeadCodeLeft ==
  Rewritable /\ Eliminated =>
    \A s \in SUBSET Block(f) :
      f.entryBlock \in s /\ (\A b \in s : Successors(b) \subseteq s) => s = Block(f)

\* While decoding, an instruction still without its edge is going to get one:
\* its block waits on the stack, or it is among the branches collected.  A split
\* moves instructions away from both.
NothingForgotten ==
  Rewritable /\ Decoding =>
    \A b \in Block(f) \ ToSet(resolveStack) : \A i \in ToSet(f.instrs[b]) :
      \/ HasEdge(f, i)
      \/ f.op[i].kind \in {"op", "call", "ijmp"}
      \/ pc = "wire" /\ b = srcBlock /\ i \in ToSet(collected)

\* Every branch into known code has its edge, and every return its own: code
\* generation asserts it (CodeGenerationPass.hpp:57), the liveness analysis
\* starts from them.  Removing a block takes the edges of others with it, of none
\* that stay.
AllWired ==
  Rewritable /\ ~Decoding =>
    \A b \in Block(f) \ ToSet(blocksToDelete) : \A k \in DOMAIN f.instrs[b] :
      LET i == f.instrs[b][k]
      IN  f.op[i].kind \in {"jcc", "jcxz", "jmp", "ret"} => HasEdge(f, i)

\* An unrolled loop is entered at its first iteration, each iteration follows
\* the one before it only, and just the last one loops: UnrollCount copies of
\* the same code in a row, whether or not the exit could be inverted.
Entering(c) ==
  {b \in Block(f) \ {c} : f.next[b] = c \/ \E i \in ToSet(f.outgoing[b]) : f.edge[i].dst = c}
Code(b) == {f.op[i].at : i \in ToSet(f.instrs[b])} \ {None}

IterationsInARow ==
  Rewritable /\ pc = "unrolling" /\ body = None /\ loops = <<>> =>
    \A b \in Block(f) : SelfBranches(f, b) # <<>> =>
      \E s \in [0 .. UnrollCount -> Block(f)] :
        /\ s[UnrollCount] = b
        /\ \A k \in 1 .. UnrollCount : Entering(s[k]) = {s[k - 1]} /\ Code(s[k]) = Code(s[k - 1])

\* Each block has its code once, and so has every block a generated one
\* branches or falls through to (CodeGenerationPass.hpp:90).
EverythingGenerated ==
  pc = "generated" =>
    /\ IsInjective(generated)
    /\ \A b \in ToSet(generated) :
         /\ f.next[b] # None => f.next[b] \in ToSet(generated)
         /\ \A i \in ToSet(f.outgoing[b]) : f.edge[i].dst \in ToSet(generated)

\* The code of a block that falls through is followed by that of its successor,
\* or else the successor is branched to, and its code was generated before.
Position(b) == CHOOSE k \in DOMAIN generated : generated[k] = b
FollowsUnlessVisited ==
  pc = "generated" =>
    \A b \in ToSet(generated) : f.next[b] # None =>
      \/ Position(f.next[b]) = Position(b) + 1
      \/ Position(f.next[b]) < Position(b) /\ f.incoming[f.next[b]] # {}

\* The rewriting comes to an end or throws, but for circular chains, which the
\* walk never leaves.
RewritingEnds == <>(pc = "generated" \/ f.status # "ok" \/ ~Acyclic(f))

-----------------------------------------------------------------------------
(***************************************************************************)
(* What the source says, and the code does not do.                         *)
(***************************************************************************)

\* "Optimize jumps and block layout" (BlockLayoutOptimizationPass.hpp:33), and
\* nothing else: the function still begins with its first instruction.
EntryKept == pc = "generate" => Lands(f, f.entryBlock, 1) = TextLands(1)
=============================================================================
