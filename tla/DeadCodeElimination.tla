------------------------- MODULE DeadCodeElimination -------------------------
(***************************************************************************)
(* Removal of what is never executed                                       *)
(* (passes/DeadCodeEliminationPass.hpp), with the analyses it relies on.   *)
(*                                                                         *)
(* The stack analysis may find that a conditional branch is always or      *)
(* never taken; here that is any choice (the module StackAnalysis shows    *)
(* that its answers are right).  What the analyses did not reach has no    *)
(* data attached, and is removed: first instructions, then the condition   *)
(* of branches always taken, then blocks.  All of it is collected before   *)
(* anything is changed.                                                    *)
(***************************************************************************)
EXTENDS BlockGraph

CONSTANT MaxDecided     \* bound: branches the stack analysis finds taken or not
ASSUME DecidedAssumption == MaxDecided \in Nat

VARIABLES
  live,         \* blocks with LivenessData
  reached,      \* blocks with an entry state
  verdict,      \* DynamicInstructionInfo::willExecute of conditional branches
  before,       \* the function as it was analysed (history)
  instructionsToDelete, condBranchesToConvert, blocksToDelete

todoVars == <<instructionsToDelete, condBranchesToConvert, blocksToDelete>>
eliminateVars == <<live, reached, verdict, before, todoVars>>
EliminateInit ==
  /\ live = {} /\ reached = {} /\ verdict = <<>> /\ before = EmptyFunction
  /\ instructionsToDelete = <<>> /\ condBranchesToConvert = <<>> /\ blocksToDelete = <<>>

-----------------------------------------------------------------------------
(* Blocks with liveness data: those that return, and from them on all that *)
(* lead to one and, as each waits for its successor, follow one.           *)
Returns(g) == {b \in Block(g) : \E i \in ToSet(g.instrs[b]) : g.op[i].kind = "ret" /\ HasEdge(g, i)}
Neighbours(g, b) ==
  ({g.prev[b], g.next[b]} \ {None}) \cup {g.edge[i].src : i \in g.incoming[b]}
WithLiveness(g) ==
  LET grow[n \in Nat] ==
        IF n = 0 THEN Returns(g)
        ELSE UNION {{b} \cup Neighbours(g, b) : b \in grow[n - 1]}
  IN  grow[Cardinality(Block(g))]

Will(g, v, i) == IF g.op[i].kind \in Conditional THEN v[i] ELSE "True"

(* The instructions of b that the stack analysis attaches data to: it      *)
(* stops behind a branch that is taken for sure.                           *)
Leaves(g, v, i) == IsBranch(g, i) /\ HasEdge(g, i) /\ Will(g, v, i) = "True"
Analysed(g, v, b) ==
  {k \in DOMAIN g.instrs[b] : \A j \in 1 .. k - 1 : ~Leaves(g, v, g.instrs[b][j])}
Left(g, v, b) == \E k \in DOMAIN g.instrs[b] : Leaves(g, v, g.instrs[b][k])

(* The blocks its state is forwarded to from b, which has liveness data or *)
(* else is only passed through.                                            *)
Follows_SureOnly(g, v, i) == Leaves(g, v, i)
Follows(g, v, i) == IsBranch(g, i) /\ HasEdge(g, i) /\ Will(g, v, i) # "False"
Forwards(g, v, b) ==
  LET followed == {g.instrs[b][k] : k \in Analysed(g, v, b)}
  IN  IF b \in live THEN {g.edge[i].dst : i \in {j \in followed : Follows(g, v, j)}} ELSE {}
FallsThrough(g, v, b) == g.next[b] # None /\ ~(b \in live /\ Left(g, v, b))
Reached(g, v) ==
  LET grow[n \in Nat] ==
        IF n = 0 THEN {g.entryBlock}
        ELSE UNION {{b} \cup Forwards(g, v, b)
                      \cup (IF FallsThrough(g, v, b) THEN {g.next[b]} ELSE {}) : b \in grow[n - 1]}
  IN  grow[Cardinality(Block(g))]

(* handleInstruction() of every instruction in the order of the blocks.    *)
HasDynInfo(g, v, b, i) ==
  b \in reached \cap live /\ \E k \in Analysed(g, v, b) : g.instrs[b][k] = i
Visited(g) ==
  FlattenSeq([n \in DOMAIN g.blocks |->
    LET b == g.blocks[n]
    IN  IF b \in reached THEN [k \in DOMAIN g.instrs[b] |-> <<g.instrs[b][k], b>>] ELSE <<>>])

DeadInstructions(g, v) ==
  Only(Visited(g), {p \in ToSet(Visited(g)) :
                      ~HasDynInfo(g, v, p[2], p[1]) \/ Will(g, v, p[1]) = "False"})
SureBranches(g, v) ==
  Only(Visited(g), {p \in ToSet(Visited(g)) :
                      /\ HasDynInfo(g, v, p[2], p[1])
                      /\ g.op[p[1]].kind \in Conditional /\ v[p[1]] = "True"})
DeadBlocks_Unentered(g) ==
  Only(g.blocks, {b \in Block(g) \ reached : g.incoming[b] = {} /\ g.prev[b] = None})
DeadBlocks(g) == Without(g.blocks, reached)

(* A conditional branch becomes a jump, and nothing follows it.            *)
MakeJump_Removed(g, i, b) == RemoveInstruction(g, b, i)
MakeJump(g, i, b) ==
  LET n == g.next[b]
      cut == IF n = None THEN g ELSE [g EXCEPT !.prev[n] = None, !.next[b] = None]
  IN  [cut EXCEPT !.op[i].kind = "jmp"]

(* removeBlock(): all edges from and to b go, its neighbours are linked.   *)
RemoveEdges(g, b) ==
  LET ends == {i \in DOMAIN g.edge : g.edge[i].src = b \/ g.edge[i].dst = b}
  IN  [g EXCEPT
         !.edge = [i \in 1 .. Len(@) |-> IF i \in ends THEN NoEdge ELSE @[i]],
         !.outgoing = [c \in 1 .. Len(@) |-> Without(@[c], ends)],
         !.incoming = [c \in 1 .. Len(@) |-> @[c] \ ends],
         !.instrs[b] = <<>>]
Unlink_Forward(g, b) ==
  IF g.prev[b] = None THEN g ELSE [g EXCEPT !.next[g.prev[b]] = g.next[b]]
Unlink(g, b) ==
  LET p == g.prev[b]
      n == g.next[b]
      fwd == IF p = None THEN g ELSE [g EXCEPT !.next[p] = n]
  IN  IF n = None THEN fwd ELSE [fwd EXCEPT !.prev[n] = p]
RemoveBlock(g, b) ==
  [Unlink(RemoveEdges(g, b), b) EXCEPT
     !.entryBlock = IF @ = b THEN None ELSE @,
     !.blocks = Without(@, {b})]

-----------------------------------------------------------------------------
(* The liveness analysis asserts that the function returns.                *)
AnalyseLiveness ==
  /\ pc = "eliminate"
  /\ f' = Check(f, Returns(f) # {})
  /\ live' = WithLiveness(f)
  /\ pc' = "analyse"
  /\ UNCHANGED <<text, reached, verdict, before, todoVars>>

CondBranches(g) ==
  {i \in UNION {ToSet(g.instrs[b]) : b \in Block(g)} : g.op[i].kind \in Conditional}
Outcomes(branches) ==
  {[i \in branches |-> IF i \in DOMAIN d THEN d[i] ELSE "Unknown"] :
     d \in UNION {[s -> {"True", "False"}] : s \in {t \in SUBSET branches : Cardinality(t) <= MaxDecided}}}

AnalyseStack ==
  /\ pc = "analyse"
  /\ verdict' \in Outcomes(CondBranches(f))
  /\ reached' = Reached(f, verdict')
  /\ before' = f
  /\ pc' = "collect"
  /\ UNCHANGED <<text, f, live, todoVars>>

(* Everything is collected before the first change.                        *)
Collect ==
  /\ pc = "collect"
  /\ instructionsToDelete' = DeadInstructions(f, verdict)
  /\ condBranchesToConvert' = SureBranches(f, verdict)
  /\ blocksToDelete' = DeadBlocks(f)
  /\ pc' = "eliminating"
  /\ UNCHANGED <<text, f, live, reached, verdict, before>>

DeleteInstruction ==
  /\ pc = "eliminating" /\ instructionsToDelete # <<>>
  /\ f' = RemoveInstruction(f, Head(instructionsToDelete)[2], Head(instructionsToDelete)[1])
  /\ instructionsToDelete' = Tail(instructionsToDelete)
  /\ UNCHANGED <<text, pc, live, reached, verdict, before, condBranchesToConvert, blocksToDelete>>

ConvertBranch ==
  /\ pc = "eliminating" /\ instructionsToDelete = <<>> /\ condBranchesToConvert # <<>>
  /\ f' = MakeJump(f, Head(condBranchesToConvert)[1], Head(condBranchesToConvert)[2])
  /\ condBranchesToConvert' = Tail(condBranchesToConvert)
  /\ UNCHANGED <<text, pc, live, reached, verdict, before, instructionsToDelete, blocksToDelete>>

DeleteBlock ==
  /\ pc = "eliminating" /\ instructionsToDelete = <<>> /\ condBranchesToConvert = <<>>
  /\ blocksToDelete # <<>>
  /\ f' = RemoveBlock(f, Head(blocksToDelete))
  /\ blocksToDelete' = Tail(blocksToDelete)
  /\ UNCHANGED <<text, pc, live, reached, verdict, before, instructionsToDelete, condBranchesToConvert>>

Eliminated ==
  /\ pc = "eliminating" /\ instructionsToDelete = <<>> /\ condBranchesToConvert = <<>>
  /\ blocksToDelete = <<>>

DeadCodeEliminated ==
  /\ Eliminated
  /\ pc' = "layout"
  /\ UNCHANGED <<text, f, eliminateVars>>

Eliminate ==
  \/ AnalyseLiveness \/ AnalyseStack \/ Collect
  \/ DeleteInstruction \/ ConvertBranch \/ DeleteBlock \/ DeadCodeEliminated

-----------------------------------------------------------------------------
(* The instruction reached from position k of block b on, if the branches  *)
(* go as the analysis says.                                                *)
Leads(g, b, k) ==
  LET go[n \in Nat, p \in Nat \X Nat] ==
        IF n = 0 THEN Spin
        ELSE IF p[2] > Len(g.instrs[p[1]])
          THEN IF g.next[p[1]] = None THEN Nowhere ELSE go[n - 1, <<g.next[p[1]], 1>>]
        ELSE LET i == g.instrs[p[1]][p[2]]
             IN  IF g.op[i].kind = "jmp" \/ Leaves(g, verdict, i) THEN go[n - 1, <<g.edge[i].dst, 1>>]
                 ELSE IF g.op[i].kind \in Conditional /\ verdict[i] = "False"
                   THEN go[n - 1, <<p[1], p[2] + 1>>]
                 ELSE i
  IN  go[Len(g.op) + Len(g.instrs) + 1, <<b, k>>]

BlockOf(g, i) == CHOOSE b \in Block(g) : i \in ToSet(g.instrs[b])
Place(g, i) == LET b == BlockOf(g, i) IN <<b, CHOOSE k \in DOMAIN g.instrs[b] : g.instrs[b][k] = i>>

(* What is left continues as it did, wherever that led to code that may    *)
(* return.                                                                 *)
SameLead(is, was) ==
  was \in {is, Spin} \/ (was # Nowhere /\ BlockOf(before, was) \notin live)
ContinuesAsBefore(g, b, k) ==
  LET i == g.instrs[b][k]
      p == Place(before, i)
  IN  /\ g.op[i].kind \in Conditional \cup {"op", "call"} =>
            SameLead(Leads(g, b, k + 1), Leads(before, p[1], p[2] + 1))
      /\ g.op[i].kind \in Conditional =>
            SameLead(Leads(g, g.edge[i].dst, 1), Leads(before, before.edge[i].dst, 1))
=============================================================================
