------------------------ MODULE DeadWriteElimination ------------------------
(***************************************************************************)
(* The pass that removes what the liveness analysis found dead             *)
(* (passes/DeadWriteEliminationPass.hpp), and what its result is worth.    *)
(*                                                                         *)
(* After the pass the original function and the reduced one are executed   *)
(* side by side along one path.  "wrong" are the registers whose value     *)
(* differs between the two machines: every register a removed instruction  *)
(* should have written becomes wrong, a value computed from a wrong one is *)
(* wrong, and a correct write repairs a register.  The pass is correct if  *)
(* nothing a caller can see ever depends on a wrong register.              *)
(***************************************************************************)
EXTENDS LivenessAnalysis

VARIABLES
  gone,   \* instructions that were removed
  at,     \* <<b, k>>: where both machines are
  wrong   \* registers that differ between them

allVars == <<fn, queue, queued, valid, data, liveIn, liveAt, kept,
             cur, pos, todo, changed, pc, gone, at, wrong>>
machine == <<gone, at, wrong>>

InstrAt(p) == fn.code[p[1]][p[2]]
AtEndOfBlock == at[2] = Size(fn, at[1]) + 1

\* What the world sees of an instruction: the registers unknown code may
\* read, the values returned, what is stored and which way a branch goes.
Observes(i) ==
  IF i.willExecute = "False" THEN {}
  ELSE IF i.kind = "call" \/ (i.kind = "branch" /\ i.dst = None) THEN Reg
  ELSE IF i.kind = "ret" THEN fn.liveRet
  ELSE IF i.kind = "branch" \/ i.mayWriteMem THEN i.readRegs \cup i.predicateRegs
  ELSE {}

\* Registers written by i, if it executes: all of writtenRegs and any part of
\* condWrittenRegs.
Written(i) == {i.writtenRegs \cup s : s \in SUBSET i.condWrittenRegs}
MayWrite(i) == i.writtenRegs \cup i.condWrittenRegs

\* The wrong registers after both machines executed i: a wrong input spoils
\* everything it may write, otherwise what it writes becomes right.
After(i) ==
  IF (i.readRegs \cup i.predicateRegs) \cap wrong # {}
    THEN {wrong \cup MayWrite(i)}
    ELSE {wrong \ w : w \in Written(i)}

-----------------------------------------------------------------------------
\* run(): delete all instructions without liveness data.  The machines are
\* followed from the entry if the analysis covered the whole function.
RemoveDeadWrites ==
  /\ pc = "done"
  /\ gone' = Positions(fn) \ kept
  /\ valid' = [b \in Block |-> valid[b] /\ \A p \in gone' : p[1] # b]
  /\ pc' = IF Block \subseteq data THEN "run" ELSE "removed"
  /\ UNCHANGED <<fn, queue, queued, data, liveIn, liveAt, kept,
                 cur, pos, todo, changed, at, wrong>>

Moved(p) ==
  /\ at' = p
  /\ UNCHANGED <<fn, queue, queued, valid, data, liveIn, liveAt, kept,
                 cur, pos, todo, changed, pc, gone>>
NextInstr == <<at[1], at[2] + 1>>

\* Only the original machine executes a removed instruction.
ExecuteRemoved ==
  /\ pc = "run" /\ ~AtEndOfBlock /\ at \in gone
  /\ LET i == InstrAt(at)
     IN  \/ i.willExecute # "False" /\ \E w \in Written(i) : wrong' = wrong \cup w
         \/ i.willExecute # "True" /\ UNCHANGED wrong
  /\ Moved(NextInstr)

\* Both machines execute the instruction, or both pass it because of its
\* predicate.
ExecuteKept ==
  /\ pc = "run" /\ ~AtEndOfBlock /\ at \notin gone
  /\ LET i == InstrAt(at)
     IN  /\ \/ i.willExecute # "False" /\ wrong' \in After(i)
            \/ /\ i.willExecute # "True"
               /\ i.willExecute = "Unknown" => i.predicateRegs \cap wrong = {}
               /\ UNCHANGED wrong
         /\ \/ i.kind \in {"plain", "call"} /\ Moved(NextInstr)
            \/ i.kind = "branch" /\ i.willExecute # "True" /\ Moved(NextInstr)
            \/ i.kind = "branch" /\ i.willExecute # "False" /\ i.dst # None
                                 /\ Moved(<<i.dst, 1>>)

FallThrough ==
  /\ pc = "run" /\ AtEndOfBlock
  /\ fn.next[at[1]] # None
  /\ wrong' = wrong
  /\ Moved(<<fn.next[at[1]], 1>>)

InitAll == Init /\ gone = {} /\ at = <<fn.entry, 1>> /\ wrong = {}

NextAll ==
  \/ Analyse /\ UNCHANGED machine
  \/ RemoveDeadWrites \/ ExecuteRemoved \/ ExecuteKept \/ FallThrough

SpecAll == InitAll /\ [][NextAll]_allVars

-----------------------------------------------------------------------------
\* While the machines run, what was computed stays up to date, and no register
\* that differs between them is alive at the place they have reached.
RunInv ==
  /\ at \in Block \X Nat
  /\ wrong \subseteq Reg
  /\ pc \notin {"run", "removed"} => at = <<fn.entry, 1>> /\ wrong = {}
  /\ pc = "run" =>
       /\ \A b \in Block : UpToDate(b)
       /\ gone = Positions(fn) \ kept
       /\ at[2] \in 1 .. Size(fn, at[1]) + 1
       /\ wrong \cap liveAt[at[1]][at[2]] = {}

(***************************************************************************)
(* The pass does not change what the function does: whatever the reduced   *)
(* function shows to its caller, to memory or to unknown code is computed  *)
(* from correct registers only, and no instruction with a visible effect   *)
(* is removed.  This is what LivenessAnalysisPass.hpp:184-191 promises to  *)
(* the pass, seen along every path and not one instruction at a time.      *)
(***************************************************************************)
SameBehaviour ==
  pc = "run" /\ ~AtEndOfBlock =>
    IF at \in gone THEN Observes(InstrAt(at)) = {}
                   ELSE Observes(InstrAt(at)) \cap wrong = {}

\* "Any instruction that is not a control flow instruction can be removed if
\* it will not write memory and all registers it writes are never needed":
\* nothing else is removed (LivenessAnalysisPass.hpp:184-191).
OnlyDeadWritesRemoved ==
  \A p \in gone : InstrAt(p).kind = "plain" /\ ~InstrAt(p).mayWriteMem
=============================================================================
