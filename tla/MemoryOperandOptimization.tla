--------------------- MODULE MemoryOperandOptimization ----------------------
(***************************************************************************)
(* The pass MemoryOperandOptimization                                      *)
(* (src/src/passes/MemoryOperandOptimizationPass.hpp): constant memory is  *)
(* read from the constant pool, registers of known value are dropped from  *)
(* an address and added to its displacement.                               *)
(*                                                                         *)
(* A memory operand without base and index is a direct address.  Operands  *)
(* of kind "pool" lie in the binary pool and stay as they are.             *)
(***************************************************************************)
EXTENDS Specialization

(* Implicit operands, which come last, cannot be changed.                  *)
Explicit(ins) == CASE ins.emu \in {"push", "pop", "call"} -> 1
                   [] ins.emu \in {"ret", "jcc", "nasty"} -> 0
                   [] OTHER -> 2

Direct(op, ptr) == [op EXCEPT !.base = "None", !.index = "None", !.scale = 0, !.disp = ptr]

(* What becomes of memory operand op, with the pointer ptr and the values  *)
(* of its registers.                                                       *)
NewOperand(op, ptr, base, index) ==
    LET sib     == op.base # "None" \/ op.index # "None"
        onBase  == AddDynamicValues(base, op.disp)
        onIndex == AddDynamicValues(MultiplyDynamicValue(index, op.scale), op.disp)
    IN  IF op.mode \in Reads \ Writes /\ GetImm(ptr) /\ Constant(HostAddr(ptr), op.n)
        THEN PoolOp(Imm(HostValue(HostAddr(ptr), op.n)), op.n)
        ELSE IF sib /\ op.mode = "None" THEN Direct(op, Imm(0))
        ELSE IF sib /\ Short(ptr) THEN Direct(op, ptr)
        ELSE IF op.base # "None" /\ Short(onBase) THEN [op EXCEPT !.base = "None", !.disp = onBase]
        ELSE IF op.index # "None" /\ Short(onIndex)
             THEN [op EXCEPT !.index = "None", !.scale = 0, !.disp = onIndex]
        ELSE op

(* handleInstruction(): the first explicit memory operand that changes.    *)
OptimizeOperand(ins, d) ==
    LET new(k) == NewOperand(d.ops[k], d.ptr[k], d.base[k], d.index[k])
        better == {k \in 1 .. Explicit(ins) : d.ops[k].kind = "mem" /\ new(k) # d.ops[k]}
        first  == CHOOSE k \in better : \A j \in better : k <= j
    IN  IF better = {} THEN NoChange(ins) ELSE Change([ins EXCEPT !.ops[first] = new(first)])

=============================================================================
