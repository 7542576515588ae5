--------------------------- MODULE Specialization ---------------------------
(***************************************************************************)
(* Instructions are specialised to what the stack analysis knows of their  *)
(* operands (src/src/x86/Specialize.cpp) by the pass                       *)
(* InstructionSpecialization: an operand becomes an immediate or a         *)
(* constant of the pool, an instruction becomes a move, or goes.           *)
(*                                                                         *)
(* An instruction also has spec, the name of its callback.  The callbacks  *)
(* take their first applicable rule <<guard, what becomes of it>>.         *)
(***************************************************************************)
EXTENDS Machine

(* getImm(): immediates, and pointer parameters of known value, which stay *)
(* pointers.                                                               *)
GetImm(v) == IsImm(v) \/ (v.type = "UsrPtr" /\ UsrPtrCfg[v.nr].isKnown)
Val(v) == IF v.type = "UsrPtr" THEN (UsrPtrCfg[v.nr].val + v.val) % Word ELSE v.val
IsZero(v) == GetImm(v) /\ Val(v) = 0
IsSimm32(v) ==
    LET half == Power(Radix, PtrBytes \div 2)
    IN  Val(v) % Word \in 0 .. half \div 2 - 1 \cup Word - half \div 2 .. Word - 1
Short(v) == GetImm(v) /\ IsSimm32(v)

ImmOp(v) == [kind |-> "imm", imm |-> v, mode |-> "None"]
PoolOp(v, n) == [kind |-> "pool", imm |-> v, n |-> n, mode |-> "None"]

(* What may become of an instruction.                                      *)
NoChange(ins) == [ret |-> "NoChange", ins |-> ins]
Delete(ins) == [ret |-> "Delete", ins |-> ins]
Change(ins) == [ret |-> "Change", ins |-> ins]
WithOp2(ins, op) ==
    Change([ins EXCEPT !.ops[2] = op, !.refine = IF @ = "xor_rr" THEN "none" ELSE @])
As(ins, emu, ops) ==
    Change([ins EXCEPT !.emu = emu, !.can = "Full", !.ops = ops, !.refine = "none",
                       !.spec = IF ops[2].kind \in {"reg", "mem"} THEN "mov64" ELSE "none"])
Written(op) == [op EXCEPT !.mode = "Write"]
MoveOf(ins, src) == As(ins, "mov", <<Written(ins.ops[1]), src>>)
FlagOps == [k \in 1 .. 4 |-> [kind |-> "reg", reg |-> FlagRegs[k], r |-> "Full", w |-> "Full",
                              mode |-> "Write"]]
(* A register of known result 0 is xored with itself.                      *)
Zeroed(ins, emu) ==
    LET r == ins.ops[1]
    IN  Change([ins EXCEPT !.emu = emu, !.can = "Imm", !.refine = "xor_rr", !.spec = "none",
                           !.ops = <<[r EXCEPT !.mode = "ReadWrite"], [r EXCEPT !.mode = "Read"]>>
                                   \o (IF emu = "xor" THEN FlagOps ELSE <<>>)])

FirstRule(ins, rules) ==
    LET chosen == SelectSeq(rules, LAMBDA r : r[1])
    IN  IF chosen = <<>> THEN NoChange(ins) ELSE chosen[1][2]

(* The form of the opcode, its two operands.                               *)
ToReg(ins) == ins.ops[1].kind = "reg"
ToMem(ins) == ins.ops[1].kind = "mem"
From(ins, kinds) == ins.ops[2].kind \in kinds
SameReg(ins) == ToReg(ins) /\ From(ins, {"reg"}) /\ ins.ops[1].reg = ins.ops[2].reg

-----------------------------------------------------------------------------
(* The callbacks; d is the dynamic info and fl whether flags will be read. *)

(* Where only the result counts and it is known.                           *)
KnownResult(ins, d, fl) ==
    LET out == d.out[1]
    IN  << <<~fl /\ GetImm(out) /\ ToMem(ins) /\ IsSimm32(out), MoveOf(ins, ImmOp(out))>>,
           <<~fl /\ IsZero(out) /\ ToReg(ins), Zeroed(ins, "xor")>>,
           <<~fl /\ GetImm(out) /\ ToReg(ins), MoveOf(ins, ImmOp(out))>> >>

SpecializeAdd64(ins, d, fl) ==
    FirstRule(ins,
        << <<~fl /\ IsZero(d.in[2]), Delete(ins)>> >>
        \o KnownResult(ins, d, fl)
        \o << <<~fl /\ IsZero(d.in[1]) /\ ~From(ins, {"imm"}), MoveOf(ins, ins.ops[2])>>,
              <<From(ins, {"imm"}), NoChange(ins)>>,
              <<Short(d.in[2]), WithOp2(ins, ImmOp(d.in[2]))>>,
              <<IsImm(d.in[2]) /\ ToReg(ins), WithOp2(ins, PoolOp(d.in[2], PtrBytes))>> >>)

(* A known result becomes a load from the pool, a known right side an      *)
(* operand in the pool; packed results of 0 are xored.                     *)
ToPool(ins, d, load) ==
    LET n == Width(ins.ops[1])
    IN  << <<IsImm(d.out[1]), As(ins, load, <<Written(ins.ops[1]), PoolOp(d.out[1], n)>>)>>,
           <<IsImm(d.in[2]), WithOp2(ins, PoolOp(d.in[2], n))>> >>
ZeroResult(ins, d) == << <<d.out[1] = Imm(0), Zeroed(ins, "pxor")>> >>

SpecializeAddpd(ins, d) == FirstRule(ins, ZeroResult(ins, d) \o ToPool(ins, d, "mov"))
SpecializeAddsd(ins, d) == FirstRule(ins, ToPool(ins, d, "movsd"))
SpecializeMulpd(ins, d) == FirstRule(ins, ZeroResult(ins, d) \o ToPool(ins, d, "mov"))
SpecializeMulsd(ins, d) == FirstRule(ins, ToPool(ins, d, "movsd"))
SpecializePxor(ins, d) ==
    FirstRule(ins, << <<SameReg(ins), NoChange(ins)>> >> \o ToPool(ins, d, "mov"))

SpecializeCmp(ins, d) ==
    FirstRule(ins, << <<GetImm(d.in[2]), WithOp2(ins, ImmOp(d.in[2]))>> >>)

SpecializeCmp64(ins, d) ==
    FirstRule(ins,
        << <<Short(d.in[2]), WithOp2(ins, ImmOp(d.in[2]))>>,
           <<IsImm(d.in[2]) /\ ToReg(ins) /\ From(ins, {"reg", "mem"}),
             WithOp2(ins, PoolOp(d.in[2], PtrBytes))>> >>)

SpecializeLea64(ins, d, fl) ==
    FirstRule(ins,
        << <<d.out[1] = Imm(0) /\ ~fl, Zeroed(ins, "xor")>>,
           <<GetImm(d.out[1]), MoveOf(ins, ImmOp(d.out[1]))>> >>)

SpecializeLea32(ins, d) ==
    FirstRule(ins, << <<GetImm(d.out[1]), MoveOf(ins, ImmOp(d.out[1]))>> >>)

(* A register moved to itself goes, whatever its width.                    *)
SpecializeMov32(ins, d) ==
    FirstRule(ins,
        << <<SameReg(ins), Delete(ins)>>,
           <<GetImm(d.in[2]), WithOp2(ins, ImmOp(d.in[2]))>> >>)

SpecializeMov64_Any(ins, d) ==
    FirstRule(ins,
        << <<SameReg(ins), Delete(ins)>>,
           <<GetImm(d.in[2]) /\ (ToReg(ins) \/ IsSimm32(d.in[2])), WithOp2(ins, ImmOp(Imm(Val(d.in[2]))))>> >>)
SpecializeMov64(ins, d) ==
    FirstRule(ins,
        << <<SameReg(ins), Delete(ins)>>,
           <<GetImm(d.in[2]) /\ (ToReg(ins) \/ IsSimm32(d.in[2])), WithOp2(ins, ImmOp(d.in[2]))>> >>)

LoadFromPool(ins, d) ==
    << <<IsImm(d.out[1]) /\ ToReg(ins) /\ From(ins, {"mem", "pool"}),
         WithOp2(ins, PoolOp(d.out[1], Width(ins.ops[1])))>> >>
SelfMove(ins) == << <<SameReg(ins), Delete(ins)>> >>

SpecializeMovapd(ins, d) ==
    FirstRule(ins, SelfMove(ins) \o ZeroResult(ins, d) \o LoadFromPool(ins, d))
SpecializeMovupd(ins, d) ==
    FirstRule(ins, SelfMove(ins) \o ZeroResult(ins, d) \o LoadFromPool(ins, d))
SpecializeMovups(ins, d) == FirstRule(ins, SelfMove(ins) \o LoadFromPool(ins, d))

SpecializeMovsd(ins, d) ==
    FirstRule(ins, SelfMove(ins) \o LoadFromPool(ins, d)
        \o << <<IsImm(d.out[1]) /\ ToMem(ins) /\ IsSimm32(d.out[1]), MoveOf(ins, ImmOp(d.out[1]))>> >>)

(* The changes made for a pop never leave the callback.                    *)
SpecializePop(ins, d) == NoChange(ins)

PushImm(ins, d) == Change([ins EXCEPT !.ops[1] = ImmOp(d.in[1])])
SpecializePush16(ins, d) == FirstRule(ins, << <<GetImm(d.in[1]), PushImm(ins, d)>> >>)
SpecializePush64(ins, d) == FirstRule(ins, << <<Short(d.in[1]), PushImm(ins, d)>> >>)

SpecializeSh64_AnyFlags(ins, d, fl) ==
    FirstRule(ins,
        << <<IsZero(d.in[2]), Delete(ins)>> >>
        \o KnownResult(ins, d, FALSE)
        \o << <<From(ins, {"reg"}) /\ GetImm(d.in[2]), WithOp2(ins, ImmOp(d.in[2]))>> >>)
SpecializeSh64(ins, d, fl) ==
    FirstRule(ins,
        << <<IsZero(d.in[2]), Delete(ins)>> >>
        \o KnownResult(ins, d, fl)
        \o << <<From(ins, {"reg"}) /\ GetImm(d.in[2]), WithOp2(ins, ImmOp(d.in[2]))>> >>)

(* Operands may be switched to make the left one an immediate.             *)
SpecializeTest(ins, d) ==
    LET fits(v) == GetImm(v) /\ (ins.spec = "test" \/ IsSimm32(v))
    IN  FirstRule(ins,
            << <<SameReg(ins), NoChange(ins)>>,
               <<fits(d.in[2]), WithOp2(ins, ImmOp(d.in[2]))>>,
               <<fits(d.in[1]), Change([ins EXCEPT !.ops[1] = ins.ops[2], !.ops[2] = ImmOp(d.in[1])])>> >>)

SpecializeXor32(ins, d, fl) ==
    FirstRule(ins,
        << <<SameReg(ins), NoChange(ins)>>,
           <<IsZero(d.in[2]) /\ ~fl, Delete(ins)>>,
           <<GetImm(d.in[2]) /\ From(ins, {"reg", "mem"}), WithOp2(ins, ImmOp(d.in[2]))>> >>)

SpecializeXor64(ins, d, fl) ==
    FirstRule(ins,
        << <<SameReg(ins), NoChange(ins)>>,
           <<IsZero(d.in[2]) /\ ~fl, Delete(ins)>>,
           <<Short(d.in[2]) /\ From(ins, {"reg", "mem"}), WithOp2(ins, ImmOp(d.in[2]))>>,
           <<IsImm(d.in[2]) /\ ~IsSimm32(d.in[2]) /\ ToReg(ins) /\ From(ins, {"reg", "mem"}),
             WithOp2(ins, PoolOp(d.in[2], PtrBytes))>> >>)

(* handleInstruction() of the pass: the callback of the opcode, if any.    *)
Specialize(ins, d, fl) ==
    CASE ins.spec = "add64" -> SpecializeAdd64(ins, d, fl)
      [] ins.spec = "addpd" -> SpecializeAddpd(ins, d)
      [] ins.spec = "addsd" -> SpecializeAddsd(ins, d)
      [] ins.spec = "mulpd" -> SpecializeMulpd(ins, d)
      [] ins.spec = "mulsd" -> SpecializeMulsd(ins, d)
      [] ins.spec = "pxor" -> SpecializePxor(ins, d)
      [] ins.spec = "cmp" -> SpecializeCmp(ins, d)
      [] ins.spec = "cmp64" -> SpecializeCmp64(ins, d)
      [] ins.spec = "lea64" -> SpecializeLea64(ins, d, fl)
      [] ins.spec = "lea32" -> SpecializeLea32(ins, d)
      [] ins.spec = "mov32" -> SpecializeMov32(ins, d)
      [] ins.spec = "mov64" -> SpecializeMov64(ins, d)
      [] ins.spec = "movapd" -> SpecializeMovapd(ins, d)
      [] ins.spec = "movupd" -> SpecializeMovupd(ins, d)
      [] ins.spec = "movups" -> SpecializeMovups(ins, d)
      [] ins.spec = "movsd" -> SpecializeMovsd(ins, d)
      [] ins.spec = "pop" -> SpecializePop(ins, d)
      [] ins.spec = "push16" -> SpecializePush16(ins, d)
      [] ins.spec = "push64" -> SpecializePush64(ins, d)
      [] ins.spec = "sh64" -> SpecializeSh64(ins, d, fl)
      [] ins.spec = "test" -> SpecializeTest(ins, d)
      [] ins.spec = "test64" -> SpecializeTest(ins, d)
      [] ins.spec = "xor32" -> SpecializeXor32(ins, d, fl)
      [] ins.spec = "xor64" -> SpecializeXor64(ins, d, fl)
      [] OTHER -> NoChange(ins)

=============================================================================
