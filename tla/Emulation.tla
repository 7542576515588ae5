----------------------------- MODULE Emulation ------------------------------
(***************************************************************************)
(* Instruction::emulate() (src/src/Instruction.cpp) and the emulators of   *)
(* the opcodes (src/src/x86/Emulator.cpp) on a program state.              *)
(*                                                                         *)
(* An instruction is [emu, ops, can, refine, pred]: the emulator of its    *)
(* opcode, its operands, explicit ones first, what the emulator can handle *)
(* ("Full", "Ptr", "Imm", or "None" for an opcode without emulator), how   *)
(* modes are refined and the predicate, or Always.  emu = "nasty" is an    *)
(* instruction without opcode info.  Flags are CF, ZF and OF; ZF also      *)
(* stands for PF and SF, which the same emulators write.                   *)
(***************************************************************************)
EXTENDS ProgramState, Sequences

CONSTANTS UsrPtrCfg,    \* pointer parameter -> [isKnown, isConst, val]
          HostMem       \* constant host memory: address -> byte

ASSUME HostAssumption == \A a \in DOMAIN HostMem : HostMem[a] \in 0 .. Radix - 1

Reads == {"Read", "MayRead", "ReadWrite", "MayReadWrite"}
Writes == {"Write", "MayWrite", "ReadWrite", "MayReadWrite"}
Conditional == {"MayRead", "MayWrite", "MayReadWrite"}
Modes == Reads \cup Writes \cup {"Address", "None"}

(* A register operand is read as part r and written as part w of reg;      *)
(* memory is at base + scale * index + disp; "pool" is memory of the       *)
(* constant pool.                                                          *)
Operands ==
         [kind : {"reg"}, reg : DOMAIN RegInfo, r : DOMAIN PartOf, w : DOMAIN PartOf, mode : Modes]
    \cup [kind : {"imm"}, imm : Values, mode : Modes]
    \cup [kind : {"pool"}, imm : Values, n : Nat, mode : Modes]
    \cup [kind : {"mem"}, base : DOMAIN RegInfo \cup {"None"}, index : DOMAIN RegInfo \cup {"None"},
          scale : Int, disp : Values, n : Nat, mode : Modes]

(* How many operands an emulator looks at.                                 *)
Arity == [mov |-> 2, movsd |-> 2, lea |-> 2, add |-> 2, sub |-> 2, cmp |-> 2, test |-> 2, shl |-> 2,
          shr |-> 2, xor |-> 2, pxor |-> 2, addsd |-> 2, addpd |-> 2, push |-> 3, pop |-> 3, call |-> 2, ret |-> 1]
(* The instructions the emulators are written for.                         *)
WellFormed(ins) ==
    /\ ins.ops \in Seq(Operands)
    /\ ins.can # "None" => ins.emu \in DOMAIN Arity
    /\ ins.emu \in DOMAIN Arity => Len(ins.ops) >= Arity[ins.emu]
    /\ ins.emu \in {"push", "pop"} => ins.ops[3].kind = "mem"
    /\ ins.refine = "xor_rr" => Len(ins.ops) >= 2

-----------------------------------------------------------------------------
(* Operands.                                                               *)

(* calculateMemPtr(): base + scale * index + disp, from any three values.  *)
CalculateMemPtr(base, index, op) ==
    AddDynamicValues(op.disp, AddDynamicValues(base, MultiplyDynamicValue(index, op.scale)))

(* createMemAccess(): no register counts as 0.                             *)
AddrValue(p, r) == IF r = "None" THEN Imm(0) ELSE GetRegister(p, r, "Full")
PtrVal(p, op) == CalculateMemPtr(AddrValue(p, op.base), AddrValue(p, op.index), op)

Constant(addr, n) == \A k \in 0 .. n - 1 : addr + k \in DOMAIN HostMem
(* What is not in HostMem is 0.                                            *)
HostByte(addr) == IF addr \in DOMAIN HostMem THEN HostMem[addr] ELSE 0
HostValue(addr, n) ==
    LET sum[k \in 0 .. n] == IF k = 0 THEN 0 ELSE sum[k - 1] * Radix + HostByte(addr + n - k)
    IN  sum[n]
HostAddr(ptr) ==
    IF IsImm(ptr) THEN Getimm64(ptr) ELSE UsrPtrCfg[ptr.nr].val + Signed(ptr.val)
ReadsConstant(ptr, n) ==
    \/ IsImm(ptr) /\ Constant(HostAddr(ptr), n)
    \/ /\ ptr.type = "UsrPtr"
       /\ UsrPtrCfg[ptr.nr].isKnown
       /\ UsrPtrCfg[ptr.nr].isConst \/ Constant(HostAddr(ptr), n)

EmulateReadAccess(p, ptr, n) ==
    CASE ptr.type = "Tainted" -> Plain("Tainted")
      [] ptr.type = "StackPtr" -> GetStack(p, Signed(ptr.val), n)
      [] ptr.type \in {"Immediate", "UsrPtr"} /\ ReadsConstant(ptr, n) ->
            Imm(HostValue(HostAddr(ptr), n))
      [] OTHER -> Plain("Unknown")

(* createDynOpInfo(): the input of an operand, 0 if it has none.           *)
Input(p, op) ==
    CASE op.kind \in {"imm", "pool"} -> op.imm
      [] op.kind = "reg" /\ op.mode \in Reads -> GetRegister(p, op.reg, op.r)
      [] op.kind = "mem" /\ op.mode \in Reads -> EmulateReadAccess(p, PtrVal(p, op), op.n)
      [] op.kind = "mem" /\ op.mode = "Address" -> PtrVal(p, op)
      [] OTHER -> Imm(0)
IsInput(op) == op.kind \in {"imm", "pool"} \/ op.mode \in Reads \/ (op.kind = "mem" /\ op.mode = "Address")

(* refine_xor_rr() and refine_sh().                                        *)
Refine(p, ins) ==
    LET ops == ins.ops
        equal == ops[1].reg = ops[2].reg
        by(count) == IF ~IsImm(count) THEN "MayWrite" ELSE IF count.val = 0 THEN "None" ELSE "Write"
        flags == by(IF ops[2].kind = "imm" THEN ops[2].imm ELSE GetRegister(p, ops[2].reg, "Full"))
    IN  CASE ins.refine = "xor_rr" ->
                [ops EXCEPT ![1].mode = IF equal THEN "Write" ELSE "ReadWrite",
                            ![2].mode = IF equal THEN "None" ELSE "Read"]
          [] ins.refine = "sh" ->
                [k \in DOMAIN ops |-> IF k > 2 THEN [ops[k] EXCEPT !.mode = flags] ELSE ops[k]]
          [] OTHER -> ops

-----------------------------------------------------------------------------
(* TriState (src/src/Utils.hpp) and willExecute().                         *)
TriAnd(l, r) == CASE l = "True" /\ r = "True" -> "True"
                  [] "False" \in {l, r} -> "False"
                  [] OTHER -> l
TriOr_KeepsFirst(l, r) == IF "True" \in {l, r} THEN "True" ELSE l
TriOr(l, r) == CASE "True" \in {l, r} -> "True"
                 [] "True" \notin {l, r} /\ "Unknown" \in {l, r} -> "Unknown"
                 [] OTHER -> l

(* A predicate is [first, con, second] of comparisons [lhs, equal, rhs].   *)
Always == [con |-> "Always"]
Compare(c, lhs, rhs) ==
    IF ~IsImm(lhs) \/ ~IsImm(rhs) THEN "Unknown"
    ELSE IF (lhs.val = rhs.val) = c.equal THEN "True" ELSE "False"
Side(p, x) == IF x \in DOMAIN RegInfo THEN GetRegister(p, x, "Full") ELSE Imm(IF x = "0" THEN 0 ELSE 1)
WillExecute(p, pred) ==
    LET holds(c) == Compare(c, Side(p, c.lhs), Side(p, c.rhs))
        joined(x, y) == CASE pred.con = "None" -> x
                          [] pred.con = "And" -> TriAnd(x, y)
                          [] pred.con = "Or" -> TriOr(x, y)
    IN  IF pred.con = "Always" THEN "True" ELSE joined(holds(pred.first), holds(pred.second))

-----------------------------------------------------------------------------
(* What the host computes for n byte immediates: the emulators execute the *)
(* instruction itself (asm volatile).                                      *)
HostBits == 8           \* bound: bits of the widest value, of 2 * PtrBytes bytes

Bitwise(f(_, _), a, b) ==
    LET sum[k \in 0 .. HostBits] ==
            IF k = 0 THEN 0
            ELSE sum[k - 1] * 2 + f((a \div Power(2, HostBits - k)) % 2, (b \div Power(2, HostBits - k)) % 2)
    IN  sum[HostBits]
Xor(a, b) == LET f(x, y) == (x + y) % 2 IN Bitwise(f, a, b)
And(a, b) == LET f(x, y) == x * y IN Bitwise(f, a, b)

Host(f, a, b, n) ==
    LET m == Power(Radix, n)
    IN  CASE f \in {"add", "addsd", "addpd"} -> (a + b) % m     \* floating point is any function
          [] f \in {"sub", "cmp"} -> (a - b) % m
          [] f \in {"xor", "pxor"} -> Xor(a, b)
          [] f = "test" -> And(a, b)
          [] f = "shl" -> (a * Power(2, b)) % m       \* b is below the width
          [] f = "shr" -> a \div Power(2, b)

(* <<CF, ZF, SF, OF>>; a shift by 0 leaves them alone.                     *)
HostFlags(f, a, b, n) ==
    LET m  == Power(Radix, n)
        Neg(x) == x >= m \div 2
        Flag(c) == IF c THEN 1 ELSE 0
        flags(r) ==
            <<Flag(CASE f = "add" -> a + b >= m
                     [] f \in {"sub", "cmp"} -> a < b
                     [] f = "shl" -> (a * Power(2, b)) % (2 * m) >= m
                     [] f = "shr" -> b > 0 /\ (a \div Power(2, b - 1)) % 2 = 1
                     [] OTHER -> FALSE),
              Flag(r = 0),
              Flag(Neg(r)),
              Flag(CASE f = "add" -> Neg(a) = Neg(b) /\ Neg(r) # Neg(a)
                     [] f \in {"sub", "cmp"} -> Neg(a) # Neg(b) /\ Neg(r) # Neg(a)
                     [] f \in {"shl", "shr"} -> Neg(a) # Neg(r)
                     [] OTHER -> FALSE)>>
    IN  flags(Host(f, a, b, n))

-----------------------------------------------------------------------------
(* The emulators: from the inputs to the outputs of all operands.          *)
Unknown == Plain("Unknown")
WithFlags(v, flags) == <<v, Unknown>> \o flags
WithoutFlags(v) == WithFlags(v, [k \in 1 .. 4 |-> Unknown])
OnHost(f, in, n) ==
    LET on(a, b) == WithFlags(Imm(Host(f, a, b, n)), [k \in 1 .. 4 |-> Imm(HostFlags(f, a, b, n)[k])])
    IN  on(in[1].val % Power(Radix, n), in[2].val % Power(Radix, n))

BothImm(in) == IsImm(in[1]) /\ IsImm(in[2])
TaintOf(vs) == Plain(IF \E k \in DOMAIN vs : vs[k].type \in {"StackPtr", "Tainted"}
                     THEN "Tainted" ELSE "Unknown")

EmulateAdd(in, n) ==
    CASE BothImm(in) -> OnHost("add", in, n)
      [] IsPtr(in[1]) /\ IsImm(in[2]) -> WithoutFlags(Moved(in[1], in[2].val))
      [] IsPtr(in[2]) /\ IsImm(in[1]) -> WithoutFlags(Moved(in[2], in[1].val))
      [] OTHER -> WithoutFlags(TaintOf(in))

(* An immediate minus a pointer is taken for the pointer minus the         *)
(* immediate.                                                              *)
EmulateSub(in, n) ==
    CASE BothImm(in) -> OnHost("sub", in, n)
      [] IsPtr(in[1]) /\ IsImm(in[2]) -> WithoutFlags(Moved(in[1], -in[2].val))
      [] IsPtr(in[2]) /\ IsImm(in[1]) -> WithoutFlags(Moved(in[2], -in[1].val))
      [] OTHER -> WithoutFlags(TaintOf(in))

(* Pointers to one object are compared by their (unsigned) offsets.        *)
EmulateCmp(in, n) ==
    IF BothImm(in) \/ (IsPtr(in[1]) /\ in[1].type = in[2].type /\ in[1].nr = in[2].nr)
    THEN OnHost("cmp", in, n) ELSE WithoutFlags(Unknown)

EmulateTest(in, n) ==
    LET flag(k) == CASE k \in {1, 4} -> Imm(0)
                     [] k \notin {1, 4} /\ BothImm(in) -> OnHost("test", in, n)[2 + k]
                     [] OTHER -> Unknown
    IN  WithFlags(Unknown, [k \in 1 .. 4 |-> flag(k)])

(* Only an immediate shifted by an immediate is shifted at all.            *)
EmulateSh(f, in, n) ==
    LET host  == OnHost(f, in, n)
        count == in[2].val
        val   == CASE BothImm(in) -> host[1]
                   [] in[1].type = "StackPtr" -> Plain("Tainted")
                   [] in[1].type \in {"UsrPtr", "ReturnPtr"} -> Unknown
                   [] OTHER -> in[1]
        known(k) == CASE k = 1 -> Power(2, count) < Power(Radix, n)
                      [] k = 4 -> count = 1
                      [] OTHER -> TRUE
        flag(k) == IF BothImm(in) /\ known(k) THEN host[2 + k] ELSE Unknown
    IN  WithFlags(val, [k \in 1 .. 4 |-> flag(k)])

(* push, pop, call and ret move the stack pointer.                         *)
Bumped(rsp, by) == IF IsImm(rsp) \/ IsPtr(rsp) THEN AddDynamicValues(rsp, Imm(by % Word)) ELSE rsp

Emulator(ins, in, n) ==
    CASE ins.emu \in {"mov", "movsd", "lea"} -> <<in[2]>>
      [] ins.emu = "add" -> EmulateAdd(in, n)
      [] ins.emu = "sub" -> EmulateSub(in, n)
      [] ins.emu = "cmp" -> EmulateCmp(in, n)
      [] ins.emu = "test" -> EmulateTest(in, n)
      [] ins.emu \in {"shl", "shr"} -> EmulateSh(ins.emu, in, n)
      [] ins.emu = "xor" -> OnHost("xor", in, n)
      [] ins.emu \in {"pxor", "addsd", "addpd"} -> <<OnHost(ins.emu, in, n)[1]>>
      [] ins.emu = "push" -> <<Unknown, Bumped(in[2], -ins.ops[3].n), in[1]>>
      [] ins.emu = "pop" -> <<in[3], Bumped(in[2], ins.ops[3].n)>>
      [] ins.emu = "call" -> <<Unknown, Bumped(in[2], -PtrBytes), DynamicValue("ReturnPtr", 1, 0)>>
      [] ins.emu = "ret" -> <<Bumped(in[1], PtrBytes)>>

(* emulate(): the emulator if it can handle the inputs, or emulateGeneric() *)
Width(op) ==
    CASE op.kind = "reg" -> GetRegisterData(op.reg, op.r).n
      [] op.kind = "imm" -> PtrBytes
      [] OTHER -> op.n
Output(ins, ops, in) ==
    LET inputs == {k \in DOMAIN ops : IsInput(ops[k])}
        able   == CASE ins.can = "Full" -> TRUE
                    [] ins.can = "Ptr" -> \A k \in inputs : IsImm(in[k]) \/ IsPtr(in[k])
                    [] ins.can = "Imm" -> \A k \in inputs : IsImm(in[k])
                    [] OTHER -> FALSE
        emulated(outs) == [k \in DOMAIN ops |-> IF k \in DOMAIN outs THEN outs[k] ELSE Unknown]
    IN  IF able THEN emulated(Emulator(ins, in, Width(ops[1])))
        ELSE [k \in DOMAIN ops |-> TaintOf([j \in inputs |-> in[j]])]

WriteOutput_Leaks(p, op, ptr, v, cond) ==
    CASE op.mode \notin Writes \/ ~p.ok -> p
      [] op.mode \in Writes /\ p.ok /\ op.kind = "reg" -> SetRegister(p, op.reg, op.w, v, cond)
      [] op.mode \in Writes /\ p.ok /\ op.kind = "mem" /\ ptr.type = "StackPtr" ->
            SetStack(p, Signed(ptr.val), op.n, v, cond)
      [] OTHER -> IF ptr.type = "Tainted" THEN UntrackedStackAccess(p) ELSE p
(* One output on its way to its operand.                                   *)
WriteOutput(p, op, ptr, v, cond) ==
    CASE op.mode \notin Writes \/ ~p.ok -> p
      [] op.mode \in Writes /\ p.ok /\ op.kind = "reg" -> SetRegister(p, op.reg, op.w, v, cond)
      [] op.mode \in Writes /\ p.ok /\ op.kind = "mem" /\ ptr.type = "StackPtr" ->
            SetStack(p, Signed(ptr.val), op.n, v, cond)
      [] OTHER -> IF "Tainted" \in {ptr.type, v.type} \/ v.type = "StackPtr"
                  THEN UntrackedStackAccess(p) ELSE p

(* performDirectMove(): the same again, byte by byte.                      *)
PerformDirectMove(p, in, ptrIn, out, ptrOut) ==
    CASE in.kind = "reg" /\ out.kind = "reg" -> MoveRegisterRegister(p, in.reg, in.r, out.reg, out.w)
      [] in.kind = "reg" /\ out.kind = "mem" /\ ptrOut.type = "StackPtr" ->
            MoveRegisterStack(p, in.reg, in.r, Signed(ptrOut.val), out.n)
      [] in.kind = "mem" /\ out.kind = "reg" /\ ptrIn.type = "StackPtr" ->
            MoveStackRegister(p, Signed(ptrIn.val), in.n, out.reg, out.w)
      [] in.kind = "mem" /\ out.kind = "mem" /\ ptrIn.type = "StackPtr" /\ ptrOut.type = "StackPtr" ->
            MoveStackStack(p, Signed(ptrIn.val), Signed(ptrOut.val), in.n)
      [] OTHER -> p

DirectMoves == [mov |-> <<2, 1>>, movsd |-> <<2, 1>>, push |-> <<1, 3>>, pop |-> <<3, 1>>]

(* genDynInfo() and the emulator: operands with inputs and outputs.        *)
OperandInfo(p, ins, ops) ==
    LET mem(value(_)) == [k \in DOMAIN ops |-> IF ops[k].kind = "mem" THEN value(ops[k]) ELSE Unknown]
        info(in) ==
            [ops |-> ops, in |-> in, out |-> Output(ins, ops, in),
             ptr |-> mem(LAMBDA op : PtrVal(p, op)),
             base |-> mem(LAMBDA op : AddrValue(p, op.base)),
             index |-> mem(LAMBDA op : AddrValue(p, op.index)),
             willExecute |-> WillExecute(p, ins.pred)]
    IN  info([k \in DOMAIN ops |-> Input(p, ops[k])])
DynInfo(p, ins) == OperandInfo(p, ins, Refine(p, ins))

(* emulate(), once genDynInfo() has returned d.                            *)
EmulateWith(p, ins, d) ==
    LET cond(k) == d.ops[k].mode \in Conditional \/ d.willExecute = "Unknown"
        bad   == \E k \in DOMAIN d.ops :
                    d.ops[k].kind = "mem" /\ d.ops[k].mode \in Reads /\ d.ptr[k].type = "ReturnPtr"
        written[k \in 0 .. Len(d.ops)] ==
            IF k = 0 THEN p ELSE WriteOutput(written[k - 1], d.ops[k], d.ptr[k], d.out[k], cond(k))
        move(done, i, o) ==
            IF done.ok /\ ~cond(o) THEN PerformDirectMove(done, d.ops[i], d.ptr[i], d.ops[o], d.ptr[o])
            ELSE done
    IN  CASE bad -> Fail(p)
          [] ~bad /\ d.willExecute = "False" -> p
          [] ~bad /\ d.willExecute # "False" /\ ins.emu = "nasty" -> NastyInstruction(p)
          [] ~bad /\ d.willExecute # "False" /\ ins.emu \in DOMAIN DirectMoves ->
                move(written[Len(d.ops)], DirectMoves[ins.emu][1], DirectMoves[ins.emu][2])
          [] OTHER -> written[Len(d.ops)]
Emulate(p, ins) == EmulateWith(p, ins, DynInfo(p, ins))

=============================================================================
