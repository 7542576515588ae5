------------------------------ MODULE Machine -------------------------------
(***************************************************************************)
(* The processor, as far as src/src/x86/Emulator.cpp relies on it: what an *)
(* instruction really does.  A byte is [base, nr, off, k]: the number off  *)
(* if base is "num", byte k of a pointer [base, nr, off], or junk, a byte  *)
(* nothing is known of, with nr = 1 if a stack pointer may be part of it.  *)
(* A machine is [reg, stack, leaked]; leaked says that a stack pointer may *)
(* be in memory other than the stack.                                      *)
(***************************************************************************)
EXTENDS Emulation

CONSTANTS StackRange,   \* bound: offsets of the stack bytes
          EntryRegs     \* register -> value at entry, for the parameters

(* Pointers fit the registers they are passed in.                          *)
ASSUME EntryAssumption ==
    /\ "rsp" \in Physical /\ RegInfo["rsp"].bytes = PtrBytes
    /\ \A r \in DOMAIN EntryRegs \cap Physical :
            EntryRegs[r] \in Values /\ (IsPtr(EntryRegs[r]) => RegInfo[r].bytes = PtrBytes)

Num(d) == [base |-> "num", nr |-> 0, off |-> d, k |-> 0]
PtrByte(p, k) == [base |-> p.type, nr |-> p.nr, off |-> p.val, k |-> k]
Junk(type) == [base |-> "junk", nr |-> IF type = "Tainted" THEN 1 ELSE 0, off |-> 0, k |-> 0]
OfStack(b) == b.base = "StackPtr" \/ (b.base = "junk" /\ b.nr = 1)

(* Between bytes and values.                                               *)
CVal(bs) ==
    LET n == Size(bs)
        p == DynamicValue(bs[0].base, bs[0].nr, bs[0].off)
        sum[k \in 0 .. n] == IF k = 0 THEN 0 ELSE sum[k - 1] * Radix + bs[n - k].off
    IN  CASE \A k \in DOMAIN bs : bs[k].base = "num" -> Imm(sum[n])
          [] n = PtrBytes /\ IsPtr(p) /\ \A k \in DOMAIN bs : bs[k] = PtrByte(p, k) -> p
          [] OTHER -> Plain(IF \E k \in DOMAIN bs : OfStack(bs[k]) THEN "Tainted" ELSE "Unknown")

Sure(v) == IsImm(v) \/ IsPtr(v)

ToBytes(v, n) ==
    [k \in 0 .. n - 1 |-> CASE IsImm(v) -> Num(Digit(v.val, k))
                            [] IsPtr(v) -> PtrByte(v, k)
                            [] OTHER -> Junk(v.type)]

CAdd(a, b) ==
    CASE IsImm(a) /\ IsImm(b) -> Imm((a.val + b.val) % Word)
      [] IsPtr(a) /\ IsImm(b) -> DynamicValue(a.type, a.nr, (a.val + b.val) % Word)
      [] IsPtr(b) /\ IsImm(a) -> DynamicValue(b.type, b.nr, (a.val + b.val) % Word)
      [] OTHER -> TaintOf(<<a, b>>)

CSub(a, b) ==
    CASE IsImm(b) -> CAdd(a, Imm((-b.val) % Word))
      [] IsPtr(a) /\ a.type = b.type /\ a.nr = b.nr -> Imm((a.val - b.val) % Word)
      [] OTHER -> TaintOf(<<a, b>>)

CScale(v, scale) ==
    CASE scale = 1 -> v
      [] scale # 1 /\ IsImm(v) -> Imm((scale * v.val) % Word)
      [] OTHER -> TaintOf(<<v>>)

-----------------------------------------------------------------------------
MReg(m, reg, access) ==
    LET part(d) == [k \in 0 .. d.n - 1 |-> m.reg[d.reg][d.o + k]] IN part(GetRegisterData(reg, access))

MPutReg(m, reg, access, bs) ==
    LET rest(x) == IF access = "FullZeroParent" THEN Num(0) ELSE x
        put(d) == [m EXCEPT !.reg[d.reg] = [k \in DOMAIN @ |->
                      IF k - d.o \in 0 .. d.n - 1 THEN bs[k - d.o] ELSE rest(@[k])]]
    IN  put(GetRegisterData(reg, IF access = "FullZeroParent" THEN "Full" ELSE access))

MPtr(m, op) ==
    LET value(r) == IF r = "None" THEN Imm(0) ELSE CVal(MReg(m, r, "Full"))
    IN  CAdd(CAdd(value(op.base), CScale(value(op.index), op.scale)), op.disp)

OnStack(a, n) == a.type = "StackPtr" /\ \A k \in 0 .. n - 1 : Signed(a.val) + k \in StackRange

MLoad(m, a, n) ==
    CASE a.type = "StackPtr" -> [k \in 0 .. n - 1 |-> m.stack[Signed(a.val) + k]]
      [] a.type \in {"Immediate", "UsrPtr"} /\ ReadsConstant(a, n) ->
            [k \in 0 .. n - 1 |-> Num(HostByte(HostAddr(a) + k))]
      [] OTHER -> ToBytes(Plain(IF m.leaked \/ a.type = "Tainted" THEN "Tainted" ELSE "Unknown"), n)

(* A store through a pointer that may lead to the stack spoils all of it.  *)
MStore(m, a, n, bs) ==
    CASE a.type = "StackPtr" ->
            [m EXCEPT !.stack = [o \in StackRange |-> IF o - Signed(a.val) \in 0 .. n - 1
                                                      THEN bs[o - Signed(a.val)] ELSE m.stack[o]]]
      [] a.type = "Tainted" ->
            [m EXCEPT !.stack = [o \in StackRange |-> Junk("Tainted")], !.leaked = TRUE]
      [] OTHER -> [m EXCEPT !.leaked = @ \/ \E k \in DOMAIN bs : OfStack(bs[k])]

Fetched(m, op, a) ==
    CASE op.kind = "imm" -> ToBytes(op.imm, PtrBytes)
      [] op.kind = "pool" -> ToBytes(op.imm, op.n)
      [] op.kind = "reg" -> MReg(m, op.reg, op.r)
      [] op.kind = "mem" /\ op.mode = "Address" -> ToBytes(a, PtrBytes)
      [] OTHER -> MLoad(m, a, op.n)
MFetch(m, op) == Fetched(m, op, MPtr(m, op))
(* a is the address of a memory operand before the instruction.            *)
MPut(m, op, a, bs) == 
    IF op.kind = "reg" THEN MPutReg(m, op.reg, op.w, bs) ELSE MStore(m, a, op.n, bs)

-----------------------------------------------------------------------------
(* The result of f and its flags <<CF, ZF, SF, OF>>.                       *)
MResult(f, a, b, n) ==
    CASE IsImm(a) /\ IsImm(b) -> Imm(Host(f, a.val % Power(Radix, n), b.val % Power(Radix, n), n))
      [] ~(IsImm(a) /\ IsImm(b)) /\ f = "add" -> CAdd(a, b)
      [] ~(IsImm(a) /\ IsImm(b)) /\ f = "sub" -> CSub(a, b)
      [] ~(IsImm(a) /\ IsImm(b)) /\ f \in {"xor", "pxor"} /\ a = b /\ IsPtr(a) -> Imm(0)
      [] OTHER -> TaintOf(<<a, b>>)

MFlags(f, a, b, n, old) ==
    LET bit(v) == ToBytes(v, 1)
        d == Signed(a.val) - Signed(b.val)
        Flag(c) == bit(Imm(IF c THEN 1 ELSE 0))
        unsure(k) == CASE f \in {"shl", "shr"} -> (k = 1 /\ Power(2, b.val) >= Power(Radix, n)) \/ (k = 4 /\ b.val # 1)
                       [] OTHER -> FALSE
    IN  CASE f \in {"shl", "shr"} /\ b = Imm(0) -> old
          [] IsImm(a) /\ IsImm(b) /\ ~(f \in {"shl", "shr"} /\ b = Imm(0)) ->
                [k \in 1 .. 4 |-> IF unsure(k) THEN bit(Unknown)
                                  ELSE bit(Imm(HostFlags(f, a.val % Power(Radix, n), b.val % Power(Radix, n), n)[k]))]
          [] f \in {"cmp", "sub"} /\ IsPtr(a) /\ a.type = b.type /\ a.nr = b.nr ->
                <<Flag(d < 0), Flag(d = 0), Flag(d < 0), Flag(FALSE)>>
          [] f \in {"test", "xor"} /\ ~(IsImm(a) /\ IsImm(b)) ->
                <<Flag(FALSE), bit(Unknown), bit(Unknown), Flag(FALSE)>>
          [] OTHER -> [k \in 1 .. 4 |-> bit(Unknown)]

FlagRegs == <<"CF", "ZF", "SF", "OF">>
MPutFlags(m, fl) ==
    [m EXCEPT !.reg = [r \in DOMAIN m.reg |-> IF \E k \in 1 .. 4 : FlagRegs[k] = r
                                              THEN fl[CHOOSE k \in 1 .. 4 : FlagRegs[k] = r]
                                              ELSE m.reg[r]]]

(* Nothing is known of the machine any more.                               *)
Spoilt(m) == [reg |-> [r \in DOMAIN m.reg |-> [k \in DOMAIN m.reg[r] |-> Junk("Tainted")]],
              stack |-> [o \in StackRange |-> Junk("Tainted")], leaked |-> TRUE]

(* The only element.                                                       *)
The(S) == CHOOSE x \in S : TRUE
Alus == {"add", "sub", "xor", "shl", "shr", "pxor", "addsd", "addpd", "cmp", "test"}
(* What an instruction does, and whether this machine can do it: bs, cs    *)
(* and ds are the bytes of its operands, a and t the addresses of the      *)
(* first and the third.                                                    *)
Computed(m, ins, bs, cs, v, w, a) ==
    LET op   == ins.ops
        n    == Width(op[1])
        old  == [k \in 1 .. 4 |-> m.reg[FlagRegs[k]]]
        same == op[1].kind = "reg" /\ op[2].kind = "reg" /\ op[1].reg = op[2].reg
        (* a value the instruction does not depend on *)
        free(x) == IF ins.refine = "xor_rr" /\ same THEN Imm(0) ELSE x
        result == CASE ins.emu \in {"add", "sub", "xor", "pxor", "shl", "shr"} /\ w = Imm(0) -> bs
                    [] ins.emu \in {"add", "xor", "pxor"} /\ v = Imm(0) -> cs
                    [] OTHER -> ToBytes(MResult(ins.emu, free(v), free(w), n), n)
        put == IF ins.emu \in {"cmp", "test"} THEN m ELSE MPut(m, op[1], a, result)
        flags == IF ins.emu \in {"pxor", "addsd", "addpd"} THEN old
                 ELSE MFlags(ins.emu, free(v), free(w), n, old)
    IN  MPutFlags(put, flags)

(* push, pop, call and ret move the stack pointer first.                   *)
Transferred(m, ins, bs, cs, ds, a, t) ==
    LET op == ins.ops
        rsp == op[IF ins.emu = "ret" THEN 1 ELSE 2].reg
        n == IF ins.emu \in {"push", "pop"} THEN op[3].n ELSE PtrBytes
        by == IF ins.emu \in {"pop", "ret"} THEN n ELSE -n
        bumped == MPutReg(m, rsp, "Full",
                          ToBytes(CAdd(CVal(MReg(m, rsp, "Full")), Imm(by % Word)), PtrBytes))
        stacked(g) == CASE ins.emu = "push" -> MStore(g, t, n, bs)
                        [] ins.emu = "call" ->
                              MStore(g, t, n, ToBytes(DynamicValue("ReturnPtr", 1, 0), n))
                        [] ins.emu = "pop" -> MPutReg(g, op[1].reg, op[1].w, ds)
                        [] ins.emu = "ret" -> g
    IN  CASE ins.emu \in {"mov", "lea"} -> MPut(m, op[1], a, cs)
          [] ins.emu = "movsd" ->       \* a load clears the upper half
                LET clear == op[1].kind = "reg" /\ op[2].kind # "reg"
                IN  MPut(IF clear THEN MPutReg(m, op[1].reg, "H1", ToBytes(Imm(0), Size(cs))) ELSE m,
                         IF clear THEN [op[1] EXCEPT !.w = "H0"] ELSE op[1], a, cs)
          [] ins.emu = "nasty" -> Spoilt(m)
          [] OTHER -> The({stacked(g) : g \in {bumped}})

Execute(m, ins) ==
    LET op == ins.ops
        addr == [k \in DOMAIN op |-> IF op[k].kind = "mem" THEN MPtr(m, op[k]) ELSE Imm(0)]
        with(b, a) ==
            IF ins.emu \in Alus THEN Computed(m, ins, b[1], b[2], CVal(b[1]), CVal(b[2]), a[1])
            ELSE Transferred(m, ins, b[1], b[2], b[3], a[1], a[3])
    IN  The({with(b, a) : b \in {[k \in DOMAIN op |-> MFetch(m, op[k])]}, a \in {addr}})

Executable(m, ins) ==
    \A k \in DOMAIN ins.ops :
        ins.ops[k].kind = "mem" /\ ins.ops[k].mode # "Address" =>
            LET fits(a) == OnStack(a, ins.ops[k].n) \/ a.type # "StackPtr" IN fits(MPtr(m, ins.ops[k]))

(* Whether the machine takes a predicated instruction: "Unknown" if that   *)
(* depends on a junk byte.                                                 *)
Takes(m, pred) ==
    LET side(x) == IF x \in DOMAIN RegInfo THEN CVal(MReg(m, x, "Full"))
                   ELSE Imm(IF x = "0" THEN 0 ELSE 1)
        compare(c, l, r) == IF ~IsImm(l) \/ ~IsImm(r) THEN "Unknown"
                            ELSE IF (l = r) = c.equal THEN "True" ELSE "False"
        holds(c) == compare(c, side(c.lhs), side(c.rhs))
        decided(x, y) ==
            CASE pred.con = "None" -> x
              [] pred.con = "And" -> IF "False" \in {x, y} THEN "False"
                                     ELSE IF "Unknown" \in {x, y} THEN "Unknown" ELSE "True"
              [] pred.con = "Or" -> IF "True" \in {x, y} THEN "True"
                                    ELSE IF "Unknown" \in {x, y} THEN "Unknown" ELSE "False"
    IN  IF pred.con = "Always" THEN "True" ELSE decided(holds(pred.first), holds(pred.second))

-----------------------------------------------------------------------------
(* arch_translate_cfg(): the return address on the stack, the stack        *)
(* pointer, and the parameters; everything else is dead.                   *)
EntryState ==
    LET start == SetStack(InitialState, 0, PtrBytes, DynamicValue("ReturnPtr", 0, 0), FALSE)
        value(r) == IF r = "rsp" THEN DynamicValue("StackPtr", 0, 0) ELSE EntryRegs[r]
    IN  [start EXCEPT !.reg = [r \in Physical |->
            IF r \in {"rsp"} \cup DOMAIN EntryRegs
            THEN SetElements(start.reg[r], 0, RegInfo[r].bytes, value(r), FALSE)
            ELSE start.reg[r]]]
EntryMachine ==
    [reg |-> [r \in Physical |->
                ToBytes(IF r = "rsp" THEN DynamicValue("StackPtr", 0, 0)
                        ELSE IF r \in DOMAIN EntryRegs THEN EntryRegs[r] ELSE Unknown,
                        RegInfo[r].bytes)],
     stack |-> [o \in StackRange |-> IF o \in 0 .. PtrBytes - 1
                                     THEN PtrByte(DynamicValue("ReturnPtr", 0, 0), o)
                                     ELSE Junk("Unknown")],
     leaked |-> FALSE]

=============================================================================
