----------------------------- MODULE Converter ------------------------------
(***************************************************************************)
(* From what the XED library decoded to drob's opcode and operands         *)
(* (src/src/x86/Converter.cpp, src/src/x86/Decoder.cpp).  "None" is an     *)
(* instruction drob does not model (Opcode::NONE), "Assert" one it cannot  *)
(* survive, "Throw" one that makes rewriting fail.                         *)
(***************************************************************************)
EXTENDS Isa

(* translate_regop(): the registers among the operands, in their order.    *)
TranslateReg(reg) == IF reg = "INVALID" THEN "None" ELSE reg
RegOp(d, n) == Reg(TranslateReg(SelectSeq(d.ops, LAMBDA op : op.kind = "reg")[n].reg))

(* translate_memop(): an address without registers loses its upper half    *)
(* and its sign, (uint32_t).                                               *)
Unsigned32(x) == x % (2 * Limit[4])
TranslateMemop_Distance(d, addr) ==
    LET m == SelectSeq(d.ops, LAMBDA op : op.kind = "mem")[1]
    IN  CASE m.base = "rip" -> [kind |-> "abs", to |-> Trunc(8, addr + m.disp)]
          [] m.base = "INVALID" /\ m.index = "INVALID" -> [kind |-> "abs", to |-> Unsigned32(m.disp)]
          [] OTHER -> Mem(TranslateReg(m.base), TranslateReg(m.index), m.scale, m.disp)
TranslateMemop(d, addr) ==
    LET m == SelectSeq(d.ops, LAMBDA op : op.kind = "mem")[1]
    IN  CASE m.base = "rip" -> [kind |-> "abs", to |-> Trunc(8, addr + d.len + m.disp)]
          [] m.base = "INVALID" /\ m.index = "INVALID" -> [kind |-> "abs", to |-> Unsigned32(m.disp)]
          [] OTHER -> Mem(TranslateReg(m.base), TranslateReg(m.index), m.scale, m.disp)

TranslateImm(d) == SelectSeq(d.ops, LAMBDA op : op.kind = "imm")[1]
HasImm(d) == \E k \in DOMAIN d.ops : d.ops[k].kind = "imm"
IsMemop(d, n) == n \in DOMAIN d.ops /\ d.ops[n].kind = "mem"

TranslateMr(d, addr) == <<TranslateMemop(d, addr), RegOp(d, 1)>>
TranslateRm(d, addr) == <<RegOp(d, 1), TranslateMemop(d, addr)>>
TranslateRr(d) == <<RegOp(d, 1), RegOp(d, 2)>>
TranslateMi(d, addr) == <<TranslateMemop(d, addr), TranslateImm(d)>>
TranslateRi(d) == <<RegOp(d, 1), TranslateImm(d)>>

Opc(mn, size, form, o) == [mn |-> mn, size |-> size, form |-> form, o |-> o]
Unmodelled(why) == Opc(why, 0, "", <<>>)

-----------------------------------------------------------------------------
ConvertRm(d, addr, size) == Opc(d.mn, size, "rm", TranslateRm(d, addr))

ConvertRmRr(d, addr, size) ==
    IF IsMemop(d, 2) THEN Opc(d.mn, size, "rm", TranslateRm(d, addr)) ELSE Opc(d.mn, size, "rr", TranslateRr(d))

ConvertMR(d, addr, size) ==
    IF IsMemop(d, 1) THEN Opc(d.mn, size, "m", <<TranslateMemop(d, addr)>>) ELSE Opc(d.mn, size, "r", <<RegOp(d, 1)>>)

ConvertMRI(d, addr, size) ==
    IF ~IsMemop(d, 1) /\ HasImm(d) THEN Opc(d.mn, size, "i", <<TranslateImm(d)>>) ELSE ConvertMR(d, addr, size)

ConvertMrRmRr(d, addr, size) ==
    CASE IsMemop(d, 2) -> Opc(d.mn, size, "rm", TranslateRm(d, addr))
      [] ~IsMemop(d, 2) /\ IsMemop(d, 1) -> Opc(d.mn, size, "mr", TranslateMr(d, addr))
      [] OTHER -> Opc(d.mn, size, "rr", TranslateRr(d))

ConvertMrMiRrRi(d, addr, size) ==
    CASE IsMemop(d, 1) /\ HasImm(d) -> Opc(d.mn, size, "mi", TranslateMi(d, addr))
      [] IsMemop(d, 1) /\ ~HasImm(d) -> Opc(d.mn, size, "mr", TranslateMr(d, addr))
      [] ~IsMemop(d, 1) /\ HasImm(d) -> Opc(d.mn, size, "ri", TranslateRi(d))
      [] OTHER -> Opc(d.mn, size, "rr", TranslateRr(d))

ConvertMrMiRmRrRi(d, addr, size) ==
    IF ~IsMemop(d, 1) /\ IsMemop(d, 2) THEN Opc(d.mn, size, "rm", TranslateRm(d, addr))
    ELSE ConvertMrMiRrRi(d, addr, size)

(* The operand widths of an instruction, and what becomes of the others.   *)
ConvertAdd(d, addr) == ConvertMrMiRmRrRi(d, addr, d.width)
ConvertCmp(d, addr) == ConvertMrMiRmRrRi(d, addr, d.width)
ConvertSub(d, addr) == ConvertMrMiRmRrRi(d, addr, d.width)
ConvertTest(d, addr) == ConvertMrMiRrRi(d, addr, d.width)
ConvertMov(d, addr) == IF d.width \in {4, 8} THEN ConvertMrMiRmRrRi(d, addr, d.width) ELSE Unmodelled("Assert")
ConvertXor(d, addr) == IF d.width \in {4, 8} THEN ConvertMrMiRmRrRi(d, addr, d.width) ELSE Unmodelled("None")
ConvertLea(d, addr) == ConvertRm(d, addr, d.width)
ConvertPop(d, addr) == ConvertMR(d, addr, d.width)
ConvertPush(d, addr) == ConvertMRI(d, addr, d.width)
ConvertCall(d, addr) == ConvertMR(d, addr, 8)
ConvertJmp(d, addr) == ConvertMR(d, addr, 8)
ConvertRet(d, addr) == Opc("ret", 8, "", <<>>)

ConvertShift(d, addr) ==
    CASE d.width # 8 -> Unmodelled("None")
      [] d.width = 8 /\ HasImm(d) -> ConvertMrMiRrRi(d, addr, 8)
      [] OTHER -> ConvertMR(d, addr, 8)
ConvertShl(d, addr) == ConvertShift(d, addr)
ConvertShr(d, addr) == ConvertShift(d, addr)

ConvertSimple(d, addr) ==
    CASE d.mn = "add" -> ConvertAdd(d, addr)
      [] d.mn = "cmp" -> ConvertCmp(d, addr)
      [] d.mn = "sub" -> ConvertSub(d, addr)
      [] d.mn = "xor" -> ConvertXor(d, addr)
      [] d.mn = "test" -> ConvertTest(d, addr)
      [] d.mn = "mov" -> ConvertMov(d, addr)
      [] d.mn = "lea" -> ConvertLea(d, addr)
      [] d.mn = "pop" -> ConvertPop(d, addr)
      [] d.mn = "push" -> ConvertPush(d, addr)
      [] d.mn = "call" -> ConvertCall(d, addr)
      [] d.mn = "jmp" -> ConvertJmp(d, addr)
      [] d.mn = "ret" -> ConvertRet(d, addr)
      [] d.mn = "shl" -> ConvertShl(d, addr)
      [] d.mn = "shr" -> ConvertShr(d, addr)
      [] d.mn \in {"addpd", "addsd", "mulpd", "mulsd", "pxor"} -> ConvertRmRr(d, addr, 16)
      [] d.mn \in {"movapd", "movsd", "movupd", "movups"} -> ConvertMrRmRr(d, addr, 16)
      [] OTHER -> Unmodelled("None")

IsRipRelative(d) == \E k \in DOMAIN d.ops : d.ops[k].kind = "mem" /\ d.ops[k].base = "rip"

(* convert_decoded() without LOOP: a branch that is not modelled, and an   *)
(* unmodelled instruction that is relative to its address, are refused.    *)
IsControlFlow(d) == d.mn \in {"call", "jmp", "ret"}
ConvertDecoded(d, addr) ==
    LET i == ConvertSimple(d, addr)
    IN  IF i.mn = "None" /\ (IsRipRelative(d) \/ IsControlFlow(d)) THEN Unmodelled("Throw") ELSE i

=============================================================================
