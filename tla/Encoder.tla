------------------------------ MODULE Encoder -------------------------------
(***************************************************************************)
(* Machine code of one instruction (src/src/x86/Encoder.cpp).  Code is a   *)
(* sequence of items [w, v]: one byte, or a displacement or immediate of w *)
(* bytes.  The range of a signed field of w bytes is a parameter, so that  *)
(* TLC sees small numbers; opcodes, ModRM, SIB and REX bytes are real.     *)
(*                                                                         *)
(* An opcode is [mn, size, form]; an operand is a register, an immediate,  *)
(* an absolute address (MemPtrType::Direct) or an address made of base,    *)
(* index, scale and disp (MemPtrType::SIB).                                *)
(***************************************************************************)
EXTENDS Integers, Sequences

CONSTANT Limit      \* bytes -> half of the values of a field of so many bytes

ASSUME LimitAssumption ==
    /\ Limit \in [{1, 2, 4, 8} -> Nat \ {0}]
    /\ Limit[1] < Limit[2] /\ Limit[2] < Limit[4] /\ Limit[4] < Limit[8]

(* int8_t, int16_t, int32_t and int64_t.                                   *)
Trunc(w, x) == ((x + Limit[w]) % (2 * Limit[w])) - Limit[w]
Fits(w, x) == Trunc(w, x) = x
IsSimm8(x) == Fits(1, x)
IsDisp32(x) == Fits(4, x)

Byte(b) == [w |-> 1, v |-> b]
Field(w, x) == [w |-> w, v |-> Trunc(w, x)]
Length(code) ==
    LET sum[n \in 0 .. Len(code)] == IF n = 0 THEN 0 ELSE sum[n - 1] + code[n].w
    IN  sum[Len(code)]
(* drob_assert_not_reached()                                               *)
Broken == <<Byte(-1)>>

-----------------------------------------------------------------------------
(* Registers in the order of their numbers.                                *)
Gprs == [b |-> <<"al", "cl", "dl", "bl", "spl", "bpl", "sil", "dil",
                 "r8b", "r9b", "r10b", "r11b", "r12b", "r13b", "r14b", "r15b">>,
         h |-> <<"al", "cl", "dl", "bl", "ah", "ch", "dh", "bh">>,
         w |-> <<"ax", "cx", "dx", "bx", "sp", "bp", "si", "di",
                 "r8w", "r9w", "r10w", "r11w", "r12w", "r13w", "r14w", "r15w">>,
         d |-> <<"eax", "ecx", "edx", "ebx", "esp", "ebp", "esi", "edi",
                 "r8d", "r9d", "r10d", "r11d", "r12d", "r13d", "r14d", "r15d">>,
         q |-> <<"rax", "rcx", "rdx", "rbx", "rsp", "rbp", "rsi", "rdi",
                 "r8", "r9", "r10", "r11", "r12", "r13", "r14", "r15">>,
         x |-> <<"xmm0", "xmm1", "xmm2", "xmm3", "xmm4", "xmm5", "xmm6", "xmm7",
                 "xmm8", "xmm9", "xmm10", "xmm11", "xmm12", "xmm13", "xmm14", "xmm15">>]
Numbered(s) == {<<s[k], k - 1>> : k \in DOMAIN s}
Numbers == UNION {Numbered(Gprs[c]) : c \in DOMAIN Gprs}
RegNumber == [r \in {p[1] : p \in Numbers} |-> (CHOOSE p \in Numbers : p[1] = r)[2]]

EncodeReg(reg) == RegNumber[reg]

AddrRegs32 == {Gprs.d[k] : k \in 1 .. 8}
AddrRegs64 == {Gprs.q[k] : k \in 1 .. 16}
EncodeAddrReg(reg) == RegNumber[reg]

-----------------------------------------------------------------------------
(* ModRMEncoding: e holds what is put together.  flags are REX.W ("W"),    *)
(* 0x66 and 0xf2.                                                          *)
High(nr) == IF nr >= 8 THEN 1 ELSE 0
Low(nr) == nr % 8
(* REX is written if any of its bits is set.                               *)
Rex(e) == 8 * (IF "W" \in e.flags THEN 1 ELSE 0) + 4 * e.r + 2 * e.x + e.b
Prefixes(e) ==
    (IF "66" \in e.flags THEN <<Byte(\h66)>> ELSE <<>>) \o
    (IF e.is32 THEN <<Byte(\h67)>> ELSE <<>>) \o
    (IF "F2" \in e.flags THEN <<Byte(\hF2)>> ELSE <<>>) \o
    (IF Rex(e) # 0 THEN <<Byte(\h40 + Rex(e))>> ELSE <<>>)
ImmField(imm, w) == IF w = 0 THEN <<>> ELSE <<Field(w, imm)>>

(* modrm: mod and rm; sib and disp are empty unless required.              *)
Write(e) ==
    Prefixes(e) \o [k \in DOMAIN e.oc |-> Byte(e.oc[k])]
    \o <<Byte(64 * e.mod + 8 * e.reg + e.rm)>> \o e.sib \o e.disp \o ImmField(e.imm, e.immLen)

Empty(oc, reg, imm, immLen, flags) ==
    [oc |-> oc, flags |-> flags, is32 |-> FALSE, r |-> High(reg), x |-> 0, b |-> 0,
     mod |-> 0, reg |-> Low(reg), rm |-> 0, sib |-> <<>>, disp |-> <<>>, imm |-> imm, immLen |-> immLen]

Sib(scale, index, base) == <<Byte(64 * scale + 8 * index + base)>>

EncodeMemoryDirect_NoImmediate(e, to, addr) ==
    LET next == addr + Len(Prefixes(e)) + Len(e.oc) + 5
    IN  IF IsDisp32(to) THEN [e EXCEPT !.rm = 4, !.sib = Sib(0, 4, 5), !.disp = <<Field(4, to)>>]
        ELSE [e EXCEPT !.rm = 5, !.disp = <<Field(4, to - next)>>]
(* An address that cannot be reached is only logged (drob_error()).        *)
EncodeMemoryDirect(e, to, addr) ==
    LET ilen == Len(Prefixes(e)) + Len(e.oc) + 5 + e.immLen
        rel  == Trunc(8, to - (addr + ilen))
    IN  CASE IsDisp32(to) -> [e EXCEPT !.rm = 4, !.sib = Sib(0, 4, 5), !.disp = <<Field(4, to)>>]
          [] ~IsDisp32(to) /\ Fits(4, rel) -> [e EXCEPT !.rm = 5, !.disp = <<Field(4, rel)>>]
          [] OTHER -> e

SibScale == [s \in {0, 1, 2, 4, 8} |-> CASE s \in {0, 1} -> 0 [] s = 2 -> 1 [] s = 4 -> 2 [] s = 8 -> 3]
NeedsDisp == {"ebp", "rbp", "r13"}

CompressedDisp(m) ==
    CASE m.disp = 0 /\ m.base \notin NeedsDisp -> [mod |-> 0, disp |-> <<>>]
      [] (m.disp # 0 \/ m.base \in NeedsDisp) /\ IsSimm8(m.disp) ->
            [mod |-> 1, disp |-> <<Field(1, m.disp)>>]
      [] OTHER -> [mod |-> 2, disp |-> <<Field(4, m.disp)>>]

(* The operands that run into an assertion: no register at all, the stack  *)
(* pointer as base, other 32 bit registers, registers of different widths. *)
EncodableAddress(m) ==
    LET used == {m.base, m.index} \ {"None"}
    IN  /\ used # {} /\ m.base \notin {"esp", "rsp"}
        /\ used \subseteq AddrRegs32 \/ used \subseteq AddrRegs64

EncodeMemoryIndirect(e, m) ==
    LET base  == EncodeAddrReg(m.base)
        index == EncodeAddrReg(m.index)
        d     == CompressedDisp(m)
        is32  == {m.base, m.index} \cap AddrRegs32 # {}
    IN  CASE m.index = "None" ->
                [e EXCEPT !.is32 = is32, !.b = High(base), !.mod = d.mod, !.rm = Low(base), !.disp = d.disp]
          [] m.index # "None" /\ m.base = "None" ->
                [e EXCEPT !.is32 = is32, !.x = High(index), !.rm = 4,
                          !.sib = Sib(SibScale[m.scale], Low(index), 5), !.disp = <<Field(4, m.disp)>>]
          [] OTHER ->
                [e EXCEPT !.is32 = is32, !.b = High(base), !.x = High(index), !.mod = d.mod, !.rm = 4,
                          !.sib = Sib(SibScale[m.scale], Low(index), Low(base)), !.disp = d.disp]

ModRMEncoding(oc, reg, rm, imm, immLen, flags, addr) ==
    LET e == Empty(oc, reg, imm, immLen, flags)
    IN  CASE rm.kind = "reg" ->
                Write([e EXCEPT !.b = High(EncodeReg(rm.reg)), !.mod = 3, !.rm = Low(EncodeReg(rm.reg))])
          [] rm.kind = "abs" -> Write(EncodeMemoryDirect(e, rm.to, addr))
          [] rm.kind = "mem" /\ EncodableAddress(rm) -> Write(EncodeMemoryIndirect(e, rm))
          [] OTHER -> Broken

-----------------------------------------------------------------------------
(* write_modrm_*(), write_reg*() and write_imm*(); o are the operands.  A  *)
(* register as r/m operand takes the form of a memory operand.             *)
MReg(oc, o, flags, addr) == ModRMEncoding(oc, EncodeReg(o[2].reg), o[1], 0, 0, flags, addr)
RegM(oc, o, flags, addr) == ModRMEncoding(oc, EncodeReg(o[1].reg), o[2], 0, 0, flags, addr)
MExt(oc, ext, o, flags, addr) == ModRMEncoding(oc, ext, o[1], 0, 0, flags, addr)
MImm(oc, ext, w, o, flags, addr) == ModRMEncoding(oc, ext, o[1], o[2].val, w, flags, addr)

WriteReg(oc, reg, flags) ==
    Prefixes([Empty(<<oc>>, 0, 0, 0, flags) EXCEPT !.b = High(EncodeReg(reg))])
    \o <<Byte(oc + Low(EncodeReg(reg)))>>
WriteRegImm(oc, o, w, flags) == WriteReg(oc, o[1].reg, flags) \o <<Field(w, o[2].val)>>
WriteImm(oc, imm, w, flags) == Prefixes(Empty(<<oc>>, 0, 0, 0, flags)) \o <<Byte(oc), Field(w, imm)>>

-----------------------------------------------------------------------------
(* encode_*(): the callbacks of x86/Opcodes.inc.h; i is the instruction.   *)
SizeFlags == [s \in {1, 2, 4, 8} |-> CASE s = 2 -> {"66"} [] s = 8 -> {"W"} [] OTHER -> {}]
ImmWidth_Full == [s \in {1, 2, 4, 8} |-> s]
ImmWidth == [s \in {1, 2, 4, 8} |-> IF s = 8 THEN 4 ELSE s]
Accumulator == [s \in {1, 2, 4, 8} |-> CASE s = 1 -> "al" [] s = 2 -> "ax" [] s = 4 -> "eax" [] s = 8 -> "rax"]
(* The opcodes of bytes are even, those of the other widths follow them.   *)
ByWidth(size, oc) == <<IF size = 1 THEN oc ELSE oc + 1>>

(* The forms mi and ri of ADD, CMP, SUB and XOR; acc is the register the   *)
(* callback compares with for the short form.                              *)
AluImm(oc, ext, acc, i, addr) ==
    LET flags == SizeFlags[i.size]
        isAcc == i.form = "ri" /\ i.o[1].reg = acc
    IN  CASE i.size > 1 /\ IsSimm8(i.o[2].val) -> MImm(<<\h83>>, ext, 1, i.o, flags, addr)
          [] ~(i.size > 1 /\ IsSimm8(i.o[2].val)) /\ isAcc ->
                WriteImm(ByWidth(i.size, oc + 4)[1], i.o[2].val, ImmWidth[i.size], flags)
          [] OTHER -> MImm(ByWidth(i.size, \h80), ext, ImmWidth[i.size], i.o, flags, addr)

EncodeAdd(i, addr) ==
    CASE i.form \in {"mr", "rr"} -> MReg(ByWidth(i.size, 0), i.o, SizeFlags[i.size], addr)
      [] i.form = "rm" -> RegM(ByWidth(i.size, 2), i.o, SizeFlags[i.size], addr)
      [] i.form \in {"mi", "ri"} -> AluImm(0, 0, Accumulator[i.size], i, addr)

EncodeCmp(i, addr) ==
    CASE i.form \in {"mr", "rr"} -> MReg(ByWidth(i.size, \h38), i.o, SizeFlags[i.size], addr)
      [] i.form = "rm" -> RegM(ByWidth(i.size, \h3A), i.o, SizeFlags[i.size], addr)
      [] i.form \in {"mi", "ri"} ->
            AluImm(\h38, 7, IF i.size = 2 THEN "eax" ELSE Accumulator[i.size], i, addr)

(* The form rm has the opcodes of mr.                                      *)
EncodeSub(i, addr) ==
    CASE i.form \in {"mr", "rr"} -> MReg(ByWidth(i.size, \h28), i.o, SizeFlags[i.size], addr)
      [] i.form = "rm" -> RegM(ByWidth(i.size, \h28), i.o, SizeFlags[i.size], addr)
      [] i.form \in {"mi", "ri"} -> AluImm(\h28, 5, Accumulator[i.size], i, addr)

(* XOR32mi gets REX.W unless the immediate has 8 bits.                     *)
EncodeXor(i, addr) ==
    CASE i.form \in {"mr", "rr"} -> MReg(<<\h31>>, i.o, SizeFlags[i.size], addr)
      [] i.form = "rm" -> RegM(<<\h33>>, i.o, SizeFlags[i.size], addr)
      [] i.form = "mi" /\ i.size = 4 /\ ~IsSimm8(i.o[2].val) -> MImm(<<\h81>>, 6, 4, i.o, {"W"}, addr)
      [] OTHER -> AluImm(\h30, 6, "rax", i, addr)

EncodeTest(i, addr) ==
    LET flags == SizeFlags[i.size]
    IN  CASE i.form = "mr" -> MReg(ByWidth(i.size, \h84), i.o, flags, addr)
          [] i.form = "rr" -> MReg(ByWidth(i.size, \h84), i.o, IF i.size = 1 THEN {"66"} ELSE flags, addr)
          [] i.form = "ri" /\ i.o[1].reg = Accumulator[i.size] ->
                WriteImm(ByWidth(i.size, \hA8)[1], i.o[2].val, ImmWidth[i.size], IF i.size = 1 THEN {"66"} ELSE flags)
          [] OTHER -> MImm(ByWidth(i.size, \hF6), 0, ImmWidth[i.size], i.o, flags, addr)

(* ADDPD, ADDSD, MULPD, MULSD, PXOR128 and the moves of XMM registers.     *)
SseFlags == [addpd |-> {"66"}, addsd |-> {"F2"}, mulpd |-> {"66"}, mulsd |-> {"F2"}, pxor |-> {"66"},
             movapd |-> {"66"}, movsd |-> {"F2"}, movupd |-> {"66"}, movups |-> {}]
SseOpcode == [addpd |-> \h58, addsd |-> \h58, mulpd |-> \h59, mulsd |-> \h59, pxor |-> \hEF,
              movapd |-> \h28, movsd |-> \h10, movupd |-> \h10, movups |-> \h10]
EncodeSse(i, addr) == RegM(<<\h0F, SseOpcode[i.mn]>>, i.o, SseFlags[i.mn], addr)
EncodeSseMov(i, addr) ==
    IF i.form = "mr" THEN MReg(<<\h0F, SseOpcode[i.mn] + 1>>, i.o, SseFlags[i.mn], addr) ELSE EncodeSse(i, addr)

EncodeCall(i, addr) == MExt(<<\hFF>>, 3, i.o, {}, addr)
EncodeJmp(i, addr) == MExt(<<\hFF>>, 4, i.o, {"66"}, addr)
EncodeLea(i, addr) == RegM(<<\h8D>>, i.o, SizeFlags[i.size], addr)

(* moffs64: the only form that reaches every address.                      *)
IsMoffs64(mem, reg) == mem.kind = "abs" /\ reg = "rax" /\ ~IsDisp32(mem.to)
(* MOV64ri looks at op[0] where it means op[1]; stale is what it finds in  *)
(* the bytes of the register operand that nobody wrote.                    *)
EncodeMov(i, addr, stale) ==
    LET flags == SizeFlags[i.size]
    IN  CASE i.form = "mr" /\ i.size = 8 /\ IsMoffs64(i.o[1], i.o[2].reg) ->
                <<Byte(\h48), Byte(\hA3), Field(8, i.o[1].to)>>
          [] i.form = "rm" /\ i.size = 8 /\ IsMoffs64(i.o[2], i.o[1].reg) ->
                <<Byte(\h48), Byte(\hA1), Field(8, i.o[2].to)>>
          [] i.form = "mr" /\ ~(i.size = 8 /\ IsMoffs64(i.o[1], i.o[2].reg)) -> MReg(<<\h89>>, i.o, flags, addr)
          [] i.form = "rm" /\ ~(i.size = 8 /\ IsMoffs64(i.o[2], i.o[1].reg)) -> RegM(<<\h8B>>, i.o, flags, addr)
          [] i.form = "rr" -> MReg(<<\h89>>, i.o, flags, addr)
          [] i.form = "mi" \/ (i.form = "ri" /\ i.size = 8 /\ stale) -> MImm(<<\hC7>>, 0, 4, i.o, flags, addr)
          [] OTHER -> WriteRegImm(\hB8, i.o, i.size, flags)

(* The default width of the stack instructions is 64 bits.                 *)
StackFlags == [s \in {2, 8} |-> IF s = 2 THEN {"66"} ELSE {}]
EncodePop(i, addr) ==
    IF i.form = "m" THEN MExt(<<\h8F>>, 0, i.o, StackFlags[i.size], addr)
    ELSE WriteReg(\h58, i.o[1].reg, StackFlags[i.size])
EncodePush(i, addr) ==
    CASE i.form = "m" -> MExt(<<\hFF>>, 6, i.o, StackFlags[i.size], addr)
      [] i.form = "r" -> WriteReg(\h50, i.o[1].reg, StackFlags[i.size])
      [] i.form = "i" /\ i.size = 8 /\ IsSimm8(i.o[1].val) -> WriteImm(\h6A, i.o[1].val, 1, {})
      [] OTHER -> WriteImm(\h68, i.o[1].val, ImmWidth[i.size], StackFlags[i.size])

(* The test for a shift by one looks at op[2], which nobody writes.        *)
EncodeShift(i, ext, addr, stale) ==
    CASE i.form \in {"m", "r"} -> MExt(<<\hD3>>, ext, i.o, {"W"}, addr)
      [] i.form \in {"mi", "ri"} /\ stale -> MExt(<<\hD1>>, ext, i.o, {"W"}, addr)
      [] OTHER -> MImm(<<\hC1>>, ext, 1, i.o, {"W"}, addr)
EncodeShl(i, addr, stale) == EncodeShift(i, 4, addr, stale)
EncodeShr(i, addr, stale) == EncodeShift(i, 5, addr, stale)

EncodeRet == <<Byte(\hC3)>>

(* opcodeInfo->encode                                                      *)
Encode(i, addr, stale) ==
    CASE i.mn = "add" -> EncodeAdd(i, addr)
      [] i.mn = "cmp" -> EncodeCmp(i, addr)
      [] i.mn = "sub" -> EncodeSub(i, addr)
      [] i.mn = "xor" -> EncodeXor(i, addr)
      [] i.mn = "test" -> EncodeTest(i, addr)
      [] i.mn \in {"addpd", "addsd", "mulpd", "mulsd", "pxor"} -> EncodeSse(i, addr)
      [] i.mn \in {"movapd", "movsd", "movupd", "movups"} -> EncodeSseMov(i, addr)
      [] i.mn = "call" -> EncodeCall(i, addr)
      [] i.mn = "jmp" -> EncodeJmp(i, addr)
      [] i.mn = "lea" -> EncodeLea(i, addr)
      [] i.mn = "mov" -> EncodeMov(i, addr, stale)
      [] i.mn = "pop" -> EncodePop(i, addr)
      [] i.mn = "push" -> EncodePush(i, addr)
      [] i.mn = "shl" -> EncodeShl(i, addr, stale)
      [] i.mn = "shr" -> EncodeShr(i, addr, stale)
      [] i.mn = "ret" -> EncodeRet

=============================================================================
