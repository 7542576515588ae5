----------------------------- MODULE MCMachine ------------------------------
(* Words of two bytes of two bits: rax with its lower half eax, xmm0 of    *)
(* four bytes, and the stack below the return address; operands and        *)
(* instructions on them.                                                   *)
EXTENDS Machine, TLC

MCPtrBytes == 2
MCRadix == 4
Reg(parent, offs, n) == [parent |-> parent, byteOffs |-> offs, bytes |-> n]
MCRegInfo == [rax |-> Reg("rax", 0, 2), eax |-> Reg("rax", 0, 1), ah |-> Reg("rax", 1, 1),
              rcx |-> Reg("rcx", 0, 2), ecx |-> Reg("rcx", 0, 1), rsp |-> Reg("rsp", 0, 2),
              xmm0 |-> Reg("xmm0", 0, 4), xmm1 |-> Reg("xmm1", 0, 4),
              CF |-> Reg("CF", 0, 1), ZF |-> Reg("ZF", 0, 1), SF |-> Reg("SF", 0, 1),
              OF |-> Reg("OF", 0, 1)]
MCStackRange == -4 .. -1
MCUsrPtrCfg == [x \in {0} |-> [isKnown |-> TRUE, isConst |-> TRUE, val |-> 8]]
MCHostMem == [a \in 8 .. 11 |-> a % 4]
MCEntryRegs == [rcx |-> DynamicValue("UsrPtr", 0, 0), xmm0 |-> Plain("Unknown")]

-----------------------------------------------------------------------------
(* Operands: registers, immediates, memory at base + index * scale + disp. *)
R(r, mode) == [kind |-> "reg", reg |-> r, r |-> "Full",
               w |-> IF r \in {"eax", "ecx"} THEN "FullZeroParent" ELSE "Full", mode |-> mode]
I(v) == [kind |-> "imm", imm |-> Imm(v), mode |-> "None"]
MX(base, index, scale, disp, n, mode) ==
    [kind |-> "mem", base |-> base, index |-> index, scale |-> scale,
     disp |-> Imm(disp % Word), n |-> n, mode |-> mode]
M(base, disp, n, mode) == MX(base, "None", 1, disp, n, mode)

Ins(emu, can, ops) == [emu |-> emu, can |-> can, ops |-> ops, refine |-> "none", pred |-> Always]
MCFlags == <<R("CF", "Write"), R("ZF", "Write"), R("SF", "Write"), R("OF", "Write")>>
Mov(dst, src) == Ins("mov", "Full", <<dst, src>>)
Lea(r, src) == Ins("lea", "Full", <<R(r, "Write"), src>>)
Alu(emu, can, dst, src) == Ins(emu, can, <<dst, src>> \o MCFlags)
Push(r) == Ins("push", "Full", <<R(r, "Read"), R("rsp", "ReadWrite"), M("rsp", -2, 2, "Write")>>)
Pop(r) == Ins("pop", "Full", <<R(r, "Write"), R("rsp", "ReadWrite"), M("rsp", 0, 2, "Read")>>)
Nasty == Ins("nasty", "None", <<>>)
Refined(ins, how) == [ins EXCEPT !.refine = how]

Sp(ins, spec) == ins @@ [spec |-> spec]
RW(r) == R(r, "ReadWrite")
RR(r) == R(r, "Read")
RW1(r) == R(r, "Write")
X(mode) == [R("xmm0", mode) EXCEPT !.r = "H0", !.w = "H0"]
Top(n, mode) == M("rsp", -n, n, mode)
XorRR(ins) == Refined(ins, "xor_rr")

-----------------------------------------------------------------------------
(* src/src/x86/Predicate.cpp; L also stands for NL, NB for B, and so on.   *)
(* NBE and NLE are left out: True & Unknown is True for TriState.          *)
Cmp(lhs, equal, rhs) == [lhs |-> lhs, equal |-> equal, rhs |-> rhs]
One(c) == [con |-> "None", first |-> c, second |-> c]
B == One(Cmp("CF", TRUE, "1"))
NZ == One(Cmp("ZF", TRUE, "0"))
L == One(Cmp("SF", FALSE, "OF"))
NO == One(Cmp("OF", TRUE, "0"))
RCX0 == One(Cmp("rcx", TRUE, "0"))
BE == [con |-> "Or", first |-> Cmp("CF", TRUE, "1"), second |-> Cmp("ZF", TRUE, "1")]
LE == [con |-> "Or", first |-> Cmp("ZF", TRUE, "1"), second |-> Cmp("SF", FALSE, "OF")]
MCPredicates == {B, NZ, L, NO, RCX0, BE, LE}
=============================================================================
