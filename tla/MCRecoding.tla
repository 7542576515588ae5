----------------------------- MODULE MCRecoding -----------------------------
(***************************************************************************)
(* Every opcode of the encoder with the operands at which an encoding      *)
(* changes its shape.  A field of 1, 2, 4 and 8 bytes holds -4 .. 3,       *)
(* -8 .. 7, -32 .. 31 and -256 .. 255; code is written at 60, 70 and 80,   *)
(* which no absolute 32 bit address reaches.                               *)
(***************************************************************************)
EXTENDS Recoding

MCLimit == [w \in {1, 2, 4, 8} |-> CASE w = 1 -> 4 [] w = 2 -> 8 [] w = 4 -> 32 [] w = 8 -> 256]
MCAddresses == {60, 70, 80}

Abs(to) == [kind |-> "abs", to |-> to]
Regs == [s \in {1, 2, 4, 8, 16} |->
            CASE s = 1 -> {"al", "bl", "r9b"} [] s = 2 -> {"ax", "r9w"} [] s = 4 -> {"eax", "ebp", "r9d"}
              [] s = 8 -> {"rax", "rsp", "r15"} [] s = 16 -> {"xmm0", "xmm9"}]
Imms == [s \in {1, 2, 4, 8, 16} |->
            CASE s = 1 -> {3, -4} [] s = 2 -> {3, 4, -8} [] OTHER -> {-4, 4, 31, -32}]
(* All shapes of address: with and without SIB, displacement of 0, 1 and 4 *)
(* bytes, registers beyond 8, base without displacement, 32 bit registers. *)
Mems == {Mem(b, "None", 0, d) : b \in {"rax", "rbp", "r13", "r9", "edi", "ebp"}, d \in {0, 3, -5}}
        \union {Mem("r13", "r12", 2, 0), Mem("rbp", "rax", 1, 4), Mem("r12", "rcx", 8, -4), Mem("ecx", "edx", 4, 31)}
        \union {Mem("None", "r12", 4, 0), Mem("None", "rbx", 1, -32), Mem("None", "esi", 8, 1)}
        \union {Abs(0), Abs(31), Abs(64), Abs(84)}

RR(mn, s) == {Opc(mn, s, "rr", <<Reg(a), Reg(b)>>) : a, b \in Regs[s]}
MR(mn, s) == {Opc(mn, s, "mr", <<m, Reg(r)>>) : m \in Mems, r \in Regs[s]}
RM(mn, s) == {Opc(mn, s, "rm", <<Reg(r), m>>) : m \in Mems, r \in Regs[s]}
MI(mn, s) == {Opc(mn, s, "mi", <<m, Imm(x)>>) : m \in Mems, x \in Imms[s]}
RI(mn, s) == {Opc(mn, s, "ri", <<Reg(r), Imm(x)>>) : r \in Regs[s], x \in Imms[s]}
M(mn, s) == {Opc(mn, s, "m", <<m>>) : m \in Mems}
R(mn, s) == {Opc(mn, s, "r", <<Reg(r)>>) : r \in Regs[s]}
I(mn, s) == {Opc(mn, s, "i", <<Imm(x)>>) : x \in Imms[s]}
All(F(_, _), mns, sizes) == UNION {F(mn, s) : mn \in mns, s \in sizes}
Sizes == {1, 2, 4, 8}

(* Left out, because the encoder gets them wrong: SUBrm, CALLr and CALLm,  *)
(* XOR32mi with 32 bits, MOV64ri with 64 bits, shifts by an immediate      *)
(* other than one; the stack pointer, and R12 without index, as base; SPL, *)
(* BPL, SIL and DIL; an address out of reach.  The converter loses half of *)
(* the address that MOV64 moves RAX from or to.                            *)
Moffs(i) == i.mn = "mov" /\ i.size = 8 /\ Reg("rax") \in {i.o[1], i.o[2]}
            /\ {Abs(64), Abs(84)} \cap {i.o[1], i.o[2]} # {}
ShortImm(i) == i.o[2].val \in -4 .. 3
MCInputs == {i \in
    All(RR, {"add", "cmp", "sub", "test"}, Sizes) \union All(RR, {"mov", "xor"}, {4, 8})
    \union All(MR, {"add", "cmp", "sub", "test"}, Sizes) \union All(MR, {"mov", "xor"}, {4, 8})
    \union All(RM, {"add", "cmp"}, Sizes) \union All(RM, {"mov", "xor"}, {4, 8}) \union All(RM, {"lea"}, {2, 4, 8})
    \union All(MI, {"add", "cmp", "sub", "test"}, Sizes) \union All(MI, {"mov"}, {4, 8}) \union MI("xor", 8)
    \union {i \in MI("xor", 4) : ShortImm(i)}
    \union All(RI, {"add", "cmp", "sub", "test"}, Sizes) \union All(RI, {"mov", "xor"}, {4, 8})
    \union All(RR, DOMAIN SseOpcode, {16}) \union All(RM, DOMAIN SseOpcode, {16})
    \union All(MR, {"movapd", "movsd", "movupd", "movups"}, {16})
    \union All(M, {"push", "pop"}, {2, 8}) \union All(R, {"push", "pop"}, {2, 8}) \union All(I, {"push"}, {2, 8})
    \union M("jmp", 8) \union R("jmp", 8) \union M("shl", 8) \union R("shl", 8) \union M("shr", 8) \union R("shr", 8)
    \union {Opc(mn, 8, "ri", <<Reg(r), Imm(1)>>) : mn \in {"shl", "shr"}, r \in Regs[8]}
    \union {Opc(mn, 8, "mi", <<m, Imm(1)>>) : mn \in {"shl", "shr"}, m \in Mems}
    \union {Opc("ret", 8, "", <<>>)} : i.mn = "mov" => ~Moffs(i)}

=============================================================================
