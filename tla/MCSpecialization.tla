-------------------------- MODULE MCSpecialization --------------------------
(* Instructions of every callback and form, each specialised in all the    *)
(* states that the functions over Preparing reach.  Left out, because the  *)
(* code gets them wrong: the 32 bit moves and XORs that seem to do nothing *)
(* but zero extend, ADDSD and MULSD, and a pointer plus offset that is 0.  *)
EXTENDS MCEmulation, SpecializationSoundness

Adds == {Sp(Alu("add", "Ptr", RW("rax"), RR("rcx")), "add64"),
         Sp(Alu("add", "Ptr", RW("rcx"), RR("rax")), "add64"),
         Sp(Alu("add", "Ptr", RW("rax"), Top(2, "Read")), "add64"),
         Sp(Alu("add", "Ptr", Top(2, "ReadWrite"), RR("rax")), "add64"),
         Sp(Alu("add", "Ptr", Top(2, "ReadWrite"), I(1)), "add64"),
         Sp(Alu("add", "Ptr", RW("rax"), I(0)), "add64")}
Xors == {Sp(XorRR(Alu("xor", "Imm", RW("rax"), RR("rax"))), "xor64"),
         Sp(XorRR(Alu("xor", "Imm", RW("rcx"), RR("rax"))), "xor64"),
         Sp(Alu("xor", "Imm", Top(2, "ReadWrite"), RR("rax")), "xor64"),
         Sp(Alu("xor", "Imm", RW("rax"), I(0)), "xor64"),
         Sp(Alu("xor", "Imm", Top(1, "ReadWrite"), RR("eax")), "xor32")}
Shifts == {Sp(Refined(Alu(sh, "Full", RW("rax"), c), "sh"), "sh64") :
                sh \in {"shl", "shr"}, c \in {I(0), I(1)}}
       \cup {Sp(Refined(Alu("shr", "Full", Top(2, "ReadWrite"), I(2)), "sh"), "sh64")}
Compares == {Sp(Alu("cmp", "Imm", RR("eax"), RR("ecx")), "cmp"),
             Sp(Alu("cmp", "Ptr", RR("rcx"), RR("rax")), "cmp64"),
             Sp(Alu("cmp", "Ptr", Top(2, "Read"), RR("rax")), "cmp64"),
             Sp(Alu("test", "Full", RR("rax"), RR("rcx")), "test64"),
             Sp(Alu("test", "Full", RR("ecx"), RR("eax")), "test"),
             Sp(Alu("test", "Full", Top(2, "Read"), RR("rax")), "test64")}
Moves == {Sp(Mov(RW1("rcx"), RR("rax")), "mov64"), Sp(Mov(RW1("rax"), RR("rax")), "mov64"),
          Sp(Mov(RW1("rax"), Top(2, "Read")), "mov64"), Sp(Mov(Top(2, "Write"), RR("rax")), "mov64"),
          Sp(Mov(RW1("ecx"), RR("eax")), "mov32"), Sp(Mov(Top(1, "Write"), RR("eax")), "mov32"),
          Sp(Lea("rax", MX("rsp", "rcx", 1, 0, 2, "Address")), "lea64"),
          Sp(Lea("rax", M("rax", 2, 2, "Address")), "lea64"),
          Sp(Mov(RW1("xmm1"), RR("xmm0")), "movapd"), Sp(Mov(RW1("xmm0"), Top(4, "Read")), "movapd"),
          Sp(Mov(RW1("xmm0"), Top(4, "Read")), "movups"), Sp(Mov(RW1("xmm0"), Top(4, "Read")), "movupd"),
          Sp(Ins("movsd", "Full", <<Top(2, "Write"), X("Read")>>), "movsd"),
          Sp(Push("rax"), "push64"), Sp(Push("rcx"), "push64"), Sp(Pop("rax"), "pop")}
Floats == {Sp(Ins("addpd", "Imm", <<RW("xmm0"), RR("xmm1")>>), "addpd"),
           Sp(Ins("addpd", "Imm", <<RW("xmm0"), Top(4, "Read")>>), "mulpd")}
MCSpecializable == Adds \cup Xors \cup Shifts \cup Compares \cup Moves \cup Floats

(* What leads to interesting states: constants, pointers, partial writes.  *)
Preparing == {Mov(RW1("rax"), I(0)), Mov(RW1("rax"), I(7)),
     Mov(RW1("rax"), RR("rcx")), Mov(RW1("ah"), I(1)), Mov(RW1("rcx"), I(3)),
     Mov(Top(2, "Write"), RR("rax")), Mov(M("rsp", -4, 2, "Write"), RR("rax")),
     Mov(RW1("xmm0"), Top(4, "Read"))}
=============================================================================
