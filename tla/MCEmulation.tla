---------------------------- MODULE MCEmulation -----------------------------
(* Functions of any three of these instructions, with one join.  Left out, *)
(* because the code gets them wrong: a store that reaches into a pointer   *)
(* from below, mov eax, eax, push rsp, pxor of unknown registers, and      *)
(* loads into half of an SSE register.                                     *)
EXTENDS EmulationSoundness, MCMachine

MovLoads == {Mov(R("rax", "Write"), M("rsp", -2, 2, "Read")),
             Mov(R("eax", "Write"), M("rsp", -2, 1, "Read")),
             Mov(R("xmm0", "Write"), M("rsp", -4, 4, "Read")),
             Mov(R("rax", "Write"), M("rcx", 0, 2, "Read"))}
MovStores == {Mov(M("rsp", -2, 2, "Write"), R("rax", "Read")),
              Mov(M("rsp", -1, 1, "Write"), I(2)),
              Mov(M("rsp", -2, 1, "Write"), R("ah", "Read")),
              Mov(M("rax", 0, 2, "Write"), R("rcx", "Read")),
              Mov(M("rcx", 0, 2, "Write"), R("rax", "Read"))}
MovRegs == {Mov(R("rax", "Write"), R("rsp", "Read")), Mov(R("rax", "Write"), R("rcx", "Read")),
            Mov(R("eax", "Write"), I(1)), Mov(R("ah", "Write"), I(3))}
Stack == {Push("rax"), Pop("rcx"), Alu("sub", "Ptr", R("rsp", "ReadWrite"), I(2))}
Arithmetic == {Alu("add", "Ptr", R("rax", "ReadWrite"), I(2)),
               Lea("rax", MX("rsp", "rcx", 2, 0, 2, "Address")),
               Alu("cmp", "Ptr", R("rax", "Read"), I(1)),
               Alu("test", "Full", R("rax", "Read"), R("rax", "Read")),
               Refined(Alu("xor", "Imm", R("rax", "ReadWrite"), R("rax", "Read")), "xor_rr"),
               Refined(Alu("shl", "Full", R("rax", "ReadWrite"), I(1)), "sh"),
               Refined(Alu("shr", "Full", R("rax", "ReadWrite"), I(0)), "sh")}
MCInstructions == MovLoads \cup MovStores \cup MovRegs \cup Stack \cup Arithmetic \cup {Nasty}
=============================================================================
