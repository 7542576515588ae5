-------------------------- MODULE MCStackAnalysis ---------------------------
(* Straight lines, loops and diamonds, each with all choices of a few      *)
(* instructions.  rax is unknown at entry, rcx points to constant memory.  *)
EXTENDS StackAnalysis, MCMachine

MCEntry == [rcx |-> DynamicValue("UsrPtr", 0, 0), rax |-> Plain("Unknown")]
MCReturnRegs == {<<"rax", 0>>, <<"rax", 1>>, <<"rsp", 0>>, <<"rsp", 1>>}

T(ins, spec) == Sp(ins, spec) @@ [type |-> "Other", to |-> 0]
Branch(pred, to) == [emu |-> "jcc", can |-> "None", ops |-> <<>>, refine |-> "none", pred |-> pred,
                     spec |-> "none", type |-> "Branch", to |-> to]
Ret == [Branch(Always, 0) EXCEPT !.emu = "ret", !.can = "Full", !.type = "Ret",
                                 !.ops = <<R("rsp", "ReadWrite")>>]
Call == [Ret EXCEPT !.emu = "nasty", !.can = "None", !.type = "Call", !.ops = <<>>]
Block(code, next) == [code |-> code, next |-> next]

Zero == T(Mov(RW1("rax"), I(0)), "none")
Param == T(Mov(RW1("rax"), RR("rcx")), "mov64")
Const == T(Mov(RW1("rcx"), I(1)), "none")
Store == T(Mov(Top(2, "Write"), RR("rax")), "mov64")
Load == T(Mov(RW1("rax"), Top(2, "Read")), "mov64")
Deref == T(Mov(RW1("rax"), M("rcx", 2, 2, "Read")), "mov64")
Inc == T(Alu("add", "Ptr", RW("rax"), I(1)), "add64")
Sum == T(Alu("add", "Ptr", RW("rax"), RR("rcx")), "add64")
Short1 == T(Mov(RW1("eax"), I(1)), "none")
Upper == T(Mov(RW1("ah"), I(1)), "none")
Shift == T(Refined(Alu("shl", "Full", RW("rax"), I(1)), "sh"), "sh64")
Clear == T(XorRR(Alu("xor", "Imm", RW("rax"), RR("rax"))), "xor64")
Cmp2 == T(Alu("cmp", "Ptr", RR("rax"), I(2)), "none")
Tst == T(Alu("test", "Full", RR("rax"), RR("rax")), "test64")
PushA == T(Push("rax"), "push64")
PopC == T(Pop("rcx"), "pop")
MovSp == T(Mov(RW1("rax"), RR("rsp")), "mov64")
StoreVia == T(Mov(MX("rcx", "rax", 1, -3, 2, "Write"), RR("rcx")), "mov64")
StoreBy == T(Mov(MX("rax", "rcx", 1, -3, 2, "Write"), RR("rcx")), "mov64")
LoadVia == T(Mov(RW1("rax"), MX("rcx", "rax", 1, 1, 2, "Read")), "mov64")
LoadAt == T(Mov(RW1("rax"), M("rcx", 1, 2, "Read")), "mov64")
LeaAt == T(Lea("rax", MX("rcx", "rax", 1, 1, 0, "Address")), "lea64")
Minus == T(Alu("sub", "Ptr", RW("rax"), M("rcx", 2, 2, "Read")), "none")
StoreAt == T(Mov(MX("rsp", "rcx", 2, -4, 2, "Write"), RR("rcx")), "mov64")
MinusTop == T(Alu("sub", "Ptr", RW("rax"), Top(2, "Read")), "none")

Xs == {Zero, Param, Store, Inc, Sum, Upper, Clear}
Ys == {Load, Deref, Inc, Short1, Sum, Shift}

Lines == {<<Block(<<a, x, y, Ret>>, 0)>> : a \in {Zero, Const, PushA, Store}, x \in Xs, y \in Ys \cup {PopC}}
Addresses == {<<Block(<<a, x, y, z, Ret>>, 0)>> :
                a \in {Const, Zero}, x \in {MovSp, Const, Param}, y \in {StoreVia, StoreBy, StoreAt, Inc},
                z \in {Load, LoadVia, LoadAt, LeaAt, Minus, MinusTop}}
Loops == {<<Block(<<a, Store>>, 2), Block(<<x, Cmp2, Branch(NZ, 2)>>, 3), Block(<<y, Ret>>, 0)>> :
            a \in {Zero, Param}, x \in {Inc, Store, Sum, Upper}, y \in Ys}
Diamonds == {<<Block(<<Store, Tst, Branch(NZ, 3)>>, 2), Block(<<x, Branch(Always, 4)>>, 0),
               Block(<<y>>, 4), Block(<<z, Ret>>, 0)>> :
                x \in Xs \ {Param}, y \in {Zero, Store, Inc}, z \in {Load, Sum, Inc}}
Never == {<<Block(<<Zero, Tst, Branch(NZ, 3)>>, 2), Block(<<Call, x, Ret>>, 0), Block(<<Store>>, 4),
            Block(<<y, Ret>>, 0)>> : x \in {Zero, Inc}, y \in {Inc}}
MCFunctions == Lines \cup Addresses \cup Loops \cup Diamonds \cup Never
=============================================================================
