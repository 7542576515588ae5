---------------------------- MODULE MCCodeLayout ----------------------------
(***************************************************************************)
(* Two functions; the first one has two branches out of its first block,   *)
(* one back and one forward, over distances around the 8 bit limit, so     *)
(* that one branch becoming short moves the others across the limit and    *)
(* blocks across the alignment; and a loop that just fills the page.  An   *)
(* item may stand for several instructions in a row.  Branch lengths,      *)
(* alignment and the 8 bit limit are the real ones; the page is small      *)
(* enough to be filled.                                                    *)
(***************************************************************************)
EXTENDS CodeLayout

I(n) == [kind |-> "instr", size |-> n, class |-> "cond", dst |-> 0]
P(kind) == [kind |-> kind, size |-> 1, class |-> "cond", dst |-> 0]
J(class, dst) == [kind |-> "branch", size |-> 1, class |-> class, dst |-> dst]
C(dst) == [kind |-> "call", size |-> 1, class |-> "cond", dst |-> dst]

Program(a, b, d, c1, c2) ==
    <<P("function"), P("block"), I(a), J(c1, 2), J(c2, 8), I(b), I(1),
      P("block"), I(d), J("jmp", 2), P("end"),
      P("function"), P("block"), C(1), I(1), P("end")>>
MCPrograms ==
    {Program(a, b, d, c1, c2) : a \in {1, 12, 15}, b \in {1, 106, 114}, d \in {1, 96, 112, 400},
                                c1, c2 \in {"cond", "jmp"}}
    \union {Program(a, b, 1, "jcxz32", c2) : a \in {1, 15}, b \in {90, 130}, c2 \in {"jcxz32", "jcxz64"}}
    \union {<<P("function"), P("block"), I(a), J("jmp", 2), P("end")>> : a \in 506 .. 511}
MCConstants == {[size |-> s, val |-> v] : s \in {1, 8, 16}, v \in {0, 1}}
NoConstants == {}

=============================================================================
