---------------------- MODULE SpecializationSoundness -----------------------
(***************************************************************************)
(* Every instruction of Specializable is specialised in every state that   *)
(* machine and analysis reach, and executed next to the original.          *)
(***************************************************************************)
EXTENDS EmulationSoundness, Specialization

CONSTANT Specializable  \* the instructions specialised in every state

Executed(m, s) == IF s.ret = "Delete" THEN m ELSE Execute(m, s.ins)
Emulated(p, s) == IF s.ret = "Delete" THEN p ELSE Emulate(p, s.ins)
IsFlag(r) == \E k \in 1 .. 4 : FlagRegs[k] = r

(* The bytes of a pointer of known value are numbers.                      *)
Numbers(bs) ==
    [x \in DOMAIN bs |->
        IF bs[x].base = "UsrPtr" /\ UsrPtrCfg[bs[x].nr].isKnown
        THEN Num(Digit((UsrPtrCfg[bs[x].nr].val + bs[x].off) % Word, bs[x].k)) ELSE bs[x]]

(* In every state the machine and the analysis reach, a specialised        *)
(* instruction leaves the machine as the original does, but for flags that *)
(* nobody reads (registersWillBeRead(), getImm(), is_simm32()).            *)
SameMachine(is, was, fl) ==
    /\ Numbers(is.stack) = Numbers(was.stack) /\ is.leaked = was.leaked
    /\ \A r \in Physical : fl \/ ~IsFlag(r) => Numbers(is.reg[r]) = Numbers(was.reg[r])
SpecializedSame ==
    st.ok =>
    \A ins \in Specializable : \A d \in {DynInfo(st, ins)} : \A fl \in BOOLEAN :
        \A s \in {Specialize(ins, d, fl)} :
            s.ret # "NoChange" /\ Executable(mach, ins) =>
                SameMachine(Executed(mach, s), Execute(mach, ins), fl)

(* The next stack analysis knows no less of the registers and the stack    *)
(* after a specialised instruction than it knew after the original: what   *)
(* the comment of getImm() promises for the delta stack analysis.          *)
NoLess(is, was) ==
    was.ok =>
        /\ is.ok
        /\ \A r \in Physical : ~IsFlag(r) /\ Sure(GetRegister(was, r, "Full")) =>
                GetRegister(is, r, "Full") = GetRegister(was, r, "Full")
        /\ \A x \in StackReads : Sure(GetStack(was, x[1], x[2])) =>
                GetStack(is, x[1], x[2]) = GetStack(was, x[1], x[2])
KnowsNoLess ==
    st.ok =>
    \A ins \in Specializable : \A d \in {DynInfo(st, ins)} : \A fl \in BOOLEAN :
        \A s \in {Specialize(ins, d, fl)} :
            s.ret # "NoChange" => NoLess(Emulated(st, s), EmulateWith(st, ins, d))

=============================================================================
