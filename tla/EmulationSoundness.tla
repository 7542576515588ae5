------------------------- MODULE EmulationSoundness -------------------------
(***************************************************************************)
(* A machine executes instructions while Instruction::emulate() follows on *)
(* the program state, along every path of up to MaxSteps instructions.     *)
(* Two paths may join (ProgramState::merge()).  The questions are whether  *)
(* the machine is always as the program state says, and whether the        *)
(* predicates decided from the program state are decided right.            *)
(***************************************************************************)
EXTENDS Machine

CONSTANTS Instructions, \* the instructions of this instance
          Predicates,   \* the predicates evaluated after every instruction
          MaxSteps      \* bound: instructions in all

ASSUME InstructionAssumption == \A ins \in Instructions : WellFormed(ins)

VARIABLES st,           \* the program state
          mach,         \* the machine
          saved,        \* the other path into a join, or <<>>
          steps

vars == <<st, mach, saved, steps>>

Init == st = EntryState /\ mach = EntryMachine /\ saved = <<>> /\ steps = 0

(* One instruction; where the predicate depends on junk, both ways.        *)
Step(ins) ==
    /\ st.ok /\ steps < MaxSteps /\ Executable(mach, ins)
    /\ st' = Emulate(st, ins)
    /\ mach' \in (IF Takes(mach, ins.pred) # "False" THEN {Execute(mach, ins)} ELSE {})
                 \cup (IF Takes(mach, ins.pred) # "True" THEN {mach} ELSE {})
    /\ steps' = steps + 1
    /\ UNCHANGED saved

(* This path reached the join; the other one starts.                       *)
OtherPath ==
    /\ st.ok /\ saved = <<>> /\ steps > 0 /\ steps < MaxSteps
    /\ saved' = <<st, mach>>
    /\ st' = EntryState /\ mach' = EntryMachine
    /\ UNCHANGED steps

Join ==
    /\ st.ok /\ saved # <<>>
    /\ st' = Merge(saved[1], st).state
    /\ mach' \in {mach, saved[2]}
    /\ saved' = <<>>
    /\ UNCHANGED steps

Next == (\E ins \in Instructions : Step(ins)) \/ OtherPath \/ Join

Spec == Init /\ [][Next]_vars

-----------------------------------------------------------------------------
Accesses(r) == {"Full"} \cup (IF RegInfo[r].bytes >= 2 THEN {"H0", "H1"} ELSE {})
                        \cup (IF RegInfo[r].bytes >= 4 THEN {"F0", "F1", "F2", "F3"} ELSE {})
StackBytes(o, n) == [k \in 0 .. n - 1 |-> mach.stack[o + k]]
StackReads == {x \in StackRange \X {1, PtrBytes, 2 * PtrBytes} :
                    \A k \in 0 .. x[2] - 1 : x[1] + k \in StackRange}

(* Whatever is read as an immediate or a pointer, by any access of any     *)
(* register and any stack read (getElements()), is what the machine has    *)
(* there: instructions are specialised on nothing else.                    *)
ClaimsHold ==
    st.ok =>
    /\ \A r \in DOMAIN RegInfo : \A a \in Accesses(r) :
            LET v == GetRegister(st, r, a) IN Sure(v) => CVal(MReg(mach, r, a)) = v
    /\ \A x \in StackReads :
            LET v == GetStack(st, x[1], x[2]) IN Sure(v) => CVal(StackBytes(x[1], x[2])) = v

(* While the stack is tracked no stack pointer hides behind an unknown     *)
(* value or outside registers and stack, from where it could change the    *)
(* stack behind the analysis (untrackedStackAccess(), Tainted).            *)
NoHiddenStackPtr ==
    st.ok /\ ~st.stack.dead =>
    /\ ~mach.leaked
    /\ \A r \in Physical : \A k \in DOMAIN st.reg[r] :
            OfStack(mach.reg[r][k]) => st.reg[r][k].type \in {"StackPtr", "StackPtrTail", "Tainted"}
    /\ \A x \in StackReads :
            (\E k \in 0 .. x[2] - 1 : OfStack(mach.stack[x[1] + k])) =>
                GetStack(st, x[1], x[2]).type \in {"StackPtr", "Tainted"}

(* A tail is only ever found behind the head of its pointer: parts of a    *)
(* pointer never survive a write into it (clearTail(), markUnknown()).     *)
Belongs(e) ==
    \A k \in DOMAIN e : e[k].type \in Tails =>
        \E j \in 1 .. PtrBytes - 1 :
            /\ k - j \in DOMAIN e
            /\ IF e[k].type = "Tail" THEN e[k - j].type \in {"UsrPtr", "ReturnPtr"}
                                     ELSE e[k - j].type = "StackPtr"
TailsBelong ==
    st.ok => /\ \A r \in Physical : Belongs(st.reg[r])
             /\ Belongs(st.stack.data)

(* A predicate the program state decides (willExecute()) is decided the    *)
(* way the machine decides it.                                             *)
PredicatesRight ==
    st.ok => \A pred \in Predicates :
                WillExecute(st, pred) # "Unknown" => Takes(mach, pred) = WillExecute(st, pred)

(* merge() settles: merging the same state a second time reports no        *)
(* change, so a block is not queued for ever; and a merge that reports no  *)
(* change left every claim of the entry state as it was.                   *)
Settled(once) ==
    /\ ~Merge(once.state, st).diff
    /\ ~Merge(once.state, saved[1]).diff
    /\ ~once.diff => \A r \in DOMAIN RegInfo :
            LET was == GetRegister(saved[1], r, "Full")
            IN  Sure(was) => GetRegister(once.state, r, "Full") = was
MergeSettles == saved # <<>> /\ st.ok => Settled(Merge(saved[1], st))

=============================================================================
