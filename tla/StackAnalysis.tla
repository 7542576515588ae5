--------------------------- MODULE StackAnalysis ----------------------------
(***************************************************************************)
(* The stack analysis of a function (src/src/passes/StackAnalysisPass.hpp) *)
(* and the passes that use it: program states are pushed through the       *)
(* blocks until nothing changes, instructions are specialised to what was  *)
(* found, changed blocks are analysed again, memory operands are optimised *)
(* and dead writes removed (runPasses() in src/src/Rewriter.cpp).  The     *)
(* function is executed as it was and as it has become.                    *)
(*                                                                         *)
(* A function is a sequence of blocks [code, next] in breadth first order, *)
(* next the block below or 0.  An instruction also has type ("Other",      *)
(* "Branch", "Call", "Ret") and to, the block that it branches to.         *)
(***************************************************************************)
EXTENDS MemoryOperandOptimization

CONSTANTS Functions,    \* the functions of this instance
          ReturnRegs,   \* live_ret: the result and what is preserved
          MaxRun,       \* bound: instructions executed in one run
          MaxCoins      \* bound: branches on unknown values in one run

VARIABLES fn,           \* the function
          orig,         \* the function as it was
          live,         \* liveness data of the instructions, <<>> if none
          dyn,          \* dynamic info of the instructions, <<>> if none
          entry,        \* entry state of the blocks, <<>> if none
          valid,        \* stackAnalysisValid of the blocks
          queue,        \* blocksToProcess
          passes,       \* what the rewriter still has to run
          phase,        \* "idle", or "analysing" the function
          visits        \* history: how often this analysis walked the blocks

vars == <<fn, orig, live, dyn, entry, valid, queue, passes, phase, visits>>

Blocks == DOMAIN fn

-----------------------------------------------------------------------------
(* Registers as sets of bytes, for the liveness analysis.                  *)
GetSubRegisterMask(reg, access) ==
    LET d == GetRegisterData(reg, access) IN {<<d.reg, d.o + k>> : k \in 0 .. d.n - 1}
AllRegs == UNION {GetSubRegisterMask(r, "Full") : r \in Physical}
AddrRegs(op) == UNION {GetSubRegisterMask(r, "Full") : r \in {op.base, op.index} \ {"None"}}
PredRegs(pred) ==
    LET sides == CASE pred.con = "Always" -> {}
                   [] pred.con = "None" -> {pred.first.lhs, pred.first.rhs}
                   [] OTHER -> {pred.first.lhs, pred.first.rhs, pred.second.lhs, pred.second.rhs}
    IN  sides \cap DOMAIN RegInfo

(* getInfo(): operands refined without a state.                            *)
StaticOps(ins) ==
    IF ins.refine = "sh" /\ ins.ops[2].kind = "reg" THEN ins.ops ELSE Refine(InitialState, ins)

MayWriteMem_Explicit(ops) ==
    \E k \in DOMAIN ops : k = 1 /\ ops[k].kind = "mem" /\ ops[k].mode = "ReadWrite"
MayWriteMem(ops) == \E k \in DOMAIN ops : ops[k].kind = "mem" /\ ops[k].mode \in Writes

(* Masks of registers, from dynamic info d if there is some.               *)
OperandMasks(ins, d, ops) ==
    LET regs(modes) == {k \in DOMAIN ops : ops[k].kind = "reg" /\ ops[k].mode \in modes}
        mems == {k \in DOMAIN ops : ops[k].kind = "mem" /\ ops[k].mode # "None"}
        mask(ks) == UNION {GetSubRegisterMask(ops[k].reg, ops[k].w) : k \in ks}
        nasty == ins.emu = "nasty"
    IN  [read |-> IF nasty THEN AllRegs
                  ELSE UNION {GetSubRegisterMask(ops[k].reg, ops[k].r) : k \in regs(Reads)}
                       \cup UNION {AddrRegs(ops[k]) : k \in mems},
         written |-> IF nasty THEN AllRegs ELSE mask(regs(Writes \ Conditional)),
         condWritten |-> mask(regs(Writes \cap Conditional)),
         mayWriteMem |-> MayWriteMem(ops),
         willExecute |-> CASE d # <<>> -> d.willExecute
                           [] d = <<>> /\ ins.pred = Always -> "True"
                           [] OTHER -> "Unknown"]
Info(ins, d) == OperandMasks(ins, d, IF d = <<>> THEN StaticOps(ins) ELSE d.ops)

(* processInstruction() of the liveness analysis: what is live before ins, *)
(* and its liveness data.  i is its info, at what is live where it branches *)
(* to, as BlockLiveness returned it.                                       *)
LiveThrough(ins, i, out, at) ==
    LET dead == ins.type = "Other" /\ ~i.mayWriteMem /\ out \cap (i.written \cup i.condWritten) = {}
        used == CASE ins.type = "Ret" -> ReturnRegs
                  [] ins.type = "Call" -> AllRegs
                  [] OTHER -> i.read \cup (IF ins.type = "Branch" THEN at[ins.to].in ELSE {})
        kept == CASE i.willExecute = "False" -> out
                  [] i.willExecute # "False" /\ ins.type = "Ret" -> {}
                  [] i.willExecute = "True" /\ ins.type # "Ret" -> out \ i.written
                  [] OTHER -> out
        in == kept \cup (IF i.willExecute = "False" THEN {} ELSE used)
                   \cup UNION {GetSubRegisterMask(r, "Full") : r \in PredRegs(ins.pred)}
    IN  IF dead THEN [in |-> out, data |-> <<>>] ELSE [in |-> in, data |-> [in |-> in, out |-> out]]

(* The instructions of a block from its end on: what is live before it,    *)
(* and the liveness data of its instructions.                              *)
BlockLiveness(f, d, at, b) ==
    LET code == f[b].code
        from[n \in 0 .. Len(code)] ==
            IF n = 0 THEN [in |-> IF f[b].next = 0 THEN {} ELSE at[f[b].next].in, data |-> <<>>]
            ELSE LET after == from[n - 1]
                     k     == Len(code) + 1 - n
                     add(here) == [in |-> here.in, data |-> <<here.data>> \o after.data]
                 IN  add(LiveThrough(code[k], Info(code[k], d[b][k]), after.in, at))
    IN  from[Len(code)]

(* The least solution, what LivenessAnalysis computes.                     *)
Liveness(f, d) ==
    LET at[n \in 0 .. 2 * Len(f)] ==
            IF n = 0 THEN [b \in DOMAIN f |-> [in |-> {}, data |-> <<>>]]
            ELSE LET before == at[n - 1]
                 IN  [b \in DOMAIN f |-> BlockLiveness(f, d, before, b)]
        last == at[2 * Len(f)]
    IN  [b \in DOMAIN f |-> last[b].data]

-----------------------------------------------------------------------------
(* The stack analysis.  a is its state [entry, valid, queue].              *)
Enqueued_Again(a, b) == [a EXCEPT !.valid[b] = FALSE, !.queue = Append(@, b)]
Enqueued(a, b) ==
    [a EXCEPT !.valid[b] = FALSE,
              !.queue = IF \E k \in DOMAIN @ : @[k] = b THEN @ ELSE Append(@, b)]

ForwardStateToBlock_NoRequeue(a, b, s) ==
    LET m == Merge(a.entry[b], s)
    IN  IF a.entry[b] = <<>> THEN Enqueued([a EXCEPT !.entry[b] = s], b)
        ELSE [a EXCEPT !.entry[b] = m.state]
ForwardStateToBlock_Always(a, b, s) ==
    IF a.entry[b] = <<>> THEN Enqueued([a EXCEPT !.entry[b] = s], b)
    ELSE Enqueued([a EXCEPT !.entry[b] = Merge(a.entry[b], s).state], b)
ForwardStateToBlock(a, b, s) ==
    LET m == Merge(a.entry[b], s)
    IN  CASE a.entry[b] = <<>> -> Enqueued([a EXCEPT !.entry[b] = s], b)
          [] a.entry[b] # <<>> /\ m.diff -> Enqueued([a EXCEPT !.entry[b] = m.state], b)
          [] OTHER -> [a EXCEPT !.entry[b] = m.state]

(* Registers that nobody reads any more become dead: those of the          *)
(* predicate, operands and addresses, in this order.                       *)
LastUses(ins) ==
    LET ops == StaticOps(ins)
        of(op) == CASE op.kind = "reg" ->
                        (IF op.mode \in Reads THEN <<<<op.reg, op.r>>>> ELSE <<>>) \o
                        (IF op.mode \in Writes THEN <<<<op.reg, op.w>>>> ELSE <<>>)
                    [] op.kind = "mem" ->
                        (IF op.base = "None" THEN <<>> ELSE <<<<op.base, "Full">>>>) \o
                        (IF op.index = "None" THEN <<>> ELSE <<<<op.index, "Full">>>>)
                    [] OTHER -> <<>>
        upTo[k \in 0 .. Len(ops)] == IF k = 0 THEN <<>> ELSE upTo[k - 1] \o of(ops[k])
        regs == PredRegs(ins.pred)
        pred[n \in 0 .. 4] ==       \* in any order: they are different registers
            IF n = 0 \/ n > Cardinality(regs) THEN <<>>
            ELSE <<<<CHOOSE r \in regs : \A k \in DOMAIN pred[n - 1] : pred[n - 1][k][1] # r, "Full">>>>
                 \o pred[n - 1]
    IN  pred[Cardinality(regs)] \o upTo[Len(ops)]

RegIsDead(data, use) == data.out \cap GetSubRegisterMask(use[1], use[2]) = {}

MarkDead(s, ins, data) ==
    LET mark(uses) ==
            LET marked[k \in 0 .. Len(uses)] ==
                    IF k = 0 THEN s
                    ELSE SetRegister(marked[k - 1], uses[k][1], uses[k][2], Plain("Dead"), FALSE)
            IN  marked[Len(uses)]
    IN  mark(SelectSeq(LastUses(ins), LAMBDA u : RegIsDead(data, u)))

(* handleInstruction(): w is the walk [a, s, stop, dyn], s the state after *)
(* the instruction.                                                        *)
Handled(w, ins, d, s) ==
    LET goes == ins.type = "Branch" /\ d.willExecute # "False"
    IN  [a |-> IF goes THEN ForwardStateToBlock(w.a, ins.to, s) ELSE w.a,
         s |-> IF ins.type = "Call" THEN NastyInstruction(s) ELSE s,
         stop |-> goes /\ d.willExecute = "True",
         dyn |-> Append(w.dyn, d)]
HandleInstruction(w, ins, data) ==
    LET analyse(d) == Handled(w, ins, d, MarkDead(EmulateWith(w.s, ins, d), ins, data))
    IN  IF w.stop \/ data = <<>> THEN [w EXCEPT !.dyn = Append(@, <<>>)]
        ELSE analyse(DynInfo(w.s, ins))

AnalyseBlock(a, b, s, lv) ==
    LET code == fn[b].code
        walk[k \in 0 .. Len(code)] ==
            IF k = 0 THEN [a |-> a, s |-> s, stop |-> FALSE, dyn |-> <<>>]
            ELSE LET before == walk[k - 1] IN HandleInstruction(before, code[k], lv[k])
        fallThrough(w) == IF w.stop \/ fn[b].next = 0 THEN w
                          ELSE [w EXCEPT !.a = ForwardStateToBlock(w.a, fn[b].next, w.s)]
    IN  fallThrough(walk[Len(code)])

(* A block without entry state asks the blocks before it, if they have one *)
(* and are not waiting already, to push theirs again.                      *)
Preds(b) == {c \in Blocks : fn[c].next = b \/ \E k \in DOMAIN fn[c].code :
                                fn[c].code[k].type = "Branch" /\ fn[c].code[k].to = b}
AskPreds(a, b) ==
    LET ask == {c \in Preds(b) : a.entry[c] # <<>> /\ \A k \in DOMAIN a.queue : a.queue[k] # c}
        (* any order: the analysis does not depend on it *)
        order == CHOOSE q \in [1 .. Cardinality(ask) -> ask] : \A c \in ask : \E k \in DOMAIN q : q[k] = c
    IN  IF ask = {} THEN a
        ELSE [a EXCEPT !.valid = [c \in Blocks |-> IF c \in ask THEN FALSE ELSE @[c]],
                       !.queue = @ \o order]

-----------------------------------------------------------------------------
Init ==
    /\ fn \in Functions
    /\ orig = fn
    /\ dyn = [b \in Blocks |-> [k \in DOMAIN fn[b].code |-> <<>>]]
    /\ live = dyn
    /\ entry = [b \in Blocks |-> <<>>]
    /\ valid = [b \in Blocks |-> FALSE]
    /\ queue = <<>>
    /\ passes = <<"specialize", "operands", "eliminate">>
    /\ phase = "idle"
    /\ visits = [b \in Blocks |-> 0]

AnalysisValid == \A b \in Blocks : valid[b]

(* runStackAnalysis(): the liveness first, then all invalid blocks.        *)
Start ==
    /\ phase = "idle" /\ ~AnalysisValid
    /\ passes # <<>> /\ Head(passes) # "eliminate"       \* needsStackAnalysis()
    /\ live' = Liveness(fn, dyn)
    /\ entry' = [entry EXCEPT ![1] = IF @ = <<>> THEN EntryState ELSE @]
    /\ queue' = SelectSeq([b \in Blocks |-> b], LAMBDA b : ~valid[b])
    /\ phase' = "analysing"
    /\ visits' = [b \in Blocks |-> 0]
    /\ UNCHANGED <<fn, orig, dyn, valid, passes>>

(* processBlock() of the first block that waits.                           *)
Skip(b) ==
    /\ valid[b]
    /\ queue' = Tail(queue)
    /\ UNCHANGED <<entry, valid, dyn, visits>>
Adopt(a) == entry' = a.entry /\ valid' = a.valid /\ queue' = a.queue
ProcessBlock ==
    LET b == Head(queue)
        a == [entry |-> entry, valid |-> [valid EXCEPT ![b] = TRUE], queue |-> Tail(queue)]
    IN  /\ phase = "analysing" /\ queue # <<>>
        /\ \/ Skip(b)
           \/ /\ ~valid[b] /\ entry[b] = <<>>
              /\ Adopt(AskPreds(a, b))
              /\ UNCHANGED <<dyn, visits>>
           \/ /\ ~valid[b] /\ entry[b] # <<>>
              /\ visits' = [visits EXCEPT ![b] = @ + 1]
              /\ \E w \in {AnalyseBlock(a, b, entry[b], live[b])} :
                    /\ Adopt(w.a)
                    /\ dyn' = [dyn EXCEPT ![b] = [k \in DOMAIN @ |->
                                IF w.dyn[k] = <<>> THEN @[k] ELSE w.dyn[k]]]
        /\ UNCHANGED <<fn, orig, live, passes, phase>>

Finish ==
    /\ phase = "analysing" /\ queue = <<>>
    /\ phase' = "idle"
    /\ UNCHANGED <<fn, orig, live, dyn, entry, valid, queue, passes, visits>>

(* A pass changes instructions or removes them (rets); blocks with either  *)
(* are invalid.  Changed instructions lose what is known of them           *)
(* (modified()).                                                           *)
Rewrite(rets) ==
    LET kept(b) == SelectSeq([k \in DOMAIN fn[b].code |-> k], LAMBDA k : rets[b][k].ret # "Delete")
        new(b, x, y(_)) == LET ks == kept(b)
                           IN  [k \in DOMAIN ks |-> IF rets[b][ks[k]].ret = "Change" THEN y(ks[k])
                                                    ELSE x[b][ks[k]]]
        code(b) == [c \in Blocks |-> fn[c].code]
    IN  /\ fn' = [b \in Blocks |-> [fn[b] EXCEPT !.code =
                    LET y(k) == rets[b][k].ins IN new(b, code(b), y)]]
        /\ dyn' = [b \in Blocks |-> LET y(k) == <<>> IN new(b, dyn, y)]
        /\ live' = [b \in Blocks |-> LET y(k) == <<>> IN new(b, live, y)]
        /\ valid' = [b \in Blocks |-> valid[b] /\ \A k \in DOMAIN rets[b] : rets[b][k].ret = "NoChange"]
        /\ passes' = Tail(passes)
        /\ UNCHANGED <<orig, entry, queue, phase, visits>>

FlagMask == UNION {GetSubRegisterMask(FlagRegs[k], "Full") : k \in 1 .. 4}

(* The pass InstructionSpecialization.                                     *)
SpecializeInstructions ==
    /\ phase = "idle" /\ AnalysisValid /\ passes # <<>> /\ Head(passes) = "specialize"
    /\ Rewrite([b \in Blocks |-> [k \in DOMAIN fn[b].code |->
            LET ins == fn[b].code[k]
            IN  IF dyn[b][k] = <<>> \/ live[b][k] = <<>> THEN NoChange(ins)
                ELSE Specialize(ins, dyn[b][k], live[b][k].out \cap FlagMask # {})]])

(* The pass MemoryOperandOptimization.                                     *)
OptimizeOperands ==
    /\ phase = "idle" /\ AnalysisValid /\ passes # <<>> /\ Head(passes) = "operands"
    /\ Rewrite([b \in Blocks |-> [k \in DOMAIN fn[b].code |->
            LET ins == fn[b].code[k]
            IN  IF dyn[b][k] = <<>> THEN NoChange(ins) ELSE OptimizeOperand(ins, dyn[b][k])]])

(* The pass DeadWriteElimination, which only needs the liveness analysis.  *)
EliminateDeadWrites ==
    LET now == IF AnalysisValid THEN live ELSE Liveness(fn, dyn)
    IN  /\ phase = "idle" /\ passes # <<>> /\ Head(passes) = "eliminate"
        /\ Rewrite([b \in Blocks |-> [k \in DOMAIN fn[b].code |->
                IF now[b][k] = <<>> THEN Delete(fn[b].code[k]) ELSE NoChange(fn[b].code[k])]])

(* Every pass has been run: the code is generated from what there is.      *)
Done == phase = "idle" /\ passes = <<>> /\ UNCHANGED vars

Next == Start \/ ProcessBlock \/ Finish \/ SpecializeInstructions \/ OptimizeOperands
        \/ EliminateDeadWrites \/ Done

Spec == Init /\ [][Next]_vars

-----------------------------------------------------------------------------
(* One run of function f: r is [m, b, k, coin, ok], b = 0 once it returned *)
(* or left what this machine can do (ok = FALSE).  coins decides branches  *)
(* on unknown values.  A call may change all but the stack pointer.        *)
Called(m) == [Spoilt(m) EXCEPT !.reg["rsp"] = m.reg["rsp"]]

Followed(coins, r, ins, able, takes) ==
    LET taken == takes = "True" \/ (takes = "Unknown" /\ coins[r.coin])
        flips == IF takes = "Unknown" THEN 1 ELSE 0
        next  == [r EXCEPT !.k = @ + 1]
    IN  CASE ~able -> [r EXCEPT !.b = 0, !.ok = FALSE]
          [] able /\ ins.type = "Ret" -> [r EXCEPT !.b = 0]
          [] able /\ ins.type = "Call" -> [next EXCEPT !.m = Called(r.m)]
          [] able /\ ins.type = "Branch" ->
                IF r.coin + flips > MaxCoins THEN [r EXCEPT !.b = 0, !.ok = FALSE]
                ELSE [IF taken THEN [r EXCEPT !.b = ins.to, !.k = 1] ELSE next EXCEPT !.coin = @ + flips]
          [] OTHER -> [next EXCEPT !.m = Execute(r.m, ins)]

RunStep(f, coins, r) ==
    LET b   == f[r.b]
        ins == b.code[r.k]
    IN  IF r.k > Len(b.code) THEN [r EXCEPT !.b = b.next, !.k = 1, !.ok = b.next # 0]
        ELSE Followed(coins, r, ins, Executable(r.m, ins), Takes(r.m, ins.pred))

Last(s) == s[Len(s)]
(* The states that it goes through.                                        *)
Run(f, coins) ==
    LET r[n \in 0 .. MaxRun] ==
            IF n = 0
            THEN <<[m |-> EntryMachine, b |-> 1, k |-> 1, coin |-> 1, ok |-> TRUE]>>
            ELSE LET before == r[n - 1]
                 IN  IF Last(before).b = 0 THEN before
                     ELSE Append(before, RunStep(f, coins, Last(before)))
    IN  r[MaxRun]
Coins == [1 .. MaxCoins -> BOOLEAN]
Analysed == phase = "idle" /\ AnalysisValid

(* Bytes of the machine, pointers of known value as numbers.               *)
NumberOf(x) ==
    IF x.base = "UsrPtr" /\ UsrPtrCfg[x.nr].isKnown
    THEN Num(Digit((UsrPtrCfg[x.nr].val + x.off) % Word, x.k)) ELSE x

-----------------------------------------------------------------------------
(* What the analysis cached is right whenever the function is executed:    *)
(* every live instruction that is reached has been analysed, its known     *)
(* inputs are what the machine has and a decided branch goes where it was  *)
(* decided to go (handleInstruction(), forwardStateToBlock()).             *)
InputsRight(d, ins, m) ==
    /\ \A k \in DOMAIN d.ops :
            IsInput(d.ops[k]) /\ Sure(d.in[k]) => CVal(MFetch(m, d.ops[k])) = d.in[k]
    /\ d.willExecute = "Unknown" \/ d.willExecute = Takes(m, ins.pred)
CachedRightAt(at) ==
    LET ins == fn[at.b].code[at.k]
    IN  (IF at.b = 0 THEN FALSE
         ELSE /\ at.k \in DOMAIN fn[at.b].code
              /\ live[at.b][at.k] # <<>> /\ Executable(at.m, ins)) =>
                /\ dyn[at.b][at.k] # <<>>
                /\ InputsRight(dyn[at.b][at.k], ins, at.m)
CachedRight ==
    Analysed => \A coins \in Coins :
                    \A r \in {Run(fn, coins)} : \A n \in DOMAIN r : CachedRightAt(r[n])

(* The rewritten function returns what the original one returns, in what   *)
(* the caller may read, after every pass (InstructionSpecialization,       *)
(* MemoryOperandOptimization, DeadWriteElimination).                       *)
ReturnsAs(is, was) ==
    was.ok /\ was.b = 0 =>
        /\ is.ok /\ is.b = 0
        /\ is.m.leaked = was.m.leaked
        /\ \A x \in ReturnRegs : NumberOf(is.m.reg[x[1]][x[2]]) = NumberOf(was.m.reg[x[1]][x[2]])
SameResult ==
    phase = "idle" =>
    \A coins \in Coins :
        \A last \in {[f \in {fn, orig} |-> Last(Run(f, coins))]} : ReturnsAs(last[fn], last[orig])

(* The analysis comes to an end: a block is only walked again if a byte of *)
(* its entry state lost what was known of it, which happens at most three  *)
(* times (merge(), forwardStateToBlock()), or for a block after it that    *)
(* has no state yet.                                                       *)
AnalysisEnds ==
    LET registers[R \in SUBSET Physical] ==
            IF R = {} THEN 0
            ELSE LET r == CHOOSE r \in R : TRUE IN RegInfo[r].bytes + registers[R \ {r}]
        bytes == registers[Physical] + Cardinality(StackRange)
    IN  \A b \in Blocks : visits[b] <= 3 * bytes + 1 + Len(fn)

=============================================================================
