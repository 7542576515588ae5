----------------------------- MODULE CodeLayout -----------------------------
(***************************************************************************)
(* The two runs of src/src/passes/CodeGenerationPass.hpp over the same     *)
(* instructions: the first one measures where blocks come to lie and finds *)
(* out which branches can be short, the second one writes.  Branches are   *)
(* prepared and fixed up by src/src/x86/Encoder.cpp, memory comes from the *)
(* BinaryPool that also holds the constants of earlier passes.             *)
(*                                                                         *)
(* The program is a sequence of items in the order of the walk: the start  *)
(* of a function or block (newBlock()), an instruction of so many bytes, a *)
(* branch or call with the item it goes to, and the end of a function,     *)
(* where the branches whose target was not known are fixed up.             *)
(***************************************************************************)
EXTENDS BinaryPool, Sequences, FiniteSets

CONSTANTS Programs,     \* sequences of items [kind, size, class, dst]
          Constants,    \* what specialization may put into the pool: [size, val]
          MaxConstants  \* bound: how many of them

Kinds == {"function", "block", "instr", "branch", "call", "end"}
Classes == {"cond", "jmp", "jcxz32", "jcxz64"}
Item == [kind : Kinds, size : Nat \ {0}, class : Classes, dst : Nat]
IsPlace(i) == i.kind \in {"function", "block"}
(* A branch goes to a block, a call to a function of the program; the walk *)
(* ends with the end of a function.                                        *)
ASSUME ProgramsAssumption ==
    \A prog \in Programs :
        /\ prog \in Seq(Item)
        /\ prog # <<>> => prog[Len(prog)].kind = "end"
        /\ \A k \in 1 .. Len(prog) : prog[k].kind \in {"branch", "call"} =>
              prog[k].dst \in 1 .. Len(prog) /\ IsPlace(prog[prog[k].dst])
ASSUME ConstantsAssumption ==
    \A c \in Constants : c.size \in {1, 2, 4, 8, 16}

VARIABLES items,      \* the program
          pool,
          consts,     \* [at, size, val]: constants and where they are
          code,       \* [at, size]: memory allocated for code in this run
          write, cursor,
          place,      \* blockMap and functionMap: item -> address, -1 if not there yet
          branches,   \* branches to fix up: [item, at, ilen]
          calls,
          short,      \* useShortBranch
          landed,     \* what was written: item -> [at, ilen, to] (history)
          measured,   \* nextInstr of the first run before each item (history)
          phase
vars == <<items, pool, consts, code, write, cursor, place, branches, calls, short, landed, measured, phase>>

-----------------------------------------------------------------------------
(* arch_prepare_branch()                                                   *)
LongIlen == [c \in Classes |-> CASE c = "cond" -> 6 [] c = "jmp" -> 5 [] c = "jcxz32" -> 9 [] c = "jcxz64" -> 10]
ShortIlen == [c \in Classes |-> IF c = "jcxz64" THEN 3 ELSE 2]
BranchIlen_Optimistic(k) == IF ~write \/ k \in short THEN ShortIlen[items[k].class] ELSE LongIlen[items[k].class]
BranchIlen(k) == IF k \in short THEN ShortIlen[items[k].class] ELSE LongIlen[items[k].class]
CallIlen == 5

(* Where the displacement is counted from: by arch_fixup_branch(), and by  *)
(* the machine.  The long form of JCXZ ends in a JMP; of JCXZ64 the prefix *)
(* is overwritten by the opcode, and the last byte is never written.       *)
CountedFrom_Long(k) == LongIlen[items[k].class]
CountedFrom(k) ==
    CASE items[k].class \in {"cond", "jmp"} -> BranchIlen(k)
      [] OTHER -> IF k \in short THEN BranchIlen(k) ELSE 10
EndsAt(k) ==
    CASE items[k].class \in {"cond", "jmp"} -> BranchIlen(k)
      [] OTHER -> IF k \in short THEN 2 ELSE 9

IsRel8(x) == x \in -128 .. 127
Known(k) == place[items[k].dst] # -1

Fresh == [k \in 1 .. Len(items) |-> -1]
Nothing == [k \in 1 .. Len(items) |-> [at |-> -1, ilen |-> 0, to |-> -1]]

-----------------------------------------------------------------------------
Init ==
    /\ items \in Programs
    /\ pool = NewPool /\ consts = {} /\ code = {}
    /\ write = FALSE /\ cursor = 1
    /\ place = Fresh /\ branches = <<>> /\ calls = <<>> /\ short = {}
    /\ landed = Nothing /\ measured = [k \in 1 .. Len(items) + 1 |-> 0]
    /\ phase = "passes"

(* A pass needs a constant in memory; 64 and 128 bit values are shared.    *)
AddConstant(c) ==
    /\ phase = "passes" /\ Cardinality(consts) < MaxConstants
    /\ IF c.size \in {8, 16} /\ \E old \in consts : old.size = c.size /\ old.val = c.val
       THEN UNCHANGED <<pool, consts, phase>>
       ELSE /\ pool' = AllocConstant(pool, c.size)
            /\ IF pool'.error = "none"
               THEN /\ consts' = consts \union {[at |-> ConstantAt(pool, c.size), size |-> c.size, val |-> c.val]}
                    /\ UNCHANGED phase
               ELSE phase' = "failed" /\ UNCHANGED consts
    /\ UNCHANGED <<items, code, write, cursor, place, branches, calls, short, landed, measured>>

(* run(): the pool is emptied and the walk begins.                         *)
StartRun ==
    /\ phase \in {"passes", "again"}
    /\ pool' = ResetCodePool(pool) /\ code' = {}
    /\ cursor' = 1 /\ place' = Fresh /\ phase' = "walk"
    /\ UNCHANGED <<items, consts, write, branches, calls, short, landed, measured>>

Walking(kinds) == phase = "walk" /\ cursor \in 1 .. Len(items) /\ items[cursor].kind \in kinds
(* The first run leaves behind where the next item comes to lie.           *)
Advance(next) ==
    /\ cursor' = cursor + 1
    /\ measured' = IF write THEN measured ELSE [measured EXCEPT ![cursor + 1] = next]
Region(at, size) == [at |-> at, size |-> size]
(* The memory for size bytes, or the end of rewriting.                     *)
Allocate(size) ==
    /\ pool' = AllocCode(pool, size)
    /\ IF pool'.error = "none"
       THEN code' = code \union {Region(pool.nextInstr, size)} /\ Advance(pool'.nextInstr) /\ UNCHANGED phase
       ELSE phase' = "failed" /\ UNCHANGED <<code, cursor, measured>>

(* handleFunction(), handleBlock(): the gap is filled with NOPs.           *)
HandleBlock ==
    /\ Walking({"function", "block"})
    /\ pool' = NewBlock(pool)
    /\ code' = IF pool'.nextInstr = pool.nextInstr THEN code
               ELSE code \union {Region(pool.nextInstr, pool'.nextInstr - pool.nextInstr)}
    /\ place' = [place EXCEPT ![cursor] = pool'.nextInstr]
    /\ Advance(pool'.nextInstr)
    /\ UNCHANGED <<items, consts, write, branches, calls, short, landed, phase>>

(* generateCode()                                                          *)
HandleInstruction ==
    /\ Walking({"instr"})
    /\ Allocate(items[cursor].size)
    /\ UNCHANGED <<items, consts, write, place, branches, calls, short, landed>>

(* arch_fixup_branch() for a branch b to target.                           *)
Remembered_Start(b, target) == IsRel8(target - b.at)
Remembered(b, target) == IsRel8(target - (b.at + ShortIlen[items[b.item].class]))
AssertedShort(b, target) == b.item \in short => IsRel8(target - (b.at + CountedFrom(b.item)))
Written(b, target) == [at |-> b.at, ilen |-> b.ilen, to |-> target - CountedFrom(b.item) + EndsAt(b.item)]
FixupBranch(b, target) ==
    /\ short' = IF ~write /\ Remembered(b, target) THEN short \union {b.item} ELSE short
    /\ landed' = IF write /\ AssertedShort(b, target) THEN [landed EXCEPT ![b.item] = Written(b, target)] ELSE landed

Location(k, ilen) == [item |-> k, at |-> pool.nextInstr, ilen |-> ilen]
(* handleInstruction() of a branch within the function.                    *)
HandleBranch ==
    /\ Walking({"branch"})
    /\ LET b    == Location(cursor, BranchIlen(cursor))
           next == AllocCode(pool, b.ilen)
           ok   == next.error = "none" /\ (write /\ Known(cursor) => AssertedShort(b, place[items[cursor].dst]))
       IN  /\ pool' = next
           /\ IF next.error = "none" /\ Known(cursor) THEN FixupBranch(b, place[items[cursor].dst])
              ELSE UNCHANGED <<short, landed>>
           /\ branches' = IF next.error = "none" /\ ~Known(cursor) THEN Append(branches, b) ELSE branches
           /\ IF ok THEN /\ code' = code \union {Region(pool.nextInstr, b.ilen)}
                         /\ Advance(next.nextInstr) /\ UNCHANGED phase
              ELSE phase' = "failed" /\ UNCHANGED <<code, cursor, measured>>
    /\ UNCHANGED <<items, consts, write, place, calls>>

HandleCall ==
    /\ Walking({"call"})
    /\ Allocate(CallIlen)
    /\ calls' = IF pool'.error = "none" THEN Append(calls, Location(cursor, CallIlen)) ELSE calls
    /\ UNCHANGED <<items, consts, write, place, branches, short, landed>>

(* The end of handleFunction().                                            *)
FixupNext ==
    /\ Walking({"end"}) /\ branches # <<>>
    /\ LET b == Head(branches)
           target == place[items[b.item].dst]
       IN  /\ FixupBranch(b, target)
           /\ phase' = IF target = -1 \/ (write /\ ~AssertedShort(b, target)) THEN "failed" ELSE phase
    /\ branches' = Tail(branches)
    /\ UNCHANGED <<items, pool, consts, code, write, cursor, place, calls, measured>>

EndFunction ==
    /\ Walking({"end"}) /\ branches = <<>>
    /\ Advance(pool.nextInstr)
    /\ UNCHANGED <<items, pool, consts, code, write, place, branches, calls, short, landed, phase>>

(* arch_fixup_call(), for each call at the end of a run.                   *)
FixupCall ==
    /\ phase = "walk" /\ cursor = Len(items) + 1 /\ calls # <<>>
    /\ LET c == Head(calls)
           target == place[items[c.item].dst]
       IN  landed' = IF write THEN [landed EXCEPT ![c.item] = [at |-> c.at, ilen |-> c.ilen, to |-> target]] ELSE landed
    /\ calls' = Tail(calls)
    /\ UNCHANGED <<items, pool, consts, code, write, cursor, place, branches, short, measured, phase>>

EndRun_Measures ==
    /\ phase = "walk" /\ cursor = Len(items) + 1 /\ calls = <<>>
    /\ phase' = IF write THEN "done" ELSE "again"
    /\ UNCHANGED <<items, pool, consts, code, write, cursor, place, branches, calls, short, landed, measured>>
EndRun ==
    /\ phase = "walk" /\ cursor = Len(items) + 1 /\ calls = <<>>
    /\ phase' = IF write THEN "done" ELSE "again"
    /\ write' = TRUE
    /\ UNCHANGED <<items, pool, consts, code, cursor, place, branches, calls, short, landed, measured>>

Stopped == phase \in {"done", "failed"} /\ UNCHANGED vars

Step == \/ StartRun \/ HandleBlock \/ HandleInstruction \/ HandleBranch \/ HandleCall
        \/ FixupNext \/ EndFunction \/ FixupCall \/ EndRun
Next == Step \/ Stopped \/ \E c \in Constants : AddConstant(c)
Spec == Init /\ [][Next]_vars
(* The rewriter is one thread that does not stop between two steps; how    *)
(* many constants the passes allocate is bounded by the pool.              *)
FairSpec == Spec /\ WF_vars(Step)

-----------------------------------------------------------------------------
(* Types; what was allocated is within the page that can be written.       *)
LayoutTypeOK ==
    /\ items \in Programs
    /\ pool.nextInstr <= pool.instrPage + PageSize
    /\ pool \in [instrPage : Int, nextInstr : Nat, constPage : Int, nextConst : Int, error : {"none", "full", "memory"}]
    /\ write \in BOOLEAN /\ cursor \in 1 .. Len(items) + 1
    /\ place \in [1 .. Len(items) -> Nat \union {-1}]
    /\ short \subseteq 1 .. Len(items)
    /\ measured \in [1 .. Len(items) + 1 -> Nat]
    /\ phase \in {"passes", "walk", "again", "done", "failed"}

(* The second run never gets ahead of the first one: code can only become  *)
(* shorter, whatever the padding between blocks does (newBlock(),          *)
(* allocCode(), arch_prepare_branch()).                                    *)
NeverLonger == write /\ phase = "walk" => pool.nextInstr <= measured[cursor]

(* So whatever memory the second run needs was there in the first one: it  *)
(* does not fail for want of memory once code is written.                  *)
MeasuredSuffices == write => pool.error = "none"

(* A short branch back was measured right: whatever else became shorter,   *)
(* the block it goes back to is still within 8 bits (the assertion in      *)
(* arch_fixup_branch()).                                                   *)
BackwardFits ==
    phase = "walk" /\ write =>
        \A k \in short : k = cursor /\ Known(k) =>
            place[items[k].dst] - (pool.nextInstr + ShortIlen[items[k].class]) >= -128

(* Every branch and call that was written lands where its block or         *)
(* function is (arch_fixup_branch(), arch_fixup_call()).  Excepted is the  *)
(* JCXZ whose displacement fixupSpecialCondBranch() counts from one byte   *)
(* too far: the one that ends in a near JMP, and each one with a prefix.   *)
CountedTooFar(k) == items[k].class = "jcxz64" \/ (items[k].class = "jcxz32" /\ k \notin short)
Lands == phase = "done" =>
    /\ \A k \in 1 .. Len(items) : items[k].kind = "branch" /\ ~CountedTooFar(k) => landed[k].to = place[items[k].dst]
    /\ \A k \in 1 .. Len(items) : items[k].kind = "call" => landed[k].to = place[items[k].dst]

(* What arch_fixup_branch() asserts: drob_assert(is_rel8(disp)).           *)
ShortFits == phase = "failed" => pool.error # "none"

(* The pool is an allocator: no two users ever hold the same memory.       *)
Held == code \union {Region(c.at, c.size) : c \in consts}
Pool == INSTANCE Allocator WITH Size <- MmapSize, held <- Held
IsAllocator == Pool!Spec

(* Code generation comes to an end.                                        *)
Generated == <>(phase \in {"done", "failed"})

=============================================================================
