--------------------------- MODULE LivenessAnalysis ---------------------------
(***************************************************************************)
(* The register liveness analysis of drob                                  *)
(* (passes/LivenessAnalysisPass.hpp).                                      *)
(*                                                                         *)
(* A function is a graph of super blocks.  Starting from the blocks that   *)
(* return, a work list carries the registers that are alive backwards      *)
(* over the fallthrough chain (next/prev) and over the branch edges, until *)
(* nothing changes.  An instruction whose results nobody needs is marked   *)
(* by the absence of liveness data: later passes neither emulate nor keep  *)
(* it.                                                                     *)
(*                                                                         *)
(* The work list is processed one instruction and one edge at a time, as   *)
(* the loops of processBlock() do, so that no step of the model hides a    *)
(* state the code passes through.                                          *)
(***************************************************************************)
EXTENDS Integers, Sequences, FiniteSets

CONSTANTS
  Reg,        \* registers, a SubRegisterMask is a subset of them
  Block,      \* super blocks
  None,       \* nullptr
  Functions   \* the functions the analysis may be asked to handle

Ternary == {"True", "Unknown", "False"}   \* TriState

(***************************************************************************)
(* An instruction, reduced to what its InstructionInfo (or, once it was    *)
(* emulated, its DynamicInstructionInfo) says about register accesses.     *)
(* "dst" is the target of the branch edge, None for a branch into unknown  *)
(* code.                                                                   *)
(***************************************************************************)
Instr == [kind       : {"plain", "branch", "call", "ret"},
          readRegs   : SUBSET Reg, writtenRegs   : SUBSET Reg,
          condWrittenRegs : SUBSET Reg, predicateRegs : SUBSET Reg,
          mayWriteMem : BOOLEAN, willExecute : Ternary,
          dst        : Block \cup {None}]

(***************************************************************************)
(* A function after ICFG reconstruction: what decoding guarantees of the   *)
(* graph is what WellFormed says.  A block without a successor in the      *)
(* chain ends with a return, a call or a branch that is always taken.      *)
(***************************************************************************)
EndsControlFlow(i) ==
  i.kind \in {"branch", "ret", "call"} /\ i.willExecute = "True"

WellFormed(f) ==
  /\ f.entry \in Block
  /\ f.liveRet \subseteq Reg
  /\ f.next \in [Block -> Block \cup {None}]
  /\ f.code \in [Block -> Seq(Instr)]
  /\ \A b, c \in Block : f.next[b] = f.next[c] /\ f.next[b] # None => b = c
  /\ \A b \in Block : f.next[b] = None =>
       /\ f.code[b] # <<>>
       /\ EndsControlFlow(f.code[b][Len(f.code[b])])
  /\ \A b \in Block : \A k \in DOMAIN f.code[b] :
       f.code[b][k].kind = "ret" => f.code[b][k].readRegs \subseteq f.liveRet

ASSUME BlockAssumption == None \notin Block
ASSUME FunctionAssumption == \A f \in Functions : WellFormed(f)

VARIABLES
  fn,       \* the function being analysed; no step changes it
  queue,    \* blocksToProcess
  queued,   \* Node::queued
  valid,    \* Node::livenessAnalysisValid
  data,     \* blocks that have LivenessData attached
  liveIn,   \* LivenessData::live_in of a block ({} while there is none)
  liveAt,   \* liveAt[b][k]: registers alive before instruction k of b; the
            \* live_out of the block is liveAt[b][Len + 1]
  kept,     \* <<b, k>>: the instructions that have LivenessData attached
  cur,      \* the block processBlock() is working on
  pos,      \* the instruction it handles next, going backwards
  todo,     \* sources of incoming edges it has still to look at
  changed,  \* entryLiveRegsChanged
  pc        \* where handleFunction() is

vars == <<fn, queue, queued, valid, data, liveIn, liveAt, kept,
          cur, pos, todo, changed, pc>>

Size(f, b) == Len(f.code[b])
Positions(f) == UNION {{<<b, k>> : k \in 1 .. Size(f, b)} : b \in Block}
LiveOut(b) == liveAt[b][Size(fn, b) + 1]

(***************************************************************************)
(* Operators whose name ends in an underscore and a word are faulty        *)
(* variants of the operator that follows them.  No specification uses      *)
(* them: they stand for the mistake the properties have to notice.         *)
(***************************************************************************)

\* Forgets that a block may have no successor in the chain.
Incoming_Next(f, b) ==
  {f.next[b]} \cup {s \in Block : \E k \in 1 .. Size(f, s) : f.code[s][k].dst = b}

\* edge->src for the edges in incomingEdges of b
Incoming(f, b) ==
  {s \in Block : \E k \in 1 .. Size(f, s) :
                    f.code[s][k].kind = "branch" /\ f.code[s][k].dst = b}

\* edge->src for the return edges of the function
Returning(f) ==
  {s \in Block : \E k \in 1 .. Size(f, s) : f.code[s][k].kind = "ret"}

(***************************************************************************)
(* processInstruction().  "live" are the registers alive after the         *)
(* instruction; "in" gives the live_in of every block.                     *)
(***************************************************************************)
IsDead(i, live) ==
  /\ i.kind = "plain"
  /\ ~i.mayWriteMem
  /\ (live \ i.writtenRegs) \ i.condWrittenRegs = live

\* Takes a predicated write for one that always happens.
EffectIn_Always(i, live, in, liveRet) ==
  LET needed == (live \ i.writtenRegs) \cup i.readRegs
  IN  IF i.willExecute = "False" THEN live
      ELSE IF i.kind = "ret" THEN liveRet
      ELSE IF i.kind = "call" \/ (i.kind = "branch" /\ i.dst = None) THEN Reg
      ELSE IF i.kind = "branch" THEN needed \cup in[i.dst]
      ELSE needed

EffectIn(i, live, in, liveRet) ==
  LET unwritten == IF i.willExecute = "True" THEN live \ i.writtenRegs ELSE live
      needed    == unwritten \cup i.readRegs
  IN  IF i.willExecute = "False" THEN live
      ELSE IF i.kind = "ret" THEN liveRet
      ELSE IF i.kind = "call" \/ (i.kind = "branch" /\ i.dst = None) THEN Reg
      ELSE IF i.kind = "branch" THEN needed \cup in[i.dst]
      ELSE needed

\* Forgets the registers a predicate reads.
LiveBefore_NoPredicate(i, live, in, liveRet) ==
  IF IsDead(i, live) THEN live ELSE EffectIn(i, live, in, liveRet)

LiveBefore(i, live, in, liveRet) ==
  IF IsDead(i, live) THEN live
  ELSE EffectIn(i, live, in, liveRet) \cup i.predicateRegs

-----------------------------------------------------------------------------
\* Before handleFunction() is called: nothing is valid, instructions may
\* still carry the data of an earlier analysis.
Init ==
  /\ fn \in Functions
  /\ queue = <<>>
  /\ queued = [b \in Block |-> FALSE]
  /\ valid  = [b \in Block |-> FALSE]
  /\ data = {}
  /\ liveIn = [b \in Block |-> {}]
  /\ liveAt = [b \in Block |-> [k \in 1 .. Size(fn, b) + 1 |-> {}]]
  /\ kept \in {{}, Positions(fn)}
  /\ cur = None
  /\ pos = 0
  /\ todo = Returning(fn)
  /\ changed = FALSE
  /\ pc = "seed"

\* Does not mark the block as enqueued.
Enqueue_Unmarked(b) == queue' = Append(queue, b) /\ UNCHANGED queued

Enqueue(b) ==
  /\ queue' = Append(queue, b)
  /\ queued' = [queued EXCEPT ![b] = TRUE]

\* Start with the blocks that return, in the order of the return edges.
\* A function without a return edge trips the assertion.
Seed ==
  /\ pc = "seed"
  /\ \/ /\ Returning(fn) = {}
        /\ pc' = "thrown"
        /\ UNCHANGED <<queue, queued, todo>>
     \/ \E b \in todo :
          /\ Enqueue(b)
          /\ todo' = todo \ {b}
          /\ pc' = IF todo = {b} THEN "pop" ELSE "seed"
  /\ UNCHANGED <<fn, valid, data, liveIn, liveAt, kept, cur, pos, changed>>

(***************************************************************************)
(* The head of processBlock(), called with the oldest block b of the work  *)
(* list: "We should not be enqueued twice", or the assertion throws and    *)
(* the function is given up (what else the step does is of no interest     *)
(* then).                                                                  *)
(***************************************************************************)

\* The successor in the chain has no data yet: enqueue it and give up.
\* Processing it will enqueue this block again.
AwaitNext ==
  /\ pc = "pop" /\ queue # <<>>
  /\ LET b == Head(queue)
         n == fn.next[b]
         popped == [queued EXCEPT ![b] = FALSE]
     IN  /\ n # None /\ n \notin data
         /\ queue' = IF popped[n] THEN Tail(queue) ELSE Append(Tail(queue), n)
         /\ queued' = [popped EXCEPT ![n] = TRUE]
         /\ pc' = IF valid[b] \/ valid[n] THEN "thrown" ELSE "pop"
  /\ UNCHANGED <<fn, valid, data, liveIn, liveAt, kept, cur, pos, todo, changed>>

\* Attach data to the block and take over the live_out of its successor.
StartBlock ==
  /\ pc = "pop" /\ queue # <<>>
  /\ LET b == Head(queue)
         n == fn.next[b]
     IN  /\ n = None \/ n \in data
         /\ queue' = Tail(queue)
         /\ queued' = [queued EXCEPT ![b] = FALSE]
         /\ data' = data \cup {b}
         /\ liveAt' = [liveAt EXCEPT ![b][Size(fn, b) + 1] =
                                        IF n = None THEN {} ELSE liveIn[n]]
         /\ cur' = b
         /\ pos' = Size(fn, b)
         /\ pc' = IF valid[b] THEN "thrown" ELSE "scan"
  /\ UNCHANGED <<fn, valid, liveIn, kept, todo, changed>>

\* processInstruction() for the instruction at pos, then on to the one before.
ProcessInstruction ==
  /\ pc = "scan" /\ pos > 0
  /\ LET i == fn.code[cur][pos]
         live == liveAt[cur][pos + 1]
     IN  /\ liveAt' = [liveAt EXCEPT ![cur][pos] =
                                       LiveBefore(i, live, liveIn, fn.liveRet)]
         /\ kept' = IF IsDead(i, live) THEN kept \ {<<cur, pos>>}
                                       ELSE kept \cup {<<cur, pos>>}
  /\ pos' = pos - 1
  /\ UNCHANGED <<fn, queue, queued, valid, data, liveIn, cur, todo, changed, pc>>

\* Claims news for the predecessors every time.
FinishBlock_AlwaysNews ==
  /\ pc = "scan" /\ pos = 0
  /\ changed' = TRUE
  /\ liveIn' = [liveIn EXCEPT ![cur] = liveAt[cur][1]]
  /\ valid' = [valid EXCEPT ![cur] = TRUE]
  /\ todo' = Incoming(fn, cur)
  /\ pc' = "propagate"
  /\ UNCHANGED <<fn, queue, queued, data, liveAt, kept, cur, pos>>

\* Remember the entry state of the block, and whether it is news for its
\* predecessors.  The block becomes valid before it may find itself among them.
FinishBlock ==
  /\ pc = "scan" /\ pos = 0
  /\ changed' = (liveIn[cur] # liveAt[cur][1])
  /\ liveIn' = [liveIn EXCEPT ![cur] = liveAt[cur][1]]
  /\ valid' = [valid EXCEPT ![cur] = TRUE]
  /\ todo' = Incoming(fn, cur)
  /\ pc' = "propagate"
  /\ UNCHANGED <<fn, queue, queued, data, liveAt, kept, cur, pos>>

\* Enqueues a predecessor that is enqueued already, ...
Notify_Again(s) ==
  /\ valid' = [valid EXCEPT ![s] = valid[s] /\ ~changed]
  /\ IF valid[s] /\ ~changed THEN UNCHANGED <<queue, queued>> ELSE Enqueue(s)

\* ... does not invalidate it, ...
Notify_StaysValid(s) ==
  /\ UNCHANGED valid
  /\ IF valid[s] \/ queued[s] THEN UNCHANGED <<queue, queued>> ELSE Enqueue(s)

\* ... or looks at it only if there are news.
Notify_OnlyNews(s) ==
  /\ valid' = [valid EXCEPT ![s] = valid[s] /\ ~changed]
  /\ IF changed /\ ~queued[s] THEN Enqueue(s) ELSE UNCHANGED <<queue, queued>>

\* Invalidate a predecessor s if there are news, and enqueue it unless it is
\* valid or enqueued already.
Notify(s) ==
  LET stays == valid[s] /\ ~changed
  IN  /\ valid' = [valid EXCEPT ![s] = stays]
      /\ IF stays \/ queued[s] THEN UNCHANGED <<queue, queued>> ELSE Enqueue(s)

PropagateEdge ==
  /\ pc = "propagate"
  /\ \E s \in todo : Notify(s) /\ todo' = todo \ {s}
  /\ UNCHANGED <<fn, data, liveIn, liveAt, kept, cur, pos, changed, pc>>

PropagatePrev ==
  /\ pc = "propagate" /\ todo = {}
  /\ \/ \E s \in Block : fn.next[s] = cur /\ Notify(s)
     \/ /\ \A s \in Block : fn.next[s] # cur
        /\ UNCHANGED <<queue, queued, valid>>
  /\ cur' = None
  /\ pc' = "pop"
  /\ UNCHANGED <<fn, data, liveIn, liveAt, kept, pos, todo, changed>>

\* The queue is empty: the function is marked valid.
Finish ==
  /\ pc = "pop" /\ queue = <<>>
  /\ pc' = "done"
  /\ UNCHANGED <<fn, queue, queued, valid, data, liveIn, liveAt, kept,
                 cur, pos, todo, changed>>

Analyse ==
  \/ Seed \/ AwaitNext \/ StartBlock \/ ProcessInstruction
  \/ FinishBlock \/ PropagateEdge \/ PropagatePrev \/ Finish

Next == Analyse
Spec == Init /\ [][Next]_vars /\ WF_vars(Next)

-----------------------------------------------------------------------------
RowsTypeOK ==
  /\ liveAt \in [Block -> UNION {[1 .. Size(fn, b) + 1 -> SUBSET Reg] : b \in Block}]
  /\ \A b \in Block : liveAt[b] \in [1 .. Size(fn, b) + 1 -> SUBSET Reg]

LivenessTypeOK ==
  /\ queue \in Seq(Block)
  /\ queued \in [Block -> BOOLEAN]
  /\ valid \in [Block -> BOOLEAN]
  /\ data \subseteq Block
  /\ liveIn \in [Block -> SUBSET Reg]
  /\ RowsTypeOK
  /\ kept \subseteq Positions(fn)
  /\ cur \in Block \cup {None}
  /\ pos \in Nat
  /\ pc \in {"scan", "propagate"} => cur \in Block /\ pos <= Size(fn, cur)
  /\ todo \subseteq Block
  /\ changed \in BOOLEAN
  /\ pc \in {"seed", "pop", "scan", "propagate", "done", "thrown", "run", "removed"}

(***************************************************************************)
(* The equations of the analysis at block b: what was computed for the     *)
(* instructions agrees with the data the successors of b carry NOW.        *)
(***************************************************************************)
InstrUpToDate(b, k) ==
  LET i == fn.code[b][k]
  IN  /\ liveAt[b][k] = LiveBefore(i, liveAt[b][k + 1], liveIn, fn.liveRet)
      /\ <<b, k>> \in kept <=> ~IsDead(i, liveAt[b][k + 1])

ExitUpToDate(b) == LiveOut(b) = IF fn.next[b] = None THEN {} ELSE liveIn[fn.next[b]]

UpToDate(b) ==
  /\ ExitUpToDate(b)
  /\ liveIn[b] = liveAt[b][1]
  /\ \A k \in 1 .. Size(fn, b) : InstrUpToDate(b, k)

(***************************************************************************)
(* The inductive invariant.  A valid block is up to date, except that the  *)
(* predecessors of the block just finished do not know its news yet; a     *)
(* block with data that is not valid is enqueued or being processed.       *)
(***************************************************************************)
QueueOK(q, mark, ok) ==
  /\ \A b \in Block : mark[b] <=> \E k \in 1 .. Len(q) : q[k] = b
  /\ \A j, k \in 1 .. Len(q) : q[j] = q[k] => j = k
  /\ \A b \in Block : mark[b] => ~ok[b]

QueueInv ==
  /\ QueueOK(queue, queued, valid)
  /\ pc = "seed" => \A b \in Block : ~valid[b] /\ (b \in todo => ~queued[b])
  /\ pc = "done" => queue = <<>>

DataInv ==
  /\ \A b \in Block : valid[b] => b \in data
  /\ \A b \in Block : b \notin data => liveIn[b] = {}
  /\ \A b \in data : fn.next[b] # None => fn.next[b] \in data
  /\ \A b \in data : valid[b] \/ queued[b] \/ (pc = "scan" /\ b = cur)

ScanInv ==
  /\ pc \in {"scan", "propagate"} => cur \in data
  /\ pc = "scan" =>
       /\ ~valid[cur] /\ ~queued[cur]
       /\ ExitUpToDate(cur)
       /\ \A k \in pos + 1 .. Size(fn, cur) : InstrUpToDate(cur, k)

Unaware(b) == pc = "propagate" /\ changed /\ (b \in todo \/ fn.next[b] = cur)

AnalysisInv ==
  pc \notin {"run", "removed"} =>
    /\ pc = "thrown" => Returning(fn) = {}
    /\ QueueInv
    /\ DataInv
    /\ ScanInv
    /\ \A b \in Block : valid[b] /\ ~Unaware(b) => UpToDate(b)

\* The assertions of processBlock() hold: no block is ever dequeued while its
\* data is valid, although queued and valid are maintained at three places
\* (LivenessAnalysisPass.hpp:276 and :283).
NotEnqueuedTwice == pc = "thrown" => Returning(fn) = {}

\* When the queue has run empty, the data of every block that was analysed
\* solves the equations: no change got lost between a block and a
\* predecessor that was processed, waiting or enqueued at that time.
FixpointReached == pc = "done" => \A b \in data : UpToDate(b)

\* Blocks from which a return can be reached
ReachesReturn ==
  LET Up(S) == S \cup {b \in Block : fn.next[b] \in S}
                 \cup UNION {Incoming(fn, s) : s \in S}
      Iter[n \in Nat] == IF n = 0 THEN Returning(fn) ELSE Up(Iter[n - 1])
  IN  Iter[Cardinality(Block)]

\* Every block that can return got data, although a block may be dequeued
\* and dropped while its successor is not analysed yet.
AllReturningAnalysed == pc = "done" => ReachesReturn \subseteq data

\* "It will properly reenqueue this block": waiting for the successor is never
\* for ever, and the propagation around loops ends.
AnalysisTerminates == <>(pc \in {"done", "thrown"})
=============================================================================
