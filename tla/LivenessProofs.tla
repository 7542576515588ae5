--------------------------- MODULE LivenessProofs ---------------------------
(***************************************************************************)
(* Proofs about the liveness analysis and the removal of dead writes, for  *)
(* every set of registers and blocks and every well-formed function.       *)
(***************************************************************************)
EXTENDS DeadWriteElimination, ListFacts, FiniteSetTheorems

(***************************************************************************)
(* Facts about the operators.                                              *)
(***************************************************************************)

\* What is computed for an instruction depends on the other blocks only
\* through the block its branch edge leads to (LivenessAnalysisPass.hpp:239).
LEMMA LiveBeforeFrame ==
  ASSUME NEW i, NEW live, NEW in1, NEW in2, NEW ret,
         i.kind = "branch" /\ i.dst # None => in1[i.dst] = in2[i.dst]
  PROVE  LiveBefore(i, live, in1, ret) = LiveBefore(i, live, in2, ret)
BY DEF LiveBefore, EffectIn

\* A function the analysis handles is well formed.
LEMMA FunctionFacts ==
  ASSUME NEW f \in Functions
  PROVE  /\ f.entry \in Block
         /\ f.liveRet \subseteq Reg
         /\ f.next \in [Block -> Block \cup {None}]
         /\ f.code \in [Block -> Seq(Instr)]
         /\ \A b \in Block : Size(f, b) \in Nat
         /\ \A b \in Block : \A k \in 1 .. Size(f, b) : f.code[b][k] \in Instr
         /\ \A b, c \in Block : f.next[b] = f.next[c] /\ f.next[b] # None => b = c
         /\ Incoming(f, None) \subseteq Block
         /\ \A b \in Block : Incoming(f, b) \subseteq Block
         /\ Returning(f) \subseteq Block
BY FunctionAssumption DEF WellFormed, Size, Incoming, Returning

\* processInstruction() yields a register mask.
LEMMA LiveBeforeType ==
  ASSUME NEW i \in Instr, NEW live \in SUBSET Reg,
         NEW in \in [Block -> SUBSET Reg], NEW ret \in SUBSET Reg
  PROVE  LiveBefore(i, live, in, ret) \in SUBSET Reg
<1>1. EffectIn(i, live, in, ret) \in SUBSET Reg
  BY DEF EffectIn, Instr
<1>. QED  BY <1>1 DEF LiveBefore, Instr

\* The work list grows at its end ...
LEMMA EnqueueFacts ==
  ASSUME queue \in Seq(Block), queued \in [Block -> BOOLEAN], NEW b \in Block, Enqueue(b)
  PROVE  /\ queue' \in Seq(Block) /\ queued' \in [Block -> BOOLEAN]
         /\ Len(queue') = Len(queue) + 1
         /\ \A k \in 1 .. Len(queue) : queue'[k] = queue[k]
         /\ queue'[Len(queue) + 1] = b
         /\ queued' = [queued EXCEPT ![b] = TRUE]
BY AppendProperties DEF Enqueue

\* ... and shrinks at its head.
LEMMA DequeueFacts ==
  ASSUME queue \in Seq(Block), queue # <<>>
  PROVE  /\ Len(queue) \in Nat /\ Len(queue) > 0
         /\ Head(queue) = queue[1] /\ Head(queue) \in Block
         /\ Tail(queue) \in Seq(Block) /\ Len(Tail(queue)) = Len(queue) - 1
         /\ \A k \in 1 .. Len(queue) - 1 : Tail(queue)[k] = queue[k + 1]
<1>1. Head(queue) \in Block /\ Tail(queue) \in Seq(Block)
      /\ Len(Tail(queue)) = Len(queue) - 1
      /\ \A k \in 1 .. Len(Tail(queue)) : Tail(queue)[k] = queue[k + 1]
  BY HeadTailProperties
<1>2. Len(queue) \in Nat \ {0}
  BY EmptySeq
<1>3. Head(queue) = queue[1]
  OBVIOUS
<1>. QED  BY <1>1, <1>2, <1>3

-----------------------------------------------------------------------------
(***************************************************************************)
(* Type correctness.                                                       *)
(***************************************************************************)
TypeInv == fn \in Functions /\ LivenessTypeOK

\* The types hold before the analysis.
LEMMA InitType == Init => TypeInv
<1>. SUFFICES ASSUME Init PROVE TypeInv
  OBVIOUS
<1>1. fn \in Functions
  BY DEF Init
<1>2. /\ Returning(fn) \subseteq Block
      /\ \A b \in Block : Size(fn, b) \in Nat
  BY <1>1, FunctionFacts
<1>3. RowsTypeOK
  BY <1>2 DEF Init, RowsTypeOK
<1>4. kept \subseteq Positions(fn) /\ pc = "seed" /\ cur \in Block \cup {None}
  BY DEF Init
<1>5. queue \in Seq(Block) /\ pos \in Nat /\ todo \subseteq Block /\ changed \in BOOLEAN
  BY <1>2, EmptySeq, Zenon DEF Init
<1>6. /\ queued \in [Block -> BOOLEAN] /\ valid \in [Block -> BOOLEAN]
      /\ data \subseteq Block /\ liveIn \in [Block -> SUBSET Reg]
  BY DEF Init
<1>. QED  BY <1>1, <1>3, <1>4, <1>5, <1>6 DEF TypeInv, LivenessTypeOK

\* Steps that leave the function and the computed masks alone keep their types.
LEMMA RowsFrame ==
  ASSUME RowsTypeOK, UNCHANGED <<fn, liveAt>>
  PROVE  RowsTypeOK'
BY DEF RowsTypeOK, Size

\* So does writing a mask into one place.
LEMMA RowsUpdate ==
  ASSUME fn \in Functions, RowsTypeOK, fn' = fn,
         NEW b \in Block, NEW k \in 1 .. Size(fn, b) + 1, NEW m \in SUBSET Reg,
         liveAt' = [liveAt EXCEPT ![b][k] = m]
  PROVE  RowsTypeOK'
<1>1. \A c \in Block : Size(fn, c) \in Nat
  BY FunctionFacts
<1>2. \A c \in Block : liveAt'[c] \in [1 .. Size(fn, c) + 1 -> SUBSET Reg]
  BY <1>1, Zenon DEF RowsTypeOK
<1>3. liveAt' \in [Block -> UNION {[1 .. Size(fn, c) + 1 -> SUBSET Reg] : c \in Block}]
  BY <1>2 DEF RowsTypeOK
<1>. QED  BY <1>2, <1>3 DEF RowsTypeOK, Size

\* Every step of the analysis keeps the types.
LEMMA StepType == TypeInv /\ [Analyse]_vars => TypeInv'
<1>. SUFFICES ASSUME TypeInv, [Analyse]_vars PROVE TypeInv'
  OBVIOUS
<1>. USE DEF TypeInv, LivenessTypeOK
<1>0. /\ \A b \in Block : Size(fn, b) \in Nat
      /\ \A b \in Block : Incoming(fn, b) \subseteq Block
      /\ fn.next \in [Block -> Block \cup {None}]
      /\ fn.liveRet \in SUBSET Reg
      /\ \A b \in Block : \A k \in 1 .. Size(fn, b) : fn.code[b][k] \in Instr
  BY FunctionFacts
<1>q. queue # <<>> => Head(queue) \in Block /\ Tail(queue) \in Seq(Block)
  OBVIOUS
<1>p. fn' = fn => Positions(fn') = Positions(fn) /\ \A b \in Block : Size(fn', b) = Size(fn, b)
  OBVIOUS
<1>1. CASE Seed
  <2>1. queue' \in Seq(Block) /\ queued' \in [Block -> BOOLEAN] /\ todo' \subseteq Block
    BY <1>1, EnqueueFacts DEF Seed
  <2>2. pc' \in {"seed", "pop", "thrown"}
    BY <1>1 DEF Seed
  <2>. QED  BY <2>1, <2>2, <1>1, <1>p, RowsFrame DEF Seed
<1>3. CASE AwaitNext
  <2>1. Head(queue) \in Block /\ fn.next[Head(queue)] \in Block /\ Tail(queue) \in Seq(Block)
    BY <1>3, <1>0, <1>q DEF AwaitNext
  <2>2. queue' \in Seq(Block) /\ queued' \in [Block -> BOOLEAN] /\ pc' \in {"pop", "thrown"}
    BY <1>3, <2>1, AppendProperties, Zenon DEF AwaitNext
  <2>. QED  BY <2>2, <1>3, <1>p, RowsFrame, Zenon DEF AwaitNext
<1>4. CASE StartBlock
  <2>. DEFINE b == Head(queue)
  <2>1. b \in Block /\ Size(fn, b) + 1 \in 1 .. Size(fn, b) + 1
    BY <1>4, <1>0, <1>q DEF StartBlock
  <2>2. (IF fn.next[b] = None THEN {} ELSE liveIn[fn.next[b]]) \in SUBSET Reg
    BY <1>0, <2>1
  <2>3. RowsTypeOK'
    <3>1. PICK m \in SUBSET Reg : liveAt' = [liveAt EXCEPT ![b][Size(fn, b) + 1] = m]
      BY <2>2, <1>4, Zenon DEF StartBlock
    <3>2. fn' = fn
      BY <1>4 DEF StartBlock
    <3>. QED  BY <3>1, <3>2, <2>1, RowsUpdate, Zenon
  <2>4. /\ queue' \in Seq(Block) /\ queued' \in [Block -> BOOLEAN] /\ data' \subseteq Block
        /\ cur' \in Block /\ pos' \in Nat /\ pos' <= Size(fn, cur') /\ pc' \in {"scan", "thrown"}
    BY <2>1, <1>4, <1>0, <1>q DEF StartBlock
  <2>. QED  BY <2>3, <2>4, <1>4, <1>p DEF StartBlock
<1>5. CASE ProcessInstruction
  <2>1. cur \in Block /\ pos \in 1 .. Size(fn, cur) /\ pos + 1 \in 1 .. Size(fn, cur) + 1
    BY <1>5, <1>0 DEF ProcessInstruction
  <2>2. LiveBefore(fn.code[cur][pos], liveAt[cur][pos + 1], liveIn, fn.liveRet) \in SUBSET Reg
    BY <2>1, <1>0, LiveBeforeType, ZenonT(30) DEF RowsTypeOK
  <2>3. RowsTypeOK'
    <3>1. PICK m \in SUBSET Reg : liveAt' = [liveAt EXCEPT ![cur][pos] = m]
      BY <2>2, <1>5, Zenon DEF ProcessInstruction
    <3>2. pos \in 1 .. Size(fn, cur) + 1 /\ fn' = fn
      BY <2>1, <1>0, <1>5 DEF ProcessInstruction
    <3>. QED  BY <3>1, <3>2, <2>1, RowsUpdate, Zenon
  <2>4. kept' \subseteq Positions(fn)
    BY <1>5, <2>1 DEF ProcessInstruction, Positions
  <2>. QED  BY <1>5, <1>0, <1>p, <2>1, <2>3, <2>4 DEF ProcessInstruction
<1>6. CASE FinishBlock
  <2>1. cur \in Block /\ liveAt[cur][1] \in SUBSET Reg
    <3>1. cur \in Block /\ Size(fn, cur) \in Nat
      BY <1>6, <1>0 DEF FinishBlock
    <3>2. 1 \in 1 .. Size(fn, cur) + 1
      BY <3>1
    <3>. QED  BY <3>1, <3>2, Zenon DEF RowsTypeOK
  <2>. QED  BY <2>1, <1>6, <1>0, <1>p, RowsFrame DEF FinishBlock
<1>7. CASE PropagateEdge
  <2>1. /\ queue' \in Seq(Block) /\ queued' \in [Block -> BOOLEAN]
        /\ valid' \in [Block -> BOOLEAN] /\ todo' \subseteq Block
    BY <1>7, EnqueueFacts DEF PropagateEdge, Notify
  <2>. QED  BY <2>1, <1>7, <1>p, RowsFrame DEF PropagateEdge
<1>8. CASE PropagatePrev
  <2>1. /\ queue' \in Seq(Block) /\ queued' \in [Block -> BOOLEAN]
        /\ valid' \in [Block -> BOOLEAN]
    BY <1>8, EnqueueFacts, Zenon DEF PropagatePrev, Notify
  <2>. QED  BY <2>1, <1>8, <1>p, RowsFrame DEF PropagatePrev
<1>9. CASE Finish
  BY <1>9, <1>p, RowsFrame DEF Finish
<1>10. CASE UNCHANGED vars
  BY <1>10, <1>p, RowsFrame DEF vars
<1>. QED  BY <1>1, <1>3, <1>4, <1>5, <1>6, <1>7, <1>8, <1>9, <1>10 DEF Analyse

-----------------------------------------------------------------------------
(***************************************************************************)
(* The invariant of the analysis, one lemma per part.                      *)
(***************************************************************************)

\* Appending a block that is neither enqueued nor valid keeps the queue and
\* the marks in step (LivenessAnalysisPass.hpp:348-351 and 360-363) ...
LEMMA AppendQueueOK ==
  ASSUME NEW q \in Seq(Block), NEW mark \in [Block -> BOOLEAN], NEW ok, NEW ok2,
         NEW b \in Block, QueueOK(q, mark, ok), ~mark[b],
         \A c \in Block : ok2[c] => ok[c] /\ c # b
  PROVE  QueueOK(Append(q, b), [mark EXCEPT ![b] = TRUE], ok2)
<1>. DEFINE r == Append(q, b)
            m == [mark EXCEPT ![b] = TRUE]
<1>1. /\ Len(q) \in Nat /\ Len(r) = Len(q) + 1 /\ r[Len(q) + 1] = b
      /\ \A k \in 1 .. Len(q) : r[k] = q[k]
  BY AppendProperties, LenProperties
<1>2. \A k \in 1 .. Len(q) : q[k] # b
  BY DEF QueueOK
<1>. HIDE DEF r
<1>3. \A c \in Block : m[c] <=> \E k \in 1 .. Len(r) : r[k] = c
  <2>. TAKE c \in Block
  <2>1. CASE c = b
    BY <1>1, <2>1
  <2>2. CASE c # b
    <3>1. m[c] = mark[c]
      BY <2>2
    <3>2. (\E k \in 1 .. Len(r) : r[k] = c) <=> \E k \in 1 .. Len(q) : q[k] = c
      BY <1>1, <2>2
    <3>. QED  BY <3>1, <3>2, Zenon DEF QueueOK
  <2>. QED  BY <2>1, <2>2
<1>4. \A j, k \in 1 .. Len(r) : r[j] = r[k] => j = k
  BY <1>1, <1>2 DEF QueueOK
<1>5. \A c \in Block : m[c] => ~ok2[c]
  BY DEF QueueOK
<1>. QED  BY <1>3, <1>4, <1>5 DEF QueueOK, r

\* ... and so does taking the oldest block off and clearing its mark.
LEMMA TailQueueOK ==
  ASSUME NEW q \in Seq(Block), NEW mark \in [Block -> BOOLEAN], NEW ok,
         QueueOK(q, mark, ok), q # <<>>
  PROVE  QueueOK(Tail(q), [mark EXCEPT ![Head(q)] = FALSE], ok)
<1>. DEFINE r == Tail(q)
            m == [mark EXCEPT ![Head(q)] = FALSE]
<1>1. /\ Len(q) \in Nat /\ Len(q) > 0
      /\ Head(q) = q[1] /\ Head(q) \in Block
      /\ Len(r) = Len(q) - 1
      /\ \A k \in 1 .. Len(q) - 1 : r[k] = q[k + 1]
  BY HeadTailProperties, EmptySeq
<1>. HIDE DEF r
<1>2. \A c \in Block : m[c] <=> \E k \in 1 .. Len(r) : r[k] = c
  <2>. TAKE c \in Block
  <2>1. CASE c = Head(q)
    BY <1>1, <2>1 DEF QueueOK
  <2>2. CASE c # Head(q)
    <3>1. m[c] = mark[c]
      BY <2>2
    <3>2. ASSUME NEW k \in 1 .. Len(q), q[k] = c
          PROVE  \E j \in 1 .. Len(r) : r[j] = c
      <4>1. k - 1 \in 1 .. Len(q) - 1
        BY <3>2, <2>2, <1>1
      <4>2. r[k - 1] = c
        BY <4>1, <3>2, <1>1
      <4>. QED  BY <4>1, <4>2, <1>1
    <3>3. ASSUME NEW j \in 1 .. Len(r), r[j] = c
          PROVE  \E k \in 1 .. Len(q) : q[k] = c
      <4>1. j + 1 \in 1 .. Len(q) /\ q[j + 1] = c
        BY <3>3, <1>1
      <4>. QED  BY <4>1
    <3>. QED  BY <3>1, <3>2, <3>3, Zenon DEF QueueOK
  <2>. QED  BY <2>1, <2>2
<1>3. \A j, k \in 1 .. Len(r) : r[j] = r[k] => j = k
  <2>. TAKE j, k \in 1 .. Len(r)
  <2>1. j + 1 \in 1 .. Len(q) /\ k + 1 \in 1 .. Len(q)
    BY <1>1
  <2>2. r[j] = q[j + 1] /\ r[k] = q[k + 1]
    BY <1>1
  <2>3. \A x, y \in 1 .. Len(q) : q[x] = q[y] => x = y
    BY DEF QueueOK
  <2>. QED  BY <2>1, <2>2, <2>3, <1>1
<1>4. \A c \in Block : m[c] => ~ok[c]
  BY <1>1 DEF QueueOK
<1>. QED  BY <1>2, <1>3, <1>4 DEF QueueOK, r

\* Blocks may lose their validity at any time, enqueued or not.
LEMMA InvalidateQueueOK ==
  ASSUME NEW q, NEW mark, NEW ok, NEW ok2, QueueOK(q, mark, ok),
         \A c \in Block : ok2[c] => ok[c]
  PROVE  QueueOK(q, mark, ok2)
BY DEF QueueOK

\* Notifying a predecessor: whatever branch is taken, the queue stays in step,
\* nothing becomes valid, and a block that is not valid is enqueued.
LEMMA NotifyFacts ==
  ASSUME TypeInv, QueueOK(queue, queued, valid), NEW s \in Block, Notify(s)
  PROVE  /\ QueueOK(queue', queued', valid')
         /\ valid' = [valid EXCEPT ![s] = valid[s] /\ ~changed]
         /\ \A c \in Block : valid'[c] => valid[c]
         /\ \A c \in Block : queued[c] => queued'[c]
         /\ ~valid'[s] => queued'[s]
<1>. USE DEF TypeInv, LivenessTypeOK
<1>1. /\ valid' = [valid EXCEPT ![s] = valid[s] /\ ~changed]
      /\ \A c \in Block : valid'[c] => valid[c]
      /\ valid'[s] = (valid[s] /\ ~changed)
  BY DEF Notify
<1>2. CASE (valid[s] /\ ~changed) \/ queued[s]
  <2>1. UNCHANGED <<queue, queued>>
    BY <1>2 DEF Notify
  <2>. QED  BY <2>1, <1>1, <1>2, InvalidateQueueOK, Zenon
<1>3. CASE ~(valid[s] /\ ~changed) /\ ~queued[s]
  <2>1. queue' = Append(queue, s) /\ queued' = [queued EXCEPT ![s] = TRUE]
    BY <1>3 DEF Notify, Enqueue
  <2>2. \A c \in Block : valid'[c] => valid[c] /\ c # s
    BY <1>1, <1>3
  <2>3. QueueOK(queue', queued', valid')
    BY <2>1, <2>2, <1>3, AppendQueueOK, Zenon
  <2>. QED  BY <2>1, <2>3, <1>1
<1>. QED  BY <1>2, <1>3

\* The equations at a block stay true as long as neither its own masks nor
\* the live_in of a successor change.
LEMMA UpToDateFrame ==
  ASSUME TypeInv, NEW b \in Block, UpToDate(b), fn' = fn,
         liveAt'[b] = liveAt[b], liveIn'[b] = liveIn[b],
         \A k \in 1 .. Size(fn, b) : <<b, k>> \in kept' <=> <<b, k>> \in kept,
         fn.next[b] # None => liveIn'[fn.next[b]] = liveIn[fn.next[b]],
         \A c \in Block : b \in Incoming(fn, c) => liveIn'[c] = liveIn[c]
  PROVE  UpToDate(b)'
<1>1. Size(fn', b) = Size(fn, b)
  OBVIOUS
<1>2. ExitUpToDate(b)'
  BY <1>1 DEF UpToDate, ExitUpToDate, LiveOut
<1>3. liveIn'[b] = liveAt'[b][1]
  BY DEF UpToDate
<1>4. ASSUME NEW k \in 1 .. Size(fn, b) PROVE InstrUpToDate(b, k)'
  <2>. DEFINE i == fn.code[b][k]
  <2>1. InstrUpToDate(b, k)
    BY DEF UpToDate
  <2>2. i \in Instr
    BY FunctionFacts DEF TypeInv
  <2>3. i.kind = "branch" /\ i.dst # None => liveIn'[i.dst] = liveIn[i.dst]
    BY <2>2 DEF Incoming, Instr
  <2>4. LiveBefore(i, liveAt[b][k + 1], liveIn, fn.liveRet)
          = LiveBefore(i, liveAt[b][k + 1], liveIn', fn.liveRet)
    BY <2>3, LiveBeforeFrame
  <2>. QED  BY <2>1, <2>4 DEF InstrUpToDate
<1>. QED  BY <1>1, <1>2, <1>3, <1>4 DEF UpToDate

\* In particular when nothing of all this changes at all.
LEMMA Unchanged ==
  ASSUME UNCHANGED <<fn, liveAt, liveIn, kept>>
  PROVE  /\ \A b \in Block : UpToDate(b)' <=> UpToDate(b)
         /\ \A b \in Block : ExitUpToDate(b)' <=> ExitUpToDate(b)
         /\ \A b \in Block : \A k \in 1 .. Size(fn, b) : InstrUpToDate(b, k)' <=> InstrUpToDate(b, k)
         /\ \A b \in Block : Size(fn, b)' = Size(fn, b)
BY DEF UpToDate, ExitUpToDate, InstrUpToDate, LiveOut, Size

\* Before the analysis nothing is enqueued and no block has data.
LEMMA InitAnalysisInv == Init => AnalysisInv
<1>. SUFFICES ASSUME Init PROVE AnalysisInv
  OBVIOUS
<1>1. QueueInv
  BY EmptySeq DEF Init, QueueInv, QueueOK
<1>2. DataInv
  BY DEF Init, DataInv
<1>. QED  BY <1>1, <1>2 DEF Init, AnalysisInv, ScanInv

\* A block that returns is enqueued.
LEMMA SeedStep == TypeInv /\ TypeInv' /\ AnalysisInv /\ Seed => AnalysisInv'
<1>. SUFFICES ASSUME TypeInv, TypeInv', AnalysisInv, Seed PROVE AnalysisInv'
  OBVIOUS
<1>. USE DEF TypeInv, LivenessTypeOK
<1>0. /\ QueueInv /\ DataInv /\ pc = "seed" /\ \A b \in Block : ~valid[b]
      /\ UNCHANGED <<fn, valid, data, liveIn, liveAt, kept, cur, pos, changed>>
  BY DEF AnalysisInv, Seed, QueueInv
<1>1. CASE Returning(fn) = {} /\ pc' = "thrown" /\ UNCHANGED <<queue, queued, todo>>
  BY <1>1, <1>0 DEF AnalysisInv, QueueInv, DataInv, ScanInv
<1>2. CASE \E b \in todo : /\ Enqueue(b)
                           /\ todo' = todo \ {b}
                           /\ pc' = IF todo = {b} THEN "pop" ELSE "seed"
  <2>1. PICK b \in todo : /\ Enqueue(b)
                          /\ todo' = todo \ {b}
                          /\ pc' = IF todo = {b} THEN "pop" ELSE "seed"
    BY <1>2
  <2>2. b \in Block /\ ~queued[b] /\ queued' = [queued EXCEPT ![b] = TRUE]
    BY <1>0, <2>1 DEF QueueInv, Enqueue
  <2>3. QueueOK(queue', queued', valid')
    <3>1. \A c \in Block : valid'[c] => valid[c] /\ c # b
      BY <1>0
    <3>2. queue' = Append(queue, b) /\ QueueOK(queue, queued, valid)
      BY <1>0, <2>1 DEF QueueInv, Enqueue
    <3>. QED  BY <3>1, <3>2, <2>2, AppendQueueOK, Zenon
  <2>4. QueueInv'
    BY <2>1, <2>2, <2>3, <1>0 DEF QueueInv
  <2>5. DataInv'
    BY <2>1, <2>2, <1>0 DEF DataInv
  <2>. QED  BY <2>1, <2>4, <2>5, <1>0 DEF AnalysisInv, ScanInv
<1>. QED  BY <1>1, <1>2 DEF Seed

\* The first block is taken from the work list and waits, or is processed.
LEMMA DequeueStep ==
  TypeInv /\ TypeInv' /\ AnalysisInv /\ (AwaitNext \/ StartBlock) => AnalysisInv'
<1>. SUFFICES ASSUME TypeInv, TypeInv', AnalysisInv, AwaitNext \/ StartBlock
              PROVE  AnalysisInv'
  OBVIOUS
<1>. USE DEF TypeInv, LivenessTypeOK
<1>p. pc = "pop" /\ queue # <<>>
  BY DEF AwaitNext, StartBlock
<1>b. PICK b \in Block : b = Head(queue)
  BY <1>p, DequeueFacts
<1>. DEFINE n == fn.next[b]
<1>0. /\ QueueInv /\ DataInv /\ pc = "pop" /\ queue # <<>>
      /\ b \in Block /\ n \in Block \cup {None} /\ queue[1] = b /\ 1 \in 1 .. Len(queue)
      /\ Tail(queue) \in Seq(Block)
      /\ \A c \in Block : valid[c] => UpToDate(c)
  BY <1>p, <1>b, DequeueFacts, FunctionFacts DEF AnalysisInv, Unaware
<1>1. queued[b] /\ ~valid[b]
  BY <1>0 DEF QueueInv, QueueOK
<1>3. QueueOK(Tail(queue), [queued EXCEPT ![b] = FALSE], valid)
  BY <1>0, <1>b, TailQueueOK, Zenon DEF QueueInv
<1>4. CASE AwaitNext
  <2>. DEFINE popped == [queued EXCEPT ![b] = FALSE]
  <2>1. /\ n \in Block /\ n \notin data /\ ~valid[n]
        /\ queue' = IF popped[n] THEN Tail(queue) ELSE Append(Tail(queue), n)
        /\ queued' = [popped EXCEPT ![n] = TRUE] /\ pc' = "pop"
        /\ UNCHANGED <<fn, valid, data, liveIn, liveAt, kept, cur, pos, todo, changed>>
    BY <1>4, <1>0, <1>1, <1>b DEF AwaitNext, DataInv
  <2>2. b \notin data
    <3>1. b \in data /\ n # None => n \in data
      BY <1>0 DEF DataInv
    <3>. QED  BY <3>1, <2>1, BlockAssumption
  <2>3. QueueOK(queue', queued', valid')
    <3>1. CASE popped[n]
      <4>1. queued' = popped
        BY <2>1, <3>1, Zenon
      <4>. QED  BY <4>1, <3>1, <2>1, <1>3
    <3>2. CASE ~popped[n]
      <4>1. popped \in [Block -> BOOLEAN] /\ \A c \in Block : valid[c] => valid[c] /\ c # n
        BY <2>1
      <4>. HIDE DEF popped
      <4>. QED  BY <4>1, <3>2, <2>1, <1>3, <1>0, AppendQueueOK, Zenon DEF popped
    <3>. QED  BY <3>1, <3>2
  <2>4. QueueInv'
    BY <2>3, <2>1, <1>0 DEF QueueInv
  <2>5. DataInv'
    BY <2>1, <2>2, <1>0 DEF DataInv
  <2>6. \A c \in Block : valid'[c] => UpToDate(c)'
    BY <2>1, <1>0, Unchanged
  <2>. QED  BY <2>1, <2>4, <2>5, <2>6, <1>0 DEF AnalysisInv, ScanInv
<1>5. CASE StartBlock
  <2>1. /\ n = None \/ n \in data
        /\ queue' = Tail(queue) /\ queued' = [queued EXCEPT ![b] = FALSE]
        /\ data' = data \cup {b} /\ cur' = b /\ pos' = Size(fn, b) /\ pc' = "scan"
        /\ liveAt' = [liveAt EXCEPT ![b][Size(fn, b) + 1] =
                                        IF n = None THEN {} ELSE liveIn[n]]
        /\ UNCHANGED <<fn, valid, liveIn, kept, todo, changed>>
    BY <1>5, <1>1, <1>b DEF StartBlock
  <2>2. QueueInv'
    BY <2>1, <1>3 DEF QueueInv
  <2>3. DataInv'
    BY <2>1, <1>0 DEF DataInv
  <2>5. Size(fn, b) \in Nat /\ Size(fn', b) = Size(fn, b)
    BY <1>0, <2>1, FunctionFacts
  <2>4. ExitUpToDate(b)'
    <3>1. Size(fn, b) + 1 \in 1 .. Size(fn, b) + 1
      BY <2>5
    <3>3. liveAt[b] \in [1 .. Size(fn, b) + 1 -> SUBSET Reg]
      BY <1>0 DEF RowsTypeOK
    <3>2. liveAt'[b] = [liveAt[b] EXCEPT ![Size(fn, b) + 1] =
                                            IF n = None THEN {} ELSE liveIn[n]]
      BY <2>1, <1>0 DEF RowsTypeOK
    <3>4. liveAt'[b][Size(fn, b) + 1] = IF n = None THEN {} ELSE liveIn[n]
      BY <3>1, <3>2, <3>3
    <3>. QED  BY <3>4, <2>1 DEF ExitUpToDate, LiveOut, Size
  <2>6. ScanInv'
    <3>1. \A k \in pos' + 1 .. Size(fn', cur') : FALSE
      BY <2>1, <2>5
    <3>2. ~valid'[b] /\ ~queued'[b] /\ cur' \in data'
      BY <2>1, <1>0, <1>1
    <3>. QED  BY <2>1, <2>4, <3>1, <3>2 DEF ScanInv
  <2>7. ASSUME NEW c \in Block, valid'[c] PROVE UpToDate(c)'
    <3>1. c # b /\ UpToDate(c)
      BY <2>7, <2>1, <1>0, <1>1
    <3>2. liveAt'[c] = liveAt[c]
      BY <3>1, <2>1, <1>0 DEF RowsTypeOK
    <3>. QED  BY <3>1, <3>2, <2>1, UpToDateFrame
  <2>. QED  BY <2>1, <2>2, <2>3, <2>6, <2>7 DEF AnalysisInv
<1>. QED  BY <1>4, <1>5

\* processBlock() goes back over one instruction.
LEMMA ProcessStep ==
  TypeInv /\ TypeInv' /\ AnalysisInv /\ ProcessInstruction => AnalysisInv'
<1>. SUFFICES ASSUME TypeInv, TypeInv', AnalysisInv, ProcessInstruction PROVE AnalysisInv'
  OBVIOUS
<1>. USE DEF TypeInv, LivenessTypeOK
<1>1. PICK c \in Block, p \in Nat : c = cur /\ p = pos
  BY DEF ProcessInstruction
<1>. DEFINE i == fn.code[c][p]
            live == liveAt[c][p + 1]
<1>2. /\ pc = "scan" /\ pos' = p - 1
      /\ liveAt' = [liveAt EXCEPT ![c][p] = LiveBefore(i, live, liveIn, fn.liveRet)]
      /\ kept' = IF IsDead(i, live) THEN kept \ {<<c, p>>} ELSE kept \cup {<<c, p>>}
      /\ UNCHANGED <<fn, queue, queued, valid, data, liveIn, cur, todo, changed, pc>>
  BY <1>1 DEF ProcessInstruction
<1>3. Size(fn, c) \in Nat /\ p \in 1 .. Size(fn, c) /\ Size(fn', c) = Size(fn, c)
  BY <1>1, <1>2, FunctionFacts DEF ProcessInstruction
<1>4. QueueInv /\ DataInv /\ ScanInv /\ \A d \in Block : valid[d] => UpToDate(d)
  BY <1>2 DEF AnalysisInv, Unaware
<1>5. QueueInv' /\ DataInv'
  BY <1>2, <1>4 DEF QueueInv, DataInv
<1>6. /\ liveAt'[c][p] = LiveBefore(i, live, liveIn, fn.liveRet)
      /\ \A k \in 1 .. Size(fn, c) + 1 : k # p => liveAt'[c][k] = liveAt[c][k]
      /\ \A d \in Block : d # c => liveAt'[d] = liveAt[d]
  <2>1. liveAt[c] \in [1 .. Size(fn, c) + 1 -> SUBSET Reg]
    BY DEF RowsTypeOK
  <2>2. liveAt'[c] = [liveAt[c] EXCEPT ![p] = LiveBefore(i, live, liveIn, fn.liveRet)]
    BY <1>2 DEF RowsTypeOK
  <2>3. \A d \in Block : d # c => liveAt'[d] = liveAt[d]
    BY <1>2 DEF RowsTypeOK
  <2>. QED  BY <2>1, <2>2, <2>3, <1>3
<1>7. InstrUpToDate(c, p)'
  <2>1. liveAt'[c][p + 1] = live
    <3>1. p + 1 \in 1 .. Size(fn, c) + 1 /\ p + 1 # p
      BY <1>3
    <3>. QED  BY <3>1, <1>6
  <2>2. <<c, p>> \in kept' <=> ~IsDead(i, live)
    BY <1>2
  <2>. QED  BY <2>1, <2>2, <1>2, <1>3, <1>6 DEF InstrUpToDate
<1>8. ASSUME NEW k \in p + 1 .. Size(fn, c) PROVE InstrUpToDate(c, k)'
  <2>1. InstrUpToDate(c, k)
    BY <1>1, <1>2, <1>4 DEF ScanInv
  <2>2. liveAt'[c][k] = liveAt[c][k] /\ liveAt'[c][k + 1] = liveAt[c][k + 1]
    <3>1. k \in 1 .. Size(fn, c) + 1 /\ k # p /\ k + 1 \in 1 .. Size(fn, c) + 1 /\ k + 1 # p
      BY <1>3
    <3>. QED  BY <3>1, <1>6, Zenon
  <2>3. <<c, k>> \in kept' <=> <<c, k>> \in kept
    BY <1>2, <1>3
  <2>. QED  BY <2>1, <2>2, <2>3, <1>2 DEF InstrUpToDate
<1>9. ScanInv'
  <2>1. ExitUpToDate(c)'
    <3>1. ExitUpToDate(c) /\ liveAt'[c][Size(fn, c) + 1] = liveAt[c][Size(fn, c) + 1]
      BY <1>1, <1>2, <1>3, <1>4, <1>6 DEF ScanInv
    <3>. QED  BY <3>1, <1>2 DEF ExitUpToDate, LiveOut
  <2>2. \A k \in pos' + 1 .. Size(fn, c) : InstrUpToDate(c, k)'
    <3>1. \A k \in pos' + 1 .. Size(fn, c) : k = p \/ k \in p + 1 .. Size(fn, c)
      BY <1>2, <1>3
    <3>. QED  BY <3>1, <1>7, <1>8, Zenon
  <2>. QED  BY <2>1, <2>2, <1>1, <1>2, <1>3, <1>4 DEF ScanInv
<1>10. ASSUME NEW d \in Block, valid'[d] PROVE UpToDate(d)'
  <2>1. d # c /\ UpToDate(d)
    BY <1>10, <1>1, <1>2, <1>4 DEF ScanInv
  <2>2. \A k \in 1 .. Size(fn, d) : <<d, k>> \in kept' <=> <<d, k>> \in kept
    BY <2>1, <1>2
  <2>. QED  BY <2>1, <2>2, <1>2, <1>6, UpToDateFrame
<1>. QED  BY <1>2, <1>5, <1>9, <1>10 DEF AnalysisInv

\* The mask at the beginning of the block is stored, and is news or not.
LEMMA FinishBlockStep ==
  TypeInv /\ TypeInv' /\ AnalysisInv /\ FinishBlock => AnalysisInv'
<1>. SUFFICES ASSUME TypeInv, TypeInv', AnalysisInv, FinishBlock PROVE AnalysisInv'
  OBVIOUS
<1>. USE DEF TypeInv, LivenessTypeOK
<1>1. PICK c \in Block : c = cur
  BY DEF FinishBlock
<1>2. /\ pc = "scan" /\ pos = 0 /\ pc' = "propagate" /\ cur' = c
      /\ changed' = (liveIn[c] # liveAt[c][1])
      /\ liveIn' = [liveIn EXCEPT ![c] = liveAt[c][1]]
      /\ valid' = [valid EXCEPT ![c] = TRUE]
      /\ todo' = Incoming(fn, c)
      /\ UNCHANGED <<fn, queue, queued, data, liveAt, kept, cur, pos>>
  BY <1>1 DEF FinishBlock
<1>3. /\ QueueInv /\ DataInv /\ \A d \in Block : valid[d] => UpToDate(d)
      /\ c \in data /\ ~valid[c] /\ ~queued[c] /\ ExitUpToDate(c)
      /\ \A k \in 1 .. Size(fn, c) : InstrUpToDate(c, k)
  BY <1>1, <1>2 DEF AnalysisInv, Unaware, ScanInv
<1>4. QueueInv'
  <2>1. QueueOK(queue, queued, valid')
    BY <1>2, <1>3 DEF QueueInv, QueueOK
  <2>. QED  BY <2>1, <1>2 DEF QueueInv
<1>5. DataInv'
  BY <1>1, <1>2, <1>3 DEF DataInv
<1>6. \A d \in Block : fn.next[d] # None => fn.next[d] \in Block
  BY FunctionFacts
<1>7. ASSUME NEW d \in Block, valid'[d], ~Unaware(d)' PROVE UpToDate(d)'
  <2>1. ASSUME changed' PROVE d \notin Incoming(fn, c) /\ fn.next[d] # c
    BY <2>1, <1>2, <1>7 DEF Unaware
  <2>2. CASE d # c
    <3>1. UpToDate(d) /\ liveIn'[d] = liveIn[d]
      BY <1>2, <1>3, <1>7, <2>2
    <3>2. \A e \in Block : d \in Incoming(fn, e) => liveIn'[e] = liveIn[e]
      BY <2>1, <1>2, Zenon
    <3>3. fn.next[d] # None => liveIn'[fn.next[d]] = liveIn[fn.next[d]]
      BY <2>1, <1>2, <1>6, Zenon
    <3>. QED  BY <3>1, <3>2, <3>3, <1>2, UpToDateFrame
  <2>3. CASE d = c
    <3>1. liveIn'[c] = liveAt[c][1]
      BY <1>2
    <3>2. ExitUpToDate(c)'
      <4>1. fn.next[c] # None => liveIn'[fn.next[c]] = liveIn[fn.next[c]]
        BY <2>1, <2>3, <1>2, <1>6, Zenon
      <4>. QED  BY <4>1, <1>2, <1>3 DEF ExitUpToDate, LiveOut
    <3>3. ASSUME NEW k \in 1 .. Size(fn, c) PROVE InstrUpToDate(c, k)'
      <4>. DEFINE i == fn.code[c][k]
      <4>1. i \in Instr
        BY FunctionFacts
      <4>2. i.kind = "branch" /\ i.dst # None => liveIn'[i.dst] = liveIn[i.dst]
        BY <4>1, <2>1, <2>3, <1>2, Zenon DEF Incoming, Instr
      <4>3. LiveBefore(i, liveAt[c][k + 1], liveIn, fn.liveRet)
              = LiveBefore(i, liveAt[c][k + 1], liveIn', fn.liveRet)
        BY <4>2, LiveBeforeFrame
      <4>. QED  BY <4>3, <1>2, <1>3 DEF InstrUpToDate
    <3>. QED  BY <3>1, <3>2, <3>3, <2>3, <1>2 DEF UpToDate
  <2>. QED  BY <2>2, <2>3
<1>8. \A d \in Block : valid'[d] /\ ~Unaware(d)' => UpToDate(d)'
  BY <1>7
<1>. QED  BY <1>1, <1>2, <1>3, <1>4, <1>5, <1>8 DEF AnalysisInv, ScanInv

\* A block with a branch to this one hears of the news.
LEMMA PropagateEdgeStep ==
  TypeInv /\ TypeInv' /\ AnalysisInv /\ PropagateEdge => AnalysisInv'
<1>. SUFFICES ASSUME TypeInv, TypeInv', AnalysisInv, PropagateEdge PROVE AnalysisInv'
  OBVIOUS
<1>. USE DEF TypeInv, LivenessTypeOK
<1>1. PICK s \in todo : Notify(s) /\ todo' = todo \ {s}
  BY DEF PropagateEdge
<1>2. /\ pc = "propagate" /\ s \in Block
      /\ UNCHANGED <<fn, data, liveIn, liveAt, kept, cur, pos, changed, pc>>
  BY DEF PropagateEdge
<1>3. /\ QueueInv /\ DataInv /\ ScanInv
      /\ \A b \in Block : valid[b] /\ ~Unaware(b) => UpToDate(b)
  BY <1>2 DEF AnalysisInv
<1>4. /\ QueueOK(queue', queued', valid')
      /\ valid' = [valid EXCEPT ![s] = valid[s] /\ ~changed]
      /\ \A c \in Block : valid'[c] => valid[c]
      /\ \A c \in Block : queued[c] => queued'[c]
      /\ ~valid'[s] => queued'[s]
  BY <1>1, <1>2, <1>3, NotifyFacts DEF QueueInv
<1>5. QueueInv'
  BY <1>2, <1>4 DEF QueueInv
<1>6. DataInv'
  BY <1>2, <1>3, <1>4 DEF DataInv
<1>7. ASSUME NEW b \in Block, valid'[b], ~Unaware(b)' PROVE UpToDate(b)'
  <2>1. ~Unaware(b)
    BY <1>1, <1>2, <1>4, <1>7, Zenon DEF Unaware
  <2>. QED  BY <2>1, <1>2, <1>3, <1>4, <1>7, Unchanged
<1>8. \A b \in Block : valid'[b] /\ ~Unaware(b)' => UpToDate(b)'
  BY <1>7
<1>. QED  BY <1>2, <1>3, <1>5, <1>6, <1>8 DEF AnalysisInv, ScanInv

\* So does the block that falls through to it.
LEMMA PropagatePrevStep ==
  TypeInv /\ TypeInv' /\ AnalysisInv /\ PropagatePrev => AnalysisInv'
<1>. SUFFICES ASSUME TypeInv, TypeInv', AnalysisInv, PropagatePrev PROVE AnalysisInv'
  OBVIOUS
<1>. USE DEF TypeInv, LivenessTypeOK
<1>1. /\ pc = "propagate" /\ todo = {} /\ cur \in Block /\ cur' = None /\ pc' = "pop"
      /\ UNCHANGED <<fn, data, liveIn, liveAt, kept, pos, todo, changed>>
  BY DEF PropagatePrev
<1>2. /\ QueueInv /\ DataInv
      /\ \A b \in Block : valid[b] /\ ~Unaware(b) => UpToDate(b)
  BY <1>1 DEF AnalysisInv
<1>3. \A b \in Block : UpToDate(b) => UpToDate(b)'
  BY <1>1, Unchanged
<1>4. CASE \E s \in Block : fn.next[s] = cur /\ Notify(s)
  <2>1. PICK s \in Block : fn.next[s] = cur /\ Notify(s)
    BY <1>4
  <2>2. \A b \in Block : fn.next[b] = cur => b = s
    BY <1>1, <2>1, FunctionFacts, BlockAssumption
  <2>3. /\ QueueOK(queue', queued', valid')
        /\ valid' = [valid EXCEPT ![s] = valid[s] /\ ~changed]
        /\ \A c \in Block : valid'[c] => valid[c]
        /\ \A c \in Block : queued[c] => queued'[c]
        /\ ~valid'[s] => queued'[s]
    BY <1>2, <2>1, NotifyFacts DEF QueueInv
  <2>4. QueueInv'
    BY <1>1, <2>3 DEF QueueInv
  <2>5. DataInv'
    BY <1>1, <1>2, <2>3 DEF DataInv
  <2>6. ASSUME NEW b \in Block, valid'[b] PROVE UpToDate(b)'
    <3>1. valid[b] /\ ~Unaware(b)
      BY <1>1, <2>2, <2>3, <2>6, Zenon DEF Unaware
    <3>. QED  BY <3>1, <1>2, <1>3
  <2>. QED  BY <1>1, <2>4, <2>5, <2>6 DEF AnalysisInv, ScanInv
<1>5. CASE (\A s \in Block : fn.next[s] # cur) /\ UNCHANGED <<queue, queued, valid>>
  <2>1. QueueInv' /\ DataInv'
    BY <1>1, <1>2, <1>5 DEF QueueInv, DataInv
  <2>2. \A b \in Block : valid'[b] => UpToDate(b)'
    BY <1>1, <1>2, <1>3, <1>5 DEF Unaware
  <2>. QED  BY <1>1, <2>1, <2>2 DEF AnalysisInv, ScanInv
<1>. QED  BY <1>4, <1>5 DEF PropagatePrev

\* The work list is empty.
LEMMA FinishStep ==
  TypeInv /\ AnalysisInv /\ (Finish \/ UNCHANGED vars) => AnalysisInv'
<1>. SUFFICES ASSUME TypeInv, AnalysisInv, Finish \/ UNCHANGED vars PROVE AnalysisInv'
  OBVIOUS
<1>. USE DEF TypeInv, LivenessTypeOK
<1>1. UNCHANGED <<fn, queue, queued, valid, data, liveIn, liveAt, kept, cur, pos, todo, changed>>
  BY DEF Finish, vars
<1>2. \A b \in Block : UpToDate(b)' <=> UpToDate(b)
  BY <1>1, Unchanged
<1>3. CASE Finish
  <2>1. pc = "pop" /\ pc' = "done" /\ queue = <<>>
    BY <1>3 DEF Finish
  <2>. QED  BY <2>1, <1>1, <1>2 DEF AnalysisInv, QueueInv, DataInv, ScanInv, Unaware
<1>4. CASE UNCHANGED vars
  <2>1. pc' = pc
    BY <1>4 DEF vars
  <2>2. ScanInv <=> ScanInv'
    BY <2>1, <1>1 DEF ScanInv, ExitUpToDate, InstrUpToDate, LiveOut
  <2>. QED  BY <2>1, <2>2, <1>1, <1>2 DEF AnalysisInv, QueueInv, DataInv, Unaware
<1>. QED  BY <1>3, <1>4

\* The invariant is inductive.
LEMMA StepAnalysisInv ==
  TypeInv /\ TypeInv' /\ AnalysisInv /\ [Analyse]_vars => AnalysisInv'
BY SeedStep, DequeueStep, ProcessStep, FinishBlockStep, PropagateEdgeStep,
   PropagatePrevStep, FinishStep DEF Analyse

\* When the work list is empty, a block with data is valid and was told all.
LEMMA DoneFacts ==
  ASSUME TypeInv, AnalysisInv, pc = "done", NEW b \in data
  PROVE  UpToDate(b)
<1>1. b \in Block /\ ~queued[b]
  BY DEF TypeInv, LivenessTypeOK, AnalysisInv, QueueInv, QueueOK
<1>2. valid[b] /\ ~Unaware(b)
  BY <1>1 DEF AnalysisInv, DataInv, Unaware
<1>. QED  BY <1>2, <1>1 DEF AnalysisInv

-----------------------------------------------------------------------------
(***************************************************************************)
(* Theorems about the analysis.                                            *)
(***************************************************************************)

\* The analysis only ever computes register masks, positions and marks of
\* their types, whatever function it is given.
THEOREM TypeCorrect == Spec => []LivenessTypeOK
<1>1. Init => TypeInv
  BY InitType
<1>2. TypeInv /\ [Next]_vars => TypeInv'
  BY StepType DEF Next
<1>3. TypeInv => LivenessTypeOK
  BY DEF TypeInv
<1>. QED  BY <1>1, <1>2, <1>3, PTL DEF Spec

\* The work list, its marks, the validity flags and the computed masks stay
\* consistent with each other at every step of the analysis.
THEOREM AnalysisConsistent == Spec => []AnalysisInv
<1>1. Init => TypeInv /\ AnalysisInv
  BY InitType, InitAnalysisInv
<1>2. TypeInv /\ AnalysisInv /\ [Next]_vars => TypeInv' /\ AnalysisInv'
  BY StepType, StepAnalysisInv DEF Next
<1>. QED  BY <1>1, <1>2, PTL DEF Spec

\* The assertions at LivenessAnalysisPass.hpp:276 and :283 never throw.
THEOREM AssertionsHold == Spec => []NotEnqueuedTwice
<1>1. Init => TypeInv /\ AnalysisInv
  BY InitType, InitAnalysisInv
<1>2. TypeInv /\ AnalysisInv /\ [Next]_vars => TypeInv' /\ AnalysisInv'
  BY StepType, StepAnalysisInv DEF Next
<1>3. AnalysisInv => NotEnqueuedTwice
  BY DEF AnalysisInv, NotEnqueuedTwice
<1>. QED  BY <1>1, <1>2, <1>3, PTL DEF Spec

\* When the work list has run empty, no block is ignorant of what its
\* successors need: the loop at LivenessAnalysisPass.hpp:400-406 ends in a
\* solution of the equations.
THEOREM FixpointCorrect == Spec => []FixpointReached
<1>1. Init => TypeInv /\ AnalysisInv
  BY InitType, InitAnalysisInv
<1>2. TypeInv /\ AnalysisInv /\ [Next]_vars => TypeInv' /\ AnalysisInv'
  BY StepType, StepAnalysisInv DEF Next
<1>3. TypeInv /\ AnalysisInv => FixpointReached
  BY DoneFacts DEF FixpointReached
<1>. QED  BY <1>1, <1>2, <1>3, PTL DEF Spec

-----------------------------------------------------------------------------
(***************************************************************************)
(* The removal of dead writes.                                             *)
(***************************************************************************)
\* What holds at every step of the analysis, the removal and the execution.
ReducedInv == TypeInv /\ AnalysisInv /\ RunInv

\* The facts about the place p the machines have reached in instruction i.
LEMMA InstrFacts ==
  ASSUME ReducedInv, pc = "run", ~AtEndOfBlock
  PROVE  /\ InstrAt(at) \in Instr
         /\ at[1] \in Block /\ at[2] \in 1 .. Size(fn, at[1])
         /\ at = <<at[1], at[2]>>
         /\ at \in Positions(fn)
         /\ liveAt[at[1]][at[2]] =
              LiveBefore(InstrAt(at), liveAt[at[1]][at[2] + 1], liveIn, fn.liveRet)
         /\ liveAt[at[1]][at[2] + 1] \in SUBSET Reg
         /\ at \in gone <=> IsDead(InstrAt(at), liveAt[at[1]][at[2] + 1])
         /\ wrong \cap liveAt[at[1]][at[2]] = {}
         /\ at[2] + 1 \in 1 .. Size(fn, at[1]) + 1
<1>. USE DEF ReducedInv, RunInv, TypeInv
<1>1. PICK b \in Block, k \in Nat : at = <<b, k>>
  OBVIOUS
<1>2. Size(fn, b) \in Nat /\ k \in 1 .. Size(fn, b)
  BY <1>1, FunctionFacts DEF AtEndOfBlock
<1>3. UpToDate(b) /\ gone = Positions(fn) \ kept
  OBVIOUS
<1>4. InstrUpToDate(b, k)
  BY <1>2, <1>3 DEF UpToDate
<1>5. <<b, k>> \in Positions(fn)
  BY <1>2 DEF Positions
<1>6. liveAt[b][k + 1] \in SUBSET Reg
  <2>1. liveAt[b] \in [1 .. Size(fn, b) + 1 -> SUBSET Reg]
    BY DEF LivenessTypeOK, RowsTypeOK
  <2>2. k + 1 \in 1 .. Size(fn, b) + 1
    BY <1>2
  <2>. QED  BY <2>1, <2>2, Zenon
<1>7. fn.code[b][k] \in Instr
  BY <1>2, FunctionFacts
<1>8. k + 1 \in 1 .. Size(fn, b) + 1
  BY <1>2
<1>. QED  BY <1>1, <1>2, <1>3, <1>4, <1>5, <1>6, <1>7, <1>8 DEF InstrUpToDate, InstrAt

\* A removed instruction spoils registers only that nobody needs.
LEMMA RemovedKeepsRight ==
  ASSUME NEW i \in Instr, NEW live \in SUBSET Reg, NEW in, NEW ret, NEW bad, NEW w,
         IsDead(i, live), bad \cap LiveBefore(i, live, in, ret) = {},
         w \in Written(i)
  PROVE  (bad \cup w) \cap live = {}
BY DEF IsDead, LiveBefore, Written

\* A kept instruction sees no wrong register it could pass on, and leaves no
\* register wrong that is needed behind it or at the target of its branch.
LEMMA KeptKeepsRight ==
  ASSUME ReducedInv, NEW i \in Instr, NEW live \in SUBSET Reg, NEW next,
         i.kind = "ret" => i.readRegs \subseteq fn.liveRet,
         ~IsDead(i, live), wrong \cap LiveBefore(i, live, liveIn, fn.liveRet) = {},
         \/ i.willExecute # "False" /\ next \in After(i)
         \/ i.willExecute # "True" /\ next = wrong
  PROVE  /\ i.kind # "ret" => next \cap live = {}
         /\ i.kind = "branch" /\ i.willExecute # "False" /\ i.dst # None
              => next \cap liveIn[i.dst] = {}
         /\ Observes(i) \cap wrong = {}
         /\ next \subseteq Reg
<1>. USE DEF Instr, Ternary
<1>1. EffectIn(i, live, liveIn, fn.liveRet) \cap wrong = {} /\ i.predicateRegs \cap wrong = {}
  BY DEF LiveBefore
<1>2. wrong \subseteq Reg
  BY DEF ReducedInv, RunInv
<1>3. i.willExecute # "False" => i.readRegs \cap wrong = {}
  BY <1>1, <1>2 DEF EffectIn
<1>4. i.willExecute # "False" => After(i) = {wrong \ w : w \in Written(i)}
  BY <1>1, <1>3 DEF After
<1>5. next \subseteq wrong
  BY <1>4
<1>6. i.kind # "ret" => next \cap live = {}
  <2>1. CASE i.willExecute = "True"
    <3>1. PICK w \in Written(i) : next = wrong \ w
      BY <1>4, <2>1
    <3>2. i.writtenRegs \subseteq w
      BY <3>1 DEF Written
    <3>. QED  BY <3>1, <3>2, <2>1, <1>1, <1>2 DEF EffectIn
  <2>2. CASE i.willExecute # "True"
    BY <2>2, <1>1, <1>2, <1>5 DEF EffectIn
  <2>. QED  BY <2>1, <2>2
<1>7. i.kind = "branch" /\ i.willExecute # "False" /\ i.dst # None
        => next \cap liveIn[i.dst] = {}
  BY <1>1, <1>5 DEF EffectIn
<1>8. Observes(i) \cap wrong = {}
  BY <1>1, <1>2, <1>3 DEF Observes, EffectIn
<1>. QED  BY <1>2, <1>5, <1>6, <1>7, <1>8

\* Both functions begin with nothing wrong.
LEMMA InitReduced == InitAll => ReducedInv
BY InitType, InitAnalysisInv, FunctionFacts
   DEF InitAll, ReducedInv, RunInv, Init, TypeInv

\* While the machines run, only they and the program counter change.
LEMMA RunFrame ==
  ASSUME ReducedInv, pc = "run", pc' = pc,
         UNCHANGED <<fn, queue, queued, valid, data, liveIn, liveAt, kept,
                     cur, pos, todo, changed, gone>>
  PROVE  /\ TypeInv' /\ AnalysisInv'
         /\ \A b \in Block : UpToDate(b)'
         /\ gone' = Positions(fn') \ kept'
<1>. USE DEF ReducedInv
<1>1. TypeInv'
  BY RowsFrame DEF TypeInv, LivenessTypeOK, Positions, Size
<1>2. AnalysisInv'
  BY DEF AnalysisInv
<1>3. \A b \in Block : UpToDate(b)'
  BY Unchanged DEF RunInv
<1>. QED  BY <1>1, <1>2, <1>3 DEF RunInv, Positions, Size

\* The machines arrive at a place where no wrong register is needed.
LEMMA Arrive ==
  ASSUME NEW b \in Block, NEW k \in 1 .. Size(fn', b) + 1, Size(fn', b) \in Nat,
         at' = <<b, k>>, pc' = "run", wrong' \subseteq Reg, wrong' \cap liveAt'[b][k] = {},
         \A c \in Block : UpToDate(c)', gone' = Positions(fn') \ kept'
  PROVE  RunInv'
<1>1. at' \in Block \X Nat /\ at'[1] = b /\ at'[2] = k
  OBVIOUS
<1>. QED  BY <1>1 DEF RunInv

\* The pass removes what has no liveness data.
LEMMA RemoveStep == ReducedInv /\ RemoveDeadWrites => ReducedInv'
<1>. SUFFICES ASSUME ReducedInv, RemoveDeadWrites PROVE ReducedInv'
  OBVIOUS
<1>. USE DEF ReducedInv
<1>1. /\ pc = "done" /\ gone' = Positions(fn) \ kept
      /\ valid' \in [Block -> BOOLEAN]
      /\ pc' = IF Block \subseteq data THEN "run" ELSE "removed"
      /\ UNCHANGED <<fn, queue, queued, data, liveIn, liveAt, kept,
                     cur, pos, todo, changed, at, wrong>>
  BY DEF RemoveDeadWrites
<1>2. TypeInv'
  BY <1>1, RowsFrame DEF TypeInv, LivenessTypeOK, Positions, Size
<1>3. AnalysisInv'
  BY <1>1 DEF AnalysisInv
<1>4. fn.entry \in Block /\ Size(fn, fn.entry) \in Nat
  BY FunctionFacts DEF TypeInv
<1>5. at = <<fn.entry, 1>> /\ wrong = {}
  BY <1>1 DEF RunInv
<1>6. Block \subseteq data => \A b \in Block : UpToDate(b)'
  BY <1>1, DoneFacts, Unchanged
<1>7. Positions(fn') = Positions(fn) /\ Size(fn', fn.entry) = Size(fn, fn.entry)
  BY <1>1
<1>8. RunInv'
  BY <1>1, <1>4, <1>5, <1>6, <1>7 DEF RunInv
<1>. QED  BY <1>2, <1>3, <1>8

\* The original executes an instruction that was removed.
LEMMA ExecuteRemovedStep == ReducedInv /\ ExecuteRemoved => ReducedInv'
<1>. SUFFICES ASSUME ReducedInv, ExecuteRemoved PROVE ReducedInv'
  OBVIOUS
<1>1. PICK b \in Block, k \in Nat : at = <<b, k>>
  BY DEF ReducedInv, RunInv
<1>. DEFINE i == fn.code[b][k]
            live == liveAt[b][k + 1]
<1>2. /\ pc = "run" /\ ~AtEndOfBlock /\ at \in gone /\ at' = <<b, k + 1>> /\ pc' = pc
      /\ \/ \E w \in Written(i) : wrong' = wrong \cup w
         \/ wrong' = wrong
      /\ UNCHANGED <<fn, queue, queued, valid, data, liveIn, liveAt, kept,
                     cur, pos, todo, changed, gone>>
  BY <1>1 DEF ExecuteRemoved, Moved, NextInstr, InstrAt
<1>3. /\ i \in Instr /\ live \in SUBSET Reg /\ IsDead(i, live)
      /\ wrong \cap LiveBefore(i, live, liveIn, fn.liveRet) = {}
      /\ k + 1 \in 1 .. Size(fn, b) + 1
  BY <1>1, <1>2, InstrFacts DEF InstrAt
<1>4. wrong' \cap live = {} /\ wrong' \subseteq Reg
  <2>1. wrong \subseteq Reg
    BY DEF ReducedInv, RunInv
  <2>2. wrong \cap live = {}
    BY <1>3 DEF IsDead, LiveBefore
  <2>3. ASSUME NEW w \in Written(i)
        PROVE  (wrong \cup w) \cap live = {} /\ w \subseteq Reg
    <3>1. (wrong \cup w) \cap live = {}
      BY <1>3, RemovedKeepsRight
    <3>2. w \subseteq Reg
      BY <1>3 DEF Written, Instr
    <3>. QED  BY <3>1, <3>2
  <2>. QED  BY <2>1, <2>2, <2>3, <1>2
<1>5. /\ TypeInv' /\ AnalysisInv' /\ \A c \in Block : UpToDate(c)'
      /\ gone' = Positions(fn') \ kept'
  BY <1>2, RunFrame
<1>6. Size(fn', b) = Size(fn, b)
  BY <1>2
<1>7. RunInv'
  BY <1>1, <1>2, <1>3, <1>4, <1>5, <1>6 DEF RunInv
<1>. QED  BY <1>5, <1>7 DEF ReducedInv

\* Both execute the same instruction.
LEMMA ExecuteKeptStep == ReducedInv /\ ExecuteKept => ReducedInv'
<1>. SUFFICES ASSUME ReducedInv, ExecuteKept PROVE ReducedInv'
  OBVIOUS
<1>1. PICK b \in Block, k \in Nat : at = <<b, k>>
  BY DEF ReducedInv, RunInv
<1>. DEFINE i == fn.code[b][k]
            live == liveAt[b][k + 1]
<1>2. /\ pc = "run" /\ ~AtEndOfBlock /\ at \notin gone /\ pc' = pc
      /\ \/ i.willExecute # "False" /\ wrong' \in After(i)
         \/ i.willExecute # "True" /\ wrong' = wrong
      /\ UNCHANGED <<fn, queue, queued, valid, data, liveIn, liveAt, kept,
                     cur, pos, todo, changed, gone>>
      /\ \/ i.kind \in {"plain", "call", "branch"} /\ at' = <<b, k + 1>>
         \/ i.kind = "branch" /\ i.willExecute # "False" /\ i.dst # None /\ at' = <<i.dst, 1>>
  BY <1>1 DEF ExecuteKept, Moved, NextInstr, InstrAt
<1>3. /\ i \in Instr /\ live \in SUBSET Reg /\ ~IsDead(i, live)
      /\ k \in 1 .. Size(fn, b) /\ k + 1 \in 1 .. Size(fn, b) + 1
      /\ wrong \cap LiveBefore(i, live, liveIn, fn.liveRet) = {}
  BY <1>1, <1>2, InstrFacts DEF InstrAt
<1>4. i.kind = "ret" => i.readRegs \subseteq fn.liveRet
  BY <1>3, FunctionAssumption DEF ReducedInv, TypeInv, WellFormed, Size
<1>5. /\ i.kind # "ret" => wrong' \cap live = {}
      /\ i.kind = "branch" /\ i.willExecute # "False" /\ i.dst # None
           => wrong' \cap liveIn[i.dst] = {}
      /\ wrong' \subseteq Reg
  BY <1>2, <1>3, <1>4, KeptKeepsRight
<1>6. /\ TypeInv' /\ AnalysisInv' /\ \A c \in Block : UpToDate(c)'
      /\ gone' = Positions(fn') \ kept'
  BY <1>2, RunFrame
<1>7. \A c \in Block : Size(fn', c) = Size(fn, c) /\ Size(fn, c) \in Nat
  BY <1>2, FunctionFacts DEF ReducedInv, TypeInv
<1>8. CASE i.kind \in {"plain", "call", "branch"} /\ at' = <<b, k + 1>>
  <2>1. wrong' \cap liveAt'[b][k + 1] = {}
    BY <1>8, <1>2, <1>5
  <2>2. k + 1 \in 1 .. Size(fn', b) + 1 /\ Size(fn', b) \in Nat
    BY <1>3, <1>7
  <2>. QED  BY <2>1, <2>2, <1>8, <1>2, <1>5, <1>6, Arrive DEF ReducedInv
<1>9. CASE i.kind = "branch" /\ i.willExecute # "False" /\ i.dst # None /\ at' = <<i.dst, 1>>
  <2>1. i.dst \in Block
    BY <1>9, <1>3 DEF Instr
  <2>2. liveIn'[i.dst] = liveAt'[i.dst][1]
    BY <2>1, <1>6 DEF UpToDate
  <2>3. wrong' \cap liveAt'[i.dst][1] = {}
    BY <2>2, <1>9, <1>2, <1>5
  <2>4. 1 \in 1 .. Size(fn', i.dst) + 1 /\ Size(fn', i.dst) \in Nat
    BY <2>1, <1>7
  <2>. QED  BY <2>1, <2>3, <2>4, <1>9, <1>2, <1>5, <1>6, Arrive DEF ReducedInv
<1>. QED  BY <1>2, <1>8, <1>9

\* Both go on to the next block.
LEMMA FallThroughStep == ReducedInv /\ FallThrough => ReducedInv'
<1>. SUFFICES ASSUME ReducedInv, FallThrough PROVE ReducedInv'
  OBVIOUS
<1>1. PICK b \in Block, k \in Nat : at = <<b, k>>
  BY DEF ReducedInv, RunInv
<1>. DEFINE n == fn.next[b]
<1>2. /\ pc = "run" /\ k = Size(fn, b) + 1 /\ n # None
      /\ wrong' = wrong /\ at' = <<n, 1>> /\ pc' = pc
      /\ UNCHANGED <<fn, queue, queued, valid, data, liveIn, liveAt, kept,
                     cur, pos, todo, changed, gone>>
  BY <1>1 DEF FallThrough, Moved, AtEndOfBlock
<1>3. n \in Block /\ Size(fn, n) \in Nat /\ Size(fn', n) = Size(fn, n)
  BY <1>2, FunctionFacts DEF ReducedInv, TypeInv
<1>4. /\ TypeInv' /\ AnalysisInv' /\ \A c \in Block : UpToDate(c)'
      /\ gone' = Positions(fn') \ kept'
  BY <1>2, RunFrame
<1>5. wrong \cap liveAt[n][1] = {} /\ wrong \subseteq Reg
  <2>1. UpToDate(b) /\ UpToDate(n) /\ wrong \cap liveAt[b][k] = {} /\ wrong \subseteq Reg
    BY <1>1, <1>2, <1>3 DEF ReducedInv, RunInv
  <2>. QED  BY <2>1, <1>2 DEF UpToDate, ExitUpToDate, LiveOut
<1>6. RunInv'
  BY <1>2, <1>3, <1>4, <1>5 DEF RunInv
<1>. QED  BY <1>4, <1>6 DEF ReducedInv

\* The invariant is inductive, removal and execution included.
LEMMA StepReduced == ReducedInv /\ [NextAll]_allVars => ReducedInv'
<1>. SUFFICES ASSUME ReducedInv, [NextAll]_allVars PROVE ReducedInv'
  OBVIOUS
<1>1. CASE Analyse /\ UNCHANGED machine
  <2>1. TypeInv' /\ AnalysisInv'
    BY <1>1, StepType, StepAnalysisInv DEF ReducedInv
  <2>2. pc \notin {"run", "removed"} /\ pc' \notin {"run", "removed"} /\ fn' = fn
    BY <1>1 DEF Analyse, Seed, AwaitNext, StartBlock, ProcessInstruction,
                FinishBlock, PropagateEdge, PropagatePrev, Finish
  <2>. QED  BY <2>1, <2>2, <1>1 DEF ReducedInv, RunInv, machine
<1>2. CASE RemoveDeadWrites \/ ExecuteRemoved \/ ExecuteKept \/ FallThrough
  BY <1>2, RemoveStep, ExecuteRemovedStep, ExecuteKeptStep, FallThroughStep
<1>3. CASE UNCHANGED allVars
  <2>1. UNCHANGED vars /\ UNCHANGED machine
    BY <1>3 DEF allVars, vars, machine
  <2>2. TypeInv' /\ AnalysisInv'
    BY <2>1, StepType, StepAnalysisInv DEF ReducedInv
  <2>3. \A b \in Block : UpToDate(b)' <=> UpToDate(b)
    BY <2>1, Unchanged DEF vars
  <2>. QED  BY <2>1, <2>2, <2>3 DEF ReducedInv, RunInv, vars, machine, Positions, Size
<1>. QED  BY <1>1, <1>2, <1>3 DEF NextAll

\* While the machines run, no register that differs between them is alive: a
\* removed instruction only ever spoils registers that the analysis calls
\* dead (DeadWriteEliminationPass.hpp:73).
THEOREM WrongIsDead == SpecAll => []RunInv
<1>1. ReducedInv => RunInv
  BY DEF ReducedInv
<1>. QED  BY <1>1, InitReduced, StepReduced, PTL DEF SpecAll

\* Removing what the analysis found dead (DeadWriteEliminationPass.hpp:41-77)
\* never changes what the function shows to its caller, to memory or to code
\* it calls, for every function all of whose blocks were analysed.
THEOREM RemovalCorrect == SpecAll => []SameBehaviour
<1>1. InitAll => ReducedInv
  BY InitReduced
<1>2. ReducedInv /\ [NextAll]_allVars => ReducedInv'
  BY StepReduced
<1>3. ReducedInv => SameBehaviour
  <2>. SUFFICES ASSUME ReducedInv, pc = "run", ~AtEndOfBlock
                PROVE  IF at \in gone THEN Observes(InstrAt(at)) = {}
                                      ELSE Observes(InstrAt(at)) \cap wrong = {}
    BY DEF SameBehaviour
  <2>. DEFINE i == InstrAt(at)
              live == liveAt[at[1]][at[2] + 1]
  <2>1. /\ i \in Instr /\ live \in SUBSET Reg
        /\ at \in gone <=> IsDead(i, live)
        /\ wrong \cap LiveBefore(i, live, liveIn, fn.liveRet) = {}
        /\ at[1] \in Block /\ at[2] \in 1 .. Size(fn, at[1])
    BY InstrFacts
  <2>2. CASE at \in gone
    BY <2>1, <2>2 DEF IsDead, Observes
  <2>3. CASE at \notin gone
    <3>1. i.kind = "ret" => i.readRegs \subseteq fn.liveRet
      BY <2>1, FunctionAssumption DEF InstrAt, ReducedInv, TypeInv, WellFormed, Size
    <3>3. PICK next : \/ i.willExecute # "False" /\ next \in After(i)
                      \/ i.willExecute # "True" /\ next = wrong
      <4>1. i.writtenRegs = i.writtenRegs \cup {} /\ {} \in SUBSET i.condWrittenRegs
        OBVIOUS
      <4>2. i.writtenRegs \in Written(i)
        BY <4>1, Zenon DEF Written
      <4>. QED  BY <4>2, Zenon DEF After
    <3>. QED  BY <2>1, <2>3, <3>1, <3>3, KeptKeepsRight
  <2>. QED  BY <2>2, <2>3
<1>. QED  BY <1>1, <1>2, <1>3, PTL DEF SpecAll

-----------------------------------------------------------------------------
(***************************************************************************)
(* The liveness analysis reaches every block that can return, although a   *)
(* block whose successor has no data yet is dequeued and dropped.          *)
(*                                                                         *)
(* The invariant names a set E of blocks: the ones that were enqueued at   *)
(* some time.  A block of E that has neither data nor a place in the work  *)
(* list waits for its successor in the chain, which is in E as well, and   *)
(* no set of such blocks waits for itself.  With an empty work list nobody *)
(* is left to wait for, so E is the set of blocks with data.               *)
(***************************************************************************)

\* the predecessors processBlock() notifies of the data of b
Before(f, b) == {s \in Block : f.next[s] = b} \cup Incoming(f, b)

\* s, a predecessor of b, has been looked at since b was analysed first
Told(s, b) ==
  ~(b = cur /\ (pc = "scan" \/ (pc = "propagate" /\ (s \in todo \/ fn.next[s] = b))))

Waiting(E) == {b \in E : b \notin data /\ ~queued[b]}

SeenInv(E) ==
  /\ data \subseteq E
  /\ \A b \in Block : queued[b] => b \in E
  /\ \A b \in Returning(fn) : b \in E \/ (pc = "seed" /\ b \in todo)
  /\ \A b \in data : \A s \in Before(fn, b) : Told(s, b) => s \in E

WaitInv(E) ==
  /\ \A b \in Waiting(E) : /\ fn.next[b] \in E
                           /\ fn.next[b] \notin data \/ ~Told(b, fn.next[b])
  /\ \A W \in SUBSET Waiting(E) : W # {} => \E b \in W : fn.next[b] \notin W

ReachInv ==
  pc \in {"seed", "pop", "scan", "propagate", "done"} =>
    \E E \in SUBSET Block : SeenInv(E) /\ WaitInv(E)

\* Before the analysis no block has been enqueued (LivenessAnalysisPass.hpp:390).
LEMMA InitReach == Init => ReachInv
<1>. SUFFICES ASSUME Init PROVE SeenInv({}) /\ WaitInv({})
  BY DEF ReachInv
<1>. QED  BY DEF Init, SeenInv, WaitInv, Waiting

\* The blocks with a return are enqueued first (LivenessAnalysisPass.hpp:396).
LEMMA SeedReach == TypeInv /\ ReachInv /\ Seed => ReachInv'
<1>. SUFFICES ASSUME TypeInv, ReachInv, Seed, pc' # "thrown" PROVE ReachInv'
  BY DEF Seed, ReachInv
<1>1. PICK E \in SUBSET Block : SeenInv(E) /\ WaitInv(E)
  BY DEF Seed, ReachInv
<1>2. PICK b \in todo : Enqueue(b) /\ todo' = todo \ {b}
                        /\ pc' = IF todo = {b} THEN "pop" ELSE "seed"
  BY DEF Seed
<1>3. /\ fn' = fn /\ data' = data /\ cur' = cur /\ b \in Block
      /\ queued \in [Block -> BOOLEAN] /\ queued' = [queued EXCEPT ![b] = TRUE]
  BY <1>2 DEF Seed, Enqueue, TypeInv, LivenessTypeOK
<1>. DEFINE F == E \cup {b}
<1>4. SeenInv(F)'
  <2>1. \A c \in data : \A s \in Before(fn, c) : s \in E
    BY <1>1 DEF SeenInv, Told, Seed
  <2>2. \A c \in Returning(fn) : c \in F \/ (pc' = "seed" /\ c \in todo')
    BY <1>1, <1>2 DEF SeenInv
  <2>. QED  BY <1>1, <1>3, <2>1, <2>2 DEF SeenInv
<1>5. Waiting(F)' \subseteq Waiting(E)
  BY <1>1, <1>3 DEF Waiting, SeenInv
<1>6. \A c \in Waiting(F)' : fn.next[c] \in F /\ fn.next[c] \notin data
  BY <1>1, <1>5 DEF WaitInv, Told, Seed
<1>7. \A W \in SUBSET Waiting(F)' : W # {} => \E c \in W : fn.next[c] \notin W
  BY <1>1, <1>5 DEF WaitInv
<1>8. WaitInv(F)'
  BY <1>3, <1>6, <1>7, Zenon DEF WaitInv
<1>. QED  BY <1>3, <1>4, <1>8 DEF ReachInv

\* A block that is dropped waits for the successor that is enqueued for it
\* (LivenessAnalysisPass.hpp:281-291).
LEMMA AwaitReach == TypeInv /\ ReachInv /\ AwaitNext => ReachInv'
<1>. SUFFICES ASSUME TypeInv, ReachInv, AwaitNext PROVE ReachInv'
  OBVIOUS
<1>1. PICK E \in SUBSET Block : SeenInv(E) /\ WaitInv(E)
  BY DEF AwaitNext, ReachInv
<1>2. PICK b \in Block, n \in Block : b = Head(queue) /\ n = fn.next[b] /\ n \notin data
  BY DequeueFacts, FunctionFacts DEF AwaitNext, TypeInv, LivenessTypeOK
<1>. DEFINE F == E \cup {b, n}
<1>3. /\ fn' = fn /\ data' = data /\ cur' = cur /\ todo' = todo /\ pc = "pop"
      /\ queued \in [Block -> BOOLEAN]
      /\ queued' = [[queued EXCEPT ![b] = FALSE] EXCEPT ![n] = TRUE]
  BY <1>2 DEF AwaitNext, TypeInv, LivenessTypeOK
<1>4. CASE pc' = "pop"
  <2>1. SeenInv(F)'
    <3>1. \A c \in data : \A s \in Before(fn, c) : s \in E
      BY <1>1, <1>3 DEF SeenInv, Told
    <3>. QED  BY <1>1, <1>2, <1>3, <1>4, <3>1 DEF SeenInv
  <2>2. Waiting(F)' \subseteq Waiting(E) \cup {b} /\ n \notin Waiting(F)'
    BY <1>1, <1>2, <1>3 DEF Waiting, SeenInv
  <2>3. \A c \in Waiting(F)' : fn.next[c] \in F /\ fn.next[c] \notin data
    BY <1>1, <1>2, <1>3, <2>2 DEF WaitInv, Told
  <2>4. ASSUME NEW W \in SUBSET Waiting(F)', W # {}
        PROVE  \E c \in W : fn.next[c] \notin W
    <3>1. CASE b \in W
      BY <1>2, <2>2, <3>1
    <3>2. CASE b \notin W
      <4>1. W \in SUBSET Waiting(E)
        BY <2>2, <3>2
      <4>. QED  BY <1>1, <4>1, <2>4 DEF WaitInv
    <3>. QED  BY <3>1, <3>2
  <2>5. WaitInv(F)'
    BY <1>3, <2>3, <2>4, Zenon DEF WaitInv
  <2>. QED  BY <1>2, <1>3, <2>1, <2>5 DEF ReachInv
<1>. QED  BY <1>4 DEF AwaitNext, ReachInv

\* A block that gets data no longer waits; whoever waits for it will be
\* looked at when it is finished (LivenessAnalysisPass.hpp:293).
LEMMA StartReach == TypeInv /\ ReachInv /\ StartBlock => ReachInv'
<1>. SUFFICES ASSUME TypeInv, ReachInv, StartBlock, pc' = "scan" PROVE ReachInv'
  BY DEF StartBlock, ReachInv
<1>1. PICK E \in SUBSET Block : SeenInv(E) /\ WaitInv(E)
  BY DEF StartBlock, ReachInv
<1>2. /\ fn' = fn /\ cur' \in Block /\ cur' = Head(queue) /\ data' = data \cup {cur'}
      /\ queued \in [Block -> BOOLEAN] /\ queued' = [queued EXCEPT ![cur'] = FALSE]
      /\ pc = "pop"
  BY DequeueFacts DEF StartBlock, TypeInv, LivenessTypeOK
<1>. PICK F \in SUBSET Block : F = E \cup {cur'}
  BY <1>2, Zenon
<1>3. SeenInv(F)'
  <2>1. \A c \in data : \A s \in Before(fn, c) : s \in E
    BY <1>1, <1>2 DEF SeenInv, Told
  <2>2. \A c \in data' : \A s \in Before(fn, c) : Told(s, c)' => s \in E
    BY <1>2, <2>1 DEF Told
  <2>. QED  BY <1>1, <1>2, <2>2 DEF SeenInv
<1>4. Waiting(F)' \subseteq Waiting(E)
  BY <1>1, <1>2 DEF Waiting, SeenInv
<1>5. \A c \in Waiting(F)' : /\ fn.next[c] \in F
                             /\ fn.next[c] \notin data' \/ ~Told(c, fn.next[c])'
  BY <1>1, <1>2, <1>4 DEF WaitInv, Told
<1>6. \A W \in SUBSET Waiting(F)' : W # {} => \E c \in W : fn.next[c] \notin W
  BY <1>1, <1>4 DEF WaitInv
<1>7. WaitInv(F)'
  BY <1>2, <1>5, <1>6, Zenon DEF WaitInv
<1>. QED  BY <1>2, <1>3, <1>7 DEF ReachInv

\* Scanning and finishing a block changes neither who has data nor who is
\* enqueued.
LEMMA ScanReach ==
  TypeInv /\ ReachInv /\ (ProcessInstruction \/ FinishBlock) => ReachInv'
<1>. SUFFICES ASSUME TypeInv, ReachInv, ProcessInstruction \/ FinishBlock PROVE ReachInv'
  OBVIOUS
<1>1. PICK E \in SUBSET Block : SeenInv(E) /\ WaitInv(E)
  BY DEF ProcessInstruction, FinishBlock, ReachInv
<1>2. /\ fn' = fn /\ data' = data /\ queued' = queued /\ cur' = cur /\ pc = "scan"
      /\ pc' = "scan" \/ (pc' = "propagate" /\ todo' = Incoming(fn, cur))
  BY DEF ProcessInstruction, FinishBlock
<1>3. \A b \in data : \A s \in Before(fn, b) : Told(s, b)' => Told(s, b)
  BY <1>2 DEF Told, Before
<1>4. Waiting(E)' = Waiting(E)
  BY <1>2 DEF Waiting
<1>5. \A b \in Waiting(E) : ~Told(b, fn.next[b]) => ~Told(b, fn.next[b])'
  BY <1>2 DEF Told
<1>6. SeenInv(E)'
  BY <1>1, <1>2, <1>3 DEF SeenInv
<1>7. WaitInv(E)'
  BY <1>1, <1>2, <1>4, <1>5 DEF WaitInv
<1>. QED  BY <1>2, <1>6, <1>7 DEF ReachInv

\* A predecessor that is looked at is enqueued afterwards, or has data.
LEMMA NotifySeen ==
  ASSUME TypeInv, DataInv, NEW s \in Block, Notify(s)
  PROVE  /\ \A b \in Block : b # s => queued'[b] = queued[b]
         /\ queued[s] => queued'[s]
         /\ queued'[s] \/ s \in data
<1>1. queued \in [Block -> BOOLEAN] /\ valid \in [Block -> BOOLEAN]
  BY DEF TypeInv, LivenessTypeOK
<1>. QED  BY <1>1 DEF Notify, Enqueue, DataInv

\* The predecessors over branch edges (LivenessAnalysisPass.hpp:337-352) ...
LEMMA EdgeReach == TypeInv /\ AnalysisInv /\ ReachInv /\ PropagateEdge => ReachInv'
<1>. SUFFICES ASSUME TypeInv, AnalysisInv, ReachInv, PropagateEdge PROVE ReachInv'
  OBVIOUS
<1>1. PICK E \in SUBSET Block : SeenInv(E) /\ WaitInv(E)
  BY DEF PropagateEdge, ReachInv
<1>2. PICK s \in todo : Notify(s) /\ todo' = todo \ {s}
  BY DEF PropagateEdge
<1>3. /\ fn' = fn /\ data' = data /\ cur' = cur /\ s \in Block
      /\ pc = "propagate" /\ pc' = "propagate"
  BY <1>2 DEF PropagateEdge, TypeInv, LivenessTypeOK
<1>4. /\ \A b \in Block : b # s => queued'[b] = queued[b]
      /\ queued[s] => queued'[s]
      /\ queued'[s] \/ s \in data
  BY <1>2, <1>3, NotifySeen DEF AnalysisInv
<1>. DEFINE F == E \cup {s}
<1>5. SeenInv(F)'
  <2>1. \A b \in data : \A t \in Before(fn, b) : Told(t, b)' => Told(t, b) \/ t = s
    BY <1>2, <1>3 DEF Told
  <2>. QED  BY <1>1, <1>3, <1>4, <2>1 DEF SeenInv
<1>6. Waiting(F)' \subseteq Waiting(E)
  BY <1>1, <1>3, <1>4 DEF Waiting
<1>7. \A b \in Waiting(F)' : /\ fn.next[b] \in F
                             /\ fn.next[b] \notin data \/ ~Told(b, fn.next[b])'
  BY <1>1, <1>3, <1>6 DEF WaitInv, Told
<1>8. \A W \in SUBSET Waiting(F)' : W # {} => \E c \in W : fn.next[c] \notin W
  BY <1>1, <1>6, Zenon DEF WaitInv
<1>9. WaitInv(F)'
  BY <1>3, <1>7, <1>8 DEF WaitInv
<1>. QED  BY <1>3, <1>5, <1>9 DEF ReachInv

\* ... and the one over the chain (LivenessAnalysisPass.hpp:353-362).
LEMMA PrevReach == TypeInv /\ AnalysisInv /\ ReachInv /\ PropagatePrev => ReachInv'
<1>. SUFFICES ASSUME TypeInv, AnalysisInv, ReachInv, PropagatePrev PROVE ReachInv'
  OBVIOUS
<1>1. PICK E \in SUBSET Block : SeenInv(E) /\ WaitInv(E)
  BY DEF PropagatePrev, ReachInv
<1>2. /\ fn' = fn /\ data' = data /\ todo' = todo /\ todo = {} /\ cur' = None
      /\ pc = "propagate" /\ pc' = "pop" /\ cur \in Block /\ data \subseteq Block
  BY DEF PropagatePrev, TypeInv, LivenessTypeOK
<1>. PICK S \in SUBSET Block : S = {s \in Block : fn.next[s] = cur}
  BY Zenon
<1>. DEFINE F == E \cup S
<1>3. /\ \A b \in Block : b \notin S => queued'[b] = queued[b]
      /\ \A b \in Block : queued[b] => queued'[b]
      /\ \A b \in S : queued'[b] \/ b \in data
  <2>1. CASE \A s \in Block : fn.next[s] # cur
    BY <2>1 DEF PropagatePrev
  <2>2. CASE \E s \in Block : fn.next[s] = cur /\ Notify(s)
    <3>1. PICK s \in Block : fn.next[s] = cur /\ Notify(s)
      BY <2>2
    <3>2. \A t \in S : t = s
      BY <3>1, <1>2, FunctionFacts, BlockAssumption DEF TypeInv
    <3>. QED  BY <3>1, <3>2, NotifySeen DEF AnalysisInv, PropagatePrev
  <2>. QED  BY <2>1, <2>2 DEF PropagatePrev
<1>4. SeenInv(F)'
  <2>1. \A b \in data : \A t \in Before(fn, b) : Told(t, b) \/ t \in S
    BY <1>2 DEF Told, Before, Incoming
  <2>2. \A b \in data : \A t \in Before(fn, b) : t \in F
    BY <1>1, <2>1 DEF SeenInv
  <2>3. \A b \in Block : queued'[b] => b \in F
    BY <1>1, <1>3 DEF SeenInv
  <2>. QED  BY <1>1, <1>2, <2>2, <2>3 DEF SeenInv
<1>5. Waiting(F)' \subseteq Waiting(E)
  BY <1>1, <1>2, <1>3 DEF Waiting
<1>6. \A b \in Waiting(F)' : fn.next[b] \in F /\ fn.next[b] \notin data
  <2>1. \A b \in Waiting(F)' : b \notin S /\ b \in Block
    BY <1>1, <1>2, <1>3 DEF Waiting
  <2>. QED  BY <1>1, <1>2, <1>5, <2>1 DEF WaitInv, Told
<1>7. \A W \in SUBSET Waiting(F)' : W # {} => \E c \in W : fn.next[c] \notin W
  BY <1>1, <1>5, Zenon DEF WaitInv
<1>8. WaitInv(F)'
  BY <1>2, <1>6, <1>7 DEF WaitInv
<1>. QED  BY <1>2, <1>4, <1>8 DEF ReachInv

\* One step per action.
LEMMA StepReach == TypeInv /\ AnalysisInv /\ ReachInv /\ [Analyse]_vars => ReachInv'
<1>. SUFFICES ASSUME TypeInv, AnalysisInv, ReachInv, [Analyse]_vars PROVE ReachInv'
  OBVIOUS
<1>1. CASE Finish
  <2>1. /\ fn' = fn /\ data' = data /\ queued' = queued /\ cur' = cur /\ todo' = todo
        /\ pc = "pop" /\ pc' = "done"
    BY <1>1 DEF Finish
  <2>. QED  BY <2>1, ZenonT(30) DEF ReachInv, SeenInv, WaitInv, Waiting, Told
<1>2. CASE UNCHANGED vars
  BY <1>2 DEF vars, ReachInv, SeenInv, WaitInv, Waiting, Told
<1>. QED  BY <1>1, <1>2, SeedReach, AwaitReach, StartReach, ScanReach, EdgeReach,
             PrevReach DEF Analyse

\* With an empty work list, every block that was ever enqueued has data.
LEMMA DoneSeen ==
  ASSUME TypeInv, AnalysisInv, ReachInv, pc = "done"
  PROVE  /\ Returning(fn) \subseteq data
         /\ \A b \in data : Before(fn, b) \subseteq data
<1>1. PICK E \in SUBSET Block : SeenInv(E) /\ WaitInv(E)
  BY DEF ReachInv
<1>2. \A b \in Block : ~queued[b]
  BY DEF TypeInv, LivenessTypeOK, AnalysisInv, QueueInv, QueueOK
<1>3. Waiting(E) = {}
  <2>1. \A b \in Waiting(E) : fn.next[b] \in Waiting(E)
    BY <1>1, <1>2 DEF WaitInv, Waiting, Told
  <2>. QED  BY <1>1, <2>1 DEF WaitInv
<1>4. E \subseteq data
  BY <1>2, <1>3 DEF Waiting
<1>. QED  BY <1>1, <1>4 DEF SeenInv, Told

\* What leads to a return by any number of steps is found by going back.
LEMMA ReachedBackwards ==
  ASSUME fn \in Functions, NEW D, D \subseteq Block, Returning(fn) \subseteq D,
         \A b \in D : Before(fn, b) \subseteq D, Cardinality(Block) \in Nat
  PROVE  ReachesReturn \subseteq D
<1>. DEFINE Up(S) == S \cup {b \in Block : fn.next[b] \in S}
                       \cup UNION {Incoming(fn, s) : s \in S}
            G    == [S \in SUBSET Block |-> Up(S)]
            Iter[n \in Nat] == IF n = 0 THEN Returning(fn) ELSE Up(Iter[n - 1])
            Good == {n \in Nat : Iter[n] \in SUBSET D}
<1>1. Returning(fn) \in SUBSET Block /\ G \in [SUBSET Block -> SUBSET Block]
  BY FunctionFacts
<1>2. Iter = [n \in Nat |-> IF n = 0 THEN Returning(fn) ELSE Up(Iter[n - 1])]
  <2>1. PICK f \in [Nat -> SUBSET Block] :
          f = [n \in Nat |-> IF n = 0 THEN Returning(fn) ELSE G[f[n - 1]]]
    <3>. DEFINE X == SUBSET Block
                e == Returning(fn)
    <3>1. e \in X /\ G \in [X -> X]
      BY <1>1
    <3>. HIDE DEF G, X, e
    <3>2. \E f \in [Nat -> X] : f = [n \in Nat |-> IF n = 0 THEN e ELSE G[f[n - 1]]]
      BY <3>1, Iteration
    <3>. QED  BY <3>2 DEF X, e
  <2>2. \A n \in Nat : n # 0 => G[f[n - 1]] = Up(f[n - 1])
    <3>1. ASSUME NEW n \in Nat, n # 0 PROVE G[f[n - 1]] = Up(f[n - 1])
      <4>1. n - 1 \in Nat
        BY <3>1
      <4>2. f[n - 1] \in SUBSET Block
        BY <2>1, <4>1, Zenon
      <4>. QED  BY <4>2
    <3>. QED  BY <3>1
  <2>. HIDE DEF Up, G
  <2>3. f = [n \in Nat |-> IF n = 0 THEN Returning(fn) ELSE Up(f[n - 1])]
    BY <2>1, <2>2, Zenon
  <2>4. Iter = [n \in Nat |-> IF n = 0 THEN Returning(fn) ELSE Up(Iter[n - 1])]
    BY <2>3
  <2>. QED  BY <2>4
<1>3. Good = Nat
  <2>. HIDE DEF Iter
  <2>1. 0 \in Good
    BY <1>2
  <2>2. ASSUME NEW n \in Nat, n \in Good PROVE n + 1 \in Good
    <3>1. Iter[n + 1] = Up(Iter[n])
      BY <1>2
    <3>2. \A S \in SUBSET D : Up(S) \in SUBSET D
      BY DEF Before
    <3>. QED  BY <2>2, <3>1, <3>2
  <2>. HIDE DEF Good
  <2>3. Nat \subseteq Good
    BY <2>1, <2>2, Induction
  <2>. QED  BY <2>3 DEF Good
<1>. QED  BY <1>3 DEF ReachesReturn

\* When the analysis is done, every block from which a return can be reached
\* has liveness data, whatever was dequeued and dropped on the way: "It will
\* properly reenqueue this block" (LivenessAnalysisPass.hpp:286).
THEOREM ReturningCovered ==
  ASSUME IsFiniteSet(Block)
  PROVE  Spec => []AllReturningAnalysed
<1>1. Init => TypeInv /\ AnalysisInv /\ ReachInv
  BY InitType, InitAnalysisInv, InitReach
<1>2. TypeInv /\ AnalysisInv /\ ReachInv /\ [Next]_vars
        => TypeInv' /\ AnalysisInv' /\ ReachInv'
  BY StepType, StepAnalysisInv, StepReach DEF Next
<1>3. TypeInv /\ AnalysisInv /\ ReachInv => AllReturningAnalysed
  <2>1. Cardinality(Block) \in Nat
    BY FS_CardinalityType
  <2>. QED  BY <2>1, DoneSeen, ReachedBackwards
            DEF AllReturningAnalysed, TypeInv, LivenessTypeOK
<1>. QED  BY <1>1, <1>2, <1>3, PTL DEF Spec
=============================================================================
