------------------------------ MODULE BlockGraph ------------------------------
(***************************************************************************)
(* The intermediate representation of one function (Function.cpp,          *)
(* SuperBlock.hpp, SuperBlock.cpp): super blocks linked by a fallthrough   *)
(* chain (next/prev) and by branch edges, and the operations every pass    *)
(* transforms it with.                                                     *)
(*                                                                         *)
(* Pointers to blocks and to instructions are numbers, given out in the    *)
(* order the objects are created; 0 is nullptr.  A branch edge is owned by *)
(* its instruction, so the vectors of edges hold instructions here.  An    *)
(* operation takes the function and returns the changed one; a failing     *)
(* drob_assert sets its status, after which nothing is done any more.      *)
(***************************************************************************)
EXTENDS Lists, FiniteSets

None == 0

Branches    == {"jcc", "jcxz", "jmp", "ijmp"}     \* Instruction::isBranch
Conditional == {"jcc", "jcxz"}                    \* Instruction::getPredicate
WithTarget  == {"jcc", "jcxz", "jmp"}             \* getRawTarget() is known
EndOfBlock  == {"jmp", "ijmp", "call", "ret"}     \* DecodeRet::EOB
Kinds       == Branches \cup EndOfBlock \cup {"op", "nop"}

(***************************************************************************)
(* The machine code: text[l] is the instruction at label l, and "to" the   *)
(* label a direct branch leads to (0 if there is none).  It ends with an   *)
(* instruction that does not fall through, and begins with label 1.        *)
(***************************************************************************)
WellFormed(t) ==
  /\ t \in Seq([kind : Kinds, to : Nat]) /\ t # <<>>
  /\ t[Len(t)].kind \in EndOfBlock
  /\ \A l \in DOMAIN t : /\ t[l].to \in 0 .. Len(t)
                         /\ t[l].kind \in WithTarget <=> t[l].to # 0

VARIABLES
  text,
  f,       \* the Function
  pc       \* the pass at work

EmptyFunction ==
  [blocks |-> <<>>,       \* Function::blocks, in the order they were added
   entryBlock |-> None,
   instrs |-> <<>>,       \* instrs[b]: the instructions of block b
   next |-> <<>>, prev |-> <<>>,
   incoming |-> <<>>,     \* instructions with an edge to b, in any order
   outgoing |-> <<>>,     \* instructions of b with an edge, in order
   op |-> <<>>,           \* op[i]: label, kind, and whether a condition was inverted
   edge |-> <<>>,         \* edge[i]: BranchEdge or ReturnEdge of i
   status |-> "ok"]

NoEdge == [src |-> None, dst |-> None]
HasEdge(g, i) == g.edge[i] # NoEdge
IsBranch(g, i) == g.op[i].kind \in Branches
Block(g) == ToSet(g.blocks)

Check(g, condition) == [g EXCEPT !.status = IF condition THEN @ ELSE "thrown"]

\* The first block added is the entry.
EntryAfter_Latest(g, n) == n
EntryAfter(g, n) == IF g.entryBlock = None THEN n ELSE g.entryBlock

\* addBlock()
AddBlock(g) ==
  LET n == Len(g.instrs) + 1
  IN  [g EXCEPT !.blocks = Append(@, n),
                !.entryBlock = EntryAfter(g, n),
                !.instrs = Append(@, <<>>),
                !.next = Append(@, None), !.prev = Append(@, None),
                !.incoming = Append(@, {}), !.outgoing = Append(@, <<>>)]
Newest_Next(g) == Len(g.instrs) + 1
Newest(g) == Len(g.instrs)

\* decodeBlock(): everything up to the first instruction that ends a block.
\* NOPs are dropped, conditional branches do not end a block.
Decoded(l) ==
  LET last == CHOOSE e \in l .. Len(text) :
                /\ text[e].kind \in EndOfBlock
                /\ \A k \in l .. e - 1 : text[k].kind \notin EndOfBlock
  IN  Only([k \in 1 .. last - l + 1 |-> l + k - 1],
           {k \in l .. last : text[k].kind # "nop"})

DecodeBlock(g, l) ==
  LET code == Decoded(l)
      size == Len(g.op)
      n    == Len(g.instrs) + 1
  IN  [AddBlock(g) EXCEPT
         !.instrs[n] = [k \in DOMAIN code |-> size + k],
         !.op = @ \o [k \in DOMAIN code |->
                        [at |-> code[k], kind |-> text[code[k]].kind, inv |-> FALSE]],
         !.edge = @ \o [k \in DOMAIN code |-> NoEdge]]

\* Install a branch edge of instruction i, which is in block s.
Connect(g, i, s, d) ==
  [g EXCEPT !.edge[i] = [src |-> s, dst |-> d],
            !.outgoing[s] = Append(@, i),
            !.incoming[d] = @ \cup {i}]

\* removeInstruction() along with BranchEdge::invalidate() or
\* ReturnEdge::invalidate().
RemoveInstruction(g, b, i) ==
  LET s == g.edge[i].src
      d == g.edge[i].dst
      checked == Check(g, /\ i \in ToSet(g.instrs[b])
                          /\ HasEdge(g, i) /\ IsBranch(g, i) =>
                               i \in ToSet(g.outgoing[s]) /\ i \in g.incoming[d])
      detached == IF HasEdge(g, i) /\ IsBranch(g, i)
                    THEN [checked EXCEPT !.outgoing[s] = Without(@, {i}),
                                         !.incoming[d] = @ \ {i}]
                    ELSE checked
  IN  [detached EXCEPT !.edge[i] = NoEdge,
                       !.instrs[b] = Without(@, {i})]

(***************************************************************************)
(* splitBlock(): the instructions of b from position k on move to a new    *)
(* block behind b.  Edges to b stay with the first part.                   *)
(***************************************************************************)
MovedPart_Late(s, k) == SubSeq(s, k + 1, Len(s))
MovedPart(s, k) == SubSeq(s, k, Len(s))
SplitBlock(g, b, k) ==
  LET n     == Len(g.instrs) + 1
      after == g.next[b]
      moved == MovedPart(g.instrs[b], k)
      mine  == {i \in ToSet(moved) : g.edge[i].src = b}
      linked == [AddBlock(g) EXCEPT !.next[n] = after, !.prev[n] = b, !.next[b] = n]
      chained == IF after = None THEN linked ELSE [linked EXCEPT !.prev[after] = n]
  IN  [chained EXCEPT
         !.instrs[n] = moved,
         !.instrs[b] = SubSeq(@, 1, k - 1),
         !.edge = [i \in 1 .. Len(@) |-> IF i \in mine THEN [@[i] EXCEPT !.src = n] ELSE @[i]],
         !.outgoing[n] = Only(moved, {i \in mine : IsBranch(g, i)}),
         !.outgoing[b] = Without(@, mine)]

\* copyBlock(): a branch of b to itself becomes a branch of the copy to itself.
CopiedTarget(b, copy, dst) == IF dst = b THEN copy ELSE dst

CopyBlock(g, b) ==
  LET n    == Len(g.instrs) + 1
      size == Len(g.op)
      old  == g.instrs[b]
      dst(i) == CopiedTarget(b, n, g.edge[i].dst)
      new  == [k \in DOMAIN old |-> size + k]
      branches == {k \in DOMAIN old : IsBranch(g, old[k]) /\ HasEdge(g, old[k])}
      copied == [AddBlock(g) EXCEPT
         !.instrs[n] = new,
         !.op = @ \o [k \in DOMAIN old |-> g.op[old[k]]],
         !.edge = @ \o [k \in DOMAIN old |->
                          IF HasEdge(g, old[k]) THEN [src |-> n, dst |-> dst(old[k])]
                                                ELSE NoEdge],
         !.outgoing[n] = Only(new, {size + k : k \in branches})]
  IN  [copied EXCEPT !.incoming =
         [d \in 1 .. Len(@) |->
            @[d] \cup {size + k : k \in {j \in branches : dst(old[j]) = d}}]]

\* unchainNext(): an explicit jump takes the place of the chain.
UnchainNext(g, b) ==
  LET n == g.next[b]
      j == Len(g.op) + 1
      jump == [g EXCEPT !.op = Append(@, [at |-> None, kind |-> "jmp", inv |-> FALSE]),
                        !.edge = Append(@, NoEdge),
                        !.instrs[b] = Append(@, j),
                        !.next[b] = None, !.prev[n] = None]
  IN  IF n = None THEN g ELSE Connect(jump, j, b, n)

(***************************************************************************)
(* mergeBlockIntoNext(): the instructions of b move to the beginning of    *)
(* its successor, b goes away.  Merging a block with itself destroys the   *)
(* lists it works on: whatever follows is undefined.                       *)
(***************************************************************************)
MergedInstrs_Appended(g, b, n) == g.instrs[n] \o g.instrs[b]
MergedInstrs(g, b, n) == g.instrs[b] \o g.instrs[n]
MergedOutgoing_Appended(g, b, n) == g.outgoing[n] \o g.outgoing[b]
MergedOutgoing(g, b, n) == g.outgoing[b] \o g.outgoing[n]

MergeBlockIntoNext(g, b) ==
  LET n == g.next[b]
      p == g.prev[b]
      redirect(i) == [src |-> IF i \in ToSet(g.instrs[b]) /\ HasEdge(g, i)
                                THEN n ELSE g.edge[i].src,
                      dst |-> IF i \in g.incoming[b] THEN n ELSE g.edge[i].dst]
      linked == [g EXCEPT !.prev[n] = p, !.next[b] = None, !.prev[b] = None]
      chained == IF p = None THEN linked ELSE [linked EXCEPT !.next[p] = n]
  IN  IF n = None \/ g.incoming[n] # {} THEN Check(g, FALSE)
      ELSE IF n = b THEN [g EXCEPT !.status = "undefined"]
      ELSE [chained EXCEPT
         !.entryBlock = IF @ = b THEN n ELSE @,
         !.edge = [i \in 1 .. Len(@) |-> redirect(i)],
         !.incoming[n] = g.incoming[b], !.incoming[b] = {},
         !.outgoing[n] = MergedOutgoing(g, b, n), !.outgoing[b] = <<>>,
         !.instrs[n] = MergedInstrs(g, b, n), !.instrs[b] = <<>>,
         !.blocks = Without(@, {b})]

-----------------------------------------------------------------------------
(***************************************************************************)
(* What a function means.  Jumps and NOPs only direct control: what counts *)
(* is which of the other instructions is reached next.                     *)
(***************************************************************************)
Nowhere == 0      \* falls off the end of a block
Spin    == -1     \* jumps around for ever

\* The instruction the machine code reaches from label l on.
TextLands(l) ==
  LET go[n \in Nat, k \in Nat] ==
        IF n = 0 THEN Spin
        ELSE IF text[k].kind = "nop" THEN go[n - 1, k + 1]
        ELSE IF text[k].kind = "jmp" THEN go[n - 1, text[k].to]
        ELSE k
  IN  go[Len(text) + 1, l]

\* The label of the instruction reached from position k of block b on.
Lands(g, b, k) ==
  LET go[n \in Nat, p \in Nat \X Nat] ==
        IF n = 0 THEN Spin
        ELSE IF p[2] > Len(g.instrs[p[1]])
          THEN IF g.next[p[1]] = None THEN Nowhere ELSE go[n - 1, <<g.next[p[1]], 1>>]
        ELSE LET i == g.instrs[p[1]][p[2]]
             IN  IF g.op[i].kind = "jmp" THEN go[n - 1, <<g.edge[i].dst, 1>>]
                 ELSE g.op[i].at
  IN  go[Len(g.op) + Len(g.instrs) + 1, <<b, k>>]

\* Instruction k of block b continues as the machine code does.
Continues(g, b, k) ==
  LET i == g.instrs[b][k]
      l == g.op[i].at
      through == Lands(g, b, k + 1)
      taken   == Lands(g, g.edge[i].dst, 1)
  IN  CASE g.op[i].kind \in {"op", "call"} -> through = TextLands(l + 1)
        [] g.op[i].kind \in Conditional /\ ~g.op[i].inv ->
             through = TextLands(l + 1) /\ taken = TextLands(text[l].to)
        [] g.op[i].kind \in Conditional /\ g.op[i].inv ->
             taken = TextLands(l + 1) /\ through = TextLands(text[l].to)
        [] OTHER -> TRUE

(***************************************************************************)
(* The links between blocks, instructions and edges.                       *)
(***************************************************************************)
Linked(g) == {i \in DOMAIN g.op : IsBranch(g, i) /\ HasEdge(g, i)}
EdgesWired(g) ==
  \A b \in Block(g) :
    /\ g.outgoing[b] = Only(g.instrs[b], Linked(g))
    /\ \A i \in ToSet(g.instrs[b]) : HasEdge(g, i) => g.edge[i].src = b
    /\ \A i \in ToSet(g.outgoing[b]) : g.edge[i].dst \in Block(g)
    /\ g.incoming[b] = {i \in UNION {ToSet(g.instrs[c]) : c \in Block(g)} :
                          IsBranch(g, i) /\ g.edge[i].dst = b}

ChainWired(g) ==
  /\ g.entryBlock \in Block(g)
  /\ \A b \in Block(g) :
       /\ g.next[b] # None => g.next[b] \in Block(g) /\ g.prev[g.next[b]] = b
       /\ g.prev[b] # None => g.prev[b] \in Block(g) /\ g.next[g.prev[b]] = b

InstructionsOwned(g) ==
  \A b, c \in Block(g) : \A j \in DOMAIN g.instrs[b], k \in DOMAIN g.instrs[c] :
    g.instrs[b][j] = g.instrs[c][k] => b = c /\ j = k

Wired(g) == EdgesWired(g) /\ ChainWired(g) /\ InstructionsOwned(g)

\* Every fallthrough chain ends: no block follows itself.
Acyclic(g) ==
  LET ends[n \in Nat, b \in Nat] == b = None \/ (n > 0 /\ ends[n - 1, g.next[b]])
  IN  \A b \in Block(g) : ends[Len(g.blocks), b]
=============================================================================
