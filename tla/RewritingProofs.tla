---------------------------- MODULE RewritingProofs ----------------------------
(***************************************************************************)
(* The passes use the operations on the graph as they are meant to be      *)
(* used: whenever no assertion has failed, the function is consistent.     *)
(***************************************************************************)
EXTENDS FunctionRewriting, GraphProofs, FiniteSetTheorems

Phases == {"decode", "resolve", "wire", "unroll", "unrolling", "eliminate", "analyse",
           "collect", "eliminating", "layout", "chain", "merge", "generate", "generating",
           "generated"}

\* Direct branches still without an edge
Open(g) == {i \in Instrs(g) : g.op[i].kind \in WithTarget /\ ~HasEdge(g, i)}

-----------------------------------------------------------------------------
(* Decoding.                                                               *)

\* Blocks are known by the pointers kept, and instructions by their labels.
KnownOK ==
  /\ blockMap \in [DOMAIN text -> Nat]
  /\ \A l \in DOMAIN text : blockMap[l] # None => blockMap[l] \in Block(f)
  /\ resolveStack \in Seq(Nat) /\ ToSet(resolveStack) \subseteq Block(f)

LabelsOK(g) ==
  \A i \in Instrs(g) : /\ g.op[i].at \in DOMAIN text /\ g.op[i].kind # "nop"
                        /\ g.op[i].kind = text[g.op[i].at].kind

\* In a block, branches with an edge precede direct ones without.
InOrder(g) == \A b \in Block(g) : Precede(g.instrs[b], Linked(g), Open(g))

\* The branches c collected from block b are those to wire up.
Collected(g, b, c) ==
  /\ c \in Seq(Nat) /\ IsInjective(c)
  /\ \A i \in ToSet(c) : i \in ToSet(g.instrs[b]) /\ IsBranch(g, i) /\ ~HasEdge(g, i)
  /\ Only(c, Open(g)) = Only(g.instrs[b], Open(g))

\* Nothing follows the return of a block.
ReturnsLast(g) ==
  \A b \in Block(g) : \A k \in 1 .. Len(g.instrs[b]) :
    g.op[g.instrs[b][k]].kind = "ret" => k = Len(g.instrs[b])

\* A block not waiting has its return wired up, and its branches too.
WiredUp ==
  \A b \in Block(f) \ ToSet(resolveStack) : \A i \in ToSet(f.instrs[b]) :
    /\ f.op[i].kind = "ret" => HasEdge(f, i)
    /\ i \in Open(f) => pc = "wire" /\ b = srcBlock

DecodingInv ==
  /\ pc = "decode" => f = EmptyFunction /\ blockMap = [l \in DOMAIN text |-> None] /\ resolveStack = <<>>
  /\ pc \in {"resolve", "wire"} =>
       KnownOK /\ LabelsOK(f) /\ InOrder(f) /\ ReturnsLast(f) /\ WiredUp
  /\ pc = "wire" => srcBlock \in Block(f) /\ Collected(f, srcBlock, collected)

-----------------------------------------------------------------------------
(* Unrolling.                                                              *)

\* A loop cut behind its last branch: its last instruction leads to d, or is
\* the jump out of the loop.
Shape(g, b, d) ==
  /\ b \in Block(g) /\ g.next[b] = None /\ g.instrs[b] # <<>>
  /\ Last(g.instrs[b]) \in Linked(g)
  /\ g.edge[Last(g.instrs[b])].dst = d \/ Len(g.instrs[b]) >= 2

UnrollingInv ==
  /\ pc # "unrolling" => body = None /\ copy = None
  /\ pc = "unrolling" =>
       /\ loops \in Seq(Nat) /\ ToSet(loops) \subseteq Block(f)
       /\ body # None /\ copy = None => Shape(f, body, body)
       /\ copy # None => body # copy /\ Shape(f, body, copy) /\ Shape(f, copy, copy)

-----------------------------------------------------------------------------
(* Dead code elimination: what was collected is still there.               *)
EliminatingInv ==
  /\ pc = "collect" => f.entryBlock \in reached
  /\ pc = "eliminating" =>
       /\ instructionsToDelete \in Seq(Nat \X Nat)
       /\ \A p \in ToSet(instructionsToDelete) : p[2] \in Block(f)
       /\ condBranchesToConvert \in Seq(Nat \X Nat)
       /\ \A p \in ToSet(condBranchesToConvert) :
            p[2] \in Block(f) /\ p[1] \in Instrs(f) /\ f.op[p[1]].kind \in Branches
       /\ blocksToDelete \in Seq(Nat) /\ IsInjective(blocksToDelete)
       /\ ToSet(blocksToDelete) \subseteq Block(f) /\ f.entryBlock \notin ToSet(blocksToDelete)

-----------------------------------------------------------------------------
(* Layout: every block is visited once, and merged once at most.           *)
LayoutInv ==
  /\ pc \notin {"chain", "merge"} => blocksToMerge = <<>>
  /\ pc \in {"chain", "merge"} =>
       /\ toVisit \in Seq(Nat) /\ blocksToMerge \in Seq(Nat)
       /\ IsInjective(toVisit) /\ IsInjective(blocksToMerge)
       /\ ToSet(blocksToMerge) \cap ToSet(toVisit) = {}
       /\ ToSet(toVisit) \subseteq Block(f) /\ ToSet(blocksToMerge) \subseteq Block(f)
  /\ pc = "merge" => toVisit = <<>>

-----------------------------------------------------------------------------
(* Generation: what a block generated leads to is generated or waits.      *)
GeneratingInv ==
  /\ pc \notin {"generating", "generated"} => visited = {} /\ generated = <<>> /\ cursor = None
  /\ pc \in {"generating", "generated"} =>
       /\ generated \in Seq(Nat) /\ IsInjective(generated) /\ visited = ToSet(generated)
       /\ branchTargets \in Seq(Nat) /\ ToSet(branchTargets) \subseteq Block(f)
       /\ visited \subseteq Block(f)
       /\ cursor # None => cursor \in Block(f)
       /\ \A b \in visited :
            /\ f.next[b] \in visited \cup {None, cursor}
            /\ \A i \in ToSet(f.outgoing[b]) :
                 f.edge[i].dst \in visited \cup ToSet(branchTargets) \cup {cursor}
  /\ pc = "generated" => cursor = None /\ branchTargets = <<>>

-----------------------------------------------------------------------------
GraphInv == GraphTypeOK(f) /\ LinksOK(f) /\ (pc # "decode" => EntryOK(f))
Inv ==
  /\ text \in Texts /\ pc \in Phases
  /\ f.status = "ok" =>
       GraphInv /\ DecodingInv /\ UnrollingInv /\ EliminatingInv /\ LayoutInv /\ GeneratingInv

-----------------------------------------------------------------------------
\* decodeBlock() stops at the first instruction that ends a block, and there is
\* one: it drops NOPs only, and returns last if at all.
LEMMA DecodedFacts ==
  ASSUME WellFormed(text), NEW l \in DOMAIN text
  PROVE  /\ Decoded(l) \in Seq(DOMAIN text)
         /\ \A k \in 1 .. Len(Decoded(l)) :
              /\ text[Decoded(l)[k]].kind \in Kinds \ {"nop"}
              /\ text[Decoded(l)[k]].kind = "ret" => k = Len(Decoded(l))
<1>. DEFINE E == {e \in l .. Len(text) : text[e].kind \in EndOfBlock}
            Ends(e) == /\ text[e].kind \in EndOfBlock
                       /\ \A k \in l .. e - 1 : text[k].kind \notin EndOfBlock
            last == CHOOSE e \in l .. Len(text) : Ends(e)
<1>1. /\ Len(text) \in Nat /\ DOMAIN text = 1 .. Len(text) /\ Len(text) \in DOMAIN text /\ l \in Nat
      /\ text[Len(text)].kind \in EndOfBlock
      /\ \A k \in DOMAIN text : text[k].kind \in Kinds
  <2>. DEFINE I == [kind : Kinds, to : Nat]
  <2>1. text \in Seq(I) /\ text # <<>> /\ text[Len(text)].kind \in EndOfBlock
    BY DEF WellFormed
  <2>2. \A x \in I : x.kind \in Kinds
    OBVIOUS
  <2>. HIDE DEF I
  <2>3. Len(text) \in Nat /\ DOMAIN text = 1 .. Len(text) /\ Len(text) # 0 /\ \A k \in DOMAIN text : text[k] \in I
    BY <2>1
  <2>4. l \in Nat /\ Len(text) \in DOMAIN text
    BY <2>3
  <2>. QED  BY <2>1, <2>2, <2>3, <2>4
<1>2. \E e \in l .. Len(text) : Ends(e)
  <2>1. E \subseteq Nat /\ E # {}
    BY <1>1
  <2>2. PICK e \in E : \A y \in E : e <= y
    <3>. HIDE DEF E
    <3>. QED  BY <2>1, LeastElement, Zenon
  <2>3. e \in l .. Len(text) /\ text[e].kind \in EndOfBlock
    BY <2>2
  <2>4. ASSUME NEW k \in l .. e - 1 PROVE text[k].kind \notin EndOfBlock
    <3>1. k \in l .. Len(text) /\ ~(e <= k)
      BY <1>1, <2>3
    <3>. QED  BY <2>2, <3>1
  <2>. QED  BY <2>3, <2>4
<1>3. last \in l .. Len(text) /\ Ends(last)
  BY <1>2
<1>. DEFINE R == {k \in l .. last : text[k].kind # "nop"}
            front == [k \in 1 .. last - l |-> l + k - 1]
            whole == [k \in 1 .. last - l + 1 |-> l + k - 1]
            D == DOMAIN text
<1>4. Decoded(l) = Only(whole, R)
  BY DEF Decoded
<1>. HIDE DEF last
<1>5. /\ front \in Seq(D) /\ last \in D /\ whole = Append(front, last)
      /\ ToSet(front) \subseteq l .. last - 1
  <2>. DEFINE n == last - l
  <2>1. n \in Nat /\ l + n = last /\ l \in Nat /\ last \in Nat /\ n + 1 = last - l + 1
    BY <1>1, <1>3
  <2>2. \A k \in 1 .. n : l + k - 1 \in l .. last - 1 /\ l + k - 1 \in D
    BY <1>1, <1>3
  <2>3. front = [k \in 1 .. n |-> l + k - 1] /\ whole = [k \in 1 .. n + 1 |-> l + k - 1]
    BY <2>1
  <2>4. last \in D
    BY <1>1, <1>3
  <2>5. front \in Seq(D) /\ Len(front) = n
    <3>. HIDE DEF D, n
    <3>. QED  BY <2>1, <2>2, <2>3
  <2>6. whole = Append(front, last)
    <3>. HIDE DEF D, n
    <3>1. Append(front, last) = [k \in 1 .. n + 1 |-> IF k = n + 1 THEN last ELSE front[k]]
      BY <2>1, <2>4, <2>5
    <3>2. \A k \in 1 .. n + 1 : l + k - 1 = IF k = n + 1 THEN last ELSE front[k]
      BY <2>1, <2>3
    <3>. QED  BY <2>3, <3>1, <3>2, Zenon
  <2>7. ToSet(front) \subseteq l .. last - 1
    <3>1. ToSet(front) = {front[k] : k \in 1 .. n}
      BY <2>3 DEF ToSet
    <3>. QED  BY <2>2, <2>3, <3>1
  <2>. QED  BY <2>4, <2>5, <2>6, <2>7, Zenon
<1>6. last \in R
  BY <1>1, <1>3 DEF EndOfBlock
<1>. DEFINE part == Only(front, R)
<1>7. /\ part \in Seq(D) /\ Only(Append(front, last), R) = Append(part, last)
      /\ ToSet(part) \subseteq l .. last - 1 /\ ToSet(part) \subseteq R
  <2>. HIDE DEF R, front, whole, D
  <2>1. part \in Seq(D) /\ Only(Append(front, last), R) = IF last \in R THEN Append(part, last) ELSE part
    BY <1>5, OnlyAppend, Zenon
  <2>2. ToSet(part) = ToSet(front) \cap R
    BY <1>5, OnlySet
  <2>. QED  BY <1>5, <1>6, <2>1, <2>2
<1>8. Decoded(l) = Append(part, last)
  BY <1>4, <1>5, <1>7, Zenon
<1>. HIDE DEF part, front, whole, D
<1>9. /\ Decoded(l) \in Seq(D) /\ Len(Decoded(l)) = Len(part) + 1 /\ Len(part) \in Nat
      /\ Decoded(l)[Len(part) + 1] = last
      /\ \A k \in 1 .. Len(part) : Decoded(l)[k] \in ToSet(part)
  <2>1. /\ Append(part, last) \in Seq(D) /\ Len(Append(part, last)) = Len(part) + 1
        /\ Append(part, last)[Len(part) + 1] = last
        /\ \A k \in 1 .. Len(part) : Append(part, last)[k] = part[k]
    BY <1>5, <1>7, AppendFacts
  <2>2. \A k \in 1 .. Len(part) : part[k] \in ToSet(part)
    BY <1>7 DEF ToSet
  <2>3. Len(part) \in Nat
    BY <1>7
  <2>. QED  BY <1>8, <2>1, <2>2, <2>3
<1>10. ASSUME NEW k \in 1 .. Len(Decoded(l))
       PROVE  /\ text[Decoded(l)[k]].kind \in Kinds \ {"nop"}
              /\ text[Decoded(l)[k]].kind = "ret" => k = Len(Decoded(l))
  <2>. DEFINE e == Decoded(l)[k]
  <2>1. CASE k = Len(part) + 1
    BY <1>1, <1>5, <1>6, <1>9, <2>1 DEF D
  <2>2. CASE k # Len(part) + 1
    <3>1. k \in 1 .. Len(part)
      BY <1>9, <2>2
    <3>2. e \in l .. last - 1 /\ e \in R
      BY <1>7, <1>9, <3>1
    <3>3. e \in DOMAIN text
      BY <1>1, <1>3, <3>2
    <3>. QED  BY <1>1, <1>3, <3>2, <3>3 DEF EndOfBlock
  <2>. QED  BY <2>1, <2>2
<1>. QED  BY <1>9, <1>10 DEF D

\* A function that is being decoded.
Partial(g) == GraphTypeOK(g) /\ LinksOK(g) /\ LabelsOK(g) /\ InOrder(g) /\ ReturnsLast(g)

\* What was decoded before is as it was.
Grown(g, h) ==
  LET n == Len(g.instrs) + 1
  IN  /\ Newest(h) = n /\ n \in Block(h) /\ n \notin Block(g) /\ n # None
      /\ Block(h) = Block(g) \cup {n} /\ h.entryBlock = EntryAfter(g, n) /\ h.status = g.status
      /\ Instrs(g) \subseteq Instrs(h)
      /\ \A b \in Block(g) : h.instrs[b] = g.instrs[b] /\ ToSet(g.instrs[b]) \subseteq Instrs(g)
      /\ \A i \in Instrs(g) : h.op[i] = g.op[i] /\ h.edge[i] = g.edge[i]
      /\ \A i \in Instrs(g) : i \in Open(h) <=> i \in Open(g)

\* Decoding a block adds open branches to it only.
LEMMA DecodeKeeps ==
  ASSUME WellFormed(text), NEW g, Partial(g), NEW l \in DOMAIN text
  PROVE  Partial(DecodeBlock(g, l)) /\ Grown(g, DecodeBlock(g, l))
<1>. DEFINE h == DecodeBlock(g, l)
            n == Len(g.instrs) + 1
            m == Len(g.op)
            c == Len(Decoded(l))
            D == DOMAIN text
<1>1. /\ GraphTypeOK(g) /\ LinksOK(g) /\ LabelsOK(g) /\ InOrder(g) /\ ReturnsLast(g)
  BY DEF Partial
<1>2. /\ Decoded(l) \in Seq(D)
      /\ \A k \in 1 .. c : /\ text[Decoded(l)[k]].kind \in Kinds \ {"nop"}
                           /\ text[Decoded(l)[k]].kind = "ret" => k = c
  BY DecodedFacts
<1>3. c \in Nat /\ Decoded(l) \in Seq(Nat) /\ DOMAIN Decoded(l) = 1 .. c /\ \A k \in 1 .. c : Decoded(l)[k] \in D
  <2>1. D \subseteq Nat
    BY DEF WellFormed
  <2>. DEFINE s == Decoded(l)
  <2>2. s \in Seq(D)
    BY <1>2
  <2>. HIDE DEF D, s
  <2>3. Len(s) \in Nat /\ DOMAIN s = 1 .. Len(s) /\ \A k \in 1 .. Len(s) : s[k] \in D
    BY <2>2
  <2>4. s \in Seq(Nat)
    <3>1. s = [k \in 1 .. Len(s) |-> s[k]]
      BY <2>2
    <3>2. \A k \in 1 .. Len(s) : s[k] \in Nat
      BY <2>1, <2>3, Zenon
    <3>. QED  BY <2>3, <3>1, <3>2, VectorFacts
  <2>. QED  BY <2>3, <2>4 DEF s
<1>4. Decodes(g, h, l)
  <2>. HIDE DEF D
  <2>. QED  BY <1>1, <1>2, <1>3, DecodeBlockFacts, Zenon
<1>. HIDE DEF h
<1>5. LinksOK(h) /\ Linked(h) = Linked(g)
  BY <1>1, <1>4, DecodeLinks
<1>6. /\ GraphTypeOK(h) /\ Len(h.instrs) = n /\ Len(h.op) = m + c /\ h.status = g.status
      /\ Block(h) = Block(g) \cup {n} /\ h.entryBlock = EntryAfter(g, n)
      /\ \A b \in Blocks(g) : h.instrs[b] = g.instrs[b]
      /\ h.instrs[n] = [k \in 1 .. c |-> m + k]
      /\ \A i \in Instrs(g) : h.op[i] = g.op[i] /\ h.edge[i] = g.edge[i]
      /\ \A k \in 1 .. c : /\ h.edge[m + k] = NoEdge
                           /\ h.op[m + k] = [at |-> Decoded(l)[k], kind |-> text[Decoded(l)[k]].kind,
                                             inv |-> FALSE]
  BY <1>4 DEF Decodes
<1>7. /\ Len(g.instrs) \in Nat /\ m \in Nat /\ Block(g) \subseteq Blocks(g)
      /\ \A b \in Blocks(g) : g.instrs[b] \in Seq(Nat) /\ ToSet(g.instrs[b]) \subseteq Instrs(g)
      /\ Linked(g) \subseteq Instrs(g)
  <2>1. \A b \in Blocks(g) : ToSet(g.instrs[b]) \subseteq Instrs(g)
    BY <1>1 DEF GraphTypeOK
  <2>. QED  BY <1>1, <2>1, TypeFacts
<1>8. Grown(g, h)
  <2>1. Newest(h) = n /\ n \in Block(h) /\ n \notin Block(g) /\ n # None
    BY <1>6, <1>7 DEF Newest, Blocks, None
  <2>2. Instrs(g) \subseteq Instrs(h)
    BY <1>3, <1>6, <1>7 DEF Instrs
  <2>3. \A i \in Instrs(g) : i \in Open(h) <=> i \in Open(g)
    BY <1>6, <2>2 DEF Open, HasEdge
  <2>. QED  BY <1>6, <1>7, <2>1, <2>2, <2>3 DEF Grown
<1>9. LabelsOK(h)
  <2>1. ASSUME NEW i \in Instrs(h)
        PROVE  h.op[i].at \in D /\ h.op[i].kind # "nop" /\ h.op[i].kind = text[h.op[i].at].kind
    <3>1. CASE i \in Instrs(g)
      BY <1>1, <1>6, <3>1 DEF LabelsOK
    <3>2. CASE i \notin Instrs(g)
      <4>1. PICK k \in 1 .. c : i = m + k
        <5>1. i - m \in 1 .. c /\ i = m + (i - m)
          BY <1>3, <1>6, <1>7, <3>2 DEF Instrs
        <5>. QED  BY <5>1
      <4>2. h.op[i] = [at |-> Decoded(l)[k], kind |-> text[Decoded(l)[k]].kind, inv |-> FALSE]
        BY <1>6, <4>1
      <4>3. h.op[i].at = Decoded(l)[k] /\ h.op[i].kind = text[Decoded(l)[k]].kind
        BY <4>2
      <4>4. Decoded(l)[k] \in D /\ text[Decoded(l)[k]].kind # "nop"
        BY <1>2, <1>3, Zenon
      <4>. QED  BY <4>3, <4>4
    <3>. QED  BY <3>1, <3>2
  <2>. QED  BY <2>1 DEF LabelsOK
<1>10. InOrder(h)
  <2>1. ASSUME NEW b \in Block(h) PROVE Precede(h.instrs[b], Linked(h), Open(h))
    <3>1. CASE b \in Block(g)
      <4>1. h.instrs[b] = g.instrs[b] /\ g.instrs[b] \in Seq(Nat) /\ ToSet(g.instrs[b]) \subseteq Instrs(g)
        BY <1>6, <1>7, <3>1
      <4>2. Precede(g.instrs[b], Linked(g), Open(g))
        BY <1>1, <3>1 DEF InOrder
      <4>3. ToSet(g.instrs[b]) \cap Open(g) = ToSet(g.instrs[b]) \cap Open(h)
        BY <1>8, <4>1 DEF Grown
      <4>4. ToSet(g.instrs[b]) \cap Linked(g) = ToSet(g.instrs[b]) \cap Linked(h)
        BY <1>5
      <4>. QED  BY <4>1, <4>2, <4>3, <4>4, PrecedeSame
    <3>2. CASE b = n
      <4>1. h.instrs[n] \in Seq(Nat)
        <5>1. n \in Blocks(h)
          BY <1>6, <1>7 DEF Blocks
        <5>. QED  BY <1>6, <5>1, TypeFacts
      <4>2. ToSet(h.instrs[n]) \cap Linked(h) = {}
        <5>1. ToSet(h.instrs[n]) = {m + k : k \in 1 .. c}
          BY <1>6 DEF ToSet
        <5>2. \A k \in 1 .. c : m + k \notin Instrs(g)
          BY <1>3, <1>7 DEF Instrs
        <5>. QED  BY <1>5, <1>7, <5>1, <5>2
      <4>. QED  BY <3>2, <4>1, <4>2, PrecedeNone
    <3>. QED  BY <1>6, <3>1, <3>2
  <2>. QED  BY <2>1 DEF InOrder
<1>11. ReturnsLast(h)
  <2>1. ASSUME NEW b \in Block(h), NEW k \in 1 .. Len(h.instrs[b]), h.op[h.instrs[b][k]].kind = "ret"
        PROVE  k = Len(h.instrs[b])
    <3>1. CASE b \in Block(g)
      <4>1. h.instrs[b] = g.instrs[b] /\ g.instrs[b] \in Seq(Nat) /\ ToSet(g.instrs[b]) \subseteq Instrs(g)
        BY <1>6, <1>7, <3>1
      <4>2. g.instrs[b][k] \in Instrs(g)
        BY <4>1 DEF ToSet
      <4>. QED  BY <1>1, <1>6, <2>1, <3>1, <4>1, <4>2, ZenonT(30) DEF ReturnsLast
    <3>2. CASE b = n
      <4>1. Len(h.instrs[n]) = c /\ k \in 1 .. c /\ h.instrs[n][k] = m + k
        <5>1. Len([j \in 1 .. c |-> m + j]) = c
          BY <1>3
        <5>. QED  BY <1>6, <2>1, <3>2, <5>1
      <4>2. text[Decoded(l)[k]].kind = "ret"
        <5>1. h.op[m + k].kind = "ret"
          BY <2>1, <3>2, <4>1
        <5>2. h.op[m + k] = [at |-> Decoded(l)[k], kind |-> text[Decoded(l)[k]].kind, inv |-> FALSE]
          BY <1>6, <4>1
        <5>3. h.op[m + k].kind = text[Decoded(l)[k]].kind
          BY <5>2
        <5>. QED  BY <5>1, <5>3
      <4>. QED  BY <1>2, <3>2, <4>1, <4>2
    <3>. QED  BY <1>6, <3>1, <3>2
  <2>. QED  BY <2>1 DEF ReturnsLast
<1>12. Partial(h)
  BY <1>5, <1>6, <1>9, <1>10, <1>11 DEF Partial
<1>. QED  BY <1>8, <1>12 DEF h

\* Before anything is decoded.
LEMMA EmptyFacts ==
  WellFormed(text) => /\ Partial(EmptyFunction) /\ Block(EmptyFunction) = {}
                      /\ Instrs(EmptyFunction) = {} /\ EmptyFunction.status = "ok"
                      /\ EmptyFunction.entryBlock = None
<1>. DEFINE g == EmptyFunction
<1>1. /\ DOMAIN g = Fields /\ g.entryBlock = None /\ g.status = "ok"
      /\ g.blocks = <<>> /\ g.instrs = <<>> /\ g.next = <<>> /\ g.prev = <<>>
      /\ g.incoming = <<>> /\ g.outgoing = <<>> /\ g.op = <<>> /\ g.edge = <<>>
  BY DEF EmptyFunction, Fields
<1>. HIDE DEF g
<1>2. Block(g) = {} /\ Blocks(g) = {} /\ Instrs(g) = {}
  <2>1. Len(<<>>) = 0 /\ 1 .. 0 = {}
    OBVIOUS
  <2>. QED  BY <1>1, <2>1, SetEmpty DEF Block, Blocks, Instrs
<1>3. GraphTypeOK(g)
  <2>1. \A T : <<>> \in Seq(T)
    OBVIOUS
  <2>2. IsInjective(<<>>)
    BY DEF IsInjective
  <2>. QED  BY <1>1, <1>2, <2>1, <2>2 DEF GraphTypeOK, None, Statuses
<1>4. LinksOK(g)
  BY <1>2 DEF LinksOK, OutgoingOK, SourcesOK, TargetsOK, IncomingOK, NextOK, PrevOK, OnceOK, ApartOK, Owned
<1>5. LabelsOK(g) /\ InOrder(g) /\ ReturnsLast(g)
  BY <1>2 DEF LabelsOK, InOrder, ReturnsLast
<1>. QED  BY <1>1, <1>2, <1>3, <1>4, <1>5 DEF Partial, g

\* splitBlock() only moves instructions.
Split(g, h, b) ==
  LET n == Len(g.instrs) + 1
  IN  /\ Newest(h) = n /\ n \in Block(h) /\ n \notin Block(g) /\ n # None
      /\ Block(h) = Block(g) \cup {n} /\ h.entryBlock = EntryAfter(g, n) /\ h.status = g.status
      /\ Instrs(h) = Instrs(g) /\ h.op = g.op /\ Open(h) = Open(g)
      /\ \A i \in Instrs(g) : HasEdge(h, i) <=> HasEdge(g, i)
      /\ \A c \in Block(g) : c # b => h.instrs[c] = g.instrs[c]
      /\ ToSet(h.instrs[b]) \subseteq ToSet(g.instrs[b])
      /\ \A c \in Block(h) : ToSet(h.instrs[c]) \subseteq Instrs(h) /\ h.instrs[c] \in Seq(Nat)

\* Splitting leaves both parts in order.
LEMMA SplitKeeps ==
  ASSUME NEW g, Partial(g), NEW b \in Block(g), NEW k \in 1 .. Len(g.instrs[b])
  PROVE  Partial(SplitBlock(g, b, k)) /\ Split(g, SplitBlock(g, b, k), b)
<1>. DEFINE h == SplitBlock(g, b, k)
            n == Len(g.instrs) + 1
            first == SubSeq(g.instrs[b], 1, k - 1)
            moved == MovedPart(g.instrs[b], k)
<1>1. GraphTypeOK(g) /\ LinksOK(g) /\ LabelsOK(g) /\ InOrder(g) /\ ReturnsLast(g)
  BY DEF Partial
<1>2. Splits(g, h, b, k)
  <2>1. g.next[b] = None \/ g.next[b] \in Block(g)
    BY <1>1 DEF LinksOK, NextOK
  <2>. QED  BY <1>1, <2>1, SplitBlockFacts
<1>. HIDE DEF h
<1>3. GraphTypeOK(h) /\ LinksOK(h)
  BY <1>1, <1>2, SplitLinks
<1>4. SplitParted(g, h, b, k)
  BY <1>1, <1>2, SplitParts
<1>5. /\ first \in Seq(Nat) /\ moved \in Seq(Nat) /\ g.instrs[b] = first \o moved
      /\ ToSet(first) \cap ToSet(moved) = {} /\ ToSet(g.instrs[b]) = ToSet(first) \cup ToSet(moved)
      /\ n \notin Blocks(g) /\ Blocks(h) = Blocks(g) \cup {n} /\ n \in Nat /\ b \in Blocks(g)
      /\ Instrs(h) = Instrs(g) /\ Linked(h) = Linked(g)
      /\ \A i \in Instrs(g) : HasEdge(h, i) <=> HasEdge(g, i)
  BY <1>4 DEF SplitParted
<1>6. /\ h.op = g.op /\ h.status = g.status
      /\ Block(h) = Block(g) \cup {n} /\ h.entryBlock = EntryAfter(g, n) /\ Len(h.instrs) = n
      /\ h.instrs[n] = moved /\ h.instrs[b] = first
      /\ \A c \in Blocks(g) : c # b => h.instrs[c] = g.instrs[c]
  BY <1>2 DEF Splits
<1>7. Block(g) \subseteq Blocks(g) /\ \A c \in Block(g) : g.instrs[c] \in Seq(Nat)
  BY <1>1, TypeFacts
<1>8. Open(h) = Open(g)
  BY <1>5, <1>6, Zenon DEF Open
<1>9. Split(g, h, b)
  <2>1. Newest(h) = n /\ n \in Block(h) /\ n \notin Block(g) /\ n # None
    <3>1. n # 0
      BY <1>1, TypeFacts
    <3>. QED  BY <1>5, <1>6, <1>7, <3>1 DEF Newest, None
  <2>2. \A c \in Block(h) : ToSet(h.instrs[c]) \subseteq Instrs(h) /\ h.instrs[c] \in Seq(Nat)
    <3>1. Block(h) \subseteq Blocks(h) /\ \A c \in Blocks(h) : ToSet(h.instrs[c]) \subseteq Instrs(h)
      BY <1>3 DEF GraphTypeOK
    <3>2. \A c \in Blocks(h) : h.instrs[c] \in Seq(Nat)
      BY <1>3, TypeFacts
    <3>. QED  BY <3>1, <3>2
  <2>. QED  BY <1>5, <1>6, <1>7, <1>8, <2>1, <2>2, Zenon DEF Split
<1>10. LabelsOK(h)
  BY <1>1, <1>5, <1>6 DEF LabelsOK
<1>11. InOrder(h)
  <2>1. ASSUME NEW c \in Block(g) PROVE Precede(g.instrs[c], Linked(h), Open(h))
    BY <1>1, <1>5, <1>8 DEF InOrder
  <2>2. Precede(first \o moved, Linked(h), Open(h))
    BY <1>5, <2>1, Zenon
  <2>3. Precede(first, Linked(h), Open(h)) /\ Precede(moved, Linked(h), Open(h))
    <3>. DEFINE u == first
                v == moved
                L == Linked(h)
                O == Open(h)
    <3>1. u \in Seq(Nat) /\ v \in Seq(Nat) /\ ToSet(u) \cap ToSet(v) = {} /\ Precede(u \o v, L, O)
      BY <1>5, <2>2
    <3>. HIDE DEF u, v, L, O
    <3>2. Precede(u, L, O) /\ Precede(v, L, O)
      BY <3>1, PrecedeParts
    <3>. QED  BY <3>2 DEF u, v, L, O
  <2>. QED  BY <1>6, <1>7, <2>1, <2>3, Zenon DEF InOrder
<1>12. ReturnsLast(h)
  <2>. DEFINE s == g.instrs[b]
  <2>1. /\ s \in Seq(Nat) /\ Len(s) \in Nat /\ k \in 1 .. Len(s)
        /\ \A j \in 1 .. Len(s) : g.op[s[j]].kind = "ret" => j = Len(s)
    BY <1>1, <1>7 DEF ReturnsLast
  <2>2. /\ Len(first) = k - 1 /\ \A j \in 1 .. k - 1 : first[j] = s[j]
        /\ Len(moved) = Len(s) - k + 1 /\ \A j \in 1 .. Len(s) - k + 1 : moved[j] = s[k - 1 + j]
    <3>1. moved = SubSeq(s, k, Len(s)) /\ first = SubSeq(s, 1, k - 1)
      BY DEF MovedPart
    <3>. HIDE DEF s, first, moved
    <3>2. Len(first) = k - 1 /\ \A j \in 1 .. k - 1 : first[j] = s[j]
      BY <2>1, <3>1
    <3>3. Len(moved) = Len(s) - k + 1 /\ \A j \in 1 .. Len(s) - k + 1 : moved[j] = s[k - 1 + j]
      BY <2>1, <3>1
    <3>. QED  BY <3>2, <3>3, Zenon
  <2>3. ASSUME NEW c \in Block(h), NEW j \in 1 .. Len(h.instrs[c]), h.op[h.instrs[c][j]].kind = "ret"
        PROVE  j = Len(h.instrs[c])
    <3>1. CASE c = n
      <4>1. j \in 1 .. Len(s) - k + 1 /\ g.op[s[k - 1 + j]].kind = "ret"
        BY <1>6, <2>2, <2>3, <3>1, ZenonT(30)
      <4>2. k - 1 + j \in 1 .. Len(s) /\ k \in Nat /\ j \in Nat
        <5>. DEFINE m == Len(s)
        <5>1. m \in Nat /\ k \in 1 .. m /\ j \in 1 .. m - k + 1
          BY <2>1, <4>1
        <5>. HIDE DEF m
        <5>2. k - 1 + j \in 1 .. m /\ k \in Nat /\ j \in Nat
          BY <5>1
        <5>. QED  BY <5>2 DEF m
      <4>3. k - 1 + j = Len(s)
        BY <2>1, <4>1, <4>2, Zenon
      <4>. QED  BY <1>6, <2>1, <2>2, <3>1, <4>2, <4>3
    <3>2. CASE c = b
      <4>1. j \in 1 .. k - 1 /\ g.op[s[j]].kind = "ret"
        BY <1>6, <2>2, <2>3, <3>2, ZenonT(30)
      <4>2. j \in 1 .. Len(s) /\ j # Len(s)
        BY <2>1, <4>1
      <4>. QED  BY <2>1, <4>1, <4>2, Zenon
    <3>3. CASE c \in Block(g) /\ c # b
      <4>1. h.instrs[c] = g.instrs[c] /\ h.op = g.op
        BY <1>6, <1>7, <3>3
      <4>. QED  BY <1>1, <2>3, <3>3, <4>1 DEF ReturnsLast
    <3>. QED  BY <1>6, <3>1, <3>2, <3>3
  <2>. QED  BY <2>3 DEF ReturnsLast
<1>13. Partial(h)
  BY <1>3, <1>10, <1>11, <1>12 DEF Partial
<1>. QED  BY <1>9, <1>13 DEF h

-----------------------------------------------------------------------------
\* BranchEdgeCollector finds what is to be wired up.
LEMMA UnresolvedFacts ==
  ASSUME NEW g, GraphTypeOK(g), LinksOK(g), NEW b \in Block(g)
  PROVE  Collected(g, b, Unresolved(g, b))
<1>. DEFINE s == g.instrs[b]
            R == {i \in ToSet(s) : IsBranch(g, i) /\ ~HasEdge(g, i)}
            O == Open(g)
            Q == R \cap O
<1>1. s \in Seq(Nat) /\ IsInjective(s)
  BY TypeFacts DEF LinksOK, OnceOK
<1>2. ToSet(s) \cap Q = ToSet(s) \cap O
  BY DEF Open, IsBranch, WithTarget, Branches
<1>3. Unresolved(g, b) = Only(s, R)
  BY DEF Unresolved
<1>4. \A i \in R : i \in ToSet(g.instrs[b]) /\ IsBranch(g, i) /\ ~HasEdge(g, i)
  OBVIOUS
<1>. HIDE DEF s, R, O
<1>5. Only(s, R) \in Seq(Nat)
  BY <1>1, OnlyType
<1>6. IsInjective(Only(s, R))
  BY <1>1, OnlyInjective
<1>7. ToSet(Only(s, R)) = ToSet(s) \cap R
  BY <1>1, OnlySet
<1>8. Only(Only(s, R), O) = Only(s, Q)
  BY <1>1, OnlyOnly
<1>. HIDE DEF Q
<1>9. Only(s, Q) = Only(s, O)
  BY <1>1, <1>2, OnlySame
<1>. QED  BY <1>3, <1>4, <1>5, <1>6, <1>7, <1>8, <1>9 DEF Collected, s, O

\* Another function with the same branches to wire up in b
LEMMA CollectedSame ==
  ASSUME NEW g, NEW h, NEW b, NEW c, g.instrs[b] \in Seq(Nat), h.instrs[b] = g.instrs[b],
         \A i \in ToSet(g.instrs[b]) : h.op[i] = g.op[i] /\ h.edge[i] = g.edge[i],
         \A i \in ToSet(g.instrs[b]) : i \in Open(h) <=> i \in Open(g),
         Collected(g, b, c)
  PROVE  Collected(h, b, c)
<1>. DEFINE s == g.instrs[b]
            O == Open(g)
            P == Open(h)
<1>1. /\ c \in Seq(Nat) /\ IsInjective(c) /\ Only(c, O) = Only(s, O)
      /\ \A i \in ToSet(c) : i \in ToSet(s) /\ IsBranch(g, i) /\ ~HasEdge(g, i)
  BY DEF Collected
<1>2. ToSet(c) \cap O = ToSet(c) \cap P /\ ToSet(s) \cap O = ToSet(s) \cap P
  BY <1>1
<1>3. \A i \in ToSet(c) : i \in ToSet(s) /\ IsBranch(h, i) /\ ~HasEdge(h, i)
  BY <1>1, Zenon DEF IsBranch, HasEdge
<1>4. s \in Seq(Nat) /\ h.instrs[b] = s
  OBVIOUS
<1>. HIDE DEF s, O, P
<1>5. Only(c, O) = Only(c, P)
  BY <1>1, <1>2, OnlySame
<1>6. Only(s, O) = Only(s, P)
  BY <1>2, <1>4, OnlySame
<1>. QED  BY <1>1, <1>3, <1>4, <1>5, <1>6, Zenon DEF Collected, P

-----------------------------------------------------------------------------
\* An edge for the first of the branches collected.
Wires(g, h, s, c) ==
  /\ Block(h) = Block(g) /\ h.blocks = g.blocks /\ h.entryBlock = g.entryBlock /\ h.status = g.status
  /\ h.instrs = g.instrs /\ h.op = g.op /\ Instrs(h) = Instrs(g)
  /\ Open(h) = Open(g) \ {Head(c)} /\ Head(c) \in ToSet(g.instrs[s])
  /\ \A i \in Instrs(g) : HasEdge(g, i) => HasEdge(h, i)
  /\ Collected(h, s, Tail(c))

\* A branch wired up in its turn leaves the block in order.
LEMMA ConnectKeeps ==
  ASSUME NEW g, Partial(g), NEW s \in Block(g), NEW d \in Block(g), NEW c,
         Collected(g, s, c), c # <<>>, Head(c) \in Open(g)
  PROVE  Partial(Connect(g, Head(c), s, d)) /\ Wires(g, Connect(g, Head(c), s, d), s, c)
<1>. DEFINE i == Head(c)
            t == Tail(c)
            h == Connect(g, i, s, d)
            w == g.instrs[s]
            L == Linked(g)
            O == Open(g)
            P == O \ {i}
<1>1. GraphTypeOK(g) /\ LinksOK(g) /\ LabelsOK(g) /\ InOrder(g) /\ ReturnsLast(g)
  BY DEF Partial
<1>2. /\ c \in Seq(Nat) /\ IsInjective(c) /\ Only(c, O) = Only(w, O) /\ c # <<>> /\ i \in O
      /\ \A j \in ToSet(c) : j \in ToSet(w) /\ IsBranch(g, j) /\ ~HasEdge(g, j)
  BY DEF Collected
<1>3. /\ i \in Nat /\ t \in Seq(Nat) /\ i \in ToSet(c) /\ c = <<i>> \o t
      /\ ToSet(c) = {i} \cup ToSet(t) /\ IsInjective(t) /\ i \notin ToSet(t)
  BY <1>2, HeadTail
<1>4. w \in Seq(Nat) /\ IsInjective(w)
  BY <1>1, TypeFacts DEF LinksOK, OnceOK
<1>5. L \cap O = {}
  BY DEF Linked, Open
<1>6. Precede(w, L, O)
  BY <1>1 DEF InOrder
<1>7. i \in ToSet(w) /\ IsBranch(g, i) /\ ~HasEdge(g, i) /\ i \in Instrs(g) /\ s \in Nat /\ s # None
  <2>1. i \in Instrs(g)
    BY <1>2 DEF Open
  <2>2. s \in Nat /\ s # None
    BY <1>1, TypeFacts
  <2>. QED  BY <1>2, <1>3, <2>1, <2>2
<1>. HIDE DEF i, t, w, O, P, L
<1>8. Only(w, O) # <<>> /\ Head(Only(w, O)) = i /\ Tail(Only(w, O)) = Only(t, O)
  <2>1. Only(<<i>> \o t, O) = IF i \in O THEN <<i>> \o Only(t, O) ELSE Only(t, O)
    <3>1. i \in Nat /\ t \in Seq(Nat)
      BY <1>3
    <3>. QED  BY <3>1, OnlyFirstNat
  <2>2. Only(w, O) = <<i>> \o Only(t, O)
    BY <1>2, <1>3, <2>1, Zenon
  <2>3. Only(t, O) \in Seq(Nat)
    BY <1>3, OnlyType
  <2>. DEFINE u == Only(t, O)
              v == Only(w, O)
  <2>4. v = <<i>> \o u /\ u \in Seq(Nat) /\ i \in Nat
    BY <1>3, <2>2, <2>3
  <2>. HIDE DEF u, v
  <2>5. v # <<>> /\ Head(v) = i /\ Tail(v) = u
    BY <2>4
  <2>. QED  BY <2>5 DEF u, v
<1>9. /\ Only(w, L \cup {i}) = Append(Only(w, L), i)
      /\ Only(w, P) = Only(t, O)
      /\ Precede(w, L \cup {i}, P)
  <2>1. Only(w, O) # <<>>
    BY <1>8
  <2>. DEFINE e == Head(Only(w, O))
  <2>2. /\ Only(w, L \cup {e}) = Append(Only(w, L), e)
        /\ Only(w, O \ {e}) = Tail(Only(w, O))
        /\ Precede(w, L \cup {e}, O \ {e})
    BY <1>4, <1>5, <1>6, <2>1, FirstGoesOver, Zenon
  <2>3. e = i
    BY <1>8
  <2>. QED  BY <1>8, <2>2, <2>3, Zenon DEF P
<1>10. ConnectsLast(g, i, s)
  BY <1>9, Zenon DEF ConnectsLast, w, L
<1>11. Connects(g, h, i, s, d)
  BY <1>1, <1>7, <1>10, ConnectLinks DEF w
<1>. HIDE DEF h
<1>12. /\ GraphTypeOK(h) /\ LinksOK(h) /\ Linked(h) = L \cup {i}
       /\ h.instrs = g.instrs /\ h.op = g.op /\ h.blocks = g.blocks
       /\ h.entryBlock = g.entryBlock /\ h.status = g.status
       /\ h.edge[i] = [src |-> s, dst |-> d]
       /\ \A j \in Instrs(g) : j # i => h.edge[j] = g.edge[j]
  BY <1>11 DEF Connects, L
<1>13. Block(h) = Block(g) /\ Instrs(h) = Instrs(g)
  BY <1>12 DEF Block, Instrs
<1>14. HasEdge(h, i)
  <2>1. h.edge[i].src = s /\ NoEdge.src = None
    BY <1>12 DEF NoEdge
  <2>. QED  BY <1>7, <2>1 DEF HasEdge
<1>15. Open(h) = P
  BY <1>12, <1>13, <1>14 DEF Open, P, O, HasEdge
<1>16. \A j \in Instrs(g) : HasEdge(g, j) => HasEdge(h, j)
  BY <1>12, <1>14 DEF HasEdge
<1>17. Collected(h, s, t)
  <2>1. ToSet(t) \cap P = ToSet(t) \cap O
    BY <1>3 DEF P
  <2>2. Only(t, P) = Only(t, O)
    BY <1>3, <2>1, OnlySame
  <2>3. Only(t, Open(h)) = Only(h.instrs[s], Open(h))
    BY <1>9, <1>12, <1>15, <2>2 DEF w
  <2>4. ASSUME NEW j \in ToSet(t) PROVE j \in ToSet(h.instrs[s]) /\ IsBranch(h, j) /\ ~HasEdge(h, j)
    <3>1. j \in ToSet(w) /\ IsBranch(g, j) /\ ~HasEdge(g, j) /\ j # i
      BY <1>2, <1>3
    <3>2. j \in Instrs(g)
      <4>1. ToSet(w) \subseteq Instrs(g)
        BY <1>1 DEF GraphTypeOK, w
      <4>. QED  BY <3>1, <4>1
    <3>. QED  BY <1>12, <3>1, <3>2 DEF IsBranch, HasEdge, w
  <2>. QED  BY <1>3, <2>3, <2>4 DEF Collected
<1>18. InOrder(h)
  <2>1. ASSUME NEW b \in Block(g) PROVE Precede(g.instrs[b], Linked(h), P)
    <3>1. CASE b = s
      BY <1>9, <1>12, <3>1 DEF w
    <3>2. CASE b # s
      <4>1. i \notin ToSet(g.instrs[b])
        BY <1>1, <1>7, <3>2 DEF LinksOK, ApartOK, w
      <4>2. /\ ToSet(g.instrs[b]) \cap L = ToSet(g.instrs[b]) \cap Linked(h)
            /\ ToSet(g.instrs[b]) \cap O = ToSet(g.instrs[b]) \cap P
        BY <1>12, <4>1 DEF P
      <4>3. g.instrs[b] \in Seq(Nat) /\ Precede(g.instrs[b], L, O)
        BY <1>1, TypeFacts DEF InOrder, L, O
      <4>. QED  BY <4>2, <4>3, PrecedeSame
    <3>. QED  BY <3>1, <3>2
  <2>. QED  BY <1>12, <1>13, <1>15, <2>1, Zenon DEF InOrder
<1>19. LabelsOK(h) /\ ReturnsLast(h)
  BY <1>1, <1>12, <1>13 DEF LabelsOK, ReturnsLast
<1>20. Partial(h)
  BY <1>12, <1>18, <1>19 DEF Partial
<1>21. Wires(g, h, s, c)
  BY <1>7, <1>12, <1>13, <1>15, <1>16, <1>17 DEF Wires, i, t, P, O, w
<1>. QED  BY <1>20, <1>21 DEF h, i

\* A branch to nowhere known is skipped.
LEMMA SkipKeeps ==
  ASSUME NEW g, NEW s, NEW c, Collected(g, s, c), c # <<>>, Head(c) \notin Open(g)
  PROVE  Collected(g, s, Tail(c))
<1>. DEFINE i == Head(c)
            t == Tail(c)
            O == Open(g)
<1>1. /\ c \in Seq(Nat) /\ IsInjective(c) /\ Only(c, O) = Only(g.instrs[s], O)
      /\ \A j \in ToSet(c) : j \in ToSet(g.instrs[s]) /\ IsBranch(g, j) /\ ~HasEdge(g, j)
      /\ c # <<>> /\ i \notin O
  BY DEF Collected
<1>2. /\ i \in Nat /\ t \in Seq(Nat) /\ c = <<i>> \o t
      /\ ToSet(c) = {i} \cup ToSet(t) /\ IsInjective(t)
  BY <1>1, HeadTail
<1>. HIDE DEF i, t, O
<1>3. Only(<<i>> \o t, O) = IF i \in O THEN <<i>> \o Only(t, O) ELSE Only(t, O)
  <2>1. i \in Nat /\ t \in Seq(Nat)
    BY <1>2
  <2>. QED  BY <2>1, OnlyFirstNat
<1>4. Only(t, O) = Only(g.instrs[s], O)
  BY <1>1, <1>2, <1>3
<1>. QED  BY <1>1, <1>2, <1>4 DEF Collected, O, t

-----------------------------------------------------------------------------
\* A return is no branch: its edge only has a source.
Returned(g, h, b) ==
  /\ Block(h) = Block(g) /\ h.blocks = g.blocks /\ h.entryBlock = g.entryBlock /\ h.status = g.status
  /\ h.instrs = g.instrs /\ h.op = g.op /\ Instrs(h) = Instrs(g) /\ Open(h) = Open(g)
  /\ \A i \in Instrs(g) : HasEdge(g, i) => HasEdge(h, i)
  /\ \A i \in ToSet(g.instrs[b]) : g.op[i].kind = "ret" => HasEdge(h, i)

\* The return is wired up last, and is last.
LEMMA WireReturnKeeps ==
  ASSUME NEW g, Partial(g), NEW b \in Block(g)
  PROVE  Partial(WireReturn(g, b)) /\ Returned(g, WireReturn(g, b), b)
<1>. DEFINE h == WireReturn(g, b)
            w == g.instrs[b]
            i == Last(w)
<1>1. GraphTypeOK(g) /\ LinksOK(g) /\ LabelsOK(g) /\ InOrder(g) /\ ReturnsLast(g)
  BY DEF Partial
<1>2. /\ w \in Seq(Nat) /\ ToSet(w) \subseteq Instrs(g) /\ b \in Nat /\ b # None
      /\ Block(g) \subseteq Blocks(g) /\ DOMAIN g.edge = Instrs(g)
      /\ g.edge \in Seq(EdgeType) /\ DOMAIN g = Fields /\ Len(g.edge) = Len(g.op) /\ Len(g.op) \in Nat
  <2>1. \A c \in Blocks(g) : ToSet(g.instrs[c]) \subseteq Instrs(g)
    BY <1>1 DEF GraphTypeOK
  <2>2. g.edge \in Seq(EdgeType) /\ DOMAIN g = Fields /\ Len(g.edge) = Len(g.op)
    BY <1>1 DEF GraphTypeOK
  <2>. QED  BY <1>1, <2>1, <2>2, TypeFacts
<1>3. \A j \in ToSet(w) : g.op[j].kind = "ret" => w # <<>> /\ j = i
  <2>1. ASSUME NEW j \in ToSet(w), g.op[j].kind = "ret" PROVE w # <<>> /\ j = i
    <3>1. PICK k \in 1 .. Len(w) : j = w[k]
      BY <1>2 DEF ToSet
    <3>2. k = Len(w)
      BY <1>1, <2>1, <3>1 DEF ReturnsLast
    <3>. QED  BY <1>2, <3>1, <3>2 DEF Last
  <2>. QED  BY <2>1
<1>4. CASE w # <<>> /\ g.op[i].kind = "ret" /\ ~HasEdge(g, i)
  <2>1. i \in ToSet(w) /\ i \in Instrs(g)
    <3>1. i \in ToSet(w)
      <4>. HIDE DEF w
      <4>. QED  BY <1>2, <1>4, FrontLast, ZenonT(30)
    <3>. QED  BY <1>2, <3>1
  <2>2. /\ \A x \in Fields : x # "edge" => h[x] = g[x]
        /\ DOMAIN h = Fields /\ h.edge = [g.edge EXCEPT ![i].src = b]
    BY <1>2, <1>4 DEF WireReturn, Fields
  <2>. HIDE DEF h, i
  <2>3. /\ h.instrs = g.instrs /\ h.op = g.op /\ h.blocks = g.blocks /\ h.status = g.status
        /\ h.entryBlock = g.entryBlock /\ h.next = g.next /\ h.prev = g.prev
        /\ h.incoming = g.incoming /\ h.outgoing = g.outgoing
    BY <2>2 DEF Fields
  <2>. DEFINE e == [src |-> b, dst |-> g.edge[i].dst]
  <2>4. e \in EdgeType /\ h.edge = [g.edge EXCEPT ![i] = e]
    <3>1. g.edge[i] \in EdgeType
      BY <1>1, <2>1, TypeFacts
    <3>2. [g.edge[i] EXCEPT !.src = b] = e
      BY <3>1 DEF EdgeType
    <3>. QED  BY <1>2, <2>2, <3>1, <3>2, Zenon DEF EdgeType
  <2>5. /\ h.edge \in Seq(EdgeType) /\ Len(h.edge) = Len(g.edge) /\ h.edge[i] = e
        /\ \A j \in 1 .. Len(g.edge) : j # i => h.edge[j] = g.edge[j]
    <3>1. i \in 1 .. Len(g.edge) /\ g.edge \in Seq(EdgeType)
      BY <1>2, <2>1 DEF Instrs
    <3>. HIDE DEF e
    <3>. QED  BY <2>4, <3>1, ExceptFacts
  <2>6. Block(h) = Block(g) /\ Instrs(h) = Instrs(g) /\ Instrs(g) = 1 .. Len(g.edge) /\ Owned(h) = Owned(g)
        /\ Blocks(h) = Blocks(g) /\ DOMAIN h.op = DOMAIN g.op
    BY <1>2, <2>3 DEF Block, Instrs, Owned, Blocks
  <2>7. HasEdge(h, i) /\ ~HasEdge(g, i) /\ ~IsBranch(g, i) /\ g.op[i].kind \notin WithTarget
    <3>1. h.edge[i] # NoEdge
      <4>1. h.edge[i].src = b /\ NoEdge.src = None
        BY <2>5 DEF NoEdge
      <4>. QED  BY <1>2, <4>1
    <3>. QED  BY <1>4, <3>1 DEF HasEdge, IsBranch, Branches, WithTarget
  <2>8. \A j \in Instrs(g) : j # i => (HasEdge(h, j) <=> HasEdge(g, j)) /\ h.edge[j] = g.edge[j]
    BY <2>5, <2>6 DEF HasEdge
  <2>9. Open(h) = Open(g) /\ Linked(h) = Linked(g) /\ \A j : IsBranch(h, j) <=> IsBranch(g, j)
    <3>1. \A j : IsBranch(h, j) <=> IsBranch(g, j)
      BY <2>3 DEF IsBranch
    <3>2. DOMAIN g.op = Instrs(g)
      BY <1>1, TypeFacts
    <3>. QED  BY <2>3, <2>6, <2>7, <2>8, <3>1, <3>2 DEF Open, Linked
  <2>10. Returned(g, h, b)
    <3>1. \A j \in ToSet(g.instrs[b]) : g.op[j].kind = "ret" => HasEdge(h, j)
      BY <1>3, <2>7 DEF i
    <3>. QED  BY <2>3, <2>6, <2>7, <2>8, <2>9, <3>1 DEF Returned
  <2>11. GraphTypeOK(h)
    BY <1>1, <1>2, <2>2, <2>3, <2>5, <2>6, Zenon DEF GraphTypeOK
  <2>12. LinksOK(h)
    <3>1. OutgoingOK(h) /\ NextOK(h) /\ PrevOK(h) /\ OnceOK(h) /\ ApartOK(h)
      BY <1>1, <2>3, <2>6, <2>9, SMTT(30) DEF LinksOK, OutgoingOK, NextOK, PrevOK, OnceOK, ApartOK
    <3>2. SourcesOK(h)
      <4>1. ASSUME NEW c \in Block(g), NEW j \in ToSet(g.instrs[c]), HasEdge(h, j) PROVE h.edge[j].src = c
        <5>1. CASE j = i
          <6>1. c = b
            BY <1>1, <2>1, <4>1, <5>1 DEF LinksOK, ApartOK
          <6>. QED  BY <2>5, <5>1, <6>1
        <5>2. CASE j # i
          <6>1. j \in Instrs(g)
            BY <1>1, <1>2, <4>1 DEF GraphTypeOK
          <6>. QED  BY <1>1, <2>8, <4>1, <5>2, <6>1 DEF LinksOK, SourcesOK
        <5>. QED  BY <5>1, <5>2
      <4>. QED  BY <2>3, <2>6, <4>1 DEF SourcesOK
    <3>3. \A j \in Owned(g) : IsBranch(g, j) => h.edge[j] = g.edge[j]
      <4>1. Owned(g) \subseteq Instrs(g)
        BY <1>1, TypeFacts
      <4>. QED  BY <2>7, <2>8, <4>1
    <3>4. TargetsOK(h)
      <4>1. \A j \in Linked(g) : IsBranch(g, j)
        BY DEF Linked
      <4>. QED  BY <1>1, <2>6, <2>9, <3>3, <4>1 DEF LinksOK, TargetsOK
    <3>5. IncomingOK(h)
      BY <1>1, <2>3, <2>6, <2>9, <3>3 DEF LinksOK, IncomingOK
    <3>. QED  BY <3>1, <3>2, <3>4, <3>5 DEF LinksOK
  <2>13. LabelsOK(h) /\ ReturnsLast(h) /\ InOrder(h)
    BY <1>1, <2>3, <2>6, <2>9 DEF LabelsOK, ReturnsLast, InOrder
  <2>. QED  BY <2>10, <2>11, <2>12, <2>13 DEF Partial, h
<1>5. CASE ~(w # <<>> /\ g.op[i].kind = "ret" /\ ~HasEdge(g, i))
  <2>1. h = g
    BY <1>5 DEF WireReturn
  <2>2. Returned(g, g, b)
    BY <1>3, <1>5 DEF Returned
  <2>. QED  BY <2>1, <2>2
<1>. QED  BY <1>4, <1>5

-----------------------------------------------------------------------------
(* The steps.  A pass at rest stays as it is.                              *)
LEMMA DecodeAtRest ==
  ASSUME pc' \notin {"decode", "resolve", "wire"}
  PROVE  DecodingInv'
BY DEF DecodingInv

\* The variables of a pass are at rest outside of it: unrolling, ...
LEMMA UnrollAtRest ==
  ASSUME UnrollingInv, pc # "unrolling", pc' # "unrolling", UNCHANGED unrollVars
  PROVE  UnrollingInv'
BY DEF UnrollingInv, unrollVars

\* ... dead code elimination, ...
LEMMA EliminateAtRest ==
  ASSUME pc' \notin {"collect", "eliminating"}
  PROVE  EliminatingInv'
BY DEF EliminatingInv

\* ... the layout ...
LEMMA LayoutAtRest ==
  ASSUME LayoutInv, pc \notin {"chain", "merge"}, pc' \notin {"chain", "merge"}, UNCHANGED layoutVars
  PROVE  LayoutInv'
BY DEF LayoutInv, layoutVars

\* ... and code generation.
LEMMA GenerateAtRest ==
  ASSUME GeneratingInv, pc \notin {"generating", "generated"}, pc' \notin {"generating", "generated"},
         UNCHANGED generateVars
  PROVE  GeneratingInv'
BY DEF GeneratingInv, generateVars

-----------------------------------------------------------------------------
\* Another block is known, and waits.
LEMMA KnowKeeps ==
  ASSUME KnownOK, NEW l \in DOMAIN text, NEW b \in Nat, Know(l, b),
         b \in Block(f'), Block(f) \subseteq Block(f'), text' = text
  PROVE  KnownOK' /\ ToSet(resolveStack') = ToSet(resolveStack) \cup {b}
<1>1. /\ blockMap \in [DOMAIN text -> Nat] /\ resolveStack \in Seq(Nat)
      /\ ToSet(resolveStack) \subseteq Block(f)
      /\ \A k \in DOMAIN text : blockMap[k] # None => blockMap[k] \in Block(f)
  BY DEF KnownOK
<1>2. blockMap' = [blockMap EXCEPT ![l] = b] /\ resolveStack' = Append(resolveStack, b)
  BY DEF Know
<1>3. resolveStack' \in Seq(Nat) /\ ToSet(resolveStack') = ToSet(resolveStack) \cup {b}
  <2>1. Append(resolveStack, b) \in Seq(Nat)
    BY <1>1
  <2>2. ToSet(Append(resolveStack, b)) = ToSet(resolveStack) \cup {b}
    BY <1>1, SetAppend
  <2>. QED  BY <1>2, <2>1, <2>2
<1>4. blockMap' \in [DOMAIN text -> Nat]
      /\ \A k \in DOMAIN text : blockMap'[k] # None => blockMap'[k] \in Block(f')
  BY <1>1, <1>2
<1>. QED  BY <1>1, <1>3, <1>4 DEF KnownOK

\* Where a branch leads, the label of a direct one is in the code.
LEMMA TargetFacts ==
  ASSUME WellFormed(text), Partial(f), srcBlock \in Block(f), Collected(f, srcBlock, collected),
         collected # <<>>
  PROVE  /\ Target = 0 => Branch \notin Open(f)
         /\ Target # 0 => Branch \in Open(f) /\ Target \in DOMAIN text
         /\ Branch \in ToSet(f.instrs[srcBlock])
<1>1. Branch \in ToSet(collected)
  <2>1. collected \in Seq(Nat)
    BY DEF Collected
  <2>. QED  BY <2>1, HeadTail, Zenon DEF Branch
<1>2. Branch \in ToSet(f.instrs[srcBlock]) /\ ~HasEdge(f, Branch)
  BY <1>1 DEF Collected
<1>3. Branch \in Instrs(f)
  BY <1>2 DEF Partial, GraphTypeOK
<1>4. f.op[Branch].at \in DOMAIN text /\ f.op[Branch].kind = text[f.op[Branch].at].kind
  BY <1>3 DEF Partial, LabelsOK
<1>5. \A l \in DOMAIN text : text[l].to \in 0 .. Len(text) /\ (text[l].kind \in WithTarget <=> text[l].to # 0)
  BY DEF WellFormed
<1>6. DOMAIN text = 1 .. Len(text) /\ Len(text) \in Nat
  BY DEF WellFormed
<1>. QED  BY <1>2, <1>3, <1>4, <1>5, <1>6 DEF Open, Target

\* An entry, once there is one, stays.
LEMMA EntryStays ==
  ASSUME NEW g, GraphTypeOK(g), EntryOK(g), NEW n, NEW h, h.entryBlock = EntryAfter(g, n),
         Block(g) \subseteq Block(h)
  PROVE  EntryOK(h)
<1>1. g.entryBlock \in Block(g) /\ g.entryBlock # None
  BY TypeFacts DEF EntryOK
<1>. QED  BY <1>1 DEF EntryAfter, EntryOK

\* What a step of the decoding has to keep.
Known == Partial(f) /\ EntryOK(f) /\ KnownOK /\ WiredUp

\* What decoding knows, said of the next state.
LEMMA KnownPrimed ==
  ASSUME text' = text, Partial(f'), EntryOK(f'), KnownOK', WiredUp'
  PROVE  Known'
BY DEF Known, Partial, LabelsOK

\* Known blocks stay known while blocks are only added.
LEMMA KnownKept ==
  ASSUME KnownOK, Block(f) \subseteq Block(f'), text' = text,
         blockMap' = blockMap, resolveStack' = resolveStack
  PROVE  KnownOK'
BY DEF KnownOK

\* The block at the entry is decoded.
LEMMA DecodeEntryStep ==
  ASSUME WellFormed(text), DecodingInv, DecodeEntry
  PROVE  Known'
<1>. DEFINE g == EmptyFunction
            n == Len(g.instrs) + 1
<1>1. pc = "decode" /\ f' = DecodeBlock(EmptyFunction, 1) /\ Know(1, Newest(f')) /\ text' = text
  BY DEF DecodeEntry
<1>2. f = EmptyFunction /\ blockMap = [l \in DOMAIN text |-> None] /\ resolveStack = <<>>
  BY <1>1 DEF DecodingInv
<1>3. Partial(g) /\ Block(g) = {} /\ g.entryBlock = None
  BY EmptyFacts
<1>4. 1 \in DOMAIN text
  <2>1. text # <<>> /\ \E I : text \in Seq(I)
    BY DEF WellFormed
  <2>. QED  BY <2>1
<1>5. Partial(f') /\ Grown(g, f')
  BY <1>1, <1>3, <1>4, DecodeKeeps
<1>6. Newest(f') = n /\ Block(f') = {n} /\ f'.entryBlock = n /\ n # None
  BY <1>3, <1>5 DEF Grown, EntryAfter
<1>7. n \in Nat
  <2>1. GraphTypeOK(f')
    BY <1>5 DEF Partial
  <2>. QED  BY <1>6, <2>1, TypeFacts
<1>. HIDE DEF g, n
<1>8. KnownOK
  <2>1. ToSet(<<>>) = {} /\ <<>> \in Seq(Nat)
    BY SetEmpty
  <2>. QED  BY <1>2, <2>1 DEF KnownOK, None
<1>9. KnownOK' /\ ToSet(resolveStack') = ToSet(resolveStack) \cup {n}
  <2>1. Block(f) \subseteq Block(f')
    BY <1>2, <1>3 DEF g
  <2>. QED  BY <1>1, <1>4, <1>6, <1>7, <1>8, <2>1, KnowKeeps
<1>10. WiredUp'
  BY <1>6, <1>9 DEF WiredUp
<1>11. EntryOK(f')
  BY <1>6 DEF EntryOK
<1>. QED  BY <1>1, <1>5, <1>9, <1>10, <1>11, KnownPrimed

\* The branches of a waiting block are collected.
LEMMA ResolveBlockStep ==
  ASSUME Known, ResolveBlock
  PROVE  Known' /\ (srcBlock \in Block(f) /\ Collected(f, srcBlock, collected))'
<1>. DEFINE b == srcBlock'
<1>1. /\ pc = "resolve" /\ pc' = "wire" /\ resolveStack # <<>> /\ b = Last(resolveStack)
      /\ resolveStack' = Front(resolveStack) /\ f' = WireReturn(f, b)
      /\ collected' = Unresolved(f', b) /\ text' = text /\ blockMap' = blockMap
  BY DEF ResolveBlock, Popped
<1>2. Partial(f) /\ EntryOK(f) /\ KnownOK /\ WiredUp
  BY DEF Known
<1>3. /\ blockMap \in [DOMAIN text -> Nat] /\ resolveStack \in Seq(Nat)
      /\ ToSet(resolveStack) \subseteq Block(f)
      /\ \A k \in DOMAIN text : blockMap[k] # None => blockMap[k] \in Block(f)
  BY <1>2 DEF KnownOK
<1>4. /\ resolveStack' \in Seq(Nat) /\ ToSet(resolveStack) = ToSet(resolveStack') \cup {b}
      /\ b \in Block(f)
  <2>1. /\ Front(resolveStack) \in Seq(Nat)
        /\ ToSet(resolveStack) = ToSet(Front(resolveStack)) \cup {Last(resolveStack)}
    BY <1>1, <1>3, FrontLast, Zenon
  <2>. QED  BY <1>1, <1>3, <2>1
<1>5. Partial(f') /\ Returned(f, f', b)
  BY <1>1, <1>2, <1>4, WireReturnKeeps
<1>6. /\ Block(f') = Block(f) /\ f'.entryBlock = f.entryBlock
      /\ f'.instrs = f.instrs /\ f'.op = f.op /\ Open(f') = Open(f) /\ Instrs(f') = Instrs(f)
      /\ \A i \in Instrs(f) : HasEdge(f, i) => HasEdge(f', i)
      /\ \A i \in ToSet(f.instrs[b]) : f.op[i].kind = "ret" => HasEdge(f', i)
  BY <1>5 DEF Returned
<1>7. KnownOK'
  BY <1>1, <1>3, <1>4, <1>6 DEF KnownOK
<1>8. WiredUp'
  <2>1. ASSUME NEW c \in Block(f) \ ToSet(resolveStack'), NEW i \in ToSet(f.instrs[c])
        PROVE  /\ f.op[i].kind = "ret" => HasEdge(f', i)
               /\ i \in Open(f) => c = b
    <3>1. CASE c = b
      BY <1>6, <3>1
    <3>2. CASE c # b
      <4>1. c \in Block(f) \ ToSet(resolveStack)
        BY <1>4, <3>2
      <4>2. i \in Instrs(f)
        BY <1>2 DEF Partial, GraphTypeOK
      <4>. QED  BY <1>1, <1>2, <1>6, <4>1, <4>2 DEF WiredUp
    <3>. QED  BY <3>1, <3>2
  <2>. QED  BY <1>1, <1>6, <2>1 DEF WiredUp
<1>9. EntryOK(f')
  BY <1>2, <1>6 DEF EntryOK
<1>10. Collected(f', b, collected')
  <2>1. GraphTypeOK(f') /\ LinksOK(f')
    BY <1>5 DEF Partial
  <2>. QED  BY <1>1, <1>4, <1>6, <2>1, UnresolvedFacts
<1>11. Known'
  BY <1>1, <1>5, <1>7, <1>8, <1>9, KnownPrimed
<1>. QED  BY <1>4, <1>6, <1>10, <1>11

Wiring == Known /\ srcBlock \in Block(f) /\ Collected(f, srcBlock, collected)

\* A branch without known target stays without edge.
LEMMA SkipUnknownStep ==
  ASSUME WellFormed(text), Wiring, SkipUnknown
  PROVE  Wiring'
<1>1. /\ pc = "wire" /\ pc' = pc /\ text' = text /\ f' = f /\ collected # <<>> /\ Target = 0
      /\ collected' = Tail(collected) /\ srcBlock' = srcBlock
      /\ blockMap' = blockMap /\ resolveStack' = resolveStack
  BY DEF SkipUnknown
<1>2. Known /\ srcBlock \in Block(f) /\ Collected(f, srcBlock, collected) /\ Partial(f)
  BY DEF Wiring, Known
<1>3. Branch \notin Open(f)
  BY <1>1, <1>2, TargetFacts
<1>4. Collected(f, srcBlock, Tail(collected))
  BY <1>1, <1>2, <1>3, SkipKeeps DEF Branch
<1>5. Known'
  BY <1>1, <1>2 DEF Known, KnownOK, WiredUp, Partial, LabelsOK
<1>. QED  BY <1>1, <1>2, <1>4, <1>5 DEF Wiring

\* The first of the branches collected from b gets its edge.
LEMMA WiresStep ==
  ASSUME NEW g, Partial(g), EntryOK(g), NEW s \in Block(g), NEW c, NEW h, Wires(g, h, s, c)
  PROVE  /\ EntryOK(h) /\ Collected(h, s, Tail(c)) /\ Block(h) = Block(g)
         /\ \A b \in Block(h) : \A i \in ToSet(h.instrs[b]) :
              /\ i \in ToSet(g.instrs[b]) /\ (i \in Open(h) => i \in Open(g))
              /\ h.op[i].kind = g.op[i].kind /\ (HasEdge(g, i) => HasEdge(h, i))
<1>1. /\ Block(h) = Block(g) /\ h.entryBlock = g.entryBlock
      /\ h.instrs = g.instrs /\ h.op = g.op
      /\ Open(h) = Open(g) \ {Head(c)}
      /\ \A i \in Instrs(g) : HasEdge(g, i) => HasEdge(h, i)
      /\ Collected(h, s, Tail(c))
  BY DEF Wires
<1>2. \A b \in Block(g) : ToSet(g.instrs[b]) \subseteq Instrs(g)
  BY DEF Partial, GraphTypeOK
<1>. QED  BY <1>1, <1>2 DEF EntryOK

\* A branch to a known block is connected.
LEMMA BranchToKnownStep ==
  ASSUME WellFormed(text), Wiring, BranchToKnown
  PROVE  Wiring'
<1>. DEFINE d == blockMap[Target]
<1>1. /\ pc = "wire" /\ pc' = pc /\ text' = text /\ collected # <<>> /\ Target # 0 /\ d # None
      /\ f' = Connect(f, Branch, srcBlock, d)
      /\ collected' = Tail(collected) /\ srcBlock' = srcBlock
      /\ blockMap' = blockMap /\ resolveStack' = resolveStack
  BY DEF BranchToKnown
<1>2. Known /\ srcBlock \in Block(f) /\ Collected(f, srcBlock, collected)
      /\ Partial(f) /\ EntryOK(f) /\ KnownOK /\ WiredUp
  BY DEF Wiring, Known
<1>3. Branch \in Open(f) /\ Target \in DOMAIN text
  BY <1>1, <1>2, TargetFacts
<1>4. d \in Block(f)
  BY <1>1, <1>2, <1>3 DEF KnownOK
<1>5. Partial(f') /\ Wires(f, f', srcBlock, collected)
  <2>. HIDE DEF d
  <2>. QED  BY <1>1, <1>2, <1>3, <1>4, ConnectKeeps DEF Branch
<1>6. /\ EntryOK(f') /\ Collected(f', srcBlock, Tail(collected)) /\ Block(f') = Block(f)
      /\ \A b \in Block(f') : \A i \in ToSet(f'.instrs[b]) :
           /\ i \in ToSet(f.instrs[b]) /\ (i \in Open(f') => i \in Open(f))
           /\ f'.op[i].kind = f.op[i].kind /\ (HasEdge(f, i) => HasEdge(f', i))
  BY <1>2, <1>5, WiresStep
<1>7. KnownOK'
  BY <1>1, <1>2, <1>6, KnownKept
<1>8. WiredUp'
  BY <1>1, <1>2, <1>6 DEF WiredUp
<1>9. Known'
  BY <1>1, <1>5, <1>6, <1>7, <1>8, KnownPrimed
<1>. QED  BY <1>1, <1>2, <1>6, <1>9 DEF Wiring

\* A branch into a known block splits it.
LEMMA BranchIntoMiddleStep ==
  ASSUME WellFormed(text), Wiring, BranchIntoMiddle
  PROVE  Wiring'
<1>1. /\ pc = "wire" /\ pc' = pc /\ text' = text /\ collected # <<>> /\ Target # 0
      /\ Know(Target, Newest(f')) /\ srcBlock' = srcBlock
      /\ collected' = Unresolved(f', srcBlock)
  BY DEF BranchIntoMiddle
<1>2. Known /\ srcBlock \in Block(f) /\ Collected(f, srcBlock, collected)
      /\ Partial(f) /\ EntryOK(f) /\ KnownOK /\ WiredUp
  BY DEF Wiring, Known
<1>3. Target \in DOMAIN text
  BY <1>1, <1>2, TargetFacts
<1>4. PICK p \in Covering(Target) : f' = SplitBlock(f, p[1], p[2])
  BY DEF BranchIntoMiddle
<1>. DEFINE b == p[1]
            k == p[2]
            n == Len(f.instrs) + 1
<1>5. b \in Block(f) /\ k \in 1 .. Len(f.instrs[b])
  <2>1. p \in {blockMap[j] : j \in DOMAIN text} \X DOMAIN text /\ b # None /\ k <= Len(f.instrs[b])
    BY DEF Covering
  <2>2. PICK j \in DOMAIN text : b = blockMap[j]
    BY <2>1
  <2>3. b \in Block(f)
    BY <1>2, <2>1, <2>2 DEF KnownOK
  <2>4. k \in Nat \ {0}
    <3>1. DOMAIN text = 1 .. Len(text) /\ k \in DOMAIN text
      BY <2>1 DEF WellFormed
    <3>. QED  BY <3>1
  <2>5. Len(f.instrs[b]) \in Nat
    <3>1. f.instrs[b] \in Seq(Nat)
      BY <1>2, <2>3, TypeFacts DEF Partial
    <3>. QED  BY <3>1
  <2>. QED  BY <2>1, <2>3, <2>4, <2>5
<1>6. Partial(f') /\ Split(f, f', b)
  BY <1>2, <1>4, <1>5, SplitKeeps
<1>7. /\ Newest(f') = n /\ n \in Block(f')
      /\ Block(f') = Block(f) \cup {n} /\ f'.entryBlock = EntryAfter(f, n)
      /\ Instrs(f') = Instrs(f) /\ f'.op = f.op /\ Open(f') = Open(f)
      /\ \A i \in Instrs(f) : HasEdge(f', i) <=> HasEdge(f, i)
      /\ \A c \in Block(f) : c # b => f'.instrs[c] = f.instrs[c]
      /\ ToSet(f'.instrs[b]) \subseteq ToSet(f.instrs[b])
  BY <1>6 DEF Split
<1>8. GraphTypeOK(f) /\ GraphTypeOK(f') /\ LinksOK(f')
  BY <1>2, <1>6 DEF Partial
<1>9. n \in Nat
  BY <1>7, <1>8, TypeFacts
<1>. HIDE DEF n
<1>10. EntryOK(f')
  BY <1>2, <1>7, <1>8, EntryStays
<1>11. KnownOK' /\ ToSet(resolveStack') = ToSet(resolveStack) \cup {n}
  BY <1>1, <1>2, <1>3, <1>7, <1>9, KnowKeeps
<1>12. WiredUp'
  <2>1. ASSUME NEW c \in Block(f') \ ToSet(resolveStack'), NEW i \in ToSet(f'.instrs[c])
        PROVE  /\ f'.op[i].kind = "ret" => HasEdge(f', i)
               /\ i \in Open(f') => c = srcBlock
    <3>1. c \in Block(f) \ ToSet(resolveStack) /\ i \in ToSet(f.instrs[c])
      BY <1>7, <1>11
    <3>2. i \in Instrs(f)
      BY <1>8, <3>1 DEF GraphTypeOK
    <3>. QED  BY <1>2, <1>7, <3>1, <3>2 DEF WiredUp
  <2>. QED  BY <1>1, <2>1 DEF WiredUp
<1>13. Collected(f', srcBlock, collected')
  BY <1>1, <1>2, <1>7, <1>8, UnresolvedFacts
<1>14. Known'
  BY <1>1, <1>6, <1>10, <1>11, <1>12, KnownPrimed
<1>. QED  BY <1>1, <1>2, <1>7, <1>13, <1>14 DEF Wiring

\* A branch to new code has it decoded.
LEMMA BranchToNewStep ==
  ASSUME WellFormed(text), Wiring, BranchToNew
  PROVE  Wiring'
<1>. DEFINE g == DecodeBlock(f, Target)
            n == Len(f.instrs) + 1
<1>1. /\ pc = "wire" /\ pc' = pc /\ text' = text /\ collected # <<>> /\ Target # 0
      /\ f' = Connect(g, Branch, srcBlock, Newest(g)) /\ Know(Target, Newest(g))
      /\ collected' = Tail(collected) /\ srcBlock' = srcBlock
  BY DEF BranchToNew
<1>2. Known /\ srcBlock \in Block(f) /\ Collected(f, srcBlock, collected)
      /\ Partial(f) /\ EntryOK(f) /\ KnownOK /\ WiredUp
  BY DEF Wiring, Known
<1>3. Target \in DOMAIN text /\ Branch \in Open(f) /\ Branch \in ToSet(f.instrs[srcBlock])
  BY <1>1, <1>2, TargetFacts
<1>4. Partial(g) /\ Grown(f, g)
  BY <1>2, <1>3, DecodeKeeps
<1>. HIDE DEF g
<1>5. /\ Newest(g) = n /\ n \in Block(g) /\ Block(g) = Block(f) \cup {n} /\ g.entryBlock = EntryAfter(f, n)
      /\ Instrs(f) \subseteq Instrs(g)
      /\ \A b \in Block(f) : g.instrs[b] = f.instrs[b] /\ ToSet(f.instrs[b]) \subseteq Instrs(f)
      /\ \A i \in Instrs(f) : g.op[i] = f.op[i] /\ g.edge[i] = f.edge[i]
      /\ \A i \in Instrs(f) : i \in Open(g) <=> i \in Open(f)
  BY <1>4 DEF Grown
<1>6. GraphTypeOK(f) /\ GraphTypeOK(g) /\ n \in Nat
  <2>1. GraphTypeOK(f) /\ GraphTypeOK(g)
    BY <1>2, <1>4 DEF Partial
  <2>. QED  BY <1>5, <2>1, TypeFacts
<1>. HIDE DEF n
<1>7. EntryOK(g)
  BY <1>2, <1>5, <1>6, EntryStays
<1>8. Collected(g, srcBlock, collected)
  <2>1. f.instrs[srcBlock] \in Seq(Nat)
    BY <1>2, <1>6, TypeFacts
  <2>2. \A i \in ToSet(f.instrs[srcBlock]) : i \in Instrs(f)
    BY <1>2, <1>5
  <2>. QED  BY <1>2, <1>5, <2>1, <2>2, CollectedSame
<1>9. Branch \in Open(g)
  BY <1>2, <1>3, <1>5
<1>10. srcBlock \in Block(g)
  BY <1>2, <1>5
<1>11. Partial(f') /\ Wires(g, f', srcBlock, collected)
  BY <1>1, <1>4, <1>5, <1>8, <1>9, <1>10, ConnectKeeps DEF Branch
<1>12. /\ EntryOK(f') /\ Collected(f', srcBlock, Tail(collected)) /\ Block(f') = Block(g)
       /\ \A b \in Block(f') : \A i \in ToSet(f'.instrs[b]) :
            /\ i \in ToSet(g.instrs[b]) /\ (i \in Open(f') => i \in Open(g))
            /\ f'.op[i].kind = g.op[i].kind /\ (HasEdge(g, i) => HasEdge(f', i))
  BY <1>4, <1>7, <1>10, <1>11, WiresStep
<1>13. KnownOK' /\ ToSet(resolveStack') = ToSet(resolveStack) \cup {n}
  BY <1>1, <1>2, <1>3, <1>5, <1>6, <1>12, KnowKeeps
<1>14. WiredUp'
  <2>1. ASSUME NEW b \in Block(f') \ ToSet(resolveStack'), NEW i \in ToSet(f'.instrs[b])
        PROVE  /\ f'.op[i].kind = "ret" => HasEdge(f', i)
               /\ i \in Open(f') => b = srcBlock
    <3>1. b \in Block(f) \ ToSet(resolveStack)
      BY <1>5, <1>12, <1>13
    <3>2. i \in ToSet(f.instrs[b]) /\ i \in Instrs(f) /\ f'.op[i].kind = f.op[i].kind
          /\ (i \in Open(f') => i \in Open(f)) /\ (HasEdge(f, i) => HasEdge(f', i))
      BY <1>5, <1>12, <3>1 DEF HasEdge
    <3>. QED  BY <1>2, <3>1, <3>2 DEF WiredUp
  <2>. QED  BY <1>1, <2>1 DEF WiredUp
<1>15. Known'
  BY <1>1, <1>11, <1>12, <1>13, <1>14, KnownPrimed
<1>. QED  BY <1>1, <1>5, <1>2, <1>12, <1>15 DEF Wiring

\* With all its branches wired up, a block is done with.
LEMMA BranchesWiredStep ==
  ASSUME Wiring, BranchesWired
  PROVE  Known'
<1>1. /\ pc = "wire" /\ pc' = "resolve" /\ text' = text /\ f' = f /\ collected = <<>>
      /\ blockMap' = blockMap /\ resolveStack' = resolveStack /\ srcBlock' = srcBlock
  BY DEF BranchesWired
<1>2. Known /\ srcBlock \in Block(f) /\ Collected(f, srcBlock, collected)
      /\ Partial(f) /\ EntryOK(f) /\ KnownOK /\ WiredUp
  BY DEF Wiring, Known
<1>3. ToSet(f.instrs[srcBlock]) \cap Open(f) = {}
  <2>. DEFINE w == f.instrs[srcBlock]
              O == Open(f)
  <2>1. w \in Seq(Nat)
    BY <1>2, TypeFacts DEF Partial
  <2>2. Only(<<>>, O) = Only(w, O)
    BY <1>1, <1>2 DEF Collected
  <2>. HIDE DEF w, O
  <2>3. Only(w, O) = <<>>
    BY <2>2, OnlyEmpty
  <2>4. ToSet(w) \cap O = {}
    BY <2>1, <2>3, OnlyAll
  <2>. QED  BY <2>4 DEF w, O
<1>4. WiredUp'
  BY <1>1, <1>2, <1>3 DEF WiredUp
<1>. QED  BY <1>1, <1>2, <1>4 DEF Known, KnownOK, Partial, LabelsOK

\* Every step of the reconstruction keeps its invariant.
LEMMA DecodeStep ==
  ASSUME WellFormed(text), GraphInv, DecodingInv, Decode
  PROVE  /\ pc \in {"decode", "resolve", "wire"} /\ pc' \in {"resolve", "wire", "unroll"}
         /\ text' = text /\ GraphInv' /\ DecodingInv'
<1>1. pc \in {"resolve", "wire"} => Known
  BY DEF GraphInv, DecodingInv, Known, Partial
<1>2. pc = "wire" => Wiring
  BY <1>1 DEF DecodingInv, Wiring
<1>3. ASSUME Known', text' = text, pc' = "resolve" PROVE GraphInv' /\ DecodingInv'
  BY <1>3 DEF Known, Partial, GraphInv, DecodingInv
<1>4. ASSUME Wiring', text' = text, pc' = "wire" PROVE GraphInv' /\ DecodingInv'
  BY <1>4 DEF Wiring, Known, Partial, GraphInv, DecodingInv
<1>5. CASE DecodeEntry
  <2>1. Known'
    BY <1>5, DecodeEntryStep
  <2>. QED  BY <1>3, <1>5, <2>1 DEF DecodeEntry
<1>6. CASE ResolveBlock
  <2>1. pc = "resolve" /\ pc' = "wire" /\ text' = text
    BY <1>6 DEF ResolveBlock
  <2>2. Known' /\ (srcBlock \in Block(f) /\ Collected(f, srcBlock, collected))'
    BY <1>1, <1>6, <2>1, ResolveBlockStep
  <2>3. Wiring'
    BY <2>2 DEF Wiring
  <2>. QED  BY <1>4, <2>1, <2>3
<1>7. CASE SkipUnknown
  <2>1. pc = "wire" /\ pc' = "wire" /\ text' = text
    BY <1>7 DEF SkipUnknown
  <2>. QED  BY <1>2, <1>4, <1>7, <2>1, SkipUnknownStep
<1>8. CASE BranchToKnown
  <2>1. pc = "wire" /\ pc' = "wire" /\ text' = text
    BY <1>8 DEF BranchToKnown
  <2>. QED  BY <1>2, <1>4, <1>8, <2>1, BranchToKnownStep
<1>9. CASE BranchIntoMiddle
  <2>1. pc = "wire" /\ pc' = "wire" /\ text' = text
    BY <1>9 DEF BranchIntoMiddle
  <2>. QED  BY <1>2, <1>4, <1>9, <2>1, BranchIntoMiddleStep
<1>10. CASE BranchToNew
  <2>1. pc = "wire" /\ pc' = "wire" /\ text' = text
    BY <1>10 DEF BranchToNew
  <2>. QED  BY <1>2, <1>4, <1>10, <2>1, BranchToNewStep
<1>11. CASE BranchesWired
  <2>1. pc = "wire" /\ pc' = "resolve" /\ text' = text
    BY <1>11 DEF BranchesWired
  <2>. QED  BY <1>2, <1>3, <1>11, <2>1, BranchesWiredStep
<1>12. CASE FunctionDecoded
  <2>1. pc = "resolve" /\ pc' = "unroll" /\ text' = text /\ f' = f
    BY <1>12 DEF FunctionDecoded
  <2>. QED  BY <2>1 DEF GraphInv, DecodingInv
<1>. QED  BY <1>5, <1>6, <1>7, <1>8, <1>9, <1>10, <1>11, <1>12 DEF Decode

-----------------------------------------------------------------------------
(* Unrolling.                                                              *)

\* The branches of a loop to itself.
LEMMA SelfFacts ==
  ASSUME NEW g, GraphTypeOK(g), LinksOK(g), NEW b \in Block(g)
  PROVE  /\ SelfBranches(g, b) \in Seq(Nat)
         /\ ToSet(SelfBranches(g, b)) = {i \in ToSet(g.instrs[b]) \cap Linked(g) : g.edge[i].dst = b}
<1>. DEFINE w == g.instrs[b]
            o == g.outgoing[b]
            S == {i \in ToSet(o) : g.edge[i].dst = b}
            L == Linked(g)
<1>1. w \in Seq(Nat) /\ o = Only(w, L)
  BY TypeFacts DEF LinksOK, OutgoingOK
<1>2. SelfBranches(g, b) = Only(o, S)
  BY DEF SelfBranches
<1>3. S = {i \in ToSet(o) : g.edge[i].dst = b}
  OBVIOUS
<1>. HIDE DEF w, o, S, L
<1>4. o \in Seq(Nat)
  BY <1>1, OnlyType
<1>5. ToSet(o) = ToSet(w) \cap L
  BY <1>1, OnlySet
<1>6. Only(o, S) \in Seq(Nat)
  BY <1>4, OnlyType
<1>7. ToSet(Only(o, S)) = ToSet(o) \cap S
  BY <1>4, OnlySet
<1>8. ToSet(Only(o, S)) = {i \in ToSet(w) \cap L : g.edge[i].dst = b}
  BY <1>3, <1>5, <1>7
<1>. QED  BY <1>2, <1>6, <1>8 DEF w, L

\* Branches of b to itself lead to c now.
Redirects(g, h, b, c) ==
  /\ GraphTypeOK(h) /\ LinksOK(h) /\ Linked(h) = Linked(g) /\ Block(h) = Block(g)
  /\ h.blocks = g.blocks /\ h.entryBlock = g.entryBlock /\ h.status = g.status
  /\ h.instrs = g.instrs /\ h.next = g.next /\ h.prev = g.prev /\ h.op = g.op
  /\ \A i \in ToSet(g.instrs[b]) \cap Linked(g) : g.edge[i].dst = b => h.edge[i].dst = c
  /\ \A i \in Instrs(g) : i \notin ToSet(g.instrs[b]) \/ g.edge[i].dst # b => h.edge[i] = g.edge[i]
  /\ \A i \in Instrs(g) : HasEdge(h, i) <=> HasEdge(g, i)

\* They are redirected one after the other.
LEMMA RedirectLinks ==
  ASSUME NEW g, GraphTypeOK(g), LinksOK(g), NEW b \in Block(g), NEW c \in Block(g), b # c
  PROVE  Redirects(g, RedirectSelf(g, b, c), b, c)
<1>. DEFINE self == ToSet(SelfBranches(g, b))
            h == RedirectSelf(g, b, c)
            L == Linked(g)
<1>1. /\ \A i \in self : i \in ToSet(g.instrs[b]) /\ i \in L /\ g.edge[i].dst = b
      /\ \A i \in ToSet(g.instrs[b]) : i \in L /\ g.edge[i].dst = b => i \in self
  BY SelfFacts
<1>2. /\ Len(g.instrs) \in Nat /\ Len(g.op) \in Nat /\ b \in Nat /\ c \in Nat
      /\ b \in Blocks(g) /\ c \in Blocks(g) /\ L \subseteq Instrs(g) /\ Block(g) \subseteq Blocks(g)
      /\ \A d \in Blocks(g) : g.incoming[d] \in SUBSET Nat
      /\ \A i \in Instrs(g) : g.edge[i] \in EdgeType /\ g.edge[i].src \in Nat /\ g.edge[i].dst \in Nat
      /\ Owned(g) \subseteq Instrs(g) /\ DOMAIN g.op = Instrs(g)
  BY TypeFacts
<1>3. DOMAIN g = Fields /\ Len(g.incoming) = Len(g.instrs) /\ Len(g.edge) = Len(g.op)
  BY DEF GraphTypeOK
<1>. DEFINE edge(i) == IF i \in self THEN [src |-> g.edge[i].src, dst |-> c] ELSE g.edge[i]
            into(d) == IF d = b THEN g.incoming[d] \ self
                       ELSE IF d = c THEN g.incoming[d] \cup self ELSE g.incoming[d]
<1>4. \A i \in Instrs(g) : [g.edge[i] EXCEPT !.dst = c] = [src |-> g.edge[i].src, dst |-> c]
  BY <1>2 DEF EdgeType
<1>5. /\ DOMAIN h = Fields /\ \A x \in Fields \ {"edge", "incoming"} : h[x] = g[x]
      /\ h.edge = [i \in 1 .. Len(g.edge) |-> IF i \in self THEN [g.edge[i] EXCEPT !.dst = c] ELSE g.edge[i]]
      /\ h.incoming = [d \in 1 .. Len(g.incoming) |-> CASE d = b -> g.incoming[d] \ self
                                                        [] d = c -> g.incoming[d] \cup self
                                                        [] OTHER -> g.incoming[d]]
  <2>. HIDE DEF self
  <2>. QED  BY <1>3, Zenon DEF RedirectSelf, Fields, self
<1>. HIDE DEF self, h, L
<1>6. /\ h.blocks = g.blocks /\ h.entryBlock = g.entryBlock /\ h.status = g.status
      /\ h.instrs = g.instrs /\ h.next = g.next /\ h.prev = g.prev /\ h.op = g.op /\ h.outgoing = g.outgoing
  BY <1>5 DEF Fields
<1>7. Block(h) = Block(g) /\ Blocks(h) = Blocks(g) /\ Instrs(h) = Instrs(g) /\ Owned(h) = Owned(g)
      /\ DOMAIN h.op = Instrs(g) /\ \A j : IsBranch(h, j) <=> IsBranch(g, j)
  BY <1>2, <1>6 DEF Block, Blocks, Instrs, Owned, IsBranch
<1>8. h.edge = [i \in 1 .. Len(g.op) |-> edge(i)]
  BY <1>3, <1>4, <1>5 DEF Instrs
<1>9. h.incoming = [d \in 1 .. Len(g.instrs) |-> into(d)]
  BY <1>3, <1>5
<1>10. /\ h.edge \in Seq(EdgeType) /\ Len(h.edge) = Len(g.op)
       /\ \A i \in Instrs(g) : h.edge[i] = edge(i)
  <2>1. \A i \in 1 .. Len(g.op) : edge(i) \in EdgeType
    BY <1>2 DEF EdgeType, Instrs
  <2>2. \A i \in 1 .. Len(g.op) : h.edge[i] = edge(i)
    <3>. HIDE DEF edge
    <3>. QED  BY <1>8
  <2>. HIDE DEF edge
  <2>3. h.edge = [i \in 1 .. Len(g.op) |-> h.edge[i]] /\ \A i \in 1 .. Len(g.op) : h.edge[i] \in EdgeType
    BY <1>8, <2>1, <2>2
  <2>4. h.edge \in Seq(EdgeType) /\ Len(h.edge) = Len(g.op)
    BY <1>2, <2>3, VectorFacts, Zenon
  <2>. QED  BY <2>2, <2>4 DEF Instrs
<1>11. self \subseteq Nat
  <2>1. self \subseteq Instrs(g)
    BY <1>1, <1>2
  <2>2. Instrs(g) \subseteq Nat
    BY DEF Instrs
  <2>. QED  BY <2>1, <2>2
<1>12. /\ h.incoming \in Seq(SUBSET Nat) /\ Len(h.incoming) = Len(g.instrs)
       /\ \A d \in Blocks(g) : h.incoming[d] = into(d)
  <2>1. \A d \in 1 .. Len(g.instrs) : into(d) \in SUBSET Nat
    BY <1>2, <1>11, Zenon DEF Blocks
  <2>2. \A d \in 1 .. Len(g.instrs) : h.incoming[d] = into(d)
    <3>. HIDE DEF into
    <3>. QED  BY <1>9
  <2>. HIDE DEF into
  <2>3. h.incoming = [d \in 1 .. Len(g.instrs) |-> h.incoming[d]]
        /\ \A d \in 1 .. Len(g.instrs) : h.incoming[d] \in SUBSET Nat
    BY <1>9, <2>1, <2>2
  <2>4. h.incoming \in Seq(SUBSET Nat) /\ Len(h.incoming) = Len(g.instrs)
    BY <1>2, <2>3, VectorFacts
  <2>. QED  BY <2>2, <2>4 DEF Blocks
<1>13. \A i \in Instrs(g) : h.edge[i].src = g.edge[i].src /\ h.edge[i].dst = (IF i \in self THEN c ELSE g.edge[i].dst)
  <2>1. ASSUME NEW i \in Instrs(g)
        PROVE  h.edge[i].src = g.edge[i].src /\ h.edge[i].dst = (IF i \in self THEN c ELSE g.edge[i].dst)
    <3>1. h.edge[i] = edge(i)
      BY <1>10
    <3>2. CASE i \in self
      <4>1. h.edge[i] = [src |-> g.edge[i].src, dst |-> c]
        BY <3>1, <3>2
      <4>. QED  BY <3>2, <4>1
    <3>3. CASE i \notin self
      BY <3>1, <3>3
    <3>. QED  BY <3>2, <3>3
  <2>. QED  BY <2>1
<1>14. \A i \in Instrs(g) : HasEdge(h, i) <=> HasEdge(g, i)
  <2>1. ASSUME NEW i \in self PROVE HasEdge(h, i) /\ HasEdge(g, i)
    <3>1. HasEdge(g, i) /\ i \in ToSet(g.instrs[b]) /\ i \in Instrs(g)
      BY <1>1, <1>2 DEF Linked, L
    <3>2. g.edge[i].src = b
      BY <3>1 DEF LinksOK, SourcesOK
    <3>3. h.edge[i].src = b /\ b # None /\ NoEdge.src = None
      BY <1>13, <3>1, <3>2, TypeFacts DEF NoEdge
    <3>. QED  BY <3>1, <3>3 DEF HasEdge
  <2>2. \A i \in Instrs(g) : i \notin self => h.edge[i] = g.edge[i]
    BY <1>10, Zenon
  <2>. QED  BY <2>1, <2>2 DEF HasEdge
<1>15. Linked(h) = L
  BY <1>2, <1>7, <1>14 DEF Linked, L
<1>16. GraphTypeOK(h)
  <2>1. GraphTypeOK(g)
    OBVIOUS
  <2>. QED  BY <2>1, <1>5, <1>6, <1>7, <1>10, <1>12, Zenon DEF GraphTypeOK
<1>17. OutgoingOK(h) /\ NextOK(h) /\ PrevOK(h) /\ OnceOK(h) /\ ApartOK(h)
  BY <1>6, <1>7, <1>15 DEF LinksOK, OutgoingOK, NextOK, PrevOK, OnceOK, ApartOK, L
<1>18. SourcesOK(h)
  <2>1. \A d \in Block(g) : ToSet(g.instrs[d]) \subseteq Instrs(g)
    BY DEF GraphTypeOK
  <2>. QED  BY <1>6, <1>7, <1>13, <1>14, <2>1 DEF LinksOK, SourcesOK
<1>19. TargetsOK(h)
  BY <1>2, <1>7, <1>13, <1>15 DEF LinksOK, TargetsOK, L
<1>20. IncomingOK(h)
  <2>1. ASSUME NEW d \in Block(g), NEW i \in Nat
        PROVE  i \in h.incoming[d] <=> i \in Owned(g) /\ IsBranch(g, i) /\ h.edge[i].dst = d
    <3>1. i \in g.incoming[d] <=> i \in Owned(g) /\ IsBranch(g, i) /\ g.edge[i].dst = d
      BY DEF LinksOK, IncomingOK
    <3>2. i \in self => i \in Owned(g) /\ IsBranch(g, i) /\ g.edge[i].dst = b
      BY <1>1 DEF Owned, Linked, L
    <3>3. i \in Owned(g) => h.edge[i].dst = (IF i \in self THEN c ELSE g.edge[i].dst)
      BY <1>2, <1>13
    <3>4. h.incoming[d] = into(d)
      BY <1>2, <1>12, Zenon
    <3>. QED  BY <3>1, <3>2, <3>3, <3>4
  <2>. QED  BY <1>7, <2>1 DEF IncomingOK
<1>21. LinksOK(h)
  BY <1>17, <1>18, <1>19, <1>20 DEF LinksOK
<1>22. \A i \in ToSet(g.instrs[b]) \cap L : g.edge[i].dst = b => h.edge[i].dst = c
  BY <1>1, <1>2, <1>13
<1>23. \A i \in Instrs(g) : i \notin ToSet(g.instrs[b]) \/ g.edge[i].dst # b => h.edge[i] = g.edge[i]
  BY <1>1, <1>10, Zenon
<1>. QED  BY <1>6, <1>7, <1>14, <1>15, <1>16, <1>21, <1>22, <1>23 DEF Redirects, h, L

\* Only the chain and the opcodes change, and branches remain branches.
Relinks(g, h) ==
  /\ DOMAIN h = Fields
  /\ h.blocks = g.blocks /\ h.entryBlock = g.entryBlock /\ h.status = g.status
  /\ h.instrs = g.instrs /\ h.edge = g.edge /\ h.incoming = g.incoming /\ h.outgoing = g.outgoing
  /\ h.op \in Seq(OpType) /\ Len(h.op) = Len(g.op)
  /\ h.next \in Seq(Nat) /\ Len(h.next) = Len(g.next)
  /\ h.prev \in Seq(Nat) /\ Len(h.prev) = Len(g.prev)
  /\ \A i \in Instrs(g) : IsBranch(h, i) <=> IsBranch(g, i)

\* What changes chains only changes no edge.
LEMMA RelinkFacts ==
  ASSUME NEW g, GraphTypeOK(g), NEW h, Relinks(g, h)
  PROVE  /\ GraphTypeOK(h) /\ SameEdges(g, h) /\ Block(h) = Block(g) /\ Instrs(h) = Instrs(g)
         /\ Linked(h) = Linked(g)
         /\ LinksOK(g) /\ NextOK(h) /\ PrevOK(h) => LinksOK(h)
<1>1. /\ DOMAIN h = Fields
      /\ h.blocks = g.blocks /\ h.entryBlock = g.entryBlock /\ h.status = g.status
      /\ h.instrs = g.instrs /\ h.edge = g.edge /\ h.incoming = g.incoming /\ h.outgoing = g.outgoing
      /\ h.op \in Seq(OpType) /\ Len(h.op) = Len(g.op)
      /\ h.next \in Seq(Nat) /\ Len(h.next) = Len(g.next)
      /\ h.prev \in Seq(Nat) /\ Len(h.prev) = Len(g.prev)
      /\ \A i \in Instrs(g) : IsBranch(h, i) <=> IsBranch(g, i)
  BY DEF Relinks
<1>2. Block(h) = Block(g) /\ Instrs(h) = Instrs(g) /\ Blocks(h) = Blocks(g)
  BY <1>1 DEF Block, Instrs, Blocks
<1>3. DOMAIN g.op = Instrs(g) /\ DOMAIN h.op = Instrs(h)
  <2>1. DOMAIN g.op = Instrs(g)
    BY TypeFacts
  <2>2. DOMAIN h.op = 1 .. Len(h.op)
    BY <1>1
  <2>. QED  BY <2>1, <2>2 DEF Instrs
<1>4. Linked(h) = Linked(g)
  BY <1>1, <1>2, <1>3 DEF Linked, HasEdge
<1>5. GraphTypeOK(h)
  BY <1>1, <1>2 DEF GraphTypeOK
<1>6. SameEdges(g, h)
  BY <1>1, <1>2, <1>4 DEF SameEdges
<1>7. ASSUME LinksOK(g), NextOK(h), PrevOK(h) PROVE LinksOK(h)
  BY <1>6, <1>7, SameEdgesFacts DEF LinksOK
<1>. QED  BY <1>2, <1>4, <1>5, <1>6, <1>7

\* Block d follows b, when neither was linked that way.
LEMMA LinkLinks ==
  ASSUME NEW g, GraphTypeOK(g), LinksOK(g), NEW b \in Block(g), NEW d \in Block(g),
         g.next[b] = None, g.prev[d] = None, NEW h, Relinks(g, h),
         h.next = [g.next EXCEPT ![b] = d], h.prev = [g.prev EXCEPT ![d] = b]
  PROVE  GraphTypeOK(h) /\ LinksOK(h) /\ Block(h) = Block(g) /\ h.next[b] = d /\ Linked(h) = Linked(g)
         /\ \A c \in Block(g) : c # b => h.next[c] = g.next[c]
<1>1. GraphTypeOK(h) /\ Block(h) = Block(g) /\ Linked(h) = Linked(g)
      /\ (NextOK(h) /\ PrevOK(h) => LinksOK(h))
  BY RelinkFacts
<1>2. /\ g.next \in Seq(Nat) /\ g.prev \in Seq(Nat) /\ Len(g.next) = Len(g.instrs) /\ Len(g.prev) = Len(g.instrs)
      /\ b \in 1 .. Len(g.next) /\ d \in 1 .. Len(g.prev) /\ b \in Nat /\ d \in Nat /\ b # None /\ d # None
      /\ \A c \in Block(g) : c \in 1 .. Len(g.next) /\ c \in 1 .. Len(g.prev) /\ c # None
  <2>1. /\ g.next \in Seq(Nat) /\ g.prev \in Seq(Nat) /\ Len(g.next) = Len(g.instrs) /\ Len(g.prev) = Len(g.instrs)
        /\ \A c \in Block(g) : c \in 1 .. Len(g.instrs)
    BY DEF GraphTypeOK, Blocks
  <2>2. \A c \in Block(g) : c # None /\ c \in Nat
    BY TypeFacts
  <2>. QED  BY <2>1, <2>2
<1>3. h.next[b] = d /\ \A c \in 1 .. Len(g.next) : c # b => h.next[c] = g.next[c]
  BY <1>2, ExceptFacts, SMTT(30)
<1>4. h.prev[d] = b /\ \A c \in 1 .. Len(g.prev) : c # d => h.prev[c] = g.prev[c]
  BY <1>2, ExceptFacts, SMTT(30)
<1>5. NextOK(h)
  <2>1. ASSUME NEW c \in Block(g), h.next[c] # None
        PROVE  h.next[c] \in Block(g) /\ h.prev[h.next[c]] = c
    <3>1. CASE c = b
      BY <1>3, <1>4, <3>1
    <3>2. CASE c # b
      <4>1. h.next[c] = g.next[c] /\ g.next[c] \in Block(g) /\ g.prev[g.next[c]] = c
        BY <1>2, <1>3, <2>1, <3>2, Zenon DEF LinksOK, NextOK
      <4>2. g.next[c] # d
        BY <1>2, <4>1, Zenon
      <4>. QED  BY <1>2, <1>4, <4>1, <4>2
    <3>. QED  BY <3>1, <3>2
  <2>. QED  BY <1>1, <2>1 DEF NextOK
<1>6. PrevOK(h)
  <2>1. ASSUME NEW c \in Block(g), h.prev[c] # None
        PROVE  h.prev[c] \in Block(g) /\ h.next[h.prev[c]] = c
    <3>1. CASE c = d
      BY <1>3, <1>4, <3>1
    <3>2. CASE c # d
      <4>1. h.prev[c] = g.prev[c] /\ g.prev[c] \in Block(g) /\ g.next[g.prev[c]] = c
        BY <1>2, <1>4, <2>1, <3>2, Zenon DEF LinksOK, PrevOK
      <4>2. g.prev[c] # b
        BY <1>2, <4>1, Zenon
      <4>. QED  BY <1>2, <1>3, <4>1, <4>2
    <3>. QED  BY <3>1, <3>2
  <2>. QED  BY <1>1, <2>1 DEF PrevOK
<1>. QED  BY <1>1, <1>2, <1>3, <1>5, <1>6

\* Nothing follows b any more.
LEMMA UnlinkLinks ==
  ASSUME NEW g, GraphTypeOK(g), LinksOK(g), NEW b \in Block(g), g.next[b] # None,
         NEW h, Relinks(g, h),
         h.next = [g.next EXCEPT ![b] = None], h.prev = [g.prev EXCEPT ![g.next[b]] = None]
  PROVE  GraphTypeOK(h) /\ LinksOK(h) /\ Block(h) = Block(g)
<1>. DEFINE d == g.next[b]
<1>1. GraphTypeOK(h) /\ Block(h) = Block(g) /\ (NextOK(h) /\ PrevOK(h) => LinksOK(h))
  BY RelinkFacts
<1>2. d \in Block(g) /\ g.prev[d] = b
  BY DEF LinksOK, NextOK
<1>3. /\ g.next \in Seq(Nat) /\ g.prev \in Seq(Nat) /\ Len(g.next) = Len(g.instrs) /\ Len(g.prev) = Len(g.instrs)
      /\ b \in 1 .. Len(g.next) /\ d \in 1 .. Len(g.prev) /\ b # None /\ d # None /\ None \in Nat
      /\ \A c \in Block(g) : c \in 1 .. Len(g.next) /\ c \in 1 .. Len(g.prev) /\ c # None
  <2>1. /\ g.next \in Seq(Nat) /\ g.prev \in Seq(Nat) /\ Len(g.next) = Len(g.instrs) /\ Len(g.prev) = Len(g.instrs)
        /\ \A c \in Block(g) : c \in 1 .. Len(g.instrs)
    BY DEF GraphTypeOK, Blocks
  <2>2. \A c \in Block(g) : c # None /\ c \in Nat
    BY TypeFacts
  <2>. QED  BY <1>2, <2>1, <2>2, Zenon DEF None
<1>. HIDE DEF d
<1>4. h.next[b] = None /\ \A c \in 1 .. Len(g.next) : c # b => h.next[c] = g.next[c]
  BY <1>3, ExceptFacts, SMTT(30)
<1>5. h.prev[d] = None /\ \A c \in 1 .. Len(g.prev) : c # d => h.prev[c] = g.prev[c]
  BY <1>3, ExceptFacts, SMTT(30) DEF d
<1>6. NextOK(h)
  <2>1. ASSUME NEW c \in Block(g), h.next[c] # None
        PROVE  h.next[c] \in Block(g) /\ h.prev[h.next[c]] = c
    <3>1. c # b
      BY <1>4, <2>1
    <3>2. h.next[c] = g.next[c] /\ g.next[c] \in Block(g) /\ g.prev[g.next[c]] = c
      BY <1>3, <1>4, <2>1, <3>1, Zenon DEF LinksOK, NextOK
    <3>3. g.next[c] # d
      BY <1>2, <3>1, <3>2
    <3>. QED  BY <1>3, <1>5, <3>2, <3>3, Zenon
  <2>. QED  BY <1>1, <2>1 DEF NextOK
<1>7. PrevOK(h)
  <2>1. ASSUME NEW c \in Block(g), h.prev[c] # None
        PROVE  h.prev[c] \in Block(g) /\ h.next[h.prev[c]] = c
    <3>1. c # d
      BY <1>5, <2>1
    <3>2. h.prev[c] = g.prev[c] /\ g.prev[c] \in Block(g) /\ g.next[g.prev[c]] = c
      BY <1>3, <1>5, <2>1, <3>1, Zenon DEF LinksOK, PrevOK
    <3>3. g.prev[c] # b
      BY <3>1, <3>2 DEF d
    <3>. QED  BY <1>3, <1>4, <3>2, <3>3, Zenon
  <2>. QED  BY <1>1, <2>1 DEF PrevOK
<1>. QED  BY <1>1, <1>6, <1>7

\* What is left once an instruction is gone.
Removed(g, h, b, i) ==
  /\ GraphTypeOK(h) /\ LinksOK(h) /\ Block(h) = Block(g)
  /\ Linked(h) = Linked(g) \ {i} /\ i \in Instrs(g)
  /\ \A d \in Block(g) : d # b => h.instrs[d] = g.instrs[d]
  /\ \A j \in Instrs(g) : j # i => h.edge[j] = g.edge[j]

\* Removing an instruction leaves entry and chains.
LEMMA RemoveKeeps ==
  ASSUME NEW g, GraphTypeOK(g), LinksOK(g), NEW b \in Block(g), NEW i, NEW h, Removes(g, h, b, i)
  PROVE  Removed(g, h, b, i)
<1>1. GraphTypeOK(h) /\ LinksOK(h) /\ Block(h) = Block(g)
  BY RemoveLinks, Zenon
<1>2. Linked(h) = Linked(g) \ {i} /\ i \in Instrs(g)
  BY RemoveLinks, Zenon
<1>3. \A d \in Block(g) : d # b => h.instrs[d] = g.instrs[d]
  <2>1. h.instrs = [g.instrs EXCEPT ![b] = Without(g.instrs[b], {i})]
    BY DEF Removes
  <2>2. Block(g) \subseteq DOMAIN g.instrs
    BY DEF GraphTypeOK, Blocks
  <2>. QED  BY <2>1, <2>2
<1>4. \A j \in Instrs(g) : j # i => h.edge[j] = g.edge[j]
  <2>1. h.edge = [g.edge EXCEPT ![i] = NoEdge]
    BY DEF Removes
  <2>2. Instrs(g) \subseteq DOMAIN g.edge
    BY TypeFacts
  <2>. QED  BY <2>1, <2>2
<1>. QED  BY <1>1, <1>2, <1>3, <1>4 DEF Removed

\* How the exit of a loop is inverted: branch i goes, branch j becomes another,
\* and the chain is linked.
Inverts(g, h, b) ==
  \E g1, g2, i, j :
    /\ GraphTypeOK(g1) /\ LinksOK(g1) /\ Block(g1) = Block(g) /\ b \in Block(g1)
    /\ g1.op = g.op /\ g1.edge = g.edge /\ g1.instrs = g.instrs
    /\ Removes(g1, g2, b, i) /\ GraphTypeOK(g2) /\ Relinks(g2, h)
    /\ j \in Linked(g2) /\ \A k \in Instrs(g2) : k # j => h.op[k] = g2.op[k]

\* Which they are: the last branch but one goes, the last one takes over its
\* condition.
ExitInverted(g, h, b, c) ==
  LET w == g.instrs[b]
      jmp == w[Len(w)]
      jcc == w[Len(w) - 1]
  IN  /\ jcc \in ToSet(w) /\ jmp \in ToSet(w) /\ jcc # jmp /\ g.edge[jmp].dst # c
      /\ h.next[b] = c /\ \A d \in Block(g) : d # b => h.next[d] = g.next[d] /\ h.instrs[d] = g.instrs[d]
      /\ ToSet(h.instrs[b]) = ToSet(w) \ {jcc} /\ Linked(h) = Linked(g) \ {jcc}
      /\ \A i \in Instrs(g) : i # jcc => h.edge[i] = g.edge[i]
      /\ \A i \in Instrs(g) : i # jmp => h.op[i] = g.op[i]
      /\ h.op[jmp].at = g.op[jcc].at

\* The copy follows the original, if the exit of the loop can be inverted.
LEMMA InvertLinks ==
  ASSUME NEW g, GraphTypeOK(g), LinksOK(g), NEW b, NEW c, b # c, Shape(g, b, c), Shape(g, c, c),
         InvertExit(g, b, c).status = "ok"
  PROVE  LET h == InvertExit(g, b, c)
         IN  /\ GraphTypeOK(h) /\ LinksOK(h) /\ Block(h) = Block(g) /\ h.entryBlock = g.entryBlock
             /\ Shape(h, c, c)
             /\ h = g \/ (Inverts(g, h, b) /\ ExitInverted(g, h, b, c))
<1>. DEFINE h == InvertExit(g, b, c)
            w == g.instrs[b]
            jmp == w[Len(w)]
            jcc == w[Len(w) - 1]
            g1 == Check(g, g.prev[c] = None)
            g2 == RemoveInstruction(g1, b, jcc)
<1>1. CASE h = g
  BY <1>1 DEF Shape
<1>2. CASE h # g
  <2>1. g.edge[jmp].dst # c
    BY <1>2, Zenon DEF InvertExit
  <2>2. g.op[jmp].kind \notin Conditional
    <3>1. Check(g, FALSE).status # "ok"
      BY DEF Check, GraphTypeOK, Fields
    <3>. QED  BY <2>1, <3>1, Zenon DEF InvertExit
  <2>3. g.op[jcc].kind = "jcc"
    BY <1>2, <2>1, <2>2 DEF InvertExit, Invertible
  <2>4. h = [g2 EXCEPT !.op[jmp] = Inverted(g.op[jcc]), !.next[b] = c, !.prev[c] = b]
    BY <2>1, <2>2, <2>3 DEF InvertExit, Invertible
  <2>5. /\ b \in Block(g) /\ g.next[b] = None /\ w # <<>> /\ jmp \in Linked(g) /\ Len(w) >= 2
        /\ c \in Block(g) /\ g.next[c] = None /\ g.instrs[c] # <<>> /\ Last(g.instrs[c]) \in Linked(g)
        /\ (g.edge[Last(g.instrs[c])].dst = c \/ Len(g.instrs[c]) >= 2)
    BY <2>1 DEF Shape, Last
  <2>6. /\ w \in Seq(Nat) /\ g.instrs[c] \in Seq(Nat) /\ b \in Blocks(g) /\ c \in Blocks(g)
        /\ jmp \in Instrs(g) /\ b \in Nat /\ c \in Nat
    BY <2>5, TypeFacts, Zenon
  <2>7. jcc \in ToSet(w) /\ jmp \in ToSet(w) /\ jcc # jmp /\ jcc \in Instrs(g)
    <3>1. Len(w) \in Nat /\ Len(w) - 1 \in DOMAIN w /\ Len(w) \in DOMAIN w /\ Len(w) - 1 # Len(w)
      <4>. HIDE DEF w
      <4>. QED  BY <2>5, <2>6
    <3>2. IsInjective(w)
      BY <2>5 DEF LinksOK, OnceOK
    <3>3. jcc \in ToSet(w) /\ jmp \in ToSet(w) /\ jcc # jmp
      <4>. HIDE DEF w
      <4>. QED  BY <3>1, <3>2 DEF IsInjective, ToSet
    <3>4. ToSet(w) \subseteq Instrs(g)
      BY <2>6 DEF GraphTypeOK
    <3>. QED  BY <3>3, <3>4
  <2>. DEFINE last == Last(g.instrs[c])
  <2>8. last \in ToSet(g.instrs[c]) /\ last \notin ToSet(w)
    <3>1. last \in ToSet(g.instrs[c])
      <4>. DEFINE v == g.instrs[c]
      <4>1. v \in Seq(Nat) /\ v # <<>>
        BY <2>5, <2>6
      <4>. HIDE DEF v
      <4>2. Last(v) \in ToSet(v)
        BY <4>1, FrontLast, Zenon
      <4>. QED  BY <4>2 DEF v
    <3>. QED  BY <2>5, <3>1, Zenon DEF LinksOK, ApartOK
  <2>. HIDE DEF w, jmp, jcc, last
  <2>9. /\ GraphTypeOK(g1) /\ LinksOK(g1) /\ Linked(g1) = Linked(g)
        /\ g1.instrs = g.instrs /\ g1.next = g.next /\ g1.prev = g.prev
        /\ g1.op = g.op /\ g1.edge = g.edge /\ g1.blocks = g.blocks /\ g1.entryBlock = g.entryBlock
        /\ g1.status = "ok" => g.prev[c] = None
    <3>. DEFINE free == g.prev[c] = None
    <3>1. g1 = Check(g, free)
      OBVIOUS
    <3>. HIDE DEF free, g1
    <3>2. /\ GraphTypeOK(g1) /\ Linked(g1) = Linked(g)
          /\ g1.instrs = g.instrs /\ g1.next = g.next /\ g1.prev = g.prev
          /\ g1.op = g.op /\ g1.edge = g.edge /\ g1.blocks = g.blocks /\ g1.entryBlock = g.entryBlock
          /\ g1.status = "ok" => free
          /\ LinksOK(g) => LinksOK(g1)
      BY <3>1, CheckFacts
    <3>. QED  BY <3>2 DEF free
  <2>. HIDE DEF g1
  <2>10. Block(g1) = Block(g)
    BY <2>9 DEF Block
  <2>11. g2.status = "ok"
    <3>1. h.status = g2.status
      BY <2>4
    <3>. QED  BY <3>1
  <2>12. g1.status = "ok" /\ Removes(g1, g2, b, jcc)
    <3>1. b \in Block(g1)
      BY <2>5, <2>10
    <3>. QED  BY <2>9, <2>11, <3>1, RemoveInstructionFacts
  <2>. HIDE DEF g2, h
  <2>13. /\ DOMAIN g2 = Fields /\ g2.blocks = g.blocks /\ g2.entryBlock = g.entryBlock
         /\ g2.next = g.next /\ g2.prev = g.prev /\ g2.op = g.op
    BY <2>9, <2>12 DEF Removes
  <2>14. /\ GraphTypeOK(g2) /\ LinksOK(g2) /\ Block(g2) = Block(g)
         /\ Linked(g2) = Linked(g) \ {jcc}
         /\ \A d \in Block(g) : d # b => g2.instrs[d] = g.instrs[d]
         /\ \A j \in Instrs(g) : j # jcc => g2.edge[j] = g.edge[j]
    <3>1. b \in Block(g1) /\ Instrs(g1) = Instrs(g)
      BY <2>5, <2>9, <2>10 DEF Instrs
    <3>2. /\ GraphTypeOK(g2) /\ LinksOK(g2) /\ Block(g2) = Block(g1)
          /\ Linked(g2) = Linked(g1) \ {jcc}
          /\ \A d \in Block(g1) : d # b => g2.instrs[d] = g1.instrs[d]
          /\ \A j \in Instrs(g1) : j # jcc => g2.edge[j] = g1.edge[j]
      <4>1. Removed(g1, g2, b, jcc)
        BY <2>9, <2>12, <3>1, RemoveKeeps
      <4>. QED  BY <4>1 DEF Removed
    <3>. QED  BY <2>9, <2>10, <3>1, <3>2
  <2>. DEFINE o == Inverted(g.op[jcc])
  <2>15. o \in OpType /\ o.kind = "jcc"
    <3>1. g.op[jcc] \in OpType
      BY <2>7, TypeFacts
    <3>2. \A p \in OpType : Inverted(p) \in OpType /\ Inverted(p).kind = p.kind
      BY Zenon DEF OpType, Inverted
    <3>. QED  BY <2>3, <3>1, <3>2
  <2>. HIDE DEF o
  <2>16. /\ DOMAIN h = Fields /\ h.blocks = g2.blocks /\ h.entryBlock = g2.entryBlock /\ h.status = g2.status
         /\ h.instrs = g2.instrs /\ h.edge = g2.edge /\ h.incoming = g2.incoming /\ h.outgoing = g2.outgoing
         /\ h.op = [g2.op EXCEPT ![jmp] = o]
         /\ h.next = [g2.next EXCEPT ![b] = c] /\ h.prev = [g2.prev EXCEPT ![c] = b]
    BY <2>4, <2>13 DEF Fields, o
  <2>17. /\ h.op \in Seq(OpType) /\ Len(h.op) = Len(g2.op) /\ h.op[jmp] = o
         /\ \A j \in 1 .. Len(g2.op) : j # jmp => h.op[j] = g2.op[j]
    <3>1. g2.op \in Seq(OpType) /\ jmp \in 1 .. Len(g2.op)
      BY <2>6, <2>13, <2>14 DEF GraphTypeOK, Instrs
    <3>. QED  BY <2>15, <2>16, <3>1, ExceptFacts
  <2>18. h.next \in Seq(Nat) /\ Len(h.next) = Len(g2.next)
    <3>1. g2.next \in Seq(Nat) /\ b \in 1 .. Len(g2.next)
      BY <2>5, <2>14 DEF GraphTypeOK, Blocks
    <3>. QED  BY <2>6, <2>16, <3>1, ExceptFacts
  <2>19. h.prev \in Seq(Nat) /\ Len(h.prev) = Len(g2.prev)
    <3>1. g2.prev \in Seq(Nat) /\ c \in 1 .. Len(g2.prev)
      BY <2>5, <2>14 DEF GraphTypeOK, Blocks
    <3>. QED  BY <2>6, <2>16, <3>1, ExceptFacts
  <2>20. \A i \in Instrs(g2) : IsBranch(h, i) <=> IsBranch(g2, i)
    <3>1. IsBranch(g2, jmp)
      BY <2>5, <2>13 DEF Linked, IsBranch
    <3>2. IsBranch(h, jmp)
      BY <2>15, <2>17 DEF IsBranch, Branches
    <3>. QED  BY <2>17, <3>1, <3>2 DEF IsBranch, Instrs
  <2>21. Relinks(g2, h)
    BY <2>16, <2>17, <2>18, <2>19, <2>20 DEF Relinks
  <2>22. g2.next[b] = None /\ g2.prev[c] = None /\ b \in Block(g2) /\ c \in Block(g2)
    BY <2>5, <2>9, <2>12, <2>13, <2>14
  <2>23. /\ GraphTypeOK(h) /\ LinksOK(h) /\ Block(h) = Block(g2) /\ Linked(h) = Linked(g2)
         /\ \A d \in Block(g2) : d # b => h.next[d] = g2.next[d]
    BY <2>14, <2>16, <2>21, <2>22, LinkLinks
  <2>24. Shape(h, c, c)
    <3>1. h.instrs[c] = g.instrs[c] /\ h.next[c] = None
      BY <2>5, <2>13, <2>14, <2>16, <2>22, <2>23
    <3>2. last # jcc /\ last \in Instrs(g)
      BY <2>5, <2>7, <2>8, TypeFacts DEF last
    <3>3. last \in Linked(h) /\ h.edge[last] = g.edge[last]
      BY <2>5, <2>14, <2>16, <2>23, <3>2 DEF last
    <3>. QED  BY <2>5, <2>14, <2>23, <3>1, <3>3 DEF Shape, last
  <2>25. Inverts(g, h, b)
    <3>1. /\ GraphTypeOK(g1) /\ LinksOK(g1) /\ Block(g1) = Block(g) /\ b \in Block(g1)
          /\ g1.op = g.op /\ g1.edge = g.edge /\ g1.instrs = g.instrs
      BY <2>5, <2>9, <2>10
    <3>2. jmp \in Linked(g2) /\ \A k \in Instrs(g2) : k # jmp => h.op[k] = g2.op[k]
      BY <2>5, <2>7, <2>14, <2>17 DEF Instrs
    <3>. QED  BY <2>12, <2>14, <2>21, <3>1, <3>2 DEF Inverts
  <2>26. ExitInverted(g, h, b, c)
    <3>1. h.next[b] = c /\ \A d \in Block(g) : d # b => h.next[d] = g.next[d] /\ h.instrs[d] = g.instrs[d]
      <4>1. h.next[b] = c
        <5>1. g2.next \in Seq(Nat) /\ b \in 1 .. Len(g2.next)
          BY <2>5, <2>14 DEF GraphTypeOK, Blocks
        <5>. QED  BY <2>16, <5>1
      <4>. QED  BY <2>13, <2>14, <2>16, <2>23, <4>1
    <3>2. ToSet(h.instrs[b]) = ToSet(w) \ {jcc}
      <4>1. g2.instrs[b] = Without(g1.instrs[b], {jcc})
        <5>1. g2.instrs = [g1.instrs EXCEPT ![b] = Without(g1.instrs[b], {jcc})]
          BY <2>12 DEF Removes
        <5>2. b \in DOMAIN g1.instrs
          BY <2>6, <2>9 DEF GraphTypeOK, Blocks
        <5>. QED  BY <5>1, <5>2
      <4>2. ToSet(Without(w, {jcc})) = ToSet(w) \ {jcc}
        BY <2>6, WithoutFacts
      <4>. QED  BY <2>9, <2>16, <4>1, <4>2, Zenon DEF w
    <3>3. \A i \in Instrs(g) : i # jcc => h.edge[i] = g.edge[i]
      BY <2>14, <2>16
    <3>4. \A i \in Instrs(g) : i # jmp => h.op[i] = g.op[i]
      BY <2>13, <2>17 DEF Instrs
    <3>5. h.op[jmp].at = g.op[jcc].at
      <4>1. g.op[jcc] \in OpType
        BY <2>7, TypeFacts
      <4>2. \A p \in OpType : Inverted(p).at = p.at
        BY Zenon DEF OpType, Inverted
      <4>. QED  BY <2>17, <4>1, <4>2 DEF o
    <3>6. Linked(h) = Linked(g) \ {jcc}
      BY <2>14, <2>23
    <3>. QED  BY <2>1, <2>7, <3>1, <3>2, <3>3, <3>4, <3>5, <3>6 DEF ExitInverted, w, jmp, jcc
  <2>. QED  BY <2>13, <2>14, <2>16, <2>23, <2>24, <2>25, <2>26 DEF h
<1>. QED  BY <1>1, <1>2

\* A loop is cut behind the last branch to its own beginning.
LEMMA IsolateChecks ==
  ASSUME NEW g, GraphTypeOK(g), NEW b, Isolate(g, b).status = "ok"
  PROVE  SelfBranches(g, b) # <<>>
<1>. DEFINE some == SelfBranches(g, b) # <<>>
            c == Check(g, some)
            k == CHOOSE j \in DOMAIN g.instrs[b] : g.instrs[b][j] = Last(SelfBranches(g, b))
            s == SplitBlock(c, b, k + 1)
            cut == IF Last(SelfBranches(g, b)) = Last(g.instrs[b]) THEN c ELSE s
<1>1. UnchainNext(cut, b).status = "ok"
  BY DEF Isolate
<1>2. DOMAIN c = Fields
  BY DEF Check, GraphTypeOK
<1>. HIDE DEF c
<1>3. s.status = c.status /\ DOMAIN s = Fields
  BY <1>2, ZenonT(30) DEF SplitBlock, AddBlock, Fields
<1>4. cut.status = c.status /\ DOMAIN cut = Fields
  BY <1>2, <1>3
<1>. HIDE DEF cut
<1>5. UnchainNext(cut, b).status = cut.status
  BY <1>4 DEF UnchainNext, Connect, Fields
<1>. HIDE DEF some
<1>6. Check(g, some).status = "ok"
  BY <1>1, <1>4, <1>5 DEF c
<1>7. some
  BY <1>6, CheckFacts
<1>. QED  BY <1>7 DEF some

\* A split moves instructions only, and the first part still ends in that branch.
Moves(g, h) ==
  /\ h.op = g.op /\ Owned(h) = Owned(g)
  /\ \A i \in Instrs(g) : h.edge[i].dst = g.edge[i].dst /\ (HasEdge(h, i) <=> HasEdge(g, i))
Cuts(g, h, b, i) ==
  /\ Moves(g, h)
  /\ GraphTypeOK(h) /\ LinksOK(h) /\ EntryOK(h) /\ Block(g) \subseteq Block(h)
  /\ h.instrs[b] \in Seq(Nat) /\ h.instrs[b] # <<>> /\ Last(h.instrs[b]) = i
  /\ i \in Linked(h) /\ h.edge[i].dst = b

\* A loop is cut behind its last branch to itself.
LEMMA CutLoop ==
  ASSUME NEW g, GraphTypeOK(g), LinksOK(g), EntryOK(g), NEW b \in Block(g),
         NEW i \in ToSet(g.instrs[b]), i \in Linked(g), g.edge[i].dst = b, i # Last(g.instrs[b]),
         NEW k \in DOMAIN g.instrs[b], g.instrs[b][k] = i
  PROVE  Cuts(g, SplitBlock(g, b, k + 1), b, i)
<1>. DEFINE h == SplitBlock(g, b, k + 1)
            w == g.instrs[b]
            n == Len(g.instrs) + 1
            v == SubSeq(w, 1, k)
<1>1. w \in Seq(Nat) /\ i \in Instrs(g) /\ b \in Blocks(g) /\ i \in ToSet(w) /\ w[k] = i /\ i # Last(w)
      /\ k \in DOMAIN w
  BY TypeFacts
<1>2. k \in Nat /\ k >= 1 /\ k + 1 \in 1 .. Len(w) /\ k + 1 - 1 = k
  <2>. DEFINE m == Len(w)
  <2>1. m \in Nat /\ k \in 1 .. m /\ k # m
    <3>. HIDE DEF w
    <3>. QED  BY <1>1 DEF Last
  <2>. HIDE DEF m
  <2>2. k \in Nat /\ k >= 1 /\ k + 1 \in 1 .. m /\ k + 1 - 1 = k
    BY <2>1
  <2>. QED  BY <2>2 DEF m
<1>3. v \in Seq(Nat) /\ v # <<>> /\ Last(v) = i
  <2>. HIDE DEF w
  <2>1. k \in 1 .. Len(w)
    BY <1>1
  <2>2. v = [j \in 1 .. k |-> w[j]] /\ Len(v) = k /\ v \in Seq(Nat)
    BY <1>1, <1>2, <2>1
  <2>. QED  BY <1>1, <1>2, <2>2, SMTT(30) DEF Last
<1>4. g.next[b] = None \/ g.next[b] \in Block(g)
  BY DEF LinksOK, NextOK
<1>5. Splits(g, h, b, k + 1)
  BY <1>2, <1>4, SplitBlockFacts
<1>. HIDE DEF h
<1>6. GraphTypeOK(h) /\ LinksOK(h) /\ SplitParted(g, h, b, k + 1)
  BY <1>2, <1>5, SplitLinks, SplitParts
<1>7. /\ h.entryBlock = EntryAfter(g, n) /\ Block(h) = Block(g) \cup {n}
      /\ h.instrs[b] = SubSeq(w, 1, k + 1 - 1)
  <2>. DEFINE q == k + 1
  <2>1. Splits(g, h, b, q)
    BY <1>5
  <2>. HIDE DEF q
  <2>2. /\ h.entryBlock = EntryAfter(g, n) /\ Block(h) = Block(g) \cup {n}
        /\ h.instrs[b] = SubSeq(w, 1, q - 1)
    BY <2>1 DEF Splits
  <2>. QED  BY <2>2 DEF q
<1>8. EntryOK(h)
  BY <1>7, EntryStays
<1>9. i \in Linked(h) /\ h.edge[i].dst = b
  BY <1>1, <1>6, Zenon DEF SplitParted
<1>10. Moves(g, h)
  <2>1. h.op = g.op
    BY <1>5 DEF Splits
  <2>. QED  BY <1>6, <2>1 DEF SplitParted, Moves
<1>. QED  BY <1>2, <1>3, <1>6, <1>7, <1>8, <1>9, <1>10, Zenon DEF Cuts, h

Isolates(g, h, b) ==
  /\ GraphTypeOK(h) /\ LinksOK(h) /\ EntryOK(h) /\ Block(g) \subseteq Block(h) /\ Shape(h, b, b)
  /\ \E c : Moves(g, c) /\ GraphTypeOK(c) /\ LinksOK(c) /\ b \in Block(c) /\ h = UnchainNext(c, b)

\* What is cut off is reached by a jump.
LEMMA UnchainCut ==
  ASSUME NEW g, NEW c, NEW b \in Block(g), NEW i, Cuts(g, c, b, i)
  PROVE  Isolates(g, UnchainNext(c, b), b)
<1>. DEFINE h == UnchainNext(c, b)
            v == c.instrs[b]
            j == Len(c.op) + 1
<1>1. /\ Moves(g, c)
      /\ GraphTypeOK(c) /\ LinksOK(c) /\ EntryOK(c) /\ Block(g) \subseteq Block(c) /\ b \in Block(c)
      /\ v \in Seq(Nat) /\ v # <<>> /\ Last(v) = i /\ i \in Linked(c) /\ c.edge[i].dst = b
  BY DEF Cuts
<1>2. /\ GraphTypeOK(h) /\ LinksOK(h) /\ Block(h) = Block(c) /\ h.entryBlock = c.entryBlock
      /\ h.next[b] = None
      /\ c.next[b] = None => h = c
      /\ c.next[b] # None => h.instrs[b] = Append(v, j) /\ j \in Linked(h) /\ j \in Nat
  BY <1>1, UnchainNextLinks
<1>. HIDE DEF h, v
<1>3. EntryOK(h)
  BY <1>1, <1>2 DEF EntryOK
<1>4. CASE c.next[b] = None
  BY <1>1, <1>2, <1>3, <1>4 DEF Isolates, Shape, v, h
<1>5. CASE c.next[b] # None
  <2>. DEFINE w == Append(v, j)
  <2>. HIDE DEF j
  <2>1. w # <<>> /\ Last(w) = j /\ Len(w) >= 2
    BY <1>1, <1>2, <1>5, SMTT(30) DEF Last
  <2>2. h.instrs[b] = w /\ j \in Linked(h)
    BY <1>2, <1>5
  <2>. HIDE DEF w
  <2>3. Shape(h, b, b)
    BY <1>1, <1>2, <2>1, <2>2 DEF Shape
  <2>. QED  BY <1>1, <1>2, <1>3, <2>3 DEF Isolates, h
<1>. QED  BY <1>4, <1>5

\* An isolated loop ends with its last branch, or with that and a jump.
LEMMA IsolateLinks ==
  ASSUME NEW g, GraphTypeOK(g), LinksOK(g), EntryOK(g), NEW b \in Block(g), Isolate(g, b).status = "ok"
  PROVE  Isolates(g, Isolate(g, b), b)
<1>. DEFINE S == SelfBranches(g, b)
            i == Last(S)
            w == g.instrs[b]
            k == CHOOSE j \in DOMAIN w : w[j] = i
            some == S # <<>>
            c == Check(g, some)
            cut == IF i = Last(c.instrs[b]) THEN c ELSE SplitBlock(c, b, k + 1)
<1>1. S # <<>> /\ S \in Seq(Nat) /\ ToSet(S) = {x \in ToSet(w) \cap Linked(g) : g.edge[x].dst = b}
  BY IsolateChecks, SelfFacts
<1>2. i \in ToSet(w) /\ i \in Linked(g) /\ g.edge[i].dst = b
  <2>. HIDE DEF S
  <2>1. i \in ToSet(S)
    BY <1>1, FrontLast, Zenon
  <2>. QED  BY <1>1, <2>1
<1>. HIDE DEF S, i, some
<1>3. /\ GraphTypeOK(c) /\ LinksOK(c) /\ Linked(c) = Linked(g) /\ c.instrs = g.instrs
      /\ c.edge = g.edge /\ c.blocks = g.blocks /\ c.entryBlock = g.entryBlock /\ c.op = g.op
  <2>1. GraphTypeOK(c) /\ Linked(c) = Linked(g)
    BY CheckFacts
  <2>2. /\ c.instrs = g.instrs /\ c.edge = g.edge /\ c.blocks = g.blocks /\ c.entryBlock = g.entryBlock
        /\ c.op = g.op
    BY CheckFacts
  <2>3. LinksOK(c)
    BY CheckFacts
  <2>. QED  BY <2>1, <2>2, <2>3
<1>. HIDE DEF c
<1>4. Block(c) = Block(g) /\ EntryOK(c) /\ b \in Block(c) /\ Moves(g, c)
  BY <1>3 DEF Block, EntryOK, Moves, Owned, HasEdge
<1>5. Isolate(g, b) = UnchainNext(cut, b)
  BY <1>3 DEF Isolate, S, i, c, some
<1>6. k \in DOMAIN w /\ w[k] = i
  BY <1>2 DEF ToSet
<1>. HIDE DEF k
<1>7. CASE i = Last(c.instrs[b])
  <2>1. w \in Seq(Nat) /\ w # <<>>
    BY <1>2, <1>4, TypeFacts DEF ToSet
  <2>2. Cuts(g, c, b, i)
    BY <1>2, <1>3, <1>4, <1>7, <2>1 DEF Cuts
  <2>. QED  BY <1>5, <1>7, <2>2, UnchainCut
<1>8. CASE i # Last(c.instrs[b])
  <2>1. Cuts(c, SplitBlock(c, b, k + 1), b, i)
    <3>1. /\ GraphTypeOK(c) /\ LinksOK(c) /\ EntryOK(c) /\ b \in Block(c) /\ i \in ToSet(c.instrs[b])
          /\ i \in Linked(c) /\ c.edge[i].dst = b /\ i # Last(c.instrs[b])
          /\ k \in DOMAIN c.instrs[b] /\ c.instrs[b][k] = i
      BY <1>2, <1>3, <1>4, <1>6, <1>8
    <3>. QED  BY <3>1, CutLoop
  <2>2. Moves(g, SplitBlock(c, b, k + 1))
    <3>1. Moves(c, SplitBlock(c, b, k + 1))
      BY <2>1 DEF Cuts
    <3>. DEFINE d == SplitBlock(c, b, k + 1)
    <3>. HIDE DEF d
    <3>2. Moves(c, d)
      BY <3>1 DEF d
    <3>3. Moves(g, d)
      BY <1>3, <1>4, <3>2 DEF Moves, Instrs
    <3>. QED  BY <3>3 DEF d
  <2>3. Cuts(g, SplitBlock(c, b, k + 1), b, i)
    BY <1>4, <2>1, <2>2 DEF Cuts
  <2>. QED  BY <1>5, <1>8, <2>3, UnchainCut
<1>. QED  BY <1>7, <1>8

\* The original leads to its copy, and the copy loops.
Duplicates(g, h, b, n) ==
  /\ GraphTypeOK(h) /\ LinksOK(h) /\ EntryOK(h) /\ Block(g) \subseteq Block(h)
  /\ h.status = g.status /\ n # None /\ b # n
  /\ Shape(h, b, n) /\ Shape(h, n, n)

\* The copy leads back to the original.
LEMMA CopyLoopLinks ==
  ASSUME NEW g, GraphTypeOK(g), LinksOK(g), EntryOK(g), NEW b, Shape(g, b, b)
  PROVE  LET c == CopyBlock(g, b)
         IN  Duplicates(g, RedirectSelf(c, b, Newest(c)), b, Newest(c))
<1>. DEFINE c == CopyBlock(g, b)
            n == Len(g.instrs) + 1
            m == Len(g.op)
            w == g.instrs[b]
            z == Len(w)
            l == w[z]
            h == RedirectSelf(c, b, n)
<1>1. /\ b \in Block(g) /\ g.next[b] = None /\ w # <<>> /\ l \in Linked(g)
      /\ g.edge[l].dst = b \/ z >= 2
  BY DEF Shape, Last
<1>2. /\ b \in Blocks(g) /\ b # n /\ n # None /\ n \in Nat /\ m \in Nat
      /\ w \in Seq(Nat) /\ z \in Nat /\ z \in 1 .. z /\ l \in Instrs(g) /\ l \in ToSet(w)
      /\ ToSet(w) \subseteq Instrs(g)
  <2>1. b \in Blocks(g) /\ b # n /\ n # None /\ n \in Nat /\ m \in Nat /\ w \in Seq(Nat)
    <3>1. /\ b \in Blocks(g) /\ b \in Nat /\ b # None /\ w \in Seq(Nat)
          /\ Len(g.instrs) \in Nat /\ m \in Nat
      BY <1>1, TypeFacts
    <3>2. b \in 1 .. Len(g.instrs)
      BY <3>1 DEF Blocks
    <3>3. b # n /\ n # None /\ n \in Nat
      BY <3>1, <3>2 DEF None
    <3>. QED  BY <3>1, <3>3
  <2>2. z \in Nat /\ z \in 1 .. z /\ l \in ToSet(w)
    <3>. HIDE DEF w
    <3>. QED  BY <1>1, <2>1 DEF ToSet
  <2>3. ToSet(w) \subseteq Instrs(g)
    BY <2>1 DEF GraphTypeOK
  <2>. QED  BY <2>1, <2>2, <2>3
<1>3. CopiesBlock(g, c, b)
  BY <1>1, CopyBlockFacts
<1>. HIDE DEF c, z, l
<1>4. /\ GraphTypeOK(c) /\ Len(c.instrs) = n /\ Len(c.op) = m + z /\ c.status = g.status
      /\ Block(c) = Block(g) \cup {n} /\ c.entryBlock = EntryAfter(g, n)
      /\ c.instrs[b] = w /\ c.next[b] = None
      /\ c.next[n] = None /\ c.instrs[n] = [k \in 1 .. z |-> m + k]
      /\ c.op[m + z] = g.op[l] /\ c.edge[l] = g.edge[l]
      /\ c.edge[m + z] = IF HasEdge(g, l) THEN [src |-> n, dst |-> CopiedTarget(b, n, g.edge[l].dst)]
                                          ELSE NoEdge
  BY <1>1, <1>2, <1>3, Zenon DEF CopiesBlock, z, l
<1>5. LinksOK(c) /\ l \in Linked(c)
  BY <1>1, <1>2, <1>3, CopyLinks
<1>6. Newest(c) = n /\ EntryOK(c) /\ b \in Block(c) /\ n \in Block(c)
  BY <1>1, <1>4, EntryStays DEF Newest
<1>7. Redirects(c, h, b, n)
  BY <1>2, <1>4, <1>5, <1>6, RedirectLinks
<1>. HIDE DEF h, n, m
<1>8. /\ GraphTypeOK(h) /\ LinksOK(h) /\ Linked(h) = Linked(c) /\ Block(h) = Block(c)
      /\ h.entryBlock = c.entryBlock /\ h.status = c.status /\ h.instrs = c.instrs /\ h.next = c.next
  BY <1>7 DEF Redirects
<1>9. EntryOK(h)
  BY <1>6, <1>8 DEF EntryOK
<1>10. Shape(h, b, n)
  <2>1. g.edge[l].dst = b => h.edge[l].dst = n
    BY <1>2, <1>4, <1>5, <1>7 DEF Redirects
  <2>2. h.instrs[b] = w /\ Last(w) = l /\ Len(w) = z
    BY <1>4, <1>8 DEF Last, l, z
  <2>. QED  BY <1>1, <1>4, <1>5, <1>6, <1>8, <2>1, <2>2 DEF Shape
<1>11. Shape(h, n, n)
  <2>. DEFINE v == [k \in 1 .. z |-> m + k]
              y == m + z
  <2>1. v # <<>> /\ Last(v) = y /\ Len(v) = z
    <3>1. v \in Seq(Nat) /\ Len(v) = z /\ v[z] = m + z
      BY <1>2
    <3>2. v # <<>>
      BY <1>2, <3>1
    <3>. QED  BY <3>1, <3>2, Zenon DEF Last
  <2>2. y \in Instrs(c) /\ y \notin ToSet(w) /\ y \notin Instrs(g)
    BY <1>2, <1>4 DEF Instrs, m
  <2>3. h.edge[y] = c.edge[y]
    BY <1>4, <1>7, <2>2 DEF Redirects
  <2>4. HasEdge(g, l) /\ IsBranch(g, l)
    BY <1>1 DEF Linked
  <2>5. c.edge[y] = [src |-> n, dst |-> CopiedTarget(b, n, g.edge[l].dst)]
    BY <1>4, <2>4
  <2>6. y \in Linked(c)
    <3>1. HasEdge(c, y)
      BY <1>2, <2>5 DEF HasEdge, NoEdge, None
    <3>2. IsBranch(c, y)
      BY <1>4, <2>4 DEF IsBranch
    <3>3. DOMAIN c.op = Instrs(c)
      BY <1>4, TypeFacts
    <3>. QED  BY <2>2, <3>1, <3>2, <3>3 DEF Linked
  <2>7. g.edge[l].dst = b => h.edge[y].dst = n
    BY <2>3, <2>5 DEF CopiedTarget
  <2>8. h.instrs[n] = v /\ h.next[n] = None
    BY <1>4, <1>8
  <2>. HIDE DEF v, y
  <2>. QED  BY <1>1, <1>6, <1>8, <2>1, <2>6, <2>7, <2>8 DEF Shape
<1>12. Block(g) \subseteq Block(h)
  BY <1>4, <1>8
<1>. QED  BY <1>2, <1>4, <1>6, <1>8, <1>9, <1>10, <1>11, <1>12 DEF Duplicates, c, h

\* There is no copy of no block.
LEMMA NoCopy ==
  ASSUME GraphInv, UnrollingInv, body = None
  PROVE  copy = None
<1>1. CASE pc # "unrolling"
  BY <1>1 DEF UnrollingInv
<1>2. CASE pc = "unrolling" /\ copy # None
  <2>1. body \in Block(f)
    BY <1>2 DEF UnrollingInv, Shape
  <2>2. \A b \in Block(f) : b # None
    BY TypeFacts DEF GraphInv
  <2>. QED  BY <2>1, <2>2
<1>. QED  BY <1>1, <1>2

\* Loops are collected before the first is changed.
LEMMA CollectLoopsStep ==
  ASSUME GraphInv, UnrollingInv, CollectLoops
  PROVE  GraphInv' /\ UnrollingInv' /\ pc' = "unrolling"
<1>1. f' = f /\ pc = "unroll" /\ pc' = "unrolling" /\ body' = body /\ copy' = copy
      /\ body = None /\ copy = None
  BY DEF CollectLoops, UnrollingInv
<1>2. loops' \in Seq(Nat) /\ ToSet(loops') \subseteq Block(f)
  <2>. DEFINE S == {b \in Block(f) : SelfBranches(f, b) # <<>>}
  <2>1. CASE UnrollCount = 0
    BY <2>1, SetEmpty DEF CollectLoops
  <2>2. CASE UnrollCount # 0
    <3>1. loops' = Only(f.blocks, S)
      BY <2>2 DEF CollectLoops
    <3>2. f.blocks \in Seq(Nat)
      BY DEF GraphInv, GraphTypeOK
    <3>3. Only(f.blocks, S) \in Seq(Nat) /\ ToSet(Only(f.blocks, S)) = ToSet(f.blocks) \cap S
      <4>. HIDE DEF S
      <4>. QED  BY <3>2, OnlyType, OnlySet
    <3>. QED  BY <3>1, <3>3 DEF Block
  <2>. QED  BY <2>1, <2>2
<1>3. GraphInv'
  BY <1>1 DEF GraphInv
<1>. QED  BY <1>1, <1>2, <1>3 DEF UnrollingInv

\* The next loop is isolated.
LEMMA IsolateLoopStep ==
  ASSUME GraphInv, UnrollingInv, IsolateLoop, f'.status = "ok"
  PROVE  GraphInv' /\ UnrollingInv' /\ pc' = "unrolling"
<1>1. /\ pc = "unrolling" /\ pc' = pc /\ body = None /\ copy' = copy /\ loops # <<>>
      /\ f' = Isolate(f, Head(loops)) /\ body' = Head(loops) /\ loops' = Tail(loops)
  BY DEF IsolateLoop
<1>2. loops \in Seq(Nat) /\ ToSet(loops) \subseteq Block(f) /\ copy = None
  BY <1>1, NoCopy DEF UnrollingInv
<1>3. /\ Head(loops) \in ToSet(loops) /\ Tail(loops) \in Seq(Nat)
      /\ ToSet(loops) = {Head(loops)} \cup ToSet(Tail(loops))
  BY <1>1, <1>2, HeadTail, Zenon
<1>4. GraphTypeOK(f) /\ LinksOK(f) /\ EntryOK(f)
  BY <1>1 DEF GraphInv
<1>5. Isolates(f, f', body')
  BY <1>1, <1>2, <1>3, <1>4, IsolateLinks
<1>6. GraphInv'
  BY <1>5 DEF GraphInv, Isolates
<1>7. ToSet(loops') \subseteq Block(f') /\ Shape(f', body', body')
  BY <1>1, <1>2, <1>3, <1>5 DEF Isolates
<1>. QED  BY <1>1, <1>2, <1>3, <1>6, <1>7 DEF UnrollingInv

\* It is copied, and the branches are redirected.
LEMMA CopyLoopStep ==
  ASSUME GraphInv, UnrollingInv, CopyLoop, f'.status = "ok"
  PROVE  GraphInv' /\ UnrollingInv' /\ pc' = "unrolling"
<1>1. /\ pc = "unrolling" /\ pc' = pc /\ body # None /\ copy = None /\ body' = body /\ loops' = loops
      /\ copy' = Newest(CopyBlock(f, body)) /\ f' = RedirectSelf(CopyBlock(f, body), body, copy')
  BY DEF CopyLoop
<1>2. loops \in Seq(Nat) /\ ToSet(loops) \subseteq Block(f) /\ Shape(f, body, body)
  BY <1>1 DEF UnrollingInv
<1>3. GraphTypeOK(f) /\ LinksOK(f) /\ EntryOK(f)
  BY <1>1 DEF GraphInv
<1>4. Duplicates(f, f', body, copy')
  BY <1>1, <1>2, <1>3, CopyLoopLinks
<1>5. GraphInv'
  BY <1>4 DEF GraphInv, Duplicates
<1>6. ToSet(loops') \subseteq Block(f') /\ body' # copy' /\ Shape(f', body', copy') /\ Shape(f', copy', copy')
      /\ copy' # None
  BY <1>1, <1>2, <1>4 DEF Duplicates
<1>. QED  BY <1>1, <1>2, <1>5, <1>6 DEF UnrollingInv

\* The copy is placed behind it.
LEMMA PlaceCopyStep ==
  ASSUME GraphInv, UnrollingInv, PlaceCopy, f'.status = "ok"
  PROVE  GraphInv' /\ UnrollingInv' /\ pc' = "unrolling"
<1>1. /\ pc = "unrolling" /\ pc' = pc /\ copy # None /\ copy' = None /\ loops' = loops
      /\ f' = InvertExit(f, body, copy) /\ body' \in {None, copy}
  BY DEF PlaceCopy
<1>2. /\ loops \in Seq(Nat) /\ ToSet(loops) \subseteq Block(f)
      /\ body # copy /\ Shape(f, body, copy) /\ Shape(f, copy, copy)
  BY <1>1 DEF UnrollingInv
<1>3. GraphTypeOK(f) /\ LinksOK(f) /\ EntryOK(f)
  BY <1>1 DEF GraphInv
<1>4. /\ GraphTypeOK(f') /\ LinksOK(f') /\ Block(f') = Block(f) /\ f'.entryBlock = f.entryBlock
      /\ Shape(f', copy, copy)
  <2>. DEFINE b == body
              c == copy
  <2>1. f' = InvertExit(f, b, c) /\ b # c /\ Shape(f, b, c) /\ Shape(f, c, c)
    BY <1>1, <1>2
  <2>. HIDE DEF b, c
  <2>. QED  BY <1>3, <2>1, InvertLinks DEF c
<1>5. EntryOK(f')
  BY <1>3, <1>4 DEF EntryOK
<1>6. GraphInv'
  BY <1>4, <1>5 DEF GraphInv
<1>. QED  BY <1>1, <1>2, <1>4, <1>6 DEF UnrollingInv

\* All loops are unrolled.
LEMMA LoopsUnrolledStep ==
  ASSUME GraphInv, UnrollingInv, LoopsUnrolled
  PROVE  GraphInv' /\ UnrollingInv' /\ pc = "unrolling" /\ pc' \in {"eliminate", "layout"}
<1>1. /\ pc = "unrolling" /\ pc' \in {"eliminate", "layout"} /\ f' = f
      /\ body = None /\ body' = body /\ copy' = copy
  BY DEF LoopsUnrolled
<1>2. copy = None
  BY <1>1, NoCopy
<1>3. GraphInv'
  BY <1>1 DEF GraphInv
<1>. QED  BY <1>1, <1>2, <1>3 DEF UnrollingInv

\* Unrolling keeps the function consistent.
LEMMA UnrollStep ==
  ASSUME GraphInv, UnrollingInv, Unroll, f'.status = "ok"
  PROVE  /\ GraphInv' /\ UnrollingInv' /\ text' = text
         /\ pc \in {"unroll", "unrolling"} /\ pc' \in {"unrolling", "eliminate", "layout"}
<1>1. text' = text
  BY DEF Unroll, CollectLoops, IsolateLoop, CopyLoop, PlaceCopy, LoopsUnrolled
<1>2. CASE CollectLoops
  BY <1>1, <1>2, CollectLoopsStep DEF CollectLoops
<1>3. CASE IsolateLoop
  BY <1>1, <1>3, IsolateLoopStep DEF IsolateLoop
<1>4. CASE CopyLoop
  BY <1>1, <1>4, CopyLoopStep DEF CopyLoop
<1>5. CASE PlaceCopy
  BY <1>1, <1>5, PlaceCopyStep DEF PlaceCopy
<1>6. CASE LoopsUnrolled
  BY <1>1, <1>6, LoopsUnrolledStep
<1>. QED  BY <1>2, <1>3, <1>4, <1>5, <1>6 DEF Unroll

-----------------------------------------------------------------------------
\* An assertion that holds changes nothing.
CheckedSame(g, h) ==
  /\ GraphTypeOK(h) /\ LinksOK(h) /\ EntryOK(h) /\ Block(h) = Block(g)
  /\ h.next = g.next /\ h.outgoing = g.outgoing /\ h.edge = g.edge /\ h.entryBlock = g.entryBlock

\* A drob_assert changes nothing but the status.
LEMMA CheckKeeps ==
  ASSUME NEW g, GraphTypeOK(g), LinksOK(g), EntryOK(g), NEW c
  PROVE  CheckedSame(g, Check(g, c))
<1>. DEFINE h == Check(g, c)
<1>1. GraphTypeOK(h) /\ h.next = g.next /\ h.outgoing = g.outgoing /\ h.edge = g.edge
      /\ h.blocks = g.blocks /\ h.entryBlock = g.entryBlock
  BY CheckFacts
<1>2. LinksOK(h)
  BY CheckFacts
<1>. HIDE DEF h
<1>3. Block(h) = Block(g)
  BY <1>1 DEF Block
<1>4. EntryOK(h)
  BY <1>1, <1>3 DEF EntryOK
<1>. QED  BY <1>1, <1>2, <1>3, <1>4 DEF CheckedSame, h

\* There are finitely many blocks.
LEMMA BlocksFinite ==
  ASSUME NEW g, GraphTypeOK(g)
  PROVE  Cardinality(Block(g)) \in Nat
<1>1. Block(g) \subseteq 1 .. Len(g.instrs) /\ Len(g.instrs) \in Nat
  BY TypeFacts DEF Blocks
<1>2. IsFiniteSet(1 .. Len(g.instrs))
  BY <1>1, FS_Interval
<1>3. IsFiniteSet(Block(g))
  BY <1>1, <1>2, FS_Subset
<1>. QED  BY <1>3, FS_CardinalityType

\* The stack analysis stays within the function, and begins at its entry.
LEMMA ForwardsStay ==
  ASSUME NEW g, GraphTypeOK(g), LinksOK(g), NEW v, NEW b \in Block(g)
  PROVE  Forwards(g, v, b) \subseteq Block(g)
<1>. SUFFICES ASSUME NEW k \in Analysed(g, v, b), Follows(g, v, g.instrs[b][k])
              PROVE  g.edge[g.instrs[b][k]].dst \in Block(g)
  BY DEF Forwards
<1>. DEFINE i == g.instrs[b][k]
<1>1. i \in ToSet(g.instrs[b]) /\ IsBranch(g, i) /\ HasEdge(g, i)
  BY DEF Analysed, Follows, ToSet
<1>. HIDE DEF i
<1>2. i \in Owned(g)
  BY <1>1 DEF Owned
<1>3. i \in Linked(g)
  BY <1>1, <1>2, TypeFacts DEF Linked
<1>. QED  BY <1>2, <1>3 DEF LinksOK, TargetsOK, i

\* One round of the stack analysis, and all rounds.
Further(g, v, b) ==
  {b} \cup Forwards(g, v, b) \cup (IF FallsThrough(g, v, b) THEN {g.next[b]} ELSE {})
Rounds(g, v, p) ==
  /\ p \in [Nat -> SUBSET Block(g)] /\ p[0] = {g.entryBlock}
  /\ \A n \in Nat : n # 0 => p[n] = UNION {Further(g, v, b) : b \in p[n - 1]}

\* What is reached, round by round.
LEMMA ReachedRounds ==
  ASSUME NEW g, GraphTypeOK(g), LinksOK(g), EntryOK(g), NEW v
  PROVE  \E p : Rounds(g, v, p) /\ Reached(g, v) = p[Cardinality(Block(g))]
<1>. DEFINE D == Block(g)
            X == SUBSET D
            e == {g.entryBlock}
            Step(b) == {b} \cup Forwards(g, v, b)
                         \cup (IF FallsThrough(g, v, b) THEN {g.next[b]} ELSE {})
            Up(S) == UNION {Step(b) : b \in S}
            G == [S \in X |-> Up(S)]
            Is(p) == p = [n \in Nat |-> IF n = 0 THEN e ELSE Up(p[n - 1])]
            grow == CHOOSE p : Is(p)
<1>1. \A b \in D : Step(b) \in X
  <2>1. ASSUME NEW b \in D PROVE Step(b) \in X
    <3>1. Forwards(g, v, b) \subseteq D
      BY ForwardsStay
    <3>2. FallsThrough(g, v, b) => g.next[b] \in D
      BY DEF FallsThrough, LinksOK, NextOK
    <3>. QED  BY <3>1, <3>2
  <2>. QED  BY <2>1
<1>. HIDE DEF Step
<1>2. e \in X /\ G \in [X -> X]
  BY <1>1 DEF EntryOK
<1>3. PICK p \in [Nat -> X] : p[0] = e /\ \A n \in Nat : n # 0 => p[n] = G[p[n - 1]]
  <2>. HIDE DEF X, e, G
  <2>. QED  BY <1>2, Iterates
<1>4. \A n \in Nat : n # 0 => p[n] = Up(p[n - 1])
  <2>1. ASSUME NEW n \in Nat, n # 0 PROVE G[p[n - 1]] = Up(p[n - 1])
    <3>1. n - 1 \in Nat
      BY <2>1
    <3>2. p[n - 1] \in X
      BY <1>3, <3>1
    <3>. QED  BY <3>2
  <2>. HIDE DEF Up, G
  <2>. QED  BY <1>3, <2>1
<1>5. Is(p)
  <2>. HIDE DEF Up, G
  <2>. QED  BY <1>3, <1>4
<1>6. Is(grow)
  <2>. HIDE DEF Is
  <2>. QED  BY <1>5
<1>7. Reached(g, v) = grow[Cardinality(D)]
  BY DEF Reached, grow, Step
<1>. HIDE DEF grow
<1>8. grow = p
  <2>. DEFINE Same == {n \in Nat : grow[n] = p[n]}
  <2>1. \A n \in Nat : grow[n] = IF n = 0 THEN e ELSE Up(grow[n - 1])
    <3>. HIDE DEF Up, e
    <3>. QED  BY <1>6, Zenon
  <2>2. 0 \in Same
    BY <1>3, <2>1, Zenon
  <2>3. ASSUME NEW n \in Nat, n \in Same PROVE n + 1 \in Same
    <3>. HIDE DEF Up
    <3>1. n + 1 \in Nat /\ n + 1 # 0 /\ (n + 1) - 1 = n
      OBVIOUS
    <3>2. grow[n + 1] = Up(grow[n]) /\ p[n + 1] = Up(p[n])
      BY <1>4, <2>1, <3>1
    <3>. QED  BY <2>3, <3>1, <3>2
  <2>4. Nat \subseteq Same
    <3>. HIDE DEF Same
    <3>. QED  BY <2>2, <2>3, Induction
  <2>5. \A n \in Nat : grow[n] = p[n]
    BY <2>4
  <2>6. grow = [n \in Nat |-> grow[n]]
    <3>. HIDE DEF Up, e
    <3>. QED  BY <1>6
  <2>. QED  BY <1>3, <2>5, <2>6
<1>9. Rounds(g, v, p)
  BY <1>3, <1>4 DEF Rounds, Further, Step
<1>. QED  BY <1>7, <1>8, <1>9

\* The entry is reached.
LEMMA EntryReached ==
  ASSUME NEW g, GraphTypeOK(g), LinksOK(g), EntryOK(g), NEW v
  PROVE  g.entryBlock \in Reached(g, v)
<1>1. PICK p : Rounds(g, v, p) /\ Reached(g, v) = p[Cardinality(Block(g))]
  BY ReachedRounds
<1>. DEFINE Good == {n \in Nat : g.entryBlock \in p[n]}
<1>2. 0 \in Good
  BY <1>1 DEF Rounds
<1>3. ASSUME NEW n \in Nat, n \in Good PROVE n + 1 \in Good
  <2>1. n + 1 \in Nat /\ n + 1 # 0 /\ (n + 1) - 1 = n
    OBVIOUS
  <2>2. p[n + 1] = UNION {Further(g, v, b) : b \in p[n]}
    BY <1>1, <2>1 DEF Rounds
  <2>. QED  BY <1>3, <2>1, <2>2 DEF Further
<1>4. Nat \subseteq Good
  <2>. HIDE DEF Good
  <2>. QED  BY <1>2, <1>3, Induction
<1>. QED  BY <1>1, <1>4, BlocksFinite

\* The liveness analysis changes nothing of the graph.
LEMMA AnalyseLivenessStep ==
  ASSUME GraphInv, AnalyseLiveness, f'.status = "ok"
  PROVE  GraphInv' /\ EliminatingInv' /\ pc = "eliminate" /\ pc' = "analyse"
<1>1. f' = Check(f, Returns(f) # {}) /\ pc = "eliminate" /\ pc' = "analyse"
  BY DEF AnalyseLiveness
<1>2. GraphTypeOK(f) /\ LinksOK(f) /\ EntryOK(f)
  BY <1>1 DEF GraphInv
<1>3. CheckedSame(f, f')
  <2>. DEFINE some == Returns(f) # {}
  <2>. HIDE DEF some
  <2>1. CheckedSame(f, Check(f, some))
    BY <1>2, CheckKeeps
  <2>. QED  BY <1>1, <2>1 DEF some
<1>. QED  BY <1>1, <1>3, EliminateAtRest DEF GraphInv, CheckedSame

\* The stack analysis decides what it will.
LEMMA AnalyseStackStep ==
  ASSUME GraphInv, AnalyseStack
  PROVE  GraphInv' /\ EliminatingInv' /\ pc = "analyse" /\ pc' = "collect"
<1>1. f' = f /\ pc = "analyse" /\ pc' = "collect" /\ reached' = Reached(f, verdict')
  BY DEF AnalyseStack
<1>2. GraphTypeOK(f) /\ LinksOK(f) /\ EntryOK(f)
  BY <1>1 DEF GraphInv
<1>3. f.entryBlock \in reached'
  BY <1>1, <1>2, EntryReached
<1>. QED  BY <1>1, <1>2, <1>3 DEF GraphInv, EliminatingInv

\* The passes visit instructions of the function along with their blocks.
LEMMA VisitedFacts ==
  ASSUME NEW g, GraphTypeOK(g)
  PROVE  /\ Visited(g) \in Seq(Nat \X Nat)
         /\ \A p \in ToSet(Visited(g)) : p[2] \in Block(g) /\ p[1] \in Instrs(g)
<1>. DEFINE T == {p \in Nat \X Nat : p[2] \in Block(g) /\ p[1] \in Instrs(g)}
            m == Len(g.blocks)
            of(n) == LET b == g.blocks[n]
                     IN  IF b \in reached THEN [k \in DOMAIN g.instrs[b] |-> <<g.instrs[b][k], b>>] ELSE <<>>
            ss == [n \in DOMAIN g.blocks |-> of(n)]
<1>1. m \in Nat /\ DOMAIN g.blocks = 1 .. m /\ \A n \in 1 .. m : g.blocks[n] \in Block(g)
  BY DEF GraphTypeOK, Block, ToSet
<1>2. ASSUME NEW n \in 1 .. m PROVE of(n) \in Seq(T)
  <2>. DEFINE b == g.blocks[n]
              w == g.instrs[b]
  <2>1. b \in Block(g) /\ b \in Blocks(g) /\ b \in Nat /\ w \in Seq(Nat)
    BY <1>1, TypeFacts
  <2>2. ToSet(w) \subseteq Instrs(g) /\ Instrs(g) \subseteq Nat
    BY <2>1, TypeFacts, Zenon DEF GraphTypeOK
  <2>. HIDE DEF b, w
  <2>3. DOMAIN w = 1 .. Len(w) /\ Len(w) \in Nat /\ \A k \in DOMAIN w : w[k] \in Instrs(g)
    BY <2>1, <2>2 DEF ToSet
  <2>4. \A k \in DOMAIN w : <<w[k], b>> \in T
    BY <2>1, <2>2, <2>3
  <2>5. [k \in DOMAIN w |-> <<w[k], b>>] \in Seq(T)
    <3>. HIDE DEF T
    <3>. QED  BY <2>3, <2>4
  <2>6. <<>> \in Seq(T)
    OBVIOUS
  <2>. QED  BY <2>5, <2>6 DEF b, w
<1>3. ss \in Seq(Seq(T))
  <2>. HIDE DEF T, of
  <2>. QED  BY <1>1, <1>2
<1>4. Visited(g) = FlattenSeq(ss)
  BY DEF Visited
<1>5. Visited(g) \in Seq(T)
  <2>. HIDE DEF T, ss
  <2>. QED  BY <1>3, <1>4, FlattenType
<1>6. ToSet(Visited(g)) \subseteq T
  <2>. HIDE DEF T
  <2>. QED  BY <1>5 DEF ToSet
<1>7. Visited(g) \in Seq(Nat \X Nat)
  <2>. DEFINE P == Nat \X Nat
  <2>1. T \subseteq P
    OBVIOUS
  <2>. HIDE DEF P, T
  <2>2. Visited(g) \in Seq(P)
    BY <1>5, <2>1
  <2>. QED  BY <2>2 DEF P
<1>. QED  BY <1>6, <1>7

\* What is dead is collected before anything is removed.
LEMMA CollectStep ==
  ASSUME GraphInv, EliminatingInv, Collect
  PROVE  GraphInv' /\ EliminatingInv' /\ pc = "collect" /\ pc' = "eliminating"
<1>1. f' = f /\ pc = "collect" /\ pc' = "eliminating"
      /\ instructionsToDelete' = DeadInstructions(f, verdict)
      /\ condBranchesToConvert' = SureBranches(f, verdict)
      /\ blocksToDelete' = DeadBlocks(f)
  BY DEF Collect
<1>2. GraphTypeOK(f) /\ LinksOK(f) /\ EntryOK(f) /\ f.entryBlock \in reached
  BY <1>1 DEF GraphInv, EliminatingInv
<1>. DEFINE P == Nat \X Nat
            V == Visited(f)
<1>3. V \in Seq(P) /\ \A p \in ToSet(V) : p[2] \in Block(f) /\ p[1] \in Instrs(f)
  BY <1>2, VisitedFacts
<1>4. DeadInstructions(f, verdict) \in Seq(P) /\ ToSet(DeadInstructions(f, verdict)) \subseteq ToSet(V)
  <2>. DEFINE S == {p \in ToSet(V) : ~HasDynInfo(f, verdict, p[2], p[1]) \/ Will(f, verdict, p[1]) = "False"}
  <2>1. DeadInstructions(f, verdict) = Only(V, S)
    BY DEF DeadInstructions
  <2>. HIDE DEF S, V, P
  <2>. QED  BY <1>3, <2>1, OnlyType, OnlySet
<1>5. /\ SureBranches(f, verdict) \in Seq(P) /\ ToSet(SureBranches(f, verdict)) \subseteq ToSet(V)
      /\ \A p \in ToSet(SureBranches(f, verdict)) : f.op[p[1]].kind \in Branches
  <2>. DEFINE S == {p \in ToSet(V) : /\ HasDynInfo(f, verdict, p[2], p[1])
                                     /\ f.op[p[1]].kind \in Conditional /\ verdict[p[1]] = "True"}
  <2>1. SureBranches(f, verdict) = Only(V, S)
    BY DEF SureBranches
  <2>2. \A p \in S : f.op[p[1]].kind \in Branches
    BY DEF Conditional, Branches
  <2>. HIDE DEF S, V, P
  <2>3. Only(V, S) \in Seq(P) /\ ToSet(Only(V, S)) = ToSet(V) \cap S
    BY <1>3, OnlyType, OnlySet
  <2>. QED  BY <2>1, <2>2, <2>3
<1>6. /\ DeadBlocks(f) \in Seq(Nat) /\ IsInjective(DeadBlocks(f))
      /\ ToSet(DeadBlocks(f)) = Block(f) \ reached
  <2>1. f.blocks \in Seq(Nat) /\ IsInjective(f.blocks)
    BY <1>2 DEF GraphTypeOK
  <2>2. /\ Without(f.blocks, reached) \in Seq(Nat) /\ IsInjective(Without(f.blocks, reached))
        /\ ToSet(Without(f.blocks, reached)) = ToSet(f.blocks) \ reached
    BY <2>1, WithoutFacts
  <2>. QED  BY <2>2 DEF DeadBlocks, Block
<1>. HIDE DEF V
<1>. QED  BY <1>1, <1>2, <1>3, <1>4, <1>5, <1>6 DEF GraphInv, EliminatingInv

\* A dead instruction is removed.
LEMMA DeleteInstructionStep ==
  ASSUME GraphInv, EliminatingInv, DeleteInstruction, f'.status = "ok"
  PROVE  GraphInv' /\ EliminatingInv' /\ pc = "eliminating" /\ pc' = "eliminating"
<1>. DEFINE P == Nat \X Nat
            todo == instructionsToDelete
            p == Head(todo)
            b == p[2]
            i == p[1]
<1>1. /\ pc = "eliminating" /\ pc' = pc /\ todo # <<>>
      /\ f' = RemoveInstruction(f, b, i) /\ instructionsToDelete' = Tail(todo)
      /\ condBranchesToConvert' = condBranchesToConvert /\ blocksToDelete' = blocksToDelete
  BY DEF DeleteInstruction
<1>2. GraphTypeOK(f) /\ LinksOK(f) /\ EntryOK(f)
  BY <1>1 DEF GraphInv
<1>3. /\ todo \in Seq(P) /\ \A q \in ToSet(todo) : q[2] \in Block(f)
      /\ condBranchesToConvert \in Seq(P)
      /\ \A q \in ToSet(condBranchesToConvert) :
           q[2] \in Block(f) /\ q[1] \in Instrs(f) /\ f.op[q[1]].kind \in Branches
      /\ blocksToDelete \in Seq(Nat) /\ IsInjective(blocksToDelete)
      /\ ToSet(blocksToDelete) \subseteq Block(f) /\ f.entryBlock \notin ToSet(blocksToDelete)
  BY <1>1 DEF EliminatingInv
<1>4. p \in ToSet(todo) /\ Tail(todo) \in Seq(P) /\ ToSet(todo) = {p} \cup ToSet(Tail(todo))
  <2>. HIDE DEF P
  <2>. QED  BY <1>1, <1>3, HeadTail, Zenon
<1>5. b \in Block(f)
  BY <1>3, <1>4
<1>. HIDE DEF b, i, p, P
<1>6. Removes(f, f', b, i)
  BY <1>1, <1>2, <1>5, RemoveInstructionFacts
<1>7. Removed(f, f', b, i)
  BY <1>2, <1>5, <1>6, RemoveKeeps
<1>8. f'.op = f.op /\ f'.entryBlock = f.entryBlock /\ Block(f') = Block(f) /\ Instrs(f') = Instrs(f)
  BY <1>6, <1>7 DEF Removes, Removed, Instrs
<1>9. GraphInv'
  BY <1>2, <1>7, <1>8 DEF GraphInv, Removed, EntryOK
<1>. QED  BY <1>1, <1>3, <1>4, <1>8, <1>9 DEF EliminatingInv, P

\* A conditional branch becomes a jump, and the chain ends there.
LEMMA MakeJumpLinks ==
  ASSUME NEW g, GraphTypeOK(g), LinksOK(g), NEW b \in Block(g), NEW i \in Instrs(g),
         g.op[i].kind \in Branches
  PROVE  LET h == MakeJump(g, i, b)
         IN  /\ GraphTypeOK(h) /\ LinksOK(h) /\ Block(h) = Block(g) /\ h.entryBlock = g.entryBlock
             /\ Len(h.op) = Len(g.op) /\ h.op[i].kind = "jmp"
             /\ \A j \in Instrs(g) : j # i => h.op[j] = g.op[j]
<1>. DEFINE h == MakeJump(g, i, b)
            n == g.next[b]
            o == [g.op[i] EXCEPT !.kind = "jmp"]
<1>1. /\ DOMAIN g = Fields /\ g.op \in Seq(OpType) /\ g.next \in Seq(Nat) /\ g.prev \in Seq(Nat)
      /\ Len(g.next) = Len(g.instrs) /\ Len(g.prev) = Len(g.instrs)
  BY DEF GraphTypeOK
<1>2. i \in 1 .. Len(g.op) /\ o \in OpType /\ o.kind = "jmp"
  <2>1. g.op[i] \in OpType
    BY TypeFacts
  <2>2. "jmp" \in Kinds
    BY DEF Kinds, Branches
  <2>. QED  BY <2>1, <2>2 DEF OpType, Instrs
<1>3. b \in 1 .. Len(g.instrs) /\ (n # None => n \in Block(g) /\ n \in 1 .. Len(g.instrs))
  BY TypeFacts DEF LinksOK, NextOK, Blocks
<1>. HIDE DEF o
<1>4. /\ DOMAIN h = Fields
      /\ h.blocks = g.blocks /\ h.entryBlock = g.entryBlock /\ h.status = g.status
      /\ h.instrs = g.instrs /\ h.edge = g.edge /\ h.incoming = g.incoming /\ h.outgoing = g.outgoing
      /\ h.op = [g.op EXCEPT ![i] = o]
      /\ n = None => h.next = g.next /\ h.prev = g.prev
      /\ n # None => h.next = [g.next EXCEPT ![b] = None] /\ h.prev = [g.prev EXCEPT ![n] = None]
  BY <1>1, <1>2 DEF MakeJump, Fields, o
<1>. HIDE DEF h
<1>5. /\ h.op \in Seq(OpType) /\ Len(h.op) = Len(g.op) /\ h.op[i] = o
      /\ \A j \in 1 .. Len(g.op) : j # i => h.op[j] = g.op[j]
  BY <1>1, <1>2, <1>4, ExceptFacts
<1>6. /\ h.next \in Seq(Nat) /\ Len(h.next) = Len(g.next)
      /\ h.prev \in Seq(Nat) /\ Len(h.prev) = Len(g.prev)
  <2>1. CASE n = None
    BY <1>1, <1>4, <2>1
  <2>2. CASE n # None
    <3>1. b \in 1 .. Len(g.next) /\ n \in 1 .. Len(g.prev) /\ None \in Nat
      BY <1>1, <1>3, <2>2 DEF None
    <3>2. h.next \in Seq(Nat) /\ Len(h.next) = Len(g.next)
      <4>1. g.next \in Seq(Nat) /\ h.next = [g.next EXCEPT ![b] = None]
        BY <1>1, <1>4, <2>2
      <4>. QED  BY <3>1, <4>1, ExceptSeq
    <3>3. h.prev \in Seq(Nat) /\ Len(h.prev) = Len(g.prev)
      <4>1. g.prev \in Seq(Nat) /\ h.prev = [g.prev EXCEPT ![n] = None]
        BY <1>1, <1>4, <2>2
      <4>. QED  BY <3>1, <4>1, ExceptSeq
    <3>. QED  BY <3>2, <3>3
  <2>. QED  BY <2>1, <2>2
<1>7. \A j \in Instrs(g) : IsBranch(h, j) <=> IsBranch(g, j)
  BY <1>2, <1>5 DEF IsBranch, Instrs, Branches
<1>8. Relinks(g, h)
  BY <1>4, <1>5, <1>6, <1>7 DEF Relinks
<1>9. GraphTypeOK(h) /\ LinksOK(h) /\ Block(h) = Block(g)
  <2>1. CASE n = None
    <3>1. GraphTypeOK(h) /\ Block(h) = Block(g) /\ (LinksOK(g) /\ NextOK(h) /\ PrevOK(h) => LinksOK(h))
      BY <1>8, RelinkFacts
    <3>2. NextOK(h) /\ PrevOK(h)
      BY <1>4, <2>1, <3>1 DEF LinksOK, NextOK, PrevOK
    <3>. QED  BY <3>1, <3>2
  <2>2. CASE n # None
    BY <1>4, <1>8, <2>2, UnlinkLinks
  <2>. QED  BY <2>1, <2>2
<1>. QED  BY <1>2, <1>4, <1>5, <1>9 DEF h, Instrs

\* A branch always taken becomes a jump.
LEMMA ConvertBranchStep ==
  ASSUME GraphInv, EliminatingInv, ConvertBranch
  PROVE  GraphInv' /\ EliminatingInv' /\ pc = "eliminating" /\ pc' = "eliminating"
<1>. DEFINE P == Nat \X Nat
            todo == condBranchesToConvert
            p == Head(todo)
            b == p[2]
            i == p[1]
<1>1. /\ pc = "eliminating" /\ pc' = pc /\ todo # <<>> /\ instructionsToDelete = <<>>
      /\ f' = MakeJump(f, i, b) /\ condBranchesToConvert' = Tail(todo)
      /\ instructionsToDelete' = instructionsToDelete /\ blocksToDelete' = blocksToDelete
  BY DEF ConvertBranch
<1>2. GraphTypeOK(f) /\ LinksOK(f) /\ EntryOK(f)
  BY <1>1 DEF GraphInv
<1>3. /\ todo \in Seq(P)
      /\ \A q \in ToSet(todo) : q[2] \in Block(f) /\ q[1] \in Instrs(f) /\ f.op[q[1]].kind \in Branches
      /\ instructionsToDelete \in Seq(P) /\ \A q \in ToSet(instructionsToDelete) : q[2] \in Block(f)
      /\ blocksToDelete \in Seq(Nat) /\ IsInjective(blocksToDelete)
      /\ ToSet(blocksToDelete) \subseteq Block(f) /\ f.entryBlock \notin ToSet(blocksToDelete)
  BY <1>1, Zenon DEF EliminatingInv
<1>4. p \in ToSet(todo) /\ Tail(todo) \in Seq(P) /\ ToSet(todo) = {p} \cup ToSet(Tail(todo))
  <2>. HIDE DEF P
  <2>. QED  BY <1>1, <1>3, HeadTail, Zenon
<1>5. b \in Block(f) /\ i \in Instrs(f) /\ f.op[i].kind \in Branches
  BY <1>3, <1>4, Zenon
<1>. HIDE DEF b, i, p, P
<1>6. /\ GraphTypeOK(f') /\ LinksOK(f') /\ Block(f') = Block(f) /\ f'.entryBlock = f.entryBlock
      /\ Len(f'.op) = Len(f.op) /\ f'.op[i].kind = "jmp"
      /\ \A j \in Instrs(f) : j # i => f'.op[j] = f.op[j]
  BY <1>1, <1>2, <1>5, MakeJumpLinks
<1>7. Instrs(f') = Instrs(f) /\ \A j \in Instrs(f) : f.op[j].kind \in Branches => f'.op[j].kind \in Branches
  BY <1>6 DEF Instrs, Branches
<1>8. GraphInv'
  BY <1>2, <1>6 DEF GraphInv, EntryOK
<1>. QED  BY <1>1, <1>3, <1>4, <1>6, <1>7, <1>8, Zenon DEF EliminatingInv, P

\* removeBlock(): its edges go, its neighbours are linked.
RemovesBlock(g, h, b) ==
  LET p    == g.prev[b]
      n    == g.next[b]
      ends == {i \in DOMAIN g.edge : g.edge[i].src = b \/ g.edge[i].dst = b}
  IN  /\ DOMAIN h = Fields /\ h.op = g.op /\ h.status = g.status
      /\ h.blocks = Without(g.blocks, {b}) /\ h.entryBlock = g.entryBlock
      /\ h.instrs = [g.instrs EXCEPT ![b] = <<>>]
      /\ h.edge = [i \in 1 .. Len(g.edge) |-> IF i \in ends THEN NoEdge ELSE g.edge[i]]
      /\ h.outgoing = [c \in 1 .. Len(g.outgoing) |-> Without(g.outgoing[c], ends)]
      /\ h.incoming = [c \in 1 .. Len(g.incoming) |-> g.incoming[c] \ ends]
      /\ h.next = IF p = None THEN g.next ELSE [g.next EXCEPT ![p] = n]
      /\ h.prev = IF n = None THEN g.prev ELSE [g.prev EXCEPT ![n] = p]

\* A block is removed with edges and chains.
LEMMA RemoveBlockFacts ==
  ASSUME NEW g, GraphTypeOK(g), NEW b \in Block(g), b # g.entryBlock
  PROVE  RemovesBlock(g, RemoveBlock(g, b), b)
<1>. DEFINE p == g.prev[b]
            n == g.next[b]
            ends == {i \in DOMAIN g.edge : g.edge[i].src = b \/ g.edge[i].dst = b}
            e == [i \in 1 .. Len(g.edge) |-> IF i \in ends THEN NoEdge ELSE g.edge[i]]
            out == [c \in 1 .. Len(g.outgoing) |-> Without(g.outgoing[c], ends)]
            inc == [c \in 1 .. Len(g.incoming) |-> g.incoming[c] \ ends]
            r == RemoveEdges(g, b)
            u == Unlink(r, b)
            h == RemoveBlock(g, b)
<1>1. DOMAIN g = Fields
  BY DEF GraphTypeOK
<1>2. r = [g EXCEPT !.edge = e, !.outgoing = out, !.incoming = inc, !.instrs[b] = <<>>]
  BY DEF RemoveEdges
<1>. HIDE DEF e, out, inc, r
<1>3. /\ DOMAIN r = Fields /\ r.op = g.op /\ r.status = g.status /\ r.blocks = g.blocks
      /\ r.entryBlock = g.entryBlock /\ r.next = g.next /\ r.prev = g.prev
      /\ r.instrs = [g.instrs EXCEPT ![b] = <<>>] /\ r.edge = e /\ r.outgoing = out /\ r.incoming = inc
  BY <1>1, <1>2 DEF Fields
<1>4. /\ DOMAIN u = Fields /\ u.op = r.op /\ u.status = r.status /\ u.blocks = r.blocks
      /\ u.entryBlock = r.entryBlock
      /\ u.instrs = r.instrs /\ u.edge = r.edge /\ u.outgoing = r.outgoing /\ u.incoming = r.incoming
      /\ u.next = IF p = None THEN g.next ELSE [g.next EXCEPT ![p] = n]
      /\ u.prev = IF n = None THEN g.prev ELSE [g.prev EXCEPT ![n] = p]
  BY <1>3 DEF Unlink, Fields
<1>5. h = [u EXCEPT !.entryBlock = IF u.entryBlock = b THEN None ELSE u.entryBlock,
                    !.blocks = Without(u.blocks, {b})]
  BY DEF RemoveBlock, r
<1>. HIDE DEF u, h
<1>6. /\ DOMAIN h = Fields /\ h.op = g.op /\ h.status = g.status
      /\ h.blocks = Without(g.blocks, {b}) /\ h.entryBlock = g.entryBlock
      /\ h.instrs = [g.instrs EXCEPT ![b] = <<>>] /\ h.edge = e /\ h.outgoing = out /\ h.incoming = inc
      /\ h.next = IF p = None THEN g.next ELSE [g.next EXCEPT ![p] = n]
      /\ h.prev = IF n = None THEN g.prev ELSE [g.prev EXCEPT ![n] = p]
  BY <1>3, <1>4, <1>5 DEF Fields
<1>. QED  BY <1>6 DEF RemovesBlock, h, e, out, inc

\* Removing a block keeps the types ...
LEMMA RemoveBlockType ==
  ASSUME NEW g, GraphTypeOK(g), NextOK(g), PrevOK(g), NEW b \in Block(g), NEW h, RemovesBlock(g, h, b)
  PROVE  /\ GraphTypeOK(h) /\ Block(h) = Block(g) \ {b} /\ Instrs(h) = Instrs(g)
         /\ Len(h.instrs) = Len(g.instrs)
<1>. DEFINE p    == g.prev[b]
            n    == g.next[b]
            ends == {i \in DOMAIN g.edge : g.edge[i].src = b \/ g.edge[i].dst = b}
            m    == Len(g.instrs)
<1>1. /\ m \in Nat /\ b \in 1 .. m /\ g.instrs \in Seq(Seq(Nat)) /\ g.blocks \in Seq(Nat)
      /\ g.next \in Seq(Nat) /\ g.prev \in Seq(Nat) /\ Len(g.next) = m /\ Len(g.prev) = m
      /\ g.incoming \in Seq(SUBSET Nat) /\ Len(g.incoming) = m
      /\ g.outgoing \in Seq(Seq(Nat)) /\ Len(g.outgoing) = m
      /\ g.op \in Seq(OpType) /\ g.edge \in Seq(EdgeType) /\ Len(g.edge) = Len(g.op)
      /\ Block(g) \subseteq 1 .. m /\ IsInjective(g.blocks)
      /\ g.entryBlock \in Nat /\ g.status \in Statuses
      /\ \A c \in 1 .. m : ToSet(g.instrs[c]) \subseteq Instrs(g)
      /\ p \in Nat /\ n \in Nat
  <2>1. m \in Nat /\ b \in 1 .. m /\ p \in Nat /\ n \in Nat /\ Block(g) \subseteq 1 .. m
    BY TypeFacts DEF Blocks
  <2>2. /\ g.instrs \in Seq(Seq(Nat)) /\ g.blocks \in Seq(Nat)
        /\ g.next \in Seq(Nat) /\ g.prev \in Seq(Nat) /\ Len(g.next) = m /\ Len(g.prev) = m
        /\ g.incoming \in Seq(SUBSET Nat) /\ Len(g.incoming) = m
        /\ g.outgoing \in Seq(Seq(Nat)) /\ Len(g.outgoing) = m
    BY DEF GraphTypeOK
  <2>3. /\ g.op \in Seq(OpType) /\ g.edge \in Seq(EdgeType) /\ Len(g.edge) = Len(g.op)
        /\ IsInjective(g.blocks)
        /\ g.entryBlock \in Nat /\ g.status \in Statuses
        /\ \A c \in 1 .. m : ToSet(g.instrs[c]) \subseteq Instrs(g)
    BY DEF GraphTypeOK, Blocks
  <2>. QED  BY <2>1, <2>2, <2>3, Zenon
<1>2. h.blocks \in Seq(Nat) /\ IsInjective(h.blocks) /\ ToSet(h.blocks) = ToSet(g.blocks) \ {b}
  <2>1. g.blocks \in Seq(Nat) /\ IsInjective(g.blocks)
    BY <1>1
  <2>2. h.blocks = Without(g.blocks, {b})
    BY DEF RemovesBlock
  <2>. QED  BY <2>1, <2>2, WithoutFacts
<1>3. h.instrs \in Seq(Seq(Nat)) /\ Len(h.instrs) = m
      /\ \A c \in 1 .. m : h.instrs[c] = IF c = b THEN <<>> ELSE g.instrs[c]
  <2>1. <<>> \in Seq(Nat) /\ h.instrs = [g.instrs EXCEPT ![b] = <<>>]
    BY DEF RemovesBlock
  <2>. DEFINE T == Seq(Nat)
  <2>. HIDE DEF T
  <2>2. g.instrs \in Seq(T) /\ <<>> \in T /\ b \in 1 .. Len(g.instrs)
    BY <1>1, <2>1 DEF T
  <2>3. h.instrs \in Seq(T) /\ Len(h.instrs) = m
        /\ \A c \in 1 .. m : h.instrs[c] = IF c = b THEN <<>> ELSE g.instrs[c]
    BY <2>1, <2>2, ExceptSeq
  <2>. QED  BY <2>3 DEF T
<1>4. h.edge \in Seq(EdgeType) /\ Len(h.edge) = Len(g.edge)
  <2>. DEFINE z == Len(g.edge)
  <2>1. NoEdge \in EdgeType
    BY DEF NoEdge, EdgeType, None
  <2>2. h.edge = [i \in 1 .. z |-> IF i \in ends THEN NoEdge ELSE g.edge[i]]
    BY DEF RemovesBlock
  <2>3. z \in Nat /\ \A i \in 1 .. z : g.edge[i] \in EdgeType
    <3>1. g.edge \in Seq(EdgeType)
      BY <1>1
    <3>. QED  BY <3>1
  <2>. HIDE DEF ends, z
  <2>4. \A i \in 1 .. z : h.edge[i] \in EdgeType
    BY <2>1, <2>2, <2>3
  <2>5. h.edge = [i \in 1 .. z |-> h.edge[i]]
    BY <2>2
  <2>6. h.edge \in Seq(EdgeType) /\ Len(h.edge) = z
    BY <2>3, <2>4, <2>5, VectorFacts
  <2>. QED  BY <2>6 DEF z
<1>5. h.outgoing \in Seq(Seq(Nat)) /\ Len(h.outgoing) = m
  <2>1. h.outgoing = [c \in 1 .. m |-> Without(g.outgoing[c], ends)]
    BY <1>1 DEF RemovesBlock
  <2>. DEFINE T == Seq(Nat)
  <2>. HIDE DEF ends
  <2>2. m \in Nat /\ \A c \in 1 .. m : g.outgoing[c] \in Seq(Nat)
    BY <1>1
  <2>3. \A c \in 1 .. m : Without(g.outgoing[c], ends) \in T
    BY <2>2, WithoutFacts
  <2>. HIDE DEF T, m
  <2>4. \A c \in 1 .. m : h.outgoing[c] \in T
    BY <2>1, <2>3
  <2>5. h.outgoing = [c \in 1 .. m |-> h.outgoing[c]]
    BY <2>1
  <2>6. h.outgoing \in Seq(T) /\ Len(h.outgoing) = m
    BY <2>2, <2>4, <2>5, VectorFacts
  <2>. QED  BY <2>6 DEF T
<1>6. h.incoming \in Seq(SUBSET Nat) /\ Len(h.incoming) = m
  <2>1. h.incoming = [c \in 1 .. m |-> g.incoming[c] \ ends]
    BY <1>1 DEF RemovesBlock
  <2>. DEFINE T == SUBSET Nat
  <2>. HIDE DEF ends
  <2>2. m \in Nat /\ \A c \in 1 .. m : g.incoming[c] \in T
    <3>. HIDE DEF T
    <3>1. g.incoming \in Seq(T) /\ Len(g.incoming) = m /\ m \in Nat
      BY <1>1 DEF T
    <3>. QED  BY <3>1
  <2>3. \A c \in 1 .. m : g.incoming[c] \ ends \in T
    BY <2>2
  <2>. HIDE DEF T, m
  <2>4. \A c \in 1 .. m : h.incoming[c] \in T
    BY <2>1, <2>3
  <2>5. h.incoming = [c \in 1 .. m |-> h.incoming[c]]
    BY <2>1
  <2>6. h.incoming \in Seq(T) /\ Len(h.incoming) = m
    BY <2>2, <2>4, <2>5, VectorFacts
  <2>. QED  BY <2>6 DEF T
<1>7. h.next \in Seq(Nat) /\ Len(h.next) = m
  <2>1. p # None => p \in 1 .. Len(g.next)
    BY <1>1, Zenon DEF PrevOK
  <2>2. n \in Nat
    BY <1>1
  <2>3. h.next = IF p = None THEN g.next ELSE [g.next EXCEPT ![p] = n]
    BY DEF RemovesBlock
  <2>4. CASE p = None
    BY <1>1, <2>3, <2>4
  <2>5. CASE p # None
    <3>. HIDE DEF p, n
    <3>1. h.next = [g.next EXCEPT ![p] = n] /\ p \in 1 .. Len(g.next)
      BY <2>1, <2>3, <2>5
    <3>2. g.next \in Seq(Nat) /\ Len(g.next) = m
      BY <1>1
    <3>. QED  BY <2>2, <3>1, <3>2, ExceptSeq
  <2>. QED  BY <2>4, <2>5
<1>8. h.prev \in Seq(Nat) /\ Len(h.prev) = m
  <2>1. n # None => n \in 1 .. Len(g.prev)
    BY <1>1, Zenon DEF NextOK
  <2>2. p \in Nat
    BY <1>1
  <2>3. h.prev = IF n = None THEN g.prev ELSE [g.prev EXCEPT ![n] = p]
    BY DEF RemovesBlock
  <2>4. CASE n = None
    BY <1>1, <2>3, <2>4
  <2>5. CASE n # None
    <3>. HIDE DEF p, n
    <3>1. h.prev = [g.prev EXCEPT ![n] = p] /\ n \in 1 .. Len(g.prev)
      BY <2>1, <2>3, <2>5
    <3>. QED  BY <1>1, <2>2, <3>1, ExceptSeq
  <2>. QED  BY <2>4, <2>5
<1>9. /\ DOMAIN h = Fields /\ h.op = g.op /\ h.status = g.status /\ h.entryBlock = g.entryBlock
  BY DEF RemovesBlock
<1>10. Block(h) = Block(g) \ {b} /\ Instrs(h) = Instrs(g)
  BY <1>2, <1>9 DEF Block, Instrs
<1>11. \A c \in Blocks(h) : ToSet(h.instrs[c]) \subseteq Instrs(h)
  BY <1>1, <1>3, <1>10, SetEmpty, Zenon DEF Blocks
<1>12. Block(h) \subseteq Blocks(h)
  BY <1>1, <1>3, <1>10 DEF Blocks
<1>13. GraphTypeOK(h)
  BY <1>1, <1>2, <1>3, <1>4, <1>5, <1>6, <1>7, <1>8, <1>9, <1>11, <1>12, Zenon DEF GraphTypeOK
<1>. QED  BY <1>3, <1>10, <1>13

\* ... and the links of the others.
LEMMA RemoveBlockLinks ==
  ASSUME NEW g, GraphTypeOK(g), LinksOK(g), NEW b \in Block(g), NEW h, RemovesBlock(g, h, b)
  PROVE  GraphTypeOK(h) /\ LinksOK(h) /\ Block(h) = Block(g) \ {b}
<1>. DEFINE p    == g.prev[b]
            n    == g.next[b]
            ends == {i \in DOMAIN g.edge : g.edge[i].src = b \/ g.edge[i].dst = b}
            L    == Linked(g)
<1>1. /\ GraphTypeOK(h) /\ Block(h) = Block(g) \ {b} /\ Instrs(h) = Instrs(g)
  BY RemoveBlockType DEF LinksOK
<1>2. \A c \in Block(g) : /\ c \in Blocks(g) /\ c \in Nat /\ c # None /\ g.instrs[c] \in Seq(Nat)
                          /\ ToSet(g.instrs[c]) \subseteq Instrs(g)
  BY TypeFacts, Zenon DEF GraphTypeOK
<1>3. DOMAIN g.edge = Instrs(g) /\ DOMAIN g.op = Instrs(g) /\ Linked(g) \subseteq Instrs(g)
      /\ Owned(g) \subseteq Instrs(g)
  BY TypeFacts
<1>4. \A c \in Block(h) : h.instrs[c] = g.instrs[c] /\ c \in Block(g) /\ c # b
  <2>1. h.instrs = [g.instrs EXCEPT ![b] = <<>>]
    BY DEF RemovesBlock
  <2>. QED  BY <1>1, <2>1
<1>5. \A c \in Block(h) : h.outgoing[c] = Without(g.outgoing[c], ends) /\ h.incoming[c] = g.incoming[c] \ ends
  <2>1. \A c \in Block(h) : c \in 1 .. Len(g.outgoing) /\ c \in 1 .. Len(g.incoming)
    BY <1>1, <1>2 DEF GraphTypeOK, Blocks
  <2>2. /\ h.outgoing = [c \in 1 .. Len(g.outgoing) |-> Without(g.outgoing[c], ends)]
        /\ h.incoming = [c \in 1 .. Len(g.incoming) |-> g.incoming[c] \ ends]
    BY DEF RemovesBlock
  <2>. HIDE DEF ends
  <2>. QED  BY <2>1, <2>2
<1>6. \A i \in Instrs(g) : h.edge[i] = IF i \in ends THEN NoEdge ELSE g.edge[i]
  <2>1. h.edge = [i \in 1 .. Len(g.edge) |-> IF i \in ends THEN NoEdge ELSE g.edge[i]]
    BY DEF RemovesBlock
  <2>2. Instrs(g) = 1 .. Len(g.edge)
    BY DEF Instrs, GraphTypeOK
  <2>. HIDE DEF ends
  <2>. QED  BY <2>1, <2>2
<1>7. h.op = g.op /\ \A i : IsBranch(h, i) <=> IsBranch(g, i)
  BY DEF RemovesBlock, IsBranch
<1>8. \A i \in Instrs(g) : i \in ends <=> g.edge[i].src = b \/ g.edge[i].dst = b
  BY <1>3
<1>. HIDE DEF ends
<1>9. Linked(h) = L \ ends
  <2>1. \A i \in Instrs(g) : HasEdge(h, i) <=> HasEdge(g, i) /\ i \notin ends
    BY <1>6 DEF HasEdge
  <2>. QED  BY <1>3, <1>7, <2>1 DEF Linked
<1>10. Owned(h) \subseteq Owned(g)
  BY <1>1, <1>4 DEF Owned
<1>11. \A i \in Owned(g) : i \notin Owned(h) => i \in ToSet(g.instrs[b])
  BY <1>1, <1>4 DEF Owned
<1>12. OutgoingOK(h)
  <2>. SUFFICES ASSUME NEW c \in Block(h) PROVE h.outgoing[c] = Only(h.instrs[c], Linked(h))
    BY DEF OutgoingOK
  <2>1. g.outgoing[c] = Only(g.instrs[c], L) /\ g.instrs[c] \in Seq(Nat)
    BY <1>2, <1>4 DEF LinksOK, OutgoingOK
  <2>. HIDE DEF L
  <2>2. Without(Only(g.instrs[c], L), ends) = Only(g.instrs[c], L \ ends)
    BY <2>1, WithoutOnly
  <2>. QED  BY <1>4, <1>5, <1>9, <2>1, <2>2
<1>13. SourcesOK(h)
  <2>. SUFFICES ASSUME NEW c \in Block(h), NEW i \in ToSet(h.instrs[c]), HasEdge(h, i)
                PROVE  h.edge[i].src = c
    BY DEF SourcesOK
  <2>1. i \in ToSet(g.instrs[c]) /\ i \in Instrs(g) /\ c \in Block(g)
    BY <1>2, <1>4
  <2>2. i \notin ends /\ h.edge[i] = g.edge[i]
    BY <1>6, <2>1 DEF HasEdge
  <2>3. HasEdge(g, i)
    BY <2>2 DEF HasEdge
  <2>. QED  BY <2>1, <2>2, <2>3 DEF LinksOK, SourcesOK
<1>14. TargetsOK(h)
  <2>. SUFFICES ASSUME NEW i \in Owned(h), i \in Linked(h) PROVE h.edge[i].dst \in Block(h)
    BY DEF TargetsOK
  <2>1. i \in Owned(g) /\ i \in L /\ i \notin ends /\ i \in Instrs(g)
    BY <1>3, <1>9, <1>10
  <2>2. g.edge[i].dst \in Block(g)
    BY <2>1 DEF LinksOK, TargetsOK
  <2>. QED  BY <1>1, <1>6, <1>8, <2>1, <2>2
<1>15. IncomingOK(h)
  <2>. SUFFICES ASSUME NEW c \in Block(h), NEW i \in Nat
                PROVE  i \in h.incoming[c] <=> i \in Owned(h) /\ IsBranch(h, i) /\ h.edge[i].dst = c
    BY DEF IncomingOK
  <2>1. c \in Block(g) /\ c # b /\ c # None /\ h.incoming[c] = g.incoming[c] \ ends
    BY <1>2, <1>4, <1>5
  <2>2. i \in g.incoming[c] <=> i \in Owned(g) /\ IsBranch(g, i) /\ g.edge[i].dst = c
    BY <2>1 DEF LinksOK, IncomingOK
  <2>3. ASSUME i \in Owned(g), g.edge[i].dst = c, i \notin ends PROVE i \in Owned(h)
    <3>1. CASE i \in ToSet(g.instrs[b])
      <4>1. HasEdge(g, i)
        BY <2>1, <2>3 DEF HasEdge, NoEdge
      <4>2. g.edge[i].src = b
        BY <3>1, <4>1 DEF LinksOK, SourcesOK
      <4>3. i \in Instrs(g)
        BY <1>3, <2>3
      <4>. QED  BY <1>8, <2>3, <4>2, <4>3
    <3>2. CASE i \notin ToSet(g.instrs[b])
      BY <1>11, <2>3, <3>2
    <3>. QED  BY <3>1, <3>2
  <2>4. ASSUME i \in Owned(h), h.edge[i].dst = c
        PROVE  i \in Owned(g) /\ i \notin ends /\ g.edge[i].dst = c
    <3>1. i \in Owned(g) /\ i \in Instrs(g)
      BY <1>3, <1>10, <2>4
    <3>2. i \notin ends
      BY <1>6, <2>1, <2>4, <3>1 DEF NoEdge
    <3>. QED  BY <1>6, <2>4, <3>1, <3>2
  <2>5. ASSUME i \in Owned(g), i \notin ends PROVE h.edge[i] = g.edge[i]
    BY <1>3, <1>6, <2>5
  <2>. QED  BY <1>7, <2>1, <2>2, <2>3, <2>4, <2>5
<1>16. /\ h.next = IF p = None THEN g.next ELSE [g.next EXCEPT ![p] = n]
       /\ h.prev = IF n = None THEN g.prev ELSE [g.prev EXCEPT ![n] = p]
  BY DEF RemovesBlock
<1>17. /\ \A c \in Block(g) : g.next[c] # None => g.next[c] \in Block(g) /\ g.prev[g.next[c]] = c
       /\ \A c \in Block(g) : g.prev[c] # None => g.prev[c] \in Block(g) /\ g.next[g.prev[c]] = c
  BY DEF LinksOK, NextOK, PrevOK
<1>18. /\ \A c \in Block(g) : h.next[c] = IF c = p THEN n ELSE g.next[c]
       /\ \A c \in Block(g) : h.prev[c] = IF c = n THEN p ELSE g.prev[c]
  <2>1. \A c \in Block(g) : c \in DOMAIN g.next /\ c \in DOMAIN g.prev /\ c # None
    <3>1. g.next \in Seq(Nat) /\ g.prev \in Seq(Nat) /\ Len(g.next) = Len(g.instrs) /\ Len(g.prev) = Len(g.instrs)
      BY DEF GraphTypeOK
    <3>2. DOMAIN g.next = Blocks(g) /\ DOMAIN g.prev = Blocks(g)
      BY <3>1 DEF Blocks
    <3>. QED  BY <1>2, <3>2
  <2>. HIDE DEF p, n
  <2>. QED  BY <1>16, <2>1
<1>19. NextOK(h)
  <2>. SUFFICES ASSUME NEW c \in Block(h), h.next[c] # None
                PROVE  h.next[c] \in Block(h) /\ h.prev[h.next[c]] = c
    BY DEF NextOK
  <2>1. c \in Block(g) /\ c # b
    BY <1>4
  <2>2. CASE c = p
    BY <1>1, <1>2, <1>17, <1>18, <2>1, <2>2
  <2>3. CASE c # p
    BY <1>1, <1>2, <1>17, <1>18, <2>1, <2>3
  <2>. QED  BY <2>2, <2>3
<1>20. PrevOK(h)
  <2>. SUFFICES ASSUME NEW c \in Block(h), h.prev[c] # None
                PROVE  h.prev[c] \in Block(h) /\ h.next[h.prev[c]] = c
    BY DEF PrevOK
  <2>1. c \in Block(g) /\ c # b
    BY <1>4
  <2>2. CASE c = n
    BY <1>1, <1>2, <1>17, <1>18, <2>1, <2>2
  <2>3. CASE c # n
    BY <1>1, <1>2, <1>17, <1>18, <2>1, <2>3
  <2>. QED  BY <2>2, <2>3
<1>21. OnceOK(h) /\ ApartOK(h)
  BY <1>4 DEF LinksOK, OnceOK, ApartOK
<1>. QED  BY <1>1, <1>12, <1>13, <1>14, <1>15, <1>19, <1>20, <1>21 DEF LinksOK

\* A dead block is removed.
LEMMA DeleteBlockStep ==
  ASSUME GraphInv, EliminatingInv, DeleteBlock
  PROVE  GraphInv' /\ EliminatingInv' /\ pc = "eliminating" /\ pc' = "eliminating"
<1>. DEFINE todo == blocksToDelete
            b == Head(todo)
<1>1. /\ pc = "eliminating" /\ pc' = pc /\ todo # <<>>
      /\ instructionsToDelete = <<>> /\ condBranchesToConvert = <<>>
      /\ f' = RemoveBlock(f, b) /\ blocksToDelete' = Tail(todo)
      /\ instructionsToDelete' = instructionsToDelete /\ condBranchesToConvert' = condBranchesToConvert
  BY DEF DeleteBlock
<1>2. GraphTypeOK(f) /\ LinksOK(f) /\ EntryOK(f)
  BY <1>1 DEF GraphInv
<1>3. /\ instructionsToDelete \in Seq(Nat \X Nat) /\ condBranchesToConvert \in Seq(Nat \X Nat)
      /\ todo \in Seq(Nat) /\ IsInjective(todo)
      /\ ToSet(todo) \subseteq Block(f) /\ f.entryBlock \notin ToSet(todo)
  BY <1>1 DEF EliminatingInv
<1>4. /\ b \in ToSet(todo) /\ Tail(todo) \in Seq(Nat) /\ ToSet(todo) = {b} \cup ToSet(Tail(todo))
      /\ IsInjective(Tail(todo)) /\ b \notin ToSet(Tail(todo))
  <2>. HIDE DEF b
  <2>. QED  BY <1>1, <1>3, HeadTail, Zenon DEF b
<1>5. b \in Block(f) /\ b # f.entryBlock
  BY <1>3, <1>4
<1>. HIDE DEF b
<1>6. RemovesBlock(f, f', b)
  BY <1>1, <1>2, <1>5, RemoveBlockFacts
<1>7. GraphTypeOK(f') /\ LinksOK(f') /\ Block(f') = Block(f) \ {b}
  BY <1>2, <1>5, <1>6, RemoveBlockLinks
<1>8. f'.entryBlock = f.entryBlock
  BY <1>6 DEF RemovesBlock
<1>9. GraphInv'
  BY <1>2, <1>5, <1>7, <1>8 DEF GraphInv, EntryOK
<1>10. ToSet(instructionsToDelete') = {} /\ ToSet(condBranchesToConvert') = {}
  BY <1>1, SetEmpty
<1>. QED  BY <1>1, <1>3, <1>4, <1>7, <1>8, <1>9, <1>10 DEF EliminatingInv

\* Dead code elimination keeps the function consistent.
LEMMA EliminateStep ==
  ASSUME GraphInv, EliminatingInv, Eliminate, f'.status = "ok"
  PROVE  /\ GraphInv' /\ EliminatingInv' /\ text' = text
         /\ pc \in {"eliminate", "analyse", "collect", "eliminating"}
         /\ pc' \in {"analyse", "collect", "eliminating", "layout"}
<1>1. text' = text
  BY DEF Eliminate, AnalyseLiveness, AnalyseStack, Collect, DeleteInstruction, ConvertBranch,
         DeleteBlock, DeadCodeEliminated
<1>2. CASE AnalyseLiveness
  BY <1>1, <1>2, AnalyseLivenessStep
<1>3. CASE AnalyseStack
  BY <1>1, <1>3, AnalyseStackStep
<1>4. CASE Collect
  BY <1>1, <1>4, CollectStep
<1>5. CASE DeleteInstruction
  BY <1>1, <1>5, DeleteInstructionStep
<1>6. CASE ConvertBranch
  BY <1>1, <1>6, ConvertBranchStep
<1>7. CASE DeleteBlock
  BY <1>1, <1>7, DeleteBlockStep
<1>8. CASE DeadCodeEliminated
  <2>1. pc = "eliminating" /\ pc' = "layout" /\ f' = f
    BY <1>8 DEF DeadCodeEliminated, Eliminated
  <2>2. EliminatingInv'
    BY <2>1, EliminateAtRest
  <2>. QED  BY <1>1, <2>1, <2>2 DEF GraphInv
<1>. QED  BY <1>2, <1>3, <1>4, <1>5, <1>6, <1>7, <1>8 DEF Eliminate

-----------------------------------------------------------------------------
\* A final jump to a block that follows no other gives way to the chain.
Chained(g, r, b, d) ==
  /\ GraphTypeOK(r) /\ LinksOK(r) /\ Block(r) = Block(g) /\ Relinks(g, r) /\ r.op = g.op
  /\ r.next = [g.next EXCEPT ![b] = d] /\ r.prev = [g.prev EXCEPT ![d] = b]
Chains(g, h, b) ==
  LET i == Last(g.instrs[b])
      d == g.edge[i].dst
  IN  /\ GraphTypeOK(h) /\ LinksOK(h) /\ Block(h) = Block(g) /\ h.entryBlock = g.entryBlock
      /\ i \in Linked(g) /\ d \in Block(g)
      /\ \E r : Chained(g, r, b, d) /\ Removes(r, h, b, i)

\* A block is chained to the one it jumps to.
LEMMA ChainLinks ==
  ASSUME NEW g, GraphTypeOK(g), LinksOK(g), NEW b \in Block(g), g.next[b] = None, g.instrs[b] # <<>>,
         ChainTarget(g, b) # None, Chain(g, b, ChainTarget(g, b)).status = "ok"
  PROVE  Chains(g, Chain(g, b, ChainTarget(g, b)), b)
<1>. DEFINE i == Last(g.instrs[b])
            d == g.edge[i].dst
            r == [g EXCEPT !.prev[d] = b, !.next[b] = d]
            h == RemoveInstruction(r, b, i)
<1>1. /\ g.op[i].kind \in Branches /\ HasEdge(g, i) /\ g.prev[d] = None /\ ChainTarget(g, b) = d
  BY DEF ChainTarget
<1>2. b \in Blocks(g) /\ b \in Nat /\ g.instrs[b] \in Seq(Nat)
  BY TypeFacts
<1>3. i \in ToSet(g.instrs[b]) /\ i \in Owned(g)
  <2>. DEFINE w == g.instrs[b]
  <2>1. w \in Seq(Nat) /\ w # <<>>
    BY <1>2
  <2>. HIDE DEF w
  <2>2. Last(w) \in ToSet(w)
    BY <2>1, FrontLast, Zenon
  <2>3. i \in ToSet(g.instrs[b])
    BY <2>2 DEF w
  <2>. HIDE DEF i
  <2>. QED  BY <2>3 DEF Owned
<1>. HIDE DEF i
<1>4. i \in Linked(g) /\ i \in Instrs(g)
  <2>1. i \in Instrs(g) /\ DOMAIN g.op = Instrs(g)
    BY <1>3, TypeFacts
  <2>. QED  BY <1>1, <2>1 DEF Linked, IsBranch
<1>5. d \in Block(g) /\ d \in Blocks(g) /\ d \in Nat
  <2>1. d \in Block(g)
    BY <1>3, <1>4 DEF LinksOK, TargetsOK
  <2>. HIDE DEF d
  <2>. QED  BY <2>1, TypeFacts
<1>. HIDE DEF d
<1>6. DOMAIN g = Fields /\ g.next \in Seq(Nat) /\ g.prev \in Seq(Nat) /\ g.op \in Seq(OpType)
      /\ b \in 1 .. Len(g.next) /\ d \in 1 .. Len(g.prev)
  BY <1>2, <1>5 DEF GraphTypeOK, Blocks
<1>7. /\ DOMAIN r = Fields
      /\ r.blocks = g.blocks /\ r.entryBlock = g.entryBlock /\ r.status = g.status
      /\ r.instrs = g.instrs /\ r.edge = g.edge /\ r.incoming = g.incoming /\ r.outgoing = g.outgoing
      /\ r.op = g.op /\ r.next = [g.next EXCEPT ![b] = d] /\ r.prev = [g.prev EXCEPT ![d] = b]
  BY <1>6 DEF Fields
<1>. HIDE DEF r
<1>8. r.next \in Seq(Nat) /\ Len(r.next) = Len(g.next)
  <2>1. g.next \in Seq(Nat) /\ b \in 1 .. Len(g.next) /\ d \in Nat /\ r.next = [g.next EXCEPT ![b] = d]
    BY <1>5, <1>6, <1>7
  <2>. QED  BY <2>1, ExceptSeq
<1>9. r.prev \in Seq(Nat) /\ Len(r.prev) = Len(g.prev)
  <2>1. g.prev \in Seq(Nat) /\ d \in 1 .. Len(g.prev) /\ b \in Nat /\ r.prev = [g.prev EXCEPT ![d] = b]
    BY <1>2, <1>6, <1>7
  <2>. QED  BY <2>1, ExceptSeq
<1>10. Relinks(g, r)
  BY <1>6, <1>7, <1>8, <1>9 DEF Relinks, IsBranch
<1>11. GraphTypeOK(r) /\ LinksOK(r) /\ Block(r) = Block(g)
  <2>1. /\ d \in Block(g) /\ g.next[b] = None /\ g.prev[d] = None /\ Relinks(g, r)
        /\ r.next = [g.next EXCEPT ![b] = d] /\ r.prev = [g.prev EXCEPT ![d] = b]
    BY <1>1, <1>5, <1>7, <1>10 DEF d
  <2>. QED  BY <2>1, LinkLinks
<1>12. Chain(g, b, ChainTarget(g, b)) = h
  BY <1>1 DEF Chain, i, r
<1>13. b \in Block(r) /\ h.status = "ok"
  BY <1>11, <1>12
<1>14. Removes(r, h, b, i)
  BY <1>11, <1>13, RemoveInstructionFacts
<1>15. Removed(r, h, b, i)
  BY <1>11, <1>13, <1>14, RemoveKeeps
<1>. HIDE DEF h
<1>16. Chained(g, r, b, d)
  BY <1>7, <1>10, <1>11 DEF Chained
<1>17. GraphTypeOK(h) /\ LinksOK(h) /\ Block(h) = Block(g) /\ h.entryBlock = g.entryBlock
  BY <1>7, <1>11, <1>14, <1>15 DEF Removed, Removes
<1>18. Chains(g, h, b)
  BY <1>4, <1>5, <1>14, <1>16, <1>17 DEF Chains, i, d
<1>. QED  BY <1>12, <1>18

\* A block goes from one list to the other.
LEMMA VisitNext ==
  ASSUME NEW s \in Seq(Nat), s # <<>>, IsInjective(s), NEW t \in Seq(Nat), IsInjective(t),
         ToSet(t) \cap ToSet(s) = {}
  PROVE  /\ Head(s) \in ToSet(s) /\ Tail(s) \in Seq(Nat) /\ IsInjective(Tail(s))
         /\ ToSet(Tail(s)) = ToSet(s) \ {Head(s)}
         /\ Append(t, Head(s)) \in Seq(Nat) /\ IsInjective(Append(t, Head(s)))
         /\ ToSet(Append(t, Head(s))) = ToSet(t) \cup {Head(s)}
<1>. DEFINE b == Head(s)
<1>1. /\ b \in Nat /\ b \in ToSet(s) /\ Tail(s) \in Seq(Nat) /\ ToSet(s) = {b} \cup ToSet(Tail(s))
      /\ IsInjective(Tail(s)) /\ b \notin ToSet(Tail(s))
  <2>. HIDE DEF b
  <2>. QED  BY HeadTail, Zenon DEF b
<1>. HIDE DEF b
<1>2. b \notin ToSet(t)
  BY <1>1
<1>3. Append(t, b) \in Seq(Nat) /\ IsInjective(Append(t, b)) /\ ToSet(Append(t, b)) = ToSet(t) \cup {b}
  BY <1>1, <1>2, InjectiveAppend, SetAppend
<1>. QED  BY <1>1, <1>3 DEF b

\* The layout pass begins with all blocks to visit.
LEMMA StartLayoutStep ==
  ASSUME GraphInv, LayoutInv, StartLayout
  PROVE  GraphInv' /\ LayoutInv' /\ pc = "layout" /\ pc' = "chain"
<1>1. f' = f /\ pc = "layout" /\ pc' = "chain" /\ toVisit' = f.blocks /\ blocksToMerge' = <<>>
  BY DEF StartLayout, LayoutInv
<1>2. f.blocks \in Seq(Nat) /\ IsInjective(f.blocks) /\ ToSet(f.blocks) = Block(f)
  BY DEF GraphInv, GraphTypeOK, Block
<1>3. <<>> \in Seq(Nat) /\ IsInjective(<<>>) /\ ToSet(<<>>) = {}
  BY SetEmpty DEF IsInjective
<1>. QED  BY <1>1, <1>2, <1>3 DEF LayoutInv, GraphInv

\* What the lists hold while the blocks are visited.
LEMMA VisitFacts ==
  ASSUME LayoutInv, pc = "chain", toVisit # <<>>
  PROVE  /\ Head(toVisit) \in Block(f) /\ Tail(toVisit) \in Seq(Nat) /\ IsInjective(Tail(toVisit))
         /\ ToSet(Tail(toVisit)) \subseteq Block(f)
         /\ \A t \in {blocksToMerge, Append(blocksToMerge, Head(toVisit))} :
              /\ t \in Seq(Nat) /\ IsInjective(t) /\ ToSet(t) \subseteq Block(f)
              /\ ToSet(t) \cap ToSet(Tail(toVisit)) = {}
<1>. DEFINE s == toVisit
            t == blocksToMerge
<1>1. /\ s \in Seq(Nat) /\ t \in Seq(Nat) /\ IsInjective(s) /\ IsInjective(t)
      /\ ToSet(t) \cap ToSet(s) = {} /\ ToSet(s) \subseteq Block(f) /\ ToSet(t) \subseteq Block(f)
      /\ s # <<>>
  BY DEF LayoutInv
<1>. HIDE DEF s, t
<1>2. /\ Head(s) \in ToSet(s) /\ Tail(s) \in Seq(Nat) /\ IsInjective(Tail(s))
      /\ ToSet(Tail(s)) = ToSet(s) \ {Head(s)}
      /\ Append(t, Head(s)) \in Seq(Nat) /\ IsInjective(Append(t, Head(s)))
      /\ ToSet(Append(t, Head(s))) = ToSet(t) \cup {Head(s)}
  BY <1>1, VisitNext
<1>. QED  BY <1>1, <1>2 DEF s, t

\* An empty block is collected to be merged.
LEMMA VisitEmptyStep ==
  ASSUME GraphInv, LayoutInv, VisitEmpty, f'.status = "ok"
  PROVE  GraphInv' /\ LayoutInv' /\ pc = "chain" /\ pc' = "chain"
<1>1. /\ pc = "chain" /\ pc' = pc /\ toVisit # <<>> /\ toVisit' = Tail(toVisit)
      /\ f' = Check(f, f.next[Head(toVisit)] # None)
      /\ blocksToMerge' = Append(blocksToMerge, Head(toVisit))
  BY DEF VisitEmpty
<1>2. CheckedSame(f, f')
  <2>. DEFINE goesOn == f.next[Head(toVisit)] # None
  <2>. HIDE DEF goesOn
  <2>1. CheckedSame(f, Check(f, goesOn))
    BY <1>1, CheckKeeps DEF GraphInv
  <2>. QED  BY <1>1, <2>1 DEF goesOn
<1>3. GraphInv' /\ Block(f') = Block(f)
  BY <1>2 DEF GraphInv, CheckedSame
<1>. QED  BY <1>1, <1>3, VisitFacts DEF LayoutInv

\* A block is chained, or collected to be merged.
LEMMA VisitBlockStep ==
  ASSUME GraphInv, LayoutInv, VisitBlock, f'.status = "ok"
  PROVE  GraphInv' /\ LayoutInv' /\ pc = "chain" /\ pc' = "chain"
<1>. DEFINE b == Head(toVisit)
            d == ChainTarget(f, b)
<1>1. /\ pc = "chain" /\ pc' = pc /\ toVisit # <<>> /\ toVisit' = Tail(toVisit)
      /\ f.instrs[b] # <<>>
      /\ f' = IF f.next[b] = None /\ d # None THEN Chain(f, b, d) ELSE f
      /\ blocksToMerge' \in {blocksToMerge, Append(blocksToMerge, b)}
  BY DEF VisitBlock
<1>2. b \in Block(f) /\ GraphTypeOK(f) /\ LinksOK(f) /\ EntryOK(f)
  BY <1>1, VisitFacts DEF GraphInv
<1>3. GraphInv' /\ Block(f') = Block(f)
  <2>. HIDE DEF b
  <2>1. CASE f.next[b] = None /\ d # None
    <3>1. Chains(f, Chain(f, b, d), b)
      BY <1>1, <1>2, <2>1, ChainLinks
    <3>. QED  BY <1>1, <1>2, <2>1, <3>1 DEF Chains, GraphInv, EntryOK
  <2>2. CASE ~(f.next[b] = None /\ d # None)
    BY <1>1, <1>2, <2>2 DEF GraphInv
  <2>. QED  BY <2>1, <2>2
<1>. QED  BY <1>1, <1>3, VisitFacts, Zenon DEF LayoutInv

\* A collected block is merged.
LEMMA MergeBlockStep ==
  ASSUME GraphInv, LayoutInv, MergeBlock, f'.status = "ok"
  PROVE  GraphInv' /\ LayoutInv' /\ pc = "merge" /\ pc' = "merge"
<1>. DEFINE todo == blocksToMerge
            b == Head(todo)
<1>1. /\ pc = "merge" /\ pc' = pc /\ todo # <<>> /\ blocksToMerge' = Tail(todo)
      /\ f' = MergeBlockIntoNext(f, b) /\ toVisit' = toVisit
  BY DEF MergeBlock
<1>2. GraphTypeOK(f) /\ LinksOK(f) /\ EntryOK(f)
  BY <1>1 DEF GraphInv
<1>3. /\ toVisit \in Seq(Nat) /\ todo \in Seq(Nat) /\ IsInjective(toVisit) /\ IsInjective(todo)
      /\ toVisit = <<>> /\ ToSet(todo) \subseteq Block(f)
  BY <1>1 DEF LayoutInv
<1>4. /\ b \in ToSet(todo) /\ Tail(todo) \in Seq(Nat) /\ ToSet(todo) = {b} \cup ToSet(Tail(todo))
      /\ IsInjective(Tail(todo)) /\ b \notin ToSet(Tail(todo))
  <2>. HIDE DEF b
  <2>. QED  BY <1>1, <1>3, HeadTail, Zenon DEF b
<1>5. b \in Block(f)
  BY <1>3, <1>4
<1>. HIDE DEF b
<1>6. Merges(f, f', b)
  BY <1>1, <1>2, <1>5, MergeFacts
<1>7. GraphTypeOK(f') /\ LinksOK(f') /\ EntryOK(f') /\ Block(f') = Block(f) \ {b}
  BY <1>2, <1>5, <1>6, MergeLinks
<1>8. ToSet(toVisit') = {}
  BY <1>1, <1>3, SetEmpty
<1>. QED  BY <1>1, <1>3, <1>4, <1>7, <1>8 DEF GraphInv, LayoutInv

\* The optimization of the layout keeps the function consistent.
LEMMA LayoutStep ==
  ASSUME GraphInv, LayoutInv, Layout, f'.status = "ok"
  PROVE  /\ GraphInv' /\ LayoutInv' /\ text' = text
         /\ pc \in {"layout", "chain", "merge"}
         /\ pc' \in {"chain", "merge", "eliminate", "layout", "generate"}
<1>1. text' = text
  BY DEF Layout, StartLayout, VisitEmpty, VisitBlock, StartMerging, MergeBlock, LayoutDone
<1>2. CASE StartLayout
  BY <1>1, <1>2, StartLayoutStep
<1>3. CASE VisitEmpty
  BY <1>1, <1>3, VisitEmptyStep
<1>4. CASE VisitBlock
  BY <1>1, <1>4, VisitBlockStep
<1>5. CASE StartMerging
  BY <1>1, <1>5 DEF StartMerging, GraphInv, LayoutInv
<1>6. CASE MergeBlock
  BY <1>1, <1>6, MergeBlockStep
<1>7. CASE LayoutDone
  BY <1>1, <1>7 DEF LayoutDone, GraphInv, LayoutInv
<1>. QED  BY <1>2, <1>3, <1>4, <1>5, <1>6, <1>7 DEF Layout

-----------------------------------------------------------------------------
\* Branches of a block lead to blocks of the function.
LEMMA OutgoingFacts ==
  ASSUME NEW g, GraphTypeOK(g), LinksOK(g), NEW b \in Block(g)
  PROVE  /\ g.outgoing[b] \in Seq(Nat)
         /\ \A i \in ToSet(g.outgoing[b]) : g.edge[i].dst \in Block(g) /\ g.edge[i].dst \in Nat
<1>1. g.outgoing[b] \in Seq(Nat) /\ g.instrs[b] \in Seq(Nat)
  BY TypeFacts
<1>2. g.outgoing[b] = Only(g.instrs[b], Linked(g))
  BY DEF LinksOK, OutgoingOK
<1>3. ToSet(g.outgoing[b]) = ToSet(g.instrs[b]) \cap Linked(g)
  BY <1>1, <1>2, OnlySet
<1>4. ASSUME NEW i \in ToSet(g.outgoing[b]) PROVE g.edge[i].dst \in Block(g) /\ g.edge[i].dst \in Nat
  <2>1. i \in Owned(g) /\ i \in Linked(g)
    BY <1>3 DEF Owned
  <2>2. g.edge[i].dst \in Block(g)
    BY <2>1 DEF LinksOK, TargetsOK
  <2>. QED  BY <2>2, TypeFacts
<1>. QED  BY <1>1, <1>4

\* Whatever b branches to was visited, or goes on the stack.
LEMMA TargetsPushed ==
  ASSUME NEW g, GraphTypeOK(g), LinksOK(g), NEW b \in Block(g)
  PROVE  /\ Targets(g, b) \in Seq(Nat) /\ ToSet(Targets(g, b)) \subseteq Block(g)
         /\ \A i \in ToSet(g.outgoing[b]) : g.edge[i].dst \in ToSet(Targets(g, b)) \cup visited \cup {b}
<1>. DEFINE w == g.outgoing[b]
            m == Len(w)
            r == [k \in DOMAIN w |-> g.edge[Reverse(w)[k]].dst]
            done == visited \cup {b}
<1>1. w \in Seq(Nat) /\ \A i \in ToSet(w) : g.edge[i].dst \in Block(g) /\ g.edge[i].dst \in Nat
  BY OutgoingFacts
<1>2. Targets(g, b) = Without(r, done)
  BY DEF Targets
<1>. HIDE DEF w
<1>3. m \in Nat /\ DOMAIN w = 1 .. m
  BY <1>1
<1>4. \A k \in 1 .. m : m - k + 1 \in 1 .. m /\ Reverse(w)[k] = w[m - k + 1]
  <2>. DEFINE z == m
  <2>. HIDE DEF z
  <2>1. Reverse(w) = [k \in 1 .. z |-> w[z - k + 1]]
    BY DEF Reverse, z
  <2>2. z \in Nat
    BY <1>3 DEF z
  <2>3. \A k \in 1 .. z : z - k + 1 \in 1 .. z
    BY <2>2
  <2>4. \A k \in 1 .. z : Reverse(w)[k] = w[z - k + 1]
    BY <2>1
  <2>. QED  BY <2>3, <2>4 DEF z
<1>5. \A k \in 1 .. m : Reverse(w)[k] \in ToSet(w)
  BY <1>3, <1>4 DEF ToSet
<1>6. \A k \in 1 .. m : r[k] \in Block(g) /\ r[k] \in Nat
  BY <1>1, <1>3, <1>5
<1>7. r \in Seq(Nat) /\ Len(r) = m
  <2>1. r = [k \in 1 .. m |-> r[k]]
    BY <1>3
  <2>. HIDE DEF r, m
  <2>. QED  BY <1>3, <1>6, <2>1, VectorFacts
<1>8. ToSet(r) \subseteq Block(g)
  <2>. HIDE DEF r
  <2>. QED  BY <1>6, <1>7 DEF ToSet
<1>9. \A i \in ToSet(w) : g.edge[i].dst \in ToSet(r)
  <2>. SUFFICES ASSUME NEW j \in 1 .. m PROVE g.edge[w[j]].dst \in ToSet(r)
    BY <1>3 DEF ToSet
  <2>. DEFINE k == m - j + 1
  <2>1. k \in 1 .. m /\ m - k + 1 = j
    BY <1>3
  <2>. HIDE DEF k
  <2>2. Reverse(w)[k] = w[j]
    BY <1>4, <2>1
  <2>3. r[k] = g.edge[w[j]].dst /\ k \in DOMAIN r
    BY <1>3, <2>1, <2>2
  <2>. HIDE DEF r
  <2>. QED  BY <2>3 DEF ToSet
<1>. HIDE DEF r, done
<1>10. Without(r, done) \in Seq(Nat) /\ ToSet(Without(r, done)) = ToSet(r) \ done
  BY <1>7, WithoutFacts
<1>. QED  BY <1>2, <1>8, <1>9, <1>10, Zenon DEF w, done

\* Code generation begins with the entry.
LEMMA StartGenerationStep ==
  ASSUME GraphInv, GeneratingInv, StartGeneration, f'.status = "ok"
  PROVE  GraphInv' /\ GeneratingInv' /\ pc = "generate" /\ pc' = "generating"
<1>1. /\ pc = "generate" /\ pc' = "generating" /\ f' = Check(f, f.entryBlock # None)
      /\ branchTargets' = <<f.entryBlock>>
      /\ visited' = visited /\ cursor' = cursor /\ generated' = generated
  BY DEF StartGeneration
<1>2. visited = {} /\ generated = <<>> /\ cursor = None
  BY <1>1 DEF GeneratingInv
<1>3. GraphTypeOK(f) /\ LinksOK(f) /\ EntryOK(f)
  BY <1>1 DEF GraphInv
<1>4. CheckedSame(f, f')
  <2>. DEFINE some == f.entryBlock # None
  <2>. HIDE DEF some
  <2>1. CheckedSame(f, Check(f, some))
    BY <1>3, CheckKeeps
  <2>. QED  BY <1>1, <2>1 DEF some
<1>5. GraphInv' /\ Block(f') = Block(f)
  BY <1>4 DEF GraphInv, CheckedSame
<1>6. f.entryBlock \in Block(f) /\ f.entryBlock \in Nat
  BY <1>3, TypeFacts DEF EntryOK
<1>7. <<f.entryBlock>> \in Seq(Nat) /\ ToSet(<<f.entryBlock>>) \subseteq Block(f)
  BY <1>6 DEF ToSet
<1>8. <<>> \in Seq(Nat) /\ IsInjective(<<>>) /\ ToSet(<<>>) = {}
  BY SetEmpty DEF IsInjective
<1>. QED  BY <1>1, <1>2, <1>5, <1>7, <1>8 DEF GeneratingInv

\* The next branch target is taken.
LEMMA PopBlockStep ==
  ASSUME GraphInv, GeneratingInv, PopBlock
  PROVE  GraphInv' /\ GeneratingInv' /\ pc = "generating" /\ pc' = "generating"
<1>. DEFINE s == branchTargets
            b == Last(s)
<1>1. /\ pc = "generating" /\ pc' = pc /\ f' = f /\ cursor = None /\ s # <<>>
      /\ cursor' = IF b \in visited THEN None ELSE b
      /\ branchTargets' = Front(s) /\ visited' = visited /\ generated' = generated
  BY DEF PopBlock
<1>2. s \in Seq(Nat) /\ ToSet(s) \subseteq Block(f)
  BY <1>1 DEF GeneratingInv
<1>3. Front(s) \in Seq(Nat) /\ ToSet(s) = ToSet(Front(s)) \cup {b}
  <2>. HIDE DEF b
  <2>. QED  BY <1>1, <1>2, FrontLast DEF b
<1>. HIDE DEF b
<1>4. /\ generated \in Seq(Nat) /\ IsInjective(generated) /\ visited = ToSet(generated)
      /\ visited \subseteq Block(f)
      /\ \A c \in visited :
           /\ f.next[c] \in visited \cup {None, cursor}
           /\ \A i \in ToSet(f.outgoing[c]) :
                f.edge[i].dst \in visited \cup ToSet(branchTargets) \cup {cursor}
  BY <1>1 DEF GeneratingInv
<1>5. \A c \in visited :
        /\ f.next[c] \in visited \cup {None, cursor'}
        /\ \A i \in ToSet(f.outgoing[c]) :
             f.edge[i].dst \in visited \cup ToSet(branchTargets') \cup {cursor'}
  <2>. SUFFICES ASSUME NEW c \in visited
                PROVE  /\ f.next[c] \in visited \cup {None, cursor'}
                       /\ \A i \in ToSet(f.outgoing[c]) :
                            f.edge[i].dst \in visited \cup ToSet(branchTargets') \cup {cursor'}
    OBVIOUS
  <2>1. f.next[c] \in visited \cup {None}
    BY <1>1, <1>4
  <2>2. ASSUME NEW i \in ToSet(f.outgoing[c])
        PROVE  f.edge[i].dst \in visited \cup ToSet(branchTargets') \cup {cursor'}
    <3>1. f.edge[i].dst \in visited \cup ToSet(branchTargets) \cup {None}
      BY <1>1, <1>4
    <3>2. f.edge[i].dst # None
      <4>1. f.edge[i].dst \in Block(f) /\ \A x \in Block(f) : x # None
        BY <1>4, OutgoingFacts, TypeFacts DEF GraphInv
      <4>. QED  BY <4>1
    <3>. QED  BY <1>1, <1>3, <3>1, <3>2
  <2>. QED  BY <2>1, <2>2
<1>6. GraphInv'
  BY <1>1 DEF GraphInv
<1>7. cursor' # None => cursor' \in Block(f)
  BY <1>1, <1>2, <1>3
<1>8. branchTargets' \in Seq(Nat) /\ ToSet(branchTargets') \subseteq Block(f)
  BY <1>1, <1>2, <1>3
<1>. QED  BY <1>1, <1>4, <1>5, <1>6, <1>7, <1>8 DEF GeneratingInv

\* A block generated already is passed over.
LEMMA SkipVisitedStep ==
  ASSUME GraphInv, GeneratingInv, SkipVisited
  PROVE  GraphInv' /\ GeneratingInv' /\ pc = "generating" /\ pc' = "generating"
<1>1. /\ pc = "generating" /\ pc' = pc /\ f' = f /\ cursor # None /\ cursor \in visited
      /\ cursor' = f.next[cursor]
      /\ branchTargets' = branchTargets /\ visited' = visited /\ generated' = generated
  BY DEF SkipVisited, Following
<1>2. cursor \in Block(f)
  BY <1>1 DEF GeneratingInv
<1>3. cursor' # None => cursor' \in Block(f)
  BY <1>1, <1>2 DEF GraphInv, LinksOK, NextOK
<1>. QED  BY <1>1, <1>3 DEF GraphInv, GeneratingInv

\* A block is generated.
LEMMA GenerateBlockStep ==
  ASSUME GraphInv, GeneratingInv, GenerateBlock, f'.status = "ok"
  PROVE  GraphInv' /\ GeneratingInv' /\ pc = "generating" /\ pc' = "generating"
<1>1. /\ pc = "generating" /\ pc' = pc /\ cursor # None /\ cursor \notin visited
      /\ f' = Check(f, f.instrs[cursor] # <<>>)
      /\ visited' = visited \cup {cursor} /\ generated' = Append(generated, cursor)
      /\ branchTargets' = branchTargets \o Targets(f, cursor) /\ cursor' = f.next[cursor]
  BY DEF GenerateBlock, Following
<1>2. /\ cursor \in Block(f) /\ visited \subseteq Block(f)
      /\ generated \in Seq(Nat) /\ IsInjective(generated) /\ visited = ToSet(generated)
      /\ branchTargets \in Seq(Nat) /\ ToSet(branchTargets) \subseteq Block(f)
      /\ \A b \in visited :
           /\ f.next[b] \in visited \cup {None, cursor}
           /\ \A i \in ToSet(f.outgoing[b]) :
                f.edge[i].dst \in visited \cup ToSet(branchTargets) \cup {cursor}
  BY <1>1 DEF GeneratingInv
<1>3. GraphTypeOK(f) /\ LinksOK(f) /\ EntryOK(f) /\ cursor \in Nat
  BY <1>1, <1>2, TypeFacts DEF GraphInv
<1>4. CheckedSame(f, f')
  <2>. DEFINE some == f.instrs[cursor] # <<>>
  <2>. HIDE DEF some
  <2>1. CheckedSame(f, Check(f, some))
    BY <1>3, CheckKeeps
  <2>. QED  BY <1>1, <2>1 DEF some
<1>5. GraphInv' /\ Block(f') = Block(f) /\ f'.next = f.next /\ f'.outgoing = f.outgoing /\ f'.edge = f.edge
  BY <1>4 DEF GraphInv, CheckedSame
<1>6. /\ generated' \in Seq(Nat) /\ IsInjective(generated') /\ ToSet(generated') = visited'
  BY <1>1, <1>2, <1>3, InjectiveAppend, SetAppend
<1>. DEFINE t == Targets(f, cursor)
<1>7. /\ t \in Seq(Nat) /\ ToSet(t) \subseteq Block(f)
      /\ \A i \in ToSet(f.outgoing[cursor]) : f.edge[i].dst \in ToSet(t) \cup visited \cup {cursor}
  BY <1>2, <1>3, TargetsPushed
<1>8. branchTargets' \in Seq(Nat) /\ ToSet(branchTargets') = ToSet(branchTargets) \cup ToSet(t)
  <2>. DEFINE s == branchTargets
  <2>1. s \in Seq(Nat) /\ t \in Seq(Nat) /\ branchTargets' = s \o t
    BY <1>1, <1>2, <1>7
  <2>. HIDE DEF s, t
  <2>2. s \o t \in Seq(Nat) /\ ToSet(s \o t) = ToSet(s) \cup ToSet(t)
    BY <2>1, SetConcat, ConcatProperties
  <2>. QED  BY <2>1, <2>2 DEF s
<1>. HIDE DEF t
<1>9. cursor' # None => cursor' \in Block(f)
  BY <1>1, <1>2, <1>3 DEF LinksOK, NextOK
<1>10. \A b \in visited' :
         /\ f.next[b] \in visited' \cup {None, cursor'}
         /\ \A i \in ToSet(f.outgoing[b]) :
              f.edge[i].dst \in visited' \cup ToSet(branchTargets') \cup {cursor'}
  BY <1>1, <1>2, <1>7, <1>8
<1>11. visited' \subseteq Block(f) /\ ToSet(branchTargets') \subseteq Block(f)
  BY <1>1, <1>2, <1>7, <1>8
<1>. QED  BY <1>1, <1>5, <1>6, <1>8, <1>9, <1>10, <1>11 DEF GeneratingInv

\* The walk of code generation keeps track of all that is still to visit.
LEMMA GenerateStep ==
  ASSUME GraphInv, GeneratingInv, Generate, f'.status = "ok"
  PROVE  /\ GraphInv' /\ GeneratingInv' /\ text' = text
         /\ pc \in {"generate", "generating"} /\ pc' \in {"generating", "generated"}
<1>1. text' = text
  BY DEF Generate, StartGeneration, PopBlock, SkipVisited, GenerateBlock, FunctionGenerated
<1>2. CASE StartGeneration
  BY <1>1, <1>2, StartGenerationStep
<1>3. CASE PopBlock
  BY <1>1, <1>3, PopBlockStep
<1>4. CASE SkipVisited
  BY <1>1, <1>4, SkipVisitedStep
<1>5. CASE GenerateBlock
  BY <1>1, <1>5, GenerateBlockStep
<1>6. CASE FunctionGenerated
  BY <1>1, <1>6 DEF FunctionGenerated, GraphInv, GeneratingInv
<1>. QED  BY <1>2, <1>3, <1>4, <1>5, <1>6 DEF Generate

-----------------------------------------------------------------------------
\* There is no graph yet.
LEMMA InitInv == Init => Inv
<1>. SUFFICES ASSUME Init PROVE Inv
  OBVIOUS
<1>1. text \in Texts /\ f = EmptyFunction /\ pc = "decode"
  BY DEF Init
<1>2. GraphInv
  <2>1. WellFormed(text)
    BY <1>1, TextAssumption
  <2>2. Partial(EmptyFunction)
    BY <2>1, EmptyFacts
  <2>. QED  BY <1>1, <2>2 DEF GraphInv, Partial
<1>3. DecodingInv
  BY <1>1 DEF Init, DecodeInit, DecodingInv
<1>4. UnrollingInv /\ LayoutInv /\ GeneratingInv /\ EliminatingInv
  BY <1>1 DEF Init, UnrollInit, UnrollingInv, LayoutInit, LayoutInv, GenerateInit, GeneratingInv,
              EliminatingInv
<1>. QED  BY <1>1, <1>2, <1>3, <1>4 DEF Inv, Phases

\* Whatever fails, the machine code stays, and so do the phases.
LEMMA PhaseStep ==
  ASSUME pc \in Phases, Next
  PROVE  text' = text /\ pc' \in Phases
<1>1. CASE Decode
  BY <1>1 DEF Decode, DecodeEntry, ResolveBlock, SkipUnknown, BranchToKnown, BranchIntoMiddle, BranchToNew,
              BranchesWired, FunctionDecoded, Phases
<1>2. CASE Unroll
  BY <1>2 DEF Unroll, CollectLoops, IsolateLoop, CopyLoop, PlaceCopy, LoopsUnrolled, Phases
<1>3. CASE Eliminate
  BY <1>3 DEF Eliminate, AnalyseLiveness, AnalyseStack, Collect, DeleteInstruction, ConvertBranch,
              DeleteBlock, DeadCodeEliminated, Phases
<1>4. CASE Layout
  BY <1>4 DEF Layout, StartLayout, VisitEmpty, VisitBlock, StartMerging, MergeBlock, LayoutDone, Phases
<1>5. CASE Generate
  BY <1>5 DEF Generate, StartGeneration, PopBlock, SkipVisited, GenerateBlock, FunctionGenerated, Phases
<1>. QED  BY <1>1, <1>2, <1>3, <1>4, <1>5 DEF Next

\* The invariant is inductive.
LEMMA NextInv == Inv /\ [Next]_vars => Inv'
<1>. SUFFICES ASSUME Inv, [Next]_vars PROVE Inv'
  OBVIOUS
<1>1. CASE UNCHANGED vars
  <2>1. /\ UNCHANGED <<text, f, pc, blockMap, resolveStack, srcBlock, collected, loops, body, copy>>
        /\ UNCHANGED <<reached, instructionsToDelete, condBranchesToConvert, blocksToDelete>>
        /\ UNCHANGED <<toVisit, blocksToMerge, visited, branchTargets, cursor, generated>>
    BY <1>1 DEF vars, decodeVars, unrollVars, eliminateVars, todoVars, layoutVars, generateVars
  <2>2. text' \in Texts /\ pc' \in Phases
    BY <2>1 DEF Inv
  <2>. SUFFICES ASSUME f.status = "ok"
                PROVE  /\ GraphInv' /\ DecodingInv' /\ UnrollingInv' /\ EliminatingInv'
                       /\ LayoutInv' /\ GeneratingInv'
    BY <2>1, <2>2 DEF Inv
  <2>3. GraphInv /\ DecodingInv /\ UnrollingInv /\ EliminatingInv /\ LayoutInv /\ GeneratingInv
    BY DEF Inv
  <2>4. GraphInv' /\ UnrollingInv'
    BY <2>1, <2>3 DEF GraphInv, UnrollingInv
  <2>5. DecodingInv'
    BY <2>1, <2>3 DEF DecodingInv, KnownOK, LabelsOK, WiredUp
  <2>6. EliminatingInv' /\ LayoutInv'
    BY <2>1, <2>3 DEF EliminatingInv, LayoutInv
  <2>7. GeneratingInv'
    BY <2>1, <2>3 DEF GeneratingInv
  <2>. QED  BY <2>4, <2>5, <2>6, <2>7
<1>2. CASE Next
  <2>1. text' \in Texts /\ pc' \in Phases /\ text \in Texts /\ f.status = "ok"
    BY <1>2, PhaseStep DEF Inv, Next
  <2>. SUFFICES ASSUME f'.status = "ok"
                PROVE  /\ GraphInv' /\ DecodingInv' /\ UnrollingInv' /\ EliminatingInv'
                       /\ LayoutInv' /\ GeneratingInv'
    BY <2>1 DEF Inv
  <2>2. GraphInv /\ DecodingInv /\ UnrollingInv /\ EliminatingInv /\ LayoutInv /\ GeneratingInv
    BY <2>1 DEF Inv
  <2>3. CASE Decode /\ UNCHANGED <<unrollVars, eliminateVars, layoutVars, generateVars>>
    <3>1. WellFormed(text)
      BY <2>1, TextAssumption
    <3>2. GraphInv' /\ DecodingInv' /\ pc \in {"decode", "resolve", "wire"} /\ pc' \in {"resolve", "wire", "unroll"}
      BY <2>2, <2>3, <3>1, DecodeStep
    <3>. QED  BY <2>2, <2>3, <3>2, UnrollAtRest, EliminateAtRest, LayoutAtRest, GenerateAtRest
  <2>4. CASE Unroll /\ UNCHANGED <<decodeVars, eliminateVars, layoutVars, generateVars>>
    <3>1. /\ GraphInv' /\ UnrollingInv' /\ pc \in {"unroll", "unrolling"}
          /\ pc' \in {"unrolling", "eliminate", "layout"}
      BY <2>2, <2>4, UnrollStep
    <3>. QED  BY <2>2, <2>4, <3>1, DecodeAtRest, EliminateAtRest, LayoutAtRest, GenerateAtRest
  <2>5. CASE Eliminate /\ UNCHANGED <<decodeVars, unrollVars, layoutVars, generateVars>>
    <3>1. /\ GraphInv' /\ EliminatingInv' /\ pc \in {"eliminate", "analyse", "collect", "eliminating"}
          /\ pc' \in {"analyse", "collect", "eliminating", "layout"}
      BY <2>2, <2>5, EliminateStep
    <3>. QED  BY <2>2, <2>5, <3>1, DecodeAtRest, UnrollAtRest, LayoutAtRest, GenerateAtRest
  <2>6. CASE Layout /\ UNCHANGED <<decodeVars, unrollVars, eliminateVars, generateVars>>
    <3>1. /\ GraphInv' /\ LayoutInv' /\ pc \in {"layout", "chain", "merge"}
          /\ pc' \in {"chain", "merge", "eliminate", "layout", "generate"}
      BY <2>2, <2>6, LayoutStep
    <3>. QED  BY <2>2, <2>6, <3>1, DecodeAtRest, UnrollAtRest, EliminateAtRest, GenerateAtRest
  <2>7. CASE Generate /\ UNCHANGED <<decodeVars, unrollVars, eliminateVars, layoutVars>>
    <3>1. /\ GraphInv' /\ GeneratingInv' /\ pc \in {"generate", "generating"}
          /\ pc' \in {"generating", "generated"}
      BY <2>2, <2>7, GenerateStep
    <3>. QED  BY <2>2, <2>7, <3>1, DecodeAtRest, UnrollAtRest, EliminateAtRest, LayoutAtRest
  <2>. QED  BY <1>2, <2>3, <2>4, <2>5, <2>6, <2>7 DEF Next
<1>. QED  BY <1>1, <1>2

\* So it always holds.
LEMMA AlwaysInv == Spec => []Inv
BY InitInv, NextInv, PTL DEF Spec

\* Generation ends with the function as it was when no assertion had failed.
GeneratedOK == pc = "generated" => f.status = "ok"
LEMMA AlwaysGeneratedOK == Spec => []GeneratedOK
<1>1. Init => GeneratedOK
  BY DEF Init, GeneratedOK
<1>2. GeneratedOK /\ [Next]_vars => GeneratedOK'
  <2>. SUFFICES ASSUME GeneratedOK, [Next]_vars PROVE GeneratedOK'
    OBVIOUS
  <2>1. CASE UNCHANGED vars
    BY <2>1 DEF GeneratedOK, vars
  <2>2. CASE Next
    <3>1. f.status = "ok"
      BY <2>2 DEF Next
    <3>2. CASE Decode
      BY <3>2 DEF GeneratedOK, Decode, DecodeEntry, ResolveBlock, SkipUnknown, BranchToKnown,
                  BranchIntoMiddle, BranchToNew, BranchesWired, FunctionDecoded
    <3>3. CASE Unroll
      BY <3>3 DEF GeneratedOK, Unroll, CollectLoops, IsolateLoop, CopyLoop, PlaceCopy, LoopsUnrolled
    <3>4. CASE Eliminate
      BY <3>4 DEF GeneratedOK, Eliminate, AnalyseLiveness, AnalyseStack, Collect, DeleteInstruction,
                  ConvertBranch, DeleteBlock, DeadCodeEliminated
    <3>5. CASE Layout
      BY <3>5 DEF GeneratedOK, Layout, StartLayout, VisitEmpty, VisitBlock, StartMerging, MergeBlock, LayoutDone
    <3>6. CASE Generate
      BY <3>1, <3>6 DEF GeneratedOK, Generate, StartGeneration, PopBlock, SkipVisited, GenerateBlock,
                        FunctionGenerated
    <3>. QED  BY <2>2, <3>2, <3>3, <3>4, <3>5, <3>6 DEF Next
  <2>. QED  BY <2>1, <2>2
<1>. QED  BY <1>1, <1>2, PTL DEF Spec

-----------------------------------------------------------------------------
\* Whatever pass is at work, and whichever function is rewritten, the pointers
\* kept by hand agree: an edge is in the vectors of both its blocks and in the
\* order of the instructions, next and prev belong together, and no instruction
\* is in two places (splitBlock, copyBlock, mergeBlockIntoNext, unchainNext).
THEOREM GraphStaysWired == Spec => []GraphWired
<1>1. Inv => GraphWired
  <2>. SUFFICES ASSUME Inv, f.status = "ok", pc # "decode" PROVE Wired(f)
    BY DEF GraphWired, Rewritable
  <2>1. GraphTypeOK(f) /\ LinksOK(f) /\ EntryOK(f)
    BY DEF Inv, GraphInv
  <2>. QED  BY <2>1, WiredIff
<1>. QED  BY <1>1, AlwaysInv, PTL

\* While blocks are split under it, decoding forgets no branch: an instruction
\* still without its edge waits with its block, or is among those collected.
THEOREM NoBranchForgotten == Spec => []NothingForgotten
<1>1. Inv => NothingForgotten
  <2>. SUFFICES ASSUME Inv, f.status = "ok", pc \in {"resolve", "wire"},
                       NEW b \in Block(f) \ ToSet(resolveStack), NEW i \in ToSet(f.instrs[b]),
                       ~HasEdge(f, i), f.op[i].kind \notin {"op", "call", "ijmp"}
                PROVE  pc = "wire" /\ b = srcBlock /\ i \in ToSet(collected)
    BY DEF NothingForgotten, Rewritable, Decoding
  <2>1. GraphTypeOK(f) /\ LabelsOK(f) /\ WiredUp
    BY DEF Inv, GraphInv, DecodingInv
  <2>2. b \in Blocks(f) /\ i \in Instrs(f)
    BY <2>1 DEF GraphTypeOK
  <2>3. f.op[i].kind \in Kinds /\ f.op[i].kind # "nop"
    BY <2>1, <2>2, TypeFacts DEF OpType, LabelsOK
  <2>4. f.op[i].kind # "ret"
    BY <2>1 DEF WiredUp
  <2>5. i \in Open(f)
    BY <2>2, <2>3, <2>4 DEF Open, Kinds, Branches, EndOfBlock, WithTarget
  <2>6. pc = "wire" /\ b = srcBlock
    BY <2>1, <2>5 DEF WiredUp
  <2>7. Collected(f, b, collected)
    BY <2>6 DEF Inv, DecodingInv
  <2>8. collected \in Seq(Nat) /\ f.instrs[b] \in Seq(Nat)
    BY <2>1, <2>2, <2>7, TypeFacts DEF Collected
  <2>9. i \in ToSet(Only(f.instrs[b], Open(f)))
    BY <2>5, <2>8, OnlySet
  <2>10. i \in ToSet(collected)
    BY <2>7, <2>8, <2>9, OnlySet DEF Collected
  <2>. QED  BY <2>6, <2>10
<1>. QED  BY <1>1, AlwaysInv, PTL

\* The walk of code generation ends with every block generated once, and with
\* it whatever a generated block falls through or branches to, in spite of
\* targets that are put on the stack several times or visited in between.
THEOREM AllGenerated == Spec => []EverythingGenerated
<1>1. Inv /\ GeneratedOK => EverythingGenerated
  <2>. SUFFICES ASSUME Inv, f.status = "ok", pc = "generated" PROVE EverythingGenerated
    BY DEF GeneratedOK, EverythingGenerated
  <2>1. GraphTypeOK(f) /\ LinksOK(f)
    BY DEF Inv, GraphInv
  <2>2. /\ IsInjective(generated) /\ visited = ToSet(generated) /\ visited \subseteq Block(f)
        /\ cursor = None /\ branchTargets = <<>>
        /\ \A b \in visited :
             /\ f.next[b] \in visited \cup {None, cursor}
             /\ \A i \in ToSet(f.outgoing[b]) :
                  f.edge[i].dst \in visited \cup ToSet(branchTargets) \cup {cursor}
    BY DEF Inv, GeneratingInv
  <2>3. ToSet(branchTargets) = {}
    BY <2>2 DEF ToSet
  <2>4. \A b \in visited : \A i \in ToSet(f.outgoing[b]) : f.edge[i].dst # None
    BY <2>1, <2>2, OutgoingFacts, TypeFacts
  <2>. QED  BY <2>2, <2>3, <2>4 DEF EverythingGenerated
<1>. QED  BY <1>1, AlwaysInv, AlwaysGeneratedOK, PTL
=============================================================================
