------------------------------ MODULE GraphProofs ------------------------------
(***************************************************************************)
(* The operations on the graph of a function keep its links: whatever      *)
(* sequence of them the passes perform, an edge is in the vectors of both  *)
(* its blocks and in the order of the instructions, and next/prev agree.   *)
(* One lemma says what an operation changes, another that the links        *)
(* survive.                                                                *)
(***************************************************************************)
EXTENDS BlockGraph, ListFacts

Statuses == {"ok", "thrown", "undefined"}
Fields   == {"blocks", "entryBlock", "instrs", "next", "prev", "incoming", "outgoing",
             "op", "edge", "status"}
OpType   == [at : Nat, kind : Kinds, inv : BOOLEAN]
EdgeType == [src : Nat, dst : Nat]

Blocks(g) == 1 .. Len(g.instrs)      \* every block there has been
Instrs(g) == 1 .. Len(g.op)          \* every instruction

GraphTypeOK(g) ==
  /\ DOMAIN g = Fields /\ g.entryBlock \in Nat /\ g.status \in Statuses
  /\ g.blocks \in Seq(Nat) /\ g.instrs \in Seq(Seq(Nat))
  /\ g.next \in Seq(Nat) /\ g.prev \in Seq(Nat)
  /\ g.incoming \in Seq(SUBSET Nat) /\ g.outgoing \in Seq(Seq(Nat))
  /\ g.op \in Seq(OpType) /\ g.edge \in Seq(EdgeType)
  /\ Len(g.next) = Len(g.instrs) /\ Len(g.prev) = Len(g.instrs)
  /\ Len(g.incoming) = Len(g.instrs) /\ Len(g.outgoing) = Len(g.instrs)
  /\ Len(g.edge) = Len(g.op)
  /\ Block(g) \subseteq Blocks(g) /\ IsInjective(g.blocks)
  /\ \A b \in Blocks(g) : ToSet(g.instrs[b]) \subseteq Instrs(g)

Owned(g) == UNION {ToSet(g.instrs[b]) : b \in Block(g)}

\* The parts of Wired, one thought each.
OutgoingOK(g) == \A b \in Block(g) : g.outgoing[b] = Only(g.instrs[b], Linked(g))
SourcesOK(g)  == \A b \in Block(g) : \A i \in ToSet(g.instrs[b]) : HasEdge(g, i) => g.edge[i].src = b
TargetsOK(g)  == \A i \in Owned(g) : i \in Linked(g) => g.edge[i].dst \in Block(g)
IncomingOK(g) == \A b \in Block(g) : \A i \in Nat :
                   i \in g.incoming[b] <=> i \in Owned(g) /\ IsBranch(g, i) /\ g.edge[i].dst = b
EntryOK(g)    == g.entryBlock \in Block(g)
NextOK(g)     == \A b \in Block(g) : g.next[b] # None => g.next[b] \in Block(g) /\ g.prev[g.next[b]] = b
PrevOK(g)     == \A b \in Block(g) : g.prev[b] # None => g.prev[b] \in Block(g) /\ g.next[g.prev[b]] = b
OnceOK(g)     == \A b \in Block(g) : IsInjective(g.instrs[b])
ApartOK(g)    == \A b, c \in Block(g) : b # c => ToSet(g.instrs[b]) \cap ToSet(g.instrs[c]) = {}

LinksOK(g) ==
  /\ OutgoingOK(g) /\ SourcesOK(g) /\ TargetsOK(g) /\ IncomingOK(g)
  /\ NextOK(g) /\ PrevOK(g)
  /\ OnceOK(g) /\ ApartOK(g)

\* A function is either consistent or its rewriting has ended.
GraphOK(g) == GraphTypeOK(g) /\ (g.status = "ok" => LinksOK(g) /\ EntryOK(g))

\* What the types say of blocks and instructions.
LEMMA TypeFacts ==
  ASSUME NEW g, GraphTypeOK(g)
  PROVE  /\ Len(g.instrs) \in Nat /\ Len(g.op) \in Nat
         /\ \A b \in Blocks(g) : /\ b \in Nat /\ b # None
                                 /\ g.instrs[b] \in Seq(Nat) /\ g.next[b] \in Nat /\ g.prev[b] \in Nat
                                 /\ g.incoming[b] \in SUBSET Nat /\ g.outgoing[b] \in Seq(Nat)
         /\ \A i \in Instrs(g) : /\ g.op[i] \in OpType
                                 /\ g.edge[i] \in EdgeType
                                 /\ g.edge[i].src \in Nat /\ g.edge[i].dst \in Nat
         /\ Linked(g) \subseteq Instrs(g) /\ Owned(g) \subseteq Instrs(g)
         /\ Instrs(g) \subseteq Nat /\ Block(g) \subseteq Blocks(g)
         /\ DOMAIN g.op = Instrs(g) /\ DOMAIN g.edge = Instrs(g)
<1>1. /\ g.instrs \in Seq(Seq(Nat)) /\ g.next \in Seq(Nat) /\ g.prev \in Seq(Nat)
      /\ g.incoming \in Seq(SUBSET Nat) /\ g.outgoing \in Seq(Seq(Nat))
      /\ g.op \in Seq(OpType)
      /\ g.edge \in Seq(EdgeType)
  BY DEF GraphTypeOK
<1>2. Len(g.instrs) \in Nat /\ Len(g.op) \in Nat
  BY <1>1
<1>3. ASSUME NEW b \in Blocks(g)
      PROVE  /\ b \in Nat /\ b # None
             /\ g.instrs[b] \in Seq(Nat) /\ g.next[b] \in Nat /\ g.prev[b] \in Nat
             /\ g.incoming[b] \in SUBSET Nat /\ g.outgoing[b] \in Seq(Nat)
  <2>1. /\ b \in 1 .. Len(g.instrs) /\ b \in 1 .. Len(g.next) /\ b \in 1 .. Len(g.prev)
        /\ b \in 1 .. Len(g.incoming) /\ b \in 1 .. Len(g.outgoing)
    BY DEF GraphTypeOK, Blocks
  <2>2. b \in Nat /\ b # None
    BY <1>2 DEF Blocks, None
  <2>3. g.instrs[b] \in Seq(Nat) /\ g.outgoing[b] \in Seq(Nat)
    BY <1>1, <2>1, ElementOfSeq, Zenon
  <2>4. g.next[b] \in Nat /\ g.prev[b] \in Nat
    BY <1>1, <2>1, ElementOfSeq, Zenon
  <2>5. g.incoming[b] \in SUBSET Nat
    BY <1>1, <2>1, ElementOfSeq, Zenon
  <2>. QED  BY <2>2, <2>3, <2>4, <2>5
<1>4. ASSUME NEW i \in Instrs(g)
      PROVE  /\ g.op[i] \in OpType
             /\ g.edge[i] \in EdgeType
  <2>1. i \in 1 .. Len(g.op) /\ i \in 1 .. Len(g.edge)
    BY <1>1 DEF GraphTypeOK, Instrs
  <2>. QED  BY <1>1, <2>1, ElementOfSeq
<1>5. DOMAIN g.op = Instrs(g) /\ DOMAIN g.edge = Instrs(g)
  BY <1>1, <1>2 DEF GraphTypeOK, Instrs
<1>6. Linked(g) \subseteq Instrs(g)
  BY <1>5 DEF Linked
<1>7. Owned(g) \subseteq Instrs(g)
  BY DEF Owned, GraphTypeOK
<1>8. Instrs(g) \subseteq Nat
  BY <1>2 DEF Instrs
<1>. QED  BY <1>2, <1>3, <1>4, <1>5, <1>6, <1>7, <1>8, Zenon DEF GraphTypeOK, EdgeType

\* The invariant is what the run checks.
LEMMA WiredIff ==
  ASSUME NEW g, GraphTypeOK(g)
  PROVE  Wired(g) <=> LinksOK(g) /\ EntryOK(g)
<1>1. InstructionsOwned(g) <=> OnceOK(g) /\ ApartOK(g)
  <2>1. ASSUME InstructionsOwned(g) PROVE OnceOK(g) /\ ApartOK(g)
    BY <2>1 DEF InstructionsOwned, OnceOK, ApartOK, IsInjective, ToSet
  <2>2. ASSUME OnceOK(g), ApartOK(g), NEW b \in Block(g), NEW c \in Block(g),
               NEW j \in DOMAIN g.instrs[b], NEW k \in DOMAIN g.instrs[c],
               g.instrs[b][j] = g.instrs[c][k]
        PROVE  b = c /\ j = k
    <3>1. b = c
      BY <2>2 DEF ApartOK, ToSet
    <3>. QED  BY <2>2, <3>1 DEF OnceOK, IsInjective
  <2>. QED  BY <2>1, <2>2 DEF InstructionsOwned
<1>2. ChainWired(g) <=> EntryOK(g) /\ NextOK(g) /\ PrevOK(g)
  BY DEF ChainWired, EntryOK, NextOK, PrevOK
<1>3. OutgoingOK(g) => \A b \in Block(g) : ToSet(g.outgoing[b]) = ToSet(g.instrs[b]) \cap Linked(g)
  <2>1. \A b \in Block(g) : g.instrs[b] \in Seq(Nat)
    BY TypeFacts
  <2>. QED  BY <2>1, OnlySet DEF OutgoingOK
<1>4. EdgesWired(g) <=> OutgoingOK(g) /\ SourcesOK(g) /\ TargetsOK(g) /\ IncomingOK(g)
  <2>1. \A b \in Block(g) : g.incoming[b] \in SUBSET Nat
    BY TypeFacts
  <2>2. Owned(g) \subseteq Nat
    BY TypeFacts
  <2>3. ASSUME EdgesWired(g) PROVE OutgoingOK(g) /\ SourcesOK(g) /\ IncomingOK(g)
    BY <2>1, <2>2, <2>3 DEF EdgesWired, OutgoingOK, SourcesOK, IncomingOK, Owned
  <2>4. ASSUME EdgesWired(g) PROVE TargetsOK(g)
    BY <1>3, <2>3, <2>4 DEF EdgesWired, TargetsOK, Owned
  <2>5. ASSUME OutgoingOK(g), SourcesOK(g), TargetsOK(g), IncomingOK(g), NEW b \in Block(g)
        PROVE  /\ g.outgoing[b] = Only(g.instrs[b], Linked(g))
               /\ \A i \in ToSet(g.instrs[b]) : HasEdge(g, i) => g.edge[i].src = b
               /\ \A i \in ToSet(g.outgoing[b]) : g.edge[i].dst \in Block(g)
    BY <1>3, <2>5 DEF OutgoingOK, SourcesOK, TargetsOK, Owned
  <2>6. ASSUME IncomingOK(g), NEW b \in Block(g)
        PROVE  g.incoming[b] = {i \in UNION {ToSet(g.instrs[c]) : c \in Block(g)} :
                                  IsBranch(g, i) /\ g.edge[i].dst = b}
    <3>1. g.incoming[b] = {i \in Owned(g) : IsBranch(g, i) /\ g.edge[i].dst = b}
      BY <2>1, <2>2, <2>6 DEF IncomingOK
    <3>. QED  BY <3>1 DEF Owned
  <2>. QED  BY <2>3, <2>4, <2>5, <2>6 DEF EdgesWired
<1>. QED  BY <1>1, <1>2, <1>4 DEF Wired, LinksOK

-----------------------------------------------------------------------------
\* A new block has no links; nothing else changes.
NewBlock(g, h) ==
  LET n == Len(g.instrs) + 1
  IN  /\ GraphTypeOK(h)
      /\ Len(h.instrs) = n /\ h.op = g.op /\ h.edge = g.edge /\ h.status = g.status
      /\ Block(h) = Block(g) \cup {n}
      /\ h.entryBlock = EntryAfter(g, n)
      /\ \A b \in Blocks(g) : /\ h.instrs[b] = g.instrs[b]
                              /\ h.next[b] = g.next[b] /\ h.prev[b] = g.prev[b]
                              /\ h.incoming[b] = g.incoming[b] /\ h.outgoing[b] = g.outgoing[b]
      /\ h.instrs[n] = <<>> /\ h.next[n] = None /\ h.prev[n] = None
      /\ h.incoming[n] = {} /\ h.outgoing[n] = <<>>

\* push_back() on one of the vectors.
LEMMA AppendFacts ==
  ASSUME NEW T, NEW s \in Seq(T), NEW e \in T
  PROVE  /\ Append(s, e) \in Seq(T) /\ Len(Append(s, e)) = Len(s) + 1
         /\ Append(s, e)[Len(s) + 1] = e
         /\ \A k \in 1 .. Len(s) : Append(s, e)[k] = s[k]
OBVIOUS

\* A new block has nothing and is connected to nothing.
LEMMA AddBlockFacts ==
  ASSUME NEW g, GraphTypeOK(g)
  PROVE  NewBlock(g, AddBlock(g))
<1>. DEFINE n == Len(g.instrs) + 1
            h == AddBlock(g)
<1>1. /\ DOMAIN g = Fields
      /\ g.instrs \in Seq(Seq(Nat)) /\ g.next \in Seq(Nat) /\ g.prev \in Seq(Nat)
      /\ g.incoming \in Seq(SUBSET Nat) /\ g.outgoing \in Seq(Seq(Nat)) /\ g.blocks \in Seq(Nat)
  BY DEF GraphTypeOK
<1>2. /\ Len(g.next) = Len(g.instrs) /\ Len(g.prev) = Len(g.instrs)
      /\ Len(g.incoming) = Len(g.instrs) /\ Len(g.outgoing) = Len(g.instrs)
  BY DEF GraphTypeOK
<1>3. DOMAIN h = Fields
  BY <1>1 DEF AddBlock, Fields
<1>4. /\ h.blocks = Append(g.blocks, n) /\ h.entryBlock = EntryAfter(g, n)
      /\ h.instrs = Append(g.instrs, <<>>)
      /\ h.next = Append(g.next, None) /\ h.prev = Append(g.prev, None)
      /\ h.incoming = Append(g.incoming, {}) /\ h.outgoing = Append(g.outgoing, <<>>)
      /\ h.op = g.op /\ h.edge = g.edge /\ h.status = g.status
  BY <1>1 DEF AddBlock, Fields
<1>. HIDE DEF h
<1>5. EntryAfter(g, n) \in Nat /\ n \in Nat /\ None \in Nat /\ <<>> \in Seq(Nat) /\ {} \in SUBSET Nat
  BY <1>1 DEF EntryAfter, GraphTypeOK, None
<1>6. /\ h.instrs \in Seq(Seq(Nat)) /\ Len(h.instrs) = n /\ h.instrs[n] = <<>>
      /\ \A b \in Blocks(g) : h.instrs[b] = g.instrs[b]
  <2>. DEFINE s == g.instrs
  <2>1. s \in Seq(Seq(Nat)) /\ <<>> \in Seq(Nat)
    BY <1>1, <1>5
  <2>2. h.instrs = Append(s, <<>>) /\ n = Len(s) + 1 /\ Blocks(g) = 1 .. Len(s)
    BY <1>4 DEF Blocks
  <2>. HIDE DEF s, n
  <2>3. /\ Append(s, <<>>) \in Seq(Seq(Nat)) /\ Len(Append(s, <<>>)) = Len(s) + 1
        /\ Append(s, <<>>)[Len(s) + 1] = <<>>
        /\ \A k \in 1 .. Len(s) : Append(s, <<>>)[k] = s[k]
    BY <2>1, AppendFacts
  <2>. QED  BY <2>2, <2>3, Zenon DEF s
<1>7. /\ h.next \in Seq(Nat) /\ Len(h.next) = n /\ h.next[n] = None
      /\ \A b \in Blocks(g) : h.next[b] = g.next[b]
  BY <1>1, <1>2, <1>4, <1>5, AppendFacts, SMTT(30) DEF Blocks
<1>8. /\ h.prev \in Seq(Nat) /\ Len(h.prev) = n /\ h.prev[n] = None
      /\ \A b \in Blocks(g) : h.prev[b] = g.prev[b]
  BY <1>1, <1>2, <1>4, <1>5, AppendFacts, SMTT(30) DEF Blocks
<1>9. /\ h.incoming \in Seq(SUBSET Nat) /\ Len(h.incoming) = n /\ h.incoming[n] = {}
      /\ \A b \in Blocks(g) : h.incoming[b] = g.incoming[b]
  BY <1>1, <1>2, <1>4, <1>5, AppendFacts, SMTT(30) DEF Blocks
<1>10. /\ h.outgoing \in Seq(Seq(Nat)) /\ Len(h.outgoing) = n /\ h.outgoing[n] = <<>>
       /\ \A b \in Blocks(g) : h.outgoing[b] = g.outgoing[b]
  BY <1>1, <1>2, <1>4, <1>5, AppendFacts, SMTT(30) DEF Blocks
<1>11. Block(h) = Block(g) \cup {n} /\ h.blocks \in Seq(Nat) /\ IsInjective(h.blocks)
  <2>3. n \notin ToSet(g.blocks)
    BY DEF GraphTypeOK, Block, Blocks
  <2>4. IsInjective(g.blocks)
    BY DEF GraphTypeOK
  <2>. HIDE DEF n
  <2>0. g.blocks \in Seq(Nat) /\ n \in Nat
    BY <1>1, <1>5
  <2>1. ToSet(Append(g.blocks, n)) = ToSet(g.blocks) \cup {n}
    BY <2>0, SetAppend
  <2>2. Append(g.blocks, n) \in Seq(Nat)
    BY <1>1, <1>5, AppendFacts
  <2>5. IsInjective(Append(g.blocks, n))
    BY <2>0, <2>3, <2>4, InjectiveAppend
  <2>. QED  BY <1>4, <2>1, <2>2, <2>5 DEF Block
<1>12. Blocks(h) = Blocks(g) \cup {n}
  <2>1. \A m \in Nat : 1 .. m + 1 = (1 .. m) \cup {m + 1}
    OBVIOUS
  <2>2. Len(g.instrs) \in Nat
    BY <1>1
  <2>3. Len(h.instrs) = Len(g.instrs) + 1
    BY <1>6
  <2>. QED  BY <2>1, <2>2, <2>3 DEF Blocks
<1>13. GraphTypeOK(h)
  <2>1. Block(h) \subseteq Blocks(h)
    BY <1>11, <1>12 DEF GraphTypeOK
  <2>2. ASSUME NEW b \in Blocks(h) PROVE ToSet(h.instrs[b]) \subseteq Instrs(h)
    <3>1. CASE b = n
      BY <1>6, <3>1 DEF ToSet
    <3>2. CASE b \in Blocks(g)
      BY <1>4, <1>6, <3>2, Zenon DEF GraphTypeOK, Instrs
    <3>. QED  BY <1>12, <3>1, <3>2
  <2>3. Len(h.edge) = Len(h.op) /\ h.op \in Seq(OpType) /\ h.edge \in Seq(EdgeType) /\ h.status \in Statuses
    BY <1>4 DEF GraphTypeOK
  <2>. HIDE DEF n
  <2>. QED  BY <1>3, <1>4, <1>5, <1>6, <1>7, <1>8, <1>9, <1>10, <1>11, <2>1, <2>2, <2>3, Zenon DEF GraphTypeOK
<1>. QED  BY <1>4, <1>6, <1>7, <1>8, <1>9, <1>10, <1>11, <1>13, Zenon DEF NewBlock, h

\* Assigning to an element of one of the vectors.
LEMMA ExceptFacts ==
  ASSUME NEW T, NEW s \in Seq(T), NEW k \in 1 .. Len(s), NEW e \in T
  PROVE  /\ [s EXCEPT ![k] = e] \in Seq(T) /\ Len([s EXCEPT ![k] = e]) = Len(s)
         /\ [s EXCEPT ![k] = e][k] = e
         /\ \A j \in 1 .. Len(s) : j # k => [s EXCEPT ![k] = e][j] = s[j]
BY ExceptSeq

\* A vector with another behind it.
LEMMA ConcatFacts ==
  ASSUME NEW T, NEW s \in Seq(T), NEW t \in Seq(T)
  PROVE  /\ s \o t \in Seq(T) /\ Len(s \o t) = Len(s) + Len(t)
         /\ \A k \in 1 .. Len(s) : (s \o t)[k] = s[k]
         /\ \A k \in 1 .. Len(t) : (s \o t)[Len(s) + k] = t[k]
BY ConcatProperties

-----------------------------------------------------------------------------
\* What decodeBlock() adds: a block of new instructions without edges.
Decodes(g, h, l) ==
  LET n == Len(g.instrs) + 1
      m == Len(g.op)
      c == Len(Decoded(l))
  IN  /\ GraphTypeOK(h)
      /\ Len(h.instrs) = n /\ Len(h.op) = m + c /\ h.status = g.status
      /\ Block(h) = Block(g) \cup {n}
      /\ h.entryBlock = EntryAfter(g, n)
      /\ \A b \in Blocks(g) : /\ h.instrs[b] = g.instrs[b]
                              /\ h.next[b] = g.next[b] /\ h.prev[b] = g.prev[b]
                              /\ h.incoming[b] = g.incoming[b] /\ h.outgoing[b] = g.outgoing[b]
      /\ h.next[n] = None /\ h.prev[n] = None
      /\ h.incoming[n] = {} /\ h.outgoing[n] = <<>>
      /\ h.instrs[n] = [k \in 1 .. c |-> m + k]
      /\ \A i \in Instrs(g) : h.op[i] = g.op[i] /\ h.edge[i] = g.edge[i]
      /\ \A k \in 1 .. c : /\ h.edge[m + k] = NoEdge
                           /\ h.op[m + k] = [at |-> Decoded(l)[k], kind |-> text[Decoded(l)[k]].kind,
                                             inv |-> FALSE]

\* Decoding makes a block of new instructions.
LEMMA DecodeBlockFacts ==
  ASSUME NEW g, GraphTypeOK(g), NEW l,
         Decoded(l) \in Seq(Nat), \A k \in DOMAIN Decoded(l) : text[Decoded(l)[k]].kind \in Kinds
  PROVE  Decodes(g, DecodeBlock(g, l), l)
<1>. DEFINE n == Len(g.instrs) + 1
            m == Len(g.op)
            code == Decoded(l)
            c == Len(code)
            a == AddBlock(g)
            new == [k \in DOMAIN code |-> m + k]
            ops == [k \in DOMAIN code |-> [at |-> code[k], kind |-> text[code[k]].kind, inv |-> FALSE]]
            es == [k \in DOMAIN code |-> NoEdge]
            h == DecodeBlock(g, l)
<1>1. NewBlock(g, a)
  BY AddBlockFacts
<1>2. m \in Nat /\ n \in Nat /\ c \in Nat /\ DOMAIN code = 1 .. c
  BY TypeFacts
<1>3. /\ DOMAIN a = Fields /\ GraphTypeOK(a) /\ Len(a.instrs) = n
      /\ a.instrs \in Seq(Seq(Nat)) /\ a.op \in Seq(OpType) /\ a.edge \in Seq(EdgeType)
      /\ Len(a.op) = m /\ Len(a.edge) = m
  BY <1>1, Zenon DEF NewBlock, GraphTypeOK
<1>4. new \in Seq(Nat) /\ Len(new) = c /\ \A k \in 1 .. c : new[k] = m + k
  BY <1>2
<1>5. ops \in Seq(OpType) /\ Len(ops) = c /\ \A k \in 1 .. c : ops[k] = [at |-> code[k], kind |-> text[code[k]].kind, inv |-> FALSE]
  <2>1. ASSUME NEW k \in 1 .. c
        PROVE  [at |-> code[k], kind |-> text[code[k]].kind, inv |-> FALSE] \in OpType
    BY <1>2 DEF OpType
  <2>2. ops \in [1 .. c -> OpType]
    BY <1>2, <2>1
  <2>. QED  BY <1>2, <2>2
<1>6. es \in Seq(EdgeType) /\ Len(es) = c /\ \A k \in 1 .. c : es[k] = NoEdge
  <2>1. NoEdge \in EdgeType
    BY DEF NoEdge, EdgeType, None
  <2>2. es \in [1 .. c -> EdgeType]
    BY <1>2, <2>1
  <2>. QED  BY <1>2, <2>2
<1>7. h = [a EXCEPT !.instrs[n] = new, !.op = @ \o ops, !.edge = @ \o es]
  BY DEF DecodeBlock
<1>. HIDE DEF a, new, ops, es, h, n, m, code, c
<1>8. DOMAIN h = Fields
  BY <1>3, <1>7 DEF Fields
<1>9. /\ h.instrs = [a.instrs EXCEPT ![n] = new] /\ h.op = a.op \o ops /\ h.edge = a.edge \o es
      /\ h.blocks = a.blocks /\ h.entryBlock = a.entryBlock /\ h.next = a.next /\ h.prev = a.prev
      /\ h.incoming = a.incoming /\ h.outgoing = a.outgoing /\ h.status = a.status
  BY <1>3, <1>7 DEF Fields
<1>10. /\ h.instrs \in Seq(Seq(Nat)) /\ Len(h.instrs) = n /\ h.instrs[n] = new
       /\ \A b \in 1 .. n : b # n => h.instrs[b] = a.instrs[b]
  <2>1. n \in 1 .. Len(a.instrs)
    BY <1>3, <1>2, TypeFacts DEF n
  <2>. QED  BY <1>3, <1>4, <1>9, <2>1, ExceptFacts
<1>11. /\ h.op \in Seq(OpType) /\ Len(h.op) = m + c
       /\ \A i \in 1 .. m : h.op[i] = a.op[i]
       /\ \A k \in 1 .. c : h.op[m + k] = ops[k]
  <2>1. a.op \in Seq(OpType) /\ ops \in Seq(OpType)
    BY <1>3, <1>5
  <2>2. /\ a.op \o ops \in Seq(OpType) /\ Len(a.op \o ops) = Len(a.op) + Len(ops)
        /\ \A k \in 1 .. Len(a.op) : (a.op \o ops)[k] = a.op[k]
        /\ \A k \in 1 .. Len(ops) : (a.op \o ops)[Len(a.op) + k] = ops[k]
    BY <2>1, ConcatFacts
  <2>. QED  BY <1>3, <1>5, <1>9, <2>2, Zenon
<1>12. /\ h.edge \in Seq(EdgeType) /\ Len(h.edge) = m + c
       /\ \A i \in 1 .. m : h.edge[i] = a.edge[i]
       /\ \A k \in 1 .. c : h.edge[m + k] = es[k]
  <2>1. a.edge \in Seq(EdgeType) /\ es \in Seq(EdgeType)
    BY <1>3, <1>6
  <2>2. /\ a.edge \o es \in Seq(EdgeType) /\ Len(a.edge \o es) = Len(a.edge) + Len(es)
        /\ \A k \in 1 .. Len(a.edge) : (a.edge \o es)[k] = a.edge[k]
        /\ \A k \in 1 .. Len(es) : (a.edge \o es)[Len(a.edge) + k] = es[k]
    BY <2>1, ConcatFacts
  <2>. QED  BY <1>3, <1>6, <1>9, <2>2, Zenon
<1>13. Blocks(h) = 1 .. n /\ Blocks(a) = 1 .. n /\ Instrs(h) = 1 .. m + c /\ Instrs(a) = 1 .. m
       /\ Blocks(g) = 1 .. n - 1 /\ Instrs(g) = 1 .. m
  <2>1. Len(g.instrs) \in Nat
    BY TypeFacts
  <2>. QED  BY <1>3, <1>10, <1>11, <2>1 DEF Blocks, Instrs, n, m
<1>14. GraphTypeOK(h)
  <2>1. Block(h) = Block(a)
    BY <1>9 DEF Block
  <2>2. ASSUME NEW b \in Blocks(h) PROVE ToSet(h.instrs[b]) \subseteq Instrs(h)
    <3>1. CASE b = n
      BY <1>2, <1>4, <1>10, <1>13, <3>1, SMTT(30) DEF ToSet
    <3>2. CASE b # n
      <4>1. ToSet(a.instrs[b]) \subseteq Instrs(a)
        BY <1>3, <1>13, Zenon DEF GraphTypeOK
      <4>2. Instrs(a) \subseteq Instrs(h)
        BY <1>2, <1>13
      <4>3. h.instrs[b] = a.instrs[b]
        BY <1>10, <1>13, <3>2
      <4>. QED  BY <4>1, <4>2, <4>3
    <3>. QED  BY <3>1, <3>2
  <2>. QED  BY <1>3, <1>8, <1>9, <1>10, <1>11, <1>12, <1>13, <2>1, <2>2, Zenon DEF GraphTypeOK
<1>15. \A b \in Blocks(g) : h.instrs[b] = a.instrs[b]
  BY <1>2, <1>10, <1>13
<1>16. h.instrs[n] = [k \in 1 .. c |-> m + k]
  BY <1>2, <1>10 DEF new
<1>17. \A k \in 1 .. c : /\ h.edge[m + k] = NoEdge
                         /\ h.op[m + k] = [at |-> code[k], kind |-> text[code[k]].kind, inv |-> FALSE]
  BY <1>5, <1>6, <1>11, <1>12, Zenon
<1>18. Block(h) = Block(g) \cup {n}
  BY <1>1, <1>9 DEF Block, NewBlock, n
<1>19. \A b \in Blocks(g) : /\ h.instrs[b] = g.instrs[b]
                            /\ h.next[b] = g.next[b] /\ h.prev[b] = g.prev[b]
                            /\ h.incoming[b] = g.incoming[b] /\ h.outgoing[b] = g.outgoing[b]
  BY <1>1, <1>9, <1>15 DEF NewBlock
<1>20. /\ h.next[n] = None /\ h.prev[n] = None /\ h.incoming[n] = {} /\ h.outgoing[n] = <<>>
       /\ h.status = g.status /\ h.entryBlock = EntryAfter(g, n)
  BY <1>1, <1>9 DEF NewBlock, n
<1>21. \A i \in Instrs(g) : h.op[i] = g.op[i] /\ h.edge[i] = g.edge[i]
  BY <1>1, <1>11, <1>12, <1>13 DEF NewBlock
<1>22. Len(h.instrs) = n /\ Len(h.op) = m + c
  BY <1>10, <1>11
<1>. QED  BY <1>14, <1>16, <1>17, <1>18, <1>19, <1>20, <1>21, <1>22, Zenon DEF Decodes, n, m, c, code, h

\* Nothing is linked to a block just decoded (ICFGReconstructionPass.hpp: its
\* branches are wired up later).
LEMMA DecodeLinks ==
  ASSUME NEW g, GraphTypeOK(g), LinksOK(g), NEW l, NEW h, Decodes(g, h, l)
  PROVE  LinksOK(h) /\ Linked(h) = Linked(g)
<1>. DEFINE n == Len(g.instrs) + 1
            m == Len(g.op)
            c == Len(Decoded(l))
            new == ToSet(h.instrs[n])
<1>1. /\ Block(h) = Block(g) \cup {n} /\ Block(g) \subseteq Blocks(g) /\ n \notin Block(g)
      /\ GraphTypeOK(h) /\ m \in Nat /\ c \in Nat
  BY TypeFacts DEF Decodes, Blocks
<1>2. new = m + 1 .. m + c /\ IsInjective(h.instrs[n])
  <2>1. h.instrs[n] = [k \in 1 .. c |-> m + k]
    BY DEF Decodes
  <2>2. \A i \in m + 1 .. m + c : i - m \in 1 .. c /\ i = m + (i - m)
    BY <1>1
  <2>. HIDE DEF n, m, c
  <2>3. IsInjective(h.instrs[n])
    BY <1>1, <2>1 DEF IsInjective
  <2>4. new = m + 1 .. m + c
    BY <1>1, <2>1, <2>2 DEF ToSet
  <2>. QED  BY <2>3, <2>4
<1>3. Instrs(g) = 1 .. m /\ Instrs(h) = 1 .. m + c /\ Instrs(h) = Instrs(g) \cup new /\ new \cap Instrs(g) = {}
  <2>1. Instrs(g) = 1 .. m /\ Instrs(h) = 1 .. m + c
    BY DEF Instrs, Decodes
  <2>. HIDE DEF m, c, new
  <2>. QED  BY <1>1, <1>2, <2>1
<1>4. \A i \in Instrs(g) : h.op[i] = g.op[i] /\ h.edge[i] = g.edge[i]
  BY DEF Decodes
<1>5. \A i \in new : h.edge[i] = NoEdge
  <2>1. \A k \in 1 .. c : h.edge[m + k] = NoEdge
    BY Zenon DEF Decodes
  <2>2. \A i \in m + 1 .. m + c : i - m \in 1 .. c /\ i = m + (i - m)
    BY <1>1
  <2>. HIDE DEF m, c, new
  <2>. QED  BY <1>2, <2>1, <2>2
<1>6. \A b \in Block(g) : /\ h.instrs[b] = g.instrs[b]
                          /\ h.next[b] = g.next[b] /\ h.prev[b] = g.prev[b]
                          /\ h.incoming[b] = g.incoming[b] /\ h.outgoing[b] = g.outgoing[b]
                          /\ h.instrs[b] \in Seq(Nat) /\ ToSet(h.instrs[b]) \subseteq Instrs(g)
                          /\ g.next[b] # n /\ g.prev[b] # n
  <2>1. \A b \in Block(g) : g.instrs[b] \in Seq(Nat) /\ ToSet(g.instrs[b]) \subseteq Instrs(g)
    BY <1>1, TypeFacts, Zenon DEF GraphTypeOK
  <2>2. \A b \in Block(g) : g.next[b] # n /\ g.prev[b] # n
    BY <1>1 DEF LinksOK, NextOK, PrevOK, Blocks, None
  <2>. QED  BY <1>1, <2>1, <2>2 DEF Decodes
<1>7. /\ h.next[n] = None /\ h.prev[n] = None /\ h.incoming[n] = {} /\ h.outgoing[n] = <<>>
      /\ h.instrs[n] \in Seq(Nat)
  BY <1>1, TypeFacts DEF Decodes
<1>. HIDE DEF n, m, c, new
<1>8. Linked(h) = Linked(g)
  <2>1. DOMAIN h.op = Instrs(h) /\ DOMAIN g.op = Instrs(g)
    BY <1>1, TypeFacts
  <2>2. \A i \in new : ~HasEdge(h, i)
    BY <1>5 DEF HasEdge
  <2>3. \A i \in Instrs(g) : (HasEdge(h, i) <=> HasEdge(g, i)) /\ (IsBranch(h, i) <=> IsBranch(g, i))
    BY <1>4 DEF HasEdge, IsBranch
  <2>. QED  BY <1>3, <2>1, <2>2, <2>3 DEF Linked
<1>9. Owned(h) = Owned(g) \cup new /\ Owned(g) \subseteq Instrs(g)
  <2>1. Owned(g) \subseteq Instrs(g)
    BY TypeFacts
  <2>2. ToSet(h.instrs[n]) = new
    BY DEF new
  <2>3. \A b \in Block(g) : ToSet(h.instrs[b]) = ToSet(g.instrs[b])
    BY <1>6
  <2>. QED  BY <1>1, <2>1, <2>2, <2>3 DEF Owned
<1>10. OutgoingOK(h)
  <2>1. Only(h.instrs[n], Linked(h)) = <<>>
    <3>1. new \cap Linked(h) = {}
      BY <1>3, <1>8, TypeFacts, Zenon
    <3>. QED  BY <1>7, <3>1, OnlyAll DEF new
  <2>. QED  BY <1>1, <1>6, <1>7, <1>8, <2>1 DEF OutgoingOK, LinksOK
<1>11. SourcesOK(h)
  BY <1>1, <1>4, <1>5, <1>6 DEF SourcesOK, LinksOK, HasEdge, new
<1>12. TargetsOK(h)
  <2>1. \A i \in Owned(g) : i \in Linked(g) => g.edge[i].dst \in Block(g)
    BY DEF TargetsOK, LinksOK
  <2>2. new \cap Linked(h) = {}
    BY <1>3, <1>8, TypeFacts, Zenon
  <2>. QED  BY <1>1, <1>4, <1>8, <1>9, <2>1, <2>2 DEF TargetsOK
<1>13. IncomingOK(h)
  <2>. SUFFICES ASSUME NEW b \in Block(h), NEW i \in Nat
                PROVE  i \in h.incoming[b] <=> i \in Owned(h) /\ IsBranch(h, i) /\ h.edge[i].dst = b
    BY DEF IncomingOK
  <2>1. b # None
    BY <1>1, TypeFacts
  <2>2. i \in new => h.edge[i].dst # b
    BY <1>5, <2>1 DEF NoEdge
  <2>3. CASE b \in Block(g)
    <3>1. i \in g.incoming[b] <=> i \in Owned(g) /\ IsBranch(g, i) /\ g.edge[i].dst = b
      BY <2>3 DEF IncomingOK, LinksOK
    <3>. QED  BY <1>4, <1>6, <1>9, <2>2, <2>3, <3>1 DEF IsBranch
  <2>4. CASE b = n
    <3>1. i \in Owned(g) /\ IsBranch(g, i) => g.edge[i].dst # n
      <4>. SUFFICES ASSUME i \in Owned(g), IsBranch(g, i), g.edge[i].dst = n PROVE FALSE
        OBVIOUS
      <4>1. HasEdge(g, i)
        BY <2>1, <2>4 DEF HasEdge, NoEdge
      <4>2. i \in Linked(g)
        BY <1>9, <4>1, TypeFacts DEF Linked
      <4>. QED  BY <1>1, <4>2 DEF TargetsOK, LinksOK
    <3>. QED  BY <1>4, <1>7, <1>9, <2>2, <2>4, <3>1 DEF IsBranch
  <2>. QED  BY <1>1, <2>3, <2>4
<1>14. NextOK(h)
  <2>1. \A b \in Block(g) : g.next[b] # None => g.next[b] \in Block(g) /\ g.prev[g.next[b]] = b
    BY DEF NextOK, LinksOK
  <2>2. ASSUME NEW b \in Block(g), h.next[b] # None
        PROVE  h.next[b] \in Block(h) /\ h.prev[h.next[b]] = b
    BY <1>1, <1>6, <2>1, <2>2
  <2>. QED  BY <1>1, <1>7, <2>2 DEF NextOK
<1>15. PrevOK(h)
  BY <1>1, <1>6, <1>7 DEF PrevOK, LinksOK
<1>16. OnceOK(h)
  BY <1>1, <1>2, <1>6 DEF OnceOK, LinksOK
<1>17. ApartOK(h)
  BY <1>1, <1>3, <1>6, Zenon DEF ApartOK, LinksOK, new
<1>. QED  BY <1>8, <1>10, <1>11, <1>12, <1>13, <1>14, <1>15, <1>16, <1>17 DEF LinksOK

-----------------------------------------------------------------------------
\* A vector given by its elements.
LEMMA VectorFacts ==
  ASSUME NEW T, NEW n \in Nat, NEW w, w = [k \in 1 .. n |-> w[k]], \A k \in 1 .. n : w[k] \in T
  PROVE  w \in Seq(T) /\ Len(w) = n
<1>1. w \in [1 .. n -> T]
  OBVIOUS
<1>. QED  BY <1>1

\* What does not touch instructions and edges keeps them consistent.
SameEdges(g, h) ==
  /\ Block(h) = Block(g) /\ h.instrs = g.instrs /\ h.edge = g.edge
  /\ h.incoming = g.incoming /\ h.outgoing = g.outgoing
  /\ Linked(h) = Linked(g) /\ \A i \in Instrs(g) : IsBranch(h, i) <=> IsBranch(g, i)

\* Nothing about edges changes if they and the instructions stay.
LEMMA SameEdgesFacts ==
  ASSUME NEW g, NEW h, GraphTypeOK(g), SameEdges(g, h)
  PROVE  /\ Owned(h) = Owned(g)
         /\ OutgoingOK(g) => OutgoingOK(h)
         /\ SourcesOK(g) => SourcesOK(h)
         /\ TargetsOK(g) => TargetsOK(h)
         /\ IncomingOK(g) => IncomingOK(h)
         /\ OnceOK(g) => OnceOK(h)
         /\ ApartOK(g) => ApartOK(h)
<1>1. Owned(h) = Owned(g)
  BY DEF SameEdges, Owned
<1>2. OutgoingOK(g) => OutgoingOK(h)
  BY DEF SameEdges, OutgoingOK
<1>3. SourcesOK(g) => SourcesOK(h)
  BY DEF SameEdges, SourcesOK, HasEdge
<1>4. TargetsOK(g) => TargetsOK(h)
  BY <1>1 DEF SameEdges, TargetsOK
<1>5. IncomingOK(g) => IncomingOK(h)
  <2>1. Owned(g) \subseteq Instrs(g)
    BY TypeFacts
  <2>. QED  BY <1>1, <2>1 DEF SameEdges, IncomingOK
<1>6. (OnceOK(g) => OnceOK(h)) /\ (ApartOK(g) => ApartOK(h))
  BY DEF SameEdges, OnceOK, ApartOK
<1>. QED  BY <1>1, <1>2, <1>3, <1>4, <1>5, <1>6

\* drob_assert(): a failing one only changes the status.
LEMMA CheckFacts ==
  ASSUME NEW g, GraphTypeOK(g), NEW c
  PROVE  LET h == Check(g, c)
         IN  /\ GraphTypeOK(h) /\ SameEdges(g, h) /\ Linked(h) = Linked(g)
             /\ h.instrs = g.instrs /\ h.next = g.next /\ h.prev = g.prev
             /\ h.op = g.op /\ h.edge = g.edge /\ h.incoming = g.incoming /\ h.outgoing = g.outgoing
             /\ h.blocks = g.blocks /\ h.entryBlock = g.entryBlock
             /\ h.status = "ok" => c /\ g.status = "ok"
             /\ LinksOK(g) => LinksOK(h)
<1>. DEFINE h == Check(g, c)
<1>1. DOMAIN g = Fields
  BY DEF GraphTypeOK
<1>2. DOMAIN h = Fields
  BY <1>1 DEF Check
<1>3. /\ h.blocks = g.blocks /\ h.entryBlock = g.entryBlock /\ h.instrs = g.instrs
      /\ h.next = g.next /\ h.prev = g.prev /\ h.op = g.op /\ h.edge = g.edge
      /\ h.incoming = g.incoming /\ h.outgoing = g.outgoing
      /\ h.status = IF c THEN g.status ELSE "thrown"
  BY <1>1 DEF Check, Fields
<1>. HIDE DEF h
<1>4. Blocks(h) = Blocks(g) /\ Instrs(h) = Instrs(g) /\ Block(h) = Block(g) /\ Linked(h) = Linked(g)
  BY <1>3 DEF Blocks, Instrs, Block, Linked, IsBranch, HasEdge
<1>5. GraphTypeOK(h)
  BY <1>2, <1>3, <1>4 DEF GraphTypeOK, Statuses
<1>6. SameEdges(g, h)
  BY <1>3, <1>4 DEF SameEdges, IsBranch
<1>7. LinksOK(g) => LinksOK(h)
  BY <1>3, <1>4, <1>6, SameEdgesFacts DEF LinksOK, NextOK, PrevOK
<1>8. h.status = "ok" => c /\ g.status = "ok"
  BY <1>3
<1>. QED  BY <1>3, <1>4, <1>5, <1>6, <1>7, <1>8 DEF h

-----------------------------------------------------------------------------
\* Connect() may only be used for the branch behind all that have an edge.
ConnectsLast(g, i, s) == Only(g.instrs[s], Linked(g) \cup {i}) = Append(Only(g.instrs[s], Linked(g)), i)

Connects(g, h, i, s, d) ==
  /\ GraphTypeOK(h) /\ LinksOK(h) /\ Linked(h) = Linked(g) \cup {i}
  /\ h.instrs = g.instrs /\ h.next = g.next /\ h.prev = g.prev /\ h.op = g.op
  /\ h.blocks = g.blocks /\ h.entryBlock = g.entryBlock /\ h.status = g.status
  /\ h.edge[i] = [src |-> s, dst |-> d]
  /\ \A j \in Instrs(g) : j # i => h.edge[j] = g.edge[j]

\* A branch gets its edge, at the end of its block's list.
LEMMA ConnectLinks ==
  ASSUME NEW g, GraphTypeOK(g), LinksOK(g),
         NEW s \in Block(g), NEW d \in Block(g), NEW i \in ToSet(g.instrs[s]),
         IsBranch(g, i), ~HasEdge(g, i), ConnectsLast(g, i, s)
  PROVE  Connects(g, Connect(g, i, s, d), i, s, d)
<1>. DEFINE h == Connect(g, i, s, d)
            e == [src |-> s, dst |-> d]
<1>1. /\ s \in Blocks(g) /\ d \in Blocks(g) /\ i \in Instrs(g) /\ s \in Nat /\ d \in Nat /\ i \in Nat
      /\ s # None /\ d # None
  <2>1. s \in Blocks(g) /\ d \in Blocks(g) /\ i \in Instrs(g)
    BY DEF GraphTypeOK
  <2>. QED  BY <2>1, TypeFacts
<1>2. e \in EdgeType /\ e.src = s /\ e.dst = d /\ e # NoEdge
  BY <1>1 DEF EdgeType, NoEdge
<1>3. /\ DOMAIN g = Fields /\ g.edge \in Seq(EdgeType) /\ g.outgoing \in Seq(Seq(Nat))
      /\ g.incoming \in Seq(SUBSET Nat)
      /\ i \in 1 .. Len(g.edge) /\ s \in 1 .. Len(g.outgoing) /\ d \in 1 .. Len(g.incoming)
      /\ g.outgoing[s] \in Seq(Nat) /\ g.incoming[d] \in SUBSET Nat
  <2>1. g.outgoing[s] \in Seq(Nat) /\ g.incoming[d] \in SUBSET Nat
    BY <1>1, TypeFacts
  <2>. QED  BY <1>1, <2>1, Zenon DEF GraphTypeOK, Blocks, Instrs
<1>4. DOMAIN h = Fields
  BY <1>3 DEF Connect
<1>5. /\ h.edge = [g.edge EXCEPT ![i] = e]
      /\ h.outgoing = [g.outgoing EXCEPT ![s] = Append(g.outgoing[s], i)]
      /\ h.incoming = [g.incoming EXCEPT ![d] = g.incoming[d] \cup {i}]
      /\ h.instrs = g.instrs /\ h.next = g.next /\ h.prev = g.prev /\ h.op = g.op
      /\ h.blocks = g.blocks /\ h.entryBlock = g.entryBlock /\ h.status = g.status
  BY <1>3 DEF Connect, Fields
<1>. HIDE DEF h, e
<1>6. /\ h.edge \in Seq(EdgeType) /\ Len(h.edge) = Len(g.edge) /\ h.edge[i] = e
      /\ \A j \in Instrs(g) : j # i => h.edge[j] = g.edge[j]
  <2>1. Instrs(g) = 1 .. Len(g.edge)
    BY DEF GraphTypeOK, Instrs
  <2>. QED  BY <1>2, <1>3, <1>5, <2>1, ExceptFacts, SMTT(30)
<1>7. /\ h.outgoing \in Seq(Seq(Nat)) /\ Len(h.outgoing) = Len(g.outgoing)
      /\ h.outgoing[s] = Append(g.outgoing[s], i)
      /\ \A b \in Blocks(g) : b # s => h.outgoing[b] = g.outgoing[b]
  <2>1. Blocks(g) = 1 .. Len(g.outgoing)
    BY DEF GraphTypeOK, Blocks
  <2>2. Append(g.outgoing[s], i) \in Seq(Nat)
    BY <1>1, <1>3, AppendFacts
  <2>. QED  BY <1>3, <1>5, <2>1, <2>2, ExceptFacts, SMTT(30)
<1>8. /\ h.incoming \in Seq(SUBSET Nat) /\ Len(h.incoming) = Len(g.incoming)
      /\ h.incoming[d] = g.incoming[d] \cup {i}
      /\ \A b \in Blocks(g) : b # d => h.incoming[b] = g.incoming[b]
  <2>1. Blocks(g) = 1 .. Len(g.incoming)
    BY DEF GraphTypeOK, Blocks
  <2>2. g.incoming[d] \cup {i} \in SUBSET Nat
    BY <1>1, <1>3, Zenon
  <2>. QED  BY <1>3, <1>5, <2>1, <2>2, ExceptFacts, SMTT(30)
<1>9. Blocks(h) = Blocks(g) /\ Instrs(h) = Instrs(g) /\ Block(h) = Block(g) /\ Owned(h) = Owned(g)
  BY <1>5 DEF Blocks, Instrs, Block, Owned
<1>10. GraphTypeOK(h)
  BY <1>4, <1>5, <1>6, <1>7, <1>8, <1>9, Zenon DEF GraphTypeOK
<1>11. Linked(h) = Linked(g) \cup {i}
  <2>1. DOMAIN h.op = Instrs(g) /\ DOMAIN g.op = Instrs(g)
    BY <1>5, TypeFacts
  <2>. QED  BY <1>1, <1>2, <1>5, <1>6, <2>1 DEF Linked, IsBranch, HasEdge
<1>12. \A b \in Block(g) : b \in Blocks(g) /\ ToSet(g.instrs[b]) \subseteq Instrs(g) /\ (b # s => i \notin ToSet(g.instrs[b]))
  BY Zenon DEF GraphTypeOK, LinksOK, ApartOK
<1>13. OutgoingOK(h)
  <2>. SUFFICES ASSUME NEW b \in Block(g) PROVE h.outgoing[b] = Only(g.instrs[b], Linked(h))
    BY <1>5, <1>9 DEF OutgoingOK
  <2>1. g.outgoing[b] = Only(g.instrs[b], Linked(g)) /\ b \in Blocks(g) /\ g.instrs[b] \in Seq(Nat)
    BY <1>12, TypeFacts DEF LinksOK, OutgoingOK
  <2>2. CASE b = s
    BY <1>7, <1>11, <2>1, <2>2, Zenon DEF ConnectsLast
  <2>3. CASE b # s
    <3>1. ToSet(g.instrs[b]) \cap Linked(h) = ToSet(g.instrs[b]) \cap Linked(g)
      BY <1>11, <1>12, <2>3
    <3>2. Only(g.instrs[b], Linked(h)) = Only(g.instrs[b], Linked(g))
      BY <2>1, <3>1, OnlySame
    <3>. QED  BY <1>7, <2>1, <2>3, <3>2
  <2>. QED  BY <2>2, <2>3
<1>14. SourcesOK(h)
  BY <1>2, <1>5, <1>6, <1>9, <1>12 DEF LinksOK, SourcesOK, HasEdge
<1>15. TargetsOK(h)
  <2>1. Owned(g) \subseteq Instrs(g)
    BY TypeFacts
  <2>. QED  BY <1>2, <1>6, <1>9, <1>11, <2>1 DEF LinksOK, TargetsOK
<1>16. IncomingOK(h)
  <2>. SUFFICES ASSUME NEW b \in Block(g), NEW j \in Nat
                PROVE  j \in h.incoming[b] <=> j \in Owned(g) /\ IsBranch(h, j) /\ h.edge[j].dst = b
    BY <1>9 DEF IncomingOK
  <2>1. /\ j \in g.incoming[b] <=> j \in Owned(g) /\ IsBranch(g, j) /\ g.edge[j].dst = b
        /\ b \in Blocks(g) /\ b # None /\ (IsBranch(h, j) <=> IsBranch(g, j)) /\ Owned(g) \subseteq Instrs(g)
    BY <1>5, <1>12, TypeFacts, Zenon DEF LinksOK, IncomingOK, IsBranch
  <2>2. i \in Owned(g) /\ g.edge[i].dst # b
    <3>1. g.edge[i] = NoEdge
      BY DEF HasEdge
    <3>. QED  BY <2>1, <3>1 DEF Owned, NoEdge
  <2>3. j \in h.incoming[b] <=> j \in g.incoming[b] \/ (j = i /\ b = d)
    BY <1>8, <2>1
  <2>4. CASE j = i
    BY <1>2, <1>6, <2>1, <2>2, <2>3, <2>4
  <2>5. CASE j # i
    BY <1>6, <2>1, <2>3, <2>5
  <2>. QED  BY <2>4, <2>5
<1>17. NextOK(h) /\ PrevOK(h)
  BY <1>5, <1>9 DEF LinksOK, NextOK, PrevOK
<1>18. OnceOK(h) /\ ApartOK(h)
  BY <1>5, <1>9 DEF LinksOK, OnceOK, ApartOK
<1>19. LinksOK(h)
  BY <1>13, <1>14, <1>15, <1>16, <1>17, <1>18 DEF LinksOK
<1>. QED  BY <1>5, <1>6, <1>10, <1>11, <1>19 DEF Connects, h, e

-----------------------------------------------------------------------------
\* The jump unchainNext() appends, before it is connected: block b is followed
\* by none, and j its last instruction.
Unchained(g, b) ==
  LET n == g.next[b]
      j == Len(g.op) + 1
  IN  [g EXCEPT !.op = Append(@, [at |-> None, kind |-> "jmp", inv |-> FALSE]),
                !.edge = Append(@, NoEdge),
                !.instrs[b] = Append(@, j),
                !.next[b] = None, !.prev[n] = None]

\* A jump at the end of a block replaces its chain.
LEMMA UnchainedLinks ==
  ASSUME NEW g, GraphTypeOK(g), LinksOK(g), NEW b \in Block(g), g.next[b] # None
  PROVE  LET h == Unchained(g, b)
             j == Len(g.op) + 1
         IN  /\ GraphTypeOK(h) /\ LinksOK(h) /\ Linked(h) = Linked(g) /\ Block(h) = Block(g)
             /\ h.instrs[b] = Append(g.instrs[b], j) /\ j \notin Instrs(g)
             /\ \A c \in Block(g) : c # b => h.instrs[c] = g.instrs[c]
             /\ \A c \in Block(g) : h.next[c] = IF c = b THEN None ELSE g.next[c]
             /\ \A i \in Instrs(g) : h.op[i] = g.op[i] /\ h.edge[i] = g.edge[i]
             /\ IsBranch(h, j) /\ ~HasEdge(h, j) /\ h.op[j].kind = "jmp"
             /\ h.blocks = g.blocks /\ h.entryBlock = g.entryBlock /\ h.status = g.status
             /\ Len(h.op) = j /\ h.outgoing = g.outgoing /\ Len(h.instrs) = Len(g.instrs)
<1>. DEFINE h == Unchained(g, b)
            n == g.next[b]
            j == Len(g.op) + 1
            o == [at |-> None, kind |-> "jmp", inv |-> FALSE]
<1>1. /\ b \in Blocks(g) /\ n \in Block(g) /\ n \in Blocks(g) /\ g.prev[n] = b
      /\ j \in Nat /\ g.instrs[b] \in Seq(Nat) /\ j \notin Instrs(g)
  <2>1. b \in Blocks(g) /\ n \in Block(g) /\ n \in Blocks(g) /\ g.prev[n] = b
    BY Zenon DEF GraphTypeOK, LinksOK, NextOK
  <2>. QED  BY <2>1, TypeFacts DEF Instrs
<1>2. /\ o \in OpType /\ NoEdge \in EdgeType /\ o.kind = "jmp" /\ None \in Nat
  BY DEF OpType, NoEdge, EdgeType, None, Kinds, Branches
<1>3. /\ DOMAIN g = Fields /\ g.edge \in Seq(EdgeType) /\ g.op \in Seq(OpType) /\ g.instrs \in Seq(Seq(Nat))
      /\ g.next \in Seq(Nat) /\ g.prev \in Seq(Nat)
      /\ b \in 1 .. Len(g.instrs) /\ b \in 1 .. Len(g.next) /\ n \in 1 .. Len(g.prev)
      /\ Len(g.edge) = Len(g.op) /\ Len(g.op) \in Nat /\ Len(g.instrs) \in Nat
      /\ Len(g.next) = Len(g.instrs) /\ Len(g.prev) = Len(g.instrs)
  BY <1>1, TypeFacts, Zenon DEF GraphTypeOK, Blocks
<1>4. DOMAIN h = Fields
  BY <1>3 DEF Unchained
<1>5. /\ h.op = Append(g.op, o) /\ h.edge = Append(g.edge, NoEdge)
      /\ h.instrs = [g.instrs EXCEPT ![b] = Append(g.instrs[b], j)]
      /\ h.next = [g.next EXCEPT ![b] = None] /\ h.prev = [g.prev EXCEPT ![n] = None]
      /\ h.incoming = g.incoming /\ h.outgoing = g.outgoing
      /\ h.blocks = g.blocks /\ h.entryBlock = g.entryBlock /\ h.status = g.status
  BY <1>3, Zenon DEF Unchained, Fields
<1>. HIDE DEF h, o, n
<1>6. /\ h.op \in Seq(OpType) /\ Len(h.op) = j /\ h.op[j] = o
      /\ \A i \in Instrs(g) : h.op[i] = g.op[i]
  <2>1. g.op \in Seq(OpType) /\ o \in OpType
    BY <1>2, <1>3
  <2>2. /\ Append(g.op, o) \in Seq(OpType) /\ Len(Append(g.op, o)) = Len(g.op) + 1
        /\ Append(g.op, o)[Len(g.op) + 1] = o
        /\ \A i \in 1 .. Len(g.op) : Append(g.op, o)[i] = g.op[i]
    BY <2>1, AppendFacts
  <2>. QED  BY <1>5, <2>2 DEF Instrs
<1>7. /\ h.edge \in Seq(EdgeType) /\ Len(h.edge) = j /\ h.edge[j] = NoEdge
      /\ \A i \in Instrs(g) : h.edge[i] = g.edge[i]
  <2>1. g.edge \in Seq(EdgeType) /\ NoEdge \in EdgeType
    BY <1>2, <1>3
  <2>2. /\ Append(g.edge, NoEdge) \in Seq(EdgeType) /\ Len(Append(g.edge, NoEdge)) = Len(g.edge) + 1
        /\ Append(g.edge, NoEdge)[Len(g.edge) + 1] = NoEdge
        /\ \A i \in 1 .. Len(g.edge) : Append(g.edge, NoEdge)[i] = g.edge[i]
    BY <2>1, AppendFacts
  <2>. QED  BY <1>3, <1>5, <2>2 DEF Instrs
<1>8. /\ h.instrs \in Seq(Seq(Nat)) /\ Len(h.instrs) = Len(g.instrs)
      /\ h.instrs[b] = Append(g.instrs[b], j)
      /\ \A c \in Blocks(g) : c # b => h.instrs[c] = g.instrs[c]
  <2>. HIDE DEF j
  <2>0. g.instrs[b] \in Seq(Nat) /\ j \in Nat
    BY <1>1
  <2>1. Append(g.instrs[b], j) \in Seq(Nat)
    BY <2>0, AppendFacts
  <2>. DEFINE w == Append(g.instrs[b], j)
  <2>2. w \in Seq(Nat) /\ h.instrs = [g.instrs EXCEPT ![b] = w]
    BY <1>5, <2>1
  <2>3. Blocks(g) = 1 .. Len(g.instrs) /\ g.instrs \in Seq(Seq(Nat)) /\ b \in 1 .. Len(g.instrs)
    BY <1>3 DEF Blocks
  <2>. HIDE DEF w
  <2>4. /\ h.instrs \in Seq(Seq(Nat)) /\ Len(h.instrs) = Len(g.instrs) /\ h.instrs[b] = w
        /\ \A c \in Blocks(g) : c # b => h.instrs[c] = g.instrs[c]
    BY <2>2, <2>3, ExceptFacts
  <2>. QED  BY <2>4 DEF w
<1>9. /\ h.next \in Seq(Nat) /\ Len(h.next) = Len(g.instrs)
      /\ \A c \in Blocks(g) : h.next[c] = IF c = b THEN None ELSE g.next[c]
  <2>1. /\ g.next \in Seq(Nat) /\ None \in Nat /\ b \in 1 .. Len(g.next) /\ Blocks(g) = 1 .. Len(g.next)
        /\ h.next = [g.next EXCEPT ![b] = None] /\ Len(g.next) = Len(g.instrs)
    BY <1>2, <1>3, <1>5 DEF Blocks
  <2>. QED  BY <2>1, ExceptFacts
<1>10. /\ h.prev \in Seq(Nat) /\ Len(h.prev) = Len(g.instrs)
       /\ \A c \in Blocks(g) : h.prev[c] = IF c = n THEN None ELSE g.prev[c]
  <2>1. /\ g.prev \in Seq(Nat) /\ None \in Nat /\ n \in 1 .. Len(g.prev) /\ Blocks(g) = 1 .. Len(g.prev)
        /\ h.prev = [g.prev EXCEPT ![n] = None] /\ Len(g.prev) = Len(g.instrs)
    BY <1>2, <1>3, <1>5 DEF Blocks
  <2>. QED  BY <2>1, ExceptFacts
<1>11. /\ Blocks(h) = Blocks(g) /\ Block(h) = Block(g) /\ Instrs(h) = Instrs(g) \cup {j}
       /\ Block(g) \subseteq Blocks(g) /\ Linked(g) \subseteq Instrs(g)
       /\ \A c \in Block(g) : g.instrs[c] \in Seq(Nat) /\ ToSet(g.instrs[c]) \subseteq Instrs(g)
  <2>1. Instrs(h) = Instrs(g) \cup {j}
    <3>1. Instrs(h) = 1 .. j /\ Instrs(g) = 1 .. Len(g.op) /\ Len(g.op) \in Nat
      BY <1>3, <1>6 DEF Instrs
    <3>. QED  BY <3>1
  <2>. QED  BY <1>5, <1>8, <2>1, TypeFacts, Zenon DEF Blocks, Block, GraphTypeOK
<1>12. ToSet(h.instrs[b]) = ToSet(g.instrs[b]) \cup {j}
  <2>. HIDE DEF j
  <2>1. g.instrs[b] \in Seq(Nat) /\ j \in Nat
    BY <1>1
  <2>2. ToSet(Append(g.instrs[b], j)) = ToSet(g.instrs[b]) \cup {j}
    BY <2>1, SetAppend
  <2>. QED  BY <1>8, <2>2
<1>13. GraphTypeOK(h)
  <2>1. ASSUME NEW c \in Blocks(h) PROVE ToSet(h.instrs[c]) \subseteq Instrs(h)
    <3>1. ToSet(g.instrs[c]) \subseteq Instrs(g)
      BY <1>11 DEF GraphTypeOK
    <3>. QED  BY <1>8, <1>11, <1>12, <3>1, Zenon
  <2>. HIDE DEF j
  <2>. QED  BY <1>4, <1>5, <1>6, <1>7, <1>8, <1>9, <1>10, <1>11, <2>1, Zenon DEF GraphTypeOK
<1>. HIDE DEF j
<1>14. Linked(h) = Linked(g)
  <2>1. DOMAIN h.op = Instrs(h) /\ DOMAIN g.op = Instrs(g)
    BY <1>13, TypeFacts
  <2>. QED  BY <1>1, <1>6, <1>7, <1>11, <2>1 DEF Linked, IsBranch, HasEdge
<1>15. Owned(h) = Owned(g) \cup {j} /\ j \notin Owned(g)
  <2>1. \A c \in Block(g) : ToSet(h.instrs[c]) = IF c = b THEN ToSet(g.instrs[b]) \cup {j} ELSE ToSet(g.instrs[c])
    BY <1>8, <1>11, <1>12, Zenon
  <2>2. Owned(g) \subseteq Instrs(g)
    BY TypeFacts
  <2>. QED  BY <1>1, <1>11, <2>1, <2>2 DEF Owned
<1>16. OutgoingOK(h)
  <2>. SUFFICES ASSUME NEW c \in Block(g) PROVE h.outgoing[c] = Only(h.instrs[c], Linked(h))
    BY <1>11 DEF OutgoingOK
  <2>1. g.outgoing[c] = Only(g.instrs[c], Linked(g)) /\ c \in Blocks(g)
    BY <1>11 DEF LinksOK, OutgoingOK
  <2>2. CASE c = b
    <3>0. g.instrs[b] \in Seq(Nat) /\ j \in Nat /\ j \notin Linked(g)
      BY <1>1, <1>11
    <3>1. Only(Append(g.instrs[b], j), Linked(g)) = Only(g.instrs[b], Linked(g))
      <4>. DEFINE s == g.instrs[b]
                  L == Linked(g)
      <4>1. s \in Seq(Nat) /\ j \in Nat /\ j \notin L
        BY <3>0
      <4>. HIDE DEF s, L
      <4>2. Only(Append(s, j), L) = Only(s, L)
        BY <4>1, OnlyAppend
      <4>. QED  BY <4>2 DEF s, L
    <3>. QED  BY <1>5, <1>8, <1>14, <2>1, <2>2, <3>1
  <2>3. CASE c # b
    BY <1>5, <1>8, <1>14, <2>1, <2>3
  <2>. QED  BY <2>2, <2>3
<1>17. SourcesOK(h)
  <2>. SUFFICES ASSUME NEW c \in Block(g), NEW i \in ToSet(h.instrs[c]), HasEdge(h, i)
                PROVE  h.edge[i].src = c
    BY <1>11 DEF SourcesOK
  <2>1. i # j
    BY <1>7 DEF HasEdge
  <2>2. i \in ToSet(g.instrs[c])
    <3>1. c = b \/ h.instrs[c] = g.instrs[c]
      BY <1>8, <1>11
    <3>. QED  BY <1>12, <2>1, <3>1
  <2>3. i \in Instrs(g)
    BY <1>11, <2>2
  <2>. QED  BY <1>7, <2>2, <2>3 DEF LinksOK, SourcesOK, HasEdge
<1>18. TargetsOK(h)
  BY <1>1, <1>7, <1>11, <1>14, <1>15 DEF LinksOK, TargetsOK
<1>19. IncomingOK(h)
  <2>. SUFFICES ASSUME NEW c \in Block(g), NEW i \in Nat
                PROVE  i \in g.incoming[c] <=> i \in Owned(h) /\ IsBranch(h, i) /\ h.edge[i].dst = c
    BY <1>5, <1>11, Zenon DEF IncomingOK
  <2>1. /\ i \in g.incoming[c] <=> i \in Owned(g) /\ IsBranch(g, i) /\ g.edge[i].dst = c
        /\ c # None /\ Owned(g) \subseteq Instrs(g)
    BY <1>11, TypeFacts DEF LinksOK, IncomingOK
  <2>2. CASE i = j
    BY <1>1, <1>7, <1>15, <2>1, <2>2 DEF NoEdge
  <2>3. CASE i # j
    BY <1>6, <1>7, <1>15, <2>1, <2>3 DEF IsBranch
  <2>. QED  BY <2>2, <2>3
<1>20. NextOK(h)
  <2>. SUFFICES ASSUME NEW c \in Block(g), h.next[c] # None PROVE h.next[c] \in Block(g) /\ h.prev[h.next[c]] = c
    BY <1>11 DEF NextOK
  <2>1. c # b /\ h.next[c] = g.next[c]
    BY <1>9, <1>11
  <2>2. g.next[c] \in Block(g) /\ g.prev[g.next[c]] = c
    BY <2>1 DEF LinksOK, NextOK
  <2>. QED  BY <1>1, <1>10, <1>11, <2>1, <2>2, Zenon
<1>21. PrevOK(h)
  <2>. SUFFICES ASSUME NEW c \in Block(g), h.prev[c] # None PROVE h.prev[c] \in Block(g) /\ h.next[h.prev[c]] = c
    BY <1>11 DEF PrevOK
  <2>1. c # n /\ h.prev[c] = g.prev[c]
    BY <1>10, <1>11
  <2>2. g.prev[c] \in Block(g) /\ g.next[g.prev[c]] = c
    BY <2>1 DEF LinksOK, PrevOK
  <2>. QED  BY <1>9, <1>11, <2>1, <2>2 DEF n
<1>22. OnceOK(h)
  <2>1. \A c \in Block(g) : IsInjective(g.instrs[c])
    BY DEF LinksOK, OnceOK
  <2>2. j \notin ToSet(g.instrs[b])
    BY <1>1, <1>11
  <2>3. IsInjective(Append(g.instrs[b], j))
    BY <1>1, <2>1, <2>2, InjectiveAppend
  <2>. QED  BY <1>8, <1>11, <2>1, <2>3, Zenon DEF OnceOK
<1>23. ApartOK(h)
  <2>1. \A c, d \in Block(g) : c # d => ToSet(g.instrs[c]) \cap ToSet(g.instrs[d]) = {}
    BY DEF LinksOK, ApartOK
  <2>2. \A c \in Block(g) : ToSet(h.instrs[c]) = IF c = b THEN ToSet(g.instrs[b]) \cup {j} ELSE ToSet(g.instrs[c])
    BY <1>8, <1>11, <1>12, Zenon
  <2>3. \A c \in Block(g) : j \notin ToSet(g.instrs[c])
    BY <1>1, <1>11
  <2>4. ASSUME NEW c \in Block(g), NEW d \in Block(g), c # d
        PROVE  ToSet(h.instrs[c]) \cap ToSet(h.instrs[d]) = {}
    <3>1. ToSet(g.instrs[c]) \cap ToSet(g.instrs[d]) = {}
      BY <2>1, <2>4
    <3>. QED  BY <2>2, <2>3, <2>4, <3>1
  <2>. QED  BY <1>11, <2>4, Zenon DEF ApartOK
<1>24. LinksOK(h)
  BY <1>16, <1>17, <1>18, <1>19, <1>20, <1>21, <1>22, <1>23 DEF LinksOK
<1>25. IsBranch(h, j) /\ ~HasEdge(h, j) /\ h.op[j].kind = "jmp"
  BY <1>2, <1>6, <1>7 DEF IsBranch, HasEdge, Branches
<1>. QED  BY <1>1, <1>5, <1>6, <1>7, <1>8, <1>9, <1>11, <1>13, <1>14, <1>24, <1>25, Zenon DEF h, j

-----------------------------------------------------------------------------
\* What splitBlock() leaves: two blocks in the chain for one, the edges of the
\* instructions that moved in the second.
Splits(g, h, b, k) ==
  LET n == Len(g.instrs) + 1
      after == g.next[b]
      moved == MovedPart(g.instrs[b], k)
      mine  == {i \in ToSet(moved) : g.edge[i].src = b}
  IN  /\ DOMAIN h = Fields /\ h.op = g.op /\ h.status = g.status
      /\ h.blocks \in Seq(Nat) /\ IsInjective(h.blocks)
      /\ Block(h) = Block(g) \cup {n} /\ h.entryBlock = EntryAfter(g, n)
      /\ h.instrs \in Seq(Seq(Nat)) /\ Len(h.instrs) = n
      /\ h.next \in Seq(Nat) /\ Len(h.next) = n
      /\ h.prev \in Seq(Nat) /\ Len(h.prev) = n
      /\ h.incoming \in Seq(SUBSET Nat) /\ Len(h.incoming) = n
      /\ h.outgoing \in Seq(Seq(Nat)) /\ Len(h.outgoing) = n
      /\ h.edge \in Seq(EdgeType) /\ Len(h.edge) = Len(g.op)
      /\ h.instrs[n] = moved /\ h.instrs[b] = SubSeq(g.instrs[b], 1, k - 1)
      /\ h.outgoing[n] = Only(moved, {i \in mine : IsBranch(g, i)})
      /\ h.outgoing[b] = Without(g.outgoing[b], mine)
      /\ \A c \in Blocks(g) : c # b => h.instrs[c] = g.instrs[c] /\ h.outgoing[c] = g.outgoing[c]
      /\ h.incoming[n] = {} /\ \A c \in Blocks(g) : h.incoming[c] = g.incoming[c]
      /\ h.next[n] = after /\ \A c \in Blocks(g) : h.next[c] = IF c = b THEN n ELSE g.next[c]
      /\ h.prev[n] = b
      /\ \A c \in Blocks(g) : h.prev[c] = IF c = after THEN n ELSE g.prev[c]
      /\ \A i \in Instrs(g) : h.edge[i] = IF i \in mine THEN [src |-> n, dst |-> g.edge[i].dst]
                                                        ELSE g.edge[i]

\* A block is split before its instruction k.
LEMMA SplitBlockFacts ==
  ASSUME NEW g, GraphTypeOK(g), NEW b \in Block(g), NEW k \in 1 .. Len(g.instrs[b]),
         g.next[b] = None \/ g.next[b] \in Block(g)
  PROVE  Splits(g, SplitBlock(g, b, k), b, k)
<1>. DEFINE n == Len(g.instrs) + 1
            after == g.next[b]
            moved == MovedPart(g.instrs[b], k)
            mine == {i \in ToSet(moved) : g.edge[i].src = b}
            out == Only(moved, {i \in mine : IsBranch(g, i)})
            first == SubSeq(g.instrs[b], 1, k - 1)
            a == AddBlock(g)
            linked == [a EXCEPT !.next[n] = after, !.prev[n] = b, !.next[b] = n]
            chained == IF after = None THEN linked ELSE [linked EXCEPT !.prev[after] = n]
            edges == [i \in 1 .. Len(chained.edge) |->
                        IF i \in mine THEN [chained.edge[i] EXCEPT !.src = n] ELSE chained.edge[i]]
            h == SplitBlock(g, b, k)
<1>1. NewBlock(g, a)
  BY AddBlockFacts
<1>2. /\ DOMAIN a = Fields /\ GraphTypeOK(a) /\ Len(a.instrs) = n /\ n \in Nat /\ b \in 1 .. n /\ n \in 1 .. n
      /\ b # n /\ b \in Blocks(g) /\ \A c \in Blocks(g) : c \in 1 .. n /\ c # n /\ c # None
      /\ a.op = g.op /\ a.edge = g.edge
  <2>1. Len(g.instrs) \in Nat /\ b \in Blocks(g)
    BY TypeFacts
  <2>2. Blocks(g) = 1 .. Len(g.instrs)
    BY DEF Blocks
  <2>3. n \in Nat /\ n \in 1 .. n /\ \A c \in Blocks(g) : c \in 1 .. n /\ c # n /\ c # None
    BY <2>1, <2>2 DEF None
  <2>4. GraphTypeOK(a) /\ Len(a.instrs) = n /\ a.op = g.op /\ a.edge = g.edge
    BY <1>1 DEF NewBlock
  <2>5. DOMAIN a = Fields
    BY <2>4 DEF GraphTypeOK
  <2>. HIDE DEF a, n
  <2>. QED  BY <2>1, <2>3, <2>4, <2>5
<1>3. /\ g.instrs[b] \in Seq(Nat) /\ b \in Nat /\ after \in Nat
      /\ g.outgoing[b] \in Seq(Nat)
      /\ after # None => after \in Blocks(g)
      /\ Instrs(g) = 1 .. Len(g.edge) /\ Len(g.op) = Len(g.edge)
  BY <1>2, TypeFacts, Zenon DEF GraphTypeOK, Instrs
<1>4. moved \in Seq(Nat) /\ first \in Seq(Nat)
  <2>. DEFINE s == g.instrs[b]
  <2>1. s \in Seq(Nat) /\ k \in 1 .. Len(s) + 1
    BY <1>3
  <2>. HIDE DEF s
  <2>2. SubSeq(s, 1, k - 1) \in Seq(Nat) /\ SubSeq(s, k, Len(s)) \in Seq(Nat)
    BY <2>1, CutList, Zenon
  <2>. QED  BY <2>2 DEF MovedPart, s
<1>5. out \in Seq(Nat) /\ Without(g.outgoing[b], mine) \in Seq(Nat)
  <2>. DEFINE o == g.outgoing[b]
              x == {i \in mine : IsBranch(g, i)}
              y == ToSet(o) \ mine
  <2>1. moved \in Seq(Nat) /\ o \in Seq(Nat)
    BY <1>3, <1>4
  <2>. HIDE DEF moved, x, y, o
  <2>2. Only(moved, x) \in Seq(Nat) /\ Only(o, y) \in Seq(Nat)
    BY <2>1, OnlyType
  <2>. QED  BY <2>2 DEF Without, x, y, o
<1>6. h = [chained EXCEPT
             !.instrs[n] = moved, !.instrs[b] = SubSeq(@, 1, k - 1),
             !.edge = edges, !.outgoing[n] = out, !.outgoing[b] = Without(@, mine)]
  BY DEF SplitBlock
<1>. HIDE DEF h, a, moved, mine, out, first, n, after, edges
<1>7. /\ DOMAIN linked = Fields /\ linked.blocks = a.blocks /\ linked.entryBlock = a.entryBlock
      /\ linked.instrs = a.instrs /\ linked.incoming = a.incoming /\ linked.outgoing = a.outgoing
      /\ linked.op = a.op /\ linked.edge = a.edge /\ linked.status = a.status
      /\ linked.next = [[a.next EXCEPT ![n] = after] EXCEPT ![b] = n]
      /\ linked.prev = [a.prev EXCEPT ![n] = b]
  BY <1>2 DEF Fields
<1>. HIDE DEF linked
<1>8. /\ DOMAIN chained = Fields /\ chained.blocks = a.blocks /\ chained.entryBlock = a.entryBlock
      /\ chained.instrs = a.instrs /\ chained.incoming = a.incoming /\ chained.outgoing = a.outgoing
      /\ chained.op = a.op /\ chained.edge = a.edge /\ chained.status = a.status
      /\ chained.next = linked.next
      /\ chained.prev = IF after = None THEN linked.prev ELSE [linked.prev EXCEPT ![after] = n]
  BY <1>7 DEF Fields
<1>. HIDE DEF chained
<1>9. /\ DOMAIN h = Fields /\ h.blocks = a.blocks /\ h.entryBlock = a.entryBlock /\ h.op = a.op
      /\ h.incoming = a.incoming /\ h.status = a.status /\ h.next = chained.next /\ h.prev = chained.prev
      /\ h.edge = edges
      /\ h.instrs = [[a.instrs EXCEPT ![n] = moved] EXCEPT ![b] = SubSeq([a.instrs EXCEPT ![n] = moved][b], 1, k - 1)]
      /\ h.outgoing = [[a.outgoing EXCEPT ![n] = out] EXCEPT ![b] = Without([a.outgoing EXCEPT ![n] = out][b], mine)]
  BY <1>6, <1>8 DEF Fields
<1>10. /\ h.instrs \in Seq(Seq(Nat)) /\ Len(h.instrs) = n /\ h.instrs[n] = moved /\ h.instrs[b] = first
       /\ \A c \in Blocks(g) : c # b => h.instrs[c] = g.instrs[c]
  <2>. DEFINE x == [a.instrs EXCEPT ![n] = moved]
  <2>1. a.instrs \in Seq(Seq(Nat)) /\ Len(a.instrs) = n /\ n \in 1 .. Len(a.instrs) /\ \A c \in Blocks(g) : a.instrs[c] = g.instrs[c]
    BY <1>1, <1>2, Zenon DEF GraphTypeOK, NewBlock
  <2>2. /\ x \in Seq(Seq(Nat)) /\ Len(x) = n /\ x[n] = moved
        /\ \A c \in 1 .. n : c # n => x[c] = a.instrs[c]
    BY <1>4, <2>1, ExceptFacts
  <2>. HIDE DEF x
  <2>3. SubSeq(x[b], 1, k - 1) = first
    BY <1>2, <2>1, <2>2, Zenon DEF first
  <2>4. h.instrs = [x EXCEPT ![b] = first]
    BY <1>9, <2>3 DEF x
  <2>5. /\ h.instrs \in Seq(Seq(Nat)) /\ Len(h.instrs) = n /\ h.instrs[b] = first
        /\ \A c \in 1 .. n : c # b => h.instrs[c] = x[c]
    BY <1>2, <1>4, <2>2, <2>4, ExceptFacts
  <2>. QED  BY <1>2, <2>1, <2>2, <2>5, Zenon
<1>11. /\ h.outgoing \in Seq(Seq(Nat)) /\ Len(h.outgoing) = n /\ h.outgoing[n] = out
       /\ h.outgoing[b] = Without(g.outgoing[b], mine)
       /\ \A c \in Blocks(g) : c # b => h.outgoing[c] = g.outgoing[c]
  <2>. DEFINE x == [a.outgoing EXCEPT ![n] = out]
              w == Without(g.outgoing[b], mine)
  <2>1. a.outgoing \in Seq(Seq(Nat)) /\ Len(a.outgoing) = n /\ n \in 1 .. Len(a.outgoing) /\ \A c \in Blocks(g) : a.outgoing[c] = g.outgoing[c]
    BY <1>1, <1>2, Zenon DEF GraphTypeOK, NewBlock
  <2>2. /\ x \in Seq(Seq(Nat)) /\ Len(x) = n /\ x[n] = out
        /\ \A c \in 1 .. n : c # n => x[c] = a.outgoing[c]
    BY <1>5, <2>1, ExceptFacts
  <2>3. Without(x[b], mine) = w
    BY <1>2, <2>1, <2>2
  <2>4. h.outgoing = [x EXCEPT ![b] = w]
    BY <1>9, <2>3
  <2>6. w \in Seq(Nat)
    BY <1>5
  <2>. HIDE DEF x, w
  <2>5. /\ h.outgoing \in Seq(Seq(Nat)) /\ Len(h.outgoing) = n /\ h.outgoing[b] = w
        /\ \A c \in 1 .. n : c # b => h.outgoing[c] = x[c]
    BY <1>2, <2>2, <2>4, <2>6, ExceptFacts
  <2>. QED  BY <1>2, <2>1, <2>2, <2>5, Zenon DEF w
<1>12. /\ h.next \in Seq(Nat) /\ Len(h.next) = n /\ h.next[n] = after
       /\ \A c \in Blocks(g) : h.next[c] = IF c = b THEN n ELSE g.next[c]
  <2>. DEFINE x == [a.next EXCEPT ![n] = after]
  <2>1. a.next \in Seq(Nat) /\ Len(a.next) = n /\ n \in 1 .. Len(a.next) /\ \A c \in Blocks(g) : a.next[c] = g.next[c]
    BY <1>1, <1>2, Zenon DEF GraphTypeOK, NewBlock
  <2>2. /\ x \in Seq(Nat) /\ Len(x) = n /\ x[n] = after
        /\ \A c \in 1 .. n : c # n => x[c] = a.next[c]
    BY <1>3, <2>1, ExceptFacts, SMTT(30)
  <2>3. h.next = [x EXCEPT ![b] = n]
    BY <1>7, <1>8, <1>9
  <2>. HIDE DEF x
  <2>4. /\ h.next \in Seq(Nat) /\ Len(h.next) = n /\ h.next[b] = n
        /\ \A c \in 1 .. n : c # b => h.next[c] = x[c]
    BY <1>2, <2>2, <2>3, ExceptFacts
  <2>. QED  BY <1>2, <2>1, <2>2, <2>4, Zenon
<1>13. /\ h.prev \in Seq(Nat) /\ Len(h.prev) = n /\ h.prev[n] = b
       /\ \A c \in Blocks(g) : h.prev[c] = IF c = after THEN n ELSE g.prev[c]
  <2>. DEFINE x == [a.prev EXCEPT ![n] = b]
  <2>1. a.prev \in Seq(Nat) /\ Len(a.prev) = n /\ n \in 1 .. Len(a.prev) /\ \A c \in Blocks(g) : a.prev[c] = g.prev[c]
    BY <1>1, <1>2, Zenon DEF GraphTypeOK, NewBlock
  <2>2. /\ x \in Seq(Nat) /\ Len(x) = n /\ x[n] = b
        /\ \A c \in 1 .. n : c # n => x[c] = a.prev[c]
    BY <1>3, <2>1, ExceptFacts, SMTT(30)
  <2>3. h.prev = IF after = None THEN x ELSE [x EXCEPT ![after] = n]
    BY <1>7, <1>8, <1>9
  <2>. HIDE DEF x
  <2>4. CASE after = None
    <3>1. h.prev = x
      BY <2>3, <2>4
    <3>. QED  BY <1>2, <2>1, <2>2, <2>4, <3>1, Zenon
  <2>5. CASE after # None
    <3>1. after \in 1 .. n /\ after # n
      BY <1>2, <1>3, <2>5
    <3>2. /\ h.prev \in Seq(Nat) /\ Len(h.prev) = n /\ h.prev[after] = n
          /\ \A c \in 1 .. n : c # after => h.prev[c] = x[c]
      BY <1>2, <2>2, <2>3, <2>5, <3>1, ExceptFacts
    <3>. QED  BY <1>2, <2>1, <2>2, <3>1, <3>2, Zenon
  <2>. QED  BY <2>4, <2>5
<1>14. /\ h.edge \in Seq(EdgeType) /\ Len(h.edge) = Len(g.op)
       /\ \A i \in Instrs(g) : h.edge[i] = IF i \in mine THEN [src |-> n, dst |-> g.edge[i].dst]
                                                         ELSE g.edge[i]
  <2>1. chained.edge = g.edge
    BY <1>2, <1>8
  <2>2. edges = [i \in 1 .. Len(g.edge) |->
                   IF i \in mine THEN [g.edge[i] EXCEPT !.src = n] ELSE g.edge[i]]
    BY <2>1 DEF edges
  <2>3. \A i \in Instrs(g) : g.edge[i] \in EdgeType
    BY TypeFacts
  <2>4. \A i \in Instrs(g) : /\ [g.edge[i] EXCEPT !.src = n] = [src |-> n, dst |-> g.edge[i].dst]
                             /\ [src |-> n, dst |-> g.edge[i].dst] \in EdgeType
    BY <1>2, <2>3 DEF EdgeType
  <2>5. \A i \in Instrs(g) : edges[i] = IF i \in mine THEN [src |-> n, dst |-> g.edge[i].dst]
                                                      ELSE g.edge[i]
    BY <1>3, <2>2, <2>4
  <2>6. edges \in [1 .. Len(g.edge) -> EdgeType]
    BY <1>3, <2>2, <2>3, <2>4, Zenon
  <2>7. Len(g.edge) \in Nat
    BY <1>3, TypeFacts
  <2>8. edges \in Seq(EdgeType) /\ Len(edges) = Len(g.edge)
    BY <2>6, <2>7
  <2>. QED  BY <1>3, <1>9, <2>5, <2>8
<1>15. /\ h.incoming \in Seq(SUBSET Nat) /\ Len(h.incoming) = n /\ h.incoming[n] = {}
       /\ \A c \in Blocks(g) : h.incoming[c] = g.incoming[c]
  BY <1>1, <1>2, <1>9, Zenon DEF NewBlock, GraphTypeOK, n
<1>16. /\ h.blocks \in Seq(Nat) /\ IsInjective(h.blocks) /\ Block(h) = Block(g) \cup {n}
       /\ h.entryBlock = EntryAfter(g, n) /\ h.status = g.status /\ h.op = g.op
  BY <1>1, <1>2, <1>9 DEF NewBlock, GraphTypeOK, Block, n
<1>. QED  BY <1>9, <1>10, <1>11, <1>12, <1>13, <1>14, <1>15, <1>16, Zenon
          DEF Splits, n, after, moved, mine, out, first, h

\* The instructions and the edges of a function before and after splitBlock().
SplitParted(g, h, b, k) ==
  LET n == Len(g.instrs) + 1
      first == SubSeq(g.instrs[b], 1, k - 1)
      moved == MovedPart(g.instrs[b], k)
  IN  /\ first \in Seq(Nat) /\ moved \in Seq(Nat) /\ g.instrs[b] = first \o moved
      /\ ToSet(g.instrs[b]) = ToSet(first) \cup ToSet(moved)
      /\ ToSet(first) \cap ToSet(moved) = {}
      /\ IsInjective(first) /\ IsInjective(moved)
      /\ n \notin Blocks(g) /\ Blocks(h) = Blocks(g) \cup {n} /\ n \in Nat /\ b \in Blocks(g)
      /\ Instrs(h) = Instrs(g) /\ Owned(h) = Owned(g)
      /\ Linked(h) = Linked(g)
      /\ \A i \in Instrs(g) : /\ h.edge[i].dst = g.edge[i].dst
                              /\ HasEdge(h, i) <=> HasEdge(g, i)
                              /\ IsBranch(h, i) <=> IsBranch(g, i)
      /\ \A i \in ToSet(moved) : HasEdge(g, i) => h.edge[i].src = n
      /\ \A i \in Instrs(g) : i \notin ToSet(moved) => h.edge[i] = g.edge[i]
      /\ {i \in ToSet(moved) : g.edge[i].src = b} = {i \in ToSet(moved) : HasEdge(g, i)}

\* Its edges are split with its instructions.
LEMMA SplitParts ==
  ASSUME NEW g, GraphTypeOK(g), LinksOK(g), NEW b \in Block(g), NEW k \in 1 .. Len(g.instrs[b]),
         NEW h, Splits(g, h, b, k)
  PROVE  SplitParted(g, h, b, k)
<1>. DEFINE s == g.instrs[b]
            n == Len(g.instrs) + 1
            first == SubSeq(g.instrs[b], 1, k - 1)
            moved == MovedPart(g.instrs[b], k)
            mine == {i \in ToSet(moved) : g.edge[i].src = b}
<1>1. /\ s \in Seq(Nat) /\ k \in 1 .. Len(s) + 1 /\ b \in Blocks(g) /\ b # None
      /\ ToSet(s) \subseteq Instrs(g) /\ IsInjective(s)
  <2>1. s \in Seq(Nat) /\ b \in Blocks(g) /\ b # None
    BY TypeFacts
  <2>2. k \in 1 .. Len(s) + 1
    BY <2>1
  <2>3. ToSet(s) \subseteq Instrs(g) /\ IsInjective(s)
    BY <2>1 DEF GraphTypeOK, LinksOK, OnceOK
  <2>. QED  BY <2>1, <2>2, <2>3
<1>2. first \in Seq(Nat) /\ moved \in Seq(Nat) /\ s = first \o moved
  <2>. HIDE DEF s
  <2>1. SubSeq(s, 1, k - 1) \in Seq(Nat) /\ SubSeq(s, k, Len(s)) \in Seq(Nat) /\ s = SubSeq(s, 1, k - 1) \o SubSeq(s, k, Len(s))
    BY <1>1, CutList, Zenon
  <2>. QED  BY <2>1, Zenon DEF MovedPart, s
<1>. HIDE DEF first, moved
<1>3. ToSet(s) = ToSet(first) \cup ToSet(moved) /\ ToSet(first) \cap ToSet(moved) = {} /\ IsInjective(first) /\ IsInjective(moved)
  <2>0. first \in Seq(Nat) /\ moved \in Seq(Nat) /\ s = first \o moved /\ IsInjective(s)
    BY <1>1, <1>2
  <2>1. ToSet(first \o moved) = ToSet(first) \cup ToSet(moved)
    BY <2>0, SetConcat
  <2>2. IsInjective(first \o moved)
    BY <2>0
  <2>3. IsInjective(first) /\ IsInjective(moved) /\ ToSet(first) \cap ToSet(moved) = {}
    BY <2>0, <2>2, InjectiveConcat
  <2>. HIDE DEF s
  <2>. QED  BY <2>0, <2>1, <2>3
<1>4. n \notin Blocks(g) /\ Blocks(h) = Blocks(g) \cup {n} /\ n \in Nat /\ n # None
  <2>1. Len(g.instrs) \in Nat
    BY TypeFacts
  <2>2. Len(h.instrs) = n
    BY DEF Splits
  <2>. QED  BY <2>1, <2>2 DEF Blocks, None
<1>5. /\ DOMAIN g.op = Instrs(g) /\ Linked(g) \subseteq Instrs(g) /\ Block(g) \subseteq Blocks(g)
      /\ \A i \in Instrs(g) : g.edge[i] \in EdgeType /\ g.edge[i].src \in Nat
  BY TypeFacts
<1>6. /\ h.op = g.op /\ Block(h) = Block(g) \cup {n} /\ h.instrs[n] = moved /\ h.instrs[b] = first
      /\ \A c \in Blocks(g) : c # b => h.instrs[c] = g.instrs[c]
      /\ \A i \in Instrs(g) : h.edge[i] = IF i \in mine THEN [src |-> n, dst |-> g.edge[i].dst]
                                                        ELSE g.edge[i]
  BY Zenon DEF Splits, first, moved
<1>. HIDE DEF n, mine
<1>7. Instrs(h) = Instrs(g)
  BY <1>6 DEF Instrs
<1>8. Owned(h) = Owned(g)
  <2>1. Owned(h) = (UNION {ToSet(h.instrs[c]) : c \in Block(g)}) \cup ToSet(moved)
    BY <1>6 DEF Owned
  <2>2. \A c \in Block(g) : c # b => h.instrs[c] = g.instrs[c]
    BY <1>5, <1>6
  <2>. QED  BY <1>3, <1>6, <2>1, <2>2 DEF Owned
<1>9. \A i \in Instrs(g) : /\ h.edge[i].dst = g.edge[i].dst
                           /\ HasEdge(h, i) <=> HasEdge(g, i)
                           /\ IsBranch(h, i) <=> IsBranch(g, i)
  <2>. SUFFICES ASSUME NEW i \in Instrs(g)
                PROVE  h.edge[i].dst = g.edge[i].dst /\ (HasEdge(h, i) <=> HasEdge(g, i))
    BY <1>6 DEF IsBranch
  <2>1. CASE i \in mine
    <3>1. h.edge[i] = [src |-> n, dst |-> g.edge[i].dst] /\ g.edge[i].src = b
      BY <1>6, <2>1 DEF mine
    <3>. QED  BY <1>1, <1>4, <3>1 DEF HasEdge, NoEdge
  <2>2. CASE i \notin mine
    BY <1>6, <2>2, Zenon DEF HasEdge
  <2>. QED  BY <2>1, <2>2
<1>10. mine = {i \in ToSet(moved) : HasEdge(g, i)}
  <2>1. \A i \in ToSet(s) : HasEdge(g, i) => g.edge[i].src = b
    BY DEF LinksOK, SourcesOK
  <2>2. \A i \in ToSet(s) : g.edge[i].src = b => HasEdge(g, i)
    BY <1>1 DEF HasEdge, NoEdge
  <2>. QED  BY <1>3, <2>1, <2>2 DEF mine
<1>11. \A i \in ToSet(moved) : HasEdge(g, i) => h.edge[i].src = n
  <2>1. \A i \in mine : i \in Instrs(g)
    BY <1>1, <1>3 DEF mine
  <2>2. ASSUME NEW i \in mine PROVE h.edge[i].src = n
    <3>1. h.edge[i] = [src |-> n, dst |-> g.edge[i].dst]
      BY <1>6, <2>1
    <3>. QED  BY <3>1
  <2>. QED  BY <1>10, <2>2
<1>12. \A i \in Instrs(g) : i \notin ToSet(moved) => h.edge[i] = g.edge[i]
  BY <1>6, Zenon DEF mine
<1>13. Linked(h) = Linked(g)
  BY <1>5, <1>6, <1>9 DEF Linked
<1>. QED  BY <1>1, <1>2, <1>3, <1>4, <1>7, <1>8, <1>9, <1>10, <1>11, <1>12, <1>13, Zenon
          DEF SplitParted, s, n, first, moved, mine

\* Splitting keeps the links.
LEMMA SplitLinks ==
  ASSUME NEW g, GraphTypeOK(g), LinksOK(g), NEW b \in Block(g), NEW k \in 1 .. Len(g.instrs[b]),
         NEW h, Splits(g, h, b, k)
  PROVE  GraphTypeOK(h) /\ LinksOK(h)
<1>. DEFINE s == g.instrs[b]
            n == Len(g.instrs) + 1
            first == SubSeq(g.instrs[b], 1, k - 1)
            moved == MovedPart(g.instrs[b], k)
            mine == {i \in ToSet(moved) : g.edge[i].src = b}
            after == g.next[b]
<1>1. /\ first \in Seq(Nat) /\ moved \in Seq(Nat) /\ s = first \o moved
      /\ ToSet(s) = ToSet(first) \cup ToSet(moved) /\ ToSet(first) \cap ToSet(moved) = {}
      /\ IsInjective(first) /\ IsInjective(moved)
      /\ n \notin Blocks(g) /\ Blocks(h) = Blocks(g) \cup {n} /\ n \in Nat /\ b \in Blocks(g)
      /\ Instrs(h) = Instrs(g) /\ Owned(h) = Owned(g) /\ Linked(h) = Linked(g)
      /\ \A i \in Instrs(g) : /\ h.edge[i].dst = g.edge[i].dst
                              /\ HasEdge(h, i) <=> HasEdge(g, i)
                              /\ IsBranch(h, i) <=> IsBranch(g, i)
      /\ \A i \in ToSet(moved) : HasEdge(g, i) => h.edge[i].src = n
      /\ \A i \in Instrs(g) : i \notin ToSet(moved) => h.edge[i] = g.edge[i]
      /\ mine = {i \in ToSet(moved) : HasEdge(g, i)}
  <2>1. SplitParted(g, h, b, k)
    BY SplitParts
  <2>. QED  BY <2>1 DEF SplitParted
<1>2. /\ DOMAIN h = Fields /\ h.op = g.op /\ h.status = g.status
      /\ h.blocks \in Seq(Nat) /\ IsInjective(h.blocks)
      /\ Block(h) = Block(g) \cup {n} /\ h.entryBlock = EntryAfter(g, n)
      /\ h.instrs \in Seq(Seq(Nat)) /\ Len(h.instrs) = n
      /\ h.next \in Seq(Nat) /\ Len(h.next) = n
      /\ h.prev \in Seq(Nat) /\ Len(h.prev) = n
      /\ h.incoming \in Seq(SUBSET Nat) /\ Len(h.incoming) = n
      /\ h.outgoing \in Seq(Seq(Nat)) /\ Len(h.outgoing) = n
      /\ h.edge \in Seq(EdgeType) /\ Len(h.edge) = Len(g.op)
  BY DEF Splits
<1>3. /\ h.instrs[n] = moved /\ h.instrs[b] = first
      /\ h.outgoing[n] = Only(moved, {i \in mine : IsBranch(g, i)})
      /\ h.outgoing[b] = Without(g.outgoing[b], mine)
      /\ \A c \in Blocks(g) : c # b => h.instrs[c] = g.instrs[c] /\ h.outgoing[c] = g.outgoing[c]
      /\ h.incoming[n] = {} /\ \A c \in Blocks(g) : h.incoming[c] = g.incoming[c]
      /\ h.next[n] = after /\ \A c \in Blocks(g) : h.next[c] = IF c = b THEN n ELSE g.next[c]
      /\ h.prev[n] = b /\ \A c \in Blocks(g) : h.prev[c] = IF c = after THEN n ELSE g.prev[c]
  BY DEF Splits
<1>4. /\ Block(g) \subseteq Blocks(g) /\ Linked(g) \subseteq Instrs(g)
      /\ \A c \in Block(g) : /\ g.instrs[c] \in Seq(Nat) /\ ToSet(g.instrs[c]) \subseteq Instrs(g)
                             /\ c # None
      /\ Owned(g) \subseteq Instrs(g)
      /\ g.outgoing[b] = Only(s, Linked(g)) /\ DOMAIN g.op = Instrs(g)
      /\ \A c \in Block(g) : c # b => ToSet(g.instrs[c]) \cap ToSet(s) = {}
  <2>1. g.outgoing[b] = Only(s, Linked(g)) /\ \A c \in Block(g) : c # b => ToSet(g.instrs[c]) \cap ToSet(s) = {}
    BY DEF LinksOK, OutgoingOK, ApartOK
  <2>. QED  BY <2>1, TypeFacts, Zenon DEF GraphTypeOK
<1>. HIDE DEF n, first, moved, mine, after
<1>5. GraphTypeOK(h)
  <2>1. \A c \in Blocks(h) : ToSet(h.instrs[c]) \subseteq Instrs(h)
    <3>1. \A c \in Blocks(g) : ToSet(g.instrs[c]) \subseteq Instrs(g)
      BY DEF GraphTypeOK
    <3>. QED  BY <1>1, <1>3, <3>1, Zenon
  <2>2. h.entryBlock \in Nat /\ h.status \in Statuses /\ h.op \in Seq(OpType) /\ Block(h) \subseteq Blocks(h)
    BY <1>1, <1>2, <1>4 DEF GraphTypeOK, EntryAfter
  <2>. QED  BY <1>2, <2>1, <2>2, Zenon DEF GraphTypeOK
<1>6. \A c \in Block(g) : c # b => /\ h.instrs[c] = g.instrs[c] /\ h.outgoing[c] = g.outgoing[c]
                                   /\ ToSet(g.instrs[c]) \cap ToSet(moved) = {}
  BY <1>1, <1>3, <1>4
<1>7. OutgoingOK(h)
  <2>1. h.outgoing[n] = Only(h.instrs[n], Linked(h))
    <3>1. ToSet(moved) \cap {i \in mine : IsBranch(g, i)} = ToSet(moved) \cap Linked(g)
      <4>1. ToSet(moved) \subseteq DOMAIN g.op
        BY <1>1, <1>4, Zenon
      <4>. QED  BY <1>1, <4>1 DEF Linked
    <3>2. Only(moved, {i \in mine : IsBranch(g, i)}) = Only(moved, Linked(g))
      <4>. DEFINE x == {i \in mine : IsBranch(g, i)}
      <4>1. moved \in Seq(Nat) /\ ToSet(moved) \cap x = ToSet(moved) \cap Linked(g)
        BY <1>1, <3>1
      <4>. HIDE DEF x
      <4>2. Only(moved, x) = Only(moved, Linked(g))
        BY <4>1, OnlySame
      <4>. QED  BY <4>2 DEF x
    <3>. QED  BY <1>1, <1>3, <3>2
  <2>2. h.outgoing[b] = Only(h.instrs[b], Linked(h))
    <3>. DEFINE L == Linked(g)
                R == ToSet(Only(s, L)) \ mine
    <3>1. h.outgoing[b] = Only(Only(s, L), R)
      BY <1>3, <1>4 DEF Without
    <3>2. s \in Seq(Nat) /\ first \in Seq(Nat) /\ moved \in Seq(Nat) /\ s = first \o moved
      BY <1>1
    <3>3. ToSet(Only(s, L)) = ToSet(s) \cap L
      BY <3>2, OnlySet, Zenon
    <3>4. mine \cap ToSet(first) = {} /\ ToSet(moved) \cap L \subseteq mine
      BY <1>1 DEF Linked
    <3>5. ToSet(s) = ToSet(first) \cup ToSet(moved)
      BY <1>1
    <3>. HIDE DEF L, R, s
    <3>6. Only(Only(s, L), R) = Only(s, L \cap R)
      <4>1. s \in Seq(Nat)
        BY <3>2
      <4>. QED  BY <4>1, OnlyOnly
    <3>7. Only(first \o moved, L \cap R) = Only(first, L \cap R) \o Only(moved, L \cap R)
      BY <3>2, OnlyConcat, SMTT(30)
    <3>8. ToSet(moved) \cap (L \cap R) = {} /\ ToSet(first) \cap (L \cap R) = ToSet(first) \cap L
      BY <3>3, <3>4, <3>5 DEF R
    <3>9. Only(moved, L \cap R) = <<>>
      BY <3>2, <3>8, OnlyAll
    <3>10. Only(first, L \cap R) = Only(first, L) /\ Only(first, L) \in Seq(Nat)
      BY <3>2, <3>8, OnlySame, OnlyType, Zenon
    <3>11. Only(first, L) \o <<>> = Only(first, L)
      BY <3>10
    <3>12. h.outgoing[b] = Only(first, L)
      BY <3>1, <3>2, <3>6, <3>7, <3>9, <3>10, <3>11, Zenon
    <3>. QED  BY <1>1, <1>3, <3>12 DEF L
  <2>3. \A c \in Block(g) : c # b => h.outgoing[c] = Only(h.instrs[c], Linked(h))
    BY <1>1, <1>6 DEF LinksOK, OutgoingOK
  <2>. QED  BY <1>2, <2>1, <2>2, <2>3 DEF OutgoingOK
<1>8. SourcesOK(h)
  <2>. SUFFICES ASSUME NEW c \in Block(h), NEW i \in ToSet(h.instrs[c]), HasEdge(h, i)
                PROVE  h.edge[i].src = c
    BY DEF SourcesOK
  <2>1. CASE c = n
    BY <1>1, <1>3, <1>4, <2>1, Zenon
  <2>2. CASE c # n
    <3>1. c \in Block(g) /\ i \in ToSet(g.instrs[c]) /\ i \notin ToSet(moved)
      BY <1>1, <1>2, <1>3, <1>6, <2>2, Zenon
    <3>2. i \in Instrs(g)
      BY <1>4, <3>1
    <3>. QED  BY <1>1, <3>1, <3>2, Zenon DEF LinksOK, SourcesOK
  <2>. QED  BY <2>1, <2>2
<1>9. TargetsOK(h)
  BY <1>1, <1>2, <1>4, Zenon DEF LinksOK, TargetsOK
<1>10. IncomingOK(h)
  <2>. SUFFICES ASSUME NEW c \in Block(h), NEW i \in Nat
                PROVE  i \in h.incoming[c] <=> i \in Owned(h) /\ IsBranch(h, i) /\ h.edge[i].dst = c
    BY DEF IncomingOK
  <2>1. CASE c = n
    <3>. SUFFICES ASSUME i \in Owned(g), IsBranch(g, i), g.edge[i].dst = n PROVE FALSE
      BY <1>1, <1>3, <1>4, <2>1, Zenon
    <3>1. i \in Linked(g)
      <4>1. n # None
        BY <1>1, TypeFacts DEF n, None
      <4>. QED  BY <1>4, <4>1 DEF Linked, HasEdge, NoEdge
    <3>. QED  BY <1>1, <1>4, <3>1 DEF LinksOK, TargetsOK
  <2>2. CASE c # n
    <3>1. c \in Block(g) /\ h.incoming[c] = g.incoming[c]
      BY <1>2, <1>3, <1>4, <2>2
    <3>2. i \in g.incoming[c] <=> i \in Owned(g) /\ IsBranch(g, i) /\ g.edge[i].dst = c
      BY <3>1 DEF LinksOK, IncomingOK
    <3>. QED  BY <1>1, <1>4, <3>1, <3>2, Zenon
  <2>. QED  BY <2>1, <2>2
<1>11. NextOK(h)
  <2>. SUFFICES ASSUME NEW c \in Block(h), h.next[c] # None
                PROVE  h.next[c] \in Block(h) /\ h.prev[h.next[c]] = c
    BY DEF NextOK
  <2>1. CASE c = n
    <3>1. after \in Block(g)
      BY <1>3, <2>1 DEF LinksOK, NextOK, after
    <3>. QED  BY <1>2, <1>3, <1>4, <2>1, <3>1, Zenon
  <2>2. CASE c = b
    BY <1>1, <1>2, <1>3, <2>2, Zenon
  <2>3. CASE c # n /\ c # b
    <3>1. c \in Block(g) /\ h.next[c] = g.next[c]
      BY <1>2, <1>3, <1>4, <2>3
    <3>2. g.next[c] \in Block(g) /\ g.prev[g.next[c]] = c
      BY <3>1 DEF LinksOK, NextOK
    <3>3. g.next[c] # after
      <4>1. after # None => g.prev[after] = b
        BY DEF LinksOK, NextOK, after
      <4>. QED  BY <1>4, <2>3, <3>2, <4>1
    <3>4. g.next[c] \in Blocks(g) /\ g.next[c] \in Block(h)
      BY <1>2, <1>4, <3>2
    <3>5. h.prev[g.next[c]] = g.prev[g.next[c]]
      BY <1>3, <3>3, <3>4
    <3>. QED  BY <3>1, <3>2, <3>4, <3>5
  <2>. QED  BY <2>1, <2>2, <2>3
<1>12. PrevOK(h)
  <2>. SUFFICES ASSUME NEW c \in Block(h), h.prev[c] # None
                PROVE  h.prev[c] \in Block(h) /\ h.next[h.prev[c]] = c
    BY DEF PrevOK
  <2>1. CASE c = n
    BY <1>1, <1>2, <1>3, <2>1, Zenon
  <2>2. CASE c # n /\ c = after
    BY <1>1, <1>2, <1>3, <1>4, <2>2, Zenon
  <2>3. CASE c # n /\ c # after
    <3>1. c \in Block(g) /\ h.prev[c] = g.prev[c]
      BY <1>2, <1>3, <1>4, <2>3
    <3>2. g.prev[c] \in Block(g) /\ g.next[g.prev[c]] = c
      BY <3>1 DEF LinksOK, PrevOK
    <3>3. g.prev[c] # b
      BY <2>3, <3>2 DEF after
    <3>4. g.prev[c] \in Blocks(g) /\ g.prev[c] \in Block(h)
      BY <1>2, <1>4, <3>2
    <3>5. h.next[g.prev[c]] = g.next[g.prev[c]]
      BY <1>3, <3>3, <3>4
    <3>. QED  BY <3>1, <3>2, <3>4, <3>5
  <2>. QED  BY <2>1, <2>2, <2>3
<1>13. OnceOK(h)
  <2>1. \A c \in Block(g) : IsInjective(g.instrs[c])
    BY DEF LinksOK, OnceOK
  <2>. QED  BY <1>1, <1>2, <1>3, <1>6, <2>1, Zenon DEF OnceOK
<1>14. ApartOK(h)
  <2>1. \A c, d \in Block(g) : c # d => ToSet(g.instrs[c]) \cap ToSet(g.instrs[d]) = {}
    BY DEF LinksOK, ApartOK
  <2>2. \A c \in Block(g) : ToSet(h.instrs[c]) \subseteq ToSet(g.instrs[c]) /\ ToSet(h.instrs[c]) \cap ToSet(moved) = {}
    BY <1>1, <1>3, <1>6, Zenon
  <2>. QED  BY <1>2, <1>3, <2>1, <2>2, ZenonT(30) DEF ApartOK
<1>. QED  BY <1>5, <1>7, <1>8, <1>9, <1>10, <1>11, <1>12, <1>13, <1>14 DEF LinksOK

-----------------------------------------------------------------------------
\* What removeInstruction() leaves, unless it asserts.
Removes(g, h, b, i) ==
  /\ DOMAIN h = Fields /\ h.status = "ok" /\ i \in ToSet(g.instrs[b])
  /\ h.blocks = g.blocks /\ h.entryBlock = g.entryBlock
  /\ h.next = g.next /\ h.prev = g.prev /\ h.op = g.op
  /\ h.instrs = [g.instrs EXCEPT ![b] = Without(g.instrs[b], {i})]
  /\ h.edge = [g.edge EXCEPT ![i] = NoEdge]
  /\ IF i \in Linked(g)
       THEN LET s == g.edge[i].src
                d == g.edge[i].dst
            IN  /\ h.outgoing = [g.outgoing EXCEPT ![s] = Without(g.outgoing[s], {i})]
                /\ h.incoming = [g.incoming EXCEPT ![d] = g.incoming[d] \ {i}]
       ELSE h.outgoing = g.outgoing /\ h.incoming = g.incoming

\* An instruction is removed with its edge.
LEMMA RemoveInstructionFacts ==
  ASSUME NEW g, GraphTypeOK(g), NEW b \in Block(g), NEW i,
         RemoveInstruction(g, b, i).status = "ok"
  PROVE  g.status = "ok" /\ Removes(g, RemoveInstruction(g, b, i), b, i)
<1>. DEFINE s == g.edge[i].src
            d == g.edge[i].dst
            cond == /\ i \in ToSet(g.instrs[b])
                    /\ HasEdge(g, i) /\ IsBranch(g, i) =>
                         i \in ToSet(g.outgoing[s]) /\ i \in g.incoming[d]
            checked == Check(g, cond)
            joined == HasEdge(g, i) /\ IsBranch(g, i)
            detached == IF joined
                          THEN [checked EXCEPT !.outgoing[s] = Without(@, {i}),
                                               !.incoming[d] = @ \ {i}]
                          ELSE checked
            h == RemoveInstruction(g, b, i)
<1>1. h = [detached EXCEPT !.edge[i] = NoEdge, !.instrs[b] = Without(@, {i})]
  BY DEF RemoveInstruction
<1>2. DOMAIN g = Fields
  BY DEF GraphTypeOK
<1>3. DOMAIN checked = Fields
  BY <1>2 DEF Check
<1>4. /\ checked.blocks = g.blocks /\ checked.entryBlock = g.entryBlock /\ checked.instrs = g.instrs
      /\ checked.next = g.next /\ checked.prev = g.prev /\ checked.op = g.op /\ checked.edge = g.edge
      /\ checked.incoming = g.incoming /\ checked.outgoing = g.outgoing
      /\ checked.status = IF cond THEN g.status ELSE "thrown"
  BY <1>2 DEF Check, Fields
<1>. HIDE DEF checked, cond, h, s, d, joined
<1>5. /\ DOMAIN detached = Fields
      /\ detached.blocks = g.blocks /\ detached.entryBlock = g.entryBlock /\ detached.instrs = g.instrs
      /\ detached.next = g.next /\ detached.prev = g.prev /\ detached.op = g.op /\ detached.edge = g.edge
      /\ detached.status = checked.status
      /\ joined => /\ detached.outgoing = [g.outgoing EXCEPT ![s] = Without(g.outgoing[s], {i})]
                   /\ detached.incoming = [g.incoming EXCEPT ![d] = g.incoming[d] \ {i}]
      /\ ~joined => detached.outgoing = g.outgoing /\ detached.incoming = g.incoming
  BY <1>3, <1>4, Zenon DEF Fields
<1>. HIDE DEF detached
<1>6. /\ DOMAIN h = Fields
      /\ h.blocks = g.blocks /\ h.entryBlock = g.entryBlock
      /\ h.instrs = [g.instrs EXCEPT ![b] = Without(g.instrs[b], {i})]
      /\ h.next = g.next /\ h.prev = g.prev /\ h.op = g.op
      /\ h.edge = [g.edge EXCEPT ![i] = NoEdge]
      /\ h.status = checked.status /\ h.outgoing = detached.outgoing /\ h.incoming = detached.incoming
  BY <1>1, <1>5 DEF Fields
<1>7. cond /\ g.status = "ok"
  BY <1>4, <1>6 DEF h
<1>8. i \in ToSet(g.instrs[b])
  BY <1>7 DEF cond
<1>9. joined <=> i \in Linked(g)
  <2>1. i \in Instrs(g)
    BY <1>8 DEF GraphTypeOK
  <2>2. i \in DOMAIN g.op
    BY <2>1, TypeFacts
  <2>. QED  BY <2>2 DEF Linked, joined
<1>10. CASE joined
  BY <1>4, <1>5, <1>6, <1>7, <1>8, <1>9, <1>10 DEF Removes, h, s, d
<1>11. CASE ~joined
  BY <1>4, <1>5, <1>6, <1>7, <1>8, <1>9, <1>11 DEF Removes, h
<1>. QED  BY <1>10, <1>11

\* Removing an instruction keeps the links.
LEMMA RemoveLinks ==
  ASSUME NEW g, GraphTypeOK(g), LinksOK(g), NEW b \in Block(g), NEW i, NEW h, Removes(g, h, b, i)
  PROVE  /\ GraphTypeOK(h) /\ LinksOK(h) /\ Block(h) = Block(g)
         /\ Linked(h) = Linked(g) \ {i} /\ i \in Instrs(g) /\ Len(h.instrs) = Len(g.instrs)
         /\ h.instrs[b] = Without(g.instrs[b], {i})
         /\ \A c \in Block(g) : c # b => h.instrs[c] = g.instrs[c]
         /\ \A j \in Instrs(g) : j # i => h.edge[j] = g.edge[j]
<1>. DEFINE s == g.instrs[b]
            t == Without(s, {i})
<1>1. /\ b \in Blocks(g) /\ s \in Seq(Nat) /\ i \in ToSet(s) /\ i \in Instrs(g) /\ i \in Nat
      /\ g.edge[i] \in EdgeType
  <2>1. i \in ToSet(s) /\ b \in Blocks(g)
    BY DEF Removes, GraphTypeOK
  <2>2. i \in Instrs(g)
    BY <2>1 DEF GraphTypeOK
  <2>. QED  BY <2>1, <2>2, TypeFacts
<1>2. t \in Seq(Nat) /\ ToSet(t) = ToSet(s) \ {i} /\ (IsInjective(s) => IsInjective(t))
  <2>. HIDE DEF s
  <2>. QED  BY <1>1, WithoutFacts
<1>3. /\ g.instrs \in Seq(Seq(Nat)) /\ g.edge \in Seq(EdgeType) /\ NoEdge \in EdgeType
      /\ b \in 1 .. Len(g.instrs) /\ i \in 1 .. Len(g.edge)
      /\ Blocks(g) = 1 .. Len(g.instrs) /\ Instrs(g) = 1 .. Len(g.edge)
  BY <1>1 DEF GraphTypeOK, Blocks, Instrs, NoEdge, EdgeType, None
<1>4. /\ DOMAIN h = Fields /\ h.status = "ok" /\ h.blocks = g.blocks /\ h.entryBlock = g.entryBlock
      /\ h.next = g.next /\ h.prev = g.prev /\ h.op = g.op
      /\ h.instrs = [g.instrs EXCEPT ![b] = t] /\ h.edge = [g.edge EXCEPT ![i] = NoEdge]
  BY DEF Removes
<1>. HIDE DEF t, s
<1>5. /\ h.instrs \in Seq(Seq(Nat)) /\ Len(h.instrs) = Len(g.instrs) /\ h.instrs[b] = t
      /\ \A c \in Blocks(g) : c # b => h.instrs[c] = g.instrs[c]
  BY <1>2, <1>3, <1>4, ExceptFacts
<1>6. /\ h.edge \in Seq(EdgeType) /\ Len(h.edge) = Len(g.edge) /\ h.edge[i] = NoEdge
      /\ \A j \in Instrs(g) : j # i => h.edge[j] = g.edge[j]
  BY <1>3, <1>4, ExceptFacts
<1>7. /\ Block(h) = Block(g) /\ Blocks(h) = Blocks(g) /\ Instrs(h) = Instrs(g)
      /\ Block(g) \subseteq Blocks(g) /\ Linked(g) \subseteq Instrs(g) /\ Owned(g) \subseteq Instrs(g)
      /\ DOMAIN g.op = Instrs(g) /\ g.outgoing \in Seq(Seq(Nat)) /\ g.incoming \in Seq(SUBSET Nat)
      /\ Len(g.outgoing) = Len(g.instrs) /\ Len(g.incoming) = Len(g.instrs)
      /\ \A c \in Block(g) : /\ g.instrs[c] \in Seq(Nat) /\ ToSet(g.instrs[c]) \subseteq Instrs(g)
                             /\ c # None /\ g.outgoing[c] \in Seq(Nat) /\ g.incoming[c] \in SUBSET Nat
                             /\ g.outgoing[c] = Only(g.instrs[c], Linked(g))
                             /\ c # b => ToSet(g.instrs[c]) \cap ToSet(s) = {}
  <2>1. Blocks(h) = Blocks(g) /\ Instrs(h) = Instrs(g) /\ Block(h) = Block(g)
    BY <1>4, <1>5 DEF Blocks, Instrs, Block
  <2>2. \A c \in Block(g) : /\ g.outgoing[c] = Only(g.instrs[c], Linked(g))
                            /\ c # b => ToSet(g.instrs[c]) \cap ToSet(s) = {}
    BY DEF LinksOK, OutgoingOK, ApartOK, s
  <2>. QED  BY <2>1, <2>2, TypeFacts, Zenon DEF GraphTypeOK
<1>8. Linked(h) = Linked(g) \ {i}
  BY <1>1, <1>4, <1>6, <1>7 DEF Linked, IsBranch, HasEdge
<1>9. Owned(h) = Owned(g) \ {i}
  <2>1. \A c \in Block(g) : ToSet(h.instrs[c]) = ToSet(g.instrs[c]) \ {i}
    <3>. TAKE c \in Block(g)
    <3>1. CASE c = b
      BY <1>2, <1>5, <3>1 DEF s
    <3>2. CASE c # b
      BY <1>1, <1>5, <1>7, <3>2
    <3>. QED  BY <3>1, <3>2
  <2>2. ASSUME NEW x PROVE x \in Owned(h) <=> x \in Owned(g) /\ x # i
    <3>1. x \in Owned(h) <=> \E c \in Block(g) : x \in ToSet(h.instrs[c])
      BY <1>7 DEF Owned
    <3>2. x \in Owned(g) <=> \E c \in Block(g) : x \in ToSet(g.instrs[c])
      BY DEF Owned
    <3>. QED  BY <2>1, <3>1, <3>2
  <2>. QED  BY <2>2
<1>10. i \in Linked(g) => g.edge[i].src = b /\ g.edge[i].dst \in Block(g)
  <2>1. i \in Owned(g)
    BY <1>1 DEF Owned, s
  <2>. QED  BY <1>1, <2>1 DEF LinksOK, SourcesOK, TargetsOK, Linked, s
<1>11. Only(t, Linked(h)) = Only(s, Linked(h)) /\ Without(g.outgoing[b], {i}) = Only(s, Linked(h))
  <2>. DEFINE L == Linked(g)
              R == {i}
  <2>1. g.outgoing[b] = Only(s, L) /\ s \in Seq(Nat) /\ Linked(h) = L \ R
    BY <1>1, <1>7, <1>8 DEF s
  <2>. HIDE DEF L, R
  <2>2. Only(Without(s, R), L \ R) = Only(s, (L \ R) \ R) /\ Without(Only(s, L), R) = Only(s, L \ R)
    <3>1. s \in Seq(Nat)
      BY <2>1
    <3>2. Only(Without(s, R), L \ R) = Only(s, (L \ R) \ R)
      BY <3>1, OnlyWithout
    <3>3. Without(Only(s, L), R) = Only(s, L \ R)
      BY <3>1, WithoutOnly
    <3>. QED  BY <3>2, <3>3
  <2>3. (L \ R) \ R = L \ R
    OBVIOUS
  <2>. QED  BY <2>1, <2>2, <2>3, Zenon DEF t, R
<1>12. /\ h.outgoing \in Seq(Seq(Nat)) /\ Len(h.outgoing) = Len(g.outgoing)
       /\ h.outgoing[b] = Only(s, Linked(h))
       /\ \A c \in Blocks(g) : c # b => h.outgoing[c] = g.outgoing[c]
  <2>1. CASE i \in Linked(g)
    <3>. DEFINE w == Without(g.outgoing[b], {i})
    <3>1. h.outgoing = [g.outgoing EXCEPT ![b] = w]
      BY <1>10, <2>1 DEF Removes
    <3>2. w \in Seq(Nat)
      BY <1>7, WithoutFacts
    <3>3. w = Only(s, Linked(h)) /\ b \in 1 .. Len(g.outgoing) /\ Blocks(g) = 1 .. Len(g.outgoing)
      BY <1>3, <1>7, <1>11
    <3>. HIDE DEF w
    <3>. QED  BY <1>7, <3>1, <3>2, <3>3, ExceptFacts
  <2>2. CASE i \notin Linked(g)
    <3>1. h.outgoing = g.outgoing /\ Linked(h) = Linked(g)
      BY <1>8, <2>2 DEF Removes
    <3>. QED  BY <1>7, <3>1 DEF s
  <2>. QED  BY <2>1, <2>2
<1>13. /\ h.incoming \in Seq(SUBSET Nat) /\ Len(h.incoming) = Len(g.incoming)
       /\ \A c \in Block(g) : h.incoming[c] = g.incoming[c] \ {i}
  <2>1. CASE i \in Linked(g)
    <3>. DEFINE d == g.edge[i].dst
                w == g.incoming[d] \ {i}
    <3>1. h.incoming = [g.incoming EXCEPT ![d] = w]
      BY <2>1 DEF Removes
    <3>2. w \in SUBSET Nat /\ d \in 1 .. Len(g.incoming) /\ Blocks(g) = 1 .. Len(g.incoming)
      BY <1>3, <1>7, <1>10, <2>1, Zenon
    <3>3. \A c \in Block(g) : c # d => i \notin g.incoming[c]
      BY <1>1 DEF LinksOK, IncomingOK
    <3>. HIDE DEF w, d
    <3>4. /\ h.incoming \in Seq(SUBSET Nat) /\ Len(h.incoming) = Len(g.incoming) /\ h.incoming[d] = w
          /\ \A c \in Blocks(g) : c # d => h.incoming[c] = g.incoming[c]
      BY <1>7, <3>1, <3>2, ExceptFacts
    <3>. QED  BY <1>7, <3>3, <3>4, Zenon DEF w
  <2>2. CASE i \notin Linked(g)
    <3>1. h.incoming = g.incoming
      BY <2>2 DEF Removes
    <3>2. \A c \in Block(g) : i \notin g.incoming[c]
      <4>. SUFFICES ASSUME NEW c \in Block(g), i \in g.incoming[c] PROVE FALSE
        OBVIOUS
      <4>1. IsBranch(g, i) /\ g.edge[i].dst = c
        BY <1>1 DEF LinksOK, IncomingOK
      <4>2. c # None /\ i \in DOMAIN g.op
        BY <1>1, <1>7
      <4>3. HasEdge(g, i)
        BY <4>1, <4>2 DEF HasEdge, NoEdge
      <4>. QED  BY <2>2, <4>1, <4>2, <4>3 DEF Linked
    <3>. QED  BY <1>7, <3>1, <3>2
  <2>. QED  BY <2>1, <2>2
<1>14. GraphTypeOK(h)
  <2>1. ASSUME NEW c \in Blocks(h) PROVE ToSet(h.instrs[c]) \subseteq Instrs(h)
    <3>1. ToSet(g.instrs[c]) \subseteq Instrs(g)
      BY <1>7 DEF GraphTypeOK
    <3>. QED  BY <1>2, <1>5, <1>7, <3>1, Zenon DEF s
  <2>2. /\ Len(h.outgoing) = Len(h.instrs) /\ Len(h.incoming) = Len(h.instrs)
        /\ Block(h) \subseteq Blocks(h) /\ IsInjective(h.blocks)
    BY <1>4, <1>5, <1>7, <1>12, <1>13 DEF GraphTypeOK
  <2>. QED  BY <1>4, <1>5, <1>6, <1>12, <1>13, <2>1, <2>2, Zenon DEF GraphTypeOK, Statuses
<1>15. OutgoingOK(h)
  <2>. SUFFICES ASSUME NEW c \in Block(g) PROVE h.outgoing[c] = Only(h.instrs[c], Linked(h))
    BY <1>7 DEF OutgoingOK
  <2>1. CASE c = b
    BY <1>5, <1>11, <1>12, <2>1
  <2>2. CASE c # b
    <3>1. ToSet(g.instrs[c]) \cap Linked(h) = ToSet(g.instrs[c]) \cap Linked(g)
      BY <1>1, <1>7, <1>8, <2>2
    <3>2. Only(g.instrs[c], Linked(h)) = Only(g.instrs[c], Linked(g))
      BY <1>7, <3>1, OnlySame, Zenon
    <3>. QED  BY <1>5, <1>7, <1>12, <2>2, <3>2
  <2>. QED  BY <2>1, <2>2
<1>16. \A c \in Block(g) : ToSet(h.instrs[c]) \subseteq ToSet(g.instrs[c]) /\ i \notin ToSet(h.instrs[c])
  BY <1>1, <1>2, <1>5, <1>7, Zenon DEF s
<1>17. SourcesOK(h)
  BY <1>6, <1>7, <1>16, Zenon DEF LinksOK, SourcesOK, HasEdge
<1>18. TargetsOK(h)
  BY <1>6, <1>7, <1>8, <1>9 DEF LinksOK, TargetsOK
<1>19. IncomingOK(h)
  BY <1>4, <1>6, <1>7, <1>9, <1>13 DEF LinksOK, IncomingOK, IsBranch
<1>20. NextOK(h) /\ PrevOK(h)
  BY <1>4, <1>7 DEF LinksOK, NextOK, PrevOK
<1>21. OnceOK(h)
  BY <1>2, <1>5, <1>7, Zenon DEF LinksOK, OnceOK, s
<1>22. ApartOK(h)
  BY <1>7, <1>16, Zenon DEF LinksOK, ApartOK
<1>23. LinksOK(h)
  BY <1>15, <1>17, <1>18, <1>19, <1>20, <1>21, <1>22 DEF LinksOK
<1>. QED  BY <1>1, <1>5, <1>6, <1>7, <1>8, <1>14, <1>23 DEF t, s

-----------------------------------------------------------------------------
\* An instruction behind all others is behind all that have an edge.
LEMMA AppendedLast ==
  ASSUME NEW s \in Seq(Nat), NEW j \in Nat, NEW L, j \notin ToSet(s), j \notin L
  PROVE  Only(Append(s, j), L \cup {j}) = Append(Only(Append(s, j), L), j)
<1>. DEFINE M == L \cup {j}
<1>1. j \in M /\ ToSet(s) \cap M = ToSet(s) \cap L
  OBVIOUS
<1>. HIDE DEF M
<1>2. Only(Append(s, j), M) = Append(Only(s, M), j)
  BY <1>1, OnlyAppend, Zenon
<1>3. Only(s, M) = Only(s, L)
  BY <1>1, OnlySame
<1>4. Only(Append(s, j), L) = Only(s, L)
  BY OnlySkip
<1>. QED  BY <1>2, <1>3, <1>4, Zenon DEF M

\* A jump j that takes the place of a chain: nothing else changes.
JumpMade(g, h, b, j) ==
  /\ Linked(h) = Linked(g) \cup {j} /\ j \notin Instrs(g)
  /\ h.edge[j] = [src |-> b, dst |-> g.next[b]] /\ h.op[j].at = None
  /\ h.instrs[b] = Append(g.instrs[b], j) /\ h.next[b] = None
  /\ \A c \in Block(g) : c # b => h.instrs[c] = g.instrs[c] /\ h.next[c] = g.next[c]
  /\ \A i \in Instrs(g) : h.op[i] = g.op[i] /\ h.edge[i] = g.edge[i]

\* Unchaining keeps the links, whether there is a successor or not.
LEMMA UnchainNextLinks ==
  ASSUME NEW g, GraphTypeOK(g), LinksOK(g), NEW b \in Block(g)
  PROVE  LET h == UnchainNext(g, b)
             j == Len(g.op) + 1
         IN  /\ GraphTypeOK(h) /\ LinksOK(h) /\ Block(h) = Block(g)
             /\ h.entryBlock = g.entryBlock /\ h.status = g.status /\ h.blocks = g.blocks
             /\ h.next[b] = None
             /\ g.next[b] = None => h = g
             /\ g.next[b] # None => /\ h.instrs[b] = Append(g.instrs[b], j)
                                    /\ j \in Linked(h) /\ h.op[j].kind = "jmp"
                                    /\ g.instrs[b] \in Seq(Nat) /\ j \in Nat
                                    /\ JumpMade(g, h, b, j)
<1>. DEFINE n == g.next[b]
            j == Len(g.op) + 1
            u == Unchained(g, b)
            h == UnchainNext(g, b)
<1>1. CASE n = None
  BY <1>1 DEF UnchainNext
<1>2. CASE n # None
  <2>1. h = Connect(u, j, b, n)
    BY <1>2 DEF UnchainNext, Unchained
  <2>2. /\ GraphTypeOK(u) /\ LinksOK(u) /\ Linked(u) = Linked(g) /\ Block(u) = Block(g)
        /\ u.instrs[b] = Append(g.instrs[b], j) /\ j \notin Instrs(g)
        /\ \A c \in Block(g) : u.next[c] = IF c = b THEN None ELSE g.next[c]
        /\ IsBranch(u, j) /\ ~HasEdge(u, j) /\ u.op[j].kind = "jmp"
        /\ u.blocks = g.blocks /\ u.entryBlock = g.entryBlock /\ u.status = g.status
    BY <1>2, UnchainedLinks
  <2>3. /\ n \in Block(g) /\ g.instrs[b] \in Seq(Nat) /\ j \in Nat
        /\ j \notin Linked(g) /\ j \notin ToSet(g.instrs[b])
    <3>1. n \in Block(g) /\ ToSet(g.instrs[b]) \subseteq Instrs(g)
      BY <1>2 DEF LinksOK, NextOK, GraphTypeOK
    <3>2. g.instrs[b] \in Seq(Nat) /\ Linked(g) \subseteq Instrs(g) /\ Len(g.op) \in Nat
      BY TypeFacts
    <3>. QED  BY <2>2, <3>1, <3>2
  <2>. HIDE DEF n, j, u, h
  <2>4. ToSet(u.instrs[b]) = ToSet(g.instrs[b]) \cup {j}
    <3>. DEFINE s == g.instrs[b]
    <3>1. s \in Seq(Nat) /\ j \in Nat
      BY <2>3
    <3>. HIDE DEF s
    <3>2. ToSet(Append(s, j)) = ToSet(s) \cup {j}
      BY <3>1, SetAppend
    <3>. QED  BY <2>2, <3>2 DEF s
  <2>5. ConnectsLast(u, j, b)
    <3>. DEFINE s == g.instrs[b]
                L == Linked(g)
    <3>1. s \in Seq(Nat) /\ j \in Nat /\ j \notin ToSet(s) /\ j \notin L
      BY <2>3
    <3>2. u.instrs[b] = Append(s, j) /\ Linked(u) = L
      BY <2>2
    <3>. HIDE DEF s, L
    <3>3. Only(Append(s, j), L \cup {j}) = Append(Only(Append(s, j), L), j)
      BY <3>1, AppendedLast
    <3>. QED  BY <3>2, <3>3, Zenon DEF ConnectsLast
  <2>6. b \in Block(u) /\ n \in Block(u) /\ j \in ToSet(u.instrs[b])
    BY <2>2, <2>3, <2>4
  <2>7. /\ GraphTypeOK(h) /\ LinksOK(h) /\ Linked(h) = Linked(u) \cup {j}
        /\ h.instrs = u.instrs /\ h.next = u.next /\ h.op = u.op
        /\ h.blocks = u.blocks /\ h.entryBlock = u.entryBlock /\ h.status = u.status
    <3>1. IsBranch(u, j) /\ ~HasEdge(u, j) /\ GraphTypeOK(u) /\ LinksOK(u)
      BY <2>2
    <3>2. Connects(u, Connect(u, j, b, n), j, b, n)
      BY <2>5, <2>6, <3>1, ConnectLinks
    <3>. QED  BY <2>1, <3>2 DEF Connects
  <2>9. JumpMade(g, h, b, j)
    <3>1. /\ u.instrs[b] = Append(g.instrs[b], j) /\ j \notin Instrs(g)
          /\ \A c \in Block(g) : c # b => u.instrs[c] = g.instrs[c]
          /\ \A c \in Block(g) : u.next[c] = IF c = b THEN None ELSE g.next[c]
          /\ \A i \in Instrs(g) : u.op[i] = g.op[i] /\ u.edge[i] = g.edge[i]
          /\ Linked(u) = Linked(g) /\ Len(u.op) = j
      BY <1>2, UnchainedLinks DEF n, j, u
    <3>2. Connects(u, h, j, b, n)
      BY <2>1, <2>2, <2>5, <2>6, ConnectLinks, Zenon
    <3>3. /\ Linked(h) = Linked(u) \cup {j} /\ h.instrs = u.instrs /\ h.next = u.next /\ h.op = u.op
          /\ h.edge[j] = [src |-> b, dst |-> n]
          /\ \A i \in Instrs(u) : i # j => h.edge[i] = u.edge[i]
      BY <3>2 DEF Connects
    <3>4. \A i \in Instrs(g) : i \in Instrs(u) /\ i # j
      BY <3>1, TypeFacts DEF Instrs, j
    <3>5. u.op[j].at = None
      <4>. DEFINE o == [at |-> None, kind |-> "jmp", inv |-> FALSE]
      <4>1. u.op = Append(g.op, o)
        BY DEF u, Unchained, GraphTypeOK, Fields
      <4>2. g.op \in Seq(OpType)
        BY DEF GraphTypeOK
      <4>3. u.op[j] = o
        BY <4>1, <4>2 DEF j
      <4>. QED  BY <4>3
    <3>. QED  BY <3>1, <3>3, <3>4, <3>5 DEF JumpMade, n
  <2>. QED  BY <1>2, <2>2, <2>3, <2>7, <2>9 DEF Block, n, j, h
<1>. QED  BY <1>1, <1>2

-----------------------------------------------------------------------------
\* What copyBlock() adds: new instructions with edges of their own.
CopiesBlock(g, h, b) ==
  LET n == Len(g.instrs) + 1
      m == Len(g.op)
      old == g.instrs[b]
      c == Len(old)
      dst(k) == CopiedTarget(b, n, g.edge[old[k]].dst)
      branches == {k \in 1 .. c : IsBranch(g, old[k]) /\ HasEdge(g, old[k])}
  IN  /\ GraphTypeOK(h)
      /\ Len(h.instrs) = n /\ Len(h.op) = m + c /\ h.status = g.status
      /\ Block(h) = Block(g) \cup {n} /\ h.entryBlock = EntryAfter(g, n)
      /\ \A d \in Blocks(g) : /\ h.instrs[d] = g.instrs[d] /\ h.outgoing[d] = g.outgoing[d]
                              /\ h.next[d] = g.next[d] /\ h.prev[d] = g.prev[d]
                              /\ h.incoming[d] = g.incoming[d] \cup {m + k : k \in {j \in branches : dst(j) = d}}
      /\ h.incoming[n] = {m + k : k \in {j \in branches : dst(j) = n}}
      /\ h.next[n] = None /\ h.prev[n] = None
      /\ h.instrs[n] = [k \in 1 .. c |-> m + k]
      /\ h.outgoing[n] = Only(h.instrs[n], {m + k : k \in branches})
      /\ \A i \in Instrs(g) : h.op[i] = g.op[i] /\ h.edge[i] = g.edge[i]
      /\ \A k \in 1 .. c : /\ h.op[m + k] = g.op[old[k]]
                           /\ h.edge[m + k] = IF HasEdge(g, old[k]) THEN [src |-> n, dst |-> dst(k)] ELSE NoEdge

\* A copy has copies of the instructions and edges to the same blocks.
LEMMA CopyBlockFacts ==
  ASSUME NEW g, GraphTypeOK(g), NEW b \in Block(g)
  PROVE  CopiesBlock(g, CopyBlock(g, b), b)
<1>. DEFINE n == Len(g.instrs) + 1
            m == Len(g.op)
            old == g.instrs[b]
            c == Len(old)
            dst(k) == CopiedTarget(b, n, g.edge[old[k]].dst)
            branches == {k \in 1 .. c : IsBranch(g, old[k]) /\ HasEdge(g, old[k])}
            a == AddBlock(g)
            new == [k \in 1 .. c |-> m + k]
            ops == [k \in 1 .. c |-> g.op[old[k]]]
            es == [k \in 1 .. c |-> IF HasEdge(g, old[k]) THEN [src |-> n, dst |-> dst(k)] ELSE NoEdge]
            out == Only(new, {m + k : k \in branches})
            into(d) == {m + k : k \in {j \in branches : dst(j) = d}}
            copied == [a EXCEPT !.instrs[n] = new, !.op = @ \o ops, !.edge = @ \o es, !.outgoing[n] = out]
            h == CopyBlock(g, b)
<1>1. NewBlock(g, a)
  BY AddBlockFacts
<1>2. /\ m \in Nat /\ n \in Nat /\ n \in 1 .. n /\ old \in Seq(Nat) /\ c \in Nat /\ DOMAIN old = 1 .. c /\ b \in Nat
      /\ \A k \in 1 .. c : old[k] \in Instrs(g) /\ old[k] \in Nat
      /\ \A d \in Blocks(g) : d \in 1 .. n /\ d # n
      /\ \A i \in Instrs(g) : g.op[i] \in OpType /\ g.edge[i].dst \in Nat
  <2>1. m \in Nat /\ Len(g.instrs) \in Nat /\ old \in Seq(Nat) /\ b \in Nat
        /\ \A i \in Instrs(g) : g.op[i] \in OpType /\ g.edge[i].dst \in Nat
    BY TypeFacts
  <2>2. Blocks(g) = 1 .. Len(g.instrs)
    BY DEF Blocks
  <2>3. n \in Nat /\ n \in 1 .. n /\ \A d \in Blocks(g) : d \in 1 .. n /\ d # n
    BY <2>1, <2>2
  <2>4. c \in Nat /\ DOMAIN old = 1 .. c
    BY <2>1
  <2>5. ToSet(old) \subseteq Instrs(g)
    BY DEF GraphTypeOK
  <2>. HIDE DEF n, m, c, old
  <2>6. \A k \in 1 .. c : old[k] \in Instrs(g) /\ old[k] \in Nat
    BY <2>1, <2>4, <2>5 DEF ToSet, Instrs
  <2>. QED  BY <2>1, <2>3, <2>4, <2>6
<1>3. /\ DOMAIN a = Fields /\ GraphTypeOK(a) /\ Len(a.instrs) = n
      /\ a.instrs \in Seq(Seq(Nat)) /\ a.op \in Seq(OpType) /\ a.edge \in Seq(EdgeType)
      /\ a.outgoing \in Seq(Seq(Nat)) /\ a.incoming \in Seq(SUBSET Nat)
      /\ Len(a.outgoing) = n /\ Len(a.incoming) = n
      /\ a.op = g.op /\ a.edge = g.edge /\ Len(g.edge) = m
  BY <1>1, Zenon DEF NewBlock, GraphTypeOK
<1>4. new \in Seq(Nat) /\ Len(new) = c /\ \A k \in 1 .. c : new[k] = m + k
  BY <1>2
<1>5. ops \in Seq(OpType) /\ Len(ops) = c /\ \A k \in 1 .. c : ops[k] = g.op[old[k]]
  <2>. HIDE DEF old
  <2>1. ops \in [1 .. c -> OpType]
    BY <1>2
  <2>. QED  BY <1>2, <2>1
<1>6. /\ es \in Seq(EdgeType) /\ Len(es) = c
      /\ \A k \in 1 .. c : es[k] = IF HasEdge(g, old[k]) THEN [src |-> n, dst |-> dst(k)] ELSE NoEdge
  <2>1. \A k \in 1 .. c : [src |-> n, dst |-> dst(k)] \in EdgeType
    BY <1>2, Zenon DEF EdgeType, CopiedTarget
  <2>2. NoEdge \in EdgeType
    BY DEF NoEdge, EdgeType, None
  <2>. HIDE DEF old, n, dst
  <2>3. es \in [1 .. c -> EdgeType]
    BY <1>2, <2>1, <2>2
  <2>. QED  BY <1>2, <2>3, SMTT(30)
<1>7. h = [copied EXCEPT !.incoming = [d \in 1 .. Len(@) |-> @[d] \cup into(d)]]
  BY <1>2 DEF CopyBlock
<1>. HIDE DEF a, new, ops, es, out, into, h, n, m, old, c, dst, branches
<1>8. /\ DOMAIN copied = Fields
      /\ copied.instrs = [a.instrs EXCEPT ![n] = new] /\ copied.op = a.op \o ops /\ copied.edge = a.edge \o es
      /\ copied.outgoing = [a.outgoing EXCEPT ![n] = out]
      /\ copied.blocks = a.blocks /\ copied.entryBlock = a.entryBlock /\ copied.next = a.next /\ copied.prev = a.prev
      /\ copied.incoming = a.incoming /\ copied.status = a.status
  BY <1>3, Zenon DEF Fields
<1>. HIDE DEF copied
<1>9. /\ DOMAIN h = Fields
      /\ h.instrs = [a.instrs EXCEPT ![n] = new] /\ h.op = a.op \o ops /\ h.edge = a.edge \o es
      /\ h.outgoing = [a.outgoing EXCEPT ![n] = out]
      /\ h.blocks = a.blocks /\ h.entryBlock = a.entryBlock /\ h.next = a.next /\ h.prev = a.prev
      /\ h.incoming = [d \in 1 .. Len(a.incoming) |-> a.incoming[d] \cup into(d)] /\ h.status = a.status
  BY <1>7, <1>8 DEF Fields
<1>10. /\ h.instrs \in Seq(Seq(Nat)) /\ Len(h.instrs) = n /\ h.instrs[n] = new
       /\ \A d \in 1 .. n : d # n => h.instrs[d] = a.instrs[d]
  <2>1. n \in 1 .. Len(a.instrs)
    BY <1>2, <1>3
  <2>. QED  BY <1>3, <1>4, <1>9, <2>1, ExceptFacts, SMTT(30)
<1>11. /\ h.outgoing \in Seq(Seq(Nat)) /\ Len(h.outgoing) = n /\ h.outgoing[n] = out
       /\ \A d \in 1 .. n : d # n => h.outgoing[d] = a.outgoing[d]
  <2>1. n \in 1 .. Len(a.outgoing)
    BY <1>2, <1>3
  <2>2. out \in Seq(Nat)
    <3>. DEFINE B == {m + k : k \in branches}
    <3>. HIDE DEF B
    <3>1. Only(new, B) \in Seq(Nat)
      BY <1>4, OnlyType
    <3>. QED  BY <3>1 DEF B, out
  <2>. QED  BY <1>3, <1>9, <2>1, <2>2, ExceptFacts
<1>12. /\ h.op \in Seq(OpType) /\ Len(h.op) = m + c
       /\ \A i \in 1 .. m : h.op[i] = g.op[i]
       /\ \A k \in 1 .. c : h.op[m + k] = ops[k]
  <2>1. a.op \in Seq(OpType) /\ ops \in Seq(OpType)
    BY <1>3, <1>5
  <2>2. /\ a.op \o ops \in Seq(OpType) /\ Len(a.op \o ops) = Len(a.op) + Len(ops)
        /\ \A k \in 1 .. Len(a.op) : (a.op \o ops)[k] = a.op[k]
        /\ \A k \in 1 .. Len(ops) : (a.op \o ops)[Len(a.op) + k] = ops[k]
    BY <2>1, ConcatFacts
  <2>3. Len(a.op) = m
    BY <1>3 DEF m
  <2>. QED  BY <1>3, <1>5, <1>9, <2>2, <2>3, ZenonT(30)
<1>13. /\ h.edge \in Seq(EdgeType) /\ Len(h.edge) = m + c
       /\ \A i \in 1 .. m : h.edge[i] = g.edge[i]
       /\ \A k \in 1 .. c : h.edge[m + k] = es[k]
  <2>1. a.edge \in Seq(EdgeType) /\ es \in Seq(EdgeType)
    BY <1>3, <1>6
  <2>2. /\ a.edge \o es \in Seq(EdgeType) /\ Len(a.edge \o es) = Len(a.edge) + Len(es)
        /\ \A k \in 1 .. Len(a.edge) : (a.edge \o es)[k] = a.edge[k]
        /\ \A k \in 1 .. Len(es) : (a.edge \o es)[Len(a.edge) + k] = es[k]
    BY <2>1, ConcatFacts
  <2>. QED  BY <1>3, <1>6, <1>9, <2>2, ZenonT(30)
<1>14. /\ h.incoming \in Seq(SUBSET Nat) /\ Len(h.incoming) = n
       /\ \A d \in 1 .. n : h.incoming[d] = a.incoming[d] \cup into(d)
  <2>1. \A d \in 1 .. n : a.incoming[d] \in SUBSET Nat
    BY <1>3
  <2>2. \A d \in 1 .. n : into(d) \in SUBSET Nat
    BY <1>2 DEF into, branches
  <2>3. h.incoming = [d \in 1 .. n |-> a.incoming[d] \cup into(d)]
    BY <1>3, <1>9
  <2>4. h.incoming \in [1 .. n -> SUBSET Nat]
    BY <2>1, <2>2, <2>3
  <2>. QED  BY <1>2, <2>3, <2>4
<1>15. Blocks(h) = 1 .. n /\ Blocks(a) = 1 .. n /\ Instrs(h) = 1 .. m + c /\ Instrs(g) = 1 .. m /\ Instrs(a) = 1 .. m
  BY <1>3, <1>10, <1>12 DEF Blocks, Instrs, m
<1>16. GraphTypeOK(h)
  <2>1. Block(h) = Block(a)
    BY <1>9 DEF Block
  <2>2. ASSUME NEW d \in Blocks(h) PROVE ToSet(h.instrs[d]) \subseteq Instrs(h)
    <3>1. CASE d = n
      <4>1. DOMAIN new = 1 .. c
        BY <1>2 DEF new
      <4>2. \A k \in 1 .. c : new[k] \in Instrs(h)
        BY <1>2, <1>4, <1>15
      <4>3. h.instrs[d] = new
        BY <1>10, <3>1
      <4>. QED  BY <4>1, <4>2, <4>3 DEF ToSet
    <3>2. CASE d # n
      <4>1. ToSet(a.instrs[d]) \subseteq Instrs(a)
        BY <1>3, <1>15, Zenon DEF GraphTypeOK
      <4>2. Instrs(a) \subseteq Instrs(h)
        BY <1>2, <1>15
      <4>3. h.instrs[d] = a.instrs[d]
        BY <1>10, <1>15, <3>2
      <4>. QED  BY <4>1, <4>2, <4>3
    <3>. QED  BY <3>1, <3>2
  <2>3. /\ a.entryBlock \in Nat /\ a.status \in Statuses /\ a.blocks \in Seq(Nat) /\ IsInjective(a.blocks)
        /\ a.next \in Seq(Nat) /\ a.prev \in Seq(Nat) /\ Len(a.next) = n /\ Len(a.prev) = n
        /\ Block(a) \subseteq 1 .. n
    BY <1>3, <1>15 DEF GraphTypeOK
  <2>. QED  BY <1>9, <1>10, <1>11, <1>12, <1>13, <1>14, <1>15, <2>1, <2>2, <2>3, Zenon DEF GraphTypeOK
<1>17. \A d \in Blocks(g) : /\ h.instrs[d] = g.instrs[d] /\ h.outgoing[d] = g.outgoing[d]
                            /\ h.next[d] = g.next[d] /\ h.prev[d] = g.prev[d]
                            /\ h.incoming[d] = g.incoming[d] \cup into(d)
  <2>. TAKE d \in Blocks(g)
  <2>1. /\ a.instrs[d] = g.instrs[d] /\ a.outgoing[d] = g.outgoing[d]
        /\ a.next[d] = g.next[d] /\ a.prev[d] = g.prev[d] /\ a.incoming[d] = g.incoming[d]
    BY <1>1 DEF NewBlock
  <2>. QED  BY <1>2, <1>9, <1>10, <1>11, <1>14, <2>1, Zenon
<1>18. /\ h.incoming[n] = into(n) /\ h.next[n] = None /\ h.prev[n] = None /\ h.status = g.status
       /\ Block(h) = Block(g) \cup {n} /\ h.entryBlock = EntryAfter(g, n)
  <2>1. a.incoming[n] = {} /\ a.next[n] = None /\ a.prev[n] = None /\ a.status = g.status
        /\ Block(a) = Block(g) \cup {n} /\ a.entryBlock = EntryAfter(g, n)
    BY <1>1 DEF NewBlock, n
  <2>. QED  BY <1>2, <1>9, <1>14, <2>1 DEF Block
<1>19. h.outgoing[n] = Only(h.instrs[n], {m + k : k \in branches}) /\ h.instrs[n] = [k \in 1 .. c |-> m + k]
  BY <1>10, <1>11 DEF out, new
<1>20. \A k \in 1 .. c : /\ h.op[m + k] = g.op[old[k]]
                         /\ h.edge[m + k] = IF HasEdge(g, old[k]) THEN [src |-> n, dst |-> dst(k)] ELSE NoEdge
  BY <1>5, <1>6, <1>12, <1>13
<1>21. \A i \in Instrs(g) : h.op[i] = g.op[i] /\ h.edge[i] = g.edge[i]
  BY <1>12, <1>13, <1>15
<1>22. Len(h.instrs) = n /\ Len(h.op) = m + c
  BY <1>10, <1>12
<1>. QED  BY <1>16, <1>17, <1>18, <1>19, <1>20, <1>21, <1>22 DEF CopiesBlock, into, n, m, old, c, dst, branches, h

\* The copy loops where the original does, and nothing else leads to it.
LEMMA CopyLinks ==
  ASSUME NEW g, GraphTypeOK(g), LinksOK(g), NEW b \in Block(g), NEW h, CopiesBlock(g, h, b)
  PROVE  /\ LinksOK(h)
         /\ \A i \in Instrs(g) : i \in Linked(h) <=> i \in Linked(g)
<1>. DEFINE n == Len(g.instrs) + 1
            m == Len(g.op)
            old == g.instrs[b]
            c == Len(old)
            dst(k) == CopiedTarget(b, n, g.edge[old[k]].dst)
            branches == {k \in 1 .. c : IsBranch(g, old[k]) /\ HasEdge(g, old[k])}
            new == ToSet(h.instrs[n])
            joined == {m + k : k \in branches}
<1>1. /\ m \in Nat /\ n \in Nat /\ n # None /\ n \notin Blocks(g) /\ old \in Seq(Nat) /\ c \in Nat
      /\ DOMAIN old = 1 .. c /\ b \in Nat /\ b # None /\ b # n
      /\ ToSet(old) \subseteq Instrs(g) /\ ToSet(old) \subseteq Owned(g) /\ Instrs(g) = 1 .. m
  <2>1. m \in Nat /\ Len(g.instrs) \in Nat /\ old \in Seq(Nat) /\ b \in Nat /\ b # None
        /\ b \in Blocks(g) /\ Owned(g) \subseteq Instrs(g)
    BY TypeFacts
  <2>2. n \in Nat /\ n # None /\ n \notin Blocks(g)
    BY <2>1 DEF Blocks, None
  <2>3. c \in Nat /\ DOMAIN old = 1 .. c
    BY <2>1
  <2>4. ToSet(old) \subseteq Owned(g)
    BY DEF Owned
  <2>5. Instrs(g) = 1 .. m
    BY DEF Instrs
  <2>. QED  BY <2>1, <2>2, <2>3, <2>4, <2>5
<1>2. /\ \A k \in 1 .. c : old[k] \in Instrs(g) /\ old[k] \in Owned(g) /\ old[k] \in Nat
      /\ branches \subseteq 1 .. c
  <2>. HIDE DEF c, old, m
  <2>1. \A k \in 1 .. c : old[k] \in ToSet(old)
    BY <1>1, Zenon DEF ToSet
  <2>. QED  BY <1>1, <2>1
<1>3. /\ GraphTypeOK(h) /\ Len(h.instrs) = n /\ Len(h.op) = m + c
      /\ Block(h) = Block(g) \cup {n}
      /\ h.next[n] = None /\ h.prev[n] = None
      /\ h.instrs[n] = [k \in 1 .. c |-> m + k]
      /\ h.outgoing[n] = Only(h.instrs[n], joined)
      /\ h.incoming[n] = {m + k : k \in {j \in branches : dst(j) = n}}
  BY DEF CopiesBlock
<1>4. \A d \in Block(g) : /\ h.instrs[d] = g.instrs[d] /\ h.outgoing[d] = g.outgoing[d]
                          /\ h.next[d] = g.next[d] /\ h.prev[d] = g.prev[d]
                          /\ h.incoming[d] = g.incoming[d] \cup {m + k : k \in {j \in branches : dst(j) = d}}
  BY Zenon DEF CopiesBlock, GraphTypeOK
<1>5. \A i \in Instrs(g) : h.op[i] = g.op[i] /\ h.edge[i] = g.edge[i]
  BY DEF CopiesBlock
<1>6. \A k \in 1 .. c : /\ h.op[m + k] = g.op[old[k]]
                        /\ h.edge[m + k] = IF HasEdge(g, old[k]) THEN [src |-> n, dst |-> dst(k)] ELSE NoEdge
  BY DEF CopiesBlock
<1>7. /\ Block(g) \subseteq Blocks(g) /\ Linked(g) \subseteq Instrs(g) /\ Owned(g) \subseteq Instrs(g)
      /\ DOMAIN g.op = Instrs(g) /\ DOMAIN h.op = Instrs(h) /\ Instrs(h) = 1 .. m + c
      /\ \A d \in Block(g) : g.instrs[d] \in Seq(Nat) /\ ToSet(g.instrs[d]) \subseteq Instrs(g) /\ d # None
  BY <1>3, TypeFacts, Zenon DEF GraphTypeOK, Instrs
<1>. HIDE DEF n, m, old, c, dst, branches
<1>8. new = m + 1 .. m + c /\ IsInjective(h.instrs[n]) /\ h.instrs[n] \in Seq(Nat)
  <2>1. IsInjective(h.instrs[n])
    BY <1>1, <1>3 DEF IsInjective
  <2>2. \A i \in m + 1 .. m + c : i - m \in 1 .. c /\ i = m + (i - m)
    BY <1>1
  <2>3. new = m + 1 .. m + c
    <3>1. h.instrs[n] = [k \in 1 .. c |-> m + k]
      BY <1>3
    <3>2. \A k \in 1 .. c : m + k \in m + 1 .. m + c
      BY <1>1
    <3>3. ToSet(h.instrs[n]) = m + 1 .. m + c
      BY <2>2, <3>1, <3>2 DEF ToSet
    <3>. QED  BY <3>3
  <2>4. h.instrs[n] \in Seq(Nat)
    <3>1. n \in Blocks(h)
      BY <1>1, <1>3 DEF Blocks, None
    <3>. QED  BY <1>3, <3>1, TypeFacts
  <2>. QED  BY <2>1, <2>3, <2>4
<1>9. /\ Instrs(h) = Instrs(g) \cup new /\ new \cap Instrs(g) = {}
      /\ \A k \in 1 .. c : m + k \in new
      /\ \A i \in new : i - m \in 1 .. c /\ i = m + (i - m)
      /\ joined \subseteq new
      /\ \A k \in 1 .. c : (m + k \in joined) <=> k \in branches
  <2>1. \A k \in 1 .. c, j \in 1 .. c : m + k = m + j => k = j
    BY <1>1
  <2>2. \A k \in 1 .. c : m + k \in new
    BY <1>1, <1>8
  <2>3. \A i \in new : i - m \in 1 .. c /\ i = m + (i - m)
    BY <1>1, <1>8
  <2>4. Instrs(h) = Instrs(g) \cup new /\ new \cap Instrs(g) = {}
    BY <1>1, <1>7, <1>8
  <2>. HIDE DEF new
  <2>5. joined \subseteq new
    BY <1>2, <2>2
  <2>6. \A k \in 1 .. c : (m + k \in joined) <=> k \in branches
    BY <1>2, <2>1
  <2>. QED  BY <2>2, <2>3, <2>4, <2>5, <2>6
<1>. HIDE DEF new
<1>10. \A k \in 1 .. c : /\ HasEdge(h, m + k) <=> HasEdge(g, old[k])
                         /\ IsBranch(h, m + k) <=> IsBranch(g, old[k])
                         /\ HasEdge(g, old[k]) => h.edge[m + k].src = n /\ h.edge[m + k].dst = dst(k)
                         /\ ~HasEdge(g, old[k]) => h.edge[m + k].dst = None
  <2>. TAKE k \in 1 .. c
  <2>1. CASE HasEdge(g, old[k])
    <3>1. h.edge[m + k] = [src |-> n, dst |-> dst(k)]
      BY <1>6, <2>1
    <3>. QED  BY <1>1, <1>6, <2>1, <3>1 DEF HasEdge, NoEdge, IsBranch
  <2>2. CASE ~HasEdge(g, old[k])
    <3>1. h.edge[m + k] = NoEdge /\ h.op[m + k] = g.op[old[k]]
      BY <1>6, <2>2, Zenon
    <3>. QED  BY <2>2, <3>1 DEF HasEdge, NoEdge, IsBranch
  <2>. QED  BY <2>1, <2>2
<1>11. Linked(h) = Linked(g) \cup joined
  <2>1. ASSUME NEW i \in Instrs(g) PROVE i \in Linked(h) <=> i \in Linked(g)
    BY <1>5, <1>7, <1>9 DEF Linked, HasEdge, IsBranch
  <2>2. ASSUME NEW i \in new PROVE i \in Linked(h) <=> i \in joined
    <3>1. PICK k \in 1 .. c : i = m + k
      BY <1>9
    <3>2. i \in Linked(h) <=> IsBranch(g, old[k]) /\ HasEdge(g, old[k])
      BY <1>7, <1>9, <1>10, <3>1 DEF Linked
    <3>. QED  BY <1>9, <3>1, <3>2 DEF branches
  <2>3. Linked(h) \subseteq Instrs(h)
    BY <1>7 DEF Linked
  <2>. HIDE DEF joined
  <2>. QED  BY <1>7, <1>9, <2>1, <2>2, <2>3
<1>12. Owned(h) = Owned(g) \cup new
  <2>1. ToSet(h.instrs[n]) = new
    BY DEF new
  <2>2. \A d \in Block(g) : ToSet(h.instrs[d]) = ToSet(g.instrs[d])
    BY <1>4
  <2>. QED  BY <1>3, <2>1, <2>2 DEF Owned
<1>13. OutgoingOK(h)
  <2>. SUFFICES ASSUME NEW d \in Block(h) PROVE h.outgoing[d] = Only(h.instrs[d], Linked(h))
    BY DEF OutgoingOK
  <2>. HIDE DEF joined
  <2>1. CASE d \in Block(g)
    <3>1. ToSet(g.instrs[d]) \cap Linked(h) = ToSet(g.instrs[d]) \cap Linked(g) /\ g.instrs[d] \in Seq(Nat)
      BY <1>7, <1>9, <1>11, <2>1
    <3>2. Only(g.instrs[d], Linked(h)) = Only(g.instrs[d], Linked(g))
      BY <3>1, OnlySame
    <3>. QED  BY <1>4, <2>1, <3>2 DEF LinksOK, OutgoingOK
  <2>2. CASE d = n
    <3>1. new \cap Linked(h) = new \cap joined
      BY <1>7, <1>9, <1>11
    <3>2. Only(h.instrs[n], Linked(h)) = Only(h.instrs[n], joined)
      BY <1>8, <3>1, OnlySame, Zenon DEF new
    <3>. QED  BY <1>3, <2>2, <3>2
  <2>. QED  BY <1>3, <2>1, <2>2
<1>14. SourcesOK(h)
  <2>. SUFFICES ASSUME NEW d \in Block(h), NEW i \in ToSet(h.instrs[d]), HasEdge(h, i) PROVE h.edge[i].src = d
    BY DEF SourcesOK
  <2>1. CASE d \in Block(g)
    <3>1. i \in Instrs(g) /\ i \in ToSet(g.instrs[d])
      BY <1>4, <1>7, <2>1
    <3>. QED  BY <1>5, <2>1, <3>1 DEF LinksOK, SourcesOK, HasEdge
  <2>2. CASE d = n
    <3>1. PICK k \in 1 .. c : i = m + k
      BY <1>9, <2>2 DEF new
    <3>. QED  BY <1>10, <2>2, <3>1
  <2>. QED  BY <1>3, <2>1, <2>2
<1>15. \A k \in branches : old[k] \in Linked(g) /\ dst(k) \in Block(h) /\ h.edge[m + k].dst = dst(k)
  <2>. TAKE k \in branches
  <2>1. old[k] \in Linked(g) /\ old[k] \in Owned(g) /\ k \in 1 .. c
    BY <1>2, <1>7 DEF branches, Linked
  <2>2. g.edge[old[k]].dst \in Block(g)
    BY <2>1 DEF LinksOK, TargetsOK
  <2>3. h.edge[m + k].dst = dst(k)
    BY <1>10, <2>1 DEF Linked
  <2>. QED  BY <1>3, <2>1, <2>2, <2>3 DEF dst, CopiedTarget
<1>16. TargetsOK(h)
  <2>. SUFFICES ASSUME NEW i \in Owned(h), i \in Linked(h) PROVE h.edge[i].dst \in Block(h)
    BY DEF TargetsOK
  <2>1. CASE i \in Owned(g)
    <3>1. i \in Linked(g) /\ i \in Instrs(g)
      BY <1>7, <1>9, <1>11, <2>1
    <3>. QED  BY <1>3, <1>5, <2>1, <3>1 DEF LinksOK, TargetsOK
  <2>2. CASE i \in new
    <3>1. i \in joined
      BY <1>7, <1>9, <1>11, <2>2
    <3>. QED  BY <1>15, <3>1
  <2>. QED  BY <1>12, <2>1, <2>2
<1>17. IncomingOK(h)
  <2>. SUFFICES ASSUME NEW d \in Block(h), NEW i \in Nat
                PROVE  i \in h.incoming[d] <=> i \in Owned(h) /\ IsBranch(h, i) /\ h.edge[i].dst = d
    BY DEF IncomingOK
  <2>0. d # None
    BY <1>1, <1>3, <1>7
  <2>1. CASE i \in new
    <3>1. PICK k \in 1 .. c : i = m + k
      BY <1>9, <2>1
    <3>2. IsBranch(h, i) /\ h.edge[i].dst = d <=> k \in branches /\ dst(k) = d
      <4>1. HasEdge(g, old[k]) => h.edge[i].dst = dst(k)
        BY <1>10, <3>1
      <4>2. ~HasEdge(g, old[k]) => h.edge[i].dst = None
        BY <1>10, <3>1
      <4>3. IsBranch(h, i) <=> IsBranch(g, old[k])
        BY <1>10, <3>1
      <4>4. k \in branches <=> IsBranch(g, old[k]) /\ HasEdge(g, old[k])
        BY DEF branches
      <4>. QED  BY <2>0, <4>1, <4>2, <4>3, <4>4
    <3>3. i \in {m + j : j \in {x \in branches : dst(x) = d}} <=> k \in branches /\ dst(k) = d
      <4>1. \A j \in branches : m + k = m + j => k = j
        BY <1>1, <1>2
      <4>. QED  BY <3>1, <4>1
    <3>4. i \notin g.incoming[d] \/ d = n
      BY <1>3, <1>7, <1>9, <2>1 DEF LinksOK, IncomingOK
    <3>5. i \in h.incoming[d] <=> i \in {m + j : j \in {x \in branches : dst(x) = d}}
      BY <1>3, <1>4, <3>4
    <3>. QED  BY <1>12, <2>1, <3>2, <3>3, <3>5
  <2>2. CASE i \notin new
    <3>1. i \notin {m + j : j \in {x \in branches : dst(x) = d}}
      BY <1>2, <1>9, <2>2, Zenon
    <3>2. i \in Owned(h) <=> i \in Owned(g)
      BY <1>12, <2>2
    <3>3. i \in Owned(g) => (IsBranch(h, i) <=> IsBranch(g, i)) /\ h.edge[i] = g.edge[i]
      BY <1>5, <1>7 DEF IsBranch
    <3>4. CASE d \in Block(g)
      <4>1. i \in g.incoming[d] <=> i \in Owned(g) /\ IsBranch(g, i) /\ g.edge[i].dst = d
        BY <3>4 DEF LinksOK, IncomingOK
      <4>2. i \in h.incoming[d] <=> i \in g.incoming[d]
        BY <1>4, <3>1, <3>4
      <4>. QED  BY <3>2, <3>3, <4>1, <4>2
    <3>5. CASE d = n
      <4>1. i \notin h.incoming[d]
        BY <1>3, <3>1, <3>5
      <4>. SUFFICES ASSUME i \in Owned(g), IsBranch(g, i), g.edge[i].dst = n PROVE FALSE
        BY <3>2, <3>3, <3>5, <4>1
      <4>2. HasEdge(g, i)
        BY <1>1 DEF HasEdge, NoEdge
      <4>3. i \in Linked(g)
        BY <1>7, <4>2 DEF Linked
      <4>4. g.edge[i].dst \in Block(g)
        BY <4>3 DEF LinksOK, TargetsOK
      <4>. QED  BY <1>1, <1>7, <4>4
    <3>. QED  BY <1>3, <3>4, <3>5
  <2>. QED  BY <2>1, <2>2
<1>18. \A d \in Block(g) : g.next[d] # n /\ g.prev[d] # n
  BY <1>1, <1>7 DEF LinksOK, NextOK, PrevOK
<1>19. NextOK(h)
  <2>1. \A d \in Block(g) : g.next[d] # None => g.next[d] \in Block(g) /\ g.prev[g.next[d]] = d
    BY DEF NextOK, LinksOK
  <2>2. ASSUME NEW d \in Block(g), h.next[d] # None
        PROVE  h.next[d] \in Block(h) /\ h.prev[h.next[d]] = d
    BY <1>3, <1>4, <2>1, <2>2
  <2>. QED  BY <1>3, <2>2 DEF NextOK
<1>20. PrevOK(h)
  <2>1. \A d \in Block(g) : g.prev[d] # None => g.prev[d] \in Block(g) /\ g.next[g.prev[d]] = d
    BY DEF PrevOK, LinksOK
  <2>2. ASSUME NEW d \in Block(g), h.prev[d] # None
        PROVE  h.prev[d] \in Block(h) /\ h.next[h.prev[d]] = d
    BY <1>3, <1>4, <2>1, <2>2
  <2>. QED  BY <1>3, <2>2 DEF PrevOK
<1>21. OnceOK(h)
  BY <1>3, <1>4, <1>8 DEF OnceOK, LinksOK
<1>22. ApartOK(h)
  <2>1. \A d, e \in Block(g) : d # e => ToSet(g.instrs[d]) \cap ToSet(g.instrs[e]) = {}
    BY DEF ApartOK, LinksOK
  <2>2. \A d \in Block(g) : ToSet(h.instrs[d]) = ToSet(g.instrs[d]) /\ ToSet(g.instrs[d]) \cap new = {}
    BY <1>4, <1>7, <1>9
  <2>3. ToSet(h.instrs[n]) = new
    BY DEF new
  <2>. QED  BY <1>3, <2>1, <2>2, <2>3, Zenon DEF ApartOK
<1>23. \A i \in Instrs(g) : i \in Linked(h) <=> i \in Linked(g)
  <2>. HIDE DEF joined
  <2>. QED  BY <1>9, <1>11
<1>. QED  BY <1>13, <1>14, <1>16, <1>17, <1>19, <1>20, <1>21, <1>22, <1>23 DEF LinksOK

-----------------------------------------------------------------------------
\* What mergeBlockIntoNext() leaves, unless it asserts: block n stands for both.
Merges(g, h, b) ==
  LET n == g.next[b]
      p == g.prev[b]
  IN  /\ DOMAIN h = Fields /\ h.status = "ok" /\ n # None /\ g.incoming[n] = {} /\ n # b
      /\ h.op = g.op /\ h.blocks = Without(g.blocks, {b})
      /\ h.entryBlock = IF g.entryBlock = b THEN n ELSE g.entryBlock
      /\ h.instrs \in Seq(Seq(Nat)) /\ Len(h.instrs) = Len(g.instrs)
      /\ h.next \in Seq(Nat) /\ Len(h.next) = Len(g.instrs)
      /\ h.prev \in Seq(Nat) /\ Len(h.prev) = Len(g.instrs)
      /\ h.incoming \in Seq(SUBSET Nat) /\ Len(h.incoming) = Len(g.instrs)
      /\ h.outgoing \in Seq(Seq(Nat)) /\ Len(h.outgoing) = Len(g.instrs)
      /\ h.edge \in Seq(EdgeType) /\ Len(h.edge) = Len(g.op)
      /\ h.instrs[n] = g.instrs[b] \o g.instrs[n] /\ h.instrs[b] = <<>>
      /\ h.outgoing[n] = g.outgoing[b] \o g.outgoing[n]
      /\ h.incoming[n] = g.incoming[b]
      /\ \A c \in Blocks(g) \ {b, n} : /\ h.instrs[c] = g.instrs[c] /\ h.outgoing[c] = g.outgoing[c]
                                       /\ h.incoming[c] = g.incoming[c]
      /\ \A c \in Blocks(g) : h.next[c] = IF c = p THEN n ELSE IF c = b THEN None ELSE g.next[c]
      /\ \A c \in Blocks(g) : h.prev[c] = IF c = b THEN None ELSE IF c = n THEN p ELSE g.prev[c]
      /\ \A i \in Instrs(g) :
           h.edge[i] = [src |-> IF i \in ToSet(g.instrs[b]) /\ HasEdge(g, i) THEN n ELSE g.edge[i].src,
                        dst |-> IF i \in g.incoming[b] THEN n ELSE g.edge[i].dst]

\* Two elements assigned, the second assignment last.
LEMMA ExceptTwice ==
  ASSUME NEW T, NEW s \in Seq(T), NEW j \in 1 .. Len(s), NEW k \in 1 .. Len(s), NEW d \in T, NEW e \in T
  PROVE  LET t == [[s EXCEPT ![j] = d] EXCEPT ![k] = e]
         IN  /\ t \in Seq(T) /\ Len(t) = Len(s)
             /\ \A i \in 1 .. Len(s) : t[i] = IF i = k THEN e ELSE IF i = j THEN d ELSE s[i]
<1>. DEFINE x == [s EXCEPT ![j] = d]
            t == [x EXCEPT ![k] = e]
<1>1. x \in Seq(T) /\ Len(x) = Len(s) /\ \A i \in 1 .. Len(s) : x[i] = IF i = j THEN d ELSE s[i]
  BY ExceptFacts
<1>. HIDE DEF x
<1>2. t \in Seq(T) /\ Len(t) = Len(x) /\ \A i \in 1 .. Len(x) : t[i] = IF i = k THEN e ELSE x[i]
  BY <1>1, ExceptFacts
<1>. QED  BY <1>1, <1>2 DEF x

\* A block goes to the front of its successor.
LEMMA MergeFacts ==
  ASSUME NEW g, GraphTypeOK(g), LinksOK(g), NEW b \in Block(g),
         MergeBlockIntoNext(g, b).status = "ok"
  PROVE  g.status = "ok" /\ Merges(g, MergeBlockIntoNext(g, b), b)
<1>. DEFINE n == g.next[b]
            p == g.prev[b]
            redirect(i) == [src |-> IF i \in ToSet(g.instrs[b]) /\ HasEdge(g, i) THEN n ELSE g.edge[i].src,
                            dst |-> IF i \in g.incoming[b] THEN n ELSE g.edge[i].dst]
            linked == [g EXCEPT !.prev[n] = p, !.next[b] = None, !.prev[b] = None]
            chained == IF p = None THEN linked ELSE [linked EXCEPT !.next[p] = n]
            instrs == MergedInstrs(g, b, n)
            out == MergedOutgoing(g, b, n)
            m == Len(g.instrs)
            h == MergeBlockIntoNext(g, b)
<1>1. DOMAIN g = Fields
  BY DEF GraphTypeOK
<1>2. n # None /\ g.incoming[n] = {}
  <2>. SUFFICES ASSUME n = None \/ g.incoming[n] # {} PROVE FALSE
    OBVIOUS
  <2>1. h = Check(g, FALSE)
    BY Zenon DEF MergeBlockIntoNext
  <2>2. h.status = "thrown"
    BY <1>1, <2>1 DEF Check, Fields
  <2>. QED  BY <2>2
<1>3. n # b
  <2>. SUFFICES ASSUME n = b PROVE FALSE
    OBVIOUS
  <2>1. h = [g EXCEPT !.status = "undefined"]
    BY <1>2, Zenon DEF MergeBlockIntoNext
  <2>2. h.status = "undefined"
    BY <1>1, <2>1 DEF Fields
  <2>. QED  BY <2>2
<1>4. h = [chained EXCEPT
             !.entryBlock = IF @ = b THEN n ELSE @,
             !.edge = [i \in 1 .. Len(@) |-> redirect(i)],
             !.incoming[n] = g.incoming[b], !.incoming[b] = {},
             !.outgoing[n] = out, !.outgoing[b] = <<>>,
             !.instrs[n] = instrs, !.instrs[b] = <<>>,
             !.blocks = Without(@, {b})]
  BY <1>2, <1>3, Zenon DEF MergeBlockIntoNext
<1>5. /\ n \in Block(g) /\ b \in Blocks(g) /\ n \in Blocks(g) /\ n \in Nat /\ p \in Nat /\ b # None
      /\ p # b
      /\ p # None => p \in Blocks(g)
      /\ Blocks(g) = 1 .. m
      /\ g.instrs[b] \in Seq(Nat) /\ g.instrs[n] \in Seq(Nat)
      /\ g.outgoing[b] \in Seq(Nat) /\ g.outgoing[n] \in Seq(Nat) /\ g.incoming[b] \in SUBSET Nat
  <2>1. n \in Block(g)
    BY <1>2 DEF LinksOK, NextOK
  <2>2. p # None => p \in Block(g) /\ g.next[p] = b
    BY DEF LinksOK, PrevOK
  <2>3. p # b
    BY <1>3, <2>2, TypeFacts
  <2>. QED  BY <2>1, <2>2, <2>3, TypeFacts, Zenon DEF Blocks
<1>6. instrs \in Seq(Nat) /\ out \in Seq(Nat)
  BY <1>5, ConcatFacts DEF MergedInstrs, MergedOutgoing
<1>. HIDE DEF h, instrs, out, n, p, redirect
<1>7. /\ DOMAIN linked = Fields /\ linked.blocks = g.blocks /\ linked.entryBlock = g.entryBlock
      /\ linked.instrs = g.instrs /\ linked.incoming = g.incoming /\ linked.outgoing = g.outgoing
      /\ linked.op = g.op /\ linked.edge = g.edge /\ linked.status = g.status
      /\ linked.next = [g.next EXCEPT ![b] = None]
      /\ linked.prev = [[g.prev EXCEPT ![n] = p] EXCEPT ![b] = None]
  BY <1>1 DEF Fields
<1>. HIDE DEF linked
<1>8. /\ DOMAIN chained = Fields /\ chained.blocks = g.blocks /\ chained.entryBlock = g.entryBlock
      /\ chained.instrs = g.instrs /\ chained.incoming = g.incoming /\ chained.outgoing = g.outgoing
      /\ chained.op = g.op /\ chained.edge = g.edge /\ chained.status = g.status
      /\ chained.next = IF p = None THEN linked.next ELSE [linked.next EXCEPT ![p] = n]
      /\ chained.prev = linked.prev
  BY <1>7 DEF Fields
<1>. HIDE DEF chained
<1>9. /\ DOMAIN h = Fields /\ h.op = g.op /\ h.status = g.status
      /\ h.blocks = Without(g.blocks, {b})
      /\ h.entryBlock = IF g.entryBlock = b THEN n ELSE g.entryBlock
      /\ h.next = chained.next /\ h.prev = chained.prev
      /\ h.edge = [i \in 1 .. Len(g.edge) |-> redirect(i)]
      /\ h.incoming = [[g.incoming EXCEPT ![n] = g.incoming[b]] EXCEPT ![b] = {}]
      /\ h.outgoing = [[g.outgoing EXCEPT ![n] = out] EXCEPT ![b] = <<>>]
      /\ h.instrs = [[g.instrs EXCEPT ![n] = instrs] EXCEPT ![b] = <<>>]
  BY <1>4, <1>8, ZenonT(30) DEF Fields
<1>10. h.status = "ok" /\ g.status = "ok"
  BY <1>9 DEF h
<1>11. /\ h.instrs \in Seq(Seq(Nat)) /\ Len(h.instrs) = m /\ h.instrs[n] = instrs /\ h.instrs[b] = <<>>
       /\ \A c \in Blocks(g) \ {b, n} : h.instrs[c] = g.instrs[c]
  <2>1. g.instrs \in Seq(Seq(Nat)) /\ n \in 1 .. Len(g.instrs) /\ b \in 1 .. Len(g.instrs) /\ <<>> \in Seq(Nat)
    BY <1>5 DEF GraphTypeOK
  <2>2. /\ h.instrs \in Seq(Seq(Nat)) /\ Len(h.instrs) = Len(g.instrs)
        /\ \A c \in 1 .. Len(g.instrs) : h.instrs[c] = IF c = b THEN <<>> ELSE IF c = n THEN instrs ELSE g.instrs[c]
    BY <1>6, <1>9, <2>1, ExceptTwice, SMTT(30)
  <2>. QED  BY <1>3, <1>5, <2>1, <2>2, Zenon
<1>12. /\ h.outgoing \in Seq(Seq(Nat)) /\ Len(h.outgoing) = m /\ h.outgoing[n] = out
       /\ \A c \in Blocks(g) \ {b, n} : h.outgoing[c] = g.outgoing[c]
  <2>1. g.outgoing \in Seq(Seq(Nat)) /\ Len(g.outgoing) = m
        /\ n \in 1 .. Len(g.outgoing) /\ b \in 1 .. Len(g.outgoing) /\ <<>> \in Seq(Nat)
    BY <1>5 DEF GraphTypeOK
  <2>2. /\ h.outgoing \in Seq(Seq(Nat)) /\ Len(h.outgoing) = Len(g.outgoing)
        /\ \A c \in 1 .. Len(g.outgoing) : h.outgoing[c] = IF c = b THEN <<>> ELSE IF c = n THEN out ELSE g.outgoing[c]
    BY <1>6, <1>9, <2>1, ExceptTwice, SMTT(30)
  <2>. QED  BY <1>3, <1>5, <2>1, <2>2, Zenon
<1>13. /\ h.incoming \in Seq(SUBSET Nat) /\ Len(h.incoming) = m /\ h.incoming[n] = g.incoming[b]
       /\ \A c \in Blocks(g) \ {b, n} : h.incoming[c] = g.incoming[c]
  <2>1. g.incoming \in Seq(SUBSET Nat) /\ Len(g.incoming) = m
        /\ n \in 1 .. Len(g.incoming) /\ b \in 1 .. Len(g.incoming) /\ {} \in SUBSET Nat
    BY <1>5 DEF GraphTypeOK
  <2>2. /\ h.incoming \in Seq(SUBSET Nat) /\ Len(h.incoming) = Len(g.incoming)
        /\ \A c \in 1 .. Len(g.incoming) : h.incoming[c] = IF c = b THEN {} ELSE IF c = n THEN g.incoming[b] ELSE g.incoming[c]
    BY <1>5, <1>9, <2>1, ExceptTwice, SMTT(30)
  <2>. QED  BY <1>3, <1>5, <2>1, <2>2
<1>14. /\ h.prev \in Seq(Nat) /\ Len(h.prev) = m
       /\ \A c \in Blocks(g) : h.prev[c] = IF c = b THEN None ELSE IF c = n THEN p ELSE g.prev[c]
  <2>1. /\ g.prev \in Seq(Nat) /\ Len(g.prev) = m /\ None \in Nat /\ p \in Nat
        /\ n \in 1 .. Len(g.prev) /\ b \in 1 .. Len(g.prev)
    BY <1>5 DEF GraphTypeOK, None
  <2>2. h.prev = [[g.prev EXCEPT ![n] = p] EXCEPT ![b] = None]
    BY <1>7, <1>8, <1>9
  <2>3. /\ h.prev \in Seq(Nat) /\ Len(h.prev) = Len(g.prev)
        /\ \A c \in 1 .. Len(g.prev) : h.prev[c] = IF c = b THEN None ELSE IF c = n THEN p ELSE g.prev[c]
    BY <2>1, <2>2, ExceptTwice, SMTT(30)
  <2>. QED  BY <1>5, <2>1, <2>3
<1>15. /\ h.next \in Seq(Nat) /\ Len(h.next) = m
       /\ \A c \in Blocks(g) : h.next[c] = IF c = p THEN n ELSE IF c = b THEN None ELSE g.next[c]
  <2>1. g.next \in Seq(Nat) /\ Len(g.next) = m /\ None \in Nat /\ n \in Nat /\ b \in 1 .. Len(g.next)
    BY <1>5 DEF GraphTypeOK, None
  <2>2. CASE p = None
    <3>1. h.next = [g.next EXCEPT ![b] = None]
      BY <1>7, <1>8, <1>9, <2>2
    <3>2. /\ h.next \in Seq(Nat) /\ Len(h.next) = Len(g.next) /\ h.next[b] = None
          /\ \A c \in 1 .. Len(g.next) : c # b => h.next[c] = g.next[c]
      BY <2>1, <3>1, ExceptFacts
    <3>3. \A c \in Blocks(g) : c # p
      BY <1>5, <2>2 DEF None
    <3>. QED  BY <1>5, <2>1, <3>2, <3>3, Zenon
  <2>3. CASE p # None
    <3>1. h.next = [[g.next EXCEPT ![b] = None] EXCEPT ![p] = n]
      BY <1>7, <1>8, <1>9, <2>3
    <3>2. p \in 1 .. Len(g.next)
      BY <1>5, <2>1, <2>3
    <3>3. /\ h.next \in Seq(Nat) /\ Len(h.next) = Len(g.next)
          /\ \A c \in 1 .. Len(g.next) : h.next[c] = IF c = p THEN n ELSE IF c = b THEN None ELSE g.next[c]
      BY <2>1, <3>1, <3>2, ExceptTwice, SMTT(30)
    <3>. QED  BY <1>5, <2>1, <3>3
  <2>. QED  BY <2>2, <2>3
<1>16. h.edge \in Seq(EdgeType) /\ Len(h.edge) = Len(g.op) /\ \A i \in Instrs(g) : h.edge[i] = redirect(i)
  <2>1. Instrs(g) = 1 .. Len(g.edge) /\ Len(g.edge) = Len(g.op) /\ Len(g.op) \in Nat
        /\ \A i \in Instrs(g) : g.edge[i].src \in Nat /\ g.edge[i].dst \in Nat
    BY TypeFacts, Zenon DEF GraphTypeOK, Instrs
  <2>2. \A i \in Instrs(g) : redirect(i) \in EdgeType
    BY <1>5, <2>1, Zenon DEF redirect, EdgeType
  <2>3. h.edge \in [1 .. Len(g.edge) -> EdgeType]
    BY <1>9, <2>1, <2>2
  <2>. QED  BY <1>9, <2>1, <2>3
<1>. QED  BY <1>2, <1>3, <1>9, <1>10, <1>11, <1>12, <1>13, <1>14, <1>15, <1>16, Zenon
          DEF Merges, h, n, p, redirect, instrs, out, m, MergedInstrs, MergedOutgoing

\* Merging keeps the links.
LEMMA MergeLinks ==
  ASSUME NEW g, GraphTypeOK(g), LinksOK(g), EntryOK(g), NEW b \in Block(g), NEW h, Merges(g, h, b)
  PROVE  GraphTypeOK(h) /\ LinksOK(h) /\ EntryOK(h) /\ Block(h) = Block(g) \ {b} /\ h.next[b] = None
<1>. DEFINE n == g.next[b]
            p == g.prev[b]
            s == g.instrs[b]
            t == g.instrs[n]
<1>1. /\ n # None /\ g.incoming[n] = {} /\ n # b /\ n \in Block(g) /\ g.prev[n] = b
      /\ p # None => p \in Block(g) /\ g.next[p] = b
      /\ b \in Blocks(g) /\ n \in Blocks(g) /\ b # None /\ s \in Seq(Nat) /\ t \in Seq(Nat)
      /\ b \in Nat /\ n \in Nat /\ ToSet(s) \cap ToSet(t) = {}
      /\ ToSet(s) \subseteq Instrs(g) /\ ToSet(t) \subseteq Instrs(g)
  <2>1. n # None /\ g.incoming[n] = {} /\ n # b
    BY DEF Merges
  <2>2. n \in Block(g) /\ g.prev[n] = b
    BY <2>1 DEF LinksOK, NextOK
  <2>3. p # None => p \in Block(g) /\ g.next[p] = b
    BY DEF LinksOK, PrevOK
  <2>4. ToSet(s) \cap ToSet(t) = {}
    BY <2>1, <2>2 DEF LinksOK, ApartOK
  <2>5. b \in Blocks(g) /\ n \in Blocks(g)
    BY <2>2, TypeFacts
  <2>6. ToSet(s) \subseteq Instrs(g) /\ ToSet(t) \subseteq Instrs(g)
    BY <2>5, Zenon DEF GraphTypeOK
  <2>. QED  BY <2>1, <2>2, <2>3, <2>4, <2>5, <2>6, TypeFacts
<1>2. /\ DOMAIN h = Fields /\ h.status = "ok" /\ h.op = g.op /\ h.blocks = Without(g.blocks, {b})
      /\ h.entryBlock = IF g.entryBlock = b THEN n ELSE g.entryBlock
      /\ h.instrs \in Seq(Seq(Nat)) /\ Len(h.instrs) = Len(g.instrs)
      /\ h.next \in Seq(Nat) /\ Len(h.next) = Len(g.instrs)
      /\ h.prev \in Seq(Nat) /\ Len(h.prev) = Len(g.instrs)
      /\ h.incoming \in Seq(SUBSET Nat) /\ Len(h.incoming) = Len(g.instrs)
      /\ h.outgoing \in Seq(Seq(Nat)) /\ Len(h.outgoing) = Len(g.instrs)
      /\ h.edge \in Seq(EdgeType) /\ Len(h.edge) = Len(g.op)
  BY DEF Merges
<1>3. /\ h.instrs[n] = s \o t /\ h.instrs[b] = <<>>
      /\ h.outgoing[n] = g.outgoing[b] \o g.outgoing[n]
      /\ h.incoming[n] = g.incoming[b]
      /\ \A c \in Blocks(g) \ {b, n} : /\ h.instrs[c] = g.instrs[c] /\ h.outgoing[c] = g.outgoing[c]
                                       /\ h.incoming[c] = g.incoming[c]
      /\ \A c \in Blocks(g) : h.next[c] = IF c = p THEN n ELSE IF c = b THEN None ELSE g.next[c]
      /\ \A c \in Blocks(g) : h.prev[c] = IF c = b THEN None ELSE IF c = n THEN p ELSE g.prev[c]
      /\ \A i \in Instrs(g) :
           h.edge[i] = [src |-> IF i \in ToSet(s) /\ HasEdge(g, i) THEN n ELSE g.edge[i].src,
                        dst |-> IF i \in g.incoming[b] THEN n ELSE g.edge[i].dst]
  BY Zenon DEF Merges
<1>4. /\ Block(g) \subseteq Blocks(g) /\ Linked(g) \subseteq Instrs(g) /\ Owned(g) \subseteq Instrs(g)
      /\ DOMAIN g.op = Instrs(g) /\ Instrs(g) \subseteq Nat
      /\ \A i \in Instrs(g) : g.edge[i] \in EdgeType
  BY TypeFacts
<1>5. \A c \in Block(g) : /\ g.instrs[c] \in Seq(Nat) /\ ToSet(g.instrs[c]) \subseteq Instrs(g)
                          /\ g.outgoing[c] = Only(g.instrs[c], Linked(g)) /\ c # None
                          /\ \A d \in Block(g) : c # d => ToSet(g.instrs[c]) \cap ToSet(g.instrs[d]) = {}
  BY TypeFacts, Zenon DEF LinksOK, OutgoingOK, ApartOK, GraphTypeOK
<1>6. \A i \in Nat : i \in g.incoming[b] <=> i \in Owned(g) /\ IsBranch(g, i) /\ g.edge[i].dst = b
  BY DEF LinksOK, IncomingOK
<1>. HIDE DEF n, p, s, t
<1>7. /\ Block(h) = Block(g) \ {b} /\ Blocks(h) = Blocks(g) /\ Instrs(h) = Instrs(g)
      /\ IsInjective(h.blocks) /\ h.blocks \in Seq(Nat)
  <2>. DEFINE R == {b}
              l == g.blocks
  <2>1. l \in Seq(Nat) /\ IsInjective(l) /\ h.blocks = Without(l, R)
    BY <1>2 DEF GraphTypeOK
  <2>. HIDE DEF R, l
  <2>2. Without(l, R) \in Seq(Nat) /\ ToSet(Without(l, R)) = ToSet(l) \ R /\ IsInjective(Without(l, R))
    BY <2>1, WithoutFacts
  <2>. QED  BY <1>2, <2>1, <2>2, Zenon DEF Block, Blocks, Instrs, R, l
<1>8. ToSet(s \o t) = ToSet(s) \cup ToSet(t)
  BY <1>1, SetConcat
<1>9. Owned(h) = Owned(g)
  <2>1. \A c \in Block(g) : c # b /\ c # n => ToSet(h.instrs[c]) = ToSet(g.instrs[c])
    BY <1>3, <1>4
  <2>2. ToSet(h.instrs[n]) = ToSet(g.instrs[b]) \cup ToSet(g.instrs[n])
    BY <1>3, <1>8 DEF s, t
  <2>3. ASSUME NEW x PROVE x \in Owned(h) <=> x \in Owned(g)
    <3>1. x \in Owned(h) <=> \E c \in Block(h) : x \in ToSet(h.instrs[c])
      BY DEF Owned
    <3>2. x \in Owned(g) <=> \E c \in Block(g) : x \in ToSet(g.instrs[c])
      BY DEF Owned
    <3>. QED  BY <1>1, <1>7, <2>1, <2>2, <3>1, <3>2, Zenon
  <2>. QED  BY <2>3
<1>10. \A i \in Instrs(g) :
         /\ HasEdge(h, i) <=> HasEdge(g, i)
         /\ IsBranch(h, i) <=> IsBranch(g, i)
         /\ i \in ToSet(s) /\ HasEdge(g, i) => h.edge[i].src = n
         /\ i \notin ToSet(s) => h.edge[i].src = g.edge[i].src
         /\ h.edge[i].dst = IF i \in g.incoming[b] THEN n ELSE g.edge[i].dst
  <2>. TAKE i \in Instrs(g)
  <2>. DEFINE e == g.edge[i]
              x == IF i \in ToSet(s) /\ HasEdge(g, i) THEN n ELSE e.src
              y == IF i \in g.incoming[b] THEN n ELSE e.dst
  <2>1. h.edge[i] = [src |-> x, dst |-> y]
    BY <1>3
  <2>2. e = [src |-> e.src, dst |-> e.dst]
    BY <1>4 DEF EdgeType
  <2>3. HasEdge(g, i) <=> (e.src # None \/ e.dst # None)
    BY <2>2 DEF HasEdge, NoEdge
  <2>4. HasEdge(h, i) <=> (x # None \/ y # None)
    BY <2>1 DEF HasEdge, NoEdge
  <2>5. i \in g.incoming[b] => e.dst # None
    BY <1>1, <1>4, <1>6
  <2>6. h.edge[i].src = x /\ h.edge[i].dst = y
    BY <2>1
  <2>7. HasEdge(h, i) <=> HasEdge(g, i)
    BY <1>1, <2>3, <2>4, <2>5
  <2>8. IsBranch(h, i) <=> IsBranch(g, i)
    BY <1>2 DEF IsBranch
  <2>. QED  BY <2>6, <2>7, <2>8
<1>11. Linked(h) = Linked(g)
  BY <1>2, <1>4, <1>10 DEF Linked
<1>12. OutgoingOK(h)
  <2>. SUFFICES ASSUME NEW c \in Block(h) PROVE h.outgoing[c] = Only(h.instrs[c], Linked(h))
    BY DEF OutgoingOK
  <2>1. CASE c = n
    <3>. DEFINE L == Linked(g)
    <3>1. h.outgoing[n] = Only(s, L) \o Only(t, L) /\ h.instrs[n] = s \o t
      BY <1>1, <1>3, <1>5, Zenon DEF s, t
    <3>2. s \in Seq(Nat) /\ t \in Seq(Nat)
      BY <1>1
    <3>. HIDE DEF L
    <3>3. Only(s \o t, L) = Only(s, L) \o Only(t, L)
      BY <3>2, OnlyConcat
    <3>. QED  BY <1>11, <2>1, <3>1, <3>3 DEF L
  <2>2. CASE c # n
    BY <1>3, <1>4, <1>5, <1>7, <1>11, <2>2
  <2>. QED  BY <2>1, <2>2
<1>13. SourcesOK(h)
  <2>. SUFFICES ASSUME NEW c \in Block(h), NEW i \in ToSet(h.instrs[c]), HasEdge(h, i) PROVE h.edge[i].src = c
    BY DEF SourcesOK
  <2>1. CASE c = n /\ i \in ToSet(s)
    BY <1>1, <1>10, <2>1
  <2>2. CASE c = n /\ i \notin ToSet(s)
    <3>1. i \in ToSet(g.instrs[n])
      BY <1>3, <1>8, <2>2, Zenon DEF t
    <3>2. g.edge[i].src = n
      BY <1>1, <1>5, <1>10, <3>1 DEF LinksOK, SourcesOK
    <3>. QED  BY <1>1, <1>5, <1>10, <2>2, <3>1, <3>2, Zenon
  <2>3. CASE c # n
    <3>1. c \in Block(g) /\ c # b /\ i \in ToSet(g.instrs[c])
      BY <1>3, <1>4, <1>7, <2>3
    <3>2. i \in Instrs(g) /\ i \notin ToSet(s)
      BY <1>5, <3>1, Zenon DEF s
    <3>. QED  BY <1>10, <3>1, <3>2 DEF LinksOK, SourcesOK
  <2>. QED  BY <2>1, <2>2, <2>3
<1>14. TargetsOK(h)
  <2>. SUFFICES ASSUME NEW i \in Owned(g), i \in Linked(g) PROVE h.edge[i].dst \in Block(g) \ {b}
    BY <1>7, <1>9, <1>11 DEF TargetsOK
  <2>1. g.edge[i].dst \in Block(g) /\ i \in Instrs(g) /\ IsBranch(g, i) /\ i \in Nat
    BY <1>4 DEF LinksOK, TargetsOK, Linked
  <2>2. i \notin g.incoming[b] => g.edge[i].dst # b
    BY <1>6, <2>1
  <2>. QED  BY <1>1, <1>10, <2>1, <2>2
<1>15. IncomingOK(h)
  <2>. SUFFICES ASSUME NEW c \in Block(h), NEW i \in Nat
                PROVE  i \in h.incoming[c] <=> i \in Owned(g) /\ IsBranch(h, i) /\ h.edge[i].dst = c
    BY <1>9 DEF IncomingOK
  <2>1. c \in Block(g) /\ c # b
    BY <1>7
  <2>2. i \in g.incoming[c] <=> i \in Owned(g) /\ IsBranch(g, i) /\ g.edge[i].dst = c
    BY <2>1 DEF LinksOK, IncomingOK
  <2>3. i \in Owned(g) => /\ IsBranch(h, i) <=> IsBranch(g, i)
                          /\ h.edge[i].dst = IF i \in g.incoming[b] THEN n ELSE g.edge[i].dst
    BY <1>4, <1>10
  <2>4. CASE c = n
    <3>1. ~(i \in Owned(g) /\ IsBranch(g, i) /\ g.edge[i].dst = n)
      BY <1>1, <2>2, <2>4
    <3>2. h.incoming[c] = g.incoming[b]
      BY <1>3, <2>4
    <3>. QED  BY <1>6, <2>3, <2>4, <3>1, <3>2
  <2>5. CASE c # n
    <3>1. h.incoming[c] = g.incoming[c]
      BY <1>3, <1>4, <2>1, <2>5
    <3>. QED  BY <1>6, <2>1, <2>2, <2>3, <2>5, <3>1
  <2>. QED  BY <2>4, <2>5
<1>16. NextOK(h)
  <2>. SUFFICES ASSUME NEW c \in Block(h), h.next[c] # None
                PROVE  h.next[c] \in Block(h) /\ h.prev[h.next[c]] = c
    BY DEF NextOK
  <2>1. c \in Block(g) /\ c # b /\ c \in Blocks(g)
    BY <1>4, <1>7
  <2>2. CASE c = p
    BY <1>1, <1>3, <1>7, <2>1, <2>2
  <2>3. CASE c # p
    <3>1. h.next[c] = g.next[c]
      BY <1>3, <2>1, <2>3
    <3>2. g.next[c] \in Block(g) /\ g.prev[g.next[c]] = c /\ g.next[c] \in Blocks(g)
      BY <1>4, <2>1, <3>1 DEF LinksOK, NextOK
    <3>3. g.next[c] # b /\ g.next[c] # n
      BY <1>1, <2>1, <2>3, <3>2 DEF p
    <3>4. h.prev[g.next[c]] = g.prev[g.next[c]]
      BY <1>3, <3>2, <3>3
    <3>. QED  BY <1>7, <3>1, <3>2, <3>3, <3>4
  <2>. QED  BY <2>2, <2>3
<1>17. PrevOK(h)
  <2>. SUFFICES ASSUME NEW c \in Block(h), h.prev[c] # None
                PROVE  h.prev[c] \in Block(h) /\ h.next[h.prev[c]] = c
    BY DEF PrevOK
  <2>1. c \in Block(g) /\ c # b /\ c \in Blocks(g)
    BY <1>4, <1>7
  <2>2. CASE c = n
    <3>1. h.prev[c] = p /\ p # None /\ p \in Block(g) /\ g.next[p] = b /\ p \in Blocks(g)
      BY <1>1, <1>3, <1>4, <2>1, <2>2
    <3>2. p # b
      BY <1>1, <3>1 DEF n
    <3>. QED  BY <1>3, <1>7, <2>2, <3>1, <3>2
  <2>3. CASE c # n
    <3>1. h.prev[c] = g.prev[c]
      BY <1>3, <2>1, <2>3
    <3>2. g.prev[c] \in Block(g) /\ g.next[g.prev[c]] = c /\ g.prev[c] \in Blocks(g)
      BY <1>4, <2>1, <3>1 DEF LinksOK, PrevOK
    <3>3. g.prev[c] # b
      BY <2>3, <3>2 DEF n
    <3>4. g.prev[c] # p
      BY <1>1, <1>5, <2>1, <3>2, Zenon
    <3>5. h.next[g.prev[c]] = g.next[g.prev[c]]
      BY <1>3, <3>2, <3>3, <3>4
    <3>. QED  BY <1>7, <3>1, <3>2, <3>3, <3>5
  <2>. QED  BY <2>2, <2>3
<1>18. OnceOK(h)
  <2>1. \A c \in Block(g) : IsInjective(g.instrs[c])
    BY DEF LinksOK, OnceOK
  <2>2. IsInjective(s) /\ IsInjective(t)
    BY <1>1, <2>1 DEF s, t
  <2>3. IsInjective(s \o t)
    BY <1>1, <2>2, InjectiveConcat
  <2>. QED  BY <1>3, <1>4, <1>7, <2>1, <2>3, Zenon DEF OnceOK
<1>19. ApartOK(h)
  <2>1. \A c \in Block(h) : c # n => ToSet(h.instrs[c]) = ToSet(g.instrs[c]) /\ c \in Block(g) /\ c # b
    BY <1>3, <1>4, <1>7
  <2>2. ToSet(h.instrs[n]) = ToSet(g.instrs[b]) \cup ToSet(g.instrs[n])
    BY <1>3, <1>8 DEF s, t
  <2>3. \A c, d \in Block(g) : c # d => ToSet(g.instrs[c]) \cap ToSet(g.instrs[d]) = {}
    BY <1>5, Zenon
  <2>4. ASSUME NEW c \in Block(h), NEW d \in Block(h), c # d
        PROVE  ToSet(h.instrs[c]) \cap ToSet(h.instrs[d]) = {}
    <3>1. CASE c = n
      <4>1. d \in Block(g) /\ d # b /\ d # n /\ ToSet(h.instrs[d]) = ToSet(g.instrs[d])
        BY <2>1, <2>4, <3>1
      <4>2. ToSet(g.instrs[b]) \cap ToSet(g.instrs[d]) = {} /\ ToSet(g.instrs[n]) \cap ToSet(g.instrs[d]) = {}
        BY <1>1, <2>3, <4>1, Zenon
      <4>. QED  BY <2>2, <3>1, <4>1, <4>2
    <3>2. CASE d = n
      <4>1. c \in Block(g) /\ c # b /\ c # n /\ ToSet(h.instrs[c]) = ToSet(g.instrs[c])
        BY <2>1, <2>4, <3>2
      <4>2. ToSet(g.instrs[b]) \cap ToSet(g.instrs[c]) = {} /\ ToSet(g.instrs[n]) \cap ToSet(g.instrs[c]) = {}
        BY <1>1, <2>3, <4>1, Zenon
      <4>. QED  BY <2>2, <3>2, <4>1, <4>2
    <3>3. CASE c # n /\ d # n
      BY <2>1, <2>3, <2>4, <3>3
    <3>. QED  BY <3>1, <3>2, <3>3
  <2>. QED  BY <2>4 DEF ApartOK
<1>20. GraphTypeOK(h)
  <2>1. ASSUME NEW c \in Blocks(h) PROVE ToSet(h.instrs[c]) \subseteq Instrs(h)
    <3>1. ToSet(g.instrs[c]) \subseteq Instrs(g)
      BY <1>7 DEF GraphTypeOK
    <3>2. CASE c = n
      BY <1>1, <1>3, <1>7, <1>8, <3>2, Zenon
    <3>3. CASE c = b
      BY <1>3, <3>3, SetEmpty
    <3>4. CASE c # n /\ c # b
      BY <1>3, <1>7, <3>1, <3>4
    <3>. QED  BY <3>2, <3>3, <3>4
  <2>2. h.entryBlock \in Nat /\ h.op \in Seq(OpType) /\ Block(h) \subseteq Blocks(h)
    BY <1>1, <1>2, <1>4, <1>7 DEF GraphTypeOK
  <2>. QED  BY <1>2, <1>7, <2>1, <2>2 DEF GraphTypeOK, Statuses
<1>21. EntryOK(h)
  BY <1>1, <1>2, <1>7 DEF EntryOK
<1>22. h.next[b] = None
  <2>1. b # p
    BY <1>1 DEF n
  <2>. QED  BY <1>1, <1>3, <2>1
<1>. QED  BY <1>7, <1>12, <1>13, <1>14, <1>15, <1>16, <1>17, <1>18, <1>19, <1>20, <1>21, <1>22 DEF LinksOK
=============================================================================
