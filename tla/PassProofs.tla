------------------------------ MODULE PassProofs ------------------------------
(***************************************************************************)
(* What the passes leave behind.  Dead code elimination removes all that   *)
(* cannot be reached and takes nothing of the rest along; no pass leaves a *)
(* branch without its edge; the layout leaves no block that could be       *)
(* merged, so that code generation places or labels whatever a block falls *)
(* through to.                                                             *)
(***************************************************************************)
EXTENDS RewritingProofs

-----------------------------------------------------------------------------
(* What the stack analysis reaches.                                        *)

\* Sets that grow from step to step within D grow no longer after as many
\* steps as D has elements.
LEMMA Fixpoint ==
  ASSUME NEW D, IsFiniteSet(D), NEW G \in [SUBSET D -> SUBSET D],
         \A S \in SUBSET D : S \subseteq G[S],
         NEW p \in [Nat -> SUBSET D], p[0] # {},
         \A n \in Nat : n # 0 => p[n] = G[p[n - 1]]
  PROVE  G[p[Cardinality(D)]] = p[Cardinality(D)]
<1>. DEFINE Good == {n \in Nat : G[p[n]] = p[n] \/ Cardinality(p[n]) > n}
<1>1. \A S \in SUBSET D : IsFiniteSet(S) /\ Cardinality(S) \in Nat
  BY FS_Subset, FS_CardinalityType
<1>2. 0 \in Good
  <2>1. p[0] \in SUBSET D /\ IsFiniteSet(p[0]) /\ Cardinality(p[0]) \in Nat
    BY <1>1
  <2>2. Cardinality(p[0]) # 0
    BY <2>1, FS_EmptySet
  <2>. QED  BY <2>1, <2>2
<1>3. ASSUME NEW n \in Nat, n \in Good PROVE n + 1 \in Good
  <2>1. n + 1 \in Nat /\ n + 1 # 0 /\ (n + 1) - 1 = n
    OBVIOUS
  <2>2. p[n + 1] = G[p[n]]
    BY <2>1
  <2>3. p[n] \in SUBSET D /\ G[p[n]] \in SUBSET D
    OBVIOUS
  <2>4. CASE G[p[n]] = p[n]
    BY <2>1, <2>2, <2>4
  <2>5. CASE G[p[n]] # p[n]
    <3>1. Cardinality(p[n]) > n
      BY <1>3, <2>5
    <3>. DEFINE a == p[n]
                c == p[n + 1]
    <3>2. /\ IsFiniteSet(c) /\ a \in SUBSET c /\ a # c
          /\ Cardinality(a) \in Nat /\ Cardinality(c) \in Nat
      BY <1>1, <2>2, <2>3, <2>5
    <3>. HIDE DEF a, c
    <3>3. Cardinality(a) <= Cardinality(c) /\ Cardinality(a) # Cardinality(c)
      BY <3>2, FS_Subset
    <3>. QED  BY <2>1, <3>1, <3>2, <3>3 DEF a, c
  <2>. QED  BY <2>4, <2>5
<1>4. Nat \subseteq Good
  <2>. HIDE DEF Good
  <2>. QED  BY <1>2, <1>3, Induction
<1>. DEFINE N == Cardinality(D)
<1>5. N \in Nat
  BY FS_CardinalityType
<1>6. p[N] \in SUBSET D
  BY <1>5
<1>7. Cardinality(p[N]) <= N /\ Cardinality(p[N]) \in Nat
  BY <1>1, <1>6, FS_Subset
<1>8. N \in Good
  BY <1>4, <1>5
<1>. HIDE DEF N
<1>9. G[p[N]] = p[N]
  BY <1>5, <1>7, <1>8
<1>. QED  BY <1>9 DEF N

\* What the stack analysis reaches is closed under what it forwards its state
\* to, and nothing else is reached than what that takes.
Closed(g, v, S) ==
  /\ g.entryBlock \in S
  /\ \A b \in S : Forwards(g, v, b) \subseteq S /\ (FallsThrough(g, v, b) => g.next[b] \in S)

\* What is reached is closed under what the state is forwarded to.
LEMMA ReachedFacts ==
  ASSUME NEW g, GraphTypeOK(g), LinksOK(g), EntryOK(g), NEW v
  PROVE  /\ Reached(g, v) \subseteq Block(g) /\ Closed(g, v, Reached(g, v))
         /\ \A S \in SUBSET Block(g) : Closed(g, v, S) => Reached(g, v) \subseteq S
<1>. DEFINE D == Block(g)
            N == Cardinality(D)
            Up(S) == UNION {Further(g, v, b) : b \in S}
            G == [S \in SUBSET D |-> Up(S)]
<1>1. PICK p : Rounds(g, v, p) /\ Reached(g, v) = p[N]
  BY ReachedRounds
<1>2. \A b \in D : Further(g, v, b) \in SUBSET D
  <2>1. ASSUME NEW b \in D PROVE Further(g, v, b) \in SUBSET D
    <3>1. Forwards(g, v, b) \subseteq D
      BY ForwardsStay
    <3>2. FallsThrough(g, v, b) => g.next[b] \in D
      BY DEF FallsThrough, LinksOK, NextOK
    <3>. QED  BY <3>1, <3>2 DEF Further
  <2>. QED  BY <2>1
<1>3. G \in [SUBSET D -> SUBSET D]
  BY <1>2
<1>4. \A S \in SUBSET D : G[S] = Up(S) /\ S \subseteq Up(S)
  BY DEF Further
<1>5. IsFiniteSet(D) /\ N \in Nat
  <2>1. D \subseteq 1 .. Len(g.instrs) /\ Len(g.instrs) \in Nat
    BY TypeFacts DEF Blocks
  <2>2. IsFiniteSet(1 .. Len(g.instrs))
    BY <2>1, FS_Interval
  <2>3. IsFiniteSet(D)
    BY <2>1, <2>2, FS_Subset
  <2>. QED  BY <2>3, FS_CardinalityType
<1>6. /\ p \in [Nat -> SUBSET D] /\ p[0] = {g.entryBlock}
      /\ \A n \in Nat : n # 0 => p[n] = Up(p[n - 1])
  BY <1>1 DEF Rounds
<1>7. \A n \in Nat : n # 0 => p[n] = G[p[n - 1]]
  <2>1. ASSUME NEW n \in Nat, n # 0 PROVE p[n] = G[p[n - 1]]
    <3>1. n - 1 \in Nat
      BY <2>1
    <3>2. p[n - 1] \in SUBSET D
      BY <1>6, <3>1
    <3>. HIDE DEF Up, G
    <3>. QED  BY <1>4, <1>6, <2>1, <3>2
  <2>. QED  BY <2>1, Zenon
<1>8. p[N] \in SUBSET D
  BY <1>5, <1>6
<1>9. Up(p[N]) = p[N]
  <2>1. \A S \in SUBSET D : S \subseteq G[S]
    <3>. HIDE DEF Up, G
    <3>. QED  BY <1>4
  <2>2. p[0] # {}
    BY <1>6
  <2>. HIDE DEF Up, G, D
  <2>3. G[p[Cardinality(D)]] = p[Cardinality(D)]
    BY <1>3, <1>5, <1>6, <1>7, <2>1, <2>2, Fixpoint, Zenon
  <2>. QED  BY <1>4, <1>8, <2>3
<1>10. Closed(g, v, Reached(g, v))
  <2>1. g.entryBlock \in p[N]
    BY <1>1, EntryReached
  <2>2. \A b \in p[N] : Further(g, v, b) \subseteq p[N]
    BY <1>9
  <2>. QED  BY <1>1, <2>1, <2>2 DEF Closed, Further
<1>11. ASSUME NEW S \in SUBSET D, Closed(g, v, S) PROVE p[N] \subseteq S
  <2>. DEFINE Good == {n \in Nat : p[n] \subseteq S}
  <2>1. 0 \in Good
    BY <1>6, <1>11 DEF Closed
  <2>2. ASSUME NEW n \in Nat, n \in Good PROVE n + 1 \in Good
    <3>1. n + 1 \in Nat /\ n + 1 # 0 /\ (n + 1) - 1 = n
      OBVIOUS
    <3>2. p[n + 1] = Up(p[n])
      <4>. HIDE DEF Up
      <4>. QED  BY <1>6, <3>1
    <3>3. \A b \in S : Further(g, v, b) \subseteq S
      BY <1>11 DEF Closed, Further
    <3>. QED  BY <2>2, <3>1, <3>2, <3>3
  <2>3. Nat \subseteq Good
    <3>. HIDE DEF Good
    <3>. QED  BY <2>1, <2>2, Induction
  <2>. QED  BY <1>5, <2>3
<1>. QED  BY <1>1, <1>8, <1>10, <1>11

\* Every instruction of a block reached is looked at.
LEMMA VisitedSet ==
  ASSUME NEW g, GraphTypeOK(g)
  PROVE  \A i, b : <<i, b>> \in ToSet(Visited(g))
                     <=> b \in Block(g) \cap reached /\ i \in ToSet(g.instrs[b])
<1>. DEFINE T == {p \in Nat \X Nat : p[2] \in Block(g) \cap reached /\ p[1] \in ToSet(g.instrs[p[2]])}
            m == Len(g.blocks)
            of(n) == LET b == g.blocks[n]
                     IN  IF b \in reached THEN [k \in DOMAIN g.instrs[b] |-> <<g.instrs[b][k], b>>] ELSE <<>>
            ss == [n \in DOMAIN g.blocks |-> of(n)]
<1>1. m \in Nat /\ DOMAIN g.blocks = 1 .. m /\ Block(g) = {g.blocks[n] : n \in 1 .. m}
  BY DEF GraphTypeOK, Block, ToSet
<1>2. ASSUME NEW n \in 1 .. m
      PROVE  /\ of(n) \in Seq(T)
             /\ g.blocks[n] \in reached =>
                  \A i \in ToSet(g.instrs[g.blocks[n]]) : <<i, g.blocks[n]>> \in ToSet(of(n))
  <2>. DEFINE b == g.blocks[n]
              w == g.instrs[b]
  <2>1. b \in Block(g) /\ b \in Nat /\ w \in Seq(Nat)
    BY <1>1, TypeFacts, Zenon
  <2>2. ToSet(w) = {w[k] : k \in DOMAIN w}
    BY DEF ToSet
  <2>. HIDE DEF b
  <2>3. DOMAIN w = 1 .. Len(w) /\ Len(w) \in Nat /\ \A k \in DOMAIN w : w[k] \in Nat
    BY <2>1
  <2>4. b \in reached => \A k \in DOMAIN w : <<w[k], b>> \in T
    BY <2>1, <2>2, <2>3, Zenon
  <2>5. b \in reached => [k \in DOMAIN w |-> <<w[k], b>>] \in Seq(T)
    <3>. HIDE DEF T, w
    <3>. QED  BY <2>3, <2>4
  <2>6. <<>> \in Seq(T)
    OBVIOUS
  <2>7. \A i \in ToSet(w) : <<i, b>> \in ToSet([k \in DOMAIN w |-> <<w[k], b>>])
    BY <2>2, Zenon DEF ToSet
  <2>. QED  BY <2>5, <2>6, <2>7 DEF b
<1>3. ss \in Seq(Seq(T)) /\ Len(ss) = m
  <2>. HIDE DEF T, of
  <2>. QED  BY <1>1, <1>2
<1>4. Visited(g) = FlattenSeq(ss)
  BY DEF Visited
<1>5. ToSet(Visited(g)) \subseteq T
  <2>. HIDE DEF T, ss
  <2>1. Visited(g) \in Seq(T)
    BY <1>3, <1>4, FlattenType
  <2>. QED  BY <2>1 DEF ToSet
<1>6. ASSUME NEW b \in Block(g) \cap reached, NEW i \in ToSet(g.instrs[b])
      PROVE  <<i, b>> \in ToSet(Visited(g))
  <2>1. PICK n \in 1 .. m : b = g.blocks[n]
    BY <1>1
  <2>2. ToSet(ss[n]) \subseteq ToSet(FlattenSeq(ss))
    <3>. HIDE DEF T, ss
    <3>. QED  BY <1>3, FlattenCovers
  <2>3. ss[n] = of(n)
    BY <1>1
  <2>4. <<i, b>> \in ToSet(of(n))
    <3>. HIDE DEF T, of, ss
    <3>. QED  BY <1>2, <2>1
  <2>. HIDE DEF ss, of
  <2>. QED  BY <1>4, <2>2, <2>3, <2>4
<1>. QED  BY <1>5, <1>6

-----------------------------------------------------------------------------
(* Edges where they have to be.                                            *)

\* Direct branches and returns have an edge; a ReturnEdge leads nowhere.
Wanting == WithTarget \cup {"ret"}
EdgesOK(g)   == \A i \in Owned(g) : g.op[i].kind \in Wanting => HasEdge(g, i)
ReturnsOK(g) == \A i \in Instrs(g) : IsBranch(g, i) \/ g.edge[i].dst = None
Right(g) == EdgesOK(g) /\ ReturnsOK(g)

\* Blocks that keep instructions and edges keep what they need.
LEMMA SameRight ==
  ASSUME NEW g, NEW h, Block(h) = Block(g), h.instrs = g.instrs, h.op = g.op, h.edge = g.edge
  PROVE  /\ Owned(h) = Owned(g)
         /\ EdgesOK(g) => EdgesOK(h)
         /\ ReturnsOK(g) => ReturnsOK(h)
<1>1. Owned(h) = Owned(g)
  BY DEF Owned
<1>2. Instrs(h) = Instrs(g)
  BY DEF Instrs
<1>. QED  BY <1>1, <1>2 DEF EdgesOK, ReturnsOK, HasEdge, IsBranch

\* An assertion changes neither edges nor instructions.
LEMMA CheckRight ==
  ASSUME NEW g, GraphTypeOK(g), NEW c
  PROVE  /\ EdgesOK(g) => EdgesOK(Check(g, c))
         /\ ReturnsOK(g) => ReturnsOK(Check(g, c))
<1>. DEFINE h == Check(g, c)
<1>1. h.instrs = g.instrs /\ h.op = g.op /\ h.edge = g.edge /\ h.blocks = g.blocks
  BY CheckFacts
<1>. HIDE DEF h
<1>2. Block(h) = Block(g)
  BY <1>1 DEF Block
<1>3. (EdgesOK(g) => EdgesOK(h)) /\ (ReturnsOK(g) => ReturnsOK(h))
  BY <1>1, <1>2, SameRight
<1>. QED  BY <1>3 DEF h

\* Decoding adds instructions without edges.
LEMMA DecodeReturns ==
  ASSUME NEW g, GraphTypeOK(g), NEW l, NEW h, Decodes(g, h, l), ReturnsOK(g),
         Decoded(l) \in Seq(Nat)
  PROVE  ReturnsOK(h)
<1>. DEFINE m == Len(g.op)
            c == Len(Decoded(l))
<1>1. /\ GraphTypeOK(h) /\ Len(h.op) = m + c
      /\ \A i \in Instrs(g) : h.op[i] = g.op[i] /\ h.edge[i] = g.edge[i]
      /\ \A k \in 1 .. c : h.edge[m + k] = NoEdge
  BY Zenon DEF Decodes
<1>2. m \in Nat /\ c \in Nat /\ Instrs(g) = 1 .. m /\ Instrs(h) = 1 .. m + c
  BY <1>1, TypeFacts DEF Instrs
<1>. HIDE DEF m, c
<1>3. ASSUME NEW i \in Instrs(h) PROVE IsBranch(h, i) \/ h.edge[i].dst = None
  <2>1. CASE i \in Instrs(g)
    BY <1>1, <2>1 DEF ReturnsOK, IsBranch
  <2>2. CASE i \notin Instrs(g)
    <3>1. i \in Nat /\ i > m /\ i <= m + c
      BY <1>2, <2>2
    <3>2. i - m \in 1 .. c /\ i = m + (i - m)
      BY <1>2, <3>1
    <3>3. h.edge[i] = NoEdge
      BY <1>1, <3>2
    <3>. QED  BY <3>3 DEF NoEdge
  <2>. QED  BY <2>1, <2>2
<1>. QED  BY <1>3 DEF ReturnsOK

\* Connecting a branch gives nothing else an edge.
LEMMA ConnectReturns ==
  ASSUME NEW g, NEW i, NEW s, NEW d, NEW h, Connects(g, h, i, s, d),
         IsBranch(g, i), ReturnsOK(g)
  PROVE  ReturnsOK(h)
<1>1. h.op = g.op /\ \A j \in Instrs(g) : j # i => h.edge[j] = g.edge[j]
  BY DEF Connects
<1>. QED  BY <1>1 DEF ReturnsOK, IsBranch, Instrs

\* Splitting moves instructions with their edges.
LEMMA SplitRight ==
  ASSUME NEW g, GraphTypeOK(g), LinksOK(g), NEW b \in Block(g), NEW k \in 1 .. Len(g.instrs[b])
  PROVE  LET h == SplitBlock(g, b, k)
         IN  (EdgesOK(g) => EdgesOK(h)) /\ (ReturnsOK(g) => ReturnsOK(h))
<1>. DEFINE h == SplitBlock(g, b, k)
<1>1. g.next[b] = None \/ g.next[b] \in Block(g)
  BY DEF LinksOK, NextOK
<1>2. Splits(g, h, b, k)
  BY <1>1, SplitBlockFacts
<1>. HIDE DEF h
<1>3. SplitParted(g, h, b, k)
  BY <1>2, SplitParts
<1>4. /\ Instrs(h) = Instrs(g) /\ Owned(h) = Owned(g) /\ h.op = g.op
      /\ \A i \in Instrs(g) : h.edge[i].dst = g.edge[i].dst /\ (HasEdge(h, i) <=> HasEdge(g, i))
  BY <1>2, <1>3 DEF Splits, SplitParted
<1>5. Owned(g) \subseteq Instrs(g)
  BY TypeFacts
<1>6. (EdgesOK(g) => EdgesOK(h)) /\ (ReturnsOK(g) => ReturnsOK(h))
  BY <1>4, <1>5 DEF EdgesOK, ReturnsOK, IsBranch
<1>. QED  BY <1>6 DEF h

\* Removing an instruction, its edge goes.
LEMMA RemoveRight ==
  ASSUME NEW g, GraphTypeOK(g), LinksOK(g), NEW b \in Block(g), NEW i, NEW h, Removes(g, h, b, i)
  PROVE  /\ EdgesOK(g) => EdgesOK(h)
         /\ ReturnsOK(g) => ReturnsOK(h)
         /\ Owned(h) \subseteq Owned(g) \ {i} /\ Instrs(h) = Instrs(g)
         /\ \A j \in Instrs(g) : j # i => h.edge[j] = g.edge[j]
<1>1. /\ Block(h) = Block(g) /\ h.op = g.op /\ i \in ToSet(g.instrs[b]) /\ i \in Instrs(g)
      /\ h.instrs[b] = Without(g.instrs[b], {i})
      /\ \A c \in Block(g) : c # b => h.instrs[c] = g.instrs[c]
      /\ \A j \in Instrs(g) : j # i => h.edge[j] = g.edge[j]
  <2>1. /\ Block(h) = Block(g) /\ i \in Instrs(g) /\ h.instrs[b] = Without(g.instrs[b], {i})
        /\ \A c \in Block(g) : c # b => h.instrs[c] = g.instrs[c]
        /\ \A j \in Instrs(g) : j # i => h.edge[j] = g.edge[j]
    <3>1. Removed(g, h, b, i)
      BY RemoveKeeps
    <3>2. h.instrs = [g.instrs EXCEPT ![b] = Without(g.instrs[b], {i})] /\ b \in DOMAIN g.instrs
      BY TypeFacts DEF Removes, Blocks, GraphTypeOK
    <3>. QED  BY <3>1, <3>2 DEF Removed
  <2>2. h.op = g.op /\ i \in ToSet(g.instrs[b])
    BY DEF Removes
  <2>. QED  BY <2>1, <2>2
<1>2. h.edge[i] = NoEdge
  <2>1. h.edge = [g.edge EXCEPT ![i] = NoEdge] /\ DOMAIN g.edge = Instrs(g)
    BY TypeFacts DEF Removes
  <2>. QED  BY <1>1, <2>1
<1>3. Instrs(h) = Instrs(g)
  BY <1>1 DEF Instrs
<1>4. Owned(h) \subseteq Owned(g) \ {i}
  <2>1. ASSUME NEW c \in Block(g), NEW j \in ToSet(h.instrs[c])
        PROVE  j \in ToSet(g.instrs[c]) /\ j # i
    <3>1. CASE c = b
      <4>1. g.instrs[b] \in Seq(Nat)
        BY TypeFacts
      <4>2. ToSet(Without(g.instrs[b], {i})) = ToSet(g.instrs[b]) \ {i}
        BY <4>1, WithoutFacts
      <4>. QED  BY <1>1, <2>1, <3>1, <4>2
    <3>2. CASE c # b
      <4>1. ToSet(g.instrs[b]) \cap ToSet(g.instrs[c]) = {}
        BY <3>2 DEF LinksOK, ApartOK
      <4>. QED  BY <1>1, <2>1, <3>2, <4>1
    <3>. QED  BY <3>1, <3>2
  <2>. QED  BY <1>1, <2>1 DEF Owned
<1>5. Owned(g) \subseteq Instrs(g)
  BY TypeFacts
<1>6. EdgesOK(g) => EdgesOK(h)
  BY <1>1, <1>4, <1>5 DEF EdgesOK, HasEdge
<1>7. ReturnsOK(g) => ReturnsOK(h)
  BY <1>1, <1>2, <1>3 DEF ReturnsOK, IsBranch, NoEdge
<1>. QED  BY <1>1, <1>3, <1>4, <1>6, <1>7

\* The jump that takes the place of the chain has its edge.
LEMMA UnchainRight ==
  ASSUME NEW g, GraphTypeOK(g), LinksOK(g), NEW b \in Block(g), Right(g)
  PROVE  Right(UnchainNext(g, b))
<1>. DEFINE n == g.next[b]
            j == Len(g.op) + 1
            u == Unchained(g, b)
            h == Connect(u, j, b, n)
<1>1. CASE n = None
  BY <1>1 DEF UnchainNext
<1>2. CASE n # None
  <2>1. UnchainNext(g, b) = h
    BY <1>2 DEF UnchainNext, Unchained
  <2>2. /\ GraphTypeOK(u) /\ Block(u) = Block(g)
        /\ u.instrs[b] = Append(g.instrs[b], j) /\ j \notin Instrs(g)
        /\ \A c \in Block(g) : c # b => u.instrs[c] = g.instrs[c]
        /\ \A i \in Instrs(g) : u.op[i] = g.op[i] /\ u.edge[i] = g.edge[i]
        /\ IsBranch(u, j) /\ Len(u.op) = j
    BY <1>2, UnchainedLinks
  <2>. HIDE DEF u
  <2>3. h.op = u.op /\ h.instrs = u.instrs /\ h.blocks = u.blocks
        /\ h.edge = [u.edge EXCEPT ![j] = [src |-> b, dst |-> n]]
    BY DEF Connect
  <2>. HIDE DEF h
  <2>4. Len(g.op) \in Nat /\ Instrs(u) = 1 .. j /\ Instrs(g) = 1 .. j - 1 /\ DOMAIN u.edge = Instrs(u)
    BY <2>2, TypeFacts DEF Instrs
  <2>5. Block(h) = Block(g) /\ Instrs(h) = Instrs(g) \cup {j} /\ j \in Instrs(u)
    BY <2>2, <2>3, <2>4 DEF Block, Instrs
  <2>6. /\ h.edge[j] = [src |-> b, dst |-> n] /\ IsBranch(h, j)
        /\ \A i \in Instrs(g) : h.op[i] = g.op[i] /\ h.edge[i] = g.edge[i]
    <3>. HIDE DEF j, n
    <3>. QED  BY <2>2, <2>3, <2>4, <2>5 DEF IsBranch
  <2>7. HasEdge(h, j)
    BY <1>2, <2>6 DEF HasEdge, NoEdge, None
  <2>8. Owned(h) \subseteq Owned(g) \cup {j}
    <3>1. g.instrs[b] \in Seq(Nat) /\ j \in Nat
      BY <2>4, TypeFacts
    <3>2. ToSet(Append(g.instrs[b], j)) = ToSet(g.instrs[b]) \cup {j}
      <4>. HIDE DEF j
      <4>. QED  BY <3>1, SetAppend
    <3>3. \A c \in Block(g) : ToSet(h.instrs[c]) \subseteq ToSet(g.instrs[c]) \cup {j}
      <4>. HIDE DEF j
      <4>. QED  BY <2>2, <2>3, <3>2, Zenon
    <3>. HIDE DEF j
    <3>. QED  BY <2>5, <3>3 DEF Owned
  <2>9. Owned(g) \subseteq Instrs(g)
    BY TypeFacts
  <2>. HIDE DEF j, n
  <2>10. EdgesOK(h)
    BY <2>6, <2>7, <2>8, <2>9 DEF Right, EdgesOK, HasEdge
  <2>11. ReturnsOK(h)
    BY <2>5, <2>6 DEF Right, ReturnsOK, IsBranch
  <2>. QED  BY <2>1, <2>10, <2>11 DEF Right
<1>. QED  BY <1>1, <1>2

\* A copy has the edges of the original.
LEMMA CopyRight ==
  ASSUME NEW g, GraphTypeOK(g), LinksOK(g), NEW b \in Block(g), NEW h, CopiesBlock(g, h, b), Right(g)
  PROVE  Right(h)
<1>. DEFINE n == Len(g.instrs) + 1
            m == Len(g.op)
            old == g.instrs[b]
            c == Len(old)
            dst(k) == CopiedTarget(b, n, g.edge[old[k]].dst)
<1>1. /\ GraphTypeOK(h) /\ Len(h.op) = m + c /\ Block(h) = Block(g) \cup {n}
      /\ \A d \in Blocks(g) : h.instrs[d] = g.instrs[d]
      /\ h.instrs[n] = [k \in 1 .. c |-> m + k]
      /\ \A i \in Instrs(g) : h.op[i] = g.op[i] /\ h.edge[i] = g.edge[i]
      /\ \A k \in 1 .. c : /\ h.op[m + k] = g.op[old[k]]
                           /\ h.edge[m + k] = IF HasEdge(g, old[k]) THEN [src |-> n, dst |-> dst(k)] ELSE NoEdge
  BY DEF CopiesBlock
<1>2. /\ m \in Nat /\ c \in Nat /\ n \in Nat /\ n # 0 /\ b \in Nat /\ b # None
      /\ Instrs(g) = 1 .. m /\ Instrs(h) = 1 .. m + c
      /\ \A k \in 1 .. c : old[k] \in ToSet(old) /\ old[k] \in Owned(g) /\ old[k] \in Instrs(g)
  <2>1. old \in Seq(Nat) /\ b \in Nat /\ b # None /\ m \in Nat /\ Len(g.instrs) \in Nat
        /\ Owned(g) \subseteq Instrs(g)
    BY TypeFacts
  <2>2. \A k \in 1 .. c : old[k] \in ToSet(old)
    BY <2>1 DEF ToSet
  <2>3. ToSet(old) \subseteq Owned(g)
    BY DEF Owned
  <2>4. c \in Nat /\ n \in Nat /\ n # 0
    BY <2>1
  <2>5. Instrs(g) = 1 .. m /\ Instrs(h) = 1 .. m + c
    BY <1>1 DEF Instrs
  <2>6. \A k \in 1 .. c : old[k] \in Owned(g) /\ old[k] \in Instrs(g)
    BY <2>1, <2>2, <2>3
  <2>. HIDE DEF m, c, old, n
  <2>. QED  BY <2>1, <2>2, <2>4, <2>5, <2>6
<1>3. \A k \in 1 .. c : IsBranch(g, old[k]) \/ dst(k) = None
  BY <1>2 DEF Right, ReturnsOK, CopiedTarget, None
<1>. HIDE DEF m, c, old, n, dst
<1>4. \A i \in Instrs(h) : i \in Instrs(g) \/ \E k \in 1 .. c : i = m + k
  <2>1. ASSUME NEW i \in Instrs(h), i \notin Instrs(g) PROVE \E k \in 1 .. c : i = m + k
    <3>1. i - m \in 1 .. c /\ i = m + (i - m)
      BY <1>2, <2>1
    <3>. QED  BY <3>1
  <2>. QED  BY <2>1
<1>5. \A k \in 1 .. c : HasEdge(g, old[k]) => HasEdge(h, m + k)
  <2>1. ASSUME NEW k \in 1 .. c, HasEdge(g, old[k]) PROVE HasEdge(h, m + k)
    <3>1. h.edge[m + k] = [src |-> n, dst |-> dst(k)]
      BY <1>1, <2>1
    <3>2. h.edge[m + k].src = n
      BY <3>1
    <3>3. NoEdge.src = 0
      BY DEF NoEdge, None
    <3>. QED  BY <1>2, <3>2, <3>3 DEF HasEdge
  <2>. QED  BY <2>1
<1>6. ASSUME NEW i \in Owned(h), h.op[i].kind \in Wanting PROVE HasEdge(h, i)
  <2>1. PICK d \in Block(h) : i \in ToSet(h.instrs[d])
    BY DEF Owned
  <2>2. CASE d = n
    <3>1. PICK k \in 1 .. c : i = m + k
      BY <1>1, <2>1, <2>2, ZenonT(30) DEF ToSet
    <3>2. g.op[old[k]].kind \in Wanting
      BY <1>1, <1>6, <3>1, Zenon
    <3>3. HasEdge(g, old[k])
      BY <1>2, <3>2 DEF Right, EdgesOK
    <3>. QED  BY <1>5, <3>1, <3>3
  <2>3. CASE d # n
    <3>1. d \in Block(g) /\ d \in Blocks(g)
      BY <1>1, <2>1, <2>3, TypeFacts
    <3>2. i \in Owned(g)
      BY <1>1, <2>1, <3>1 DEF Owned
    <3>3. i \in Instrs(g)
      BY <3>2, TypeFacts
    <3>. QED  BY <1>1, <1>6, <3>2, <3>3 DEF Right, EdgesOK, HasEdge
  <2>. QED  BY <2>2, <2>3
<1>7. ASSUME NEW i \in Instrs(h) PROVE IsBranch(h, i) \/ h.edge[i].dst = None
  <2>1. CASE i \in Instrs(g)
    BY <1>1, <2>1 DEF Right, ReturnsOK, IsBranch
  <2>2. ASSUME NEW k \in 1 .. c, i = m + k PROVE IsBranch(h, i) \/ h.edge[i].dst = None
    <3>1. /\ h.op[i] = g.op[old[k]]
          /\ h.edge[i] = IF HasEdge(g, old[k]) THEN [src |-> n, dst |-> dst(k)] ELSE NoEdge
      BY <1>1, <2>2
    <3>2. h.edge[i].dst \in {dst(k), None}
      BY <3>1 DEF NoEdge
    <3>. QED  BY <1>3, <3>1, <3>2 DEF IsBranch
  <2>. QED  BY <1>4, <2>1, <2>2
<1>. QED  BY <1>6, <1>7 DEF Right, EdgesOK, ReturnsOK

\* Redirecting a branch leaves it with an edge.
LEMMA RedirectRight ==
  ASSUME NEW g, GraphTypeOK(g), LinksOK(g), NEW b \in Block(g), NEW c \in Block(g), b # c, Right(g)
  PROVE  Right(RedirectSelf(g, b, c))
<1>. DEFINE h == RedirectSelf(g, b, c)
<1>1. Redirects(g, h, b, c)
  BY RedirectLinks
<1>2. \A i \in Instrs(g) : h.edge[i].dst = g.edge[i].dst \/ IsBranch(g, i)
  <2>1. /\ ToSet(SelfBranches(g, b)) = {i \in ToSet(g.instrs[b]) \cap Linked(g) : g.edge[i].dst = b}
    BY SelfFacts
  <2>2. \A i \in Linked(g) : IsBranch(g, i)
    BY DEF Linked
  <2>3. h.edge = [i \in 1 .. Len(g.edge) |-> IF i \in ToSet(SelfBranches(g, b))
                                               THEN [g.edge[i] EXCEPT !.dst = c] ELSE g.edge[i]]
    BY DEF RedirectSelf
  <2>4. Instrs(g) = 1 .. Len(g.edge)
    BY DEF GraphTypeOK, Instrs
  <2>. HIDE DEF h
  <2>. QED  BY <2>1, <2>2, <2>3, <2>4
<1>. HIDE DEF h
<1>3. /\ Owned(h) = Owned(g) /\ Instrs(h) = Instrs(g) /\ h.op = g.op
      /\ \A i \in Instrs(g) : HasEdge(h, i) <=> HasEdge(g, i)
  BY <1>1 DEF Redirects, Owned, Instrs
<1>4. Owned(g) \subseteq Instrs(g)
  BY TypeFacts
<1>5. Right(h)
  BY <1>2, <1>3, <1>4 DEF Right, EdgesOK, ReturnsOK, IsBranch
<1>. QED  BY <1>5 DEF h

-----------------------------------------------------------------------------
(* What the layout leaves to be merged.                                    *)

\* A block that could be merged is still to visit, or to be merged.
MergedInv ==
  /\ pc = "chain" => \A b \in Block(f) \ ToSet(toVisit) : CanMerge(f, b) => b \in ToSet(blocksToMerge)
  /\ pc = "merge" => \A b \in Block(f) : CanMerge(f, b) => b \in ToSet(blocksToMerge)
  /\ pc \in {"generate", "generating", "generated"} => \A b \in Block(f) : ~CanMerge(f, b)

\* An assertion does not change what could be merged.
LEMMA CheckMerges ==
  ASSUME NEW g, GraphTypeOK(g), NEW c
  PROVE  Block(Check(g, c)) = Block(g) /\ \A b : CanMerge(Check(g, c), b) <=> CanMerge(g, b)
<1>. DEFINE h == Check(g, c)
<1>1. h.next = g.next /\ h.incoming = g.incoming /\ h.blocks = g.blocks
  BY CheckFacts
<1>. HIDE DEF h
<1>2. Block(h) = Block(g) /\ \A b : CanMerge(h, b) <=> CanMerge(g, b)
  BY <1>1 DEF Block, CanMerge
<1>. QED  BY <1>2 DEF h

\* With a jump goes the edge of a block that follows b from now on: no other
\* than b can be merged for that.
LEMMA ChainMerges ==
  ASSUME NEW g, GraphTypeOK(g), LinksOK(g), NEW b \in Block(g), NEW h, Chains(g, h, b),
         NEW c \in Block(g), c # b, CanMerge(h, c)
  PROVE  CanMerge(g, c)
<1>. DEFINE i == Last(g.instrs[b])
            d == g.edge[i].dst
            n == h.next[c]
<1>1. PICK r : Chained(g, r, b, d) /\ Removes(r, h, b, i)
  BY DEF Chains
<1>2. /\ LinksOK(h) /\ Block(h) = Block(g) /\ i \in Linked(g) /\ d \in Block(g)
  BY DEF Chains
<1>. HIDE DEF i, d
<1>3. /\ GraphTypeOK(r) /\ Relinks(g, r) /\ r.op = g.op
      /\ r.next = [g.next EXCEPT ![b] = d] /\ r.prev = [g.prev EXCEPT ![d] = b]
  BY <1>1 DEF Chained
<1>4. r.edge = g.edge /\ r.incoming = g.incoming /\ Linked(r) = Linked(g)
  BY <1>3, RelinkFacts, Zenon DEF Relinks
<1>5. h.next = r.next /\ h.prev = r.prev /\ h.incoming = [g.incoming EXCEPT ![g.edge[i].dst] = g.incoming[g.edge[i].dst] \ {i}]
  BY <1>1, <1>2, <1>4 DEF Removes
<1>6. n = g.next[c] /\ n # None /\ h.incoming[n] = {}
  <2>1. h.next[c] = g.next[c]
    BY <1>3, <1>5
  <2>. QED  BY <2>1 DEF CanMerge
<1>7. n \in Block(g) /\ h.prev[n] = c
  BY <1>2, <1>6 DEF LinksOK, NextOK
<1>8. d \in DOMAIN g.prev /\ n \in DOMAIN g.incoming
  <2>1. /\ Block(g) \subseteq 1 .. Len(g.instrs) /\ g.prev \in Seq(Nat) /\ Len(g.prev) = Len(g.instrs)
        /\ Len(g.incoming) = Len(g.instrs)
    BY DEF GraphTypeOK, Blocks
  <2>2. DOMAIN g.prev = 1 .. Len(g.instrs)
    BY <2>1
  <2>3. DOMAIN g.incoming = 1 .. Len(g.instrs)
    <3>1. g.incoming \in Seq(SUBSET Nat)
      BY DEF GraphTypeOK
    <3>. QED  BY <2>1, <3>1
  <2>. HIDE DEF n
  <2>. QED  BY <1>2, <1>7, <2>1, <2>2, <2>3
<1>9. n # d
  BY <1>3, <1>5, <1>7, <1>8
<1>10. g.incoming[n] = {}
  BY <1>5, <1>6, <1>8, <1>9 DEF d
<1>. QED  BY <1>6, <1>10 DEF CanMerge

\* The successor of a block merged stands for it.
LEMMA MergeMerges ==
  ASSUME NEW g, GraphTypeOK(g), LinksOK(g), NEW b \in Block(g), NEW h, Merges(g, h, b),
         NEW c \in Block(g), c # b, CanMerge(h, c)
  PROVE  CanMerge(g, c)
<1>. DEFINE n == g.next[b]
            p == g.prev[b]
            x == h.next[c]
<1>1. /\ n # None /\ n # b /\ h.incoming[n] = g.incoming[b]
      /\ \A e \in Blocks(g) \ {b, n} : h.incoming[e] = g.incoming[e]
      /\ \A e \in Blocks(g) : h.next[e] = IF e = p THEN n ELSE IF e = b THEN None ELSE g.next[e]
  BY Zenon DEF Merges
<1>2. x # None /\ h.incoming[x] = {}
  BY DEF CanMerge
<1>3. /\ n \in Block(g) /\ g.prev[n] = b /\ c \in Blocks(g) /\ b # None /\ c # None
      /\ p # None => p \in Block(g) /\ g.next[p] = b
  BY <1>1, TypeFacts DEF LinksOK, NextOK, PrevOK
<1>4. CASE c = p
  BY <1>1, <1>2, <1>3, <1>4 DEF CanMerge
<1>5. CASE c # p
  <2>1. x = g.next[c]
    BY <1>1, <1>3, <1>5
  <2>2. x \in Block(g) /\ g.prev[x] = c /\ x \in Blocks(g)
    BY <1>2, <2>1, TypeFacts DEF LinksOK, NextOK
  <2>3. x # n /\ x # b
    BY <1>3, <1>5, <2>2
  <2>4. h.incoming[x] = g.incoming[x]
    BY <1>1, <2>2, <2>3
  <2>. QED  BY <1>2, <2>1, <2>4 DEF CanMerge
<1>. QED  BY <1>4, <1>5

\* The layout pass visits every block, and merges what it collected.
LEMMA MergedLayout ==
  ASSUME GraphInv, LayoutInv, MergedInv, Layout, f.status = "ok", f'.status = "ok"
  PROVE  MergedInv'
<1>1. GraphTypeOK(f)
  BY DEF GraphInv
<1>2. CASE StartLayout
  <2>1. pc' = "chain" /\ f' = f /\ toVisit' = f.blocks
    BY <1>2 DEF StartLayout
  <2>. QED  BY <2>1 DEF MergedInv, Block
<1>3. CASE VisitEmpty
  <2>. DEFINE b == Head(toVisit)
              s == toVisit
              t == blocksToMerge
  <2>1. /\ pc = "chain" /\ pc' = pc /\ s # <<>> /\ toVisit' = Tail(s) /\ blocksToMerge' = Append(t, b)
        /\ f' = Check(f, f.next[b] # None)
    BY <1>3 DEF VisitEmpty
  <2>2. Block(f') = Block(f) /\ \A c : CanMerge(f', c) <=> CanMerge(f, c)
    <3>. DEFINE goesOn == f.next[b] # None
    <3>. HIDE DEF goesOn
    <3>1. Block(Check(f, goesOn)) = Block(f) /\ \A c : CanMerge(Check(f, goesOn), c) <=> CanMerge(f, c)
      BY <1>1, CheckMerges
    <3>. QED  BY <2>1, <3>1 DEF goesOn
  <2>3. ToSet(Tail(s)) = ToSet(s) \ {b} /\ ToSet(Append(t, b)) = ToSet(t) \cup {b}
    BY <2>1, VisitNext DEF LayoutInv
  <2>4. \A c \in Block(f) \ ToSet(s) : CanMerge(f, c) => c \in ToSet(t)
    BY <2>1 DEF MergedInv
  <2>. HIDE DEF b, s, t
  <2>. QED  BY <2>1, <2>2, <2>3, <2>4 DEF MergedInv
<1>4. CASE VisitBlock
  <2>. DEFINE b == Head(toVisit)
              d == ChainTarget(f, b)
              s == toVisit
              t == blocksToMerge
  <2>1. /\ pc = "chain" /\ pc' = pc /\ s # <<>> /\ toVisit' = Tail(s)
        /\ blocksToMerge' = IF CanMerge(f', b) THEN Append(t, b) ELSE t
        /\ f.instrs[b] # <<>>
        /\ f' = IF f.next[b] = None /\ d # None THEN Chain(f, b, d) ELSE f
    BY <1>4 DEF VisitBlock
  <2>2. LinksOK(f) /\ b \in Block(f)
    BY <2>1, VisitFacts DEF GraphInv
  <2>3. ToSet(Tail(s)) = ToSet(s) \ {b} /\ ToSet(Append(t, b)) = ToSet(t) \cup {b}
    BY <2>1, VisitNext, Zenon DEF LayoutInv
  <2>4. \A c \in Block(f) \ ToSet(s) : CanMerge(f, c) => c \in ToSet(t)
    BY <2>1 DEF MergedInv
  <2>5. Block(f') = Block(f) /\ \A c \in Block(f) : c # b /\ CanMerge(f', c) => CanMerge(f, c)
    <3>. HIDE DEF b
    <3>1. CASE f.next[b] = None /\ d # None
      <4>1. Chains(f, f', b)
        BY <1>1, <2>1, <2>2, <3>1, ChainLinks
      <4>2. \A c \in Block(f) : c # b /\ CanMerge(f', c) => CanMerge(f, c)
        BY <1>1, <2>2, <4>1, ChainMerges
      <4>. QED  BY <4>1, <4>2 DEF Chains
    <3>2. CASE ~(f.next[b] = None /\ d # None)
      BY <2>1, <3>2
    <3>. QED  BY <3>1, <3>2
  <2>. HIDE DEF b, d, s, t
  <2>. QED  BY <2>1, <2>3, <2>4, <2>5 DEF MergedInv
<1>5. CASE StartMerging
  <2>1. pc = "chain" /\ toVisit = <<>> /\ pc' = "merge" /\ f' = f /\ blocksToMerge' = blocksToMerge
    BY <1>5 DEF StartMerging
  <2>. QED  BY <2>1, SetEmpty DEF MergedInv
<1>6. CASE MergeBlock
  <2>. DEFINE todo == blocksToMerge
              b == Head(todo)
  <2>1. /\ pc = "merge" /\ pc' = pc /\ todo # <<>> /\ blocksToMerge' = Tail(todo)
        /\ f' = MergeBlockIntoNext(f, b)
    BY <1>6 DEF MergeBlock
  <2>2. LinksOK(f) /\ EntryOK(f) /\ todo \in Seq(Nat) /\ IsInjective(todo) /\ ToSet(todo) \subseteq Block(f)
    BY <2>1 DEF GraphInv, LayoutInv
  <2>3. b \in ToSet(todo) /\ ToSet(todo) = {b} \cup ToSet(Tail(todo))
    <3>. HIDE DEF b
    <3>. QED  BY <2>1, <2>2, HeadTail, Zenon DEF b
  <2>4. \A c \in Block(f) : CanMerge(f, c) => c \in ToSet(todo)
    BY <2>1 DEF MergedInv
  <2>. HIDE DEF b, todo
  <2>5. b \in Block(f)
    BY <2>2, <2>3
  <2>6. Merges(f, f', b)
    BY <1>1, <2>1, <2>2, <2>5, MergeFacts
  <2>7. Block(f') = Block(f) \ {b}
    BY <1>1, <2>2, <2>5, <2>6, MergeLinks
  <2>8. \A c \in Block(f) : c # b /\ CanMerge(f', c) => CanMerge(f, c)
    BY <1>1, <2>2, <2>5, <2>6, MergeMerges
  <2>. QED  BY <2>1, <2>3, <2>4, <2>7, <2>8 DEF MergedInv
<1>7. CASE LayoutDone
  <2>1. pc = "merge" /\ blocksToMerge = <<>> /\ f' = f /\ pc' \notin {"chain", "merge"}
    BY <1>7 DEF LayoutDone
  <2>. QED  BY <2>1, SetEmpty DEF MergedInv
<1>. QED  BY <1>2, <1>3, <1>4, <1>5, <1>6, <1>7 DEF Layout

-----------------------------------------------------------------------------
(* Where a block falls through to.                                         *)

\* The successor n of block k of the code s comes next, came before, or is the
\* next to look at, c.
Followed(s, k, n, c) ==
  \/ n = None
  \/ k < Len(s) /\ s[k + 1] = n
  \/ \E j \in 1 .. k - 1 : s[j] = n
  \/ k = Len(s) /\ c = n
  \/ n = s[k] /\ c = s[k]
FollowInv ==
  pc \in {"generating", "generated"} =>
    \A k \in 1 .. Len(generated) : Followed(generated, k, f.next[generated[k]], cursor)

\* The walk goes on with what it came to.
LEMMA FollowSkip ==
  ASSUME NEW s \in Seq(Nat), NEW next, NEW c \in ToSet(s),
         \A k \in 1 .. Len(s) : Followed(s, k, next[s[k]], c)
  PROVE  \A k \in 1 .. Len(s) : Followed(s, k, next[s[k]], next[c])
<1>1. Len(s) \in Nat
  OBVIOUS
<1>2. PICK j \in 1 .. Len(s) : s[j] = c
  BY DEF ToSet
<1>3. ASSUME NEW k \in 1 .. Len(s) PROVE Followed(s, k, next[s[k]], next[c])
  <2>1. Followed(s, k, next[s[k]], c)
    OBVIOUS
  <2>2. CASE k = Len(s) /\ c = next[s[k]]
    <3>1. CASE j < k
      <4>1. j \in 1 .. k - 1
        BY <3>1
      <4>. QED  BY <1>2, <2>2, <4>1 DEF Followed
    <3>2. CASE j = k
      BY <1>2, <2>2, <3>2 DEF Followed
    <3>. QED  BY <1>1, <2>2, <3>1, <3>2
  <2>3. CASE next[s[k]] = s[k] /\ c = s[k]
    BY <2>3 DEF Followed
  <2>. QED  BY <2>1, <2>2, <2>3 DEF Followed
<1>. QED  BY <1>3

\* The block generated next follows the last one.
LEMMA FollowAppend ==
  ASSUME NEW s \in Seq(Nat), NEW next, NEW c \in Nat, c \notin ToSet(s),
         \A k \in 1 .. Len(s) : Followed(s, k, next[s[k]], c)
  PROVE  LET t == Append(s, c)
         IN  \A k \in 1 .. Len(t) : Followed(t, k, next[t[k]], next[c])
<1>. DEFINE t == Append(s, c)
            m == Len(s)
<1>1. m \in Nat /\ Len(t) = m + 1 /\ t[m + 1] = c /\ \A k \in 1 .. m : t[k] = s[k]
  BY AppendFacts
<1>2. \A k \in 1 .. m : s[k] # c
  BY DEF ToSet
<1>. HIDE DEF t
<1>3. ASSUME NEW k \in 1 .. Len(t) PROVE Followed(t, k, next[t[k]], next[c])
  <2>1. CASE k = m + 1
    BY <1>1, <2>1 DEF Followed
  <2>2. CASE k # m + 1
    <3>1. k \in 1 .. m /\ t[k] = s[k] /\ k < Len(t)
      BY <1>1, <2>2
    <3>. DEFINE n == next[s[k]]
    <3>2. Followed(s, k, n, c) /\ s[k] # c
      BY <1>2, <3>1
    <3>. HIDE DEF n
    <3>3. CASE k < m /\ s[k + 1] = n
      <4>1. k + 1 \in 1 .. m
        BY <1>1, <3>1, <3>3
      <4>. QED  BY <1>1, <3>1, <3>3, <4>1 DEF Followed, n
    <3>4. ASSUME NEW j \in 1 .. k - 1, s[j] = n PROVE Followed(t, k, next[t[k]], next[c])
      <4>1. j \in 1 .. m
        BY <1>1, <3>1
      <4>. QED  BY <1>1, <3>1, <3>4, <4>1 DEF Followed, n
    <3>5. CASE k = m /\ c = n
      BY <1>1, <3>1, <3>5 DEF Followed, n
    <3>6. CASE n = None
      BY <3>1, <3>6 DEF Followed, n
    <3>. QED  BY <3>2, <3>3, <3>4, <3>5, <3>6 DEF Followed
  <2>. QED  BY <2>1, <2>2
<1>. QED  BY <1>3 DEF t

\* Code generation goes along chains (Function.hpp:165).
LEMMA LaidOutGenerate ==
  ASSUME GraphInv, GeneratingInv, MergedInv, FollowInv, Generate, f.status = "ok", f'.status = "ok"
  PROVE  MergedInv' /\ FollowInv'
<1>1. GraphTypeOK(f) /\ LinksOK(f)
  BY DEF GraphInv
<1>2. pc \in {"generate", "generating"} /\ pc' \in {"generating", "generated"}
  BY DEF Generate, StartGeneration, PopBlock, SkipVisited, GenerateBlock, FunctionGenerated
<1>3. /\ Block(f') = Block(f) /\ f'.next = f.next
      /\ \A b : CanMerge(f', b) <=> CanMerge(f, b)
  <2>1. CASE f' = f
    BY <2>1
  <2>2. CASE f' # f
    <3>1. PICK c : f' = Check(f, c)
      <4>1. CASE StartGeneration
        BY <4>1 DEF StartGeneration
      <4>2. CASE GenerateBlock
        BY <4>2 DEF GenerateBlock
      <4>. QED  BY <2>2, <4>1, <4>2 DEF Generate, PopBlock, SkipVisited, FunctionGenerated
    <3>2. f'.next = f.next
      BY <1>1, <3>1, CheckFacts
    <3>. QED  BY <1>1, <3>1, <3>2, CheckMerges
  <2>. QED  BY <2>1, <2>2
<1>4. MergedInv'
  BY <1>2, <1>3 DEF MergedInv
<1>. DEFINE s == generated
            c == cursor
<1>5. CASE StartGeneration
  <2>1. generated' = <<>>
    BY <1>5 DEF StartGeneration, GeneratingInv
  <2>2. 1 .. Len(generated') = {}
    BY <2>1
  <2>. QED  BY <1>4, <2>2 DEF FollowInv
<1>6. ASSUME pc = "generating"
      PROVE  /\ s \in Seq(Nat)
             /\ c # None => c \in Block(f) /\ c \in Nat
             /\ visited = ToSet(s) /\ visited \subseteq Block(f)
             /\ \A k \in 1 .. Len(s) : Followed(s, k, f.next[s[k]], c)
  BY <1>1, <1>6, TypeFacts DEF GeneratingInv, FollowInv
<1>7. CASE PopBlock
  <2>1. pc = "generating" /\ c = None /\ generated' = s
    BY <1>7 DEF PopBlock
  <2>2. \A k \in 1 .. Len(s) : s[k] # None
    <3>1. \A k \in 1 .. Len(s) : s[k] \in Block(f)
      BY <1>6, <2>1 DEF ToSet
    <3>. QED  BY <1>1, <3>1, TypeFacts
  <2>3. \A k \in 1 .. Len(s) : Followed(s, k, f.next[s[k]], cursor')
    BY <1>6, <2>1, <2>2 DEF Followed
  <2>. HIDE DEF s, c
  <2>. QED  BY <1>3, <1>4, <2>1, <2>3 DEF FollowInv, s
<1>8. CASE SkipVisited
  <2>1. pc = "generating" /\ c \in visited /\ generated' = s /\ cursor' = f.next[c]
    BY <1>8 DEF SkipVisited, Following
  <2>. DEFINE next == f.next
  <2>. HIDE DEF s, c
  <2>2. s \in Seq(Nat) /\ c \in ToSet(s)
    BY <1>6, <2>1
  <2>4. \A k \in 1 .. Len(s) : Followed(s, k, next[s[k]], c)
    BY <1>6, <2>1
  <2>. HIDE DEF next
  <2>3. \A k \in 1 .. Len(s) : Followed(s, k, next[s[k]], next[c])
    BY <2>2, <2>4, FollowSkip
  <2>. QED  BY <1>3, <1>4, <2>1, <2>3 DEF FollowInv, s, next
<1>9. CASE GenerateBlock
  <2>1. pc = "generating" /\ c # None /\ c \notin visited /\ generated' = Append(s, c) /\ cursor' = f.next[c]
    BY <1>9 DEF GenerateBlock, Following
  <2>. DEFINE next == f.next
  <2>. HIDE DEF s, c
  <2>2. s \in Seq(Nat) /\ c \in Nat /\ c \notin ToSet(s)
    BY <1>6, <2>1
  <2>5. \A k \in 1 .. Len(s) : Followed(s, k, next[s[k]], c)
    BY <1>6, <2>1
  <2>. HIDE DEF next
  <2>. DEFINE t == Append(s, c)
  <2>3. \A k \in 1 .. Len(t) : Followed(t, k, next[t[k]], next[c])
    BY <2>2, <2>5, FollowAppend, Zenon
  <2>. HIDE DEF t
  <2>4. generated' = t /\ f'.next = next /\ cursor' = next[c]
    BY <1>3, <2>1 DEF t, next
  <2>. QED  BY <1>4, <2>3, <2>4 DEF FollowInv
<1>10. CASE FunctionGenerated
  BY <1>3, <1>4, <1>10 DEF FunctionGenerated, FollowInv
<1>. QED  BY <1>4, <1>5, <1>7, <1>8, <1>9, <1>10 DEF Generate

LaidOut == f.status = "ok" => MergedInv /\ FollowInv

\* What the layout leaves holds through code generation.
LEMMA AlwaysLaidOut == Spec => []LaidOut
<1>1. Init => LaidOut
  BY DEF Init, LaidOut, MergedInv, FollowInv
<1>2. Inv /\ LaidOut /\ [Next]_vars => LaidOut'
  <2>. SUFFICES ASSUME Inv, LaidOut, [Next]_vars, f'.status = "ok" PROVE MergedInv' /\ FollowInv'
    BY DEF LaidOut
  <2>1. CASE UNCHANGED vars
    <3>1. /\ f' = f /\ pc' = pc /\ toVisit' = toVisit /\ blocksToMerge' = blocksToMerge
          /\ generated' = generated /\ cursor' = cursor
      BY <2>1 DEF vars, layoutVars, generateVars
    <3>. QED  BY <3>1 DEF LaidOut, MergedInv, FollowInv
  <2>2. CASE Next
    <3>1. f.status = "ok"
      BY <2>2 DEF Next
    <3>2. GraphInv /\ LayoutInv /\ GeneratingInv /\ MergedInv /\ FollowInv
      BY <3>1 DEF Inv, LaidOut
    <3>3. CASE Layout
      <4>1. pc' \notin {"generating", "generated"}
        BY <3>3 DEF Layout, StartLayout, VisitEmpty, VisitBlock, StartMerging, MergeBlock, LayoutDone
      <4>. QED  BY <3>1, <3>2, <3>3, <4>1, MergedLayout DEF FollowInv
    <3>4. CASE Generate
      BY <3>1, <3>2, <3>4, LaidOutGenerate
    <3>5. ASSUME pc' \notin {"chain", "merge", "generate", "generating", "generated"}
          PROVE  MergedInv' /\ FollowInv'
      BY <3>5 DEF MergedInv, FollowInv
    <3>6. CASE Decode
      <4>1. pc' \in {"resolve", "wire", "unroll"}
        BY <3>6 DEF Decode, DecodeEntry, ResolveBlock, SkipUnknown, BranchToKnown, BranchIntoMiddle,
                    BranchToNew, BranchesWired, FunctionDecoded
      <4>. QED  BY <3>5, <4>1
    <3>7. CASE Unroll
      <4>1. pc' \in {"unrolling", "eliminate", "layout"}
        BY <3>7 DEF Unroll, CollectLoops, IsolateLoop, CopyLoop, PlaceCopy, LoopsUnrolled
      <4>. QED  BY <3>5, <4>1
    <3>8. CASE Eliminate
      <4>1. pc' \in {"analyse", "collect", "eliminating", "layout"}
        BY <3>8 DEF Eliminate, AnalyseLiveness, AnalyseStack, Collect, DeleteInstruction, ConvertBranch,
                    DeleteBlock, DeadCodeEliminated
      <4>. QED  BY <3>5, <4>1
    <3>. QED  BY <2>2, <3>3, <3>4, <3>6, <3>7, <3>8 DEF Next
  <2>. QED  BY <2>1, <2>2
<1>. QED  BY <1>1, <1>2, AlwaysInv, PTL DEF Spec

\* The code of a block's successor comes right behind that of the block, unless
\* it came before because some branch led there: code generation relies on the
\* chain being walked to its end, and on the layout having merged every block
\* nothing but the chain leads to (Function::for_each_block_dfs).
THEOREM CodeFollows == Spec => []FollowsUnlessVisited
<1>1. Inv /\ GeneratedOK /\ LaidOut => FollowsUnlessVisited
  <2>. SUFFICES ASSUME Inv, GeneratedOK, LaidOut, pc = "generated",
                       NEW b \in ToSet(generated), f.next[b] # None
                PROVE  \/ Position(f.next[b]) = Position(b) + 1
                       \/ Position(f.next[b]) < Position(b) /\ f.incoming[f.next[b]] # {}
    BY DEF FollowsUnlessVisited
  <2>. DEFINE n == f.next[b]
              s == generated
              k == Position(b)
  <2>1. f.status = "ok" /\ GraphTypeOK(f) /\ LinksOK(f)
    BY DEF GeneratedOK, Inv, GraphInv
  <2>2. s \in Seq(Nat) /\ IsInjective(s) /\ ToSet(s) \subseteq Block(f) /\ cursor = None
    BY <2>1 DEF Inv, GeneratingInv
  <2>3. \A j \in 1 .. Len(s) : Position(s[j]) = j /\ s[j] \in Block(f)
    <3>1. \A i, j \in 1 .. Len(s) : s[i] = s[j] => i = j
      BY <2>2 DEF IsInjective
    <3>. QED  BY <2>2, <3>1 DEF Position, ToSet
  <2>4. k \in 1 .. Len(s) /\ s[k] = b /\ b \in Block(f) /\ Len(s) \in Nat
    <3>1. PICK j \in 1 .. Len(s) : s[j] = b
      BY <2>2 DEF ToSet
    <3>. QED  BY <2>2, <2>3, <3>1
  <2>5. b # None /\ Followed(s, k, n, None) /\ f.incoming[n] # {}
    <3>1. Followed(s, k, n, cursor) /\ ~CanMerge(f, b)
      BY <2>1, <2>4 DEF LaidOut, FollowInv, MergedInv
    <3>. QED  BY <2>1, <2>2, <2>4, <3>1, TypeFacts DEF CanMerge
  <2>. HIDE DEF k, s
  <2>6. CASE k < Len(s) /\ s[k + 1] = n
    <3>1. k + 1 \in 1 .. Len(s)
      BY <2>4, <2>6
    <3>. QED  BY <2>3, <2>6, <3>1 DEF k
  <2>7. ASSUME NEW j \in 1 .. k - 1, s[j] = n PROVE Position(n) < k
    <3>1. j \in 1 .. Len(s)
      BY <2>4
    <3>. QED  BY <2>3, <2>4, <2>7, <3>1
  <2>. QED  BY <2>4, <2>5, <2>6, <2>7 DEF Followed, k
<1>. QED  BY <1>1, AlwaysInv, AlwaysGeneratedOK, AlwaysLaidOut, PTL

-----------------------------------------------------------------------------
(* Edges where they have to be: direct branches and returns keep theirs    *)
(* through every pass.                                                     *)

\* Inverting a branch removes one jump and redirects the branch.
LEMMA InvertRight ==
  ASSUME NEW g, GraphTypeOK(g), NEW b, NEW h, Inverts(g, h, b), Right(g)
  PROVE  Right(h)
<1>1. PICK g1, g2, i, j :
        /\ GraphTypeOK(g1) /\ LinksOK(g1) /\ Block(g1) = Block(g) /\ b \in Block(g1)
        /\ g1.op = g.op /\ g1.edge = g.edge /\ g1.instrs = g.instrs
        /\ Removes(g1, g2, b, i) /\ GraphTypeOK(g2) /\ Relinks(g2, h)
        /\ j \in Linked(g2) /\ \A k \in Instrs(g2) : k # j => h.op[k] = g2.op[k]
  BY DEF Inverts
<1>2. EdgesOK(g1) /\ ReturnsOK(g1)
  BY <1>1, SameRight DEF Right
<1>3. EdgesOK(g2) /\ ReturnsOK(g2)
  <2>1. EdgesOK(g1) => EdgesOK(g2)
    BY <1>1, RemoveRight, Zenon
  <2>2. ReturnsOK(g1) => ReturnsOK(g2)
    BY <1>1, RemoveRight, Zenon
  <2>. QED  BY <1>2, <2>1, <2>2
<1>4. /\ Block(h) = Block(g2) /\ h.instrs = g2.instrs /\ h.edge = g2.edge /\ Len(h.op) = Len(g2.op)
      /\ \A k \in Instrs(g2) : IsBranch(h, k) <=> IsBranch(g2, k)
  BY <1>1 DEF Relinks, Block
<1>5. Owned(h) = Owned(g2) /\ Instrs(h) = Instrs(g2) /\ Owned(g2) \subseteq Instrs(g2)
  BY <1>1, <1>4, TypeFacts DEF Owned, Instrs
<1>6. HasEdge(g2, j)
  BY <1>1 DEF Linked
<1>7. EdgesOK(h)
  BY <1>1, <1>3, <1>4, <1>5, <1>6 DEF EdgesOK, HasEdge
<1>8. ReturnsOK(h)
  BY <1>3, <1>4, <1>5 DEF ReturnsOK
<1>. QED  BY <1>7, <1>8 DEF Right

\* Instructions moved to another block keep their edges.
LEMMA MoveRight ==
  ASSUME NEW g, GraphTypeOK(g), NEW h, Moves(g, h), Right(g)
  PROVE  Right(h)
<1>1. /\ h.op = g.op /\ Owned(h) = Owned(g) /\ Instrs(h) = Instrs(g) /\ Owned(g) \subseteq Instrs(g)
      /\ \A i \in Instrs(g) : h.edge[i].dst = g.edge[i].dst /\ (HasEdge(h, i) <=> HasEdge(g, i))
  BY TypeFacts DEF Moves, Instrs
<1>. QED  BY <1>1 DEF Right, EdgesOK, ReturnsOK, IsBranch

\* Merging changes where branches to b lead, and where those of b come from.
LEMMA MergeRight ==
  ASSUME NEW g, GraphTypeOK(g), LinksOK(g), EntryOK(g), NEW b \in Block(g), NEW h, Merges(g, h, b), Right(g)
  PROVE  Right(h)
<1>. DEFINE n == g.next[b]
            src(i) == IF i \in ToSet(g.instrs[b]) /\ HasEdge(g, i) THEN n ELSE g.edge[i].src
            dst(i) == IF i \in g.incoming[b] THEN n ELSE g.edge[i].dst
<1>1. /\ h.op = g.op /\ n # None /\ n # b /\ h.instrs[n] = g.instrs[b] \o g.instrs[n]
      /\ \A c \in Blocks(g) \ {b, n} : h.instrs[c] = g.instrs[c]
  BY DEF Merges
<1>2. \A i \in Instrs(g) : h.edge[i].src = src(i) /\ h.edge[i].dst = dst(i)
  <2>1. \A i \in Instrs(g) : h.edge[i] = [src |-> src(i), dst |-> dst(i)]
    BY Zenon DEF Merges
  <2>2. ASSUME NEW i \in Instrs(g) PROVE h.edge[i].src = src(i) /\ h.edge[i].dst = dst(i)
    <3>. DEFINE x == src(i)
                y == dst(i)
    <3>1. h.edge[i] = [src |-> x, dst |-> y]
      BY <2>1
    <3>. HIDE DEF x, y
    <3>2. h.edge[i].src = x /\ h.edge[i].dst = y
      BY <3>1
    <3>. QED  BY <3>2 DEF x, y
  <2>. QED  BY <2>2
<1>3. n \in Block(g)
  BY <1>1 DEF LinksOK, NextOK
<1>. HIDE DEF n
<1>4. Block(h) = Block(g) \ {b}
  BY MergeLinks
<1>5. Owned(h) \subseteq Owned(g)
  <2>1. g.instrs[b] \in Seq(Nat) /\ g.instrs[n] \in Seq(Nat) /\ Block(g) \subseteq Blocks(g)
    BY <1>3, TypeFacts
  <2>2. ToSet(h.instrs[n]) = ToSet(g.instrs[b]) \cup ToSet(g.instrs[n])
    BY <1>1, <2>1, SetConcat
  <2>3. \A c \in Block(h) : ToSet(h.instrs[c]) \subseteq Owned(g)
    BY <1>1, <1>3, <1>4, <2>1, <2>2, Zenon DEF Owned
  <2>. QED  BY <2>3 DEF Owned
<1>6. Instrs(h) = Instrs(g) /\ Owned(g) \subseteq Instrs(g) /\ Instrs(g) \subseteq Nat
  BY <1>1, TypeFacts DEF Instrs
<1>7. \A i \in Instrs(g) : HasEdge(g, i) => HasEdge(h, i)
  <2>1. ASSUME NEW i \in Instrs(g), ~HasEdge(h, i) PROVE ~HasEdge(g, i)
    <3>1. h.edge[i].src = None /\ h.edge[i].dst = None
      BY <2>1 DEF HasEdge, NoEdge
    <3>2. h.edge[i].src = IF i \in ToSet(g.instrs[b]) /\ HasEdge(g, i) THEN n ELSE g.edge[i].src
      BY <1>2
    <3>3. h.edge[i].dst = IF i \in g.incoming[b] THEN n ELSE g.edge[i].dst
      BY <1>2
    <3>4. g.edge[i].src = None \/ ~HasEdge(g, i)
      BY <1>1, <3>1, <3>2
    <3>5. g.edge[i].dst = None
      BY <1>1, <3>1, <3>3
    <3>6. i \in Instrs(g) => g.edge[i] \in EdgeType
      BY TypeFacts
    <3>. QED  BY <3>4, <3>5, <3>6 DEF HasEdge, NoEdge, EdgeType
  <2>. QED  BY <2>1
<1>8. \A i \in Instrs(g) : h.edge[i].dst = g.edge[i].dst \/ IsBranch(g, i)
  <2>1. \A i \in g.incoming[b] : i \in Nat => IsBranch(g, i)
    BY DEF LinksOK, IncomingOK
  <2>. QED  BY <1>6, <1>2, <2>1
<1>9. EdgesOK(h)
  BY <1>1, <1>5, <1>6, <1>7 DEF Right, EdgesOK
<1>10. ReturnsOK(h)
  BY <1>1, <1>6, <1>8 DEF Right, ReturnsOK, IsBranch
<1>. QED  BY <1>9, <1>10 DEF Right

\* A jump is removed where the chain takes its place.
LEMMA ChainRight ==
  ASSUME NEW g, GraphTypeOK(g), LinksOK(g), NEW b \in Block(g), NEW h, Chains(g, h, b), Right(g)
  PROVE  Right(h)
<1>. DEFINE i == Last(g.instrs[b])
            d == g.edge[i].dst
<1>1. PICK r : Chained(g, r, b, d) /\ Removes(r, h, b, i)
  BY DEF Chains
<1>. HIDE DEF i, d
<1>2. /\ GraphTypeOK(r) /\ LinksOK(r) /\ Block(r) = Block(g) /\ r.op = g.op
      /\ r.instrs = g.instrs /\ r.edge = g.edge
  BY <1>1 DEF Chained, Relinks
<1>3. EdgesOK(r) /\ ReturnsOK(r)
  BY <1>2, SameRight DEF Right
<1>4. EdgesOK(r) => EdgesOK(h)
  BY <1>1, <1>2, RemoveRight, Zenon
<1>5. ReturnsOK(r) => ReturnsOK(h)
  BY <1>1, <1>2, RemoveRight, Zenon
<1>. QED  BY <1>3, <1>4, <1>5 DEF Right

\* Edges installed and moved while decoding are those of branches; once no block
\* waits any more every direct branch and every return has its edge.
LEMMA DecodeRight ==
  ASSUME WellFormed(text), GraphInv, DecodingInv, Decode, ReturnsOK(f)
  PROVE  ReturnsOK(f') /\ (pc' = "unroll" => EdgesOK(f'))
<1>1. pc \in {"resolve", "wire"} => Partial(f) /\ KnownOK
  BY DEF GraphInv, DecodingInv, Partial
<1>2. ASSUME NEW l \in DOMAIN text
      PROVE  Decoded(l) \in Seq(Nat) /\ \A k \in DOMAIN Decoded(l) : text[Decoded(l)[k]].kind \in Kinds
  <2>. DEFINE s == Decoded(l)
  <2>1. s \in Seq(DOMAIN text) /\ \A k \in 1 .. Len(s) : text[s[k]].kind \in Kinds \ {"nop"}
    BY DecodedFacts
  <2>2. DOMAIN text \subseteq Nat
    <3>1. text \in Seq([kind : Kinds, to : Nat])
      BY DEF WellFormed
    <3>. QED  BY <3>1
  <2>. HIDE DEF s
  <2>3. DOMAIN s = 1 .. Len(s) /\ s \in Seq(Nat)
    BY <2>1, <2>2
  <2>. QED  BY <2>1, <2>3 DEF s
<1>3. ASSUME NEW g, GraphTypeOK(g), NEW l \in DOMAIN text, ReturnsOK(g) PROVE ReturnsOK(DecodeBlock(g, l))
  <2>1. Decodes(g, DecodeBlock(g, l), l)
    BY <1>2, <1>3, DecodeBlockFacts
  <2>. QED  BY <1>2, <1>3, <2>1, DecodeReturns
<1>4. ASSUME NEW g, GraphTypeOK(g), NEW i \in Instrs(g), IsBranch(g, i), ReturnsOK(g), NEW s, NEW d
      PROVE  ReturnsOK(Connect(g, i, s, d))
  <2>. DEFINE h == Connect(g, i, s, d)
              e == [src |-> s, dst |-> d]
  <2>1. h.op = g.op /\ h.edge = [g.edge EXCEPT ![i] = e]
    BY DEF Connect
  <2>. HIDE DEF h
  <2>2. Instrs(h) = Instrs(g) /\ DOMAIN g.edge = Instrs(g)
    BY <1>4, <2>1, TypeFacts DEF Instrs
  <2>3. \A j \in Instrs(g) : j # i => h.edge[j] = g.edge[j]
    BY <2>1, <2>2
  <2>4. ReturnsOK(h)
    BY <1>4, <2>1, <2>2, <2>3 DEF ReturnsOK, IsBranch
  <2>. QED  BY <2>4 DEF h
<1>5. ASSUME pc = "wire", collected # <<>>, Target # 0
      PROVE  Branch \in Instrs(f) /\ IsBranch(f, Branch) /\ Target \in DOMAIN text
  <2>1. Partial(f) /\ srcBlock \in Block(f) /\ Collected(f, srcBlock, collected)
    BY <1>1, <1>5 DEF DecodingInv
  <2>2. Branch \in Open(f) /\ Target \in DOMAIN text
    BY <1>5, <2>1, TargetFacts
  <2>. QED  BY <2>2 DEF Open, IsBranch, WithTarget, Branches
<1>6. GraphTypeOK(f) /\ LinksOK(f)
  BY DEF GraphInv
<1>7. CASE DecodeEntry
  <2>1. f' = DecodeBlock(EmptyFunction, 1) /\ pc' = "resolve" /\ f = EmptyFunction
    BY <1>7 DEF DecodeEntry, DecodingInv
  <2>2. 1 \in DOMAIN text
    <3>1. text \in Seq([kind : Kinds, to : Nat]) /\ text # <<>>
      BY DEF WellFormed
    <3>. QED  BY <3>1
  <2>. QED  BY <1>3, <1>6, <2>1, <2>2
<1>8. CASE ResolveBlock
  <2>. DEFINE b == srcBlock'
              i == Last(f.instrs[b])
  <2>1. pc' = "wire" /\ f' = WireReturn(f, b)
    BY <1>8 DEF ResolveBlock
  <2>. HIDE DEF b, i
  <2>2. CASE f' = f
    BY <2>1, <2>2
  <2>3. CASE f' # f
    <3>1. f' = [f EXCEPT !.edge[i].src = b]
      BY <2>1, <2>3 DEF WireReturn, i
    <3>2. f'.op = f.op /\ f'.edge = [f.edge EXCEPT ![i].src = b]
      BY <3>1, <1>6 DEF GraphTypeOK, Fields
    <3>3. \A j \in Instrs(f) : f'.edge[j].dst = f.edge[j].dst
      BY <1>6, <3>2, TypeFacts DEF EdgeType
    <3>. QED  BY <2>1, <3>2, <3>3 DEF ReturnsOK, Instrs, IsBranch
  <2>. QED  BY <2>2, <2>3
<1>9. CASE SkipUnknown
  BY <1>9 DEF SkipUnknown
<1>10. CASE BranchToKnown
  BY <1>4, <1>5, <1>6, <1>10 DEF BranchToKnown
<1>11. CASE BranchIntoMiddle
  <2>1. pc = "wire" /\ pc' = "wire"
    BY <1>11 DEF BranchIntoMiddle
  <2>2. PICK p \in Covering(Target) : f' = SplitBlock(f, p[1], p[2])
    BY <1>11 DEF BranchIntoMiddle
  <2>. DEFINE b == p[1]
              k == p[2]
  <2>3. b \in Block(f) /\ k \in 1 .. Len(f.instrs[b])
    <3>1. p \in {blockMap[j] : j \in DOMAIN text} \X DOMAIN text /\ b # None /\ k <= Len(f.instrs[b])
      BY DEF Covering
    <3>2. b \in Block(f)
      BY <1>1, <2>1, <3>1 DEF KnownOK
    <3>3. k \in Nat \ {0}
      <4>1. DOMAIN text = 1 .. Len(text) /\ k \in DOMAIN text
        BY <3>1 DEF WellFormed
      <4>. QED  BY <4>1
    <3>4. Len(f.instrs[b]) \in Nat
      <4>1. f.instrs[b] \in Seq(Nat)
        BY <1>6, <3>2, TypeFacts
      <4>. QED  BY <4>1
    <3>. QED  BY <3>1, <3>2, <3>3, <3>4
  <2>4. ReturnsOK(f) => ReturnsOK(SplitBlock(f, b, k))
    BY <1>6, <2>3, SplitRight
  <2>. QED  BY <2>1, <2>2, <2>4
<1>12. CASE BranchToNew
  <2>. DEFINE g == DecodeBlock(f, Target)
              i == Branch
              n == Newest(g)
  <2>1. pc = "wire" /\ pc' = "wire" /\ f' = Connect(g, i, srcBlock, n) /\ collected # <<>> /\ Target # 0
    BY <1>12 DEF BranchToNew
  <2>2. Target \in DOMAIN text /\ i \in Instrs(f) /\ IsBranch(f, i)
    BY <1>5, <2>1
  <2>3. Decodes(f, g, Target) /\ ReturnsOK(g)
    BY <1>2, <1>3, <1>6, <2>2, DecodeBlockFacts
  <2>. HIDE DEF g, i, n
  <2>4. GraphTypeOK(g) /\ Len(g.op) = Len(f.op) + Len(Decoded(Target)) /\ g.op[i] = f.op[i]
    BY <2>2, <2>3 DEF Decodes
  <2>5. Len(f.op) \in Nat /\ Len(Decoded(Target)) \in Nat
    BY <1>2, <1>6, <2>2, TypeFacts
  <2>6. i \in Instrs(g) /\ IsBranch(g, i)
    BY <2>2, <2>4, <2>5 DEF Instrs, IsBranch
  <2>. QED  BY <1>4, <2>1, <2>3, <2>4, <2>6
<1>13. CASE BranchesWired
  BY <1>13 DEF BranchesWired
<1>14. CASE FunctionDecoded
  <2>1. pc = "resolve" /\ resolveStack = <<>> /\ f' = f
    BY <1>14 DEF FunctionDecoded
  <2>2. WiredUp /\ ToSet(resolveStack) = {}
    BY <2>1, SetEmpty DEF DecodingInv
  <2>3. ASSUME NEW i \in Owned(f), f.op[i].kind \in Wanting PROVE HasEdge(f, i)
    <3>1. PICK b \in Block(f) : i \in ToSet(f.instrs[b])
      BY DEF Owned
    <3>2. /\ f.op[i].kind = "ret" => HasEdge(f, i)
          /\ i \notin Open(f)
      BY <2>1, <2>2, <3>1 DEF WiredUp
    <3>3. i \in Instrs(f)
      BY <1>6, TypeFacts
    <3>. QED  BY <2>3, <3>2, <3>3 DEF Open, Wanting
  <2>. QED  BY <2>1, <2>3 DEF EdgesOK
<1>. QED  BY <1>7, <1>8, <1>9, <1>10, <1>11, <1>12, <1>13, <1>14
          DEF Decode, SkipUnknown, BranchToKnown, BranchesWired

\* Unrolling, layout and code generation keep every edge where it has to be.
LEMMA UnrollRight ==
  ASSUME GraphInv, UnrollingInv, Unroll, f'.status = "ok", Right(f)
  PROVE  Right(f')
<1>1. CASE IsolateLoop
  <2>. DEFINE b == Head(loops)
  <2>1. pc = "unrolling" /\ loops # <<>> /\ f' = Isolate(f, b)
    BY <1>1 DEF IsolateLoop
  <2>2. GraphTypeOK(f) /\ LinksOK(f) /\ EntryOK(f)
    BY <2>1 DEF GraphInv
  <2>3. b \in Block(f)
    <3>1. loops \in Seq(Nat) /\ ToSet(loops) \subseteq Block(f)
      BY <2>1 DEF UnrollingInv
    <3>. QED  BY <2>1, <3>1, HeadTail, Zenon
  <2>. HIDE DEF b
  <2>4. Isolates(f, f', b)
    BY <2>1, <2>2, <2>3, IsolateLinks
  <2>5. PICK c : Moves(f, c) /\ GraphTypeOK(c) /\ LinksOK(c) /\ b \in Block(c) /\ f' = UnchainNext(c, b)
    BY <2>4 DEF Isolates
  <2>6. Right(c)
    BY <2>2, <2>5, MoveRight
  <2>. QED  BY <2>5, <2>6, UnchainRight
<1>2. CASE CopyLoop
  <2>. DEFINE b == body
              c == CopyBlock(f, b)
              n == Newest(c)
  <2>1. pc = "unrolling" /\ body # None /\ copy = None /\ f' = RedirectSelf(c, b, n)
    BY <1>2 DEF CopyLoop
  <2>2. GraphTypeOK(f) /\ LinksOK(f) /\ EntryOK(f) /\ b \in Block(f)
    BY <2>1 DEF GraphInv, UnrollingInv, Shape
  <2>. HIDE DEF b
  <2>3. CopiesBlock(f, c, b)
    BY <2>2, CopyBlockFacts
  <2>. HIDE DEF c
  <2>4. GraphTypeOK(c) /\ LinksOK(c) /\ Right(c)
    <3>1. LinksOK(c)
      BY <2>2, <2>3, CopyLinks
    <3>2. Right(c)
      BY <2>2, <2>3, CopyRight
    <3>. QED  BY <2>3, <3>1, <3>2 DEF CopiesBlock
  <2>5. b \in Block(c) /\ n \in Block(c) /\ b # n
    <3>1. Block(c) = Block(f) \cup {Len(f.instrs) + 1} /\ n = Len(f.instrs) + 1
      BY <2>3 DEF CopiesBlock, Newest
    <3>2. b \in 1 .. Len(f.instrs) /\ Len(f.instrs) \in Nat
      BY <2>2, TypeFacts DEF Blocks
    <3>. QED  BY <2>2, <3>1, <3>2
  <2>. HIDE DEF n
  <2>. QED  BY <2>1, <2>4, <2>5, RedirectRight
<1>3. CASE PlaceCopy
  <2>. DEFINE b == body
              c == copy
  <2>1. pc = "unrolling" /\ c # None /\ f' = InvertExit(f, b, c)
    BY <1>3 DEF PlaceCopy
  <2>2. GraphTypeOK(f) /\ LinksOK(f) /\ b # c /\ Shape(f, b, c) /\ Shape(f, c, c)
    BY <2>1 DEF GraphInv, UnrollingInv
  <2>. HIDE DEF b, c
  <2>3. f' = f \/ Inverts(f, f', b)
    BY <2>1, <2>2, InvertLinks
  <2>. QED  BY <2>2, <2>3, InvertRight
<1>4. CASE CollectLoops \/ LoopsUnrolled
  BY <1>4 DEF CollectLoops, LoopsUnrolled
<1>. QED  BY <1>1, <1>2, <1>3, <1>4 DEF Unroll

\* The layout pass leaves branches with edges.
LEMMA LayoutRight ==
  ASSUME GraphInv, LayoutInv, Layout, f'.status = "ok", Right(f)
  PROVE  Right(f')
<1>1. CASE VisitEmpty
  <2>1. \E c : f' = Check(f, c)
    BY <1>1 DEF VisitEmpty
  <2>. QED  BY <2>1, CheckRight DEF GraphInv, Right
<1>2. CASE VisitBlock
  <2>. DEFINE b == Head(toVisit)
              d == ChainTarget(f, b)
  <2>1. /\ pc = "chain" /\ toVisit # <<>> /\ f.instrs[b] # <<>>
        /\ f' = IF f.next[b] = None /\ d # None THEN Chain(f, b, d) ELSE f
    BY <1>2 DEF VisitBlock
  <2>2. GraphTypeOK(f) /\ LinksOK(f) /\ b \in Block(f)
    BY <2>1, VisitFacts DEF GraphInv
  <2>. HIDE DEF b
  <2>3. CASE f.next[b] = None /\ d # None
    <3>1. Chains(f, f', b)
      BY <2>1, <2>2, <2>3, ChainLinks
    <3>. QED  BY <2>2, <3>1, ChainRight
  <2>. QED  BY <2>1, <2>3
<1>3. CASE MergeBlock
  <2>. DEFINE b == Head(blocksToMerge)
  <2>1. pc = "merge" /\ blocksToMerge # <<>> /\ f' = MergeBlockIntoNext(f, b)
    BY <1>3 DEF MergeBlock
  <2>2. GraphTypeOK(f) /\ LinksOK(f) /\ EntryOK(f)
    BY <2>1 DEF GraphInv
  <2>3. b \in Block(f)
    <3>1. blocksToMerge \in Seq(Nat) /\ ToSet(blocksToMerge) \subseteq Block(f)
      BY <2>1 DEF LayoutInv
    <3>. QED  BY <2>1, <3>1, HeadTail, Zenon
  <2>. HIDE DEF b
  <2>4. Merges(f, f', b)
    BY <2>1, <2>2, <2>3, MergeFacts
  <2>. QED  BY <2>2, <2>3, <2>4, MergeRight
<1>4. CASE StartLayout \/ StartMerging \/ LayoutDone
  BY <1>4 DEF StartLayout, StartMerging, LayoutDone
<1>. QED  BY <1>1, <1>2, <1>3, <1>4 DEF Layout

\* Code generation changes no edge.
LEMMA GenerateRight ==
  ASSUME GraphInv, Generate, Right(f)
  PROVE  Right(f')
<1>1. f' = f \/ \E c : f' = Check(f, c)
  <2>1. CASE StartGeneration
    BY <2>1 DEF StartGeneration
  <2>2. CASE GenerateBlock
    BY <2>2 DEF GenerateBlock
  <2>. QED  BY <2>1, <2>2 DEF Generate, PopBlock, SkipVisited, FunctionGenerated
<1>. QED  BY <1>1, CheckRight DEF GraphInv, Right

-----------------------------------------------------------------------------
(* Dead code elimination.                                                  *)

Sound(g) == GraphTypeOK(g) /\ LinksOK(g) /\ EntryOK(g) /\ Right(g)

\* Instruction i of block b, as the function was analysed, is not to be deleted.
Stays(i, b) == HasDynInfo(before, verdict, b, i) /\ Will(before, verdict, i) # "False"

\* What block b, which was reached, has kept: its chain, if its state is
\* forwarded along it, and the instructions that stay, edges included.  The
\* others are still to be deleted.
Kept(g, dead, b) ==
  /\ FallsThrough(before, verdict, b) => g.next[b] = before.next[b]
  /\ \A i \in ToSet(before.instrs[b]) : Stays(i, b) => i \in ToSet(g.instrs[b])
  /\ \A i \in ToSet(g.instrs[b]) :
       /\ i \in ToSet(before.instrs[b]) /\ g.edge[i] = before.edge[i]
       /\ g.op[i].kind \in Wanting => before.op[i].kind \in Wanting
       /\ Stays(i, b) \/ <<i, b>> \in ToSet(dead)

Sure(i, b) ==
  HasDynInfo(before, verdict, b, i) /\ before.op[i].kind \in Conditional /\ verdict[i] = "True"

Sweeping(g, dead, sure, gone) ==
  /\ Sound(before) /\ reached = Reached(before, verdict) /\ g.entryBlock = before.entryBlock
  /\ Block(g) = reached \cup ToSet(gone) /\ reached \cap ToSet(gone) = {}
  /\ \A p \in ToSet(dead) : ~Stays(p[1], p[2])
  /\ \A p \in ToSet(sure) : Sure(p[1], p[2])
  /\ \A b \in reached : Kept(g, dead, b)

KeptInv ==
  /\ ReturnsOK(f)
  /\ pc \notin {"decode", "resolve", "wire", "eliminating"} => EdgesOK(f)
  /\ pc = "collect" => before = f /\ reached = Reached(f, verdict)
  /\ pc = "eliminating" => Sweeping(f, instructionsToDelete, condBranchesToConvert, blocksToDelete)

\* What stays leads to what was reached.
LEMMA StaysLeads ==
  ASSUME Sound(before), reached = Reached(before, verdict)
  PROVE  /\ reached \subseteq Block(before)
         /\ \A b \in reached : FallsThrough(before, verdict, b) => before.next[b] \in reached
         /\ \A b, i : Stays(i, b) /\ IsBranch(before, i) /\ HasEdge(before, i) => before.edge[i].dst \in reached
         /\ \A b, i : Sure(i, b) => ~FallsThrough(before, verdict, b)
<1>. DEFINE g == before
            v == verdict
<1>1. GraphTypeOK(g) /\ LinksOK(g) /\ EntryOK(g) /\ Right(g)
  BY DEF Sound
<1>. HIDE DEF g, v
<1>2. reached = Reached(g, v)
  BY DEF g, v
<1>3. reached \subseteq Block(g) /\ Closed(g, v, reached)
  BY <1>1, <1>2, ReachedFacts
<1>4. \A b, i : Stays(i, b) => HasDynInfo(g, v, b, i) /\ Will(g, v, i) # "False"
  BY DEF Stays, g, v
<1>5. ASSUME NEW b, NEW i, HasDynInfo(g, v, b, i)
      PROVE  b \in reached /\ b \in live /\ b \in Block(g) /\ i \in ToSet(g.instrs[b]) /\ i \in Owned(g)
             /\ \E k \in Analysed(g, v, b) : g.instrs[b][k] = i
  BY <1>3, <1>5 DEF HasDynInfo, Analysed, ToSet, Owned
<1>6. ASSUME NEW b, NEW i, Stays(i, b), IsBranch(g, i), HasEdge(g, i) PROVE g.edge[i].dst \in reached
  <2>1. HasDynInfo(g, v, b, i) /\ Follows(g, v, i)
    BY <1>4, <1>6 DEF Follows
  <2>2. g.edge[i].dst \in Forwards(g, v, b)
    BY <1>5, <2>1 DEF Forwards
  <2>. QED  BY <1>3, <1>5, <2>1, <2>2 DEF Closed
<1>7. ASSUME NEW b, NEW i, Sure(i, b) PROVE ~FallsThrough(g, v, b)
  <2>1. HasDynInfo(g, v, b, i) /\ g.op[i].kind \in Conditional /\ v[i] = "True"
    BY <1>7 DEF Sure, g, v
  <2>2. HasEdge(g, i) /\ IsBranch(g, i)
    BY <1>1, <1>5, <2>1 DEF Right, EdgesOK, Wanting, WithTarget, Conditional, IsBranch, Branches
  <2>3. Left(g, v, b) /\ b \in live
    <3>1. Leaves(g, v, i)
      BY <2>1, <2>2 DEF Leaves, Will
    <3>2. \E k \in DOMAIN g.instrs[b] : g.instrs[b][k] = i
      BY <1>5, <2>1 DEF Analysed
    <3>. QED  BY <1>5, <2>1, <3>1, <3>2 DEF Left
  <2>. QED  BY <2>3 DEF FallsThrough
<1>8. \A b \in reached : FallsThrough(g, v, b) => g.next[b] \in reached
  BY <1>3 DEF Closed
<1>. QED  BY <1>3, <1>6, <1>7, <1>8 DEF g, v

\* What was said before the step is said of the next state.
LEMMA SweepingNext ==
  ASSUME live' = live, reached' = reached, verdict' = verdict, before' = before,
         Sweeping(f', instructionsToDelete', condBranchesToConvert', blocksToDelete')
  PROVE  Sweeping(f, instructionsToDelete, condBranchesToConvert, blocksToDelete)'
<1>1. Reached(before, verdict)' = Reached(before, verdict)
  BY DEF Reached, Forwards, FallsThrough
<1>2. \A b : FallsThrough(before, verdict, b)' <=> FallsThrough(before, verdict, b)
  BY DEF FallsThrough
<1>3. \A i, b : Stays(i, b)' <=> Stays(i, b)
  BY DEF Stays, HasDynInfo
<1>4. \A i, b : Sure(i, b)' <=> Sure(i, b)
  BY DEF Sure, HasDynInfo
<1>5. \A b \in reached : Kept(f', instructionsToDelete', b)
  BY DEF Sweeping
<1>6. \A b \in reached' : Kept(f, instructionsToDelete, b)'
  BY <1>2, <1>3, <1>5 DEF Kept
<1>. QED  BY <1>1, <1>3, <1>4, <1>6 DEF Sweeping

\* Everything is collected from the function as it is.
LEMMA CollectRight ==
  ASSUME GraphInv, KeptInv, Collect
  PROVE  KeptInv'
<1>1. /\ f' = f /\ pc = "collect" /\ pc' = "eliminating" /\ before = f /\ reached = Reached(f, verdict)
      /\ instructionsToDelete' = DeadInstructions(f, verdict)
      /\ condBranchesToConvert' = SureBranches(f, verdict)
      /\ blocksToDelete' = DeadBlocks(f)
      /\ live' = live /\ reached' = reached /\ verdict' = verdict /\ before' = before
  BY DEF Collect, KeptInv
<1>2. Sound(f) /\ GraphTypeOK(f) /\ ReturnsOK(f)
  BY <1>1 DEF GraphInv, KeptInv, Sound, Right
<1>. DEFINE dead == DeadInstructions(f, verdict)
            sure == SureBranches(f, verdict)
            gone == DeadBlocks(f)
            V == Visited(f)
            P == Nat \X Nat
<1>3. V \in Seq(P)
  BY <1>2, VisitedFacts
<1>4. \A i, b : <<i, b>> \in ToSet(V) <=> b \in Block(f) \cap reached /\ i \in ToSet(f.instrs[b])
  BY <1>2, VisitedSet, Zenon
<1>5. ToSet(dead) = {p \in ToSet(V) : ~Stays(p[1], p[2])}
  <2>. DEFINE S == {p \in ToSet(V) : ~HasDynInfo(f, verdict, p[2], p[1]) \/ Will(f, verdict, p[1]) = "False"}
  <2>1. dead = Only(V, S)
    BY DEF DeadInstructions
  <2>2. S = {p \in ToSet(V) : ~Stays(p[1], p[2])}
    <3>. HIDE DEF V
    <3>. QED  BY <1>1 DEF Stays
  <2>3. S \subseteq ToSet(V)
    OBVIOUS
  <2>. HIDE DEF S, V, P
  <2>4. ToSet(Only(V, S)) = ToSet(V) \cap S
    BY <1>3, OnlySet
  <2>. HIDE DEF dead
  <2>. QED  BY <2>1, <2>2, <2>3, <2>4
<1>6. \A p \in ToSet(sure) : Sure(p[1], p[2])
  <2>. DEFINE S == {p \in ToSet(V) : /\ HasDynInfo(f, verdict, p[2], p[1])
                                     /\ f.op[p[1]].kind \in Conditional /\ verdict[p[1]] = "True"}
  <2>1. sure = Only(V, S)
    BY DEF SureBranches
  <2>2. \A p \in S : Sure(p[1], p[2])
    <3>. HIDE DEF V
    <3>. QED  BY <1>1 DEF Sure
  <2>. HIDE DEF S, V, P
  <2>3. ToSet(Only(V, S)) = ToSet(V) \cap S
    BY <1>3, OnlySet
  <2>. HIDE DEF sure
  <2>. QED  BY <2>1, <2>2, <2>3
<1>7. reached \subseteq Block(f)
  BY <1>1, <1>2, StaysLeads
<1>8. ToSet(gone) = Block(f) \ reached
  <2>1. f.blocks \in Seq(Nat)
    BY <1>2 DEF GraphTypeOK
  <2>2. ToSet(Without(f.blocks, reached)) = ToSet(f.blocks) \ reached
    BY <2>1, WithoutFacts
  <2>. QED  BY <2>2 DEF DeadBlocks, Block
<1>. HIDE DEF dead, sure, gone, V, P
<1>9. ASSUME NEW b \in reached PROVE Kept(f, dead, b)
  <2>1. \A i \in ToSet(f.instrs[b]) : Stays(i, b) \/ <<i, b>> \in ToSet(dead)
    <3>1. \A i \in ToSet(f.instrs[b]) : <<i, b>> \in ToSet(V)
      BY <1>4, <1>7
    <3>. QED  BY <1>5, <3>1
  <2>. QED  BY <1>1, <2>1 DEF Kept
<1>10. Sweeping(f, dead, sure, gone)
  <2>1. \A p \in ToSet(dead) : ~Stays(p[1], p[2])
    BY <1>5
  <2>. QED  BY <1>1, <1>2, <1>6, <1>7, <1>8, <1>9, <2>1 DEF Sweeping
<1>11. f' = f /\ instructionsToDelete' = dead /\ condBranchesToConvert' = sure /\ blocksToDelete' = gone
  BY <1>1 DEF dead, sure, gone
<1>12. Sweeping(f, instructionsToDelete, condBranchesToConvert, blocksToDelete)'
  BY <1>1, <1>10, <1>11, SweepingNext
<1>. QED  BY <1>1, <1>2, <1>12 DEF KeptInv

\* A dead instruction is removed with its edge.
LEMMA DeleteInstructionRight ==
  ASSUME GraphInv, EliminatingInv, KeptInv, DeleteInstruction, f'.status = "ok"
  PROVE  KeptInv'
<1>. DEFINE P == Nat \X Nat
            todo == instructionsToDelete
            p == Head(todo)
            b == p[2]
            i == p[1]
            rest == Tail(todo)
<1>1. /\ pc = "eliminating" /\ pc' = pc /\ todo # <<>>
      /\ f' = RemoveInstruction(f, b, i) /\ instructionsToDelete' = rest
      /\ condBranchesToConvert' = condBranchesToConvert /\ blocksToDelete' = blocksToDelete
      /\ live' = live /\ reached' = reached /\ verdict' = verdict /\ before' = before
  BY DEF DeleteInstruction
<1>2. GraphTypeOK(f) /\ LinksOK(f) /\ ReturnsOK(f)
      /\ Sweeping(f, todo, condBranchesToConvert, blocksToDelete)
  BY <1>1 DEF GraphInv, KeptInv
<1>3. todo \in Seq(P) /\ \A q \in ToSet(todo) : q[2] \in Block(f)
  BY <1>1 DEF EliminatingInv
<1>4. p \in ToSet(todo) /\ p \in P /\ ToSet(todo) = {p} \cup ToSet(rest)
  <2>. HIDE DEF P
  <2>. QED  BY <1>1, <1>3, HeadTail, Zenon
<1>5. b \in Block(f) /\ p = <<i, b>>
  BY <1>3, <1>4
<1>. HIDE DEF b, i, p, P, rest, todo
<1>6. Removes(f, f', b, i)
  BY <1>1, <1>2, <1>5, RemoveInstructionFacts
<1>7. /\ ReturnsOK(f') /\ \A j \in Instrs(f) : j # i => f'.edge[j] = f.edge[j]
      /\ Owned(f') \subseteq Owned(f) \ {i}
  <2>1. ReturnsOK(f) => ReturnsOK(f')
    BY <1>2, <1>5, <1>6, RemoveRight, Zenon
  <2>2. Owned(f') \subseteq Owned(f) \ {i}
    BY <1>2, <1>5, <1>6, RemoveRight, Zenon
  <2>3. \A j \in Instrs(f) : j # i => f'.edge[j] = f.edge[j]
    <3>1. f'.edge = [f.edge EXCEPT ![i] = NoEdge] /\ DOMAIN f.edge = Instrs(f)
      BY <1>2, <1>6, TypeFacts DEF Removes
    <3>. QED  BY <3>1
  <2>. QED  BY <1>2, <2>1, <2>2, <2>3
<1>8. /\ f'.op = f.op /\ f'.next = f.next /\ f'.entryBlock = f.entryBlock /\ Block(f') = Block(f)
      /\ f'.instrs = [f.instrs EXCEPT ![b] = Without(f.instrs[b], {i})]
  BY <1>6 DEF Removes, Block
<1>9. \A c \in Block(f) : ToSet(f'.instrs[c]) \subseteq ToSet(f.instrs[c])
                          /\ (c # b => f'.instrs[c] = f.instrs[c])
  <2>1. f.instrs[b] \in Seq(Nat) /\ Block(f) \subseteq Blocks(f)
    BY <1>2, <1>5, TypeFacts
  <2>2. ToSet(Without(f.instrs[b], {i})) = ToSet(f.instrs[b]) \ {i}
    BY <2>1, WithoutFacts
  <2>3. Blocks(f) = DOMAIN f.instrs
    BY <1>2 DEF Blocks, GraphTypeOK
  <2>4. \A c \in Block(f) : f'.instrs[c] = IF c = b THEN Without(f.instrs[b], {i}) ELSE f.instrs[c]
    BY <1>8, <2>1, <2>3
  <2>. QED  BY <2>2, <2>4
<1>10. ToSet(f'.instrs[b]) = ToSet(f.instrs[b]) \ {i}
  <2>1. f.instrs[b] \in Seq(Nat) /\ b \in DOMAIN f.instrs
    BY <1>2, <1>5, TypeFacts DEF Blocks, GraphTypeOK
  <2>2. ToSet(Without(f.instrs[b], {i})) = ToSet(f.instrs[b]) \ {i}
    BY <2>1, WithoutFacts
  <2>. QED  BY <1>8, <2>1, <2>2, Zenon
<1>11. /\ reached \subseteq Block(f) /\ ~Stays(i, b)
       /\ \A c \in reached : Kept(f, todo, c)
  BY <1>2, <1>4, <1>5 DEF Sweeping
<1>12. ASSUME NEW c \in reached PROVE Kept(f', rest, c)
  <2>1. /\ FallsThrough(before, verdict, c) => f.next[c] = before.next[c]
        /\ \A j \in ToSet(before.instrs[c]) : Stays(j, c) => j \in ToSet(f.instrs[c])
        /\ \A j \in ToSet(f.instrs[c]) :
             /\ j \in ToSet(before.instrs[c]) /\ f.edge[j] = before.edge[j]
             /\ f.op[j].kind \in Wanting => before.op[j].kind \in Wanting
             /\ Stays(j, c) \/ <<j, c>> \in ToSet(todo)
    BY <1>11 DEF Kept
  <2>2. \A j \in ToSet(before.instrs[c]) : Stays(j, c) => j \in ToSet(f'.instrs[c])
    <3>1. CASE c = b
      BY <1>10, <1>11, <2>1, <3>1
    <3>2. CASE c # b
      BY <1>9, <1>11, <2>1, <3>2
    <3>. QED  BY <3>1, <3>2
  <2>3. ASSUME NEW j \in ToSet(f'.instrs[c])
        PROVE  j \in ToSet(f.instrs[c]) /\ j # i /\ j \in Instrs(f)
    <3>1. c \in Block(f') /\ j \in ToSet(f.instrs[c])
      BY <1>8, <1>9, <1>11, Zenon
    <3>2. j \in Owned(f')
      BY <3>1 DEF Owned
    <3>. QED  BY <1>2, <1>7, <3>1, <3>2, TypeFacts
  <2>4. \A j \in ToSet(f'.instrs[c]) : Stays(j, c) \/ <<j, c>> \in ToSet(rest)
    BY <1>4, <1>5, <2>1, <2>3
  <2>. QED  BY <1>7, <1>8, <2>1, <2>2, <2>3, <2>4, Zenon DEF Kept
<1>13. Sweeping(f', rest, condBranchesToConvert, blocksToDelete)
  BY <1>2, <1>4, <1>8, <1>12 DEF Sweeping
<1>14. Sweeping(f, instructionsToDelete, condBranchesToConvert, blocksToDelete)'
  BY <1>1, <1>13, SweepingNext DEF rest, todo
<1>. QED  BY <1>1, <1>7, <1>14 DEF KeptInv

\* A branch that is always taken has nothing forwarded along the chain.
LEMMA ConvertBranchRight ==
  ASSUME GraphInv, EliminatingInv, KeptInv, ConvertBranch
  PROVE  KeptInv'
<1>. DEFINE P == Nat \X Nat
            todo == condBranchesToConvert
            p == Head(todo)
            b == p[2]
            i == p[1]
            n == f.next[b]
            rest == Tail(todo)
            dead == instructionsToDelete
            gone == blocksToDelete
<1>1. /\ pc = "eliminating" /\ pc' = pc /\ todo # <<>>
      /\ f' = MakeJump(f, i, b) /\ condBranchesToConvert' = rest
      /\ instructionsToDelete' = dead /\ blocksToDelete' = gone
      /\ live' = live /\ reached' = reached /\ verdict' = verdict /\ before' = before
  BY DEF ConvertBranch
<1>2. GraphTypeOK(f) /\ LinksOK(f) /\ ReturnsOK(f) /\ Sweeping(f, dead, todo, gone)
  BY <1>1 DEF GraphInv, KeptInv
<1>3. todo \in Seq(P) /\ \A q \in ToSet(todo) : q[2] \in Block(f) /\ q[1] \in Instrs(f)
  BY <1>1 DEF EliminatingInv
<1>4. p \in ToSet(todo) /\ ToSet(todo) = {p} \cup ToSet(rest)
  <2>. HIDE DEF P
  <2>. QED  BY <1>1, <1>3, HeadTail, Zenon
<1>5. b \in Block(f) /\ i \in Instrs(f) /\ Sure(i, b)
  BY <1>2, <1>3, <1>4 DEF Sweeping
<1>. HIDE DEF b, i, p, P, rest, todo, dead, gone
<1>6. /\ f'.instrs = f.instrs /\ f'.edge = f.edge /\ Block(f') = Block(f) /\ f'.entryBlock = f.entryBlock
      /\ f'.op = [f.op EXCEPT ![i].kind = "jmp"]
      /\ f'.next = IF n = None THEN f.next ELSE [f.next EXCEPT ![b] = None]
  <2>1. DOMAIN f = Fields
    BY <1>2 DEF GraphTypeOK
  <2>. QED  BY <1>1, <2>1 DEF MakeJump, Fields, Block
<1>. HIDE DEF n
<1>7. /\ Instrs(f') = Instrs(f) /\ f'.op[i].kind = "jmp"
      /\ \A j \in Instrs(f) : j # i => f'.op[j] = f.op[j]
  <2>1. DOMAIN f.op = Instrs(f) /\ DOMAIN f.op = 1 .. Len(f.op) /\ f.op[i] \in OpType
    BY <1>2, <1>5, TypeFacts DEF Instrs
  <2>2. f'.op[i].kind = "jmp" /\ \A j \in Instrs(f) : j # i => f'.op[j] = f.op[j]
    BY <1>5, <1>6, <2>1 DEF OpType
  <2>3. Len(f'.op) = Len(f.op)
    <3>1. Len(f.op) \in Nat /\ f.op \in Seq(OpType)
      BY <1>2, TypeFacts DEF GraphTypeOK
    <3>. QED  BY <1>6, <3>1
  <2>. QED  BY <2>2, <2>3 DEF Instrs
<1>8. ReturnsOK(f')
  <2>1. IsBranch(f', i)
    BY <1>7 DEF IsBranch, Branches
  <2>. QED  BY <1>2, <1>6, <1>7, <2>1 DEF ReturnsOK, IsBranch
<1>9. /\ reached \subseteq Block(f) /\ Sound(before) /\ reached = Reached(before, verdict)
      /\ \A c \in reached : Kept(f, dead, c)
  BY <1>2 DEF Sweeping
<1>10. ~FallsThrough(before, verdict, b)
  BY <1>5, <1>9, StaysLeads
<1>11. before.op[i].kind \in Wanting
  BY <1>5 DEF Sure, Conditional, Wanting, WithTarget
<1>12. ASSUME NEW c \in reached PROVE Kept(f', dead, c)
  <2>1. /\ FallsThrough(before, verdict, c) => f.next[c] = before.next[c]
        /\ \A j \in ToSet(before.instrs[c]) : Stays(j, c) => j \in ToSet(f.instrs[c])
        /\ \A j \in ToSet(f.instrs[c]) :
             /\ j \in ToSet(before.instrs[c]) /\ f.edge[j] = before.edge[j]
             /\ f.op[j].kind \in Wanting => before.op[j].kind \in Wanting
             /\ Stays(j, c) \/ <<j, c>> \in ToSet(dead)
    BY <1>9 DEF Kept
  <2>2. FallsThrough(before, verdict, c) => f'.next[c] = before.next[c]
    <3>1. c # b => f'.next[c] = f.next[c]
      BY <1>6
    <3>. QED  BY <1>10, <2>1, <3>1
  <2>3. \A j \in ToSet(f.instrs[c]) : j \in Instrs(f)
    <3>1. c \in Blocks(f)
      BY <1>2, <1>9, TypeFacts
    <3>. QED  BY <1>2, <3>1 DEF GraphTypeOK
  <2>4. \A j \in ToSet(f.instrs[c]) : f'.op[j].kind \in Wanting => before.op[j].kind \in Wanting
    BY <1>7, <1>11, <2>1, <2>3, Zenon
  <2>. QED  BY <1>6, <2>1, <2>2, <2>4 DEF Kept
<1>13. Sweeping(f', dead, rest, gone)
  BY <1>2, <1>4, <1>6, <1>12 DEF Sweeping
<1>14. Sweeping(f, instructionsToDelete, condBranchesToConvert, blocksToDelete)'
  BY <1>1, <1>13, SweepingNext DEF rest, todo
<1>. QED  BY <1>1, <1>8, <1>14 DEF KeptInv

\* A block that was not reached has no edge in common with one that was: the
\* instructions whose branch could lead there are deleted by then.
LEMMA DeleteBlockRight ==
  ASSUME GraphInv, EliminatingInv, KeptInv, DeleteBlock
  PROVE  KeptInv'
<1>. DEFINE todo == blocksToDelete
            b == Head(todo)
            rest == Tail(todo)
            dead == instructionsToDelete
            sure == condBranchesToConvert
            v == verdict
            g == before
<1>1. /\ pc = "eliminating" /\ pc' = pc /\ todo # <<>> /\ dead = <<>>
      /\ f' = RemoveBlock(f, b) /\ blocksToDelete' = rest
      /\ instructionsToDelete' = dead /\ condBranchesToConvert' = sure
      /\ live' = live /\ reached' = reached /\ verdict' = v /\ before' = g
  BY DEF DeleteBlock
<1>2. GraphTypeOK(f) /\ LinksOK(f) /\ ReturnsOK(f) /\ Sweeping(f, dead, sure, todo)
  BY <1>1 DEF GraphInv, KeptInv
<1>3. todo \in Seq(Nat) /\ IsInjective(todo) /\ ToSet(todo) \subseteq Block(f) /\ f.entryBlock \notin ToSet(todo)
  BY <1>1 DEF EliminatingInv
<1>4. b \in ToSet(todo) /\ ToSet(todo) = {b} \cup ToSet(rest) /\ b \notin ToSet(rest)
  BY <1>1, <1>3, HeadTail, Zenon
<1>5. b \in Block(f) /\ b # f.entryBlock /\ b # None
  BY <1>2, <1>3, <1>4, TypeFacts
<1>6. /\ reached \subseteq Block(f) /\ Sound(g) /\ reached = Reached(g, v)
      /\ Block(f) = reached \cup ToSet(todo) /\ reached \cap ToSet(todo) = {}
      /\ g.entryBlock = f.entryBlock /\ \A c \in reached : Kept(f, dead, c)
      /\ \A p \in ToSet(sure) : Sure(p[1], p[2])
  BY <1>2 DEF Sweeping
<1>7. b \notin reached
  BY <1>4, <1>6
<1>8. /\ reached \subseteq Block(g)
      /\ \A c \in reached : FallsThrough(g, v, c) => g.next[c] \in reached
      /\ \A c, i : Stays(i, c) /\ IsBranch(g, i) /\ HasEdge(g, i) => g.edge[i].dst \in reached
  BY <1>6, StaysLeads
<1>. HIDE DEF b, rest, todo, dead, sure, v, g
<1>9. RemovesBlock(f, f', b)
  BY <1>1, <1>2, <1>5, RemoveBlockFacts
<1>10. Block(f') = Block(f) \ {b} /\ Instrs(f') = Instrs(f)
  BY <1>2, <1>5, <1>9, RemoveBlockType DEF LinksOK
<1>. DEFINE p == f.prev[b]
            ends == {i \in DOMAIN f.edge : f.edge[i].src = b \/ f.edge[i].dst = b}
<1>11. /\ f'.op = f.op /\ f'.entryBlock = f.entryBlock
       /\ f'.instrs = [f.instrs EXCEPT ![b] = <<>>]
       /\ f'.next = IF p = None THEN f.next ELSE [f.next EXCEPT ![p] = f.next[b]]
       /\ \A i \in Instrs(f) : f'.edge[i] = IF i \in ends THEN NoEdge ELSE f.edge[i]
  <2>1. Instrs(f) = 1 .. Len(f.edge)
    BY <1>2 DEF GraphTypeOK, Instrs
  <2>2. f'.edge = [i \in 1 .. Len(f.edge) |-> IF i \in ends THEN NoEdge ELSE f.edge[i]]
    BY <1>9 DEF RemovesBlock
  <2>3. \A i \in Instrs(f) : f'.edge[i] = IF i \in ends THEN NoEdge ELSE f.edge[i]
    <3>. HIDE DEF ends
    <3>. QED  BY <2>1, <2>2
  <2>. QED  BY <1>9, <2>3 DEF RemovesBlock
<1>12. ends = {i \in Instrs(f) : f.edge[i].src = b \/ f.edge[i].dst = b}
  BY <1>2, TypeFacts
<1>13. p # None => p \in Block(f) /\ f.next[p] = b
  BY <1>2, <1>5 DEF LinksOK, PrevOK
<1>. HIDE DEF p, ends
<1>14. ReturnsOK(f')
  BY <1>2, <1>10, <1>11 DEF ReturnsOK, IsBranch, NoEdge
<1>15. ASSUME NEW c \in reached PROVE Kept(f', dead, c)
  <2>1. /\ FallsThrough(g, v, c) => f.next[c] = g.next[c]
        /\ \A j \in ToSet(g.instrs[c]) : Stays(j, c) => j \in ToSet(f.instrs[c])
        /\ \A j \in ToSet(f.instrs[c]) :
             /\ j \in ToSet(g.instrs[c]) /\ f.edge[j] = g.edge[j]
             /\ f.op[j].kind \in Wanting => g.op[j].kind \in Wanting
             /\ Stays(j, c) \/ <<j, c>> \in ToSet(dead)
    BY <1>6 DEF Kept, g, v
  <2>2. c \in Block(f) /\ c # b /\ c \in Nat /\ c # None /\ c \in Block(g)
    BY <1>2, <1>6, <1>7, <1>8, TypeFacts
  <2>3. f'.instrs[c] = f.instrs[c]
    BY <1>11, <2>2
  <2>4. FallsThrough(g, v, c) => f'.next[c] = g.next[c]
    <3>1. ASSUME FallsThrough(g, v, c), p # None, p = c PROVE FALSE
      <4>1. g.next[c] \in reached /\ f.next[c] = g.next[c] /\ f.next[c] = b
        BY <1>8, <1>13, <2>1, <3>1
      <4>. QED  BY <1>7, <4>1
    <3>. QED  BY <1>11, <2>1, <3>1
  <2>5. ASSUME NEW j \in ToSet(f.instrs[c]) PROVE f'.edge[j] = f.edge[j]
    <3>1. j \in Instrs(f) /\ j \in Owned(f)
      BY <1>2, <2>2, TypeFacts DEF Owned
    <3>2. f.edge[j].src # b
      <4>1. HasEdge(f, j) => f.edge[j].src = c
        BY <1>2, <2>2 DEF LinksOK, SourcesOK
      <4>. QED  BY <1>5, <2>2, <4>1 DEF HasEdge, NoEdge
    <3>3. ASSUME f.edge[j].dst = b PROVE FALSE
      <4>1. g.edge[j].dst = b /\ j \in ToSet(g.instrs[c])
        BY <2>1, <3>3, Zenon
      <4>2. GraphTypeOK(g) /\ ReturnsOK(g)
        BY <1>6 DEF Sound, Right
      <4>3. j \in Instrs(g)
        BY <2>2, <4>1, <4>2, TypeFacts DEF Owned
      <4>4. IsBranch(g, j) /\ HasEdge(g, j)
        BY <1>5, <4>1, <4>2, <4>3 DEF ReturnsOK, HasEdge, NoEdge
      <4>5. Stays(j, c)
        BY <1>1, <2>1, SetEmpty, Zenon
      <4>. QED  BY <1>7, <1>8, <4>1, <4>4, <4>5
    <3>. QED  BY <1>11, <1>12, <3>1, <3>2, <3>3
  <2>. QED  BY <1>11, <2>1, <2>3, <2>4, <2>5 DEF Kept, g, v
<1>16. Sweeping(f', dead, sure, rest)
  <2>1. Block(f') = reached \cup ToSet(rest) /\ reached \cap ToSet(rest) = {}
    BY <1>4, <1>6, <1>7, <1>10
  <2>2. \A q \in ToSet(dead) : ~Stays(q[1], q[2])
    BY <1>2 DEF Sweeping
  <2>. QED  BY <1>6, <1>11, <1>15, <2>1, <2>2 DEF Sweeping, g, v
<1>17. Sweeping(f, instructionsToDelete, condBranchesToConvert, blocksToDelete)'
  BY <1>1, <1>16, SweepingNext DEF rest, todo, dead, sure, v, g
<1>. QED  BY <1>1, <1>14, <1>17 DEF KeptInv

\* Blocks that were reached have all their edges at any time.
LEMMA SweepingEdges ==
  ASSUME GraphTypeOK(f), NEW dead, NEW sure, NEW gone, Sweeping(f, dead, sure, gone)
  PROVE  \A b \in Block(f) \ ToSet(gone) : \A i \in ToSet(f.instrs[b]) :
           f.op[i].kind \in Wanting => HasEdge(f, i)
<1>. SUFFICES ASSUME NEW b \in Block(f) \ ToSet(gone), NEW i \in ToSet(f.instrs[b]),
                     f.op[i].kind \in Wanting
              PROVE  HasEdge(f, i)
  OBVIOUS
<1>1. b \in reached /\ Sound(before) /\ Kept(f, dead, b) /\ reached = Reached(before, verdict)
  BY DEF Sweeping
<1>2. reached \subseteq Block(before)
  BY <1>1, StaysLeads
<1>3. i \in ToSet(before.instrs[b]) /\ f.edge[i] = before.edge[i] /\ before.op[i].kind \in Wanting
  BY <1>1, Zenon DEF Kept
<1>4. i \in Owned(before)
  BY <1>1, <1>2, <1>3 DEF Owned
<1>. QED  BY <1>1, <1>3, <1>4 DEF Sound, Right, EdgesOK, HasEdge

\* Every step of the pass keeps what was reached.
LEMMA EliminateRight ==
  ASSUME GraphInv, EliminatingInv, KeptInv, Eliminate, f'.status = "ok"
  PROVE  KeptInv'
<1>1. CASE AnalyseLiveness
  <2>1. pc = "eliminate" /\ pc' = "analyse" /\ \E c : f' = Check(f, c)
    BY <1>1 DEF AnalyseLiveness
  <2>2. EdgesOK(f') /\ ReturnsOK(f')
    BY <2>1, CheckRight DEF GraphInv, KeptInv
  <2>. QED  BY <2>1, <2>2 DEF KeptInv
<1>2. CASE AnalyseStack
  <2>1. /\ pc = "analyse" /\ pc' = "collect" /\ f' = f /\ before' = f /\ live' = live
        /\ reached' = Reached(f, verdict')
    BY <1>2 DEF AnalyseStack
  <2>2. Reached(f, verdict)' = Reached(f, verdict')
    BY <2>1 DEF Reached, Forwards, FallsThrough
  <2>. QED  BY <2>1, <2>2 DEF KeptInv
<1>3. CASE Collect
  BY <1>3, CollectRight
<1>4. CASE DeleteInstruction
  BY <1>4, DeleteInstructionRight
<1>5. CASE ConvertBranch
  BY <1>5, ConvertBranchRight
<1>6. CASE DeleteBlock
  BY <1>6, DeleteBlockRight
<1>7. CASE DeadCodeEliminated
  <2>1. pc = "eliminating" /\ pc' = "layout" /\ f' = f /\ blocksToDelete = <<>>
    BY <1>7 DEF DeadCodeEliminated, Eliminated
  <2>2. EdgesOK(f)
    <3>1. GraphTypeOK(f) /\ Sweeping(f, instructionsToDelete, condBranchesToConvert, blocksToDelete)
      BY <2>1 DEF GraphInv, KeptInv
    <3>2. \A b \in Block(f) \ ToSet(blocksToDelete) : \A i \in ToSet(f.instrs[b]) :
            f.op[i].kind \in Wanting => HasEdge(f, i)
      BY <3>1, SweepingEdges
    <3>3. ToSet(blocksToDelete) = {}
      BY <2>1, SetEmpty
    <3>. QED  BY <3>2, <3>3 DEF EdgesOK, Owned
  <2>. QED  BY <2>1, <2>2 DEF KeptInv
<1>. QED  BY <1>1, <1>2, <1>3, <1>4, <1>5, <1>6, <1>7 DEF Eliminate

AlwaysOK == f.status = "ok" => KeptInv

\* So it does along every rewriting.
LEMMA AlwaysKept == Spec => []AlwaysOK
<1>1. Init => AlwaysOK
  <2>. SUFFICES ASSUME Init PROVE KeptInv
    BY DEF AlwaysOK
  <2>1. f = EmptyFunction /\ pc = "decode"
    BY DEF Init
  <2>2. Instrs(f) = {}
    BY <2>1 DEF EmptyFunction, Instrs
  <2>. QED  BY <2>1, <2>2 DEF KeptInv, ReturnsOK
<1>2. Inv /\ Inv' /\ AlwaysOK /\ [Next]_vars => AlwaysOK'
  <2>. SUFFICES ASSUME Inv, Inv', AlwaysOK, [Next]_vars, f'.status = "ok" PROVE KeptInv'
    BY DEF AlwaysOK
  <2>1. CASE UNCHANGED vars
    <3>1. /\ f' = f /\ pc' = pc /\ instructionsToDelete' = instructionsToDelete
          /\ condBranchesToConvert' = condBranchesToConvert /\ blocksToDelete' = blocksToDelete
          /\ live' = live /\ reached' = reached /\ verdict' = verdict /\ before' = before
      BY <2>1 DEF vars, eliminateVars, todoVars
    <3>2. KeptInv
      BY <2>1, <3>1 DEF AlwaysOK
    <3>3. Reached(f, verdict)' = Reached(f, verdict)
      BY <3>1 DEF Reached, Forwards, FallsThrough
    <3>4. pc = "eliminating" => Sweeping(f, instructionsToDelete, condBranchesToConvert, blocksToDelete)'
      BY <3>1, <3>2, SweepingNext DEF KeptInv
    <3>. QED  BY <3>1, <3>2, <3>3, <3>4 DEF KeptInv
  <2>2. CASE Next
    <3>1. f.status = "ok"
      BY <2>2 DEF Next
    <3>2. /\ GraphInv /\ DecodingInv /\ UnrollingInv /\ EliminatingInv /\ LayoutInv /\ GeneratingInv /\ KeptInv
          /\ WellFormed(text)
      BY <3>1, TextAssumption DEF Inv, AlwaysOK
    <3>3. CASE Decode
      <4>1. pc' \in {"resolve", "wire", "unroll"}
        BY <3>3 DEF Decode, DecodeEntry, ResolveBlock, SkipUnknown, BranchToKnown, BranchIntoMiddle,
                    BranchToNew, BranchesWired, FunctionDecoded
      <4>2. ReturnsOK(f') /\ (pc' = "unroll" => EdgesOK(f'))
        BY <3>2, <3>3, DecodeRight DEF KeptInv
      <4>. QED  BY <4>1, <4>2 DEF KeptInv
    <3>4. ASSUME pc \notin {"decode", "resolve", "wire", "eliminating"} PROVE Right(f)
      BY <3>2, <3>4 DEF KeptInv, Right
    <3>5. ASSUME Right(f'), pc' \notin {"collect", "eliminating"} PROVE KeptInv'
      BY <3>5 DEF KeptInv, Right
    <3>6. CASE Unroll
      <4>1. pc \in {"unroll", "unrolling"} /\ pc' \in {"unrolling", "eliminate", "layout"}
        BY <3>6 DEF Unroll, CollectLoops, IsolateLoop, CopyLoop, PlaceCopy, LoopsUnrolled
      <4>2. Right(f')
        BY <3>2, <3>4, <3>6, <4>1, UnrollRight
      <4>. QED  BY <3>5, <4>1, <4>2
    <3>7. CASE Eliminate
      BY <3>2, <3>7, EliminateRight
    <3>8. CASE Layout
      <4>1. pc \in {"layout", "chain", "merge"} /\ pc' \in {"chain", "merge", "eliminate", "layout", "generate"}
        BY <3>8 DEF Layout, StartLayout, VisitEmpty, VisitBlock, StartMerging, MergeBlock, LayoutDone
      <4>2. Right(f')
        BY <3>2, <3>4, <3>8, <4>1, LayoutRight
      <4>. QED  BY <3>5, <4>1, <4>2
    <3>9. CASE Generate
      <4>1. pc \in {"generate", "generating"} /\ pc' \in {"generating", "generated"}
        BY <3>9 DEF Generate, StartGeneration, PopBlock, SkipVisited, GenerateBlock, FunctionGenerated
      <4>2. Right(f')
        BY <3>2, <3>4, <3>9, <4>1, GenerateRight
      <4>. QED  BY <3>5, <4>1, <4>2
    <3>. QED  BY <2>2, <3>3, <3>6, <3>7, <3>8, <3>9 DEF Next
  <2>. QED  BY <2>1, <2>2
<1>. QED  BY <1>1, <1>2, AlwaysInv, PTL DEF Spec

\* From the end of decoding on, every direct branch and every return has its
\* edge: code generation asserts it (CodeGenerationPass.hpp:57).  Splitting,
\* copying, inverting, chaining and merging carry edges along by hand, and
\* removing a block takes the edges of other blocks with it, of none that stays.
THEOREM EdgesStay == Spec => []AllWired
<1>1. Inv /\ AlwaysOK => AllWired
  <2>. SUFFICES ASSUME Inv, AlwaysOK, Rewritable, ~Decoding,
                       NEW b \in Block(f) \ ToSet(blocksToDelete), NEW k \in DOMAIN f.instrs[b],
                       f.op[f.instrs[b][k]].kind \in {"jcc", "jcxz", "jmp", "ret"}
                PROVE  HasEdge(f, f.instrs[b][k])
    BY DEF AllWired
  <2>. DEFINE i == f.instrs[b][k]
  <2>1. GraphTypeOK(f) /\ KeptInv /\ i \in ToSet(f.instrs[b]) /\ f.op[i].kind \in Wanting
    BY DEF Inv, GraphInv, AlwaysOK, Rewritable, ToSet, Wanting, WithTarget
  <2>. HIDE DEF i
  <2>2. CASE pc = "eliminating"
    <3>1. Sweeping(f, instructionsToDelete, condBranchesToConvert, blocksToDelete)
      BY <2>1, <2>2 DEF KeptInv
    <3>2. HasEdge(f, i)
      BY <2>1, <3>1, SweepingEdges
    <3>. QED  BY <3>2 DEF i
  <2>3. CASE pc # "eliminating"
    <3>1. EdgesOK(f)
      BY <2>1, <2>3 DEF KeptInv, Decoding
    <3>2. i \in Owned(f)
      BY <2>1 DEF Owned
    <3>3. HasEdge(f, i)
      BY <2>1, <3>1, <3>2 DEF EdgesOK
    <3>. QED  BY <3>3 DEF i
  <2>. QED  BY <2>2, <2>3
<1>. QED  BY <1>1, AlwaysInv, AlwaysKept, PTL

\* When dead code elimination is done, there is a path from the entry to every
\* block left: what was reached still leads on as it did, chains by the
\* instructions that stay and branches by their edges, although instructions,
\* conditions and blocks were removed one by one.
THEOREM DeadCodeGone == Spec => []NoDeadCodeLeft
<1>1. Inv /\ AlwaysOK => NoDeadCodeLeft
  <2>. SUFFICES ASSUME Inv, AlwaysOK, Rewritable, Eliminated, NEW s \in SUBSET Block(f),
                       f.entryBlock \in s, \A b \in s : Successors(b) \subseteq s
                PROVE  s = Block(f)
    BY DEF NoDeadCodeLeft
  <2>. DEFINE g == before
              v == verdict
  <2>1. /\ GraphTypeOK(f) /\ LinksOK(f) /\ ReturnsOK(f) /\ blocksToDelete = <<>>
        /\ Sweeping(f, instructionsToDelete, condBranchesToConvert, blocksToDelete)
    BY DEF Inv, GraphInv, AlwaysOK, KeptInv, Rewritable, Eliminated
  <2>2. /\ Sound(g) /\ reached = Reached(g, v) /\ Block(f) = reached /\ f.entryBlock = g.entryBlock
        /\ \A b \in reached : Kept(f, instructionsToDelete, b)
    BY <2>1, SetEmpty DEF Sweeping
  <2>3. GraphTypeOK(g) /\ LinksOK(g) /\ EntryOK(g)
    BY <2>2 DEF Sound
  <2>4. reached \subseteq Block(g)
    BY <2>2, StaysLeads
  <2>5. ASSUME NEW b \in s
        PROVE  Forwards(g, v, b) \subseteq s /\ (FallsThrough(g, v, b) => g.next[b] \in s)
    <3>1. b \in reached /\ b \in Block(g) /\ b \in Block(f) /\ Successors(b) \subseteq s
      BY <2>2, <2>4, <2>5
    <3>2. /\ FallsThrough(g, v, b) => f.next[b] = g.next[b]
          /\ \A i \in ToSet(g.instrs[b]) : Stays(i, b) => i \in ToSet(f.instrs[b])
          /\ \A i \in ToSet(f.instrs[b]) : f.edge[i] = g.edge[i]
      BY <2>2, <3>1, Zenon DEF Kept
    <3>3. FallsThrough(g, v, b) => g.next[b] \in s
      <4>1. FallsThrough(g, v, b) => f.next[b] # None
        BY <3>2 DEF FallsThrough
      <4>. QED  BY <3>1, <3>2, <4>1 DEF Successors
    <3>4. ASSUME NEW d \in Forwards(g, v, b) PROVE d \in s
      <4>1. PICK k \in Analysed(g, v, b) : Follows(g, v, g.instrs[b][k]) /\ d = g.edge[g.instrs[b][k]].dst
        BY <3>4 DEF Forwards
      <4>. DEFINE i == g.instrs[b][k]
      <4>2. b \in live
        BY <3>4 DEF Forwards
      <4>3. i \in ToSet(g.instrs[b]) /\ Stays(i, b)
        BY <3>1, <4>1, <4>2 DEF Stays, HasDynInfo, Follows, Analysed, ToSet
      <4>4. HasEdge(g, i) /\ d = g.edge[i].dst
        BY <4>1 DEF Follows
      <4>. HIDE DEF i
      <4>5. i \in ToSet(f.instrs[b]) /\ f.edge[i] = g.edge[i]
        BY <3>2, <4>3
      <4>6. d # None
        <5>1. d \in Block(g)
          BY <2>3, <3>1, <3>4, ForwardsStay
        <5>. QED  BY <2>3, <5>1, TypeFacts
      <4>7. i \in Instrs(f) /\ DOMAIN f.op = Instrs(f)
        BY <2>1, <3>1, <4>5, TypeFacts DEF Owned
      <4>8. i \in Linked(f)
        BY <2>1, <4>4, <4>5, <4>6, <4>7 DEF Linked, ReturnsOK, HasEdge
      <4>9. i \in ToSet(f.outgoing[b])
        <5>1. f.outgoing[b] = Only(f.instrs[b], Linked(f)) /\ f.instrs[b] \in Seq(Nat)
          BY <2>1, <3>1, TypeFacts DEF LinksOK, OutgoingOK
        <5>2. ToSet(Only(f.instrs[b], Linked(f))) = ToSet(f.instrs[b]) \cap Linked(f)
          BY <5>1, OnlySet
        <5>. QED  BY <4>5, <4>8, <5>1, <5>2
      <4>10. f.edge[i].dst \in Successors(b)
        BY <4>9 DEF Successors
      <4>. QED  BY <3>1, <4>4, <4>5, <4>10
    <3>. QED  BY <3>3, <3>4
  <2>6. Closed(g, v, s) /\ s \in SUBSET Block(g)
    BY <2>2, <2>4, <2>5 DEF Closed
  <2>. HIDE DEF g, v
  <2>7. Reached(g, v) \subseteq s
    BY <2>3, <2>6, ReachedFacts
  <2>. QED  BY <2>2, <2>7
<1>. QED  BY <1>1, AlwaysInv, AlwaysKept, PTL
=============================================================================
