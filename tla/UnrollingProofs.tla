---------------------------- MODULE UnrollingProofs ----------------------------
(***************************************************************************)
(* Loop unrolling puts the iterations of a loop in a row, for every limit  *)
(* and every function.                                                     *)
(*                                                                         *)
(* The invariant names the rows.  A block that branches to itself, and     *)
(* neither waits nor is being copied, ends a row of blocks with the same   *)
(* labels, each entered from the one before it only.  The row stays one    *)
(* when another block is cut, copied or closed: the blocks it touches were *)
(* waiting or being copied, so they are not in the row, and a new block    *)
(* leads to no old one that the block it comes from did not lead to.       *)
(***************************************************************************)
EXTENDS RewritingProofs

-----------------------------------------------------------------------------
(* Rows of iterations.                                                     *)

\* The blocks the branches of block b lead to, and all it leads to; the labels
\* of its instructions; the other blocks it is entered from.
Dests(g, b)   == {g.edge[i].dst : i \in ToSet(g.instrs[b]) \cap Linked(g)}
Onward(g, b)  == Dests(g, b) \cup ({g.next[b]} \ {None})
Labels(g, b)  == {g.op[i].at : i \in ToSet(g.instrs[b])} \ {None}
Entries(g, c) == {b \in Block(g) \ {c} : c \in Onward(g, b)}

\* Iterations 0 to m of a loop in a row, the last one b.
Row(g, s, m, b) ==
  /\ s \in [0 .. m -> Block(g)] /\ s[m] = b
  /\ \A k \in 1 .. m : Entries(g, s[k]) = {s[k - 1]} /\ Labels(g, s[k]) = Labels(g, s[k - 1])
Avoids(s, m, S) == \A k \in 0 .. m : s[k] \notin S

\* A row that does not return to a block it went through
Straight(g, s, m, b) ==
  Row(g, s, m, b) /\ \A j, k \in 0 .. m : s[j] = s[k] => j = k

\* A loop cut behind its last branch: it ends with it, or with the jump
\* unchainNext() made.
ExitLast(g, b, d) ==
  LET l == Last(g.instrs[b])
  IN  g.edge[l].dst = d \/ g.op[l].at = None

\* Blocks other than b stay what they are; b and the new blocks lead to no old
\* one b did not lead to.
Reshapes(g, h, b, new) ==
  /\ b \in Block(g) /\ Block(h) = Block(g) \cup new /\ Block(g) \cap new = {}
  /\ \A d \in Block(g) \ {b} :
       Onward(h, d) = Onward(g, d) /\ Dests(h, d) = Dests(g, d) /\ Labels(h, d) = Labels(g, d)
  /\ \A d \in {b} \cup new : Onward(h, d) \cap Block(g) \subseteq Onward(g, b)

\* What one other block leads to is not led to by anything new.
LEMMA EntriesStay ==
  ASSUME NEW g, NEW h, NEW b, NEW new, Reshapes(g, h, b, new),
         NEW c \in Block(g), NEW p, p # b, Entries(g, c) = {p},
         c # b \/ \A n \in new : b \notin Onward(h, n)
  PROVE  Entries(h, c) = {p}
<1>1. /\ p \in Block(g) /\ p # c /\ c \in Onward(g, p)
      /\ \A d \in Block(g) : d # c /\ c \in Onward(g, d) => d = p
  BY DEF Entries
<1>2. p \in Entries(h, c)
  BY <1>1 DEF Reshapes, Entries
<1>3. ASSUME NEW d \in Entries(h, c)
      PROVE  d = p
  <2>1. d \in Block(g) \cup new /\ d # c /\ c \in Onward(h, d)
    BY <1>3 DEF Reshapes, Entries
  <2>2. CASE d \in Block(g) \ {b}
    BY <1>1, <2>1, <2>2 DEF Reshapes
  <2>3. CASE d \in {b} \cup new
    <3>1. c \in Onward(g, b) /\ b \in Block(g)
      BY <2>1, <2>3 DEF Reshapes
    <3>2. c = b
      BY <1>1, <3>1
    <3>. QED  BY <2>1, <2>3, <3>2
  <2>. QED  BY <2>1, <2>2, <2>3
<1>. QED  BY <1>2, <1>3

\* A row is a row still if the block reshaped is no part of it.
LEMMA RowStays ==
  ASSUME NEW g, NEW h, NEW b, NEW new, Reshapes(g, h, b, new),
         NEW m \in Nat, NEW s, NEW c, Row(g, s, m, c), Avoids(s, m, {b})
  PROVE  Row(h, s, m, c)
<1>1. s \in [0 .. m -> Block(h)] /\ s[m] = c
  <2>1. Block(g) \subseteq Block(h)
    BY DEF Reshapes
  <2>. QED  BY <2>1 DEF Row
<1>2. ASSUME NEW k \in 1 .. m
      PROVE  Entries(h, s[k]) = {s[k - 1]} /\ Labels(h, s[k]) = Labels(h, s[k - 1])
  <2>1. k \in 0 .. m /\ k - 1 \in 0 .. m
    OBVIOUS
  <2>2. s[k] \in Block(g) \ {b} /\ s[k - 1] \in Block(g) \ {b}
    BY <2>1 DEF Row, Avoids
  <2>3. Entries(g, s[k]) = {s[k - 1]} /\ Labels(g, s[k]) = Labels(g, s[k - 1])
    BY Zenon DEF Row
  <2>4. Entries(h, s[k]) = {s[k - 1]}
    BY <2>2, <2>3, EntriesStay
  <2>5. Labels(h, s[k]) = Labels(h, s[k - 1])
    BY <2>2, <2>3 DEF Reshapes
  <2>. QED  BY <2>4, <2>5
<1>. QED  BY <1>1, <1>2, Zenon DEF Row

\* The last iteration of a row may be reshaped.
LEMMA LastReshaped ==
  ASSUME NEW g, NEW h, NEW b, NEW new, Reshapes(g, h, b, new),
         NEW m \in Nat, NEW s, Straight(g, s, m, b),
         Labels(h, b) = Labels(g, b), \A n \in new : b \notin Onward(h, n)
  PROVE  Straight(h, s, m, b)
<1>1. s \in [0 .. m -> Block(h)] /\ s[m] = b
  <2>1. Block(g) \subseteq Block(h)
    BY DEF Reshapes
  <2>. QED  BY <2>1 DEF Straight, Row
<1>2. ASSUME NEW k \in 1 .. m
      PROVE  Entries(h, s[k]) = {s[k - 1]} /\ Labels(h, s[k]) = Labels(h, s[k - 1])
  <2>1. k \in 0 .. m /\ k - 1 \in 0 .. m /\ k - 1 # m
    OBVIOUS
  <2>2. s[k] \in Block(g) /\ s[k - 1] \in Block(g) /\ s[k - 1] # b
    <3>1. s[m] = b /\ s \in [0 .. m -> Block(g)] /\ m \in 0 .. m
      BY DEF Straight, Row
    <3>2. s[k - 1] = s[m] => k - 1 = m
      BY <2>1, <3>1 DEF Straight
    <3>. QED  BY <2>1, <3>1, <3>2
  <2>3. Entries(g, s[k]) = {s[k - 1]} /\ Labels(g, s[k]) = Labels(g, s[k - 1])
    BY Zenon DEF Straight, Row
  <2>4. Entries(h, s[k]) = {s[k - 1]}
    BY <2>2, <2>3, EntriesStay
  <2>5. \A d \in Block(g) : Labels(h, d) = Labels(g, d)
    BY DEF Reshapes
  <2>. QED  BY <2>2, <2>3, <2>4, <2>5
<1>. QED  BY <1>1, <1>2, Zenon DEF Straight, Row

\* A row goes on with a block that only its last one leads to.
LEMMA RowExtended ==
  ASSUME NEW h, NEW m \in Nat, NEW s, NEW b, NEW c \in Block(h), Straight(h, s, m, b),
         Entries(h, c) = {b}, Labels(h, c) = Labels(h, b), Avoids(s, m, {c})
  PROVE  LET t == [k \in 0 .. m + 1 |-> IF k = m + 1 THEN c ELSE s[k]]
         IN  Straight(h, t, m + 1, c) /\ t[m] = b /\ \A k \in 0 .. m : t[k] = s[k]
<1>. DEFINE t == [k \in 0 .. m + 1 |-> IF k = m + 1 THEN c ELSE s[k]]
<1>1. /\ t[m + 1] = c /\ \A k \in 0 .. m : t[k] = s[k]
      /\ \A k \in 0 .. m + 1 : k \in 0 .. m \/ k = m + 1
      /\ m \in 0 .. m
  OBVIOUS
<1>2. s \in [0 .. m -> Block(h)] /\ s[m] = b
  BY DEF Straight, Row
<1>3. t \in [0 .. m + 1 -> Block(h)]
  BY <1>1, <1>2
<1>. HIDE DEF t
<1>4. t[m] = b
  BY <1>1, <1>2
<1>5. ASSUME NEW k \in 1 .. m + 1
      PROVE  Entries(h, t[k]) = {t[k - 1]} /\ Labels(h, t[k]) = Labels(h, t[k - 1])
  <2>1. CASE k \in 1 .. m
    <3>1. t[k] = s[k] /\ t[k - 1] = s[k - 1]
      <4>1. k \in 0 .. m /\ k - 1 \in 0 .. m
        BY <2>1
      <4>. QED  BY <1>1, <4>1
    <3>. QED  BY <2>1, <3>1 DEF Straight, Row
  <2>2. CASE k = m + 1
    <3>1. k - 1 = m
      BY <2>2
    <3>. QED  BY <1>1, <1>4, <2>2, <3>1
  <2>. QED  BY <2>1, <2>2
<1>6. ASSUME NEW j \in 0 .. m + 1, NEW k \in 0 .. m + 1, t[j] = t[k]
      PROVE  j = k
  <2>1. \A i \in 0 .. m : t[i] # c
    BY <1>1 DEF Avoids
  <2>2. \A i, l \in 0 .. m : s[i] = s[l] => i = l
    BY DEF Straight
  <2>. QED  BY <1>1, <1>6, <2>1, <2>2
<1>. QED  BY <1>1, <1>3, <1>4, <1>5, <1>6, Zenon DEF Straight, Row, t
\* What a block is, by its instructions.
LEMMA SameCode ==
  ASSUME NEW g, NEW h, NEW d, h.instrs[d] = g.instrs[d],
         \A i \in ToSet(g.instrs[d]) : /\ i \in Linked(h) <=> i \in Linked(g)
                                       /\ h.edge[i].dst = g.edge[i].dst
                                       /\ h.op[i].at = g.op[i].at
  PROVE  Dests(h, d) = Dests(g, d) /\ Labels(h, d) = Labels(g, d)
<1>1. Dests(h, d) = Dests(g, d)
  BY DEF Dests
<1>2. Labels(h, d) = Labels(g, d)
  BY DEF Labels
<1>. QED  BY <1>1, <1>2

\* Blocks lead to blocks.
LEMMA OnwardBlocks ==
  ASSUME NEW g, LinksOK(g), NEW b \in Block(g)
  PROVE  Onward(g, b) \subseteq Block(g)
<1>1. Dests(g, b) \subseteq Block(g)
  <2>1. ToSet(g.instrs[b]) \subseteq Owned(g)
    BY DEF Owned
  <2>2. \A i \in Owned(g) : i \in Linked(g) => g.edge[i].dst \in Block(g)
    BY DEF LinksOK, TargetsOK
  <2>. QED  BY <2>1, <2>2 DEF Dests
<1>2. g.next[b] # None => g.next[b] \in Block(g)
  BY DEF LinksOK, NextOK
<1>. QED  BY <1>1, <1>2 DEF Onward

-----------------------------------------------------------------------------
(* Copying.                                                                *)

\* A loop followed by its copy, which loops.
Copied(g, h, b, n) ==
  /\ Reshapes(g, h, b, {n}) /\ Labels(h, b) = Labels(g, b) /\ Labels(h, n) = Labels(g, b)
  /\ n \in Onward(h, b) /\ b \notin Onward(h, n) /\ n \notin Block(g)
  /\ b \notin Dests(h, b) /\ n \in Dests(h, n)
  /\ ExitLast(h, b, n) /\ ExitLast(h, n, n)

\* What copyBlock() and the redirection leave alone, and what they make.
CopyMade(g, h, b, n) ==
  LET m == Len(g.op)
      w == g.instrs[b]
      L == Linked(g)
  IN  /\ m \in Nat /\ w \in Seq(Nat) /\ w # <<>> /\ ToSet(w) \subseteq Instrs(g) /\ n \notin Block(g)
      /\ Block(h) = Block(g) \cup {n} /\ b \in Block(g)
      /\ \A d \in Block(g) : h.instrs[d] = g.instrs[d] /\ h.next[d] = g.next[d]
      /\ h.next[n] = None /\ h.instrs[n] = [k \in 1 .. Len(w) |-> m + k]
      /\ \A i \in Instrs(g) : /\ i \in Linked(h) <=> i \in L
                              /\ h.op[i] = g.op[i]
                              /\ i \notin ToSet(w) \/ g.edge[i].dst # b => h.edge[i] = g.edge[i]
      /\ \A i \in ToSet(w) : i \in L /\ g.edge[i].dst = b => h.edge[i].dst = n
      /\ \A k \in 1 .. Len(w) :
           /\ h.op[m + k] = g.op[w[k]]
           /\ m + k \in Linked(h) <=> w[k] \in L
           /\ w[k] \in L => h.edge[m + k].dst = IF g.edge[w[k]].dst = b THEN n ELSE g.edge[w[k]].dst

\* The copy is made from the original and then led to.
LEMMA CopyIsMade ==
  ASSUME NEW g, GraphTypeOK(g), LinksOK(g), EntryOK(g), NEW b, Shape(g, b, b)
  PROVE  LET c == CopyBlock(g, b)
         IN  CopyMade(g, RedirectSelf(c, b, Newest(c)), b, Newest(c))
<1>. DEFINE c == CopyBlock(g, b)
            n == Len(g.instrs) + 1
            m == Len(g.op)
            w == g.instrs[b]
            z == Len(w)
            h == RedirectSelf(c, b, n)
            L == Linked(g)
<1>1. b \in Block(g) /\ g.next[b] = None /\ w # <<>>
  BY DEF Shape
<1>2. /\ b \in Blocks(g) /\ m \in Nat /\ n \in Nat /\ w \in Seq(Nat) /\ Block(g) \subseteq Blocks(g)
      /\ ToSet(w) \subseteq Instrs(g) /\ L \subseteq Instrs(g) /\ Instrs(g) = 1 .. m
      /\ Blocks(g) = 1 .. Len(g.instrs) /\ Len(g.instrs) \in Nat
  <2>1. /\ b \in Blocks(g) /\ m \in Nat /\ Len(g.instrs) \in Nat /\ w \in Seq(Nat)
        /\ Block(g) \subseteq Blocks(g) /\ L \subseteq Instrs(g)
    BY <1>1, TypeFacts
  <2>2. ToSet(w) \subseteq Instrs(g)
    BY <2>1 DEF GraphTypeOK
  <2>. QED  BY <2>1, <2>2 DEF Instrs, Blocks
<1>3. n \notin Blocks(g) /\ n # None /\ n # b /\ n \notin Block(g)
  BY <1>2 DEF None
<1>4. CopiesBlock(g, c, b)
  BY <1>1, CopyBlockFacts
<1>5. LinksOK(c) /\ \A i \in Instrs(g) : i \in Linked(c) <=> i \in L
  BY <1>1, <1>4, CopyLinks
<1>. HIDE DEF c
<1>6. /\ GraphTypeOK(c) /\ Len(c.instrs) = n /\ Block(c) = Block(g) \cup {n} /\ Len(c.op) = m + z
      /\ \A d \in Blocks(g) : c.instrs[d] = g.instrs[d] /\ c.next[d] = g.next[d]
      /\ c.next[n] = None /\ c.instrs[n] = [k \in 1 .. z |-> m + k]
      /\ \A i \in Instrs(g) : c.op[i] = g.op[i] /\ c.edge[i] = g.edge[i]
  BY <1>4 DEF CopiesBlock
<1>7. \A k \in 1 .. z :
        /\ c.op[m + k] = g.op[w[k]]
        /\ c.edge[m + k] = IF HasEdge(g, w[k]) THEN [src |-> n, dst |-> CopiedTarget(b, n, g.edge[w[k]].dst)]
                                               ELSE NoEdge
  BY <1>4, Zenon DEF CopiesBlock
<1>8. Newest(c) = n /\ b \in Block(c) /\ n \in Block(c)
  BY <1>1, <1>6 DEF Newest
<1>9. Redirects(c, h, b, n)
  BY <1>3, <1>5, <1>6, <1>8, RedirectLinks
<1>. HIDE DEF h, n, m, z, L, w
<1>10. /\ Linked(h) = Linked(c) /\ Block(h) = Block(c) /\ h.instrs = c.instrs /\ h.next = c.next /\ h.op = c.op
       /\ \A i \in ToSet(c.instrs[b]) \cap Linked(c) : c.edge[i].dst = b => h.edge[i].dst = n
       /\ \A i \in Instrs(c) : i \notin ToSet(c.instrs[b]) \/ c.edge[i].dst # b => h.edge[i] = c.edge[i]
  BY <1>9 DEF Redirects
<1>11. c.instrs[b] = w /\ Instrs(g) \subseteq Instrs(c)
  <2>1. z \in Nat
    BY <1>2 DEF z
  <2>2. Instrs(g) = 1 .. m /\ Instrs(c) = 1 .. m + z
    BY <1>2, <1>6 DEF Instrs
  <2>. QED  BY <1>2, <1>6, <2>1, <2>2 DEF w
<1>12. \A i \in Instrs(g) : i \notin ToSet(w) \/ g.edge[i].dst # b => h.edge[i] = g.edge[i]
  BY <1>6, <1>10, <1>11
<1>13. \A i \in ToSet(w) : i \in L /\ g.edge[i].dst = b => h.edge[i].dst = n
  BY <1>2, <1>5, <1>6, <1>10, <1>11, Zenon
<1>14. ASSUME NEW k \in 1 .. z
       PROVE  /\ h.op[m + k] = g.op[w[k]]
              /\ m + k \in Linked(h) <=> w[k] \in L
              /\ w[k] \in L => h.edge[m + k].dst = IF g.edge[w[k]].dst = b THEN n ELSE g.edge[w[k]].dst
  <2>1. w[k] \in ToSet(w) /\ w[k] \in Instrs(g) /\ k \in Nat /\ z \in Nat /\ k >= 1 /\ k <= z
    BY <1>2 DEF ToSet, z
  <2>2. m + k \in Instrs(c) /\ m + k \notin ToSet(w)
    BY <1>2, <1>6, <2>1, SMTT(30) DEF Instrs
  <2>3. DOMAIN c.op = Instrs(c) /\ DOMAIN g.op = Instrs(g)
    BY <1>6, TypeFacts
  <2>. DEFINE y == m + k
              x == w[k]
              e == [src |-> n, dst |-> CopiedTarget(b, n, g.edge[x].dst)]
  <2>9. c.edge[y] = IF HasEdge(g, x) THEN e ELSE NoEdge
    BY <1>7
  <2>10. e # NoEdge /\ e.dst = CopiedTarget(b, n, g.edge[x].dst)
    BY <1>3 DEF NoEdge
  <2>. HIDE DEF x, y, e
  <2>4. HasEdge(c, y) <=> HasEdge(g, x)
    <3>1. HasEdge(c, y) <=> c.edge[y] # NoEdge
      BY DEF HasEdge
    <3>. QED  BY <2>9, <2>10, <3>1
  <2>5. m + k \in Linked(c) <=> w[k] \in L
    BY <1>7, <2>1, <2>2, <2>3, <2>4, Zenon DEF Linked, IsBranch, L, x, y
  <2>6. h.edge[m + k] = c.edge[m + k]
    BY <1>10, <1>11, <2>2
  <2>7. w[k] \in L => HasEdge(g, w[k])
    BY DEF Linked, L
  <2>8. w[k] \in L => h.edge[m + k].dst = CopiedTarget(b, n, g.edge[w[k]].dst)
    BY <2>6, <2>7, <2>9, <2>10 DEF x, y
  <2>. QED  BY <1>7, <1>10, <2>5, <2>8, Zenon DEF CopiedTarget
<1>15. /\ Block(h) = Block(g) \cup {n}
       /\ \A d \in Block(g) : h.instrs[d] = g.instrs[d] /\ h.next[d] = g.next[d]
       /\ h.next[n] = None /\ h.instrs[n] = [k \in 1 .. z |-> m + k]
       /\ \A i \in Instrs(g) : (i \in Linked(h) <=> i \in L) /\ h.op[i] = g.op[i]
  BY <1>2, <1>5, <1>6, <1>10
<1>16. CopyMade(g, h, b, n)
  BY <1>1, <1>2, <1>3, <1>12, <1>13, <1>14, <1>15, Zenon DEF CopyMade, m, w, z, L
<1>. QED  BY <1>8, <1>16 DEF c, h
\* Branches to the original become branches to the copy, in both.
LEMMA CopyLeads ==
  ASSUME NEW g, GraphTypeOK(g), LinksOK(g), NEW b, NEW h, NEW n, CopyMade(g, h, b, n),
         Shape(g, b, b), b \in Dests(g, b), ExitLast(g, b, b), b # n
  PROVE  Copied(g, h, b, n)
<1>. DEFINE m == Len(g.op)
            w == g.instrs[b]
            z == Len(w)
            L == Linked(g)
            D == {IF x = b THEN n ELSE x : x \in Dests(g, b)}
<1>1. /\ m \in Nat /\ w \in Seq(Nat) /\ w # <<>> /\ ToSet(w) \subseteq Instrs(g) /\ n \notin Block(g)
      /\ Block(h) = Block(g) \cup {n} /\ b \in Block(g)
      /\ \A d \in Block(g) : h.instrs[d] = g.instrs[d] /\ h.next[d] = g.next[d]
      /\ h.next[n] = None /\ h.instrs[n] = [k \in 1 .. z |-> m + k]
      /\ \A i \in Instrs(g) : /\ i \in Linked(h) <=> i \in L
                              /\ h.op[i] = g.op[i]
                              /\ i \notin ToSet(w) \/ g.edge[i].dst # b => h.edge[i] = g.edge[i]
      /\ \A i \in ToSet(w) : i \in L /\ g.edge[i].dst = b => h.edge[i].dst = n
      /\ \A k \in 1 .. z :
           /\ h.op[m + k] = g.op[w[k]]
           /\ m + k \in Linked(h) <=> w[k] \in L
           /\ w[k] \in L => h.edge[m + k].dst = IF g.edge[w[k]].dst = b THEN n ELSE g.edge[w[k]].dst
  BY Zenon DEF CopyMade
<1>2. z \in Nat /\ z \in 1 .. z /\ ToSet(w) = {w[k] : k \in 1 .. z}
      /\ ToSet(h.instrs[n]) = {m + k : k \in 1 .. z} /\ Last(w) = w[z] /\ Last(h.instrs[n]) = m + z
  <2>. DEFINE v == [k \in 1 .. z |-> m + k]
  <2>1. z \in Nat /\ z \in 1 .. z /\ ToSet(w) = {w[k] : k \in 1 .. z} /\ Last(w) = w[z]
    <3>. HIDE DEF w
    <3>. QED  BY <1>1 DEF ToSet, Last
  <2>2. ToSet(v) = {m + k : k \in 1 .. z} /\ Len(v) = z /\ v[z] = m + z
    <3>1. z \in Nat /\ m \in Nat /\ z \in 1 .. z
      BY <1>1, <2>1
    <3>. HIDE DEF z, m
    <3>2. v \in Seq(Nat) /\ Len(v) = z /\ DOMAIN v = 1 .. z /\ v[z] = m + z
      BY <3>1
    <3>. QED  BY <3>2, Zenon DEF ToSet
  <2>. QED  BY <1>1, <2>1, <2>2, Zenon DEF Last
<1>3. \A d \in Block(g) \ {b} : ToSet(g.instrs[d]) \cap ToSet(w) = {} /\ ToSet(g.instrs[d]) \subseteq Instrs(g)
  <2>1. \A d \in Block(g) \ {b} : ToSet(g.instrs[d]) \cap ToSet(w) = {}
    BY <1>1, Zenon DEF LinksOK, ApartOK
  <2>2. \A d \in Block(g) : ToSet(g.instrs[d]) \subseteq Instrs(g)
    BY DEF GraphTypeOK
  <2>. QED  BY <2>1, <2>2
<1>4. Dests(g, b) = {g.edge[i].dst : i \in ToSet(w) \cap L}
  BY DEF Dests
<1>. HIDE DEF m, w, z, L
<1>5. ASSUME NEW d \in Block(g) \ {b}
      PROVE  Onward(h, d) = Onward(g, d) /\ Dests(h, d) = Dests(g, d) /\ Labels(h, d) = Labels(g, d)
  <2>1. h.instrs[d] = g.instrs[d] /\ h.next[d] = g.next[d]
    BY <1>1
  <2>2. \A i \in ToSet(g.instrs[d]) : /\ i \in Linked(h) <=> i \in Linked(g)
                                      /\ h.edge[i].dst = g.edge[i].dst /\ h.op[i].at = g.op[i].at
    BY <1>1, <1>3 DEF L
  <2>3. Dests(h, d) = Dests(g, d) /\ Labels(h, d) = Labels(g, d)
    BY <2>1, <2>2, SameCode
  <2>. QED  BY <2>1, <2>3 DEF Onward
<1>6. Dests(h, b) = D
  <2>1. Dests(h, b) = {h.edge[i].dst : i \in ToSet(w) \cap L}
    <3>1. ToSet(w) \cap Linked(h) = ToSet(w) \cap L
      BY <1>1
    <3>2. h.instrs[b] = w
      BY <1>1 DEF w
    <3>. QED  BY <3>1, <3>2 DEF Dests
  <2>2. \A i \in ToSet(w) \cap L : h.edge[i].dst = IF g.edge[i].dst = b THEN n ELSE g.edge[i].dst
    BY <1>1
  <2>. QED  BY <1>4, <2>1, <2>2
<1>7. Dests(h, n) = D
  <2>1. ASSUME NEW k \in 1 .. z, m + k \in Linked(h)
        PROVE  h.edge[m + k].dst \in D
    <3>. DEFINE x == g.edge[w[k]].dst
    <3>1. w[k] \in ToSet(w) /\ w[k] \in L
      BY <1>1, <1>2, <2>1
    <3>2. x \in Dests(g, b)
      BY <1>4, <3>1
    <3>3. h.edge[m + k].dst = IF x = b THEN n ELSE x
      BY <1>1, <3>1, Zenon
    <3>. HIDE DEF x
    <3>. QED  BY <3>2, <3>3
  <2>2. ASSUME NEW i \in ToSet(w) \cap L
        PROVE  \E k \in 1 .. z : m + k \in Linked(h) /\ h.edge[m + k].dst = IF g.edge[i].dst = b THEN n ELSE g.edge[i].dst
    <3>1. PICK k \in 1 .. z : i = w[k]
      BY <1>2
    <3>. QED  BY <1>1, <3>1
  <2>3. Dests(h, n) = {h.edge[i].dst : i \in {m + k : k \in 1 .. z} \cap Linked(h)}
    BY <1>2 DEF Dests
  <2>4. Dests(h, n) \subseteq D
    BY <2>1, <2>3
  <2>5. D \subseteq Dests(h, n)
    BY <1>4, <2>2, <2>3
  <2>. QED  BY <2>4, <2>5
<1>8. Labels(h, b) = Labels(g, b) /\ Labels(h, n) = Labels(g, b)
  <2>1. Labels(h, b) = Labels(g, b)
    BY <1>1 DEF Labels, w
  <2>2. {h.op[i].at : i \in ToSet(h.instrs[n])} = {g.op[i].at : i \in ToSet(w)}
    <3>1. \A k \in 1 .. z : h.op[m + k].at = g.op[w[k]].at
      BY <1>1
    <3>. QED  BY <1>2, <3>1
  <2>3. Labels(h, n) = Labels(g, b)
    BY <2>2, Zenon DEF Labels, w
  <2>. QED  BY <2>1, <2>3
<1>9. Dests(g, b) \subseteq Block(g) /\ Onward(g, b) = Dests(g, b)
  BY <1>1, OnwardBlocks DEF Onward, Shape
<1>10. Onward(h, b) = D /\ Onward(h, n) = D
  <2>1. h.next[b] = None /\ h.next[n] = None
    BY <1>1 DEF Shape
  <2>. QED  BY <1>6, <1>7, <2>1 DEF Onward
<1>11. n \in D /\ b \notin D /\ D \cap Block(g) \subseteq Dests(g, b)
  BY <1>1, <1>9
<1>. HIDE DEF D
<1>12. Reshapes(g, h, b, {n})
  BY <1>1, <1>5, <1>9, <1>10, <1>11 DEF Reshapes
<1>13. ExitLast(h, b, n) /\ ExitLast(h, n, n)
  <2>. DEFINE l == w[z]
  <2>1. /\ l \in ToSet(w) /\ l \in Instrs(g) /\ Last(h.instrs[b]) = l /\ h.instrs[b] = w
        /\ Last(h.instrs[n]) = m + z
    BY <1>1, <1>2 DEF w
  <2>2. g.edge[l].dst = b \/ g.op[l].at = None
    BY <1>2 DEF ExitLast, w
  <2>3. h.op[l] = g.op[l] /\ h.op[m + z] = g.op[l]
    BY <1>1, <1>2, <2>1, Zenon
  <2>4. CASE g.op[l].at = None
    BY <2>1, <2>3, <2>4 DEF ExitLast
  <2>5. CASE g.edge[l].dst = b
    <3>1. l \in L
      BY <1>2 DEF Shape, w, L
    <3>2. h.edge[l].dst = n /\ h.edge[m + z].dst = n
      BY <1>1, <1>2, <2>1, <2>5, <3>1, Zenon
    <3>. QED  BY <2>1, <3>2 DEF ExitLast
  <2>. QED  BY <2>2, <2>4, <2>5
<1>. QED  BY <1>1, <1>6, <1>7, <1>8, <1>10, <1>11, <1>12, <1>13 DEF Copied

-----------------------------------------------------------------------------
(* Inverting the exit.                                                     *)

\* The copy follows the original, which leads to nothing it did not lead to.
Placed(g, h, b, c) ==
  /\ Reshapes(g, h, b, {}) /\ Labels(h, b) = Labels(g, b)
  /\ b \notin Dests(h, b) /\ c \in Onward(h, b)
  /\ Dests(h, c) = Dests(g, c) /\ ExitLast(h, c, c)

\* The exit takes the place of the jump that was made for it.
LEMMA InvertedLeads ==
  ASSUME NEW g, GraphTypeOK(g), LinksOK(g), NEW b, NEW c, b # c, Shape(g, b, c), Shape(g, c, c),
         ExitLast(g, b, c), ExitLast(g, c, c), c \in Onward(g, b), b \notin Dests(g, b),
         NEW h, Block(h) = Block(g), ExitInverted(g, h, b, c)
  PROVE  Placed(g, h, b, c)
<1>. DEFINE w == g.instrs[b]
            jmp == w[Len(w)]
            jcc == w[Len(w) - 1]
            L == Linked(g)
<1>1. /\ jcc \in ToSet(w) /\ jmp \in ToSet(w) /\ jcc # jmp /\ g.edge[jmp].dst # c
      /\ h.next[b] = c /\ \A d \in Block(g) : d # b => h.next[d] = g.next[d] /\ h.instrs[d] = g.instrs[d]
      /\ ToSet(h.instrs[b]) = ToSet(w) \ {jcc} /\ Linked(h) = L \ {jcc}
      /\ \A i \in Instrs(g) : i # jcc => h.edge[i] = g.edge[i]
      /\ \A i \in Instrs(g) : i # jmp => h.op[i] = g.op[i]
      /\ h.op[jmp].at = g.op[jcc].at
  BY Zenon DEF ExitInverted
<1>2. /\ b \in Block(g) /\ c \in Block(g) /\ g.instrs[c] # <<>> /\ g.instrs[c] \in Seq(Nat)
      /\ \A d \in Block(g) : ToSet(g.instrs[d]) \subseteq Instrs(g)
      /\ \A d \in Block(g) \ {b} : ToSet(g.instrs[d]) \cap ToSet(w) = {}
      /\ g.op[jmp].at = None
  <2>1. b \in Block(g) /\ c \in Block(g) /\ g.instrs[c] # <<>>
    BY DEF Shape
  <2>2. g.instrs[c] \in Seq(Nat)
    BY <2>1, TypeFacts
  <2>3. \A d \in Block(g) : ToSet(g.instrs[d]) \subseteq Instrs(g)
    BY DEF GraphTypeOK
  <2>4. \A d \in Block(g) \ {b} : ToSet(g.instrs[d]) \cap ToSet(w) = {}
    BY <2>1 DEF LinksOK, ApartOK
  <2>5. g.op[jmp].at = None
    BY <1>1 DEF ExitLast, Last
  <2>. QED  BY <2>1, <2>2, <2>3, <2>4, <2>5
<1>. HIDE DEF w, jmp, jcc, L
<1>3. ASSUME NEW d \in Block(g) \ {b}
      PROVE  Onward(h, d) = Onward(g, d) /\ Dests(h, d) = Dests(g, d) /\ Labels(h, d) = Labels(g, d)
  <2>1. h.instrs[d] = g.instrs[d] /\ h.next[d] = g.next[d]
    BY <1>1
  <2>2. \A i \in ToSet(g.instrs[d]) : i # jmp /\ i # jcc /\ i \in Instrs(g)
    BY <1>1, <1>2
  <2>3. \A i \in ToSet(g.instrs[d]) : /\ i \in Linked(h) <=> i \in Linked(g)
                                      /\ h.edge[i].dst = g.edge[i].dst /\ h.op[i].at = g.op[i].at
    BY <1>1, <2>2 DEF L
  <2>4. Dests(h, d) = Dests(g, d) /\ Labels(h, d) = Labels(g, d)
    BY <2>1, <2>3, SameCode
  <2>. QED  BY <2>1, <2>4 DEF Onward
<1>4. Dests(h, b) \subseteq Dests(g, b)
  <2>1. \A i \in ToSet(h.instrs[b]) \cap Linked(h) : i \in ToSet(w) \cap L /\ h.edge[i] = g.edge[i]
    BY <1>1, <1>2 DEF w
  <2>. QED  BY <2>1 DEF Dests, w, L
<1>5. Labels(h, b) = Labels(g, b)
  <2>1. \A i \in ToSet(w) : i \in Instrs(g)
    BY <1>2 DEF w
  <2>2. \A i \in ToSet(w) \ {jcc} : i # jmp => h.op[i].at = g.op[i].at
    BY <1>1, <2>1
  <2>3. Labels(h, b) \subseteq Labels(g, b)
    BY <1>1, <2>2 DEF Labels, w
  <2>4. Labels(g, b) \subseteq Labels(h, b)
    <3>1. ASSUME NEW i \in ToSet(w), g.op[i].at # None
          PROVE  \E j \in ToSet(h.instrs[b]) : h.op[j].at = g.op[i].at
      BY <1>1, <1>2, <2>2, <3>1
    <3>. QED  BY <3>1 DEF Labels, w
  <2>. QED  BY <2>3, <2>4
<1>6. c \in Onward(h, b) /\ Onward(h, b) \subseteq Onward(g, b)
  <2>1. c # None
    BY <1>2, TypeFacts
  <2>. QED  BY <1>1, <1>4, <2>1 DEF Onward
<1>7. ExitLast(h, c, c)
  <2>. DEFINE v == g.instrs[c]
              l == Last(v)
  <2>1. l \in ToSet(v)
    <3>1. v \in Seq(Nat) /\ v # <<>>
      BY <1>2
    <3>. HIDE DEF v
    <3>. QED  BY <3>1, FrontLast, ZenonT(30)
  <2>2. l \notin ToSet(w) /\ l \in Instrs(g) /\ h.instrs[c] = v
    BY <1>1, <1>2, <2>1
  <2>3. h.edge[l] = g.edge[l] /\ h.op[l] = g.op[l]
    BY <1>1, <2>2
  <2>. QED  BY <2>2, <2>3 DEF ExitLast
<1>8. Reshapes(g, h, b, {})
  BY <1>2, <1>3, <1>6 DEF Reshapes
<1>. QED  BY <1>2, <1>3, <1>4, <1>5, <1>6, <1>7, <1>8 DEF Placed

\* Or the copy is reached by a branch as before.
LEMMA PlaceLeads ==
  ASSUME NEW g, GraphTypeOK(g), LinksOK(g), NEW b, NEW c, b # c, Shape(g, b, c), Shape(g, c, c),
         ExitLast(g, b, c), ExitLast(g, c, c), c \in Onward(g, b), b \notin Dests(g, b),
         InvertExit(g, b, c).status = "ok"
  PROVE  Placed(g, InvertExit(g, b, c), b, c)
<1>. DEFINE h == InvertExit(g, b, c)
<1>1. Block(h) = Block(g) /\ (h = g \/ (Inverts(g, h, b) /\ ExitInverted(g, h, b, c)))
  BY InvertLinks
<1>. HIDE DEF h
<1>2. h = g => Placed(g, h, b, c)
  <2>1. b \in Block(g)
    BY DEF Shape
  <2>. QED  BY <2>1 DEF Placed, Reshapes
<1>3. ExitInverted(g, h, b, c) => Placed(g, h, b, c)
  BY <1>1, InvertedLeads
<1>. QED  BY <1>1, <1>2, <1>3 DEF h

-----------------------------------------------------------------------------
(* Isolating.                                                              *)

\* Blocks that lead where they led, and blocks that do not lead to themselves.
SameDests(g, h, S) == \A d \in S : Dests(h, d) = Dests(g, d)
Loopless(g, S) == \A d \in S : d \notin Dests(g, d)

\* Reshaping a block twice, the second time without new blocks.
LEMMA ReshapedTwice ==
  ASSUME NEW g, NEW c, NEW h, NEW b, NEW new, Reshapes(g, c, b, new), Reshapes(c, h, b, {})
  PROVE  Reshapes(g, h, b, new) /\ SameDests(c, h, new)
<1>1. /\ b \in Block(g) /\ Block(h) = Block(c) /\ Block(c) = Block(g) \cup new /\ Block(g) \cap new = {}
      /\ \A d \in Block(c) \ {b} :
           Onward(h, d) = Onward(c, d) /\ Dests(h, d) = Dests(c, d) /\ Labels(h, d) = Labels(c, d)
      /\ Onward(h, b) \cap Block(c) \subseteq Onward(c, b)
      /\ \A d \in Block(g) \ {b} :
           Onward(c, d) = Onward(g, d) /\ Dests(c, d) = Dests(g, d) /\ Labels(c, d) = Labels(g, d)
      /\ \A d \in {b} \cup new : Onward(c, d) \cap Block(g) \subseteq Onward(g, b)
  BY DEF Reshapes
<1>2. \A d \in new : d \in Block(c) /\ d # b
  BY <1>1
<1>3. \A d \in {b} \cup new : Onward(h, d) \cap Block(g) \subseteq Onward(g, b)
  BY <1>1, <1>2
<1>4. \A d \in Block(g) \ {b} :
        Onward(h, d) = Onward(g, d) /\ Dests(h, d) = Dests(g, d) /\ Labels(h, d) = Labels(g, d)
  BY <1>1
<1>. QED  BY <1>1, <1>2, <1>3, <1>4 DEF Reshapes, SameDests

\* The second part of a block leads where the block led.
LEMMA SplitLeads ==
  ASSUME NEW g, GraphTypeOK(g), LinksOK(g), NEW b \in Block(g), NEW k \in 1 .. Len(g.instrs[b]),
         NEW h, Splits(g, h, b, k)
  PROVE  LET n == Len(g.instrs) + 1
         IN  Reshapes(g, h, b, {n}) /\ n \notin Dests(h, n)
<1>. DEFINE n == Len(g.instrs) + 1
            w == g.instrs[b]
            first == SubSeq(w, 1, k - 1)
            moved == MovedPart(w, k)
<1>1. /\ ToSet(w) = ToSet(first) \cup ToSet(moved)
      /\ n \notin Blocks(g) /\ Linked(h) = Linked(g)
      /\ \A i \in Instrs(g) : h.edge[i].dst = g.edge[i].dst
  <2>1. SplitParted(g, h, b, k)
    BY SplitParts
  <2>. QED  BY <2>1 DEF SplitParted
<1>2. /\ h.op = g.op /\ Block(h) = Block(g) \cup {n} /\ h.instrs[n] = moved /\ h.instrs[b] = first
      /\ \A c \in Blocks(g) : c # b => h.instrs[c] = g.instrs[c]
      /\ h.next[n] = g.next[b] /\ \A c \in Blocks(g) : h.next[c] = IF c = b THEN n ELSE g.next[c]
  BY Zenon DEF Splits
<1>3. /\ Block(g) \subseteq Blocks(g)
      /\ \A d \in Block(g) : ToSet(g.instrs[d]) \subseteq Instrs(g)
  BY Zenon DEF GraphTypeOK
<1>. HIDE DEF n, w, first, moved
<1>4. n \notin Block(g)
  BY <1>1, <1>3
<1>5. ASSUME NEW d \in Block(g) \ {b}
      PROVE  Onward(h, d) = Onward(g, d) /\ Dests(h, d) = Dests(g, d) /\ Labels(h, d) = Labels(g, d)
  <2>1. h.instrs[d] = g.instrs[d] /\ h.next[d] = g.next[d]
    BY <1>2, <1>3
  <2>2. \A i \in ToSet(g.instrs[d]) : /\ i \in Linked(h) <=> i \in Linked(g)
                                      /\ h.edge[i].dst = g.edge[i].dst /\ h.op[i].at = g.op[i].at
    BY <1>1, <1>2, <1>3
  <2>3. Dests(h, d) = Dests(g, d) /\ Labels(h, d) = Labels(g, d)
    BY <2>1, <2>2, SameCode
  <2>. QED  BY <2>1, <2>3 DEF Onward
<1>6. Dests(h, b) \subseteq Dests(g, b) /\ Dests(h, n) \subseteq Dests(g, b)
  <2>1. \A i \in ToSet(w) : h.edge[i].dst = g.edge[i].dst
    BY <1>1, <1>3 DEF w
  <2>2. Dests(g, b) = {g.edge[i].dst : i \in ToSet(w) \cap Linked(g)}
    BY DEF Dests, w
  <2>3. Dests(h, b) = {h.edge[i].dst : i \in ToSet(first) \cap Linked(g)}
    BY <1>1, <1>2 DEF Dests
  <2>4. Dests(h, n) = {h.edge[i].dst : i \in ToSet(moved) \cap Linked(g)}
    BY <1>1, <1>2 DEF Dests
  <2>. QED  BY <1>1, <2>1, <2>2, <2>3, <2>4
<1>7. h.next[b] = n /\ h.next[n] = g.next[b]
  BY <1>2, <1>3
<1>8. Onward(h, b) \cap Block(g) \subseteq Onward(g, b) /\ Onward(h, n) \subseteq Onward(g, b)
  BY <1>4, <1>6, <1>7 DEF Onward
<1>9. n \notin Dests(h, n)
  <2>1. Dests(g, b) \subseteq Block(g)
    BY OnwardBlocks DEF Onward
  <2>. QED  BY <1>4, <1>6, <2>1
<1>10. Reshapes(g, h, b, {n})
  BY <1>2, <1>4, <1>5, <1>8 DEF Reshapes
<1>. QED  BY <1>9, <1>10 DEF n

\* A jump leads where the chain did.
LEMMA UnchainLeads ==
  ASSUME NEW g, GraphTypeOK(g), LinksOK(g), NEW b \in Block(g)
  PROVE  LET h == UnchainNext(g, b)
         IN  /\ Reshapes(g, h, b, {})
             /\ Dests(g, b) \subseteq Dests(h, b)
             /\ \A d : ExitLast(g, b, d) => ExitLast(h, b, d)
<1>. DEFINE h == UnchainNext(g, b)
            j == Len(g.op) + 1
            w == g.instrs[b]
            n == g.next[b]
<1>1. /\ Block(h) = Block(g)
      /\ n = None => h = g
      /\ n # None => w \in Seq(Nat) /\ j \in Nat /\ JumpMade(g, h, b, j)
  BY UnchainNextLinks
<1>2. n = None => Reshapes(g, g, b, {})
  BY DEF Reshapes
<1>. HIDE DEF h, j
<1>3. ASSUME n # None
      PROVE  /\ Reshapes(g, h, b, {}) /\ Dests(g, b) \subseteq Dests(h, b)
             /\ \A d : ExitLast(h, b, d)
  <2>1. /\ Linked(h) = Linked(g) \cup {j} /\ j \notin Instrs(g)
        /\ h.edge[j].dst = n /\ h.op[j].at = None
        /\ h.instrs[b] = Append(w, j) /\ h.next[b] = None
        /\ \A c \in Block(g) : c # b => h.instrs[c] = g.instrs[c] /\ h.next[c] = g.next[c]
        /\ \A i \in Instrs(g) : h.op[i] = g.op[i] /\ h.edge[i] = g.edge[i]
    BY <1>1, <1>3 DEF JumpMade
  <2>2. \A d \in Block(g) : ToSet(g.instrs[d]) \subseteq Instrs(g)
    BY DEF GraphTypeOK
  <2>3. ToSet(h.instrs[b]) = ToSet(w) \cup {j} /\ Last(h.instrs[b]) = j
    <3>1. w \in Seq(Nat) /\ j \in Nat
      BY <1>1, <1>3
    <3>. HIDE DEF w
    <3>2. ToSet(Append(w, j)) = ToSet(w) \cup {j}
      BY <3>1, SetAppend
    <3>3. Last(Append(w, j)) = j
      BY <3>1 DEF Last
    <3>. QED  BY <2>1, <3>2, <3>3
  <2>4. ASSUME NEW d \in Block(g) \ {b}
        PROVE  Onward(h, d) = Onward(g, d) /\ Dests(h, d) = Dests(g, d) /\ Labels(h, d) = Labels(g, d)
    <3>1. h.instrs[d] = g.instrs[d] /\ h.next[d] = g.next[d]
      BY <2>1
    <3>2. \A i \in ToSet(g.instrs[d]) : /\ i \in Linked(h) <=> i \in Linked(g)
                                        /\ h.edge[i].dst = g.edge[i].dst /\ h.op[i].at = g.op[i].at
      BY <2>1, <2>2
    <3>3. Dests(h, d) = Dests(g, d) /\ Labels(h, d) = Labels(g, d)
      BY <3>1, <3>2, SameCode
    <3>. QED  BY <3>1, <3>3 DEF Onward
  <2>5. Dests(h, b) = Dests(g, b) \cup {n}
    <3>1. ToSet(h.instrs[b]) \cap Linked(h) = (ToSet(w) \cap Linked(g)) \cup {j}
      BY <2>1, <2>2, <2>3
    <3>2. \A i \in ToSet(w) : h.edge[i].dst = g.edge[i].dst
      BY <2>1, <2>2
    <3>3. Dests(h, b) = {h.edge[i].dst : i \in (ToSet(w) \cap Linked(g)) \cup {j}}
      BY <3>1 DEF Dests
    <3>4. Dests(g, b) = {g.edge[i].dst : i \in ToSet(w) \cap Linked(g)}
      BY DEF Dests
    <3>. QED  BY <2>1, <3>2, <3>3, <3>4
  <2>6. Onward(h, b) = Onward(g, b)
    BY <1>3, <2>1, <2>5 DEF Onward
  <2>7. Reshapes(g, h, b, {})
    BY <1>1, <2>4, <2>6 DEF Reshapes
  <2>8. \A d : ExitLast(h, b, d)
    BY <2>1, <2>3 DEF ExitLast
  <2>. QED  BY <2>5, <2>7, <2>8
<1>4. n = None => Reshapes(g, h, b, {}) /\ h = g
  BY <1>1, <1>2
<1>. QED  BY <1>3, <1>4 DEF h

\* What is left of a loop loops, and what is cut off does not.
Isolated(g, h, b) ==
  /\ b \in Dests(h, b) /\ ExitLast(h, b, b)
  /\ \E new : Reshapes(g, h, b, new) /\ Loopless(h, new)

\* Cut and unchained.
LEMMA CutLeads ==
  ASSUME NEW g, NEW c, NEW b, NEW i, NEW new, Reshapes(g, c, b, new), Loopless(c, new),
         Cuts(g, c, b, i)
  PROVE  Isolated(g, UnchainNext(c, b), b)
<1>. DEFINE h == UnchainNext(c, b)
            v == c.instrs[b]
<1>1. /\ GraphTypeOK(c) /\ LinksOK(c) /\ b \in Block(c)
      /\ v \in Seq(Nat) /\ v # <<>> /\ Last(v) = i /\ i \in Linked(c) /\ c.edge[i].dst = b
  BY DEF Cuts, Reshapes
<1>2. i \in ToSet(v)
  <2>1. v \in Seq(Nat) /\ v # <<>> /\ Last(v) = i
    BY <1>1
  <2>. HIDE DEF v
  <2>. QED  BY <2>1, FrontLast, ZenonT(30)
<1>3. b \in Dests(c, b) /\ ExitLast(c, b, b)
  BY <1>1, <1>2 DEF Dests, ExitLast
<1>4. /\ Reshapes(c, h, b, {}) /\ Dests(c, b) \subseteq Dests(h, b)
      /\ \A d : ExitLast(c, b, d) => ExitLast(h, b, d)
  BY <1>1, UnchainLeads
<1>. HIDE DEF h
<1>5. Reshapes(g, h, b, new) /\ SameDests(c, h, new)
  <2>1. Reshapes(c, h, b, {})
    BY <1>4
  <2>. QED  BY <2>1, ReshapedTwice, Zenon
<1>6. Loopless(h, new)
  BY <1>5 DEF Loopless, SameDests
<1>. QED  BY <1>3, <1>4, <1>5, <1>6 DEF Isolated, h

\* isolateLoop() leaves a loop of one block.
LEMMA IsolateLeads ==
  ASSUME NEW g, GraphTypeOK(g), LinksOK(g), EntryOK(g), NEW b \in Block(g), Isolate(g, b).status = "ok"
  PROVE  Isolated(g, Isolate(g, b), b)
<1>. DEFINE S == SelfBranches(g, b)
            i == Last(S)
            w == g.instrs[b]
            k == CHOOSE j \in DOMAIN w : w[j] = i
            some == S # <<>>
            c == Check(g, some)
            s == SplitBlock(c, b, k + 1)
            cut == IF i = Last(c.instrs[b]) THEN c ELSE s
<1>1. S # <<>> /\ S \in Seq(Nat) /\ ToSet(S) = {x \in ToSet(w) \cap Linked(g) : g.edge[x].dst = b}
  BY IsolateChecks, SelfFacts
<1>2. i \in ToSet(w) /\ i \in Linked(g) /\ g.edge[i].dst = b
  <2>. HIDE DEF S
  <2>1. i \in ToSet(S)
    BY <1>1, FrontLast, Zenon
  <2>. QED  BY <1>1, <2>1
<1>. HIDE DEF S, i, some
<1>3. /\ GraphTypeOK(c) /\ LinksOK(c) /\ Linked(c) = Linked(g) /\ c.instrs = g.instrs /\ c.next = g.next
      /\ c.edge = g.edge /\ c.blocks = g.blocks /\ c.entryBlock = g.entryBlock /\ c.op = g.op
  <2>1. GraphTypeOK(c) /\ Linked(c) = Linked(g) /\ LinksOK(c)
    BY CheckFacts
  <2>2. /\ c.instrs = g.instrs /\ c.edge = g.edge /\ c.blocks = g.blocks /\ c.entryBlock = g.entryBlock
        /\ c.op = g.op /\ c.next = g.next
    BY CheckFacts
  <2>. QED  BY <2>1, <2>2
<1>. HIDE DEF c
<1>4. /\ Block(c) = Block(g) /\ EntryOK(c) /\ b \in Block(c) /\ Moves(g, c)
      /\ \A d \in Block(g) : Onward(c, d) = Onward(g, d) /\ Dests(c, d) = Dests(g, d) /\ Labels(c, d) = Labels(g, d)
  <2>1. Block(c) = Block(g) /\ EntryOK(c) /\ b \in Block(c) /\ Moves(g, c)
    BY <1>3 DEF Block, EntryOK, Moves, Owned, HasEdge
  <2>2. \A d : Dests(c, d) = Dests(g, d) /\ Labels(c, d) = Labels(g, d)
    BY <1>3 DEF Dests, Labels
  <2>. QED  BY <1>3, <2>1, <2>2 DEF Onward
<1>5. Isolate(g, b) = UnchainNext(cut, b)
  BY <1>3 DEF Isolate, S, i, c, some
<1>6. k \in DOMAIN w /\ w[k] = i /\ w \in Seq(Nat) /\ w # <<>>
  <2>1. w \in Seq(Nat)
    BY TypeFacts
  <2>2. k \in DOMAIN w /\ w[k] = i
    BY <1>2 DEF ToSet
  <2>. QED  BY <2>1, <2>2
<1>. HIDE DEF k
<1>7. i = Last(w) => Cuts(g, c, b, i)
  BY <1>2, <1>3, <1>4, <1>6 DEF Cuts
<1>8. ASSUME i # Last(w)
      PROVE  /\ Cuts(g, s, b, i)
             /\ Reshapes(c, s, b, {Len(g.instrs) + 1}) /\ Len(g.instrs) + 1 \notin Dests(s, Len(g.instrs) + 1)
  <2>1. Cuts(c, s, b, i)
    <3>1. /\ GraphTypeOK(c) /\ LinksOK(c) /\ EntryOK(c) /\ b \in Block(c) /\ i \in ToSet(c.instrs[b])
          /\ i \in Linked(c) /\ c.edge[i].dst = b /\ i # Last(c.instrs[b])
          /\ k \in DOMAIN c.instrs[b] /\ c.instrs[b][k] = i
      BY <1>2, <1>3, <1>4, <1>6, <1>8
    <3>. QED  BY <3>1, CutLoop
  <2>2. k + 1 \in 1 .. Len(c.instrs[b])
    <3>. HIDE DEF w
    <3>1. k \in 1 .. Len(w) /\ Len(w) \in Nat /\ k # Len(w)
      BY <1>6, <1>8 DEF Last
    <3>2. k + 1 \in 1 .. Len(w)
      BY <3>1
    <3>. QED  BY <1>3, <3>2 DEF w
  <2>3. Splits(c, s, b, k + 1)
    <3>1. c.next[b] = None \/ c.next[b] \in Block(c)
      BY <1>3, <1>4 DEF LinksOK, NextOK
    <3>. QED  BY <1>3, <1>4, <2>2, <3>1, SplitBlockFacts
  <2>. DEFINE q == k + 1
  <2>. HIDE DEF s, q
  <2>4. Reshapes(c, s, b, {Len(c.instrs) + 1}) /\ Len(c.instrs) + 1 \notin Dests(s, Len(c.instrs) + 1)
    <3>1. q \in 1 .. Len(c.instrs[b]) /\ Splits(c, s, b, q)
      BY <2>2, <2>3 DEF q
    <3>. QED  BY <1>3, <1>4, <3>1, SplitLeads, Zenon
  <2>5. Cuts(g, s, b, i)
    <3>1. Moves(c, s)
      BY <2>1 DEF Cuts
    <3>2. Moves(g, s)
      BY <1>3, <1>4, <3>1 DEF Moves, Instrs
    <3>. QED  BY <1>4, <2>1, <3>2 DEF Cuts
  <2>. QED  BY <1>3, <2>4, <2>5
<1>. HIDE DEF s
<1>9. i = Last(w) => Reshapes(g, c, b, {})
  BY <1>4 DEF Reshapes
<1>10. i # Last(w) => Reshapes(g, s, b, {Len(g.instrs) + 1})
  BY <1>4, <1>8 DEF Reshapes
<1>11. CASE i = Last(w)
  <2>1. Reshapes(g, c, b, {}) /\ Cuts(g, c, b, i) /\ Loopless(c, {})
    BY <1>7, <1>9, <1>11 DEF Loopless
  <2>2. Isolated(g, UnchainNext(c, b), b)
    BY <2>1, CutLeads, Zenon
  <2>. QED  BY <1>3, <1>5, <1>11, <2>2
<1>12. CASE i # Last(w)
  <2>. DEFINE new == {Len(g.instrs) + 1}
  <2>1. Reshapes(g, s, b, new) /\ Loopless(s, new) /\ Cuts(g, s, b, i)
    BY <1>8, <1>10, <1>12 DEF Loopless
  <2>. HIDE DEF new
  <2>2. Isolated(g, UnchainNext(s, b), b)
    BY <2>1, CutLeads, Zenon
  <2>. QED  BY <1>3, <1>5, <1>12, <2>2
<1>. QED  BY <1>11, <1>12

-----------------------------------------------------------------------------
(* The invariant: loops that are neither waiting nor being copied end a row *)
(* of UnrollCount copies, the one being copied ends the row begun for it.   *)
Finished(g, busy) ==
  \A b \in Block(g) \ busy : b \in Dests(g, b) =>
    \E s \in [0 .. Copies -> Block(g)] : Row(g, s, Copies, b) /\ Avoids(s, Copies, busy)

Begun(g, m, b, busy) ==
  \E s \in [0 .. m -> Block(g)] : Straight(g, s, m, b) /\ Avoids(s, m, busy)

\* A copy follows the original only, with the same code.
CopyFollows(g, b, c) == Entries(g, c) = {b} /\ Labels(g, c) = Labels(g, b)

RowsInv ==
  pc = "unrolling" /\ f.status = "ok" =>
    /\ IsInjective(loops) /\ (loops # <<>> => UnrollCount # 0)
    /\ Finished(f, ToSet(loops) \cup {body, copy})
    /\ body # None =>
         /\ left \in 1 .. Copies /\ body \notin ToSet(loops)
         /\ Begun(f, Copies - left, body, ToSet(loops) \cup {copy})
         /\ ExitLast(f, body, IF copy = None THEN body ELSE copy)
         /\ body \in Dests(f, body) <=> copy = None
    /\ copy # None =>
         /\ copy \notin ToSet(loops) /\ copy \in Dests(f, copy) /\ ExitLast(f, copy, copy)
         /\ CopyFollows(f, body, copy)

\* The loops of a function are the blocks that branch to themselves.
LEMMA SelfDests ==
  ASSUME NEW g, GraphTypeOK(g), LinksOK(g), NEW b \in Block(g)
  PROVE  SelfBranches(g, b) # <<>> <=> b \in Dests(g, b)
<1>. DEFINE S == SelfBranches(g, b)
<1>1. S \in Seq(Nat) /\ ToSet(S) = {i \in ToSet(g.instrs[b]) \cap Linked(g) : g.edge[i].dst = b}
  BY SelfFacts
<1>. HIDE DEF S
<1>2. S = <<>> <=> ToSet(S) = {}
  BY <1>1, SetOfList, SMTT(30)
<1>3. ToSet(S) # {} <=> b \in Dests(g, b)
  BY <1>1 DEF Dests
<1>. QED  BY <1>2, <1>3 DEF S

\* Finished rows are not touched.
LEMMA FinishedStays ==
  ASSUME NEW g, NEW h, NEW b, NEW new, Reshapes(g, h, b, new),
         NEW busy, NEW quit, Finished(g, busy), b \in busy, quit \subseteq busy \cup new \cup {None},
         None \notin Block(g), NEW d \in Block(g), d \notin busy, d \in Dests(h, d)
  PROVE  \E s \in [0 .. Copies -> Block(h)] : Row(h, s, Copies, d) /\ Avoids(s, Copies, quit)
<1>1. d \in Dests(g, d) /\ Block(g) \cap new = {} /\ Block(g) \subseteq Block(h)
  BY DEF Reshapes
<1>2. PICK s \in [0 .. Copies -> Block(g)] : Row(g, s, Copies, d) /\ Avoids(s, Copies, busy)
  BY <1>1 DEF Finished
<1>3. Copies \in Nat
  BY UnrollAssumption DEF Copies
<1>4. Avoids(s, Copies, {b})
  BY <1>2 DEF Avoids
<1>5. Row(h, s, Copies, d)
  BY <1>2, <1>3, <1>4, RowStays
<1>6. Avoids(s, Copies, quit)
  BY <1>1, <1>2 DEF Avoids
<1>. QED  BY <1>1, <1>2, <1>5, <1>6

\* No block is nullptr.
LEMMA NoneNoBlock ==
  ASSUME NEW g, GraphTypeOK(g)
  PROVE  None \notin Block(g)
BY TypeFacts

\* Loops wait until they are isolated.
LEMMA CollectLoopsRows ==
  ASSUME GraphInv, UnrollingInv, CollectLoops
  PROVE  RowsInv'
<1>. DEFINE S == {b \in Block(f) : SelfBranches(f, b) # <<>>}
<1>1. /\ f' = f /\ body' = None /\ copy' = None /\ body = None
      /\ loops' = IF UnrollCount = 0 THEN <<>> ELSE Only(f.blocks, S)
  BY DEF CollectLoops, UnrollingInv
<1>2. GraphTypeOK(f) /\ LinksOK(f) /\ f.blocks \in Seq(Nat) /\ IsInjective(f.blocks)
  BY DEF GraphInv, GraphTypeOK
<1>. DEFINE busy == ToSet(loops') \cup {None}
<1>3. CASE UnrollCount = 0
  <2>1. loops' = <<>> /\ busy = {None} /\ IsInjective(loops')
    BY <1>1, <1>3, SetEmpty DEF IsInjective
  <2>2. ASSUME NEW b \in Block(f)
        PROVE  \E s \in [0 .. Copies -> Block(f)] : Row(f, s, Copies, b) /\ Avoids(s, Copies, busy)
    <3>. DEFINE s == [k \in 0 .. 0 |-> b]
    <3>1. s \in [0 .. 0 -> Block(f)] /\ s[0] = b /\ \A k \in 0 .. 0 : s[k] = b
      OBVIOUS
    <3>. HIDE DEF s
    <3>2. Row(f, s, 0, b) /\ Avoids(s, 0, busy)
      BY <1>2, <2>1, <3>1, NoneNoBlock DEF Row, Avoids
    <3>. QED  BY <1>3, <3>1, <3>2 DEF Copies
  <2>3. Finished(f, busy)
    BY <2>2, Zenon DEF Finished
  <2>. QED  BY <1>1, <2>1, <2>3, Zenon DEF RowsInv
<1>4. CASE UnrollCount # 0
  <2>1. ToSet(loops') = Block(f) \cap S /\ IsInjective(loops')
    <3>1. loops' = Only(f.blocks, S)
      BY <1>1, <1>4
    <3>. HIDE DEF S
    <3>. QED  BY <1>2, <3>1, OnlySet, OnlyInjective DEF Block
  <2>2. \A b \in Block(f) : b \in Dests(f, b) => b \in ToSet(loops')
    BY <1>2, <2>1, SelfDests
  <2>3. Finished(f, busy)
    BY <2>2 DEF Finished
  <2>. QED  BY <1>1, <1>4, <2>1, <2>3, Zenon DEF RowsInv
<1>. QED  BY <1>3, <1>4

\* A loop isolated begins a row.
LEMMA IsolateLoopRows ==
  ASSUME GraphInv, GraphInv', UnrollingInv, RowsInv, IsolateLoop, f.status = "ok", f'.status = "ok"
  PROVE  RowsInv'
<1>. DEFINE b == Head(loops)
            busy == ToSet(loops) \cup {None}
            wait == ToSet(loops')
<1>1. /\ pc = "unrolling" /\ body = None /\ loops # <<>> /\ body' = b /\ loops' = Tail(loops)
      /\ f' = Isolate(f, b) /\ left' = Copies /\ copy' = copy
  BY DEF IsolateLoop
<1>2. copy = None /\ loops \in Seq(Nat) /\ ToSet(loops) \subseteq Block(f)
  BY <1>1, NoCopy DEF UnrollingInv
<1>3. IsInjective(loops) /\ UnrollCount # 0 /\ Finished(f, busy)
  BY <1>1, <1>2, Zenon DEF RowsInv
<1>4. /\ b \in ToSet(loops) /\ ToSet(loops) = {b} \cup wait /\ IsInjective(loops') /\ b \notin wait
  BY <1>1, <1>2, <1>3, HeadTail, Zenon
<1>5. GraphTypeOK(f) /\ LinksOK(f) /\ EntryOK(f) /\ b \in Block(f) /\ None \notin Block(f)
  BY <1>1, <1>2, <1>4, NoneNoBlock DEF GraphInv
<1>6. Isolated(f, f', b)
  BY <1>1, <1>5, IsolateLeads
<1>. HIDE DEF b
<1>7. PICK new : Reshapes(f, f', b, new) /\ Loopless(f', new)
  BY <1>6 DEF Isolated
<1>8. Block(f') = Block(f) \cup new /\ b \in Block(f')
  BY <1>5, <1>7 DEF Reshapes
<1>9. wait \cup {b, None} = busy
  BY <1>4
<1>10. Finished(f', busy)
  <2>1. ASSUME NEW d \in Block(f'), d \notin busy, d \in Dests(f', d)
        PROVE  \E s \in [0 .. Copies -> Block(f')] : Row(f', s, Copies, d) /\ Avoids(s, Copies, busy)
    <3>1. d \in Block(f)
      BY <1>7, <1>8, <2>1 DEF Loopless
    <3>2. b \in busy /\ busy \subseteq busy \cup new \cup {None}
      BY <1>4
    <3>. HIDE DEF busy
    <3>. QED  BY <1>3, <1>5, <1>7, <2>1, <3>1, <3>2, FinishedStays, Zenon
  <2>. QED  BY <2>1, Zenon DEF Finished
<1>11. Begun(f', 0, b, wait \cup {None})
  <2>. DEFINE s == [k \in 0 .. 0 |-> b]
  <2>1. s \in [0 .. 0 -> Block(f')] /\ s[0] = b /\ \A k \in 0 .. 0 : s[k] = b /\ k = 0
    BY <1>8
  <2>. HIDE DEF s
  <2>2. Straight(f', s, 0, b) /\ Avoids(s, 0, wait \cup {None})
    BY <1>4, <1>5, <2>1 DEF Straight, Row, Avoids
  <2>. QED  BY <2>1, <2>2 DEF Begun
<1>12. left' \in 1 .. Copies /\ Copies - left' = 0
  BY <1>1, <1>3, UnrollAssumption DEF Copies
<1>. QED  BY <1>1, <1>2, <1>3, <1>4, <1>6, <1>9, <1>10, <1>11, <1>12, Zenon DEF RowsInv, Isolated

\* Copied, the loop is led to by its original only.
LEMMA CopyLoopRows ==
  ASSUME GraphInv, GraphInv', UnrollingInv, RowsInv, CopyLoop, f.status = "ok", f'.status = "ok"
  PROVE  RowsInv'
<1>. DEFINE b == body
            n == copy'
            wait == ToSet(loops)
            busy == wait \cup {b, None}
            m == Copies - left
<1>1. /\ pc = "unrolling" /\ b # None /\ copy = None /\ body' = b /\ loops' = loops /\ left' = left
      /\ n = Newest(CopyBlock(f, b)) /\ f' = RedirectSelf(CopyBlock(f, b), b, n)
  BY DEF CopyLoop
<1>2. /\ Shape(f, b, b) /\ b \in Block(f) /\ wait \subseteq Block(f)
      /\ GraphTypeOK(f) /\ LinksOK(f) /\ EntryOK(f) /\ None \notin Block(f)
  <2>1. Shape(f, b, b) /\ b \in Block(f) /\ wait \subseteq Block(f)
    BY <1>1 DEF UnrollingInv, Shape
  <2>2. GraphTypeOK(f) /\ LinksOK(f) /\ EntryOK(f)
    BY <1>1 DEF GraphInv
  <2>. QED  BY <2>1, <2>2, NoneNoBlock
<1>3. /\ IsInjective(loops) /\ (loops # <<>> => UnrollCount # 0) /\ Finished(f, busy)
      /\ left \in 1 .. Copies /\ b \notin wait /\ Begun(f, m, b, wait \cup {None})
      /\ ExitLast(f, b, b) /\ b \in Dests(f, b)
  BY <1>1 DEF RowsInv
<1>4. Copied(f, f', b, n) /\ n # None
  <2>1. CopyMade(f, f', b, n)
    BY <1>1, <1>2, CopyIsMade
  <2>2. n # None /\ b # n
    <3>1. Duplicates(f, f', b, n)
      BY <1>1, <1>2, CopyLoopLinks
    <3>. QED  BY <3>1 DEF Duplicates
  <2>. HIDE DEF b, n
  <2>3. Copied(f, f', b, n)
    BY <1>2, <1>3, <2>1, <2>2, CopyLeads
  <2>. QED  BY <2>2, <2>3
<1>. HIDE DEF b, n, wait, m
<1>5. /\ Reshapes(f, f', b, {n}) /\ n \notin Block(f) /\ Block(f') = Block(f) \cup {n}
      /\ Labels(f', b) = Labels(f, b) /\ Labels(f', n) = Labels(f, b)
      /\ n \in Onward(f', b) /\ b \notin Onward(f', n) /\ b \notin Dests(f', b) /\ n \in Dests(f', n)
      /\ ExitLast(f', b, n) /\ ExitLast(f', n, n)
  BY <1>4 DEF Copied, Reshapes
<1>6. Finished(f', wait \cup {b, n})
  <2>. DEFINE quit == wait \cup {b, n}
  <2>1. ASSUME NEW d \in Block(f'), d \notin quit, d \in Dests(f', d)
        PROVE  \E s \in [0 .. Copies -> Block(f')] : Row(f', s, Copies, d) /\ Avoids(s, Copies, quit)
    <3>1. d \in Block(f) /\ d \notin busy
      BY <1>2, <1>5, <2>1
    <3>2. b \in busy /\ quit \subseteq busy \cup {n} \cup {None}
      OBVIOUS
    <3>. HIDE DEF busy, quit
    <3>. QED  BY <1>2, <1>3, <1>5, <2>1, <3>1, <3>2, FinishedStays, Zenon
  <2>. QED  BY <2>1, Zenon DEF Finished
<1>7. m \in Nat
  BY <1>3, UnrollAssumption DEF m, Copies
<1>8. Begun(f', m, b, wait \cup {n})
  <2>1. PICK s \in [0 .. m -> Block(f)] : Straight(f, s, m, b) /\ Avoids(s, m, wait \cup {None})
    BY <1>3 DEF Begun
  <2>2. Straight(f', s, m, b)
    BY <1>5, <1>7, <2>1, LastReshaped
  <2>3. s \in [0 .. m -> Block(f')] /\ Avoids(s, m, wait \cup {n})
    BY <1>5, <2>1 DEF Avoids
  <2>. QED  BY <2>2, <2>3 DEF Begun
<1>9. CopyFollows(f', b, n)
  <2>1. ASSUME NEW d \in Block(f'), d # n, n \in Onward(f', d)
        PROVE  d = b
    <3>1. d \in Block(f)
      BY <1>5, <2>1
    <3>2. Onward(f, d) \subseteq Block(f)
      BY <1>2, <3>1, OnwardBlocks
    <3>3. d # b => Onward(f', d) = Onward(f, d)
      BY <1>5, <3>1 DEF Reshapes
    <3>. QED  BY <1>5, <2>1, <3>2, <3>3
  <2>2. b \in Block(f') /\ b # n
    BY <1>2, <1>5
  <2>3. Entries(f', n) = {b}
    BY <1>5, <2>1, <2>2 DEF Entries
  <2>. QED  BY <1>5, <2>3 DEF CopyFollows
<1>10. n \notin wait
  BY <1>2, <1>5
<1>. QED  BY <1>1, <1>3, <1>4, <1>5, <1>6, <1>8, <1>9, <1>10 DEF RowsInv, b, n, wait, m

\* Placed, the copy ends the row, and may go on with it.
LEMMA PlaceCopyRows ==
  ASSUME GraphInv, GraphInv', UnrollingInv, RowsInv, PlaceCopy, f.status = "ok", f'.status = "ok"
  PROVE  RowsInv'
<1>. DEFINE b == body
            c == copy
            wait == ToSet(loops)
            busy == wait \cup {b, c}
            quit == wait \cup {body', None}
            m == Copies - left
<1>1. /\ pc = "unrolling" /\ c # None /\ copy' = None /\ loops' = loops /\ left' = left - 1
      /\ f' = InvertExit(f, b, c) /\ body' = IF left = 1 THEN None ELSE c
  BY DEF PlaceCopy
<1>2. /\ Shape(f, b, c) /\ Shape(f, c, c) /\ b \in Block(f) /\ c \in Block(f) /\ wait \subseteq Block(f) /\ b # c
      /\ GraphTypeOK(f) /\ LinksOK(f) /\ None \notin Block(f)
  <2>1. /\ Shape(f, b, c) /\ Shape(f, c, c) /\ b # c /\ wait \subseteq Block(f)
    BY <1>1 DEF UnrollingInv
  <2>2. b \in Block(f) /\ c \in Block(f)
    BY <2>1 DEF Shape
  <2>3. GraphTypeOK(f) /\ LinksOK(f)
    BY <1>1 DEF GraphInv
  <2>. QED  BY <2>1, <2>2, <2>3, NoneNoBlock
<1>3. /\ IsInjective(loops) /\ (loops # <<>> => UnrollCount # 0) /\ Finished(f, busy)
      /\ left \in 1 .. Copies /\ b \notin wait /\ Begun(f, m, b, wait \cup {c})
      /\ ExitLast(f, b, c) /\ b \notin Dests(f, b)
      /\ c \notin wait /\ c \in Dests(f, c) /\ ExitLast(f, c, c) /\ CopyFollows(f, b, c)
  <2>1. b # None
    BY <1>2
  <2>. QED  BY <1>1, <2>1 DEF RowsInv
<1>. HIDE DEF b, c, wait, m
<1>4. Placed(f, f', b, c)
  <2>1. c \in Onward(f, b)
    BY <1>3 DEF CopyFollows, Entries
  <2>2. InvertExit(f, b, c).status = "ok"
    BY <1>1
  <2>. QED  BY <1>1, <1>2, <1>3, <2>1, <2>2, PlaceLeads
<1>5. /\ Reshapes(f, f', b, {}) /\ Labels(f', b) = Labels(f, b) /\ Block(f') = Block(f)
      /\ b \notin Dests(f', b) /\ c \in Onward(f', b) /\ c \in Dests(f', c) /\ ExitLast(f', c, c)
  BY <1>3, <1>4 DEF Placed, Reshapes
<1>6. left = 1 => m + 1 = Copies
  BY <1>3, UnrollAssumption DEF m, Copies
<1>7. Copies - (left - 1) = m + 1 /\ m \in Nat
  BY <1>3, UnrollAssumption DEF m, Copies
<1>8. Begun(f', m + 1, c, wait \cup {None})
  <2>1. PICK s \in [0 .. m -> Block(f)] : Straight(f, s, m, b) /\ Avoids(s, m, wait \cup {c})
    BY <1>3 DEF Begun
  <2>2. Straight(f', s, m, b)
    BY <1>5, <1>7, <2>1, LastReshaped
  <2>3. Entries(f', c) = {b} /\ Labels(f', c) = Labels(f', b)
    <3>1. Labels(f', c) = Labels(f, c) /\ \A d \in Block(f) \ {b} : Onward(f', d) = Onward(f, d)
      BY <1>2, <1>5 DEF Reshapes
    <3>2. Entries(f, c) = {b} /\ Labels(f, c) = Labels(f, b)
      BY <1>3 DEF CopyFollows
    <3>3. Entries(f', c) = {b}
      BY <1>2, <1>5, <3>1, <3>2 DEF Entries
    <3>. QED  BY <1>5, <3>1, <3>2, <3>3
  <2>4. Avoids(s, m, {c}) /\ c \in Block(f')
    BY <1>2, <1>5, <2>1 DEF Avoids
  <2>. DEFINE t == [k \in 0 .. m + 1 |-> IF k = m + 1 THEN c ELSE s[k]]
  <2>5. Straight(f', t, m + 1, c)
    BY <1>7, <2>2, <2>3, <2>4, RowExtended
  <2>6. \A k \in 0 .. m + 1 : t[k] = c \/ (k \in 0 .. m /\ t[k] = s[k])
    BY <1>7
  <2>. HIDE DEF t
  <2>7. Avoids(t, m + 1, wait \cup {None})
    BY <1>2, <1>3, <2>1, <2>6 DEF Avoids
  <2>8. t \in [0 .. m + 1 -> Block(f')]
    BY <2>5 DEF Straight, Row
  <2>. QED  BY <2>5, <2>7, <2>8 DEF Begun
<1>9. Finished(f', quit)
  <2>1. ASSUME NEW d \in Block(f'), d \notin quit, d \in Dests(f', d)
        PROVE  \E s \in [0 .. Copies -> Block(f')] : Row(f', s, Copies, d) /\ Avoids(s, Copies, quit)
    <3>1. CASE d \notin busy
      <4>1. b \in busy /\ quit \subseteq busy \cup {} \cup {None} /\ d \in Block(f)
        BY <1>1, <1>5
      <4>. HIDE DEF busy, quit
      <4>. QED  BY <1>2, <1>3, <1>5, <2>1, <3>1, <4>1, FinishedStays, Zenon
    <3>2. CASE d \in busy
      <4>1. d = c /\ left = 1
        BY <1>1, <1>5, <2>1, <3>2
      <4>2. m + 1 = Copies /\ quit = wait \cup {None}
        BY <1>1, <1>6, <4>1
      <4>. HIDE DEF quit
      <4>. QED  BY <1>8, <4>1, <4>2 DEF Begun, Straight
    <3>. QED  BY <3>1, <3>2, Zenon
  <2>. QED  BY <2>1, Zenon DEF Finished
<1>10. left # 1 => left - 1 \in 1 .. Copies
  BY <1>3, UnrollAssumption DEF Copies
<1>. QED  BY <1>1, <1>2, <1>3, <1>5, <1>7, <1>8, <1>9, <1>10 DEF RowsInv, c, wait, m

\* Outside of the unrolling there is nothing to say.
LEMMA RowsStep ==
  ASSUME Inv, Inv', RowsInv, [Next]_vars
  PROVE  RowsInv'
<1>. SUFFICES ASSUME pc' = "unrolling", f'.status = "ok"
              PROVE  RowsInv'
  BY DEF RowsInv
<1>1. CASE UNCHANGED vars
  <2>1. UNCHANGED <<f, pc, loops, body, copy, left>>
    BY <1>1 DEF vars, unrollVars
  <2>. QED  BY <2>1 DEF RowsInv
<1>2. CASE Next
  <2>1. f.status = "ok" /\ GraphInv /\ UnrollingInv /\ GraphInv'
    BY <1>2 DEF Inv, Next
  <2>2. CASE Unroll
    <3>1. CASE CollectLoops
      BY <2>1, <3>1, CollectLoopsRows
    <3>2. CASE IsolateLoop
      BY <2>1, <3>2, IsolateLoopRows
    <3>3. CASE CopyLoop
      BY <2>1, <3>3, CopyLoopRows
    <3>4. CASE PlaceCopy
      BY <2>1, <3>4, PlaceCopyRows
    <3>5. CASE LoopsUnrolled
      BY <3>5 DEF LoopsUnrolled
    <3>. QED  BY <2>2, <3>1, <3>2, <3>3, <3>4, <3>5 DEF Unroll
  <2>3. CASE Decode
    BY <2>3 DEF Decode, DecodeEntry, ResolveBlock, SkipUnknown, BranchToKnown, BranchIntoMiddle,
                BranchToNew, BranchesWired, FunctionDecoded
  <2>4. CASE Eliminate
    BY <2>4 DEF Eliminate, AnalyseLiveness, AnalyseStack, Collect, DeleteInstruction, ConvertBranch,
                DeleteBlock, DeadCodeEliminated
  <2>5. CASE Layout
    BY <2>5 DEF Layout, StartLayout, VisitEmpty, VisitBlock, StartMerging, MergeBlock, LayoutDone
  <2>6. CASE Generate
    BY <2>6 DEF Generate, StartGeneration, PopBlock, SkipVisited, GenerateBlock, FunctionGenerated
  <2>. QED  BY <1>2, <2>2, <2>3, <2>4, <2>5, <2>6 DEF Next
<1>. QED  BY <1>1, <1>2

\* The blocks and the code the property speaks of.
LEMMA SameAsRow ==
  ASSUME GraphInv, NEW c \in Block(f)
  PROVE  Entering(c) = Entries(f, c) /\ Code(c) = Labels(f, c)
<1>1. GraphTypeOK(f) /\ LinksOK(f) /\ c # None
  BY NoneNoBlock DEF GraphInv
<1>2. ASSUME NEW b \in Block(f)
      PROVE  {f.edge[i].dst : i \in ToSet(f.outgoing[b])} = Dests(f, b)
  <2>1. f.outgoing[b] = Only(f.instrs[b], Linked(f)) /\ f.instrs[b] \in Seq(Nat)
    BY <1>1, TypeFacts DEF LinksOK, OutgoingOK
  <2>2. ToSet(f.outgoing[b]) = ToSet(f.instrs[b]) \cap Linked(f)
    BY <2>1, OnlySet
  <2>. QED  BY <2>2 DEF Dests
<1>3. \A b \in Block(f) : (f.next[b] = c \/ \E i \in ToSet(f.outgoing[b]) : f.edge[i].dst = c) <=> c \in Onward(f, b)
  BY <1>1, <1>2 DEF Onward
<1>. QED  BY <1>3 DEF Entering, Entries, Code, Labels

\* However many loops a function has, and whether or not their exits could be
\* inverted: an unrolled loop is entered at its first iteration, each iteration
\* follows only the one before it, and just the last one loops, UnrollCount
\* copies of the same code in a row (SimpleLoopUnrollingPass.hpp).
THEOREM LoopsUnrolledInARow == Spec => []IterationsInARow
<1>1. Init => RowsInv
  BY DEF Init, RowsInv
<1>2. Inv /\ Inv' /\ RowsInv /\ [Next]_vars => RowsInv'
  BY RowsStep
<1>3. Inv /\ RowsInv => IterationsInARow
  <2>. SUFFICES ASSUME Inv, RowsInv, f.status = "ok", pc = "unrolling", body = None, loops = <<>>,
                       NEW b \in Block(f), SelfBranches(f, b) # <<>>
                PROVE  \E s \in [0 .. UnrollCount -> Block(f)] :
                         /\ s[UnrollCount] = b
                         /\ \A k \in 1 .. UnrollCount :
                              Entering(s[k]) = {s[k - 1]} /\ Code(s[k]) = Code(s[k - 1])
    BY Zenon DEF IterationsInARow, Rewritable
  <2>1. GraphInv /\ GraphTypeOK(f) /\ LinksOK(f) /\ copy = None /\ b # None
    BY NoCopy, NoneNoBlock DEF Inv, GraphInv
  <2>2. b \in Dests(f, b)
    BY <2>1, SelfDests
  <2>3. Finished(f, {None})
    BY <2>1, SetEmpty, Zenon DEF RowsInv
  <2>4. PICK s \in [0 .. Copies -> Block(f)] : Row(f, s, Copies, b)
    BY <2>1, <2>2, <2>3 DEF Finished
  <2>5. Copies = UnrollCount /\ UnrollCount \in Nat
    BY UnrollAssumption DEF Copies
  <2>6. ASSUME NEW k \in 1 .. UnrollCount
        PROVE  Entering(s[k]) = {s[k - 1]} /\ Code(s[k]) = Code(s[k - 1])
    <3>1. s[k] \in Block(f) /\ s[k - 1] \in Block(f)
      BY <2>4, <2>5
    <3>2. Entries(f, s[k]) = {s[k - 1]} /\ Labels(f, s[k]) = Labels(f, s[k - 1])
      BY <2>4, <2>5, Zenon DEF Row
    <3>. QED  BY <2>1, <3>1, <3>2, SameAsRow
  <2>. QED  BY <2>4, <2>5, <2>6, Zenon DEF Row
<1>. QED  BY <1>1, <1>2, <1>3, AlwaysInv, PTL DEF Spec
=============================================================================
