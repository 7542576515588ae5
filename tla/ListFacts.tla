------------------------------- MODULE ListFacts -------------------------------
(***************************************************************************)
(* Facts about natural numbers and lists: induction and recursion, stated  *)
(* with sets and functions, so that they say what a recursively defined    *)
(* function is; and what the operators of Lists do, for every sequence:    *)
(* how they go with appending and concatenation, and what they keep.       *)
(***************************************************************************)
EXTENDS Lists, SequenceTheorems, WellFoundedInduction, TLAPS

-----------------------------------------------------------------------------
(* Natural numbers.                                                        *)
NatLess == {p \in Nat \X Nat : p[1] < p[2]}

\* A set of natural numbers has a least element: what a loop of the code
\* that was left early has left behind first (Rewriter.cpp:153).
LEMMA LeastElement ==
  ASSUME NEW T, T \subseteq Nat, T # {}
  PROVE  \E x \in T : \A y \in T : x <= y
<1>1. IsWellFoundedOn(NatLess, Nat)
  <2>1. OpToRel(<, Nat) = NatLess
    BY DEF OpToRel, NatLess
  <2>. QED  BY <2>1, NatLessThanWellFounded, Zenon
<1>2. PICK x \in T : \A y \in T : ~(<<y, x>> \in NatLess)
  BY <1>1, WFMin, Zenon
<1>3. ASSUME NEW y \in T PROVE x <= y
  <2>1. x \in Nat /\ y \in Nat /\ <<y, x>> \in Nat \X Nat
    OBVIOUS
  <2>2. y < x => <<y, x>> \in NatLess
    BY <2>1 DEF NatLess
  <2>. QED  BY <1>2, <2>1, <2>2
<1>. QED  BY <1>3

\* What holds before a loop and is kept by every iteration holds after any
\* number of them.
LEMMA Induction ==
  ASSUME NEW S, 0 \in S, \A n \in Nat : n \in S => n + 1 \in S
  PROVE  Nat \subseteq S
<1>. SUFFICES ASSUME Nat \ S # {} PROVE FALSE
  OBVIOUS
<1>1. PICK x \in Nat \ S : \A y \in Nat \ S : x <= y
  BY LeastElement, Zenon
<1>2. x - 1 \in Nat
  BY <1>1
<1>3. x - 1 \in S
  BY <1>1, <1>2
<1>. QED  BY <1>1, <1>2, <1>3

\* The function that iterates G, beginning with e, exists: a recursive
\* definition of this form means what it says.
LEMMA Iterates ==
  ASSUME NEW X, NEW e \in X, NEW G \in [X -> X]
  PROVE  \E f \in [Nat -> X] : f[0] = e /\ \A n \in Nat : n # 0 => f[n] = G[f[n - 1]]
<1>. DEFINE Upto(g, m) == /\ g \in [0 .. m -> X]
                          /\ g[0] = e
                          /\ \A k \in 1 .. m : g[k] = G[g[k - 1]]
            Have == {m \in Nat : \E g : Upto(g, m)}
<1>1. ASSUME NEW m \in Nat PROVE \E g : Upto(g, m)
  <2>1. 0 \in Have
    <3>1. Upto([k \in 0 .. 0 |-> e], 0)
      OBVIOUS
    <3>. QED  BY <3>1, Zenon
  <2>2. ASSUME NEW n \in Nat, n \in Have PROVE n + 1 \in Have
    <3>1. PICK g : Upto(g, n)
      BY <2>2
    <3>. DEFINE h == [k \in 0 .. n + 1 |-> IF k = n + 1 THEN G[g[n]] ELSE g[k]]
    <3>2. n + 1 \in Nat /\ n \in 0 .. n
      OBVIOUS
    <3>3. h \in [0 .. n + 1 -> X] /\ h[0] = e
      BY <3>1, <3>2
    <3>4. ASSUME NEW k \in 1 .. n + 1 PROVE h[k] = G[h[k - 1]]
      BY <3>1, <3>2
    <3>5. Upto(h, n + 1)
      BY <3>3, <3>4
    <3>6. \E f : Upto(f, n + 1)
      BY <3>5, Zenon
    <3>. QED  BY <3>6, <3>2
  <2>3. Nat \subseteq Have
    <3>. HIDE DEF Have
    <3>. QED  BY <2>1, <2>2, Induction
  <2>. QED  BY <2>3
<1>2. ASSUME NEW k \in Nat, NEW m \in Nat, NEW n \in Nat, k <= m, k <= n,
             NEW g, NEW h, Upto(g, m), Upto(h, n)
      PROVE  g[k] = h[k]
  <2>. DEFINE Same == {j \in Nat : j <= m /\ j <= n => g[j] = h[j]}
  <2>1. 0 \in Same
    BY <1>2
  <2>2. ASSUME NEW j \in Nat, j \in Same PROVE j + 1 \in Same
    <3>1. CASE j + 1 <= m /\ j + 1 <= n
      <4>1. g[j] = h[j] /\ j + 1 \in 1 .. m /\ j + 1 \in 1 .. n /\ (j + 1) - 1 = j
        BY <2>2, <3>1
      <4>2. g[j + 1] = G[g[j]] /\ h[j + 1] = G[h[j]]
        BY <4>1, <1>2
      <4>. QED  BY <4>1, <4>2
    <3>. QED  BY <3>1
  <2>3. Nat \subseteq Same
    <3>. HIDE DEF Same
    <3>. QED  BY <2>1, <2>2, Induction
  <2>. QED  BY <2>3, <1>2
<1>. DEFINE first == [m \in Nat |-> CHOOSE g : Upto(g, m)]
            f     == [m \in Nat |-> first[m][m]]
<1>3. ASSUME NEW m \in Nat PROVE Upto(first[m], m)
  BY <1>1, Zenon
<1>. HIDE DEF first
<1>4. f \in [Nat -> X]
  <2>1. ASSUME NEW m \in Nat PROVE first[m][m] \in X
    <3>1. m \in 0 .. m
      OBVIOUS
    <3>. QED  BY <1>3, <3>1
  <2>. QED  BY <2>1
<1>5. f[0] = e
  BY <1>3
<1>6. ASSUME NEW n \in Nat, n # 0 PROVE f[n] = G[f[n - 1]]
  <2>1. n - 1 \in Nat /\ n \in 1 .. n /\ n - 1 <= n
    BY <1>6
  <2>2. Upto(first[n], n) /\ Upto(first[n - 1], n - 1)
    BY <2>1, <1>3
  <2>3. first[n][n] = G[first[n][n - 1]]
    BY <2>1, <2>2
  <2>4. first[n][n - 1] = first[n - 1][n - 1]
    <3>. HIDE DEF Upto
    <3>. QED  BY <2>1, <2>2, <1>2
  <2>. QED  BY <2>1, <2>3, <2>4
<1>. HIDE DEF f
<1>. QED  BY <1>4, <1>5, <1>6

\* What is iterated from e by G is the recursive function itself.
LEMMA Iteration ==
  ASSUME NEW X, NEW e \in X, NEW G \in [X -> X]
  PROVE  \E f \in [Nat -> X] : f = [n \in Nat |-> IF n = 0 THEN e ELSE G[f[n - 1]]]
<1>1. PICK f \in [Nat -> X] : f[0] = e /\ \A n \in Nat : n # 0 => f[n] = G[f[n - 1]]
  BY Iterates
<1>2. f = [n \in Nat |-> IF n = 0 THEN e ELSE G[f[n - 1]]]
  BY <1>1
<1>. QED  BY <1>2

\* h iterates H, beginning with y.
Iterating(h, y, H) == h[0] = y /\ \A i \in Nat : i # 0 => h[i] = H[h[i - 1]]

\* That function exists, by name.
LEMMA IteratingExists ==
  ASSUME NEW Y, NEW y \in Y, NEW H \in [Y -> Y]
  PROVE  \E h \in [Nat -> Y] : Iterating(h, y, H)
BY Iterates DEF Iterating

\* f is what a loop of n turns computes, beginning with e: turn i makes G[<<i, x>>] of x.
Looping(f, n, e, G) == f[0] = e /\ \A i \in 1 .. n : f[i] = G[<<i, f[i - 1]>>]

\* A loop that computes its values in X comes to be.
LEMMA LoopExists ==
  ASSUME NEW n \in Nat, NEW X, NEW e \in X, NEW G \in [(1 .. n) \X X -> X]
  PROVE  \E f \in [0 .. n -> X] : Looping(f, n, e, G)
<1>. DEFINE Y == Nat \X X
            H == [y \in Y |-> <<y[1] + 1, IF y[1] + 1 \in 1 .. n THEN G[<<y[1] + 1, y[2]>>] ELSE y[2]>>]
            y0 == <<0, e>>
<1>1. y0 \in Y /\ H \in [Y -> Y]
  OBVIOUS
<1>2. \E h \in [Nat -> Y] : Iterating(h, y0, H)
  <2>. HIDE DEF H, Y, y0
  <2>. QED  BY <1>1, IteratingExists, Zenon
<1>3. PICK h \in [Nat -> Y] : h[0] = y0 /\ \A i \in Nat : i # 0 => h[i] = H[h[i - 1]]
  <2>. HIDE DEF H, Y, y0
  <2>. QED  BY <1>2 DEF Iterating
<1>4. ASSUME NEW i \in 1 .. n
      PROVE  /\ h[i - 1] \in Y
             /\ h[i][1] = h[i - 1][1] + 1
             /\ h[i - 1][1] + 1 = i => h[i][2] = G[<<i, h[i - 1][2]>>]
  <2>1. h[i] = H[h[i - 1]] /\ h[i - 1] \in Y
    <3>. HIDE DEF H, Y
    <3>. QED  BY <1>3
  <2>. DEFINE y == h[i - 1]
              z == IF y[1] + 1 \in 1 .. n THEN G[<<y[1] + 1, y[2]>>] ELSE y[2]
  <2>2. h[i] = <<y[1] + 1, z>>
    BY <2>1, Zenon
  <2>3. y[1] + 1 = i => z = G[<<i, y[2]>>]
    BY Zenon
  <2>. HIDE DEF y, z
  <2>4. h[i][1] = y[1] + 1 /\ h[i][2] = z
    BY <2>2
  <2>. QED  BY <2>1, <2>3, <2>4, Zenon DEF y
<1>. DEFINE S == {i \in Nat : i <= n => h[i][1] = i}
<1>5. Nat \subseteq S
  <2>1. 0 \in S
    <3>. HIDE DEF H, Y
    <3>. QED  BY <1>3
  <2>2. ASSUME NEW i \in Nat, i \in S PROVE i + 1 \in S
    <3>. HIDE DEF H, Y
    <3>1. CASE i + 1 <= n
      <4>1. i + 1 \in 1 .. n /\ (i + 1) - 1 = i
        BY <3>1
      <4>2. h[i + 1][1] = h[i][1] + 1
        BY <4>1, <1>4, Zenon
      <4>. QED  BY <2>2, <3>1, <4>2
    <3>. QED  BY <3>1
  <2>. HIDE DEF S
  <2>. QED  BY <2>1, <2>2, Induction, Zenon
<1>. DEFINE f == [i \in 0 .. n |-> h[i][2]]
<1>6. f \in [0 .. n -> X] /\ f[0] = e
  <2>1. \A i \in 0 .. n : h[i] \in Y
    <3>. HIDE DEF H, Y
    <3>. QED  BY <1>3
  <2>2. h[0] = y0
    <3>. HIDE DEF H, Y
    <3>. QED  BY <1>3
  <2>. HIDE DEF H
  <2>. QED  BY <2>1, <2>2
<1>7. ASSUME NEW i \in 1 .. n PROVE f[i] = G[<<i, f[i - 1]>>]
  <2>1. h[i - 1][1] + 1 = i /\ i \in 0 .. n /\ i - 1 \in 0 .. n
    BY <1>5
  <2>. HIDE DEF H, Y
  <2>. QED  BY <2>1, <1>4
<1>8. Looping(f, n, e, G)
  BY <1>6, <1>7, Zenon DEF Looping
<1>. HIDE DEF f
<1>. QED  BY <1>6, <1>8

\* A loop that keeps to X stays in X.
LEMMA LoopStays ==
  ASSUME NEW n \in Nat, NEW X, NEW g, g[0] \in X, \A i \in 1 .. n : g[i - 1] \in X => g[i] \in X
  PROVE  \A i \in 0 .. n : g[i] \in X
<1>. DEFINE S == {i \in Nat : i <= n => g[i] \in X}
<1>1. 0 \in S
  OBVIOUS
<1>2. ASSUME NEW i \in Nat, i \in S PROVE i + 1 \in S
  <2>1. CASE i + 1 <= n
    <3>1. i + 1 \in 1 .. n /\ (i + 1) - 1 = i /\ g[i] \in X
      BY <1>2, <2>1
    <3>. QED  BY <3>1
  <2>. QED  BY <2>1
<1>3. Nat \subseteq S
  <2>. HIDE DEF S
  <2>. QED  BY <1>1, <1>2, Induction
<1>. QED  BY <1>3

\* A loop whose turn i takes X[i - 1] to X[i] comes to be, too.
LEMMA LoopThrough ==
  ASSUME NEW n \in Nat, NEW X, NEW e \in X[0], NEW G, \A i \in 1 .. n : \A x \in X[i - 1] : G[<<i, x>>] \in X[i]
  PROVE  \E f \in [0 .. n -> UNION {X[i] : i \in 0 .. n}] :
            Looping(f, n, e, G) /\ \A i \in 0 .. n : f[i] \in X[i]
<1>. DEFINE Y == UNION {X[i] : i \in 0 .. n}
            H == [y \in (1 .. n) \X Y |-> IF y[2] \in X[y[1] - 1] THEN G[<<y[1], y[2]>>] ELSE y[2]]
<1>1. e \in Y
  OBVIOUS
<1>2. H \in [(1 .. n) \X Y -> Y]
  <2>1. ASSUME NEW i \in 1 .. n, NEW x \in Y PROVE (IF x \in X[i - 1] THEN G[<<i, x>>] ELSE x) \in Y
    OBVIOUS
  <2>. HIDE DEF Y
  <2>. QED  BY <2>1
<1>3. ASSUME NEW i \in 1 .. n, NEW x \in X[i - 1] PROVE H[<<i, x>>] = G[<<i, x>>]
  <2>1. x \in Y
    BY <1>3
  <2>. HIDE DEF Y
  <2>. QED  BY <2>1
<1>. HIDE DEF H, Y
<1>4. PICK f \in [0 .. n -> Y] : Looping(f, n, e, H)
  BY <1>1, <1>2, LoopExists, Zenon
<1>5. f[0] = e /\ \A i \in 1 .. n : f[i] = H[<<i, f[i - 1]>>]
  BY <1>4 DEF Looping
<1>. DEFINE S == {i \in Nat : i <= n => f[i] \in X[i]}
<1>6. 0 \in S
  BY <1>5
<1>7. ASSUME NEW i \in Nat, i \in S PROVE i + 1 \in S
  <2>1. CASE i + 1 <= n
    <3>1. i + 1 \in 1 .. n /\ (i + 1) - 1 = i /\ f[i] \in X[i]
      BY <1>7, <2>1
    <3>2. f[i + 1] = G[<<i + 1, f[i]>>] /\ G[<<i + 1, f[i]>>] \in X[i + 1]
      BY <1>3, <1>5, <3>1
    <3>. QED  BY <3>2
  <2>. QED  BY <2>1
<1>8. Nat \subseteq S
  <2>. HIDE DEF S
  <2>. QED  BY <1>6, <1>7, Induction
<1>9. ASSUME NEW i \in 1 .. n PROVE f[i] = G[<<i, f[i - 1]>>]
  <2>1. i - 1 \in Nat /\ i - 1 <= n
    OBVIOUS
  <2>2. f[i - 1] \in X[i - 1]
    BY <1>8, <2>1
  <2>. QED  BY <1>3, <1>5, <2>2
<1>10. Looping(f, n, e, G)
  BY <1>5, <1>9 DEF Looping
<1>11. \A i \in 0 .. n : f[i] \in X[i]
  <2>. HIDE DEF S
  <2>1. \A i \in 0 .. n : i \in S
    BY <1>8
  <2>. QED  BY <2>1 DEF S
<1>. QED  BY <1>4, <1>10, <1>11, Zenon DEF Y

\* ... and never leaves them.
LEMMA LoopKeeps ==
  ASSUME NEW n \in Nat, NEW X, NEW g, g[0] \in X[0], \A i \in 1 .. n : g[i - 1] \in X[i - 1] => g[i] \in X[i]
  PROVE  \A i \in 0 .. n : g[i] \in X[i]
<1>. DEFINE S == {i \in Nat : i <= n => g[i] \in X[i]}
<1>1. 0 \in S
  OBVIOUS
<1>2. ASSUME NEW i \in Nat, i \in S PROVE i + 1 \in S
  <2>1. CASE i + 1 <= n
    <3>1. i + 1 \in 1 .. n /\ (i + 1) - 1 = i /\ g[i] \in X[i]
      BY <1>2, <2>1
    <3>. QED  BY <3>1
  <2>. QED  BY <2>1
<1>3. Nat \subseteq S
  <2>. HIDE DEF S
  <2>. QED  BY <1>1, <1>2, Induction
<1>. QED  BY <1>3

\* A number from its digits t to the base b, first one first: the loop that
\* adds up.
LEMMA DigitsExist ==
  ASSUME NEW n \in Nat, NEW b \in Int, NEW t \in [1 .. n -> Int]
  PROVE  \E f : f = [k \in 0 .. n |-> IF k = 0 THEN 0 ELSE f[k - 1] * b + t[k]]
<1>. DEFINE Body(f) == [k \in 0 .. n |-> IF k = 0 THEN 0 ELSE f[k - 1] * b + t[k]]
            G == [y \in (1 .. n) \X Int |-> y[2] * b + t[y[1]]]
<1>1. G \in [(1 .. n) \X Int -> Int]
  OBVIOUS
<1>. HIDE DEF G
<1>2. PICK f \in [0 .. n -> Int] : Looping(f, n, 0, G)
  <2>1. 0 \in Int
    OBVIOUS
  <2>. QED  BY <1>1, <2>1, LoopExists, Zenon
<1>3. f[0] = 0 /\ \A k \in 1 .. n : f[k] = f[k - 1] * b + t[k]
  <2>1. f[0] = 0 /\ \A k \in 1 .. n : f[k] = G[<<k, f[k - 1]>>]
    BY <1>2, Zenon DEF Looping
  <2>2. ASSUME NEW k \in 1 .. n PROVE f[k] = f[k - 1] * b + t[k]
    <3>1. f[k - 1] \in Int
      BY <1>2
    <3>2. G[<<k, f[k - 1]>>] = f[k - 1] * b + t[k]
      BY <3>1, Zenon DEF G
    <3>. QED  BY <2>1, <3>2
  <2>. QED  BY <2>1, <2>2
<1>4. f = Body(f)
  BY <1>2, <1>3
<1>. QED  BY <1>4, Zenon

\* The number itself.
LEMMA DigitsType ==
  ASSUME NEW n \in Nat, NEW b \in Int, NEW t \in [1 .. n -> Int], NEW c,
         c = [k \in 0 .. n |-> IF k = 0 THEN 0 ELSE c[k - 1] * b + t[k]]
  PROVE  c[n] \in Int
<1>1. c[0] = 0 /\ \A k \in 1 .. n : c[k] = c[k - 1] * b + t[k]
  OBVIOUS
<1>. DEFINE S == {k \in Nat : k <= n => c[k] \in Int}
<1>2. 0 \in S
  BY <1>1
<1>3. ASSUME NEW k \in Nat, k \in S PROVE k + 1 \in S
  <2>1. CASE k + 1 <= n
    <3>1. k + 1 \in 1 .. n /\ (k + 1) - 1 = k /\ c[k] \in Int
      BY <1>3, <2>1
    <3>2. c[k + 1] = c[k] * b + t[k + 1] /\ t[k + 1] \in Int
      BY <1>1, <3>1, Zenon
    <3>. QED  BY <3>1, <3>2
  <2>. QED  BY <2>1
<1>4. Nat \subseteq S
  <2>. HIDE DEF S
  <2>. QED  BY <1>2, <1>3, Induction
<1>. QED  BY <1>4

-----------------------------------------------------------------------------
(* Lists.                                                                  *)

\* Induction over sequences: lists of the code grow by push_back().
LEMMA ListInduction ==
  ASSUME NEW T, NEW P, <<>> \in P,
         \A s \in Seq(T), e \in T : s \in P => Append(s, e) \in P
  PROVE  Seq(T) \subseteq P
<1>. DEFINE S == {n \in Nat : \A s \in Seq(T) : Len(s) = n => s \in P}
<1>1. 0 \in S
  OBVIOUS
<1>2. ASSUME NEW n \in Nat, n \in S PROVE n + 1 \in S
  <2>. SUFFICES ASSUME NEW s \in Seq(T), Len(s) = n + 1 PROVE s \in P
    OBVIOUS
  <2>. DEFINE t == SubSeq(s, 1, n)
  <2>1. t \in Seq(T) /\ Len(t) = n /\ s[n + 1] \in T
    OBVIOUS
  <2>2. s = Append(t, s[n + 1])
    OBVIOUS
  <2>. HIDE DEF t
  <2>. QED  BY <1>2, <2>1, <2>2, Zenon
<1>3. Nat \subseteq S
  <2>. HIDE DEF S
  <2>. QED  BY <1>1, <1>2, Induction
<1>. QED  BY <1>3

\* The partial results of Only(), up to the first m elements.
PartsUpto(p, s, S, T, m) ==
  /\ p \in [0 .. m -> Seq(T)]
  /\ p[0] = <<>>
  /\ \A n \in 1 .. m : p[n] = IF s[n] \in S THEN Append(p[n - 1], s[n]) ELSE p[n - 1]

PartsOf(p, s, S, T) == PartsUpto(p, s, S, T, Len(s))

\* The recursive function inside Only exists ...
LEMMA PartsExist ==
  ASSUME NEW T, NEW s \in Seq(T), NEW S
  PROVE  \E p : PartsOf(p, s, S, T)
<1>. DEFINE Have == {m \in Nat : m <= Len(s) => \E p : PartsUpto(p, s, S, T, m)}
<1>1. 0 \in Have
  <2>1. PartsUpto([k \in 0 .. 0 |-> <<>>], s, S, T, 0)
    BY DEF PartsUpto
  <2>. QED  BY <2>1
<1>2. ASSUME NEW m \in Nat, m \in Have PROVE m + 1 \in Have
  <2>. SUFFICES ASSUME m + 1 <= Len(s) PROVE \E p : PartsUpto(p, s, S, T, m + 1)
    OBVIOUS
  <2>1. PICK p : PartsUpto(p, s, S, T, m)
    BY <1>2
  <2>. DEFINE e == IF s[m + 1] \in S THEN Append(p[m], s[m + 1]) ELSE p[m]
              q == [k \in 0 .. m + 1 |-> IF k = m + 1 THEN e ELSE p[k]]
  <2>2. m \in 0 .. m /\ 0 \in 0 .. m /\ s[m + 1] \in T /\ p[m] \in Seq(T)
    BY <2>1 DEF PartsUpto
  <2>3. e \in Seq(T)
    BY <2>2
  <2>. HIDE DEF e
  <2>4. q \in [0 .. m + 1 -> Seq(T)] /\ q[0] = <<>>
    BY <2>1, <2>2, <2>3 DEF PartsUpto
  <2>5. ASSUME NEW n \in 1 .. m + 1
        PROVE  q[n] = IF s[n] \in S THEN Append(q[n - 1], s[n]) ELSE q[n - 1]
    <3>1. CASE n = m + 1
      <4>1. q[n] = e /\ q[n - 1] = p[m] /\ n - 1 = m
        BY <3>1
      <4>. QED  BY <3>1, <4>1 DEF e
    <3>2. CASE n # m + 1
      <4>1. n \in 1 .. m /\ q[n] = p[n] /\ q[n - 1] = p[n - 1]
        BY <3>2
      <4>. QED  BY <4>1, <2>1, Zenon DEF PartsUpto
    <3>. QED  BY <3>1, <3>2
  <2>6. PartsUpto(q, s, S, T, m + 1)
    <3>. HIDE DEF q
    <3>. QED  BY <2>4, <2>5 DEF PartsUpto
  <2>. QED  BY <2>6
<1>3. Nat \subseteq Have
  <2>. HIDE DEF Have
  <2>. QED  BY <1>1, <1>2, Induction
<1>. QED  BY <1>3 DEF PartsOf

\* Only() computes them one after the other.
LEMMA OnlyParts ==
  ASSUME NEW T, NEW s \in Seq(T), NEW S
  PROVE  \E p : PartsOf(p, s, S, T) /\ Only(s, S) = p[Len(s)]
<1>. DEFINE D == 0 .. Len(s)
            Body(p) == [n \in D |-> IF n = 0 THEN <<>>
                          ELSE IF s[n] \in S THEN Append(p[n - 1], s[n]) ELSE p[n - 1]]
            part == CHOOSE p : p = Body(p)
<1>1. PICK q : PartsOf(q, s, S, T)
  BY PartsExist, Zenon
<1>2. q = Body(q)
  <2>1. ASSUME NEW n \in D PROVE q[n] = Body(q)[n]
    <3>1. CASE n = 0
      BY <1>1, <3>1 DEF PartsOf, PartsUpto
    <3>2. CASE n # 0
      <4>1. n \in 1 .. Len(s)
        BY <3>2
      <4>. QED  BY <1>1, <3>2, <4>1, Zenon DEF PartsOf, PartsUpto
    <3>. QED  BY <3>1, <3>2
  <2>2. q \in [D -> Seq(T)]
    BY <1>1 DEF PartsOf, PartsUpto
  <2>. HIDE DEF D
  <2>. QED  BY <2>1, <2>2
<1>3. part = Body(part)
  <2>. HIDE DEF Body
  <2>. QED  BY <1>2
<1>. HIDE DEF part
<1>4. part[0] = <<>>
  BY <1>3
<1>5. ASSUME NEW n \in 1 .. Len(s)
      PROVE  part[n] = IF s[n] \in S THEN Append(part[n - 1], s[n]) ELSE part[n - 1]
  <2>1. n \in D /\ n # 0
    OBVIOUS
  <2>. HIDE DEF D
  <2>. QED  BY <1>3, <2>1, Zenon
<1>6. part \in [D -> Seq(T)]
  <2>. DEFINE Q == {n \in Nat : n <= Len(s) => part[n] \in Seq(T)}
  <2>1. 0 \in Q
    <3>1. part[0] \in Seq(T)
      BY <1>4
    <3>. QED  BY <3>1
  <2>2. ASSUME NEW n \in Nat, n \in Q PROVE n + 1 \in Q
    <3>. SUFFICES ASSUME n + 1 <= Len(s) PROVE part[n + 1] \in Seq(T)
      OBVIOUS
    <3>1. n + 1 \in 1 .. Len(s) /\ (n + 1) - 1 = n /\ part[n] \in Seq(T) /\ s[n + 1] \in T
      BY <2>2
    <3>2. part[n + 1] = IF s[n + 1] \in S THEN Append(part[n], s[n + 1]) ELSE part[n]
      BY <1>5, <3>1
    <3>. QED  BY <3>1, <3>2
  <2>3. Nat \subseteq Q
    <3>. HIDE DEF Q
    <3>. QED  BY <2>1, <2>2, Induction
  <2>4. \A n \in D : part[n] \in Seq(T)
    BY <2>3
  <2>. HIDE DEF D
  <2>. QED  BY <1>3, <2>4
<1>7. Only(s, S) = part[Len(s)]
  BY DEF Only, part
<1>8. PartsOf(part, s, S, T)
  BY <1>4, <1>5, <1>6 DEF PartsOf, PartsUpto
<1>. QED  BY <1>7, <1>8

\* The partial results do not depend on what comes later.
LEMMA PartsSame ==
  ASSUME NEW T, NEW s \in Seq(T), NEW S, NEW t \in Seq(T), NEW m \in Nat, NEW p, NEW q,
         PartsUpto(p, s, S, T, m), PartsUpto(q, t, S, T, m), \A k \in 1 .. m : s[k] = t[k]
  PROVE  p[m] = q[m]
<1>. DEFINE Q == {n \in Nat : n <= m => p[n] = q[n]}
<1>1. 0 \in Q
  BY DEF PartsUpto
<1>2. ASSUME NEW n \in Nat, n \in Q PROVE n + 1 \in Q
  <2>. SUFFICES ASSUME n + 1 <= m PROVE p[n + 1] = q[n + 1]
    OBVIOUS
  <2>1. n + 1 \in 1 .. m /\ (n + 1) - 1 = n /\ p[n] = q[n] /\ s[n + 1] = t[n + 1]
    BY <1>2
  <2>. QED  BY <2>1, Zenon DEF PartsUpto
<1>3. Nat \subseteq Q
  <2>. HIDE DEF Q
  <2>. QED  BY <1>1, <1>2, Induction, Zenon
<1>. QED  BY <1>3

\* ... and is the same for a shorter part of the list.
LEMMA PartsShorter ==
  ASSUME NEW T, NEW s \in Seq(T), NEW S, NEW m \in Nat, NEW n \in 0 .. m, NEW p,
         PartsUpto(p, s, S, T, m)
  PROVE  PartsUpto([k \in 0 .. n |-> p[k]], s, S, T, n)
<1>. DEFINE q == [k \in 0 .. n |-> p[k]]
<1>1. q \in [0 .. n -> Seq(T)] /\ q[0] = <<>>
  BY DEF PartsUpto
<1>2. ASSUME NEW k \in 1 .. n
      PROVE  q[k] = IF s[k] \in S THEN Append(q[k - 1], s[k]) ELSE q[k - 1]
  <2>1. k \in 1 .. m /\ q[k] = p[k] /\ q[k - 1] = p[k - 1]
    OBVIOUS
  <2>. QED  BY <2>1, Zenon DEF PartsUpto
<1>. QED  BY <1>1, <1>2, Zenon DEF PartsUpto

\* Nothing is selected from nothing.
LEMMA OnlyEmpty ==
  ASSUME NEW S
  PROVE  Only(<<>>, S) = <<>>
<1>1. PICK p : PartsOf(p, <<>>, S, {}) /\ Only(<<>>, S) = p[Len(<<>>)]
  <2>1. <<>> \in Seq({})
    OBVIOUS
  <2>. QED  BY <2>1, OnlyParts, Zenon
<1>. QED  BY <1>1 DEF PartsOf, PartsUpto

\* What is appended is selected if it is in the set.
LEMMA OnlyAppend ==
  ASSUME NEW T, NEW s \in Seq(T), NEW e \in T, NEW S
  PROVE  /\ Only(s, S) \in Seq(T)
         /\ Only(Append(s, e), S) = IF e \in S THEN Append(Only(s, S), e) ELSE Only(s, S)
<1>. DEFINE t == Append(s, e)
            n == Len(s)
<1>1. t \in Seq(T) /\ Len(t) = n + 1 /\ t[n + 1] = e /\ n \in Nat /\ \A k \in 1 .. n : s[k] = t[k]
  OBVIOUS
<1>. HIDE DEF t, n
<1>2. PICK p : PartsOf(p, s, S, T) /\ Only(s, S) = p[n]
  BY OnlyParts DEF n
<1>3. PICK q : PartsOf(q, t, S, T) /\ Only(t, S) = q[n + 1]
  BY <1>1, OnlyParts
<1>4. PartsUpto(q, t, S, T, n + 1) /\ PartsUpto(p, s, S, T, n)
  BY <1>1, <1>2, <1>3 DEF PartsOf, n
<1>5. p[n] = q[n]
  <2>1. PartsUpto([k \in 0 .. n |-> q[k]], t, S, T, n)
    <3>1. n + 1 \in Nat /\ n \in 0 .. n + 1
      BY <1>1
    <3>. QED  BY <1>1, <1>4, <3>1, PartsShorter
  <2>2. p[n] = [k \in 0 .. n |-> q[k]][n]
    <3>. DEFINE r == [k \in 0 .. n |-> q[k]]
    <3>. HIDE DEF r
    <3>1. PartsUpto(r, t, S, T, n)
      BY <2>1 DEF r
    <3>. QED  BY <1>1, <1>4, <3>1, PartsSame DEF r
  <2>3. n \in 0 .. n
    BY <1>1
  <2>. QED  BY <2>2, <2>3
<1>6. n + 1 \in 1 .. n + 1 /\ (n + 1) - 1 = n /\ n \in 0 .. n
  BY <1>1
<1>7. q[n + 1] = IF e \in S THEN Append(q[n], e) ELSE q[n]
  BY <1>1, <1>4, <1>6, Zenon DEF PartsUpto
<1>8. p[n] \in Seq(T)
  BY <1>4, <1>6 DEF PartsUpto
<1>. QED  BY <1>2, <1>3, <1>5, <1>7, <1>8 DEF t

\* A selection is a list of the same kind.
LEMMA OnlyType ==
  ASSUME NEW T, NEW s \in Seq(T), NEW S
  PROVE  Only(s, S) \in Seq(T)
<1>1. PICK p : PartsOf(p, s, S, T) /\ Only(s, S) = p[Len(s)]
  BY OnlyParts
<1>2. Len(s) \in 0 .. Len(s)
  OBVIOUS
<1>. QED  BY <1>1, <1>2 DEF PartsOf, PartsUpto

-----------------------------------------------------------------------------
\* The elements of a list after push_back(), splice() and the like.
LEMMA SetOfList ==
  ASSUME NEW T, NEW s \in Seq(T), NEW t \in Seq(T), NEW e \in T
  PROVE  /\ ToSet(s) \subseteq T
         /\ ToSet(<<>>) = {}
         /\ ToSet(Append(s, e)) = ToSet(s) \cup {e}
         /\ ToSet(s \o t) = ToSet(s) \cup ToSet(t)
         /\ (s = <<>>) <=> (ToSet(s) = {})
<1>1. ToSet(s) \subseteq T
  BY DEF ToSet
<1>2. ToSet(<<>>) = {}
  BY DEF ToSet
<1>3. ToSet(Append(s, e)) = ToSet(s) \cup {e}
  <2>1. \A k \in 1 .. Len(s) : Append(s, e)[k] = s[k]
    OBVIOUS
  <2>2. Append(s, e)[Len(s) + 1] = e /\ Len(Append(s, e)) = Len(s) + 1
    OBVIOUS
  <2>. QED  BY <2>1, <2>2 DEF ToSet
<1>4. ToSet(s \o t) = ToSet(s) \cup ToSet(t)
  <2>1. ASSUME NEW x \in ToSet(s) PROVE x \in ToSet(s \o t)
    BY <2>1 DEF ToSet
  <2>2. ASSUME NEW x \in ToSet(t) PROVE x \in ToSet(s \o t)
    <3>1. PICK k \in 1 .. Len(t) : x = t[k]
      BY DEF ToSet
    <3>2. Len(s) + k \in 1 .. Len(s \o t) /\ (s \o t)[Len(s) + k] = t[k]
      OBVIOUS
    <3>. QED  BY <3>1, <3>2 DEF ToSet
  <2>3. ASSUME NEW x \in ToSet(s \o t) PROVE x \in ToSet(s) \cup ToSet(t)
    <3>1. PICK k \in 1 .. Len(s \o t) : x = (s \o t)[k]
      BY DEF ToSet
    <3>2. CASE k <= Len(s)
      BY <3>1, <3>2 DEF ToSet
    <3>3. CASE k > Len(s)
      <4>1. k - Len(s) \in 1 .. Len(t) /\ x = t[k - Len(s)]
        BY <3>1, <3>3
      <4>. QED  BY <4>1 DEF ToSet
    <3>. QED  BY <3>2, <3>3
  <2>. QED  BY <2>1, <2>2, <2>3
<1>5. (s = <<>>) <=> (ToSet(s) = {})
  <2>1. ASSUME ToSet(s) = {} PROVE s = <<>>
    <3>1. ~ (1 \in DOMAIN s)
      BY <2>1 DEF ToSet
    <3>2. Len(s) = 0
      BY <3>1
    <3>. QED  BY <3>2
  <2>. QED  BY <1>2, <2>1
<1>. QED  BY <1>1, <1>2, <1>3, <1>4, <1>5

\* push_back() adds one element, ...
LEMMA SetAppend ==
  ASSUME NEW T, NEW s \in Seq(T), NEW e \in T
  PROVE  ToSet(Append(s, e)) = ToSet(s) \cup {e}
BY SetOfList

\* ... concatenation those of both lists, ...
LEMMA SetConcat ==
  ASSUME NEW T, NEW s \in Seq(T), NEW t \in Seq(T)
  PROVE  ToSet(s \o t) = ToSet(s) \cup ToSet(t)
<1>1. CASE T = {}
  <2>1. s = <<>> /\ t = <<>> /\ <<>> \o <<>> = <<>>
    BY <1>1
  <2>. QED  BY <2>1
<1>2. CASE T # {}
  BY <1>2, SetOfList
<1>. QED  BY <1>1, <1>2

\* ... and the empty list has none.
LEMMA SetEmpty == ToSet(<<>>) = {}
BY DEF ToSet

\* A selection has the elements in the set, and those only.
LEMMA OnlySet ==
  ASSUME NEW T, NEW s \in Seq(T), NEW S
  PROVE  ToSet(Only(s, S)) = ToSet(s) \cap S
<1>. DEFINE P == {t \in Seq(T) : ToSet(Only(t, S)) = ToSet(t) \cap S}
<1>1. <<>> \in P
  BY OnlyEmpty DEF ToSet
<1>2. ASSUME NEW t \in Seq(T), NEW e \in T, t \in P PROVE Append(t, e) \in P
  <2>1. Only(t, S) \in Seq(T)
    BY OnlyType
  <2>2. Only(Append(t, e), S) = IF e \in S THEN Append(Only(t, S), e) ELSE Only(t, S)
    BY OnlyAppend
  <2>3. ToSet(Append(t, e)) = ToSet(t) \cup {e}
        /\ ToSet(Append(Only(t, S), e)) = ToSet(Only(t, S)) \cup {e}
    BY <2>1, SetOfList
  <2>4. ToSet(Only(Append(t, e), S)) = ToSet(Append(t, e)) \cap S
    BY <1>2, <2>2, <2>3
  <2>. QED  BY <2>4
<1>3. Seq(T) \subseteq P
  <2>. HIDE DEF P
  <2>. QED  BY <1>1, <1>2, ListInduction
<1>. QED  BY <1>3

\* Which elements are outside the list does not matter.
LEMMA OnlySame ==
  ASSUME NEW T, NEW s \in Seq(T), NEW S, NEW R, ToSet(s) \cap S = ToSet(s) \cap R
  PROVE  Only(s, S) = Only(s, R)
<1>. DEFINE P == {t \in Seq(T) : ToSet(t) \cap S = ToSet(t) \cap R => Only(t, S) = Only(t, R)}
<1>1. <<>> \in P
  BY OnlyEmpty
<1>2. ASSUME NEW t \in Seq(T), NEW e \in T, t \in P PROVE Append(t, e) \in P
  <2>1. Only(Append(t, e), S) = IF e \in S THEN Append(Only(t, S), e) ELSE Only(t, S)
    BY OnlyAppend
  <2>2. Only(Append(t, e), R) = IF e \in R THEN Append(Only(t, R), e) ELSE Only(t, R)
    BY OnlyAppend
  <2>3. ToSet(Append(t, e)) = ToSet(t) \cup {e}
    BY SetOfList
  <2>4. ASSUME ToSet(Append(t, e)) \cap S = ToSet(Append(t, e)) \cap R
        PROVE  Only(Append(t, e), S) = Only(Append(t, e), R)
    BY <1>2, <2>1, <2>2, <2>3, <2>4
  <2>. QED  BY <2>4
<1>3. Seq(T) \subseteq P
  <2>. HIDE DEF P
  <2>. QED  BY <1>1, <1>2, ListInduction
<1>. QED  BY <1>3

\* Selecting everything changes nothing, and nothing leaves nothing.
LEMMA OnlyAll ==
  ASSUME NEW T, NEW s \in Seq(T), NEW S
  PROVE  /\ ToSet(s) \subseteq S => Only(s, S) = s
         /\ ToSet(s) \cap S = {} <=> Only(s, S) = <<>>
<1>. DEFINE P == {t \in Seq(T) : ToSet(t) \subseteq S => Only(t, S) = t}
<1>1. <<>> \in P
  BY OnlyEmpty
<1>2. ASSUME NEW t \in Seq(T), NEW e \in T, t \in P PROVE Append(t, e) \in P
  <2>1. Only(Append(t, e), S) = IF e \in S THEN Append(Only(t, S), e) ELSE Only(t, S)
    BY OnlyAppend
  <2>2. ToSet(Append(t, e)) = ToSet(t) \cup {e}
    BY SetOfList
  <2>3. ASSUME ToSet(Append(t, e)) \subseteq S
        PROVE  Only(Append(t, e), S) = Append(t, e)
    BY <1>2, <2>1, <2>2, <2>3
  <2>. QED  BY <2>3
<1>3. Seq(T) \subseteq P
  <2>. HIDE DEF P
  <2>. QED  BY <1>1, <1>2, ListInduction
<1>4. ToSet(s) \cap S = {} <=> Only(s, S) = <<>>
  <2>1. ToSet(Only(s, S)) = ToSet(s) \cap S /\ Only(s, S) \in Seq(T)
    BY OnlySet, OnlyType
  <2>2. CASE T = {}
    <3>1. s = <<>>
      BY <2>2
    <3>. QED  BY <2>1, <3>1, OnlyEmpty DEF ToSet
  <2>3. CASE T # {}
    <3>1. PICK e \in T : TRUE
      BY <2>3
    <3>2. (Only(s, S) = <<>>) <=> (ToSet(Only(s, S)) = {})
      BY <2>1, <3>1, SetOfList
    <3>. QED  BY <2>1, <3>2
  <2>. QED  BY <2>2, <2>3
<1>. QED  BY <1>3, <1>4

\* Two lists spliced together: their selections are, too.
LEMMA OnlyConcat ==
  ASSUME NEW T, NEW s \in Seq(T), NEW t \in Seq(T), NEW S
  PROVE  Only(s \o t, S) = Only(s, S) \o Only(t, S)
<1>. DEFINE P == {u \in Seq(T) : Only(s \o u, S) = Only(s, S) \o Only(u, S)}
<1>1. <<>> \in P
  <2>1. s \o <<>> = s /\ Only(s, S) \in Seq(T)
    BY OnlyType
  <2>2. Only(s, S) \o <<>> = Only(s, S)
    BY <2>1
  <2>3. Only(s \o <<>>, S) = Only(s, S) \o Only(<<>>, S)
    BY <2>1, <2>2, OnlyEmpty
  <2>. QED  BY <2>3
<1>2. ASSUME NEW u \in Seq(T), NEW e \in T, u \in P PROVE Append(u, e) \in P
  <2>1. s \o Append(u, e) = Append(s \o u, e) /\ s \o u \in Seq(T)
    OBVIOUS
  <2>2. Only(Append(s \o u, e), S)
          = IF e \in S THEN Append(Only(s \o u, S), e) ELSE Only(s \o u, S)
    <3>. DEFINE w == s \o u
    <3>1. w \in Seq(T)
      BY <2>1
    <3>. HIDE DEF w
    <3>2. Only(Append(w, e), S) = IF e \in S THEN Append(Only(w, S), e) ELSE Only(w, S)
      <4>. HIDE DEF P
      <4>1. e \in T
        OBVIOUS
      <4>. QED  BY <3>1, <4>1, OnlyAppend, SMTT(30)
    <3>. QED  BY <3>2 DEF w
  <2>3. Only(Append(u, e), S) = IF e \in S THEN Append(Only(u, S), e) ELSE Only(u, S)
    BY OnlyAppend, SMTT(30)
  <2>. DEFINE a == Only(s, S)
              b == Only(u, S)
  <2>4. a \in Seq(T) /\ b \in Seq(T)
    BY OnlyType
  <2>5. Only(s \o u, S) = a \o b
    BY <1>2
  <2>. HIDE DEF a, b
  <2>6. a \o Append(b, e) = Append(a \o b, e)
    BY <2>4
  <2>7. Only(s \o Append(u, e), S) = a \o Only(Append(u, e), S)
    <3>1. CASE e \in S
      BY <2>1, <2>2, <2>3, <2>5, <2>6, <3>1, Zenon DEF b
    <3>2. CASE e \notin S
      BY <2>1, <2>2, <2>3, <2>5, <3>2 DEF b
    <3>. QED  BY <3>1, <3>2
  <2>. QED  BY <2>7 DEF a
<1>3. Seq(T) \subseteq P
  <2>. HIDE DEF P
  <2>. QED  BY <1>1, <1>2, ListInduction
<1>. QED  BY <1>3

\* Selecting twice selects what is in both sets.
LEMMA OnlyOnly ==
  ASSUME NEW T, NEW s \in Seq(T), NEW S, NEW R
  PROVE  Only(Only(s, S), R) = Only(s, S \cap R)
<1>. DEFINE P == {t \in Seq(T) : Only(Only(t, S), R) = Only(t, S \cap R)}
<1>1. <<>> \in P
  BY OnlyEmpty
<1>2. ASSUME NEW t \in Seq(T), NEW e \in T, t \in P PROVE Append(t, e) \in P
  <2>. DEFINE u == Only(t, S)
  <2>1. u \in Seq(T)
    BY OnlyType
  <2>2. Only(Append(t, e), S) = IF e \in S THEN Append(u, e) ELSE u
    BY OnlyAppend
  <2>3. Only(Append(t, e), S \cap R) = IF e \in S \cap R THEN Append(Only(t, S \cap R), e)
                                                       ELSE Only(t, S \cap R)
    <3>. DEFINE Q == S \cap R
    <3>. HIDE DEF Q
    <3>1. Only(Append(t, e), Q) = IF e \in Q THEN Append(Only(t, Q), e) ELSE Only(t, Q)
      BY OnlyAppend
    <3>. QED  BY <3>1 DEF Q
  <2>4. Only(u, R) = Only(t, S \cap R)
    BY <1>2
  <2>. HIDE DEF u
  <2>5. Only(Append(u, e), R) = IF e \in R THEN Append(Only(u, R), e) ELSE Only(u, R)
    BY <2>1, OnlyAppend, SMTT(30)
  <2>6. Only(Only(Append(t, e), S), R) = Only(Append(t, e), S \cap R)
    <3>. DEFINE w == Only(t, S \cap R)
                Q == S \cap R
    <3>0. /\ Only(u, R) = w
          /\ Only(Append(t, e), Q) = IF e \in Q THEN Append(w, e) ELSE w
          /\ e \in Q <=> e \in S /\ e \in R
      BY <2>3, <2>4
    <3>. HIDE DEF w, Q
    <3>1. CASE e \in S
      <4>1. Only(Only(Append(t, e), S), R) = IF e \in R THEN Append(w, e) ELSE w
        BY <2>2, <2>5, <3>0, <3>1
      <4>2. Only(Only(Append(t, e), S), R) = Only(Append(t, e), Q)
        BY <3>0, <3>1, <4>1
      <4>. QED  BY <4>2 DEF Q
    <3>2. CASE e \notin S
      <4>1. Only(Only(Append(t, e), S), R) = Only(Append(t, e), Q)
        BY <2>2, <3>0, <3>2
      <4>. QED  BY <4>1 DEF Q
    <3>. QED  BY <3>1, <3>2
  <2>. QED  BY <2>6
<1>3. Seq(T) \subseteq P
  <2>. HIDE DEF P
  <2>. QED  BY <1>1, <1>2, ListInduction
<1>. QED  BY <1>3, Zenon

\* push_back() after splice().
LEMMA AppendConcat ==
  ASSUME NEW T, NEW s \in Seq(T), NEW t \in Seq(T), NEW e \in T
  PROVE  Append(s \o t, e) = s \o Append(t, e)
OBVIOUS

\* h is in s, behind u and in front of v.
Parted(s, u, h, v) == s = (u \o <<h>>) \o v

\* A list with an element in S has a first one.
LEMMA FirstOf ==
  ASSUME NEW T, NEW S, NEW s \in Seq(T), ToSet(s) \cap S # {}
  PROVE  \E u, v \in Seq(T), h \in T : Parted(s, u, h, v) /\ ToSet(u) \cap S = {} /\ h \in S
<1>. DEFINE K == {k \in Nat : k \in 1 .. Len(s) /\ s[k] \in S}
<1>1. K # {} /\ K \subseteq Nat
  BY DEF ToSet
<1>2. PICK k \in K : \A j \in K : k <= j
  <2>. HIDE DEF K
  <2>. QED  BY <1>1, LeastElement, Zenon
<1>. DEFINE u == SubSeq(s, 1, k - 1)
            v == SubSeq(s, k + 1, Len(s))
<1>3. u \in Seq(T) /\ v \in Seq(T) /\ s[k] \in T /\ s[k] \in S
  OBVIOUS
<1>4. ToSet(u) \cap S = {}
  <2>1. ASSUME NEW j \in 1 .. k - 1 PROVE u[j] = s[j] /\ s[j] \notin S
    <3>1. j \in 1 .. Len(s) /\ j \notin K
      BY <1>2
    <3>. QED  BY <3>1
  <2>2. DOMAIN u = 1 .. k - 1
    OBVIOUS
  <2>. HIDE DEF u
  <2>. QED  BY <2>1, <2>2 DEF ToSet
<1>5. Parted(s, u, s[k], v)
  <2>. DEFINE a == u \o <<s[k]>>
  <2>1. Len(u) = k - 1 /\ Len(v) = Len(s) - k /\ k \in 1 .. Len(s)
    OBVIOUS
  <2>2. \A j \in 1 .. k - 1 : u[j] = s[j]
    OBVIOUS
  <2>3. \A j \in 1 .. Len(s) - k : v[j] = s[j + k]
    OBVIOUS
  <2>. HIDE DEF u, v
  <2>4. a \in Seq(T) /\ Len(a) = k /\ a[k] = s[k] /\ \A j \in 1 .. k - 1 : a[j] = s[j]
    BY <1>3, <2>1, <2>2
  <2>. HIDE DEF a
  <2>. DEFINE w == a \o v
  <2>5. w \in Seq(T) /\ Len(w) = Len(s)
    BY <1>3, <2>1, <2>4, SMTT(30)
  <2>6. ASSUME NEW j \in 1 .. Len(s) PROVE w[j] = s[j]
    <3>1. CASE j <= k
      <4>1. w[j] = a[j]
        BY <1>3, <2>4, <3>1
      <4>. QED  BY <2>4, <3>1, <4>1
    <3>2. CASE j > k
      <4>1. w[j] = v[j - k] /\ j - k \in 1 .. Len(s) - k /\ (j - k) + k = j
        BY <1>3, <2>1, <2>4, <3>2
      <4>. QED  BY <2>3, <4>1, Zenon
    <3>3. j \in Int /\ k \in Int
      BY <2>1
    <3>. HIDE DEF w
    <3>. QED  BY <3>1, <3>2, <3>3
  <2>. HIDE DEF w
  <2>7. w = s
    BY <2>5, <2>6
  <2>. QED  BY <2>7, Zenon DEF w, a, Parted
<1>. HIDE DEF u, v
<1>. QED  BY <1>3, <1>4, <1>5

\* The first element selected, what precedes and what follows it.
LEMMA OnlyHead ==
  ASSUME NEW T, NEW s \in Seq(T), NEW S, Only(s, S) # <<>>
  PROVE  \E u, v \in Seq(T), h \in T :
           /\ Parted(s, u, h, v)
           /\ ToSet(u) \cap S = {} /\ h \in S
           /\ Only(s, S) = <<h>> \o Only(v, S)
<1>1. ToSet(s) \cap S # {}
  BY OnlyAll
<1>2. PICK u \in Seq(T), v \in Seq(T), h \in T :
        Parted(s, u, h, v) /\ ToSet(u) \cap S = {} /\ h \in S
  BY <1>1, FirstOf
<1>3. Only(s, S) = <<h>> \o Only(v, S)
  <2>1. <<h>> \in Seq(T) /\ u \o <<h>> \in Seq(T)
    OBVIOUS
  <2>. DEFINE w == u \o <<h>>
              l == <<h>>
  <2>2. w \in Seq(T) /\ l \in Seq(T)
    BY <2>1
  <2>3. Only(s, S) = Only(w, S) \o Only(v, S)
    <3>1. s = w \o v
      BY <1>2 DEF Parted
    <3>. HIDE DEF w
    <3>2. Only(w \o v, S) = Only(w, S) \o Only(v, S)
      BY <2>2, OnlyConcat, SMTT(30)
    <3>. QED  BY <3>1, <3>2
  <2>4. Only(l, S) = l
    <3>1. ToSet(<<h>>) \subseteq S
      BY <1>2 DEF ToSet
    <3>. QED  BY <2>1, <3>1, OnlyAll, Zenon
  <2>5. Only(w, S) = Only(u, S) \o Only(l, S)
    <3>1. w = u \o l
      OBVIOUS
    <3>. HIDE DEF w, l
    <3>2. u \in Seq(T) /\ l \in Seq(T)
      BY <2>2
    <3>3. Only(u \o l, S) = Only(u, S) \o Only(l, S)
      BY <3>2, OnlyConcat, SMTT(30)
    <3>. QED  BY <3>1, <3>3
  <2>. HIDE DEF l, w
  <2>6. Only(u, S) = <<>>
    BY <1>2, OnlyAll
  <2>7. <<>> \o l = l
    BY <2>2
  <2>. QED  BY <2>3, <2>4, <2>5, <2>6, <2>7, Zenon DEF l
<1>. QED  BY <1>2, <1>3, Zenon

\* A list without duplicates, and what is appended to it.
LEMMA InjectiveAppend ==
  ASSUME NEW T, NEW s \in Seq(T), NEW e \in T
  PROVE  IsInjective(Append(s, e)) <=> IsInjective(s) /\ e \notin ToSet(s)
<1>. DEFINE a == Append(s, e)
<1>1. /\ a \in Seq(T) /\ Len(a) = Len(s) + 1 /\ a[Len(s) + 1] = e
      /\ \A k \in 1 .. Len(s) : a[k] = s[k]
      /\ Len(s) \in Nat
  OBVIOUS
<1>. HIDE DEF a
<1>2. ASSUME IsInjective(a) PROVE IsInjective(s) /\ e \notin ToSet(s)
  BY <1>1, <1>2 DEF IsInjective, ToSet
<1>3. ASSUME IsInjective(s), e \notin ToSet(s) PROVE IsInjective(a)
  <2>. SUFFICES ASSUME NEW j \in 1 .. Len(s) + 1, NEW k \in 1 .. Len(s) + 1, a[j] = a[k]
                PROVE  j = k
    BY <1>1 DEF IsInjective
  <2>1. CASE j \in 1 .. Len(s) /\ k \in 1 .. Len(s)
    BY <1>1, <1>3, <2>1 DEF IsInjective
  <2>2. CASE j = Len(s) + 1 /\ k \in 1 .. Len(s)
    BY <1>1, <1>3, <2>2 DEF ToSet
  <2>3. CASE k = Len(s) + 1 /\ j \in 1 .. Len(s)
    BY <1>1, <1>3, <2>3 DEF ToSet
  <2>. QED  BY <1>1, <2>1, <2>2, <2>3
<1>. QED  BY <1>2, <1>3 DEF a

\* A selection has no duplicates if the list has none.
LEMMA OnlyInjective ==
  ASSUME NEW T, NEW s \in Seq(T), NEW S, IsInjective(s)
  PROVE  IsInjective(Only(s, S))
<1>. DEFINE P == {t \in Seq(T) : IsInjective(t) => IsInjective(Only(t, S))}
<1>1. <<>> \in P
  BY OnlyEmpty
<1>2. ASSUME NEW t \in Seq(T), NEW e \in T, t \in P PROVE Append(t, e) \in P
  <2>1. Only(Append(t, e), S) = IF e \in S THEN Append(Only(t, S), e) ELSE Only(t, S)
    BY OnlyAppend
  <2>2. Only(t, S) \in Seq(T) /\ ToSet(Only(t, S)) \subseteq ToSet(t)
    BY OnlyType, OnlySet
  <2>3. IsInjective(Append(t, e)) <=> IsInjective(t) /\ e \notin ToSet(t)
    BY InjectiveAppend
  <2>4. IsInjective(Append(Only(t, S), e)) <=> IsInjective(Only(t, S)) /\ e \notin ToSet(Only(t, S))
    BY <2>2, InjectiveAppend
  <2>5. IsInjective(Append(t, e)) => IsInjective(Only(Append(t, e), S))
    BY <1>2, <2>1, <2>2, <2>3, <2>4
  <2>. QED  BY <2>5
<1>3. Seq(T) \subseteq P
  <2>. HIDE DEF P
  <2>. QED  BY <1>1, <1>2, ListInduction
<1>. QED  BY <1>3

\* Two lists spliced together have no duplicates if neither has, and no
\* element is in both.
LEMMA InjectiveConcat ==
  ASSUME NEW T, NEW s \in Seq(T), NEW t \in Seq(T)
  PROVE  IsInjective(s \o t) <=>
           IsInjective(s) /\ IsInjective(t) /\ ToSet(s) \cap ToSet(t) = {}
<1>. DEFINE m == Len(s)
            n == Len(t)
            c == s \o t
<1>1. m \in Nat /\ n \in Nat /\ Len(c) = m + n /\ DOMAIN c = 1 .. m + n
      /\ DOMAIN s = 1 .. m /\ DOMAIN t = 1 .. n
  OBVIOUS
<1>2. \A k \in 1 .. m : c[k] = s[k]
  OBVIOUS
<1>3. \A k \in 1 .. n : c[m + k] = t[k]
  OBVIOUS
<1>. HIDE DEF m, n, c
<1>4. ASSUME IsInjective(c)
      PROVE  IsInjective(s) /\ IsInjective(t) /\ ToSet(s) \cap ToSet(t) = {}
  <2>1. IsInjective(s)
    BY <1>1, <1>2, <1>4 DEF IsInjective
  <2>2. IsInjective(t)
    <3>. SUFFICES ASSUME NEW j \in 1 .. n, NEW k \in 1 .. n, t[j] = t[k] PROVE j = k
      BY <1>1 DEF IsInjective
    <3>1. m + j \in 1 .. m + n /\ m + k \in 1 .. m + n /\ c[m + j] = c[m + k]
      BY <1>1, <1>3
    <3>2. m + j = m + k
      BY <1>1, <1>4, <3>1, Zenon DEF IsInjective
    <3>. QED  BY <1>1, <3>2
  <2>3. ASSUME NEW j \in 1 .. m, NEW k \in 1 .. n, s[j] = t[k] PROVE FALSE
    <3>1. j \in 1 .. m + n /\ m + k \in 1 .. m + n /\ c[j] = c[m + k]
      BY <1>1, <1>2, <1>3, <2>3
    <3>2. j = m + k
      BY <1>1, <1>4, <3>1 DEF IsInjective
    <3>. QED  BY <1>1, <3>2
  <2>. QED  BY <1>1, <2>1, <2>2, <2>3 DEF ToSet
<1>5. ASSUME IsInjective(s), IsInjective(t), ToSet(s) \cap ToSet(t) = {} PROVE IsInjective(c)
  <2>. SUFFICES ASSUME NEW j \in 1 .. m + n, NEW k \in 1 .. m + n, c[j] = c[k] PROVE j = k
    BY <1>1 DEF IsInjective
  <2>1. ASSUME NEW i \in 1 .. m + n, ~(i <= m)
        PROVE i - m \in 1 .. n /\ c[i] = t[i - m]
    <3>1. i - m \in 1 .. n /\ m + (i - m) = i
      BY <1>1, <2>1
    <3>. QED  BY <1>3, <3>1
  <2>2. CASE j <= m /\ k <= m
    BY <1>1, <1>2, <1>5, <2>2 DEF IsInjective
  <2>3. CASE ~(j <= m) /\ ~(k <= m)
    <3>1. t[j - m] = t[k - m] /\ j - m \in 1 .. n /\ k - m \in 1 .. n
      BY <2>1, <2>3
    <3>2. j - m = k - m
      BY <1>1, <1>5, <3>1, Zenon DEF IsInjective
    <3>. QED  BY <1>1, <3>2
  <2>4. CASE j <= m /\ ~(k <= m)
    <3>1. s[j] = t[k - m] /\ j \in 1 .. m /\ k - m \in 1 .. n
      BY <1>1, <1>2, <2>1, <2>4
    <3>. QED  BY <1>1, <1>5, <3>1, Zenon DEF ToSet
  <2>5. CASE ~(j <= m) /\ k <= m
    <3>1. s[k] = t[j - m] /\ k \in 1 .. m /\ j - m \in 1 .. n
      BY <1>1, <1>2, <2>1, <2>5
    <3>. QED  BY <1>1, <1>5, <3>1, Zenon DEF ToSet
  <2>. QED  BY <2>2, <2>3, <2>4, <2>5
<1>. QED  BY <1>4, <1>5 DEF c

\* Cutting a list in two.
LEMMA CutList ==
  ASSUME NEW T, NEW s \in Seq(T), NEW k \in 1 .. Len(s) + 1
  PROVE  /\ SubSeq(s, 1, k - 1) \in Seq(T) /\ SubSeq(s, k, Len(s)) \in Seq(T)
         /\ s = SubSeq(s, 1, k - 1) \o SubSeq(s, k, Len(s))
<1>. DEFINE a == SubSeq(s, 1, k - 1)
            b == SubSeq(s, k, Len(s))
            n == Len(s)
<1>1. n \in Nat /\ a \in Seq(T) /\ b \in Seq(T) /\ Len(a) = k - 1 /\ Len(b) = n - (k - 1)
  OBVIOUS
<1>2. \A j \in 1 .. k - 1 : a[j] = s[j]
  OBVIOUS
<1>3. \A j \in 1 .. n - (k - 1) : b[j] = s[j + (k - 1)]
  OBVIOUS
<1>. HIDE DEF a, b
<1>. DEFINE c == a \o b
<1>4. c \in Seq(T) /\ Len(c) = n
  BY <1>1
<1>5. ASSUME NEW j \in 1 .. n PROVE c[j] = s[j]
  <2>1. CASE j <= k - 1
    <3>1. c[j] = a[j] /\ j \in 1 .. k - 1
      BY <1>1, <2>1
    <3>. QED  BY <1>2, <3>1
  <2>2. CASE j > k - 1
    <3>1. c[j] = b[j - (k - 1)] /\ j - (k - 1) \in 1 .. n - (k - 1) /\ (j - (k - 1)) + (k - 1) = j
      BY <1>1, <2>2
    <3>2. b[j - (k - 1)] = s[(j - (k - 1)) + (k - 1)]
      BY <1>3, <3>1
    <3>. HIDE DEF c
    <3>. QED  BY <3>1, <3>2
  <2>. HIDE DEF c
  <2>3. j \in Int /\ k - 1 \in Int
    BY <1>1
  <2>. QED  BY <2>1, <2>2, <2>3
<1>. HIDE DEF c
<1>6. c = s
  BY <1>4, <1>5
<1>. QED  BY <1>1, <1>6, Zenon DEF a, b, c

-----------------------------------------------------------------------------
\* What is left without some elements (remove_if).
LEMMA WithoutFacts ==
  ASSUME NEW T, NEW s \in Seq(T), NEW R
  PROVE  /\ Without(s, R) \in Seq(T)
         /\ ToSet(Without(s, R)) = ToSet(s) \ R
         /\ IsInjective(s) => IsInjective(Without(s, R))
<1>. DEFINE S == ToSet(s) \ R
<1>1. Without(s, R) = Only(s, S)
  BY DEF Without
<1>. HIDE DEF S
<1>2. Only(s, S) \in Seq(T)
  BY OnlyType
<1>3. ToSet(Only(s, S)) = ToSet(s) \cap S
  BY OnlySet
<1>4. IsInjective(s) => IsInjective(Only(s, S))
  BY OnlyInjective
<1>. QED  BY <1>1, <1>2, <1>3, <1>4, Zenon DEF S

\* Selecting and dropping commute.
LEMMA OnlyWithout ==
  ASSUME NEW T, NEW s \in Seq(T), NEW R, NEW S
  PROVE  /\ Only(Without(s, R), S) = Only(s, S \ R)
         /\ Without(Only(s, S), R) = Only(s, S \ R)
<1>. DEFINE A == ToSet(s) \ R
            B == ToSet(Only(s, S)) \ R
<1>1. ToSet(Only(s, S)) = ToSet(s) \cap S
  BY OnlySet
<1>2. Only(Without(s, R), S) = Only(Only(s, A), S) /\ Without(Only(s, S), R) = Only(Only(s, S), B)
  BY DEF Without
<1>3. ToSet(s) \cap (A \cap S) = ToSet(s) \cap (S \ R) /\ ToSet(s) \cap (S \cap B) = ToSet(s) \cap (S \ R)
  BY <1>1
<1>. HIDE DEF A, B
<1>4. Only(Only(s, A), S) = Only(s, A \cap S) /\ Only(Only(s, S), B) = Only(s, S \cap B)
  BY OnlyOnly
<1>. DEFINE X == A \cap S
            Y == S \cap B
            Z == S \ R
<1>5. ToSet(s) \cap X = ToSet(s) \cap Z /\ ToSet(s) \cap Y = ToSet(s) \cap Z
  BY <1>3
<1>. HIDE DEF X, Y, Z
<1>6. Only(s, X) = Only(s, Z) /\ Only(s, Y) = Only(s, Z)
  BY <1>5, OnlySame
<1>. QED  BY <1>2, <1>4, <1>6 DEF X, Y, Z

\* Dropping from what was selected.
LEMMA WithoutOnly ==
  ASSUME NEW T, NEW s \in Seq(T), NEW R, NEW S
  PROVE  Without(Only(s, S), R) = Only(s, S \ R)
BY OnlyWithout, SMTT(30)

\* An element not selected makes no difference.
LEMMA OnlySkip ==
  ASSUME NEW T, NEW s \in Seq(T), NEW e \in T, NEW S, e \notin S
  PROVE  Only(Append(s, e), S) = Only(s, S)
BY OnlyAppend

\* pop_front() and pop_back().
LEMMA HeadTail ==
  ASSUME NEW T, NEW s \in Seq(T), s # <<>>
  PROVE  /\ Head(s) \in T /\ Tail(s) \in Seq(T) /\ Head(s) \in ToSet(s)
         /\ s = <<Head(s)>> \o Tail(s)
         /\ ToSet(s) = {Head(s)} \cup ToSet(Tail(s))
         /\ IsInjective(s) => IsInjective(Tail(s)) /\ Head(s) \notin ToSet(Tail(s))
<1>. DEFINE h == Head(s)
            t == Tail(s)
<1>1. h \in T /\ t \in Seq(T) /\ s = <<h>> \o t /\ <<h>> \in Seq(T)
  OBVIOUS
<1>2. ToSet(<<h>>) = {h}
  BY DEF ToSet
<1>. HIDE DEF h, t
<1>3. ToSet(<<h>> \o t) = ToSet(<<h>>) \cup ToSet(t)
  BY <1>1, SetConcat, ZenonT(30)
<1>4. IsInjective(<<h>> \o t) => IsInjective(t) /\ ToSet(<<h>>) \cap ToSet(t) = {}
  BY <1>1, InjectiveConcat, Zenon
<1>5. h \in T /\ t \in Seq(T) /\ h \in ToSet(s) /\ s = <<h>> \o t /\ ToSet(s) = {h} \cup ToSet(t)
      /\ (IsInjective(s) => IsInjective(t) /\ h \notin ToSet(t))
  BY <1>1, <1>2, <1>3, <1>4
<1>. QED  BY <1>5 DEF h, t

\* A list that is not empty has a last element.
LEMMA FrontLast ==
  ASSUME NEW T, NEW s \in Seq(T), s # <<>>
  PROVE  /\ Last(s) \in T /\ Front(s) \in Seq(T) /\ Last(s) = s[Len(s)]
         /\ s = Append(Front(s), Last(s))
         /\ ToSet(s) = ToSet(Front(s)) \cup {Last(s)}
<1>. DEFINE h == Last(s)
            t == Front(s)
<1>1. h \in T /\ t \in Seq(T) /\ s = Append(t, h) /\ h = s[Len(s)]
  <2>1. Len(s) \in Nat /\ Len(s) > 0 /\ h = s[Len(s)] /\ h \in T
    BY DEF Last
  <2>2. t = SubSeq(s, 1, Len(s) - 1)
    BY DEF Front
  <2>3. t \in Seq(T) /\ Len(t) = Len(s) - 1 /\ \A k \in 1 .. Len(s) - 1 : t[k] = s[k]
    <3>. DEFINE n == Len(s) - 1
    <3>1. n \in Nat /\ Len(s) = n + 1 /\ t = SubSeq(s, 1, n) /\ n <= Len(s)
      BY <2>1, <2>2
    <3>. HIDE DEF n, t
    <3>2. t \in Seq(T) /\ Len(t) = n /\ \A k \in 1 .. n : t[k] = s[k]
      BY <3>1
    <3>. QED  BY <3>2 DEF n
  <2>. QED  BY <2>1, <2>3
<1>. HIDE DEF h, t
<1>2. ToSet(Append(t, h)) = ToSet(t) \cup {h}
  BY <1>1, SetAppend
<1>3. h \in T /\ t \in Seq(T) /\ h = s[Len(s)] /\ s = Append(t, h) /\ ToSet(s) = ToSet(t) \cup {h}
  BY <1>1, <1>2
<1>. QED  BY <1>3 DEF h, t

\* What is selected from one of two lists spliced together.
LEMMA OnlyPart ==
  ASSUME NEW T, NEW s \in Seq(T), NEW t \in Seq(T), NEW S, ToSet(s) \cap ToSet(t) = {}
  PROVE  /\ Only(Only(s \o t, S), ToSet(s)) = Only(s, S)
         /\ Only(Only(s \o t, S), ToSet(t)) = Only(t, S)
<1>. DEFINE A == S \cap ToSet(s)
            B == S \cap ToSet(t)
            w == s \o t
<1>0. w \in Seq(T)
  OBVIOUS
<1>1. ToSet(s) \cap A = ToSet(s) \cap S /\ ToSet(t) \cap A = {}
      /\ ToSet(t) \cap B = ToSet(t) \cap S /\ ToSet(s) \cap B = {}
  OBVIOUS
<1>2. Only(Only(w, S), ToSet(s)) = Only(w, A)
  <2>. HIDE DEF w
  <2>. QED  BY <1>0, OnlyOnly
<1>3. Only(Only(w, S), ToSet(t)) = Only(w, B)
  <2>. HIDE DEF w
  <2>. QED  BY <1>0, OnlyOnly
<1>. HIDE DEF A, B
<1>4. Only(w, A) = Only(s, A) \o Only(t, A) /\ Only(w, B) = Only(s, B) \o Only(t, B)
  BY OnlyConcat, SMTT(30)
<1>5. Only(s, A) = Only(s, S) /\ Only(t, B) = Only(t, S)
  BY <1>1, OnlySame
<1>6. Only(t, A) = <<>> /\ Only(s, B) = <<>>
  BY <1>1, OnlyAll
<1>7. Only(s, S) \in Seq(T) /\ Only(t, S) \in Seq(T)
  BY OnlyType
<1>. DEFINE x == Only(s, S)
            y == Only(t, S)
<1>8. x \o <<>> = x /\ <<>> \o y = y
  <2>1. x \in Seq(T) /\ y \in Seq(T)
    BY <1>7
  <2>. HIDE DEF x, y
  <2>. QED  BY <2>1
<1>. QED  BY <1>2, <1>3, <1>4, <1>5, <1>6, <1>8

\* What is selected from a list that begins with e.
LEMMA OnlyFirst ==
  ASSUME NEW T, NEW e \in T, NEW t \in Seq(T), NEW S
  PROVE  Only(<<e>> \o t, S) = IF e \in S THEN <<e>> \o Only(t, S) ELSE Only(t, S)
<1>. DEFINE one == <<e>>
<1>1. one \in Seq(T) /\ ToSet(one) = {e} /\ one \o <<>> = one
  BY DEF ToSet
<1>2. Only(t, S) \in Seq(T)
  BY OnlyType
<1>. HIDE DEF one
<1>3. Only(one \o t, S) = Only(one, S) \o Only(t, S)
  BY <1>1, OnlyConcat
<1>4. e \in S => Only(one, S) = one
  BY <1>1, OnlyAll
<1>5. e \notin S => Only(one, S) = <<>>
  BY <1>1, OnlyAll
<1>. DEFINE u == Only(t, S)
<1>6. <<>> \o u = u
  <2>1. u \in Seq(T)
    BY <1>2
  <2>. HIDE DEF u
  <2>. QED  BY <2>1
<1>. QED  BY <1>3, <1>4, <1>5, <1>6, Zenon DEF one

\* In s, all elements of L precede all those of O.
Precede(s, L, O) == Only(s, L \cup O) = Only(s, L) \o Only(s, O)

\* It stays like that when the first of those in O goes over to L.
LEMMA FirstGoesOver ==
  ASSUME NEW T, NEW s \in Seq(T), IsInjective(s), NEW L, NEW O, L \cap O = {},
         Precede(s, L, O), Only(s, O) # <<>>
  PROVE  LET e == Head(Only(s, O))
         IN  /\ e \in O /\ Only(s, L \cup {e}) = Append(Only(s, L), e)
             /\ Only(s, O \ {e}) = Tail(Only(s, O))
             /\ Precede(s, L \cup {e}, O \ {e})
<1>. DEFINE a == Only(s, L)
            b == Only(s, O)
            e == Head(b)
            t == Tail(b)
            M == L \cup {e}
            N == O \ {e}
            U == L \cup O
<1>1. a \in Seq(T) /\ b \in Seq(T) /\ IsInjective(b)
      /\ ToSet(b) = ToSet(s) \cap O /\ ToSet(a) = ToSet(s) \cap L
  <2>2. a \in Seq(T) /\ b \in Seq(T)
    BY OnlyType
  <2>3. IsInjective(b)
    BY OnlyInjective
  <2>4. ToSet(b) = ToSet(s) \cap O /\ ToSet(a) = ToSet(s) \cap L
    BY OnlySet
  <2>. QED  BY <2>2, <2>3, <2>4
<1>2. b # <<>> /\ Only(s, U) = a \o b
  BY Zenon DEF Precede
<1>3. /\ ToSet(b) = {e} \cup ToSet(t) /\ e \notin ToSet(t) /\ IsInjective(t)
      /\ e \in T /\ t \in Seq(T) /\ b = <<e>> \o t
  <2>. HIDE DEF b
  <2>. QED  BY <1>1, <1>2, HeadTail
<1>. HIDE DEF a, b, e, t
<1>4. e \in O /\ e \notin L /\ U \cap M = M /\ O \cap N = N /\ M \cup N = U
  BY <1>1, <1>3, Zenon
<1>5. Only(b, M) = <<e>>
  <2>1. e \in M /\ ToSet(t) \cap M = {}
    BY <1>1, <1>3
  <2>. HIDE DEF M
  <2>2. Only(<<e>> \o t, M) = <<e>> \o Only(t, M)
    <3>1. e \in T /\ t \in Seq(T)
      BY <1>3
    <3>2. Only(<<e>> \o t, M) = IF e \in M THEN <<e>> \o Only(t, M) ELSE Only(t, M)
      BY <3>1, OnlyFirst
    <3>. QED  BY <2>1, <3>2, Zenon
  <2>4. Only(t, M) = <<>>
    BY <1>3, <2>1, OnlyAll
  <2>5. <<e>> \o <<>> = <<e>>
    BY <1>3
  <2>. QED  BY <1>3, <2>2, <2>4, <2>5
<1>6. Only(b, N) = t
  <2>1. e \notin N /\ ToSet(t) \subseteq N
    BY <1>1, <1>3
  <2>. HIDE DEF N
  <2>2. Only(<<e>> \o t, N) = Only(t, N)
    BY <1>3, <2>1, OnlyFirst
  <2>4. Only(t, N) = t
    BY <1>3, <2>1, OnlyAll
  <2>. QED  BY <1>3, <2>2, <2>4
<1>7. Only(a, M) = a
  <2>1. ToSet(a) \subseteq M
    BY <1>1
  <2>. HIDE DEF M
  <2>. QED  BY <1>1, <2>1, OnlyAll
<1>8. Only(s, M) = Append(a, e)
  <2>1. Only(Only(s, U), M) = Only(s, U \cap M)
    <3>. HIDE DEF U, M
    <3>. QED  BY OnlyOnly
  <2>0. a \in Seq(T) /\ b \in Seq(T)
    BY <1>1
  <2>2. ASSUME NEW S PROVE Only(a \o b, S) = Only(a, S) \o Only(b, S)
    BY <2>0, OnlyConcat, SMTT(30)
  <2>3. a \o <<e>> = Append(a, e)
    BY <1>1, <1>3
  <2>. QED  BY <1>2, <1>4, <1>5, <1>7, <2>1, <2>2, <2>3, Zenon
<1>9. Only(s, N) = t
  <2>1. Only(Only(s, O), N) = Only(s, O \cap N)
    <3>. HIDE DEF N
    <3>. QED  BY OnlyOnly
  <2>. QED  BY <1>4, <1>6, <2>1, Zenon DEF b
<1>10. Only(s, M \cup N) = Append(a, e) \o t
  <2>1. a \o (<<e>> \o t) = Append(a, e) \o t
    BY <1>1, <1>3, SMTT(30)
  <2>. QED  BY <1>2, <1>3, <1>4, <2>1, Zenon
<1>11. Precede(s, M, N)
  BY <1>8, <1>9, <1>10, Zenon DEF Precede
<1>. QED  BY <1>4, <1>8, <1>9, <1>11, Zenon DEF a, b, e, t

\* The same in a list of other elements, and in both parts of a list.
LEMMA PrecedeSame ==
  ASSUME NEW T, NEW s \in Seq(T), NEW L, NEW O, NEW M, NEW N,
         ToSet(s) \cap L = ToSet(s) \cap M, ToSet(s) \cap O = ToSet(s) \cap N, Precede(s, L, O)
  PROVE  Precede(s, M, N)
<1>. DEFINE U == L \cup O
            V == M \cup N
<1>1. ToSet(s) \cap U = ToSet(s) \cap V
  OBVIOUS
<1>. HIDE DEF U, V
<1>2. Only(s, L) = Only(s, M)
  BY OnlySame
<1>3. Only(s, O) = Only(s, N)
  BY OnlySame
<1>4. Only(s, U) = Only(s, V)
  BY <1>1, OnlySame
<1>. QED  BY <1>2, <1>3, <1>4, Zenon DEF Precede, U, V

\* Where there is nothing to precede, the order holds.
LEMMA PrecedeNone ==
  ASSUME NEW T, NEW s \in Seq(T), NEW L, NEW O, ToSet(s) \cap L = {}
  PROVE  Precede(s, L, O)
<1>. DEFINE U == L \cup O
            b == Only(s, O)
<1>1. ToSet(s) \cap U = ToSet(s) \cap O
  OBVIOUS
<1>2. b \in Seq(T)
  BY OnlyType
<1>3. Only(s, L) = <<>>
  BY OnlyAll
<1>. HIDE DEF U, b
<1>4. Only(s, U) = Only(s, O)
  BY <1>1, OnlySame
<1>5. <<>> \o b = b
  BY <1>2
<1>. QED  BY <1>3, <1>4, <1>5 DEF Precede, U, b

\* Parts of an ordered list are ordered.
LEMMA PrecedeParts ==
  ASSUME NEW T, NEW s \in Seq(T), NEW t \in Seq(T), ToSet(s) \cap ToSet(t) = {},
         NEW L, NEW O, Precede(s \o t, L, O)
  PROVE  Precede(s, L, O) /\ Precede(t, L, O)
<1>. DEFINE w == s \o t
            a == Only(w, L)
            b == Only(w, O)
            U == L \cup O
            x == Only(w, U)
<1>1. x = a \o b
  BY Zenon DEF Precede
<1>2. a \in Seq(T) /\ b \in Seq(T)
  <2>1. w \in Seq(T)
    OBVIOUS
  <2>. HIDE DEF w
  <2>. QED  BY <2>1, OnlyType
<1>3. /\ Only(x, ToSet(s)) = Only(s, U) /\ Only(x, ToSet(t)) = Only(t, U)
  <2>. HIDE DEF U
  <2>. QED  BY OnlyPart
<1>4. /\ Only(a, ToSet(s)) = Only(s, L) /\ Only(a, ToSet(t)) = Only(t, L)
      /\ Only(b, ToSet(s)) = Only(s, O) /\ Only(b, ToSet(t)) = Only(t, O)
  BY OnlyPart
<1>. HIDE DEF a, b, x
<1>5. ASSUME NEW S PROVE Only(a \o b, S) = Only(a, S) \o Only(b, S)
  BY <1>2, OnlyConcat, SMTT(30)
<1>. QED  BY <1>1, <1>3, <1>4, <1>5, Zenon DEF Precede

\* The same for lists of pointers.
LEMMA OnlyFirstNat ==
  ASSUME NEW e \in Nat, NEW t \in Seq(Nat), NEW S
  PROVE  Only(<<e>> \o t, S) = IF e \in S THEN <<e>> \o Only(t, S) ELSE Only(t, S)
<1>. DEFINE T == Nat
<1>1. e \in T /\ t \in Seq(T)
  OBVIOUS
<1>. HIDE DEF T
<1>. QED  BY <1>1, OnlyFirst

\* Lists put one behind the other.
FlatUpto(p, ss, T, m) ==
  /\ p \in [1 .. m -> Seq(T)]
  /\ \A i \in 1 .. m : p[i] = IF i = 1 THEN ss[i] ELSE p[i - 1] \o ss[i]

\* The recursive function inside FlattenSeq exists.
LEMMA FlatExist ==
  ASSUME NEW T, NEW ss \in Seq(Seq(T))
  PROVE  \E p : FlatUpto(p, ss, T, Len(ss))
<1>. DEFINE Have == {m \in Nat : m <= Len(ss) => \E p : FlatUpto(p, ss, T, m)}
<1>1. 0 \in Have
  <2>1. FlatUpto([k \in 1 .. 0 |-> <<>>], ss, T, 0)
    BY DEF FlatUpto
  <2>. QED  BY <2>1
<1>2. ASSUME NEW m \in Nat, m \in Have PROVE m + 1 \in Have
  <2>. SUFFICES ASSUME m + 1 <= Len(ss) PROVE \E p : FlatUpto(p, ss, T, m + 1)
    OBVIOUS
  <2>1. PICK p : FlatUpto(p, ss, T, m)
    BY <1>2
  <2>. DEFINE x == ss[m + 1]
              e == IF m + 1 = 1 THEN x ELSE p[m] \o x
              q == [k \in 1 .. m + 1 |-> IF k = m + 1 THEN e ELSE p[k]]
  <2>2. x \in Seq(T)
    OBVIOUS
  <2>3. e \in Seq(T)
    <3>1. m + 1 # 1 => p[m] \in Seq(T)
      BY <2>1 DEF FlatUpto
    <3>2. m + 1 # 1 => p[m] \o x \in Seq(T)
      BY <2>2, <3>1, ConcatProperties
    <3>. QED  BY <2>2, <3>2
  <2>. HIDE DEF e
  <2>4. q \in [1 .. m + 1 -> Seq(T)]
    BY <2>1, <2>3 DEF FlatUpto
  <2>5. ASSUME NEW i \in 1 .. m + 1
        PROVE  q[i] = IF i = 1 THEN ss[i] ELSE q[i - 1] \o ss[i]
    <3>1. CASE i = m + 1
      <4>1. q[i] = e /\ i - 1 = m /\ ss[i] = x
        BY <3>1
      <4>2. i # 1 => q[i - 1] = p[m]
        BY <3>1
      <4>. QED  BY <3>1, <4>1, <4>2 DEF e
    <3>2. CASE i # m + 1
      <4>1. i \in 1 .. m /\ q[i] = p[i] /\ (i # 1 => q[i - 1] = p[i - 1])
        BY <3>2
      <4>. QED  BY <4>1, <2>1, Zenon DEF FlatUpto
    <3>. QED  BY <3>1, <3>2
  <2>6. FlatUpto(q, ss, T, m + 1)
    <3>. HIDE DEF q
    <3>. QED  BY <2>4, <2>5, Zenon DEF FlatUpto
  <2>. QED  BY <2>6
<1>3. Nat \subseteq Have
  <2>. HIDE DEF Have
  <2>. QED  BY <1>1, <1>2, Induction, Zenon
<1>. QED  BY <1>3

\* A flattened list of lists is a list.
LEMMA FlattenType ==
  ASSUME NEW T, NEW ss \in Seq(Seq(T))
  PROVE  FlattenSeq(ss) \in Seq(T)
<1>. DEFINE m == Len(ss)
            Is(p) == p = [i \in 1 .. m |-> IF i = 1 THEN ss[i] ELSE p[i - 1] \o ss[i]]
            flat == CHOOSE p : Is(p)
            Good == {k \in Nat : k \in 1 .. m => flat[k] \in Seq(T)}
<1>1. CASE m = 0
  BY <1>1 DEF FlattenSeq
<1>2. CASE m # 0
  <2>1. PICK q : FlatUpto(q, ss, T, m)
    BY FlatExist
  <2>2. Is(q)
    BY <2>1, Zenon DEF FlatUpto
  <2>3. Is(flat)
    <3>. HIDE DEF Is
    <3>. QED  BY <2>2
  <2>. HIDE DEF flat
  <2>4. 0 \in Good
    OBVIOUS
  <2>5. ASSUME NEW k \in Nat, k \in Good PROVE k + 1 \in Good
    <3>. SUFFICES ASSUME k + 1 \in 1 .. m PROVE flat[k + 1] \in Seq(T)
      OBVIOUS
    <3>1. ss[k + 1] \in Seq(T)
      OBVIOUS
    <3>2. flat[k + 1] = IF k + 1 = 1 THEN ss[k + 1] ELSE flat[k] \o ss[k + 1]
      <4>1. k + 1 - 1 = k
        OBVIOUS
      <4>2. flat[k + 1] = IF k + 1 = 1 THEN ss[k + 1] ELSE flat[k + 1 - 1] \o ss[k + 1]
        <5>. DEFINE i == k + 1
        <5>1. i \in 1 .. m
          OBVIOUS
        <5>. HIDE DEF i, m
        <5>2. flat[i] = IF i = 1 THEN ss[i] ELSE flat[i - 1] \o ss[i]
          BY <2>3, <5>1, Zenon
        <5>. QED  BY <5>2 DEF i
      <4>. QED  BY <4>1, <4>2
    <3>3. k + 1 # 1 => flat[k] \in Seq(T)
      BY <2>5
    <3>4. k + 1 # 1 => flat[k] \o ss[k + 1] \in Seq(T)
      BY <3>1, <3>3, ConcatProperties
    <3>. QED  BY <3>1, <3>2, <3>4
  <2>6. Nat \subseteq Good
    <3>. HIDE DEF Good
    <3>. QED  BY <2>4, <2>5, Induction, Zenon
  <2>7. flat[m] \in Seq(T)
    BY <1>2, <2>6
  <2>8. FlattenSeq(ss) = flat[m]
    BY <1>2 DEF FlattenSeq, flat
  <2>. QED  BY <2>7, <2>8
<1>. QED  BY <1>1, <1>2

\* Nothing gets lost.
LEMMA FlattenCovers ==
  ASSUME NEW T, NEW ss \in Seq(Seq(T)), NEW n \in 1 .. Len(ss)
  PROVE  ToSet(ss[n]) \subseteq ToSet(FlattenSeq(ss))
<1>. DEFINE m == Len(ss)
            Is(p) == p = [i \in 1 .. m |-> IF i = 1 THEN ss[i] ELSE p[i - 1] \o ss[i]]
            flat == CHOOSE p : Is(p)
            Good == {k \in Nat : k \in n .. m => ToSet(ss[n]) \subseteq ToSet(flat[k])}
<1>1. PICK q : FlatUpto(q, ss, T, m)
  BY FlatExist
<1>2. Is(q)
  BY <1>1, Zenon DEF FlatUpto
<1>3. Is(flat)
  <2>. HIDE DEF Is
  <2>. QED  BY <1>2
<1>. HIDE DEF flat
<1>4. flat = q
  <2>. DEFINE Same == {k \in Nat : k \in 1 .. m => flat[k] = q[k]}
  <2>1. \A i \in 1 .. m : flat[i] = IF i = 1 THEN ss[i] ELSE flat[i - 1] \o ss[i]
    <3>. HIDE DEF m
    <3>. QED  BY <1>3, Zenon
  <2>2. \A i \in 1 .. m : q[i] = IF i = 1 THEN ss[i] ELSE q[i - 1] \o ss[i]
    BY <1>1, Zenon DEF FlatUpto
  <2>3. 0 \in Same
    OBVIOUS
  <2>4. ASSUME NEW k \in Nat, k \in Same PROVE k + 1 \in Same
    <3>. SUFFICES ASSUME k + 1 \in 1 .. m PROVE flat[k + 1] = q[k + 1]
      OBVIOUS
    <3>1. (k + 1) - 1 = k /\ (k + 1 # 1 => k \in 1 .. m)
      OBVIOUS
    <3>2. k + 1 # 1 => flat[k] = q[k]
      BY <2>4, <3>1
    <3>3. /\ flat[k + 1] = IF k + 1 = 1 THEN ss[k + 1] ELSE flat[k] \o ss[k + 1]
          /\ q[k + 1] = IF k + 1 = 1 THEN ss[k + 1] ELSE q[k] \o ss[k + 1]
      BY <2>1, <2>2, <3>1
    <3>. QED  BY <3>2, <3>3
  <2>5. Nat \subseteq Same
    <3>. HIDE DEF Same
    <3>. QED  BY <2>3, <2>4, Induction, Zenon
  <2>6. \A i \in 1 .. m : flat[i] = q[i]
    BY <2>5
  <2>7. flat = [i \in 1 .. m |-> flat[i]]
    <3>. HIDE DEF m
    <3>. QED  BY <1>3
  <2>8. q = [i \in 1 .. m |-> q[i]]
    BY <1>1 DEF FlatUpto
  <2>. QED  BY <2>6, <2>7, <2>8
<1>5. 0 \in Good
  OBVIOUS
<1>6. ASSUME NEW k \in Nat, k \in Good PROVE k + 1 \in Good
  <2>. SUFFICES ASSUME k + 1 \in n .. m PROVE ToSet(ss[n]) \subseteq ToSet(flat[k + 1])
    OBVIOUS
  <2>1. (k + 1) - 1 = k /\ k + 1 \in 1 .. m /\ (k + 1 # 1 => k \in 1 .. m)
    OBVIOUS
  <2>2. q[k + 1] = IF k + 1 = 1 THEN ss[k + 1] ELSE q[k] \o ss[k + 1]
    BY <1>1, <2>1, Zenon DEF FlatUpto
  <2>3. ss[k + 1] \in Seq(T) /\ (k + 1 # 1 => q[k] \in Seq(T))
    <3>1. ss[k + 1] \in Seq(T)
      BY <2>1
    <3>2. q \in [1 .. m -> Seq(T)]
      BY <1>1 DEF FlatUpto
    <3>. HIDE DEF m
    <3>. QED  BY <2>1, <3>1, <3>2, Zenon
  <2>4. CASE k + 1 = 1
    <3>1. n = k + 1
      BY <2>4
    <3>. QED  BY <1>4, <2>2, <2>4, <3>1
  <2>5. CASE k + 1 # 1
    <3>. DEFINE a == q[k]
                c == ss[k + 1]
    <3>1. ToSet(a \o c) = ToSet(a) \cup ToSet(c)
      <4>1. a \in Seq(T) /\ c \in Seq(T)
        BY <2>3, <2>5
      <4>. HIDE DEF a, c
      <4>. QED  BY <4>1, SetConcat
    <3>2. n = k + 1 \/ k \in n .. m
      OBVIOUS
    <3>3. n = k + 1 \/ ToSet(ss[n]) \subseteq ToSet(a)
      BY <1>4, <1>6, <3>2
    <3>4. flat[k + 1] = a \o c
      BY <1>4, <2>2, <2>5, Zenon
    <3>. QED  BY <3>1, <3>3, <3>4
  <2>. QED  BY <2>4, <2>5
<1>7. Nat \subseteq Good
  <2>. HIDE DEF Good
  <2>. QED  BY <1>5, <1>6, Induction, Zenon
<1>8. m \in n .. m /\ m # 0 /\ m \in Nat
  OBVIOUS
<1>9. FlattenSeq(ss) = flat[m]
  BY <1>8 DEF FlattenSeq, flat
<1>. QED  BY <1>7, <1>8, <1>9
=============================================================================
