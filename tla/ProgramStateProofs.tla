------------------------- MODULE ProgramStateProofs -------------------------
(***************************************************************************)
(* The program state is well-formed after any sequence of instructions and *)
(* joins, merging settles, and predicates are decided right if registers   *)
(* are claimed right.                                                      *)
(*                                                                         *)
(* Well-formed says what the code relies on but never checks: a pointer in *)
(* registers or stack is a whole one, its head followed by all its tails,  *)
(* so that no access to the elements of a pointer leaves the vector.       *)
(***************************************************************************)
EXTENDS EmulationSoundness, ListFacts, FiniteSetTheorems

-----------------------------------------------------------------------------
(* Elements.                                                               *)

\* The elements of registers and stack.
Elements == [type : ElementTypes, nr : Int, data : Int]
TailOf(type) == IF type = "StackPtr" THEN "StackPtrTail" ELSE "Tail"

\* Whatever is a pointer is a whole one, with all its tails.
Whole(e, n) ==
  \A k \in 0 .. n - 1 : e[k].type \in Pointers =>
    k + PtrBytes <= n /\ \A j \in k + 1 .. k + PtrBytes - 1 : e[j].type = TailOf(e[k].type)
Bytes(n) == {e \in [0 .. n - 1 -> Elements] : Whole(e, n)}

\* The first turn of a loop and the others.
LEMMA Turns ==
  ASSUME NEW n \in Nat
  PROVE  /\ 0 \in 0 .. n /\ \A i \in 1 .. n : i \in 0 .. n /\ i # 0
         /\ \A i \in 0 .. n : i # 0 => i \in 1 .. n
OBVIOUS

\* The number of elements.
LEMMA SizeIs ==
  ASSUME NEW n \in Nat, NEW e, DOMAIN e = 0 .. n - 1
  PROVE  Size(e) = n
BY FS_Interval DEF Size

\* What merges into something that may be a stack pointer.
StackTypes == {"StackPtr", "StackPtrTail", "Tainted"}

\* The number in n elements only depends on their data.
LEMMA AsIntSame ==
  ASSUME NEW e, NEW h, NEW o \in Int, NEW n \in Nat, \A k \in 1 .. n : e[o + n - k].data = h[o + n - k].data
  PROVE  AsInt(e, o, n) = AsInt(h, o, n)
<1>1. ASSUME NEW f
      PROVE  [k \in 0 .. n |-> IF k = 0 THEN 0 ELSE f[k - 1] * Radix + e[o + n - k].data]
           = [k \in 0 .. n |-> IF k = 0 THEN 0 ELSE f[k - 1] * Radix + h[o + n - k].data]
  <2>1. ASSUME NEW k \in 0 .. n, k # 0 PROVE e[o + n - k].data = h[o + n - k].data
    BY <2>1
  <2>. QED  BY <2>1
<1>. QED  BY <1>1, Zenon DEF AsInt

\* Element i of a meets element i of b: is that no change of a?
Quiet(a, b, i) ==
  IF a[i].type = b[i].type
  THEN /\ a[i].type \in Pointers =>
            a[i].nr = b[i].nr /\ AsInt(a, i, PtrBytes) = AsInt(b, i, PtrBytes)
       /\ a[i].type = "Immediate" => a[i].data = b[i].data
  ELSE \/ {a[i].type, b[i].type} = {"Dead", "Unknown"}
       \/ a[i].type = IF {a[i].type, b[i].type} \cap StackTypes # {} THEN "Tainted" ELSE "Unknown"

\* What the type of an element may become when others are merged into it.
Fades(t, u) == \/ u = t \/ u = "Tainted"
               \/ t = "Unknown" /\ u = "Dead"
               \/ u = "Unknown" /\ t \notin StackTypes

\* Only types change.
Retyped(l, e, n) == \A i \in 0 .. n - 1 : e[i] = [l[i] EXCEPT !.type = e[i].type]

\* No pointer lies across the boundary before element k.
Apart(e, n, k) == \A i \in 0 .. n - 1 : i < k /\ e[i].type \in Pointers => i + PtrBytes <= k

\* Clearing whole pointers leaves the others whole, and takes nothing else along
\* if no tail is without its pointer.
LEMMA ClearTailFacts ==
  ASSUME NEW n \in Nat, NEW e \in Bytes(n), NEW o \in 0 .. n - 1, e[o].type \notin Tails
  PROVE  /\ ClearTail(e, o) \in Bytes(n)
         /\ Retyped(e, ClearTail(e, o), n)
         /\ \A i \in 0 .. n - 1 :
              \/ ClearTail(e, o)[i] = e[i]
              \/ /\ i >= o /\ (\A j \in o + 1 .. i : e[j].type \in Tails)
                 /\ ClearTail(e, o)[i].type = IF e[i].type \in {"StackPtr", "StackPtrTail"}
                                              THEN "Tainted" ELSE "Unknown"
         /\ ClearTail(e, o)[o].type = IF e[o].type = "StackPtr" THEN "Tainted" ELSE "Unknown"
         /\ \A i \in o + 1 .. n - 1 : (\A j \in o + 1 .. i : e[j].type \in Tails) =>
              ClearTail(e, o)[i].type = IF e[i].type = "StackPtrTail" THEN "Tainted" ELSE "Unknown"
<1>. DEFINE h == ClearTail(e, o)
            mine(k) == \A j \in o + 1 .. k : e[j].type \in Tails
<1>1. e \in [0 .. n - 1 -> Elements] /\ Whole(e, n)
  BY DEF Bytes
<1>2. h \in [0 .. n - 1 -> Elements]
  BY <1>1, SMTT(30) DEF ClearTail, Elements, ElementTypes, Opaque
<1>3. ASSUME NEW i \in 0 .. n - 1
      PROVE  h[i] = IF i >= o /\ mine(i)
                    THEN [e[i] EXCEPT !.type = IF e[i].type \in {"StackPtr", "StackPtrTail"}
                                               THEN "Tainted" ELSE "Unknown"]
                    ELSE e[i]
  BY <1>1 DEF ClearTail, Elements
<1>. HIDE DEF h
<1>4. Retyped(e, h, n)
  BY <1>1, <1>3, ZenonT(30) DEF Retyped, Elements
<1>0. ASSUME NEW i \in 0 .. n - 1
      PROVE  /\ i >= o /\ mine(i) => h[i].type = IF e[i].type \in {"StackPtr", "StackPtrTail"}
                                                  THEN "Tainted" ELSE "Unknown"
             /\ ~(i >= o /\ mine(i)) => h[i] = e[i]
  <2>1. e[i] \in Elements
    BY <1>1
  <2>2. h[i] = IF i >= o /\ mine(i)
               THEN [e[i] EXCEPT !.type = IF e[i].type \in {"StackPtr", "StackPtrTail"}
                                          THEN "Tainted" ELSE "Unknown"]
               ELSE e[i]
    BY <1>3
  <2>. HIDE DEF mine
  <2>. QED  BY <2>1, <2>2 DEF Elements
<1>. HIDE DEF mine
<1>5. ASSUME NEW i \in 0 .. n - 1
      PROVE  \/ h[i] = e[i]
             \/ /\ i >= o /\ mine(i)
                /\ h[i].type = IF e[i].type \in {"StackPtr", "StackPtrTail"} THEN "Tainted" ELSE "Unknown"
  BY <1>0
<1>6. h[o].type = IF e[o].type = "StackPtr" THEN "Tainted" ELSE "Unknown"
  <2>1. mine(o)
    BY DEF mine
  <2>2. e[o].type # "StackPtrTail"
    BY DEF Tails
  <2>. QED  BY <2>1, <2>2, <1>0
<1>7. ASSUME NEW i \in o + 1 .. n - 1, mine(i)
      PROVE  h[i].type = IF e[i].type = "StackPtrTail" THEN "Tainted" ELSE "Unknown"
  <2>1. i \in 0 .. n - 1 /\ i >= o
    OBVIOUS
  <2>2. e[i].type \in Tails
    BY <1>7 DEF mine
  <2>. QED  BY <1>0, <1>7, <2>1, <2>2 DEF Tails
<1>8. Whole(h, n)
  <2>. SUFFICES ASSUME NEW k \in 0 .. n - 1, h[k].type \in Pointers
                PROVE  k + PtrBytes <= n /\ \A j \in k + 1 .. k + PtrBytes - 1 : h[j].type = TailOf(h[k].type)
    BY DEF Whole
  <2>1. h[k] = e[k] /\ ~(k >= o /\ mine(k))
    BY <1>0 DEF Pointers
  <2>2. k + PtrBytes <= n /\ \A j \in k + 1 .. k + PtrBytes - 1 : e[j].type = TailOf(e[k].type)
    BY <1>1, <2>1 DEF Whole
  <2>3. ASSUME NEW j \in k + 1 .. k + PtrBytes - 1 PROVE h[j] = e[j]
    <3>1. j \in 0 .. n - 1 /\ PtrBytes \in Nat
      BY <2>2, WordAssumption
    <3>2. ~(j >= o /\ mine(j))
      <4>. SUFFICES ASSUME j >= o, mine(j) PROVE FALSE
        OBVIOUS
      <4>1. CASE k >= o
        <5>1. mine(k)
          BY <3>1, <4>1 DEF mine
        <5>. QED  BY <2>1, <4>1, <5>1
      <4>2. CASE k < o
        <5>1. o \in k + 1 .. k + PtrBytes - 1
          BY <3>1, <4>2
        <5>. QED  BY <2>2, <5>1 DEF TailOf, Tails, mine
      <4>. QED  BY <4>1, <4>2
    <3>. QED  BY <1>0, <3>1, <3>2
  <2>. QED  BY <2>1, <2>2, <2>3
<1>. QED  BY <1>2, <1>4, <1>5, <1>6, <1>7, <1>8 DEF h, mine, Bytes

\* What merging one element does (mergeElements()).
Tie(t, u) == IF {t, u} \cap StackTypes # {} THEN "Tainted" ELSE "Unknown"
\* Element i of e gets the type t, or is the same pointer as in q.
Retype(e, i, t) == [e EXCEPT ![i].type = t]
SamePtr(e, q, i) == e[i].nr = q[i].nr /\ AsInt(e, i, PtrBytes) = AsInt(q, i, PtrBytes)

\* mergeElements(): m is what becomes of element i.
MergedByte(e, q, i, m) ==
  \/ /\ e[i].type = q[i].type /\ e[i].type \in Pointers /\ SamePtr(e, q, i)
     /\ m = [e |-> e, diff |-> FALSE, next |-> i + PtrBytes]
  \/ /\ e[i].type = q[i].type /\ e[i].type \in Pointers /\ ~SamePtr(e, q, i)
     /\ m = [e |-> ClearTail(e, i), diff |-> TRUE, next |-> i + PtrBytes]
  \/ /\ e[i].type = q[i].type /\ e[i].type = "Immediate" /\ e[i].data # q[i].data
     /\ m = [e |-> Retype(e, i, "Unknown"), diff |-> TRUE, next |-> i + 1]
  \/ /\ e[i].type = q[i].type /\ e[i].type \notin Pointers
     /\ e[i].type = "Immediate" => e[i].data = q[i].data
     /\ m = [e |-> e, diff |-> FALSE, next |-> i + 1]
  \/ /\ {e[i].type, q[i].type} = {"Dead", "Unknown"}
     /\ m = [e |-> Retype(e, i, "Dead"), diff |-> FALSE, next |-> i + 1]
  \/ /\ e[i].type # q[i].type /\ {e[i].type, q[i].type} # {"Dead", "Unknown"}
     /\ m = [e |-> Retype(e, i, Tie(e[i].type, q[i].type)),
             diff |-> e[i].type # Tie(e[i].type, q[i].type), next |-> i + 1]

\* One turn of the loop of mergeElements() is one of these cases.
LEMMA MergeByteFacts ==
  ASSUME NEW n \in Nat, NEW e \in Bytes(n), NEW q \in Bytes(n), NEW i \in 0 .. n - 1,
         NEW m, m = MergeByte(e, q, i)
  PROVE  MergedByte(e, q, i, m)
<1>. USE DEF MergedByte
<1>. DEFINE t == e[i].type
            u == q[i].type
<1>1. CASE t = u /\ t \in Pointers
  <2>0. t # "Immediate" /\ {t, u} # {"Dead", "Unknown"}
    BY <1>1 DEF Pointers
  <2>1. CASE SamePtr(e, q, i)
    <3>1. m = [e |-> e, diff |-> FALSE, next |-> i + PtrBytes]
      BY <1>1, <2>0, <2>1, Zenon DEF Retype, MergeByte, SamePtr
    <3>. QED  BY <1>1, <2>1, <3>1
  <2>2. CASE ~SamePtr(e, q, i)
    <3>1. m = [e |-> ClearTail(e, i), diff |-> TRUE, next |-> i + PtrBytes]
      BY <1>1, <2>0, <2>2, Zenon DEF Retype, MergeByte, SamePtr
    <3>. QED  BY <1>1, <2>2, <3>1
  <2>. QED  BY <2>1, <2>2, Zenon
<1>2. CASE t = u /\ t = "Immediate" /\ e[i].data # q[i].data
  BY <1>2, Zenon DEF Retype, MergeByte, Pointers
<1>3. CASE t = u /\ t \notin Pointers /\ (t = "Immediate" => e[i].data = q[i].data)
  <2>1. m = [e |-> e, diff |-> FALSE, next |-> i + 1]
    BY <1>3 DEF Retype, MergeByte
  <2>. QED  BY <1>3, <2>1
<1>4. CASE {t, u} = {"Dead", "Unknown"}
  <2>1. t # u /\ "Dead" # "Unknown"
    BY <1>4
  <2>. QED  BY <1>4, <2>1, Zenon DEF Retype, MergeByte, Pointers
<1>5. CASE t # u /\ {t, u} # {"Dead", "Unknown"}
  BY <1>5 DEF Retype, MergeByte, Tie, StackTypes
<1>. QED  BY <1>1, <1>2, <1>3, <1>4, <1>5, Zenon

\* Having looked at the elements before m.next: whatever was merged is whole.
Joining(l, n, m) ==
  /\ m \in [e : Bytes(n), diff : BOOLEAN, next : 0 .. n]
  /\ Retyped(l, m.e, n)
  /\ Apart(m.e, n, m.next)

\* If tails belong to pointers, the elements looked at would be left alone a
\* second time, and the others are as before.
Settling(l, q, n, m) ==
  \A i \in 0 .. n - 1 :
    /\ Fades(l[i].type, m.e[i].type)
    /\ i >= m.next => m.e[i] = l[i]
    /\ i < m.next => Quiet(m.e, q, i)
    /\ ~m.diff => \/ m.e[i].type = l[i].type
                  \/ l[i].type = "Unknown" /\ m.e[i].type = "Dead"

\* An element that no pointer reaches over can be overwritten by anything
\* but a pointer or a tail.
LEMMA OverwriteFacts ==
  ASSUME NEW n \in Nat, NEW e \in Bytes(n), NEW i \in 0 .. n - 1, Apart(e, n, i),
         NEW x \in Elements, x.type \notin Pointers
  PROVE  [e EXCEPT ![i] = x] \in Bytes(n) /\ Apart([e EXCEPT ![i] = x], n, i + 1)
<1>. DEFINE h == [e EXCEPT ![i] = x]
<1>1. e \in [0 .. n - 1 -> Elements] /\ Whole(e, n)
  BY DEF Bytes
<1>2. h \in [0 .. n - 1 -> Elements] /\ h[i] = x /\ \A j \in 0 .. n - 1 : j # i => h[j] = e[j]
  BY <1>1
<1>. HIDE DEF h
<1>3. ASSUME NEW k \in 0 .. n - 1, h[k].type \in Pointers
      PROVE  /\ k + PtrBytes <= n /\ k # i /\ h[k] = e[k]
             /\ \A j \in k + 1 .. k + PtrBytes - 1 : h[j].type = TailOf(h[k].type)
             /\ k < i => k + PtrBytes <= i
  <2>1. k # i /\ h[k] = e[k]
    BY <1>2, <1>3
  <2>2. k + PtrBytes <= n /\ \A j \in k + 1 .. k + PtrBytes - 1 : e[j].type = TailOf(e[k].type)
    BY <1>1, <1>3, <2>1 DEF Whole
  <2>3. k < i => k + PtrBytes <= i
    BY <1>3, <2>1 DEF Apart
  <2>4. ASSUME NEW j \in k + 1 .. k + PtrBytes - 1 PROVE h[j] = e[j]
    BY <1>2, <2>1, <2>2, <2>3, WordAssumption
  <2>. QED  BY <2>1, <2>2, <2>3, <2>4
<1>4. Whole(h, n)
  BY <1>3 DEF Whole
<1>5. Apart(h, n, i + 1)
  <2>. SUFFICES ASSUME NEW k \in 0 .. n - 1, k < i + 1, h[k].type \in Pointers PROVE k + PtrBytes <= i + 1
    BY DEF Apart
  <2>1. k # i /\ (k < i => k + PtrBytes <= i)
    BY <1>3
  <2>. QED  BY <2>1, WordAssumption
<1>. QED  BY <1>2, <1>4, <1>5 DEF h, Bytes

\* One step, for the shape.
LEMMA JoiningStep ==
  ASSUME NEW n \in Nat, NEW l \in Bytes(n), NEW q \in Bytes(n), NEW m, Joining(l, n, m), m.next < n,
         NEW s, s = MergeByte(m.e, q, m.next), NEW d, d = [s EXCEPT !.diff = @ \/ m.diff]
  PROVE  Joining(l, n, d)
<1>. DEFINE e == m.e
            i == m.next
<1>1. /\ e \in Bytes(n) /\ i \in 0 .. n - 1 /\ m.diff \in BOOLEAN
      /\ Retyped(l, e, n) /\ Apart(e, n, i)
  BY DEF Joining
<1>2. e \in [0 .. n - 1 -> Elements] /\ l \in [0 .. n - 1 -> Elements] /\ Whole(e, n)
  BY <1>1 DEF Bytes
<1>. HIDE DEF e, i
<1>3. ASSUME s.next \in 0 .. n, s.e \in Bytes(n), s.diff \in BOOLEAN, s = [e |-> s.e, diff |-> s.diff, next |-> s.next],
             Retyped(e, s.e, n), Apart(s.e, n, s.next)
      PROVE  Joining(l, n, d)
  <2>1. Retyped(l, s.e, n)
    <3>1. s.e \in [0 .. n - 1 -> Elements]
      BY <1>3 DEF Bytes
    <3>. DEFINE h == s.e
    <3>2. h \in [0 .. n - 1 -> Elements] /\ Retyped(e, h, n)
      BY <1>3, <3>1
    <3>. HIDE DEF h
    <3>3. ASSUME NEW k \in 0 .. n - 1 PROVE h[k] = [l[k] EXCEPT !.type = h[k].type]
      <4>1. h[k] \in Elements /\ e[k] \in Elements /\ l[k] \in Elements
        BY <1>2, <3>2
      <4>2. h[k] = [e[k] EXCEPT !.type = h[k].type] /\ e[k] = [l[k] EXCEPT !.type = e[k].type]
        BY <1>1, <3>2, Zenon DEF Retyped
      <4>. QED  BY <4>1, <4>2 DEF Elements
    <3>. QED  BY <3>3 DEF Retyped, h
  <2>2. d = [e |-> s.e, diff |-> s.diff \/ m.diff, next |-> s.next]
    BY <1>3
  <2>3. s.diff \/ m.diff \in BOOLEAN
    BY <1>1, <1>3
  <2>. QED  BY <1>3, <2>1, <2>2, <2>3 DEF Joining
<1>4. Retyped(e, e, n)
  BY <1>2 DEF Retyped, Elements
<1>5. ASSUME NEW t \in ElementTypes, t \notin Pointers, NEW b \in BOOLEAN,
             s = [e |-> Retype(e, i, t), diff |-> b, next |-> i + 1]
      PROVE  Joining(l, n, d)
  <2>. DEFINE x == [e[i] EXCEPT !.type = t]
  <2>1. x \in Elements /\ x.type = t
    BY <1>1, <1>2, Zenon DEF Elements
  <2>2. Retype(e, i, t) = [e EXCEPT ![i] = x]
    BY DEF Retype
  <2>. HIDE DEF x
  <2>3. [e EXCEPT ![i] = x] \in Bytes(n) /\ Apart([e EXCEPT ![i] = x], n, i + 1)
    BY <1>1, <1>5, <2>1, OverwriteFacts
  <2>4. Retyped(e, [e EXCEPT ![i] = x], n)
    BY <1>1, <1>2, <2>1, Zenon DEF Retyped, Elements, x
  <2>5. s = [e |-> [e EXCEPT ![i] = x], diff |-> b, next |-> i + 1] /\ i + 1 \in 0 .. n
    BY <1>1, <1>5, <2>2
  <2>. QED  BY <1>3, <2>3, <2>4, <2>5
<1>6. CASE e[i].type \in Pointers /\ s \in {[e |-> e, diff |-> FALSE, next |-> i + PtrBytes],
                                            [e |-> ClearTail(e, i), diff |-> TRUE, next |-> i + PtrBytes]}
  <2>1. i + PtrBytes \in 0 .. n /\ \A j \in i + 1 .. i + PtrBytes - 1 : e[j].type = TailOf(e[i].type)
    BY <1>1, <1>2, <1>6, WordAssumption DEF Whole
  <2>2. Apart(e, n, i + PtrBytes)
    <3>. SUFFICES ASSUME NEW k \in 0 .. n - 1, k < i + PtrBytes, e[k].type \in Pointers
                  PROVE  k + PtrBytes <= i + PtrBytes
      BY DEF Apart
    <3>1. k \notin i + 1 .. i + PtrBytes - 1
      BY <2>1 DEF TailOf, Pointers
    <3>2. k <= i
      BY <1>1, <3>1, WordAssumption
    <3>. QED  BY <1>1, <3>2, WordAssumption
  <2>3. CASE s = [e |-> e, diff |-> FALSE, next |-> i + PtrBytes]
    BY <1>1, <1>3, <1>4, <2>1, <2>2, <2>3
  <2>4. CASE s = [e |-> ClearTail(e, i), diff |-> TRUE, next |-> i + PtrBytes]
    <3>. DEFINE h == ClearTail(e, i)
    <3>1. e[i].type \notin Tails
      BY <1>6 DEF Pointers, Tails
    <3>2. h \in Bytes(n) /\ Retyped(e, h, n)
      BY <1>1, <3>1, ClearTailFacts
    <3>3. \A k \in 0 .. n - 1 : h[k] = e[k] \/ h[k].type \in {"Tainted", "Unknown"}
      BY <1>1, <3>1, ClearTailFacts
    <3>. HIDE DEF h
    <3>4. Apart(h, n, i + PtrBytes)
      BY <2>2, <3>3 DEF Apart, Pointers
    <3>. QED  BY <1>3, <2>1, <2>4, <3>2, <3>4 DEF h
  <2>. QED  BY <1>6, <2>3, <2>4
<1>7. CASE e[i].type \notin Pointers /\ s = [e |-> e, diff |-> FALSE, next |-> i + 1]
  <2>1. e = Retype(e, i, e[i].type)
    BY <1>1, <1>2 DEF Elements, Retype
  <2>2. e[i].type \in ElementTypes
    BY <1>1, <1>2 DEF Elements
  <2>3. s = [e |-> Retype(e, i, e[i].type), diff |-> FALSE, next |-> i + 1]
    BY <1>7, <2>1, Zenon
  <2>. QED  BY <1>5, <1>7, <2>2, <2>3, Zenon
<1>8. "Unknown" \in ElementTypes \ Pointers /\ "Dead" \in ElementTypes \ Pointers
      /\ \A t, u : Tie(t, u) \in ElementTypes \ Pointers
  BY DEF ElementTypes, Pointers, Opaque, Tie
<1>. QED
  <2>1. s = MergeByte(e, q, i)
    BY DEF e, i
  <2>2. \/ /\ e[i].type \in Pointers
           /\ s \in {[e |-> e, diff |-> FALSE, next |-> i + PtrBytes],
                     [e |-> ClearTail(e, i), diff |-> TRUE, next |-> i + PtrBytes]}
        \/ e[i].type \notin Pointers /\ s = [e |-> e, diff |-> FALSE, next |-> i + 1]
        \/ s = [e |-> Retype(e, i, "Unknown"), diff |-> TRUE, next |-> i + 1]
        \/ s = [e |-> Retype(e, i, "Dead"), diff |-> FALSE, next |-> i + 1]
        \/ s = [e |-> Retype(e, i, Tie(e[i].type, q[i].type)),
                diff |-> e[i].type # Tie(e[i].type, q[i].type), next |-> i + 1]
    <3>1. MergedByte(e, q, i, s)
      BY <1>1, <2>1, MergeByteFacts
    <3>. QED  BY <3>1 DEF MergedByte
  <2>3. (e[i].type # Tie(e[i].type, q[i].type)) \in BOOLEAN
    OBVIOUS
  <2>4. CASE s = [e |-> Retype(e, i, "Unknown"), diff |-> TRUE, next |-> i + 1]
    BY <1>5, <1>8, <2>4, Zenon
  <2>5. CASE s = [e |-> Retype(e, i, "Dead"), diff |-> FALSE, next |-> i + 1]
    BY <1>5, <1>8, <2>5, Zenon
  <2>6. CASE s = [e |-> Retype(e, i, Tie(e[i].type, q[i].type)),
                  diff |-> e[i].type # Tie(e[i].type, q[i].type), next |-> i + 1]
    <3>. DEFINE t == Tie(e[i].type, q[i].type)
                b == e[i].type # t
    <3>1. t \in ElementTypes \ Pointers /\ b \in BOOLEAN
      BY <1>8
    <3>2. s = [e |-> Retype(e, i, t), diff |-> b, next |-> i + 1]
      BY <2>6
    <3>. HIDE DEF t, b
    <3>. QED  BY <1>5, <3>1, <3>2
  <2>. QED  BY <1>6, <1>7, <2>2, <2>4, <2>5, <2>6

\* What an element would do depends on no other type.
LEMMA QuietStays ==
  ASSUME NEW n \in Nat, NEW e \in Bytes(n), NEW h, NEW q, NEW k \in 0 .. n - 1,
         Retyped(e, h, n), h[k] = e[k], Quiet(e, q, k)
  PROVE  Quiet(h, q, k)
<1>1. CASE e[k].type \in Pointers
  <2>1. k + PtrBytes <= n
    BY <1>1 DEF Bytes, Whole
  <2>2. ASSUME NEW j \in 1 .. PtrBytes PROVE e[k + PtrBytes - j].data = h[k + PtrBytes - j].data
    <3>. DEFINE x == k + PtrBytes - j
    <3>1. x \in 0 .. n - 1
      BY <2>1, WordAssumption
    <3>. HIDE DEF x
    <3>2. e[x] \in Elements
      BY <3>1 DEF Bytes
    <3>3. h[x] = [e[x] EXCEPT !.type = h[x].type]
      BY <3>1 DEF Retyped
    <3>4. e[x].data = h[x].data
      BY <3>2, <3>3 DEF Elements
    <3>. QED  BY <3>4 DEF x
  <2>3. AsInt(e, k, PtrBytes) = AsInt(h, k, PtrBytes)
    BY <2>2, AsIntSame, WordAssumption
  <2>. QED  BY <2>3 DEF Quiet
<1>2. CASE e[k].type \notin Pointers
  BY <1>2 DEF Quiet
<1>. QED  BY <1>1, <1>2

\* No tail lies behind the tails of a pointer.
LEMMA NoTailBehind ==
  ASSUME NEW n \in Nat, NEW l \in Bytes(n), Belongs(l), NEW i \in 0 .. n - 1, l[i].type \in Pointers,
         NEW k \in i + PtrBytes .. n - 1
  PROVE  \E j \in i + 1 .. k : l[j].type \notin Tails
<1>. SUFFICES ASSUME \A j \in i + 1 .. k : l[j].type \in Tails PROVE FALSE
  OBVIOUS
<1>1. i + PtrBytes \in i + 1 .. k /\ i + PtrBytes \in 0 .. n - 1
  BY WordAssumption
<1>2. DOMAIN l = 0 .. n - 1
  BY DEF Bytes
<1>3. l[i + PtrBytes].type \in Tails /\ i + PtrBytes \in DOMAIN l
  BY <1>1, <1>2
<1>4. PICK j \in 1 .. PtrBytes - 1 : l[(i + PtrBytes) - j].type \in Pointers
  BY <1>3, Zenon DEF Belongs, Pointers
<1>5. (i + PtrBytes) - j \in i + 1 .. k
  BY WordAssumption
<1>. QED  BY <1>4, <1>5 DEF Pointers, Tails

\* One step, for what has been looked at.
LEMMA SettlingStep ==
  ASSUME NEW n \in Nat, NEW l \in Bytes(n), NEW q \in Bytes(n), Belongs(l),
         NEW m, Joining(l, n, m), Settling(l, q, n, m), m.next < n,
         NEW s, s = MergeByte(m.e, q, m.next), NEW d, d = [s EXCEPT !.diff = @ \/ m.diff],
         Joining(l, n, d)
  PROVE  Settling(l, q, n, d)
<1>. DEFINE e == m.e
            i == m.next
            h == d.e
<1>1. /\ e \in Bytes(n) /\ i \in 0 .. n - 1 /\ m.diff \in BOOLEAN /\ h \in Bytes(n)
      /\ d \in [e : Bytes(n), diff : BOOLEAN, next : 0 .. n]
  BY DEF Joining
<1>2. /\ e \in [0 .. n - 1 -> Elements] /\ l \in [0 .. n - 1 -> Elements] /\ Whole(e, n)
      /\ q \in [0 .. n - 1 -> Elements] /\ Whole(q, n) /\ h \in [0 .. n - 1 -> Elements]
  BY <1>1 DEF Bytes
<1>3. \A k \in 0 .. n - 1 : /\ Fades(l[k].type, e[k].type)
                            /\ k >= i => e[k] = l[k]
                            /\ k < i => Quiet(e, q, k)
                            /\ ~m.diff => \/ e[k].type = l[k].type
                                          \/ l[k].type = "Unknown" /\ e[k].type = "Dead"
  BY DEF Settling
<1>4. ASSUME NEW x, NEW b, NEW v, s = [e |-> x, diff |-> b, next |-> v]
      PROVE  h = x /\ d.diff = (b \/ m.diff) /\ d.next = v
  BY <1>4
<1>5. s = MergeByte(e, q, i)
  OBVIOUS
<1>. HIDE DEF e, i, h
<1>11. MergedByte(e, q, i, s)
  BY <1>1, <1>5, MergeByteFacts
<1>6. ASSUME Retyped(e, h, n), NEW k \in 0 .. n - 1, k < i, h[k] = e[k]
      PROVE  Quiet(h, q, k)
  BY <1>1, <1>3, <1>6, QuietStays
<1>7. e[i] = l[i]
  BY <1>1, <1>3
<1>8. ASSUME NEW t, NEW b \in BOOLEAN, s = [e |-> Retype(e, i, t), diff |-> b, next |-> i + 1],
             t \in ElementTypes \ Pointers, Fades(l[i].type, t),
             t = "Immediate" => e[i].type = t /\ e[i].data = q[i].data,
             \/ t = q[i].type \/ {t, q[i].type} = {"Dead", "Unknown"} \/ t = Tie(t, q[i].type),
             ~b => t = l[i].type \/ (l[i].type = "Unknown" /\ t = "Dead")
      PROVE  Settling(l, q, n, d)
  <2>1. h = Retype(e, i, t) /\ d.diff = (b \/ m.diff) /\ d.next = i + 1
    BY <1>4, <1>8
  <2>2. h[i] = [e[i] EXCEPT !.type = t] /\ \A k \in 0 .. n - 1 : k # i => h[k] = e[k]
    BY <1>1, <1>2, <2>1 DEF Retype
  <2>3. h[i].type = t /\ h[i].data = e[i].data
    BY <1>1, <1>2, <2>2 DEF Elements
  <2>4. Retyped(e, h, n)
    BY <1>1, <1>2, <2>2, Zenon DEF Retyped, Elements
  <2>5. Quiet(h, q, i)
    BY <1>8, <2>3 DEF Quiet, Tie
  <2>6. ASSUME NEW k \in 0 .. n - 1
        PROVE  /\ Fades(l[k].type, h[k].type)
               /\ k >= i + 1 => h[k] = l[k]
               /\ k < i + 1 => Quiet(h, q, k)
               /\ ~(b \/ m.diff) => \/ h[k].type = l[k].type
                                    \/ l[k].type = "Unknown" /\ h[k].type = "Dead"
    <3>1. CASE k = i
      BY <1>1, <1>8, <2>3, <2>5, <3>1
    <3>2. CASE k # i
      <4>1. h[k] = e[k] /\ (k < i => Quiet(h, q, k))
        BY <1>6, <2>2, <2>4, <3>2
      <4>2. (k >= i + 1 => k >= i) /\ (k < i + 1 => k < i)
        BY <1>1, <3>2
      <4>. QED  BY <1>3, <4>1, <4>2
    <3>. QED  BY <3>1, <3>2
  <2>. QED  BY <2>1, <2>6, Zenon DEF Settling, h
<1>9. CASE e[i].type \in Pointers /\ e[i].type = q[i].type
  <2>1. i + PtrBytes <= n /\ \A k \in i + 1 .. i + PtrBytes - 1 :
            e[k].type = TailOf(e[i].type) /\ q[k].type = TailOf(e[i].type)
    BY <1>1, <1>2, <1>9 DEF Whole
  <2>2. \A k \in i + 1 .. i + PtrBytes - 1 : k \in 0 .. n - 1 /\ e[k] = l[k]
    BY <1>1, <1>3, <2>1, WordAssumption
  <2>3. CASE s = [e |-> e, diff |-> FALSE, next |-> i + PtrBytes] /\ SamePtr(e, q, i)
    <3>1. h = e /\ d.diff = (FALSE \/ m.diff) /\ d.next = i + PtrBytes
      BY <1>4, <2>3
    <3>2. ASSUME NEW k \in 0 .. n - 1, k < i + PtrBytes PROVE Quiet(e, q, k)
      <4>1. CASE k < i
        BY <1>3, <4>1
      <4>2. CASE k = i
        BY <1>9, <2>3, <4>2 DEF Quiet, SamePtr, Pointers
      <4>3. CASE k \in i + 1 .. i + PtrBytes - 1
        BY <2>1, <4>3 DEF Quiet, TailOf, Pointers
      <4>. QED  BY <1>1, <3>2, <4>1, <4>2, <4>3, WordAssumption
    <3>3. \A k \in 0 .. n - 1 : k >= i + PtrBytes => k >= i
      BY <1>1, WordAssumption
    <3>. QED  BY <1>3, <3>1, <3>2, <3>3, Zenon DEF Settling, h
  <2>4. CASE s = [e |-> ClearTail(e, i), diff |-> TRUE, next |-> i + PtrBytes]
    <3>1. h = ClearTail(e, i) /\ d.diff = TRUE /\ d.next = i + PtrBytes
      BY <1>4, <2>4, Zenon
    <3>2. e[i].type \notin Tails
      BY <1>9 DEF Pointers, Tails
    <3>3. /\ Retyped(e, h, n)
          /\ \A k \in 0 .. n - 1 :
               \/ h[k] = e[k]
               \/ /\ k >= i /\ (\A j \in i + 1 .. k : e[j].type \in Tails)
                  /\ h[k].type = IF e[k].type \in {"StackPtr", "StackPtrTail"}
                                 THEN "Tainted" ELSE "Unknown"
          /\ h[i].type = IF e[i].type = "StackPtr" THEN "Tainted" ELSE "Unknown"
          /\ \A k \in i + 1 .. n - 1 : (\A j \in i + 1 .. k : e[j].type \in Tails) =>
               h[k].type = IF e[k].type = "StackPtrTail" THEN "Tainted" ELSE "Unknown"
      BY <1>1, <3>1, <3>2, ClearTailFacts
    <3>4. ASSUME NEW k \in i + PtrBytes .. n - 1 PROVE h[k] = e[k]
      <4>1. k \in 0 .. n - 1 /\ \A j \in i + 1 .. k : j \in 0 .. n - 1 /\ j >= i
        BY <1>1, WordAssumption
      <4>2. l[i].type \in Pointers
        BY <1>7, <1>9
      <4>3. PICK j \in i + 1 .. k : l[j].type \notin Tails
        BY <1>1, <4>2, NoTailBehind
      <4>4. e[j].type \notin Tails
        BY <1>3, <4>1, <4>3
      <4>. QED  BY <3>3, <4>1, <4>4
    <3>5. ASSUME NEW k \in i + 1 .. i + PtrBytes - 1
          PROVE  /\ h[k].type = IF e[k].type = "StackPtrTail" THEN "Tainted" ELSE "Unknown"
                 /\ e[k].type \in Tails /\ e[k].type = q[k].type
      <4>1. \A j \in i + 1 .. k : j \in i + 1 .. i + PtrBytes - 1
        BY <1>1, WordAssumption
      <4>2. \A j \in i + 1 .. k : e[j].type \in Tails
        BY <2>1, <4>1 DEF TailOf, Tails
      <4>3. k \in i + 1 .. n - 1
        BY <1>1, <2>1, WordAssumption
      <4>. QED  BY <2>1, <3>3, <4>2, <4>3 DEF TailOf, Tails
    <3>6. ASSUME NEW k \in 0 .. n - 1
          PROVE  /\ Fades(l[k].type, h[k].type)
                 /\ k >= i + PtrBytes => h[k] = l[k]
                 /\ k < i + PtrBytes => Quiet(h, q, k)
      <4>1. CASE k < i
        <5>1. h[k] = e[k] /\ k < i + PtrBytes /\ ~(k >= i + PtrBytes)
          BY <1>1, <3>3, <4>1, WordAssumption
        <5>. QED  BY <1>3, <1>6, <3>3, <4>1, <5>1
      <4>2. CASE k = i
        <5>1. ~(k >= i + PtrBytes)
          BY <1>1, <4>2, WordAssumption
        <5>2. Quiet(h, q, i)
          BY <1>9, <3>3, Zenon DEF Quiet, Pointers, StackTypes
        <5>3. Fades(l[i].type, h[i].type)
          BY <1>7, <1>9, <3>3 DEF Fades, Pointers, StackTypes
        <5>. QED  BY <4>2, <5>1, <5>2, <5>3
      <4>3. CASE k \in i + 1 .. i + PtrBytes - 1
        <5>1. ~(k >= i + PtrBytes) /\ e[k] = l[k]
          BY <1>1, <2>2, <4>3, WordAssumption
        <5>2. Quiet(h, q, k)
          BY <3>5, <4>3, Zenon DEF Quiet, Tails, StackTypes
        <5>3. Fades(l[k].type, h[k].type)
          BY <3>5, <4>3, <5>1 DEF Fades, Tails, StackTypes
        <5>. QED  BY <5>1, <5>2, <5>3
      <4>4. CASE k >= i + PtrBytes
        <5>1. h[k] = e[k] /\ ~(k < i + PtrBytes) /\ k >= i
          BY <1>1, <3>4, <4>4, WordAssumption
        <5>. QED  BY <1>3, <5>1
      <4>. QED  BY <1>1, <4>1, <4>2, <4>3, <4>4, WordAssumption
    <3>. QED  BY <3>1, <3>6 DEF Settling, h
  <2>5. \/ s = [e |-> e, diff |-> FALSE, next |-> i + PtrBytes] /\ SamePtr(e, q, i)
        \/ s = [e |-> ClearTail(e, i), diff |-> TRUE, next |-> i + PtrBytes]
    <3>1. e[i].type # "Immediate" /\ {e[i].type, q[i].type} # {"Dead", "Unknown"}
      BY <1>9 DEF Pointers
    <3>. QED  BY <1>9, <1>11, <3>1 DEF MergedByte
  <2>. QED  BY <2>3, <2>4, <2>5
<1>10. CASE ~(e[i].type \in Pointers /\ e[i].type = q[i].type)
  <2>. DEFINE t == e[i].type
              u == q[i].type
  <2>0. t \in ElementTypes /\ u \in ElementTypes
    BY <1>1, <1>2, Zenon DEF Elements
  <2>1. CASE t = u /\ t = "Immediate" /\ s = [e |-> Retype(e, i, "Unknown"), diff |-> TRUE, next |-> i + 1]
    <3>1. "Unknown" = Tie("Unknown", u) /\ Fades(l[i].type, "Unknown")
      BY <1>7, <2>1 DEF Tie, Fades, StackTypes
    <3>. QED  BY <1>8, <2>1, <3>1, Zenon DEF ElementTypes, Opaque, Pointers
  <2>2. CASE /\ t = u /\ t \notin Pointers /\ (t = "Immediate" => e[i].data = q[i].data)
             /\ s = [e |-> e, diff |-> FALSE, next |-> i + 1]
    <3>1. e = Retype(e, i, t)
      BY <1>1, <1>2 DEF Elements, Retype
    <3>2. Fades(l[i].type, t)
      BY <1>7 DEF Fades
    <3>3. s = [e |-> Retype(e, i, t), diff |-> FALSE, next |-> i + 1]
      BY <2>2, <3>1, Zenon
    <3>. QED  BY <1>7, <1>8, <2>0, <2>2, <3>2, <3>3, Zenon
  <2>3. CASE {t, u} = {"Dead", "Unknown"} /\ s = [e |-> Retype(e, i, "Dead"), diff |-> FALSE, next |-> i + 1]
    <3>1. t \in {"Dead", "Unknown"} /\ u \in {"Dead", "Unknown"}
      BY <2>3
    <3>2. "Dead" = u \/ {"Dead", u} = {"Dead", "Unknown"}
      BY <3>1
    <3>3. Fades(l[i].type, "Dead") /\ ("Dead" = l[i].type \/ l[i].type = "Unknown")
      BY <1>7, <3>1 DEF Fades
    <3>. QED  BY <1>8, <2>3, <3>2, <3>3, Zenon DEF ElementTypes, Opaque, Pointers
  <2>4. CASE s = [e |-> Retype(e, i, Tie(t, u)), diff |-> t # Tie(t, u), next |-> i + 1]
    <3>. DEFINE w == Tie(t, u)
                b == t # w
    <3>1. w = Tie(w, u) /\ w \in ElementTypes \ Pointers /\ w # "Immediate"
      BY DEF Tie, StackTypes, ElementTypes, Opaque, Pointers
    <3>2. Fades(l[i].type, w)
      BY <1>7, Zenon DEF Tie, Fades, StackTypes
    <3>3. b \in BOOLEAN /\ (~b => w = l[i].type)
      BY <1>7
    <3>4. s = [e |-> Retype(e, i, w), diff |-> b, next |-> i + 1]
      BY <2>4
    <3>. HIDE DEF w, b
    <3>. QED  BY <1>8, <3>1, <3>2, <3>3, <3>4
  <2>5. \/ t = u /\ t = "Immediate" /\ s = [e |-> Retype(e, i, "Unknown"), diff |-> TRUE, next |-> i + 1]
        \/ /\ t = u /\ t \notin Pointers /\ (t = "Immediate" => e[i].data = q[i].data)
           /\ s = [e |-> e, diff |-> FALSE, next |-> i + 1]
        \/ {t, u} = {"Dead", "Unknown"} /\ s = [e |-> Retype(e, i, "Dead"), diff |-> FALSE, next |-> i + 1]
        \/ s = [e |-> Retype(e, i, Tie(t, u)), diff |-> t # Tie(t, u), next |-> i + 1]
    BY <1>10, <1>11 DEF MergedByte
  <2>. QED  BY <2>1, <2>2, <2>3, <2>4, <2>5
<1>. QED  BY <1>9, <1>10

\* Nothing changes for the second time.
Quieting(l, q, n, m) ==
  (\A i \in 0 .. n - 1 : Quiet(l, q, i)) =>
    ~m.diff /\ \A i \in 0 .. n - 1 : i >= m.next => m.e[i] = l[i]

\* A byte that meets nothing new reports no change.
LEMMA QuietingStep ==
  ASSUME NEW n \in Nat, NEW l \in Bytes(n), NEW q \in Bytes(n),
         NEW m, Joining(l, n, m), Quieting(l, q, n, m), m.next < n,
         NEW s, s = MergeByte(m.e, q, m.next), NEW d, d = [s EXCEPT !.diff = @ \/ m.diff]
  PROVE  Quieting(l, q, n, d)
<1>. SUFFICES ASSUME \A i \in 0 .. n - 1 : Quiet(l, q, i)
              PROVE  ~d.diff /\ \A i \in 0 .. n - 1 : i >= d.next => d.e[i] = l[i]
  BY DEF Quieting
<1>. DEFINE e == m.e
            i == m.next
<1>1. e \in Bytes(n) /\ i \in 0 .. n - 1 /\ m.diff \in BOOLEAN /\ Retyped(l, e, n)
  BY DEF Joining
<1>2. e \in [0 .. n - 1 -> Elements]
  BY <1>1 DEF Bytes
<1>3. ~m.diff /\ \A k \in 0 .. n - 1 : k >= i => e[k] = l[k]
  BY DEF Quieting
<1>4. ASSUME NEW x, NEW b, NEW v, s = [e |-> x, diff |-> b, next |-> v]
      PROVE  d.e = x /\ d.diff = (b \/ m.diff) /\ d.next = v
  BY <1>4
<1>5. s = MergeByte(e, q, i)
  OBVIOUS
<1>. HIDE DEF e, i
<1>6. MergedByte(e, q, i, s)
  BY <1>1, <1>5, MergeByteFacts
<1>7. Quiet(e, q, i)
  BY <1>1, <1>3, QuietStays
<1>8. ASSUME NEW t, s = [e |-> Retype(e, i, t), diff |-> FALSE, next |-> i + 1]
      PROVE  ~d.diff /\ \A k \in 0 .. n - 1 : k >= d.next => d.e[k] = l[k]
  <2>1. d.e = Retype(e, i, t) /\ d.diff = (FALSE \/ m.diff) /\ d.next = i + 1
    BY <1>4, <1>8
  <2>2. \A k \in 0 .. n - 1 : k # i => Retype(e, i, t)[k] = e[k]
    BY <1>1, <1>2 DEF Retype
  <2>3. \A k \in 0 .. n - 1 : k >= i + 1 => k # i /\ k >= i
    BY <1>1
  <2>. QED  BY <1>3, <2>1, <2>2, <2>3, Zenon
<1>9. ASSUME NEW v \in Nat, v >= i, s = [e |-> e, diff |-> FALSE, next |-> v]
      PROVE  ~d.diff /\ \A k \in 0 .. n - 1 : k >= d.next => d.e[k] = l[k]
  <2>1. d.e = e /\ d.diff = (FALSE \/ m.diff) /\ d.next = v
    BY <1>4, <1>9
  <2>2. \A k \in 0 .. n - 1 : k >= v => k >= i
    BY <1>1, <1>9
  <2>. QED  BY <1>3, <2>1, <2>2, Zenon
<1>10. i + 1 \in Nat /\ i + 1 >= i /\ i + PtrBytes \in Nat /\ i + PtrBytes >= i
  BY <1>1, WordAssumption
<1>11. \/ s = [e |-> e, diff |-> FALSE, next |-> i + PtrBytes]
       \/ s = [e |-> e, diff |-> FALSE, next |-> i + 1]
       \/ s = [e |-> Retype(e, i, "Dead"), diff |-> FALSE, next |-> i + 1]
       \/ s = [e |-> Retype(e, i, Tie(e[i].type, q[i].type)), diff |-> FALSE, next |-> i + 1]
  <2>1. e[i].type = q[i].type /\ e[i].type \in Pointers => SamePtr(e, q, i)
    BY <1>7 DEF Quiet, SamePtr
  <2>2. e[i].type = q[i].type /\ e[i].type = "Immediate" => e[i].data = q[i].data
    BY <1>7 DEF Quiet
  <2>3. e[i].type # q[i].type /\ {e[i].type, q[i].type} # {"Dead", "Unknown"} =>
          e[i].type = Tie(e[i].type, q[i].type)
    BY <1>7, Zenon DEF Quiet, Tie
  <2>4. e[i].type = Tie(e[i].type, q[i].type) => (e[i].type # Tie(e[i].type, q[i].type)) = FALSE
    OBVIOUS
  <2>. QED  BY <1>6, <2>1, <2>2, <2>3, <2>4, Zenon DEF MergedByte
<1>. QED  BY <1>8, <1>9, <1>10, <1>11

\* Merging gets on.
LEMMA MergedNext ==
  ASSUME NEW n \in Nat, NEW e \in Bytes(n), NEW q \in Bytes(n), NEW i \in 0 .. n - 1,
         NEW s, s = MergeByte(e, q, i)
  PROVE  s.next \in {i + 1, i + PtrBytes}
<1>1. MergedByte(e, q, i, s)
  BY MergeByteFacts
<1>. QED  BY <1>1 DEF MergedByte

\* All elements are merged, one after the other.
LEMMA MergeElementsFacts ==
  ASSUME NEW n \in Nat, NEW l \in Bytes(n), NEW q \in Bytes(n), NEW m, m = MergeElements(l, q)
  PROVE  Joining(l, n, m) /\ m.next = n /\ Quieting(l, q, n, m)
         /\ (Belongs(l) => Settling(l, q, n, m))
<1>. DEFINE start == [e |-> l, diff |-> FALSE, next |-> 0]
            With(d, b) == [d EXCEPT !.diff = @ \/ b]
            Turn(i, x) == IF x.next # i - 1 THEN x ELSE With(MergeByte(x.e, q, i - 1), x.diff)
            Body(g) == [i \in 0 .. n |-> IF i = 0 THEN start ELSE Turn(i, g[i - 1])]
            c == CHOOSE g : g = Body(g)
            OK(x) == Joining(l, n, x) /\ Quieting(l, q, n, x) /\ (Belongs(l) => Settling(l, q, n, x))
            X(i) == {x \in [e : Bytes(n), diff : BOOLEAN, next : 0 .. n] : OK(x) /\ x.next >= i}
<1>1. m = c[n]
  <2>1. Size(l) = n
    BY SizeIs DEF Bytes
  <2>. QED  BY <2>1 DEF MergeElements
<1>2. start \in X(0)
  <2>1. l \in [0 .. n - 1 -> Elements]
    BY DEF Bytes
  <2>2. Retyped(l, l, n)
    BY <2>1 DEF Retyped, Elements
  <2>3. start.e = l /\ start.next = 0 /\ start.diff = FALSE
    OBVIOUS
  <2>4. start \in [e : Bytes(n), diff : BOOLEAN, next : 0 .. n]
    OBVIOUS
  <2>. HIDE DEF start
  <2>5. Joining(l, n, start)
    BY <2>2, <2>3, <2>4 DEF Joining, Apart
  <2>6. Settling(l, q, n, start)
    BY <2>3 DEF Settling, Fades
  <2>7. Quieting(l, q, n, start)
    BY <2>3 DEF Quieting
  <2>. QED  BY <2>3, <2>4, <2>5, <2>6, <2>7
<1>3. ASSUME NEW i \in 1 .. n, NEW x \in X(i - 1) PROVE Turn(i, x) \in X(i)
  <2>1. CASE x.next # i - 1
    BY <1>3, <2>1
  <2>2. CASE x.next = i - 1
    <3>. DEFINE s == MergeByte(x.e, q, x.next)
                d == With(s, x.diff)
    <3>1. Turn(i, x) = d
      BY <2>2
    <3>2. Joining(l, n, x) /\ x.next < n /\ x.e \in Bytes(n) /\ x.next \in 0 .. n - 1
      BY <1>3, <2>2
    <3>3. d = [s EXCEPT !.diff = @ \/ x.diff]
      OBVIOUS
    <3>4. s.next \in {x.next + 1, x.next + PtrBytes}
      BY <3>2, MergedNext
    <3>. HIDE DEF s, d
    <3>5. Joining(l, n, d)
      BY <3>2, <3>3, JoiningStep DEF s
    <3>6. Belongs(l) => Settling(l, q, n, d)
      BY <1>3, <3>2, <3>3, <3>5, SettlingStep DEF s
    <3>9. Quieting(l, q, n, d)
      BY <1>3, <3>2, <3>3, QuietingStep DEF s
    <3>7. d \in [e : Bytes(n), diff : BOOLEAN, next : 0 .. n]
      BY <3>5 DEF Joining
    <3>8. d.next = s.next
      BY <3>3
    <3>. QED  BY <2>2, <3>1, <3>4, <3>5, <3>6, <3>7, <3>8, <3>9, WordAssumption
  <2>. QED  BY <2>1, <2>2
<1>. HIDE DEF start, Turn, OK
<1>4. \E g : g = Body(g)
  <2>. DEFINE G == [y \in (1 .. n) \X X(0) |-> IF y[2].next >= y[1] - 1 THEN Turn(y[1], y[2]) ELSE y[2]]
  <2>1. ASSUME NEW i \in 1 .. n, NEW x \in X(0), x.next >= i - 1 PROVE Turn(i, x) \in X(i) /\ Turn(i, x) \in X(0)
    BY <1>3, <2>1
  <2>2. G \in [(1 .. n) \X X(0) -> X(0)]
    BY <2>1
  <2>3. PICK g \in [0 .. n -> X(0)] : g[0] = start /\ \A i \in 1 .. n : g[i] = G[<<i, g[i - 1]>>]
    <3>. HIDE DEF G, X
    <3>1. \E g \in [0 .. n -> X(0)] : Looping(g, n, start, G)
      BY <1>2, <2>2, LoopExists, Zenon
    <3>. QED  BY <3>1 DEF Looping
  <2>4. \A i \in 0 .. n : g[i].next >= i
    <3>. DEFINE S == {i \in Nat : i <= n => g[i].next >= i}
    <3>1. 0 \in S
      BY <1>2, <2>3
    <3>2. ASSUME NEW i \in Nat, i \in S PROVE i + 1 \in S
      <4>1. CASE i + 1 <= n
        <5>1. i + 1 \in 1 .. n /\ (i + 1) - 1 = i /\ i \in 0 .. n /\ g[i].next >= i /\ g[i] \in X(0)
          BY <3>2, <4>1, <2>3
        <5>2. g[i + 1] = Turn(i + 1, g[i])
          BY <2>3, <5>1, Zenon
        <5>3. g[i + 1] \in X(i + 1)
          BY <2>1, <5>1, <5>2
        <5>. QED  BY <5>3
      <4>. QED  BY <4>1
    <3>3. Nat \subseteq S
      <4>. HIDE DEF S
      <4>. QED  BY <3>1, <3>2, Induction, Zenon
    <3>. QED  BY <3>3
  <2>5. ASSUME NEW i \in 1 .. n PROVE g[i] = Turn(i, g[i - 1])
    <3>1. i - 1 \in 0 .. n /\ g[i - 1].next >= i - 1 /\ g[i - 1] \in X(0)
      BY <2>3, <2>4
    <3>. QED  BY <2>3, <3>1, Zenon
  <2>6. g = Body(g)
    BY <2>3, <2>5
  <2>. QED  BY <2>6
<1>5. c = Body(c)
  BY <1>4, Zenon
<1>. HIDE DEF c
<1>6. c[0] = start /\ \A i \in 1 .. n : c[i] = Turn(i, c[i - 1])
  BY <1>5
<1>7. \A i \in 0 .. n : c[i] \in X(i)
  <2>. DEFINE S == {i \in Nat : i <= n => c[i] \in X(i)}
  <2>. HIDE DEF X
  <2>1. 0 \in S
    BY <1>2, <1>6
  <2>2. ASSUME NEW i \in Nat, i \in S PROVE i + 1 \in S
    <3>1. CASE i + 1 <= n
      <4>1. i + 1 \in 1 .. n /\ (i + 1) - 1 = i /\ c[i] \in X(i)
        BY <2>2, <3>1
      <4>2. c[i + 1] = Turn(i + 1, c[i])
        BY <1>6, <4>1
      <4>. QED  BY <1>3, <4>1, <4>2
    <3>. QED  BY <3>1
  <2>3. Nat \subseteq S
    <3>. HIDE DEF S
    <3>. QED  BY <2>1, <2>2, Induction
  <2>. QED  BY <2>3
<1>8. c[n] \in X(n)
  BY <1>7
<1>. QED  BY <1>1, <1>8 DEF OK

\* Nothing was lost: what was known is as before.
Lossless(l, h, n) ==
  /\ Retyped(l, h, n)
  /\ \A i \in 0 .. n - 1 : h[i].type = l[i].type \/ (l[i].type = "Unknown" /\ h[i].type = "Dead")

\* Merging the same elements again changes nothing, whichever of the two, and
\* where no change is reported nothing is lost.
LEMMA MergedTwice ==
  ASSUME NEW n \in Nat, NEW l \in Bytes(n), NEW q \in Bytes(n), Belongs(l), NEW m, m = MergeElements(l, q)
  PROVE  /\ m.e \in Bytes(n) /\ m.diff \in BOOLEAN
         /\ ~MergeElements(m.e, q).diff
         /\ ~MergeElements(m.e, l).diff
         /\ ~m.diff => Lossless(l, m.e, n)
<1>1. Joining(l, n, m) /\ m.next = n /\ Settling(l, q, n, m)
  BY MergeElementsFacts
<1>2. m.e \in Bytes(n) /\ m.diff \in BOOLEAN /\ Retyped(l, m.e, n)
  BY <1>1 DEF Joining
<1>3. ASSUME NEW p \in Bytes(n), \A i \in 0 .. n - 1 : Quiet(m.e, p, i)
      PROVE  ~MergeElements(m.e, p).diff
  <2>. DEFINE d == MergeElements(m.e, p)
  <2>1. Quieting(m.e, p, n, d)
    BY <1>2, MergeElementsFacts
  <2>. QED  BY <1>3, <2>1 DEF Quieting
<1>4. \A i \in 0 .. n - 1 : Quiet(m.e, q, i)
  BY <1>1 DEF Settling
<1>5. ASSUME NEW i \in 0 .. n - 1 PROVE Quiet(m.e, l, i)
  <2>1. Fades(l[i].type, m.e[i].type)
    BY <1>1 DEF Settling
  <2>2. CASE m.e[i].type = l[i].type
    <3>. DEFINE h == m.e
    <3>1. l[i] \in Elements /\ h[i] = [l[i] EXCEPT !.type = h[i].type]
      BY <1>2 DEF Retyped, Bytes
    <3>2. h[i] = l[i]
      BY <2>2, <3>1 DEF Elements
    <3>3. Quiet(l, l, i)
      BY DEF Quiet
    <3>. QED  BY <1>2, <3>2, <3>3, QuietStays
  <2>3. CASE m.e[i].type # l[i].type
    BY <2>1, <2>3, Zenon DEF Quiet, Fades, StackTypes
  <2>. QED  BY <2>2, <2>3
<1>6. ~MergeElements(m.e, q).diff /\ ~MergeElements(m.e, l).diff
  <2>1. ~MergeElements(m.e, q).diff
    BY <1>3, <1>4
  <2>2. ~MergeElements(m.e, l).diff
    BY <1>3, <1>5
  <2>. QED  BY <2>1, <2>2
<1>7. ASSUME ~m.diff PROVE Lossless(l, m.e, n)
  <2>1. \A i \in 0 .. n - 1 : m.e[i].type = l[i].type \/ (l[i].type = "Unknown" /\ m.e[i].type = "Dead")
    BY <1>1, <1>7 DEF Settling
  <2>. QED  BY <1>2, <2>1 DEF Lossless
<1>. QED  BY <1>2, <1>6, <1>7

-----------------------------------------------------------------------------
(* Reading.                                                                *)

\* Places are positive.
LEMMA PowerType ==
  ASSUME NEW b \in Nat \ {0}, NEW n \in Nat
  PROVE  Power(b, n) \in Nat \ {0}
<1>. DEFINE P == Nat \ {0}
            Body(p) == [k \in 0 .. n |-> IF k = 0 THEN 1 ELSE b * p[k - 1]]
            G == [y \in (1 .. n) \X P |-> b * y[2]]
            c == CHOOSE p : p = Body(p)
<1>1. Power(b, n) = c[n]
  BY DEF Power
<1>2. 1 \in P /\ \A x \in P : b * x \in P
  OBVIOUS
<1>3. \E p : p = Body(p)
  <2>1. G \in [(1 .. n) \X P -> P]
    BY <1>2
  <2>. HIDE DEF G
  <2>2. PICK p \in [0 .. n -> P] : Looping(p, n, 1, G)
    <3>. HIDE DEF P
    <3>. QED  BY <1>2, <2>1, LoopExists, Zenon
  <2>3. p[0] = 1 /\ \A k \in 1 .. n : p[k] = G[<<k, p[k - 1]>>]
    BY <2>2, Zenon DEF Looping
  <2>4. ASSUME NEW k \in 1 .. n PROVE p[k] = b * p[k - 1]
    <3>1. p[k - 1] \in P
      BY <2>2
    <3>2. G[<<k, p[k - 1]>>] = b * p[k - 1]
      BY <3>1 DEF G
    <3>. QED  BY <2>3, <3>2
  <2>5. p = Body(p)
    BY <2>2, <2>3, <2>4
  <2>. QED  BY <2>5
<1>4. c = Body(c)
  BY <1>3, Zenon
<1>. HIDE DEF c
<1>5. c[0] = 1 /\ \A k \in 1 .. n : c[k] = b * c[k - 1]
  BY <1>4
<1>6. \A k \in 1 .. n : c[k - 1] \in P => c[k] \in P
  BY <1>2, <1>5
<1>7. \A k \in 0 .. n : c[k] \in P
  <2>1. c[0] \in P
    BY <1>2, <1>5
  <2>. HIDE DEF P
  <2>. QED  BY <1>6, <2>1, LoopStays, Zenon
<1>. QED  BY <1>1, <1>7

\* Words and digits.
LEMMA WordType ==
  Word \in Nat \ {0}
BY PowerType, WordAssumption DEF Word

\* A digit of a number is a number.
LEMMA DigitType ==
  ASSUME NEW v \in Int, NEW k \in Nat
  PROVE  Digit(v, k) \in Int
<1>1. Power(Radix, k) \in Nat \ {0}
  BY PowerType, WordAssumption
<1>2. v \div Power(Radix, k) \in Int
  BY <1>1
<1>. QED  BY <1>2, WordAssumption DEF Digit

\* The number in elements that are there.
LEMMA AsIntType ==
  ASSUME NEW n \in Nat, NEW e \in Bytes(n), NEW o \in Nat, NEW k \in Nat, o + k <= n
  PROVE  AsInt(e, o, k) \in Int
<1>. DEFINE t == [i \in 1 .. k |-> e[o + k - i].data]
            Body(f) == [i \in 0 .. k |-> IF i = 0 THEN 0 ELSE f[i - 1] * Radix + e[o + k - i].data]
            c == CHOOSE f : f = Body(f)
<1>1. AsInt(e, o, k) = c[k]
  BY DEF AsInt
<1>2. t \in [1 .. k -> Int]
  <2>1. ASSUME NEW i \in 1 .. k PROVE e[o + k - i].data \in Int
    <3>. DEFINE x == o + k - i
    <3>1. x \in 0 .. n - 1
      OBVIOUS
    <3>. HIDE DEF x
    <3>2. e[x] \in Elements
      BY <3>1 DEF Bytes
    <3>3. e[x].data \in Int
      BY <3>2 DEF Elements
    <3>. QED  BY <3>3 DEF x
  <2>. QED  BY <2>1
<1>3. ASSUME NEW f PROVE Body(f) = [i \in 0 .. k |-> IF i = 0 THEN 0 ELSE f[i - 1] * Radix + t[i]]
  OBVIOUS
<1>0. k \in Nat /\ Radix \in Int
  BY WordAssumption
<1>. HIDE DEF t
<1>4. \E f : f = Body(f)
  <2>1. PICK f : f = [i \in 0 .. k |-> IF i = 0 THEN 0 ELSE f[i - 1] * Radix + t[i]]
    BY <1>0, <1>2, DigitsExist, Zenon
  <2>2. f = Body(f)
    BY <1>3, <2>1, Zenon
  <2>. QED  BY <2>2
<1>5. c = Body(c)
  BY <1>4, Zenon
<1>. HIDE DEF Body, c
<1>6. c = [i \in 0 .. k |-> IF i = 0 THEN 0 ELSE c[i - 1] * Radix + t[i]]
  BY <1>3, <1>5, Zenon
<1>7. c[k] \in Int
  BY <1>0, <1>2, <1>6, DigitsType, Zenon
<1>. QED  BY <1>1, <1>7

\* The elements walked over depend on where pointers begin only.
LEMMA WalkedSame ==
  ASSUME NEW e, NEW h, NEW o \in Int, NEW n \in Nat,
         \A i \in 0 .. n - 1 : (e[o + i].type \in Pointers) <=> (h[o + i].type \in Pointers)
  PROVE  Walked(e, o, n) = Walked(h, o, n)
<1>1. ASSUME NEW met, NEW i \in 0 .. n - 1
      PROVE  (\A k \in 1 .. PtrBytes - 1 : i >= k /\ met[i - k] => e[o + i - k].type \notin Pointers)
           = (\A k \in 1 .. PtrBytes - 1 : i >= k /\ met[i - k] => h[o + i - k].type \notin Pointers)
  <2>1. ASSUME NEW k \in 1 .. PtrBytes - 1, i >= k
        PROVE  (e[o + i - k].type \in Pointers) <=> (h[o + i - k].type \in Pointers)
    <3>1. i - k \in 0 .. n - 1 /\ o + i - k = o + (i - k)
      BY <2>1, WordAssumption
    <3>. QED  BY <3>1
  <2>. QED  BY <2>1
<1>. DEFINE Met(x, met) == [i \in 0 .. n - 1 |-> \A k \in 1 .. PtrBytes - 1 :
                                i >= k /\ met[i - k] => x[o + i - k].type \notin Pointers]
            walked(x) == CHOOSE met : met = Met(x, met)
<1>2. ASSUME NEW met PROVE Met(e, met) = Met(h, met)
  BY <1>1
<1>3. Walked(e, o, n) = {i \in 0 .. n - 1 : walked(e)[i]} /\ Walked(h, o, n) = {i \in 0 .. n - 1 : walked(h)[i]}
  BY DEF Walked
<1>. HIDE DEF Met
<1>4. walked(e) = walked(h)
  BY <1>2
<1>. QED  BY <1>3, <1>4, Zenon

\* What is read of elements of the sorts in has.
Mixed(e, o, at, has) ==
  (\E i \in at : i # 0 /\ e[o + i].type \in Pointers) \/ e[o].type = "Tail" \/ Cardinality(has) > 1
IsOnePointer(e, o, n, at, has) == ~Mixed(e, o, at, has) /\ n = PtrBytes /\ has \in {{"stack"}, {"ptr"}}
IsOneNumber(e, o, n, at, has) == ~Mixed(e, o, at, has) /\ has = {"imm"}

\* One pointer, one number, or something opaque is read.
LEMMA TogetherIs ==
  ASSUME NEW e, NEW o, NEW n, NEW at, NEW has, NEW v, v = Together(e, o, n, at, has)
  PROVE  /\ IsOnePointer(e, o, n, at, has) => v = DynamicValue(e[o].type, e[o].nr, AsInt(e, o, PtrBytes))
         /\ IsOneNumber(e, o, n, at, has) => v = Imm(AsInt(e, o, n))
         /\ ~IsOnePointer(e, o, n, at, has) /\ ~IsOneNumber(e, o, n, at, has) =>
              v \in {Plain("Tainted"), Plain("Unknown"), Plain("Dead")}
<1>. DEFINE mixed == Mixed(e, o, at, has)
            A == "tainted" \in has \/ ("stack" \in has /\ (mixed \/ n # PtrBytes))
            B == mixed /\ has \cap {"tainted", "stack"} = {}
            C == ~mixed /\ n = PtrBytes /\ has \in {{"stack"}, {"ptr"}}
            D == ~mixed /\ has = {"imm"}
            E == ~mixed /\ has = {"dead"}
<1>1. v = CASE A -> Plain("Tainted")
            [] B -> Plain("Unknown")
            [] C -> DynamicValue(e[o].type, e[o].nr, AsInt(e, o, PtrBytes))
            [] D -> Imm(AsInt(e, o, n))
            [] E -> Plain("Dead")
            [] OTHER -> Plain("Unknown")
  BY DEF Together, Mixed
<1>2. C => ~A /\ ~B /\ ~D /\ ~E
  OBVIOUS
<1>3. D => ~A /\ ~B /\ ~C /\ ~E
  OBVIOUS
<1>4. (A => ~B) /\ (E => ~A /\ ~B)
  OBVIOUS
<1>5. (C <=> IsOnePointer(e, o, n, at, has)) /\ (D <=> IsOneNumber(e, o, n, at, has))
  BY DEF IsOnePointer, IsOneNumber
<1>. HIDE DEF A, B, C, D, E
<1>6. CASE A
  BY <1>1, <1>2, <1>3, <1>4, <1>5, <1>6
<1>7. CASE B
  BY <1>1, <1>2, <1>3, <1>4, <1>5, <1>7
<1>8. CASE ~A /\ ~B
  BY <1>1, <1>2, <1>3, <1>4, <1>5, <1>8
<1>. QED  BY <1>6, <1>7, <1>8

\* What is read is a value.
LEMMA ReadType ==
  ASSUME NEW n \in Nat, NEW e \in Bytes(n), NEW o \in Nat, NEW k \in Nat, o + k <= n
  PROVE  /\ GetElements(e, o, k) \in Values
         /\ IsImm(GetElements(e, o, k)) => GetElements(e, o, k).nr = 0
<1>. DEFINE at == Walked(e, o, k)
            has == {Sort[e[o + i].type] : i \in {j \in at : e[o + j].type # "Tail"}}
            v == Together(e, o, k, at, has)
<1>1. GetElements(e, o, k) = v
  BY DEF GetElements
<1>5. IsOnePointer(e, o, k, at, has) => e[o].type \in Pointers
  <2>. SUFFICES ASSUME IsOnePointer(e, o, k, at, has) PROVE e[o].type \in Pointers
    OBVIOUS
  <2>1. PICK i \in at : Sort[e[o + i].type] \in {"stack", "ptr"} /\ e[o + i].type # "Tail"
    <3>1. "stack" \in has \/ "ptr" \in has
      BY DEF IsOnePointer
    <3>. QED  BY <3>1
  <2>2. e[o + i].type \in ElementTypes
    <3>1. i \in 0 .. k - 1
      BY DEF Walked
    <3>2. o + i \in 0 .. n - 1
      BY <3>1
    <3>3. e[o + i] \in Elements
      BY <3>2 DEF Bytes
    <3>. QED  BY <3>3 DEF Elements
  <2>3. e[o + i].type \in Pointers
    <3>. DEFINE t == e[o + i].type
    <3>1. t \in ElementTypes /\ t # "Tail" /\ Sort[t] \in {"stack", "ptr"}
      BY <2>1, <2>2
    <3>. HIDE DEF t
    <3>2. t \in Pointers
      BY <3>1 DEF Sort, ElementTypes, Opaque, Tails, Pointers
    <3>. QED  BY <3>2 DEF t
  <2>4. i = 0 /\ o + 0 = o
    BY <2>3 DEF IsOnePointer, Mixed
  <2>. QED  BY <2>3, <2>4
<1>. HIDE DEF at, has, v
<1>2. CASE IsOnePointer(e, o, k, at, has)
  <2>1. k = PtrBytes /\ v = DynamicValue(e[o].type, e[o].nr, AsInt(e, o, PtrBytes))
    BY <1>2, TogetherIs DEF v, IsOnePointer
  <2>2. AsInt(e, o, k) \in Int
    BY AsIntType
  <2>3. o \in 0 .. n - 1
    BY <2>1, WordAssumption
  <2>4. e[o] \in Elements
    BY <2>3 DEF Bytes
  <2>5. e[o].type \in ElementTypes \ Tails
    BY <1>2, <1>5 DEF ElementTypes, Pointers, Tails
  <2>6. e[o].type # "Immediate"
    BY <1>2, <1>5 DEF Pointers
  <2>. QED  BY <1>1, <2>1, <2>2, <2>4, <2>5, <2>6 DEF Elements, Values, DynamicValue, IsImm
<1>3. CASE IsOneNumber(e, o, k, at, has)
  <2>1. v = Imm(AsInt(e, o, k))
    BY <1>3, TogetherIs DEF v
  <2>2. AsInt(e, o, k) \in Int
    BY AsIntType
  <2>. QED  BY <1>1, <2>1, <2>2 DEF Values, Imm, DynamicValue, ElementTypes, Tails
<1>4. CASE ~IsOnePointer(e, o, k, at, has) /\ ~IsOneNumber(e, o, k, at, has)
  <2>1. v \in {Plain("Tainted"), Plain("Unknown"), Plain("Dead")}
    BY <1>4, TogetherIs DEF v
  <2>. QED  BY <1>1, <2>1 DEF Values, Plain, DynamicValue, ElementTypes, Opaque, Tails, IsImm
<1>. QED  BY <1>2, <1>3, <1>4

\* Where nothing was lost a reader sees what he saw, if he saw anything.
LEMMA ReadLossless ==
  ASSUME NEW n \in Nat, NEW l \in Bytes(n), NEW h \in Bytes(n), Lossless(l, h, n),
         NEW o \in Nat, NEW k \in Nat \ {0}, o + k <= n, Sure(GetElements(l, o, k))
  PROVE  GetElements(h, o, k) = GetElements(l, o, k)
<1>. DEFINE at == Walked(l, o, k)
            Has(e, w) == {Sort[e[o + i].type] : i \in {j \in w : e[o + j].type # "Tail"}}
            has == Has(l, at)
<1>1. \A i \in 0 .. k - 1 : o + i \in 0 .. n - 1
  OBVIOUS
<1>2. at \subseteq 0 .. k - 1
  BY DEF Walked
<1>3. ASSUME NEW i \in 0 .. k - 1
      PROVE  /\ l[o + i] \in Elements /\ h[o + i] = [l[o + i] EXCEPT !.type = h[o + i].type]
             /\ h[o + i].type = l[o + i].type \/ (l[o + i].type = "Unknown" /\ h[o + i].type = "Dead")
  BY <1>1, Zenon DEF Lossless, Retyped, Bytes
<1>4. ASSUME NEW i \in 0 .. k - 1 PROVE (l[o + i].type \in Pointers) <=> (h[o + i].type \in Pointers)
  BY <1>3, Zenon DEF Pointers
<1>5. Walked(h, o, k) = at
  BY <1>4, WalkedSame
<1>6. GetElements(l, o, k) = Together(l, o, k, at, has)
      /\ GetElements(h, o, k) = Together(h, o, k, at, Has(h, at))
  BY <1>5 DEF GetElements
<1>. HIDE DEF at
<1>7. IsOnePointer(l, o, k, at, has) \/ IsOneNumber(l, o, k, at, has)
  <2>1. ~Sure(Plain("Tainted")) /\ ~Sure(Plain("Unknown")) /\ ~Sure(Plain("Dead"))
    BY DEF Sure, IsImm, IsPtr, Plain, DynamicValue, Pointers
  <2>. HIDE DEF has
  <2>. QED  BY <1>6, <2>1, TogetherIs
<1>8. has \in {{"stack"}, {"ptr"}, {"imm"}} /\ ~Mixed(l, o, at, has)
  BY <1>7, Zenon DEF IsOnePointer, IsOneNumber
<1>9. ASSUME NEW i \in at PROVE l[o + i].type # "Unknown" /\ h[o + i].type = l[o + i].type
  <2>1. l[o + i].type # "Unknown"
    <3>. SUFFICES ASSUME l[o + i].type = "Unknown" PROVE FALSE
      OBVIOUS
    <3>1. Sort[l[o + i].type] \in has
      BY <1>9
    <3>2. "unknown" \in has
      BY <3>1 DEF Sort
    <3>. QED  BY <1>8, <3>2, Zenon
  <2>. QED  BY <1>2, <1>3, <2>1, Zenon
<1>10. Has(h, at) = has
  <2>1. \A i \in at : h[o + i].type = l[o + i].type
    BY <1>9
  <2>. QED  BY <2>1
<1>11. /\ l[o] \in Elements /\ h[o] = [l[o] EXCEPT !.type = h[o].type]
       /\ h[o].type = l[o].type \/ (l[o].type = "Unknown" /\ h[o].type = "Dead")
  <2>1. o \in 0 .. n - 1
    OBVIOUS
  <2>. QED  BY <2>1 DEF Lossless, Retyped, Bytes
<1>12. Mixed(h, o, at, has) <=> Mixed(l, o, at, has)
  <2>1. \A i \in at : h[o + i].type = l[o + i].type
    BY <1>9
  <2>. HIDE DEF has
  <2>. QED  BY <1>11, <2>1 DEF Mixed
<1>13. ASSUME NEW i \in 1 .. k PROVE l[o + k - i].data = h[o + k - i].data
  <2>1. k - i \in 0 .. k - 1 /\ o + k - i = o + (k - i)
    OBVIOUS
  <2>2. l[o + (k - i)] \in Elements /\ h[o + (k - i)] = [l[o + (k - i)] EXCEPT !.type = h[o + (k - i)].type]
    BY <1>3, <2>1
  <2>3. l[o + (k - i)].data = h[o + (k - i)].data
    BY <2>2 DEF Elements
  <2>. QED  BY <2>1, <2>3
<1>14. AsInt(l, o, k) = AsInt(h, o, k)
  BY <1>13, AsIntSame
<1>. HIDE DEF has, Has
<1>15. CASE IsOneNumber(l, o, k, at, has)
  <2>1. IsOneNumber(h, o, k, at, has)
    BY <1>12, <1>15 DEF IsOneNumber
  <2>. QED  BY <1>6, <1>10, <1>14, <1>15, <2>1, TogetherIs
<1>16. CASE IsOnePointer(l, o, k, at, has)
  <2>1. IsOnePointer(h, o, k, at, has) /\ k = PtrBytes
    BY <1>12, <1>16 DEF IsOnePointer
  <2>2. Together(l, o, k, at, has) = DynamicValue(l[o].type, l[o].nr, AsInt(l, o, PtrBytes))
    BY <1>16, TogetherIs
  <2>3. Together(h, o, k, at, has) = DynamicValue(h[o].type, h[o].nr, AsInt(h, o, PtrBytes))
    BY <2>1, TogetherIs
  <2>4. l[o].type # "Unknown"
    BY <1>6, <2>2 DEF Sure, IsImm, IsPtr, DynamicValue, Pointers
  <2>5. h[o].type = l[o].type /\ h[o].nr = l[o].nr
    <3>1. h[o].type = l[o].type
      BY <1>11, <2>4
    <3>. QED  BY <1>11, <3>1 DEF Elements
  <2>. QED  BY <1>6, <1>10, <1>14, <2>1, <2>2, <2>3, <2>5
<1>. QED  BY <1>7, <1>15, <1>16

-----------------------------------------------------------------------------
(* Writing.                                                                *)

\* No pointer lies across an element that is no tail.
LEMMA NoneAcross ==
  ASSUME NEW n \in Nat, NEW e \in Bytes(n), NEW o \in 0 .. n - 1, e[o].type \notin Tails
  PROVE  Apart(e, n, o)
<1>. SUFFICES ASSUME NEW i \in 0 .. n - 1, i < o, e[i].type \in Pointers, i + PtrBytes > o PROVE FALSE
  BY WordAssumption DEF Apart
<1>1. o \in i + 1 .. i + PtrBytes - 1
  BY WordAssumption
<1>2. e[o].type = TailOf(e[i].type)
  BY <1>1 DEF Bytes, Whole
<1>. QED  BY <1>2 DEF TailOf, Tails

\* h is e but for the elements from a to b - 1, which are whole by themselves.
Pasted(e, h, n, a, b) ==
  /\ \A k \in 0 .. n - 1 : k < a \/ k >= b => h[k] = e[k]
  /\ \A k \in a .. b - 1 : h[k].type \in Pointers =>
        k + PtrBytes <= b /\ \A j \in k + 1 .. k + PtrBytes - 1 : h[j].type = TailOf(h[k].type)

\* What is whole by itself can be pasted where no pointer lies across the
\* beginning.
LEMMA PasteFacts ==
  ASSUME NEW n \in Nat, NEW e \in Bytes(n), NEW a \in 0 .. n, NEW b \in a .. n, Apart(e, n, a),
         NEW h \in [0 .. n - 1 -> Elements], Pasted(e, h, n, a, b)
  PROVE  h \in Bytes(n) /\ Apart(h, n, b)
<1>. USE DEF Pasted
<1>1. Whole(e, n)
  BY DEF Bytes
<1>2. ASSUME NEW k \in 0 .. n - 1, h[k].type \in Pointers
      PROVE  /\ k + PtrBytes <= n /\ \A j \in k + 1 .. k + PtrBytes - 1 : h[j].type = TailOf(h[k].type)
             /\ k < b => k + PtrBytes <= b
  <2>1. CASE k \in a .. b - 1
    BY <1>2, <2>1, WordAssumption
  <2>2. CASE k < a
    <3>1. h[k] = e[k] /\ e[k].type \in Pointers /\ k + PtrBytes <= a
      BY <1>2, <2>2 DEF Apart
    <3>2. \A j \in k + 1 .. k + PtrBytes - 1 : e[j].type = TailOf(e[k].type)
      BY <1>1, <3>1 DEF Whole
    <3>3. \A j \in k + 1 .. k + PtrBytes - 1 : j \in 0 .. n - 1 /\ j < a
      BY <3>1, WordAssumption
    <3>. QED  BY <3>1, <3>2, <3>3, WordAssumption
  <2>3. CASE k >= b
    <3>1. h[k] = e[k] /\ k + PtrBytes <= n /\ \A j \in k + 1 .. k + PtrBytes - 1 : e[j].type = TailOf(e[k].type)
      BY <1>1, <1>2, <2>3 DEF Whole
    <3>2. \A j \in k + 1 .. k + PtrBytes - 1 : j \in 0 .. n - 1 /\ j >= b
      BY <2>3, <3>1, WordAssumption
    <3>. QED  BY <2>3, <3>1, <3>2
  <2>. QED  BY <2>1, <2>2, <2>3
<1>3. Whole(h, n)
  BY <1>2 DEF Whole
<1>. QED  BY <1>2, <1>3 DEF Bytes, Apart

\* Before a tail that has anything but tails before it there is a last one of
\* that kind.
LEMMA HeadExists ==
  ASSUME NEW e, NEW o \in Nat, ~(\A k \in 0 .. o - 1 : e[k].type \in Tails)
  PROVE  \E k \in 0 .. o - 1 : e[k].type \notin Tails /\ \A j \in k + 1 .. o - 1 : e[j].type \in Tails
<1>. DEFINE T == {x \in Nat : x < o /\ e[o - 1 - x].type \notin Tails}
<1>1. PICK k \in 0 .. o - 1 : e[k].type \notin Tails
  OBVIOUS
<1>2. o - 1 - k \in T
  <2>1. o - 1 - k \in Nat /\ o - 1 - k < o /\ o - 1 - (o - 1 - k) = k
    OBVIOUS
  <2>. QED  BY <1>1, <2>1
<1>3. PICK x \in T : \A y \in T : x <= y
  <2>1. T \subseteq Nat /\ T # {}
    BY <1>2, Zenon
  <2>. HIDE DEF T
  <2>. QED  BY <2>1, LeastElement, Zenon
<1>4. ASSUME NEW j \in o - x .. o - 1 PROVE e[j].type \in Tails
  <2>. SUFFICES ASSUME e[j].type \notin Tails PROVE FALSE
    OBVIOUS
  <2>1. o - 1 - j \in Nat /\ o - 1 - j < x /\ o - 1 - j < o /\ o - 1 - (o - 1 - j) = j
    BY <1>3
  <2>2. o - 1 - j \in T
    BY <2>1
  <2>. QED  BY <1>3, <2>1, <2>2
<1>5. o - 1 - x \in 0 .. o - 1 /\ (o - 1 - x) + 1 = o - x /\ e[o - 1 - x].type \notin Tails
  BY <1>3
<1>. QED  BY <1>4, <1>5

\* The first byte to be overwritten is no tail any more, and pointers stay whole.
Freed(n, o, i) == {e \in Bytes(n) : i # 0 => e[o].type \notin Tails}

\* One turn of the loop of markUnknown().
LEMMA MarkByteFacts ==
  ASSUME NEW n \in Nat, NEW o \in Nat, NEW i \in Nat, o + i < n, NEW e \in Freed(n, o, i)
  PROVE  MarkByte(e, o, i) \in Freed(n, o, i + 1) \cup {Thrown}
<1>. DEFINE t == e[o + i].type
            h == MarkByte(e, o, i)
            IsHead(k) == e[k].type \notin Tails /\ \A j \in k + 1 .. o - 1 : e[j].type \in Tails
            c == CHOOSE k \in 0 .. o - 1 : IsHead(k)
<1>1. e \in Bytes(n) /\ (i # 0 => e[o].type \notin Tails) /\ o + i \in 0 .. n - 1 /\ o \in 0 .. n - 1
  BY DEF Freed
<1>2. e \in [0 .. n - 1 -> Elements]
  BY <1>1 DEF Bytes
<1>3. e[o + i] \in Elements /\ t \in ElementTypes
  BY <1>1, <1>2 DEF Elements
<1>4. h = CASE t \in {"Dead", "Immediate"} -> [e EXCEPT ![o + i].type = "Unknown"]
            [] t \in Tails -> IF i # 0 \/ \A k \in 0 .. o - 1 : e[k].type \in Tails THEN Thrown
                              ELSE ClearTail(e, c)
            [] t \in {"Tainted", "Unknown"} -> e
            [] OTHER -> ClearTail(e, o)
  BY DEF MarkByte
<1>. HIDE DEF h, c
<1>5. CASE t \in {"Dead", "Immediate"}
  <2>. DEFINE x == [e[o + i] EXCEPT !.type = "Unknown"]
  <2>1. h = [e EXCEPT ![o + i] = x]
    BY <1>4, <1>5 DEF Tails
  <2>2. x \in Elements /\ x.type = "Unknown"
    BY <1>3 DEF Elements, ElementTypes, Opaque
  <2>3. Apart(e, n, o + i)
    BY <1>1, <1>5, NoneAcross DEF Tails
  <2>. HIDE DEF x
  <2>4. h \in Bytes(n)
    BY <1>1, <2>1, <2>2, <2>3, OverwriteFacts, Zenon DEF Pointers
  <2>5. h[o].type \notin Tails
    <3>1. CASE i = 0
      BY <1>1, <1>2, <2>1, <2>2, <3>1 DEF Tails
    <3>2. CASE i # 0
      BY <1>1, <1>2, <2>1, <3>2
    <3>. QED  BY <3>1, <3>2
  <2>. QED  BY <2>4, <2>5 DEF Freed, h
<1>6. CASE t \in Tails
  <2>1. CASE i # 0 \/ \A k \in 0 .. o - 1 : e[k].type \in Tails
    BY <1>4, <1>6, <2>1 DEF h, Tails
  <2>2. CASE i = 0 /\ ~(\A k \in 0 .. o - 1 : e[k].type \in Tails)
    <3>1. h = ClearTail(e, c)
      BY <1>4, <1>6, <2>2 DEF Tails
    <3>2. c \in 0 .. o - 1 /\ IsHead(c)
      BY <2>2, HeadExists, Zenon DEF c
    <3>3. c \in 0 .. n - 1 /\ e[c].type \notin Tails /\ o \in c + 1 .. n - 1 /\ \A j \in c + 1 .. o : e[j].type \in Tails
      BY <1>1, <1>6, <2>2, <3>2
    <3>4. h \in Bytes(n)
      BY <1>1, <3>1, <3>3, ClearTailFacts
    <3>5. h[o].type = IF e[o].type = "StackPtrTail" THEN "Tainted" ELSE "Unknown"
      BY <1>1, <3>1, <3>3, ClearTailFacts
    <3>. QED  BY <3>4, <3>5 DEF Freed, Tails, h
  <2>. QED  BY <2>1, <2>2
<1>7. CASE t \in {"Tainted", "Unknown"}
  <2>1. h = e
    BY <1>4, <1>7 DEF Tails
  <2>2. e[o].type \notin Tails
    <3>1. CASE i = 0
      BY <1>7, <3>1 DEF Tails
    <3>. QED  BY <1>1, <3>1
  <2>. QED  BY <1>1, <2>1, <2>2 DEF Freed, h
<1>8. CASE t \notin {"Dead", "Immediate", "Tainted", "Unknown"} \cup Tails
  <2>1. h = ClearTail(e, o)
    BY <1>4, <1>8
  <2>2. e[o].type \notin Tails
    <3>1. CASE i = 0
      BY <1>8, <3>1
    <3>. QED  BY <1>1, <3>1
  <2>3. h \in Bytes(n) /\ h[o].type = IF e[o].type = "StackPtr" THEN "Tainted" ELSE "Unknown"
    BY <1>1, <2>1, <2>2, ClearTailFacts
  <2>. QED  BY <2>3 DEF Freed, Tails, h
<1>. QED  BY <1>5, <1>6, <1>7, <1>8

\* All of markUnknown().
LEMMA MarkUnknownFacts ==
  ASSUME NEW n \in Nat, NEW e \in Bytes(n), NEW o \in Nat, NEW k \in Nat, o + k <= n
  PROVE  MarkUnknown(e, o, k) \in Freed(n, o, k) \cup {Thrown}
<1>. DEFINE Turn(i, x) == IF x = Thrown THEN Thrown ELSE MarkByte(x, o, i - 1)
            Body(f) == [i \in 0 .. k |-> IF i = 0 THEN e ELSE Turn(i, f[i - 1])]
            c == CHOOSE f : f = Body(f)
            X == [i \in 0 .. k |-> Freed(n, o, i) \cup {Thrown}]
<1>1. MarkUnknown(e, o, k) = c[k]
  BY DEF MarkUnknown
<1>2. e \in X[0]
  BY DEF Freed
<1>3. ASSUME NEW i \in 1 .. k, NEW x \in X[i - 1] PROVE Turn(i, x) \in X[i]
  <2>1. x \in Freed(n, o, i - 1) \cup {Thrown} /\ i - 1 \in Nat /\ o + (i - 1) < n /\ (i - 1) + 1 = i
    BY <1>3
  <2>2. x # Thrown => MarkByte(x, o, i - 1) \in Freed(n, o, (i - 1) + 1) \cup {Thrown}
    BY <2>1, MarkByteFacts
  <2>3. X[i] = Freed(n, o, i) \cup {Thrown}
    OBVIOUS
  <2>. HIDE DEF X
  <2>. QED  BY <2>1, <2>2, <2>3
<1>. HIDE DEF Turn, X, c
<1>4. \E f : f = Body(f)
  <2>. DEFINE G == [y \in (1 .. k) \X UNION {X[i] : i \in 0 .. k} |-> Turn(y[1], y[2])]
  <2>1. ASSUME NEW i \in 1 .. k, NEW x \in X[i - 1] PROVE G[<<i, x>>] = Turn(i, x) /\ G[<<i, x>>] \in X[i]
    <3>1. i - 1 \in 0 .. k
      OBVIOUS
    <3>2. x \in UNION {X[j] : j \in 0 .. k}
      BY <2>1, <3>1
    <3>3. G[<<i, x>>] = Turn(i, x)
      BY <3>2
    <3>. QED  BY <1>3, <3>3
  <2>. HIDE DEF G
  <2>2. PICK f \in [0 .. k -> UNION {X[i] : i \in 0 .. k}] :
               Looping(f, k, e, G) /\ \A i \in 0 .. k : f[i] \in X[i]
    BY <1>2, <2>1, LoopThrough, Zenon
  <2>3. f[0] = e /\ \A i \in 1 .. k : f[i] = G[<<i, f[i - 1]>>]
    BY <2>2 DEF Looping
  <2>4. ASSUME NEW i \in 1 .. k PROVE f[i] = Turn(i, f[i - 1])
    <3>0. i - 1 \in 0 .. k
      OBVIOUS
    <3>1. f[i - 1] \in X[i - 1]
      BY <2>2, <3>0, Zenon
    <3>. QED  BY <2>1, <2>3, <3>1, Zenon
  <2>5. f = Body(f)
    <3>1. \A i \in 0 .. k : f[i] = IF i = 0 THEN e ELSE Turn(i, f[i - 1])
      BY <2>3, <2>4, Turns, Zenon
    <3>2. f = [i \in 0 .. k |-> f[i]]
      BY <2>2
    <3>. QED  BY <3>1, <3>2, Zenon
  <2>. QED  BY <2>5, Zenon
<1>5. c = Body(c)
  BY <1>4, Zenon DEF c
<1>6. c[0] = e /\ \A i \in 1 .. k : c[i] = Turn(i, c[i - 1])
  <2>1. \A i \in 0 .. k : c[i] = IF i = 0 THEN e ELSE Turn(i, c[i - 1])
    BY <1>5, Zenon
  <2>. HIDE DEF Body
  <2>. QED  BY <2>1, Turns, Zenon
<1>7. \A i \in 1 .. k : c[i - 1] \in X[i - 1] => c[i] \in X[i]
  BY <1>3, <1>6
<1>8. c[k] \in X[k]
  <2>1. \A i \in 0 .. k : c[i] \in X[i]
    BY <1>2, <1>6, <1>7, LoopKeeps
  <2>. QED  BY <2>1
<1>. QED  BY <1>1, <1>8 DEF X

\* What setElements() writes is whole.
LEMMA SetMarkedFacts ==
  ASSUME NEW n \in Nat, NEW o \in Nat, NEW k \in Nat, o + k <= n, NEW m \in Freed(n, o, k) \cup {Thrown},
         NEW v \in Values, NEW cond \in BOOLEAN
  PROVE  SetMarked(m, o, k, v, cond) \in Bytes(n) \cup {Thrown}
<1>. DEFINE h == SetMarked(m, o, k, v, cond)
<1>1. CASE cond \/ m = Thrown
  BY <1>1 DEF SetMarked
<1>2. CASE ~cond /\ m # Thrown
  <2>1. m \in Bytes(n) /\ m \in [0 .. n - 1 -> Elements] /\ (k # 0 => m[o].type \notin Tails)
    BY <1>2 DEF Freed, Bytes
  <2>2. k # 0 => Apart(m, n, o)
    <3>1. CASE k # 0
      <4>1. o \in 0 .. n - 1
        BY <3>1
      <4>. QED  BY <2>1, <3>1, <4>1, NoneAcross
    <3>. QED  BY <3>1
  <2>3. ASSUME NEW f \in [0 .. n - 1 -> Elements], \A j \in 0 .. n - 1 : j \notin o .. o + k - 1 => f[j] = m[j],
               \A j \in o .. o + k - 1 : f[j].type \in Pointers =>
                  j + PtrBytes <= o + k /\ \A u \in j + 1 .. j + PtrBytes - 1 : f[u].type = TailOf(f[j].type)
        PROVE  f \in Bytes(n)
    <3>1. CASE k # 0
      <4>1. o \in 0 .. n /\ o + k \in o .. n
        OBVIOUS
      <4>2. \A j \in 0 .. n - 1 : j < o \/ j >= o + k => f[j] = m[j]
        BY <2>3
      <4>3. \A j \in o .. o + k - 1 : f[j].type \in Pointers =>
               j + PtrBytes <= o + k /\ \A u \in j + 1 .. j + PtrBytes - 1 : f[u].type = TailOf(f[j].type)
        BY <2>3
      <4>4. Apart(m, n, o) /\ f \in [0 .. n - 1 -> Elements] /\ m \in Bytes(n)
        BY <2>1, <2>2, <2>3, <3>1
      <4>5. Pasted(m, f, n, o, o + k)
        BY <4>2, <4>3 DEF Pasted
      <4>. QED  BY <4>1, <4>4, <4>5, PasteFacts
    <3>2. CASE k = 0
      <4>1. f = m
        BY <2>1, <2>3, <3>2
      <4>. QED  BY <2>1, <4>1
    <3>. QED  BY <3>1, <3>2
  <2>4. CASE IsPtr(v)
    <3>1. h = SetPtr(m, o, k, v)
      BY <1>2, <2>4 DEF SetMarked, IsImm, IsPtr, Pointers
    <3>2. CASE k = PtrBytes
      <4>. DEFINE f == [j \in DOMAIN m |->
                CASE j = o -> [type |-> v.type, nr |-> v.nr, data |-> Digit(v.val, 0)]
                  [] j \in o + 1 .. o + k - 1 ->
                        [type |-> IF v.type = "StackPtr" THEN "StackPtrTail" ELSE "Tail",
                         nr |-> m[j].nr, data |-> Digit(v.val, j - o)]
                  [] OTHER -> m[j]]
      <4>1. h = f
        BY <3>1, <3>2 DEF SetPtr
      <4>2. ASSUME NEW j \in 0 .. n - 1
            PROVE  /\ f[j] \in Elements
                   /\ j = o => f[j].type = v.type
                   /\ j \in o + 1 .. o + k - 1 => f[j].type = TailOf(v.type)
                   /\ j \notin o .. o + k - 1 => f[j] = m[j]
        <5>1. m[j] \in Elements /\ f[j] =
                CASE j = o -> [type |-> v.type, nr |-> v.nr, data |-> Digit(v.val, 0)]
                  [] j \in o + 1 .. o + k - 1 ->
                        [type |-> IF v.type = "StackPtr" THEN "StackPtrTail" ELSE "Tail",
                         nr |-> m[j].nr, data |-> Digit(v.val, j - o)]
                  [] OTHER -> m[j]
          BY <2>1
        <5>2. CASE j = o
          <6>1. f[j] = [type |-> v.type, nr |-> v.nr, data |-> Digit(v.val, 0)]
            BY <5>1, <5>2
          <6>2. Digit(v.val, 0) \in Int
            BY DigitType DEF Values
          <6>. QED  BY <3>2, <5>2, <6>1, <6>2, WordAssumption DEF Elements, Values
        <5>3. CASE j \in o + 1 .. o + k - 1
          <6>1. f[j] = [type |-> TailOf(v.type), nr |-> m[j].nr, data |-> Digit(v.val, j - o)]
            BY <5>1, <5>3 DEF TailOf
          <6>2. Digit(v.val, j - o) \in Int
            BY <5>3, DigitType DEF Values
          <6>. QED  BY <5>1, <5>3, <6>1, <6>2 DEF Elements, TailOf, ElementTypes, Tails
        <5>4. CASE j \notin o .. o + k - 1
          BY <3>2, <5>1, <5>4, WordAssumption
        <5>. QED  BY <5>2, <5>3, <5>4
      <4>3. f \in [0 .. n - 1 -> Elements]
        <5>1. DOMAIN m = 0 .. n - 1
          BY <2>1
        <5>. QED  BY <4>2, <5>1, Zenon
      <4>. HIDE DEF f
      <4>4. ASSUME NEW j \in o .. o + k - 1, f[j].type \in Pointers
            PROVE  j + PtrBytes <= o + k /\ \A u \in j + 1 .. j + PtrBytes - 1 : f[u].type = TailOf(f[j].type)
        <5>1. j \in 0 .. n - 1
          OBVIOUS
        <5>2. j = o
          BY <4>2, <4>4, <5>1 DEF TailOf, Pointers
        <5>. QED  BY <3>2, <4>2, <5>1, <5>2
      <4>. QED  BY <2>3, <4>1, <4>2, <4>3, <4>4, Zenon
    <3>3. CASE k # PtrBytes
      BY <3>1, <3>3 DEF SetPtr
    <3>. QED  BY <3>2, <3>3
  <2>5. CASE IsImm(v)
    <3>1. h = SetImm(m, o, k, v)
      BY <1>2, <2>5 DEF SetMarked, IsImm, IsPtr, Pointers
    <3>2. ASSUME NEW j \in 0 .. n - 1
          PROVE  /\ h[j] \in Elements
                 /\ j \in o .. o + k - 1 => h[j].type = "Immediate"
                 /\ j \notin o .. o + k - 1 => h[j] = m[j]
      <4>1. m[j] \in Elements /\ h[j] = IF j \in o .. o + k - 1
                 THEN [type |-> "Immediate", nr |-> m[j].nr, data |-> Digit(v.val, j - o)] ELSE m[j]
        BY <2>1, <3>1 DEF SetImm
      <4>2. j \in o .. o + k - 1 => Digit(v.val, j - o) \in Int
        BY DigitType DEF Values
      <4>. QED  BY <4>1, <4>2 DEF Elements, ElementTypes
    <3>3. h \in [0 .. n - 1 -> Elements]
      <4>1. h = [j \in 0 .. n - 1 |-> h[j]]
        BY <2>1, <3>1 DEF SetImm
      <4>. HIDE DEF h
      <4>. QED  BY <3>2, <4>1
    <3>. HIDE DEF h
    <3>4. \A j \in o .. o + k - 1 : j \in 0 .. n - 1 /\ h[j].type \notin Pointers
      BY <3>2 DEF Pointers
    <3>5. h \in Bytes(n)
      BY <2>3, <3>2, <3>3, <3>4
    <3>. QED  BY <3>5 DEF h
  <2>6. CASE ~IsPtr(v) /\ ~IsImm(v)
    <3>1. h = SetType(m, o, k, v.type)
      BY <1>2, <2>6 DEF SetMarked
    <3>2. ASSUME NEW j \in 0 .. n - 1
          PROVE  /\ h[j] \in Elements
                 /\ j \in o .. o + k - 1 => h[j].type = v.type
                 /\ j \notin o .. o + k - 1 => h[j] = m[j]
      <4>1. m[j] \in Elements /\ h[j] = IF j \in o .. o + k - 1
                 THEN [type |-> v.type, nr |-> m[j].nr, data |-> 0] ELSE m[j]
        BY <2>1, <3>1 DEF SetType
      <4>. QED  BY <4>1 DEF Elements, Values
    <3>3. h \in [0 .. n - 1 -> Elements]
      <4>1. h = [j \in 0 .. n - 1 |-> h[j]]
        BY <2>1, <3>1 DEF SetType
      <4>. HIDE DEF h
      <4>. QED  BY <3>2, <4>1
    <3>. HIDE DEF h
    <3>4. \A j \in o .. o + k - 1 : j \in 0 .. n - 1 /\ h[j].type \notin Pointers
      BY <2>6, <3>2 DEF IsPtr
    <3>5. h \in Bytes(n)
      BY <2>3, <3>2, <3>3, <3>4
    <3>. QED  BY <3>5 DEF h
  <2>. QED  BY <2>4, <2>5, <2>6
<1>. QED  BY <1>1, <1>2

\* setElements() tears no pointer apart.
LEMMA SetElementsFacts ==
  ASSUME NEW n \in Nat, NEW e \in Bytes(n), NEW o \in Nat, NEW k \in Nat, o + k <= n,
         NEW v \in Values, NEW cond \in BOOLEAN
  PROVE  SetElements(e, o, k, v, cond) \in Bytes(n) \cup {Thrown}
BY MarkUnknownFacts, SetMarkedFacts, Zenon DEF SetElements

\* One turn of the loop of moveElements(), and the next byte to look at.
NextMoved(src, o1, i) == IF src[o1 + i].type \in Pointers THEN i + PtrBytes ELSE i + 1

\* One turn of the loop of moveElements() writes whole pointers, or parts of
\* them that are opaque.
LEMMA MoveByteFacts ==
  ASSUME NEW n1 \in Nat, NEW n \in Nat, NEW src \in Bytes(n1), NEW dst \in Bytes(n),
         NEW o1 \in Nat, NEW o2 \in Nat, NEW k \in Nat, o1 + k <= n1, o2 + k <= n,
         NEW i \in 0 .. k - 1, Apart(dst, n, o2 + i)
  PROVE  /\ MoveByte(src, dst, o1, o2, k, i) \in Bytes(n)
         /\ NextMoved(src, o1, i) < k => Apart(MoveByte(src, dst, o1, o2, k, i), n, o2 + NextMoved(src, o1, i))
<1>. DEFINE el == src[o1 + i]
            h == MoveByte(src, dst, o1, o2, k, i)
<1>1. /\ src \in [0 .. n1 - 1 -> Elements] /\ Whole(src, n1)
      /\ dst \in [0 .. n - 1 -> Elements]
      /\ o1 + i \in 0 .. n1 - 1 /\ o2 + i \in 0 .. n - 1 /\ \A j \in i .. k - 1 : o2 + j \in 0 .. n - 1
  BY DEF Bytes
<1>2. el \in Elements /\ dst[o2 + i] \in Elements
  BY <1>1
<1>3. CASE el.type \in Pointers /\ k - i < PtrBytes
  <2>1. h = [j \in DOMAIN dst |-> IF j - o2 \in i .. k - 1
                THEN IF el.type = "StackPtr" THEN [dst[o2 + (j - o2)] EXCEPT !.type = "Tainted"]
                                             ELSE [dst[o2 + (j - o2)] EXCEPT !.type = "Unknown"]
                ELSE dst[j]]
    <3>1. /\ el.type \in Pointers /\ k - i < PtrBytes /\ ~(k - i >= PtrBytes)
          /\ el.type \notin {"Immediate", "Dead"} /\ el.type \notin {"Tail", "Unknown"}
      BY <1>3, WordAssumption DEF Pointers
    <3>. QED  BY <3>1, Zenon DEF MoveByte
  <2>2. ASSUME NEW j \in 0 .. n - 1
        PROVE  /\ h[j] \in Elements
               /\ j \in o2 + i .. o2 + k - 1 => h[j].type \in {"Tainted", "Unknown"}
               /\ j \notin o2 + i .. o2 + k - 1 => h[j] = dst[j]
    <3>1. o2 + (j - o2) = j /\ (j - o2 \in i .. k - 1 <=> j \in o2 + i .. o2 + k - 1) /\ dst[j] \in Elements
      BY <1>1
    <3>2. h[j] = IF j \in o2 + i .. o2 + k - 1
                 THEN IF el.type = "StackPtr" THEN [dst[j] EXCEPT !.type = "Tainted"]
                                              ELSE [dst[j] EXCEPT !.type = "Unknown"]
                 ELSE dst[j]
      BY <1>1, <2>1, <3>1, Zenon
    <3>. HIDE DEF h, el
    <3>. QED  BY <3>1, <3>2 DEF Elements, ElementTypes, Opaque
  <2>3. h \in [0 .. n - 1 -> Elements]
    <3>1. h = [j \in 0 .. n - 1 |-> h[j]]
      BY <1>1, <2>1
    <3>. HIDE DEF h
    <3>. QED  BY <2>2, <3>1
  <2>4. ~(NextMoved(src, o1, i) < k)
    BY <1>3, WordAssumption DEF NextMoved
  <2>. HIDE DEF h
  <2>5. h \in Bytes(n)
    <3>1. o2 + i \in 0 .. n /\ o2 + k \in o2 + i .. n
      BY <1>1
    <3>2. \A j \in 0 .. n - 1 : j < o2 + i \/ j >= o2 + k => h[j] = dst[j]
      BY <2>2
    <3>3. \A j \in o2 + i .. o2 + k - 1 : h[j].type \in Pointers =>
             j + PtrBytes <= o2 + k /\ \A u \in j + 1 .. j + PtrBytes - 1 : h[u].type = TailOf(h[j].type)
      <4>1. \A j \in o2 + i .. o2 + k - 1 : j \in 0 .. n - 1
        OBVIOUS
      <4>. QED  BY <2>2, <4>1 DEF Pointers
    <3>4. Pasted(dst, h, n, o2 + i, o2 + k)
      BY <3>2, <3>3 DEF Pasted
    <3>. QED  BY <2>3, <3>1, <3>4, PasteFacts
  <2>. QED  BY <2>4, <2>5 DEF h
<1>4. CASE el.type \in Pointers /\ k - i >= PtrBytes
  <2>1. h = [j \in DOMAIN dst |-> IF j - o2 \in i .. i + PtrBytes - 1 THEN src[o1 + (j - o2)] ELSE dst[j]]
    BY <1>4 DEF MoveByte, Pointers
  <2>2. (o1 + i) + PtrBytes <= n1
        /\ \A j \in (o1 + i) + 1 .. (o1 + i) + PtrBytes - 1 : src[j].type = TailOf(el.type)
    BY <1>1, <1>4 DEF Whole
  <2>3. ASSUME NEW j \in 0 .. n - 1
        PROVE  /\ h[j] \in Elements
               /\ j = o2 + i => h[j].type = el.type
               /\ j \in o2 + i + 1 .. o2 + i + PtrBytes - 1 => h[j].type = TailOf(el.type)
               /\ j \notin o2 + i .. o2 + i + PtrBytes - 1 => h[j] = dst[j]
    <3>1. h[j] = IF j - o2 \in i .. i + PtrBytes - 1 THEN src[o1 + (j - o2)] ELSE dst[j]
      BY <1>1, <2>1
    <3>. HIDE DEF h
    <3>2. CASE j = o2 + i
      <4>1. j - o2 = i /\ i \in i .. i + PtrBytes - 1
        BY <3>2, WordAssumption
      <4>. QED  BY <1>2, <3>1, <3>2, <4>1, WordAssumption
    <3>3. CASE j \in o2 + i + 1 .. o2 + i + PtrBytes - 1
      <4>1. j - o2 \in i .. i + PtrBytes - 1 /\ o1 + (j - o2) \in (o1 + i) + 1 .. (o1 + i) + PtrBytes - 1
            /\ o1 + (j - o2) \in 0 .. n1 - 1
        BY <2>2, <3>3, WordAssumption
      <4>2. h[j] = src[o1 + (j - o2)] /\ src[o1 + (j - o2)] \in Elements
        BY <1>1, <3>1, <4>1
      <4>. QED  BY <2>2, <3>3, <4>1, <4>2
    <3>4. CASE j \notin o2 + i .. o2 + i + PtrBytes - 1
      <4>1. j - o2 \notin i .. i + PtrBytes - 1
        BY <3>4, WordAssumption
      <4>. QED  BY <1>1, <3>1, <3>4, <4>1, WordAssumption
    <3>. QED  BY <3>2, <3>3, <3>4, WordAssumption
  <2>4. h \in [0 .. n - 1 -> Elements]
    <3>1. h = [j \in 0 .. n - 1 |-> h[j]]
      BY <1>1, <2>1
    <3>. HIDE DEF h
    <3>. QED  BY <2>3, <3>1
  <2>. HIDE DEF h, el
  <2>5. h \in Bytes(n) /\ Apart(h, n, o2 + i + PtrBytes)
    <3>. DEFINE a == o2 + i
                b == o2 + i + PtrBytes
    <3>1. a \in 0 .. n /\ b \in a .. n /\ b = a + PtrBytes /\ a < n
      BY <1>1, <1>4, WordAssumption
    <3>2. ASSUME NEW j \in 0 .. n - 1
          PROVE  /\ j = a => h[j].type = el.type
                 /\ j \in a + 1 .. b - 1 => h[j].type = TailOf(el.type)
                 /\ j < a \/ j >= b => h[j] = dst[j]
      BY <2>3, WordAssumption
    <3>. HIDE DEF a, b
    <3>3. ASSUME NEW j \in a .. b - 1, h[j].type \in Pointers
          PROVE  j + PtrBytes <= b /\ \A u \in j + 1 .. j + PtrBytes - 1 : h[u].type = TailOf(h[j].type)
      <4>1. j \in 0 .. n - 1
        BY <3>1
      <4>2. j = a
        <5>1. j \notin a + 1 .. b - 1
          BY <3>2, <3>3, <4>1 DEF TailOf, Pointers
        <5>. QED  BY <3>1, <5>1
      <4>3. \A u \in j + 1 .. j + PtrBytes - 1 : u \in 0 .. n - 1 /\ u \in a + 1 .. b - 1
        BY <3>1, <4>2, WordAssumption
      <4>. QED  BY <3>1, <3>2, <4>1, <4>2, <4>3, WordAssumption
    <3>4. Pasted(dst, h, n, a, b)
      BY <3>2, <3>3 DEF Pasted
    <3>5. Apart(dst, n, a) /\ dst \in Bytes(n)
      BY DEF a
    <3>6. h \in Bytes(n) /\ Apart(h, n, b)
      BY <2>4, <3>1, <3>4, <3>5, PasteFacts
    <3>. QED  BY <3>6 DEF b
  <2>6. NextMoved(src, o1, i) = i + PtrBytes /\ o2 + (i + PtrBytes) = o2 + i + PtrBytes
    BY <1>4, WordAssumption DEF NextMoved, el
  <2>. QED  BY <2>5, <2>6 DEF h
<1>5. CASE el.type \notin Pointers
  <2>. DEFINE t == CASE el.type \in {"Immediate", "Dead"} -> el.type
                     [] el.type \in {"Tail", "Unknown"} -> "Unknown"
                     [] OTHER -> "Tainted"
              y == IF el.type \in {"Immediate", "Dead"} THEN el.data ELSE dst[o2 + i].data
              x == [dst[o2 + i] EXCEPT !.type = t, !.data = y]
  <2>1. t \in ElementTypes /\ t \notin Pointers
    BY DEF ElementTypes, Opaque, Pointers
  <2>2. x \in Elements /\ x.type = t
    BY <1>2, <2>1, Zenon DEF Elements
  <2>3. h = [dst EXCEPT ![o2 + i] = x]
    <3>1. CASE el.type \in {"Immediate", "Dead"}
      BY <1>1, <1>2, <1>5, <3>1, Zenon DEF MoveByte, Elements
    <3>2. CASE el.type \in {"Tail", "Unknown"}
      BY <1>1, <1>2, <1>5, <3>2, Zenon DEF MoveByte, Elements
    <3>3. CASE el.type \notin {"Immediate", "Dead", "Tail", "Unknown"}
      BY <1>1, <1>2, <1>5, <3>3, Zenon DEF MoveByte, Elements
    <3>. QED  BY <3>1, <3>2, <3>3
  <2>. HIDE DEF x, t, h
  <2>4. h \in Bytes(n) /\ Apart(h, n, (o2 + i) + 1)
    <3>1. x.type \notin Pointers /\ o2 + i \in 0 .. n - 1
      BY <1>1, <2>1, <2>2
    <3>. QED  BY <2>2, <2>3, <3>1, OverwriteFacts, Zenon
  <2>5. NextMoved(src, o1, i) = i + 1 /\ o2 + (i + 1) = (o2 + i) + 1
    BY <1>5 DEF NextMoved
  <2>. QED  BY <2>4, <2>5 DEF h
<1>. QED  BY <1>3, <1>4, <1>5, WordAssumption

\* What the loop of moveElements() has when it looks at byte i: whole pointers,
\* and none that reaches across the next byte it is going to write.
Moving(n, o2, k, i) ==
  {x \in [e : Bytes(n), next : Nat] : x.next >= i /\ (x.next < k => Apart(x.e, n, o2 + x.next))}
\* The turn, and the byte that the loop looks at next.
MoveTurn(src, x, o1, o2, k, i) ==
  [e |-> MoveByte(src, x.e, o1, o2, k, i), next |-> NextMoved(src, o1, i)]

\* The turn goes on to a byte before which everything is whole.
LEMMA MoveTurnFacts ==
  ASSUME NEW n1 \in Nat, NEW n \in Nat, NEW src \in Bytes(n1),
         NEW o1 \in Nat, NEW o2 \in Nat, NEW k \in Nat, o1 + k <= n1, o2 + k <= n,
         NEW i \in 0 .. k - 1, NEW x \in Moving(n, o2, k, i), x.next = i
  PROVE  MoveTurn(src, x, o1, o2, k, i) \in Moving(n, o2, k, i + 1)
<1>1. x.e \in Bytes(n) /\ Apart(x.e, n, o2 + i)
  BY DEF Moving
<1>2. NextMoved(src, o1, i) \in Nat /\ NextMoved(src, o1, i) >= i + 1
  BY WordAssumption DEF NextMoved
<1>3. /\ MoveByte(src, x.e, o1, o2, k, i) \in Bytes(n)
      /\ NextMoved(src, o1, i) < k => Apart(MoveByte(src, x.e, o1, o2, k, i), n, o2 + NextMoved(src, o1, i))
  BY <1>1, MoveByteFacts
<1>. QED  BY <1>2, <1>3 DEF Moving, MoveTurn

\* What moveElements() writes is whole.
LEMMA MoveMarkedFacts ==
  ASSUME NEW n1 \in Nat, NEW n \in Nat, NEW e1 \in Bytes(n1), NEW same \in BOOLEAN, same => n1 = n,
         NEW o1 \in Nat, NEW o2 \in Nat, NEW k \in Nat, o1 + k <= n1, o2 + k <= n,
         NEW marked \in Freed(n, o2, k) \cup {Thrown}
  PROVE  MoveMarked(e1, o1, marked, o2, k, same) \in Bytes(n) \cup {Thrown}
<1>. DEFINE Source(x) == IF same THEN x.e ELSE e1
            Turn(i, x) == IF x.next # i - 1 THEN x ELSE MoveTurn(Source(x), x, o1, o2, k, i - 1)
            start == [e |-> marked, next |-> 0]
            Body(f) == [i \in 0 .. k |-> IF i = 0 THEN start ELSE Turn(i, f[i - 1])]
            c == CHOOSE f : f = Body(f)
            X == [i \in 0 .. k |-> Moving(n, o2, k, i)]
<1>0. MoveMarked(e1, o1, marked, o2, k, same) = IF marked = Thrown THEN Thrown ELSE c[k].e
  BY DEF MoveMarked, MoveTurn, NextMoved
<1>. SUFFICES ASSUME marked # Thrown PROVE c[k].e \in Bytes(n)
  BY <1>0
<1>2. start \in X[0]
  <2>1. marked \in Bytes(n) /\ (k # 0 => marked[o2].type \notin Tails)
    BY DEF Freed
  <2>2. 0 < k => Apart(marked, n, o2 + 0)
    <3>1. CASE k # 0
      <4>1. o2 \in 0 .. n - 1 /\ o2 + 0 = o2
        BY <3>1
      <4>. QED  BY <2>1, <3>1, <4>1, NoneAcross
    <3>. QED  BY <3>1
  <2>3. start \in Moving(n, o2, k, 0)
    BY <2>1, <2>2 DEF Moving
  <2>. QED  BY <2>3
<1>3. ASSUME NEW i \in 1 .. k, NEW x \in X[i - 1] PROVE Turn(i, x) \in X[i]
  <2>1. x \in Moving(n, o2, k, i - 1) /\ i - 1 \in 0 .. k - 1 /\ (i - 1) + 1 = i /\ X[i] = Moving(n, o2, k, i)
    BY <1>3
  <2>2. CASE x.next # i - 1
    <3>1. x \in Moving(n, o2, k, i)
      BY <2>1, <2>2 DEF Moving
    <3>. QED  BY <2>1, <2>2, <3>1
  <2>3. CASE x.next = i - 1
    <3>1. CASE same
      <4>1. x.e \in Bytes(n) /\ o1 + k <= n
        BY <2>1, <3>1 DEF Moving
      <4>2. MoveTurn(x.e, x, o1, o2, k, i - 1) \in Moving(n, o2, k, (i - 1) + 1)
        BY <2>1, <2>3, <4>1, MoveTurnFacts, Zenon
      <4>. QED  BY <2>1, <2>3, <3>1, <4>2
    <3>2. CASE ~same
      <4>1. MoveTurn(e1, x, o1, o2, k, i - 1) \in Moving(n, o2, k, (i - 1) + 1)
        BY <2>1, <2>3, MoveTurnFacts
      <4>. QED  BY <2>1, <2>3, <3>2, <4>1
    <3>. QED  BY <3>1, <3>2
  <2>. QED  BY <2>2, <2>3
<1>. HIDE DEF Turn, X, c, start
<1>4. \E f : f = Body(f)
  <2>. DEFINE G == [y \in (1 .. k) \X UNION {X[i] : i \in 0 .. k} |-> Turn(y[1], y[2])]
  <2>1. ASSUME NEW i \in 1 .. k, NEW x \in X[i - 1] PROVE G[<<i, x>>] = Turn(i, x) /\ G[<<i, x>>] \in X[i]
    <3>1. i - 1 \in 0 .. k
      OBVIOUS
    <3>2. x \in UNION {X[j] : j \in 0 .. k}
      BY <2>1, <3>1
    <3>3. G[<<i, x>>] = Turn(i, x)
      BY <3>2
    <3>. QED  BY <1>3, <3>3
  <2>. HIDE DEF G
  <2>2. PICK f \in [0 .. k -> UNION {X[i] : i \in 0 .. k}] :
               Looping(f, k, start, G) /\ \A i \in 0 .. k : f[i] \in X[i]
    BY <1>2, <2>1, LoopThrough, Zenon
  <2>3. f[0] = start /\ \A i \in 1 .. k : f[i] = G[<<i, f[i - 1]>>]
    BY <2>2 DEF Looping
  <2>4. ASSUME NEW i \in 1 .. k PROVE f[i] = Turn(i, f[i - 1])
    <3>0. i - 1 \in 0 .. k
      OBVIOUS
    <3>1. f[i - 1] \in X[i - 1]
      BY <2>2, <3>0, Zenon
    <3>. QED  BY <2>1, <2>3, <3>1, Zenon
  <2>5. f = Body(f)
    <3>1. \A i \in 0 .. k : f[i] = IF i = 0 THEN start ELSE Turn(i, f[i - 1])
      BY <2>3, <2>4, Turns, Zenon
    <3>2. f = [i \in 0 .. k |-> f[i]]
      BY <2>2
    <3>. QED  BY <3>1, <3>2, Zenon
  <2>. QED  BY <2>5, Zenon
<1>5. c = Body(c)
  BY <1>4, Zenon DEF c
<1>6. c[0] = start /\ \A i \in 1 .. k : c[i] = Turn(i, c[i - 1])
  <2>1. \A i \in 0 .. k : c[i] = IF i = 0 THEN start ELSE Turn(i, c[i - 1])
    BY <1>5, Zenon
  <2>. HIDE DEF Body
  <2>. QED  BY <2>1, Turns, Zenon
<1>7. \A i \in 1 .. k : c[i - 1] \in X[i - 1] => c[i] \in X[i]
  BY <1>3, <1>6
<1>8. c[k] \in X[k]
  <2>1. \A i \in 0 .. k : c[i] \in X[i]
    BY <1>2, <1>6, <1>7, LoopKeeps
  <2>. QED  BY <2>1
<1>. QED  BY <1>8 DEF X, Moving

\* moveElements() leaves whole pointers, wherever it reads from.
LEMMA MoveElementsFacts ==
  ASSUME NEW n1 \in Nat, NEW n \in Nat, NEW e1 \in Bytes(n1), NEW e2 \in Bytes(n),
         NEW same \in BOOLEAN, same => n1 = n,
         NEW o1 \in Nat, NEW o2 \in Nat, NEW k \in Nat, o1 + k <= n1, o2 + k <= n
  PROVE  MoveElements(e1, o1, e2, o2, k, same) \in Bytes(n) \cup {Thrown}
BY MarkUnknownFacts, MoveMarkedFacts DEF MoveElements

-----------------------------------------------------------------------------
(* The stack.                                                              *)

\* Whole elements around the stack pointer at function entry.
Stacks == {s \in [data : UNION {Bytes(n) : n \in Nat}, base : Nat, dead : BOOLEAN] :
              \E n \in Nat : s.data \in Bytes(n) /\ s.base <= n}

\* A vector of n elements has n elements.
LEMMA BytesSize ==
  ASSUME NEW n \in Nat, NEW e \in Bytes(n)
  PROVE  Size(e) = n /\ DOMAIN e = 0 .. n - 1
BY SizeIs DEF Bytes

\* The parts of a stack.
LEMMA StackFacts ==
  ASSUME NEW s \in Stacks
  PROVE  /\ s = [data |-> s.data, base |-> s.base, dead |-> s.dead]
         /\ s.base \in Nat /\ s.dead \in BOOLEAN
         /\ Size(s.data) \in Nat /\ s.data \in Bytes(Size(s.data)) /\ s.base <= Size(s.data)
         /\ OldStackSize(s) \in Nat /\ OldStackSize(s) = Size(s.data) - s.base
<1>1. PICK n \in Nat : s.data \in Bytes(n) /\ s.base <= n
  BY DEF Stacks
<1>2. Size(s.data) = n
  BY <1>1, BytesSize
<1>. QED  BY <1>1, <1>2 DEF Stacks, OldStackSize

\* Whole elements and a place among them are a stack.
LEMMA StackMade ==
  ASSUME NEW n \in Nat, NEW e \in Bytes(n), NEW b \in 0 .. n, NEW dead \in BOOLEAN
  PROVE  [data |-> e, base |-> b, dead |-> dead] \in Stacks
BY DEF Stacks

\* How far the stack grows in either direction for n bytes at an offset.
Up(s, offset, n) == IF offset + n > OldStackSize(s) THEN offset + n - OldStackSize(s) ELSE 0
Down(s, offset) == IF -offset > s.base THEN -offset - s.base ELSE 0
\* Elements that are not there yet are dead.
Widened(e, down, size) == [k \in 0 .. size - 1 |-> IF k - down \in DOMAIN e THEN e[k - down] ELSE Element]

\* growStack() widens the vector at both ends.
LEMMA GrowIs ==
  ASSUME NEW s, NEW offset, NEW n, ~s.dead
  PROVE  Grow(s, offset, n) = [data |-> Widened(s.data, Down(s, offset),
                                                Size(s.data) + Up(s, offset, n) + Down(s, offset)),
                               base |-> s.base + Down(s, offset), dead |-> FALSE]
BY DEF Grow, Widened, Up, Down

\* Growing leaves pointers whole, and tails with their pointers.
LEMMA WidenedFacts ==
  ASSUME NEW n \in Nat, NEW e \in Bytes(n), NEW d \in Nat, NEW m \in Nat, n + d <= m
  PROVE  Widened(e, d, m) \in Bytes(m) /\ (Belongs(e) => Belongs(Widened(e, d, m)))
<1>. DEFINE h == Widened(e, d, m)
<1>1. e \in [0 .. n - 1 -> Elements] /\ Whole(e, n) /\ DOMAIN e = 0 .. n - 1
  BY DEF Bytes
<1>2. ASSUME NEW k \in 0 .. m - 1
      PROVE  /\ h[k] \in Elements
             /\ k - d \in 0 .. n - 1 => h[k] = e[k - d]
             /\ k - d \notin 0 .. n - 1 => h[k].type = "Dead"
  <2>1. h[k] = IF k - d \in 0 .. n - 1 THEN e[k - d] ELSE Element
    BY <1>1 DEF Widened
  <2>2. Element \in Elements /\ Element.type = "Dead"
    BY DEF Element, Elements, ElementTypes, Opaque
  <2>. QED  BY <1>1, <2>1, <2>2
<1>3. h = [k \in 0 .. m - 1 |-> h[k]]
  BY DEF Widened
<1>. HIDE DEF h
<1>4. h \in [0 .. m - 1 -> Elements]
  BY <1>2, <1>3
<1>5. ASSUME NEW k \in 0 .. m - 1, h[k].type \in Pointers
      PROVE  k + PtrBytes <= m /\ \A j \in k + 1 .. k + PtrBytes - 1 : h[j].type = TailOf(h[k].type)
  <2>1. k - d \in 0 .. n - 1 /\ h[k] = e[k - d]
    BY <1>2, <1>5 DEF Pointers
  <2>2. (k - d) + PtrBytes <= n /\ \A j \in (k - d) + 1 .. (k - d) + PtrBytes - 1 : e[j].type = TailOf(e[k - d].type)
    BY <1>1, <1>5, <2>1 DEF Whole
  <2>3. ASSUME NEW j \in k + 1 .. k + PtrBytes - 1 PROVE h[j].type = TailOf(h[k].type)
    <3>1. j \in 0 .. m - 1 /\ j - d \in 0 .. n - 1 /\ j - d \in (k - d) + 1 .. (k - d) + PtrBytes - 1
      BY <2>1, <2>2, WordAssumption
    <3>. QED  BY <1>2, <2>1, <2>2, <3>1
  <2>. QED  BY <2>1, <2>2, <2>3, WordAssumption
<1>6. h \in Bytes(m)
  BY <1>4, <1>5 DEF Bytes, Whole
<1>7. ASSUME Belongs(e), NEW k \in 0 .. m - 1, h[k].type \in Tails
      PROVE  \E j \in 1 .. PtrBytes - 1 :
                /\ k - j \in 0 .. m - 1
                /\ IF h[k].type = "Tail" THEN h[k - j].type \in {"UsrPtr", "ReturnPtr"}
                                         ELSE h[k - j].type = "StackPtr"
  <2>1. k - d \in 0 .. n - 1 /\ h[k] = e[k - d]
    BY <1>2, <1>7 DEF Tails
  <2>2. PICK j \in 1 .. PtrBytes - 1 :
                /\ (k - d) - j \in 0 .. n - 1
                /\ IF e[k - d].type = "Tail" THEN e[(k - d) - j].type \in {"UsrPtr", "ReturnPtr"}
                                             ELSE e[(k - d) - j].type = "StackPtr"
    BY <1>1, <1>7, <2>1 DEF Belongs
  <2>3. k - j \in 0 .. m - 1 /\ (k - j) - d = (k - d) - j
    BY <2>1, <2>2, WordAssumption
  <2>4. h[k - j] = e[(k - d) - j]
    BY <1>2, <2>2, <2>3
  <2>. QED  BY <2>1, <2>2, <2>3, <2>4
<1>8. DOMAIN h = 0 .. m - 1
  BY <1>4
<1>9. Belongs(e) => Belongs(h)
  BY <1>7, <1>8, Zenon DEF Belongs
<1>. QED  BY <1>6, <1>9 DEF h

\* After growing, the bytes that are accessed are there.
LEMMA GrowFacts ==
  ASSUME NEW s \in Stacks, ~s.dead, NEW offset \in Int, NEW n \in Nat, NEW g, g = Grow(s, offset, n)
  PROVE  /\ g \in Stacks /\ ~g.dead
         /\ g.base + offset \in Nat /\ g.base + offset + n <= Size(g.data)
         /\ g.base = s.base + Down(s, offset)
         /\ Size(g.data) = Size(s.data) + Up(s, offset, n) + Down(s, offset)
         /\ Belongs(s.data) => Belongs(g.data)
<1>. DEFINE up == Up(s, offset, n)
            down == Down(s, offset)
            m == Size(s.data) + up + down
            e == s.data
            h == Widened(e, down, m)
<1>1. /\ s.base \in Nat /\ Size(e) \in Nat /\ e \in Bytes(Size(e)) /\ s.base <= Size(e)
      /\ OldStackSize(s) \in Nat /\ OldStackSize(s) = Size(e) - s.base
  BY StackFacts
<1>2. up \in Nat /\ offset + n <= OldStackSize(s) + up
  BY <1>1 DEF Up
<1>3. down \in Nat /\ -offset <= s.base + down
  BY <1>1 DEF Down
<1>. HIDE DEF up, down
<1>4. m \in Nat /\ Size(e) + down <= m
  BY <1>1, <1>2, <1>3
<1>5. h \in Bytes(m) /\ (Belongs(e) => Belongs(h))
  BY <1>1, <1>3, <1>4, WidenedFacts
<1>6. g = [data |-> h, base |-> s.base + down, dead |-> FALSE]
  BY GrowIs DEF up, down
<1>7. Size(h) = m
  BY <1>4, <1>5, BytesSize
<1>8. s.base + down \in 0 .. m
  BY <1>1, <1>2, <1>3
<1>. HIDE DEF h
<1>9. g \in Stacks
  BY <1>4, <1>5, <1>6, <1>8, StackMade, Zenon
<1>. QED  BY <1>1, <1>2, <1>3, <1>5, <1>6, <1>7, <1>9 DEF up, down

\* There is nothing to do for bytes that are there.
LEMMA GrowStays ==
  ASSUME NEW s \in Stacks, NEW offset \in Int, NEW n \in Nat,
         offset + n <= OldStackSize(s), -offset <= s.base
  PROVE  Grow(s, offset, n) = s
<1>1. CASE s.dead
  BY <1>1 DEF Grow
<1>2. CASE ~s.dead
  <2>1. /\ s = [data |-> s.data, base |-> s.base, dead |-> s.dead] /\ s.dead \in BOOLEAN
        /\ s.base \in Nat /\ Size(s.data) \in Nat /\ s.data \in Bytes(Size(s.data)) /\ OldStackSize(s) \in Nat
    BY StackFacts
  <2>2. Up(s, offset, n) = 0 /\ Down(s, offset) = 0
    BY <2>1 DEF Up, Down
  <2>3. Widened(s.data, 0, Size(s.data)) = s.data
    <3>. DEFINE m == Size(s.data)
    <3>1. s.data = [k \in 0 .. m - 1 |-> s.data[k]] /\ DOMAIN s.data = 0 .. m - 1
      BY <2>1 DEF Bytes
    <3>. HIDE DEF m
    <3>2. m \in Nat
      BY <2>1 DEF m
    <3>3. \A k \in 0 .. m - 1 : k - 0 = k
      BY <3>2
    <3>4. Widened(s.data, 0, m) = [k \in 0 .. m - 1 |-> s.data[k]]
      BY <3>1, <3>3 DEF Widened
    <3>. QED  BY <3>1, <3>4 DEF m
  <2>4. Size(s.data) + 0 + 0 = Size(s.data) /\ s.base + 0 = s.base
    BY <2>1
  <2>5. Grow(s, offset, n) = [data |-> Widened(s.data, Down(s, offset),
                                               Size(s.data) + Up(s, offset, n) + Down(s, offset)),
                              base |-> s.base + Down(s, offset), dead |-> FALSE]
    BY <1>2, GrowIs
  <2>. QED  BY <1>2, <2>1, <2>2, <2>3, <2>4, <2>5
<1>. QED  BY <1>1, <1>2

\* Both stacks of a merge grow to the larger sizes of the two.
Larger(a, b) == IF a > b THEN a ELSE b
\* Both stacks of a merge are grown to the larger of the two.
Both(x, old, new) == Grow(Grow(x, old, 0), -new, 0)

\* Then they have the same size and the same base.
LEMMA BothFacts ==
  ASSUME NEW s \in Stacks, ~s.dead, NEW old \in Nat, NEW new \in Nat,
         OldStackSize(s) <= old, s.base <= new, NEW g, g = Both(s, old, new)
  PROVE  /\ g \in Stacks /\ ~g.dead /\ g.base = new /\ OldStackSize(g) = old
         /\ Size(g.data) = old + new
         /\ Belongs(s.data) => Belongs(g.data)
<1>. DEFINE f == Grow(s, old, 0)
<1>1. s.base \in Nat /\ Size(s.data) \in Nat /\ OldStackSize(s) \in Nat /\ OldStackSize(s) = Size(s.data) - s.base
  BY StackFacts
<1>2. /\ f \in Stacks /\ ~f.dead /\ f.base = s.base + Down(s, old)
      /\ Size(f.data) = Size(s.data) + Up(s, old, 0) + Down(s, old)
      /\ Belongs(s.data) => Belongs(f.data)
  BY GrowFacts
<1>3. Down(s, old) = 0 /\ Up(s, old, 0) = old - OldStackSize(s)
  BY <1>1 DEF Up, Down
<1>4. f.base = s.base /\ Size(f.data) = old + s.base /\ OldStackSize(f) = old
  BY <1>1, <1>2, <1>3 DEF OldStackSize
<1>5. g = Grow(f, -new, 0)
  BY DEF Both
<1>. HIDE DEF f
<1>6. /\ g \in Stacks /\ ~g.dead /\ g.base = f.base + Down(f, -new)
      /\ Size(g.data) = Size(f.data) + Up(f, -new, 0) + Down(f, -new)
      /\ Belongs(f.data) => Belongs(g.data)
  BY <1>2, <1>5, GrowFacts
<1>7. Up(f, -new, 0) = 0 /\ Down(f, -new) = new - s.base
  BY <1>1, <1>4 DEF Up, Down
<1>8. g.base = new /\ Size(g.data) = old + new
  BY <1>1, <1>4, <1>6, <1>7
<1>. QED  BY <1>2, <1>6, <1>8 DEF OldStackSize

\* Growing a stack as large as it is changes nothing.
LEMMA BothStays ==
  ASSUME NEW s \in Stacks
  PROVE  Both(s, OldStackSize(s), s.base) = s
<1>1. s.base \in Nat /\ OldStackSize(s) \in Nat
  BY StackFacts
<1>2. Grow(s, OldStackSize(s), 0) = s
  BY <1>1, GrowStays
<1>3. Grow(s, -s.base, 0) = s
  BY <1>1, GrowStays
<1>. QED  BY <1>2, <1>3 DEF Both

\* MergeStack() of two stacks that are tracked.
LEMMA MergeStackIs ==
  ASSUME NEW s, NEW t, ~s.dead, ~t.dead,
         NEW old, old = Larger(OldStackSize(s), OldStackSize(t)), NEW new, new = Larger(s.base, t.base)
  PROVE  LET m == MergeElements(Both(s, old, new).data, Both(t, old, new).data)
         IN  MergeStack(s, t) = [s |-> [Both(s, old, new) EXCEPT !.data = m.e], diff |-> m.diff]
BY DEF MergeStack, Both, Larger

\* merge() of two stacks settles as the merge of their elements does.
LEMMA MergeStackFacts ==
  ASSUME NEW s \in Stacks, NEW t \in Stacks, NEW once, once = MergeStack(s, t)
  PROVE  /\ once.s \in Stacks /\ once.diff \in BOOLEAN
         /\ Belongs(s.data) => ~MergeStack(once.s, t).diff /\ ~MergeStack(once.s, s).diff
<1>1. CASE s.dead
  BY <1>1, Zenon DEF MergeStack
<1>2. CASE ~s.dead /\ t.dead
  <2>1. once = [s |-> DeadStack, diff |-> TRUE]
    BY <1>2 DEF MergeStack
  <2>2. DeadStack \in Stacks /\ DeadStack.dead
    <3>1. NewStack \in [data : Bytes(0), base : {0}, dead : BOOLEAN]
      <4>1. Fresh(0) \in Bytes(0)
        BY DEF Fresh, Bytes, Whole
      <4>. QED  BY <4>1 DEF NewStack
    <3>2. DeadStack \in [data : Bytes(0), base : {0}, dead : BOOLEAN] /\ DeadStack.dead
      BY <3>1, Zenon DEF DeadStack
    <3>3. DeadStack = [data |-> DeadStack.data, base |-> 0, dead |-> TRUE]
      BY <3>2
    <3>4. 0 \in 0 .. 0 /\ 0 \in Nat
      OBVIOUS
    <3>. QED  BY <3>2, <3>3, <3>4, StackMade
  <2>3. MergeStack(DeadStack, t).diff = FALSE /\ MergeStack(DeadStack, s).diff = FALSE
    BY <2>2 DEF MergeStack
  <2>. QED  BY <2>1, <2>2, <2>3
<1>3. CASE ~s.dead /\ ~t.dead
  <2>. DEFINE old == Larger(OldStackSize(s), OldStackSize(t))
              new == Larger(s.base, t.base)
              bs == Both(s, old, new)
              bt == Both(t, old, new)
              n == old + new
              m == MergeElements(bs.data, bt.data)
  <2>1. /\ old \in Nat /\ OldStackSize(s) <= old /\ OldStackSize(t) <= old
        /\ new \in Nat /\ s.base <= new /\ t.base <= new
        /\ OldStackSize(s) \in Nat /\ OldStackSize(t) \in Nat /\ s.base \in Nat /\ t.base \in Nat
    BY StackFacts DEF Larger
  <2>2. once = [s |-> [bs EXCEPT !.data = m.e], diff |-> m.diff]
    BY <1>3, MergeStackIs
  <2>. HIDE DEF old, new
  <2>3. /\ bs \in Stacks /\ ~bs.dead /\ bs.base = new /\ OldStackSize(bs) = old /\ Size(bs.data) = n
        /\ Belongs(s.data) => Belongs(bs.data)
    BY <1>3, <2>1, BothFacts
  <2>4. bt \in Stacks /\ ~bt.dead /\ bt.base = new /\ OldStackSize(bt) = old /\ Size(bt.data) = n
    BY <1>3, <2>1, BothFacts
  <2>5. bs.data \in Bytes(n) /\ bt.data \in Bytes(n) /\ n \in Nat
    BY <2>1, <2>3, <2>4, StackFacts
  <2>. HIDE DEF bs, bt
  <2>6. m.e \in Bytes(n) /\ m.diff \in BOOLEAN
    BY <2>5, MergeElementsFacts DEF Joining
  <2>7. Belongs(s.data) => ~MergeElements(m.e, bt.data).diff /\ ~MergeElements(m.e, bs.data).diff
    BY <2>3, <2>5, MergedTwice
  <2>. HIDE DEF m
  <2>8. once.diff = m.diff /\ once.s = [data |-> m.e, base |-> new, dead |-> FALSE]
    <3>. DEFINE r == [bs EXCEPT !.data = m.e]
    <3>1. r = [data |-> m.e, base |-> bs.base, dead |-> bs.dead] /\ bs.dead \in BOOLEAN
      BY <2>3 DEF Stacks
    <3>2. once = [s |-> r, diff |-> m.diff]
      BY <2>2
    <3>. HIDE DEF r
    <3>3. bs.dead = FALSE
      BY <2>3, <3>1
    <3>4. once.diff = m.diff /\ once.s = r
      BY <3>2
    <3>. QED  BY <2>3, <3>1, <3>3, <3>4, Zenon
  <2>9. once.s \in Stacks /\ once.s.data = m.e /\ ~once.s.dead /\ once.s.base = new
    <3>1. new \in 0 .. n
      BY <2>1
    <3>2. FALSE \in BOOLEAN
      OBVIOUS
    <3>. HIDE DEF n
    <3>3. [data |-> m.e, base |-> new, dead |-> FALSE] \in Stacks
      BY <2>5, <2>6, <3>1, <3>2, StackMade, Zenon
    <3>. QED  BY <2>8, <3>3
  <2>10. OldStackSize(once.s) = old
    <3>1. Size(once.s.data) = n
      BY <2>5, <2>6, <2>9, BytesSize
    <3>. QED  BY <2>1, <2>9, <3>1 DEF OldStackSize
  <2>11. Both(once.s, old, new) = once.s
    BY <2>9, <2>10, BothStays
  <2>12. ASSUME NEW u \in {s, t}
         PROVE  MergeStack(once.s, u).diff = MergeElements(m.e, Both(u, old, new).data).diff
    <3>1. old = Larger(OldStackSize(once.s), OldStackSize(u)) /\ new = Larger(once.s.base, u.base)
      BY <2>1, <2>9, <2>10 DEF Larger
    <3>2. ~once.s.dead /\ ~u.dead
      BY <1>3, <2>9
    <3>. DEFINE w == MergeElements(Both(once.s, old, new).data, Both(u, old, new).data)
    <3>3. MergeStack(once.s, u) = [s |-> [Both(once.s, old, new) EXCEPT !.data = w.e], diff |-> w.diff]
      BY <3>1, <3>2, MergeStackIs
    <3>. HIDE DEF w
    <3>4. MergeStack(once.s, u).diff = w.diff
      BY <3>3
    <3>. QED  BY <2>9, <2>11, <3>4 DEF w
  <2>. QED  BY <2>6, <2>7, <2>8, <2>9, <2>12 DEF bs, bt
<1>. QED  BY <1>1, <1>2, <1>3, StackFacts

-----------------------------------------------------------------------------
(* Program states.                                                         *)

\* Every register has as many elements as it has bytes.
Registers == {reg \in [Physical -> UNION {Bytes(n) : n \in Nat}] : \A r \in Physical : reg[r] \in Bytes(RegInfo[r].bytes)}
States == [reg : Registers, stack : Stacks, ok : BOOLEAN]

\* Where a register is kept (RegisterAssumption).
LEMMA PhysicalFacts ==
  ASSUME NEW r \in DOMAIN RegInfo
  PROVE  /\ RegInfo[r].parent \in Physical /\ RegInfo[r].bytes \in Nat \ {0} /\ RegInfo[r].byteOffs \in Nat
         /\ RegInfo[r].byteOffs + RegInfo[r].bytes <= RegInfo[RegInfo[r].parent].bytes
         /\ r \in Physical => RegInfo[r].parent = r
BY RegisterAssumption DEF Physical

\* Every access of a register stays in the register that holds it.
LEMMA RegisterDataFacts ==
  ASSUME NEW reg \in DOMAIN RegInfo, NEW access \in DOMAIN PartOf, NEW d, d = GetRegisterData(reg, access)
  PROVE  /\ d.reg \in Physical /\ d.reg \in DOMAIN RegInfo
         /\ d.o \in Nat /\ d.n \in Nat /\ RegInfo[d.reg].bytes \in Nat /\ d.o + d.n <= RegInfo[d.reg].bytes
         /\ access = "Full" => d.n # 0
<1>. DEFINE r == IF access = "FullZeroParent" THEN RegInfo[reg].parent ELSE reg
            p == RegInfo[r].parent
            b == RegInfo[r].bytes
            q == PartOf[access]
<1>1. r \in DOMAIN RegInfo /\ p \in Physical /\ p \in DOMAIN RegInfo
  BY PhysicalFacts DEF Physical
<1>2. b \in Nat \ {0} /\ RegInfo[r].byteOffs \in Nat /\ RegInfo[r].byteOffs + b <= RegInfo[p].bytes /\ RegInfo[p].bytes \in Nat
  BY <1>1, PhysicalFacts
<1>3. d = [reg |-> p, o |-> RegInfo[r].byteOffs + (q[1] * b) \div q[2], n |-> b \div q[2]]
  BY DEF GetRegisterData
<1>4. q \in {<<0, 1>>, <<0, 2>>, <<1, 2>>, <<0, 4>>, <<1, 4>>, <<2, 4>>, <<3, 4>>}
      /\ (access = "Full" => q = <<0, 1>>)
  BY DEF PartOf
<1>. HIDE DEF r, p, b, q
<1>5. /\ (q[1] * b) \div q[2] \in Nat /\ b \div q[2] \in Nat
      /\ (q[1] * b) \div q[2] + b \div q[2] <= b
      /\ access = "Full" => b \div q[2] = b
  <2>1. CASE q = <<0, 1>>
    <3>1. q[1] = 0 /\ q[2] = 1
      BY <2>1
    <3>. QED  BY <1>2, <3>1 DEF b
  <2>2. CASE q \in {<<0, 2>>, <<0, 4>>}
    <3>1. q[1] = 0 /\ q[2] \in {2, 4} /\ access # "Full"
      BY <1>4, <2>2
    <3>2. 0 * b = 0 /\ b \in Nat
      BY <1>2 DEF b
    <3>. QED  BY <3>1, <3>2
  <2>3. CASE q \in {<<1, 2>>, <<1, 4>>}
    <3>1. q[1] = 1 /\ q[2] \in {2, 4} /\ access # "Full"
      BY <1>4, <2>3
    <3>2. 1 * b = b /\ b \in Nat
      BY <1>2 DEF b
    <3>. QED  BY <3>1, <3>2
  <2>4. CASE q \in {<<2, 4>>, <<3, 4>>}
    <3>1. q[1] \in {2, 3} /\ q[2] = 4 /\ access # "Full"
      BY <1>4, <2>4
    <3>2. b \in Nat
      BY <1>2 DEF b
    <3>. QED  BY <3>1, <3>2
  <2>. QED  BY <1>4, <2>1, <2>2, <2>3, <2>4
<1>6. d.reg = p /\ d.o = RegInfo[r].byteOffs + (q[1] * b) \div q[2] /\ d.n = b \div q[2]
  BY <1>3
<1>. QED  BY <1>1, <1>2, <1>5, <1>6 DEF b

\* The elements of registers and stack.
LEMMA StateFacts ==
  ASSUME NEW p \in States
  PROVE  /\ \A r \in Physical : p.reg[r] \in Bytes(RegInfo[r].bytes)
         /\ p.stack \in Stacks /\ p.ok \in BOOLEAN
BY DEF States, Registers

\* Elements for all registers.
LEMMA RegistersMade ==
  ASSUME NEW reg, reg = [r \in Physical |-> reg[r]], \A r \in Physical : reg[r] \in Bytes(RegInfo[r].bytes)
  PROVE  reg \in Registers
<1>1. \A r \in Physical : RegInfo[r].bytes \in Nat
  BY PhysicalFacts DEF Physical
<1>. QED  BY <1>1 DEF Registers

\* All of merge().
LEMMA MergeIs ==
  ASSUME NEW p, NEW q, NEW m, m = Merge(p, q)
  PROVE  /\ m.state = [reg |-> [r \in Physical |-> MergeElements(p.reg[r], q.reg[r]).e],
                       stack |-> MergeStack(p.stack, q.stack).s, ok |-> TRUE]
         /\ m.diff <=> \/ MergeStack(p.stack, q.stack).diff
                       \/ \E r \in Physical : MergeElements(p.reg[r], q.reg[r]).diff
<1>. DEFINE regs == [r \in Physical |-> MergeElements(p.reg[r], q.reg[r])]
            stack == MergeStack(p.stack, q.stack)
            state == [reg |-> [r \in Physical |-> regs[r].e], stack |-> stack.s, ok |-> TRUE]
            diff == stack.diff \/ \E r \in Physical : regs[r].diff
<1>1. m = [state |-> state, diff |-> diff]
  BY DEF Merge
<1>2. m.state = state /\ m.diff = diff
  <2>. HIDE DEF state, diff
  <2>1. [state |-> state, diff |-> diff].state = state /\ [state |-> state, diff |-> diff].diff = diff
    OBVIOUS
  <2>. QED  BY <1>1, <2>1, Zenon
<1>3. \A r \in Physical : regs[r] = MergeElements(p.reg[r], q.reg[r])
  OBVIOUS
<1>. HIDE DEF stack, regs
<1>4. [r \in Physical |-> regs[r].e] = [r \in Physical |-> MergeElements(p.reg[r], q.reg[r]).e]
  BY <1>3
<1>5. diff <=> stack.diff \/ \E r \in Physical : MergeElements(p.reg[r], q.reg[r]).diff
  BY <1>3
<1>. QED  BY <1>2, <1>4, <1>5, Zenon DEF stack

\* No tail of a program state is without its head.
StateBelongs(p) == (\A r \in Physical : Belongs(p.reg[r])) /\ Belongs(p.stack.data)

\* Two program states merged are one.
LEMMA MergeType ==
  ASSUME NEW p \in States, NEW q \in States
  PROVE  Merge(p, q).state \in States
<1>. DEFINE m == Merge(p, q)
            reg == [r \in Physical |-> MergeElements(p.reg[r], q.reg[r]).e]
            stack == MergeStack(p.stack, q.stack)
<1>1. m.state = [reg |-> reg, stack |-> stack.s, ok |-> TRUE]
  BY MergeIs
<1>2. ASSUME NEW r \in Physical PROVE reg[r] \in Bytes(RegInfo[r].bytes)
  <2>1. p.reg[r] \in Bytes(RegInfo[r].bytes) /\ q.reg[r] \in Bytes(RegInfo[r].bytes) /\ RegInfo[r].bytes \in Nat
    BY StateFacts, PhysicalFacts DEF Physical
  <2>. QED  BY <2>1, MergeElementsFacts DEF Joining
<1>3. reg \in Registers
  <2>1. reg = [r \in Physical |-> reg[r]]
    OBVIOUS
  <2>. HIDE DEF reg
  <2>. QED  BY <1>2, <2>1, RegistersMade
<1>4. stack.s \in Stacks
  BY StateFacts, MergeStackFacts
<1>. HIDE DEF m, reg, stack
<1>. QED  BY <1>1, <1>3, <1>4 DEF m, States

\* merge() settles, for any two program states, if the tails of the first belong.
LEMMA MergedStates ==
  ASSUME NEW p \in States, NEW q \in States, StateBelongs(p), NEW once, once = Merge(p, q)
  PROVE  /\ ~Merge(once.state, q).diff
         /\ ~Merge(once.state, p).diff
         /\ ~once.diff => \A r \in DOMAIN RegInfo :
                Sure(GetRegister(p, r, "Full")) => GetRegister(once.state, r, "Full") = GetRegister(p, r, "Full")
<1>. DEFINE s == once.state
            M(r) == MergeElements(p.reg[r], q.reg[r])
            stack == MergeStack(p.stack, q.stack)
<1>1. /\ s = [reg |-> [r \in Physical |-> M(r).e], stack |-> stack.s, ok |-> TRUE]
      /\ once.diff <=> stack.diff \/ \E r \in Physical : M(r).diff
  BY MergeIs
<1>2. s.reg = [r \in Physical |-> M(r).e] /\ s.stack = stack.s
  BY <1>1
<1>. HIDE DEF s
<1>3. ASSUME NEW r \in Physical
      PROVE  /\ RegInfo[r].bytes \in Nat
             /\ p.reg[r] \in Bytes(RegInfo[r].bytes) /\ q.reg[r] \in Bytes(RegInfo[r].bytes)
             /\ s.reg[r] = M(r).e /\ s.reg[r] \in Bytes(RegInfo[r].bytes)
             /\ ~MergeElements(s.reg[r], q.reg[r]).diff
             /\ ~MergeElements(s.reg[r], p.reg[r]).diff
             /\ ~M(r).diff => Lossless(p.reg[r], s.reg[r], RegInfo[r].bytes)
  <2>1. p.reg[r] \in Bytes(RegInfo[r].bytes) /\ q.reg[r] \in Bytes(RegInfo[r].bytes) /\ RegInfo[r].bytes \in Nat
        /\ Belongs(p.reg[r])
    BY StateFacts, PhysicalFacts DEF Physical, StateBelongs
  <2>2. s.reg[r] = M(r).e
    BY <1>2
  <2>. QED  BY <2>1, <2>2, MergedTwice
<1>4. ~MergeStack(s.stack, q.stack).diff /\ ~MergeStack(s.stack, p.stack).diff
  BY <1>2, StateFacts, MergeStackFacts DEF StateBelongs
<1>. HIDE DEF M, stack
<1>5. ~Merge(s, q).diff /\ ~Merge(s, p).diff
  BY <1>3, <1>4, MergeIs, Zenon
<1>6. ASSUME ~once.diff, NEW r \in DOMAIN RegInfo, Sure(GetRegister(p, r, "Full"))
      PROVE  GetRegister(s, r, "Full") = GetRegister(p, r, "Full")
  <2>. DEFINE d == GetRegisterData(r, "Full")
              n == RegInfo[d.reg].bytes
  <2>0. "Full" \in DOMAIN PartOf
    BY DEF PartOf
  <2>1. d.reg \in Physical /\ d.o \in Nat /\ d.n \in Nat \ {0} /\ d.o + d.n <= n
    BY <2>0, RegisterDataFacts
  <2>2. GetRegister(p, r, "Full") = GetElements(p.reg[d.reg], d.o, d.n)
        /\ GetRegister(s, r, "Full") = GetElements(s.reg[d.reg], d.o, d.n)
    BY DEF GetRegister, ReadRegister
  <2>. HIDE DEF d
  <2>3. ~M(d.reg).diff
    BY <1>1, <1>6, <2>1
  <2>4. n \in Nat /\ p.reg[d.reg] \in Bytes(n) /\ s.reg[d.reg] \in Bytes(n) /\ Lossless(p.reg[d.reg], s.reg[d.reg], n)
    BY <1>3, <2>1, <2>3
  <2>. QED  BY <1>6, <2>1, <2>2, <2>4, ReadLossless
<1>. QED  BY <1>5, <1>6 DEF s

-----------------------------------------------------------------------------
(* Every operation on a program state leaves one.                          *)

\* An exception leaves the elements alone.
LEMMA FailType ==
  ASSUME NEW p \in States
  PROVE  Fail(p) \in States
BY Zenon DEF Fail, States

\* New elements of a register, or an exception.
LEMMA PutRegType ==
  ASSUME NEW p \in States, NEW r \in Physical, NEW e \in Bytes(RegInfo[r].bytes) \cup {Thrown}
  PROVE  PutReg(p, r, e) \in States
<1>1. CASE e = Thrown
  BY <1>1, FailType DEF PutReg
<1>2. CASE e # Thrown
  <2>. DEFINE g == [p.reg EXCEPT ![r] = e]
  <2>1. p.reg \in [Physical -> UNION {Bytes(n) : n \in Nat}] /\ \A x \in Physical : p.reg[x] \in Bytes(RegInfo[x].bytes)
    BY DEF States, Registers
  <2>2. \A x \in Physical : g[x] = IF x = r THEN e ELSE p.reg[x]
    BY <2>1
  <2>3. g = [x \in Physical |-> g[x]]
    BY <2>1
  <2>4. PutReg(p, r, e) = [p EXCEPT !.reg = g]
    BY <1>2 DEF PutReg
  <2>. HIDE DEF g
  <2>5. g \in Registers
    BY <1>2, <2>1, <2>2, <2>3, RegistersMade
  <2>. QED  BY <2>4, <2>5 DEF States
<1>. QED  BY <1>1, <1>2

\* New elements of the stack, or an exception.
LEMMA PutStackType ==
  ASSUME NEW p \in States, NEW n \in Nat, n = Size(p.stack.data), NEW e \in Bytes(n) \cup {Thrown}
  PROVE  PutStack(p, e) \in States
<1>1. CASE e = Thrown
  BY <1>1, FailType DEF PutStack
<1>2. CASE e # Thrown
  <2>. DEFINE s == p.stack
              g == [s EXCEPT !.data = e]
  <2>1. s \in Stacks /\ s \in [data : UNION {Bytes(m) : m \in Nat}, base : Nat, dead : BOOLEAN]
    BY DEF States, Stacks
  <2>2. s.base \in 0 .. n /\ s.dead \in BOOLEAN
    BY <2>1, StackFacts
  <2>3. g = [data |-> e, base |-> s.base, dead |-> s.dead]
    <3>. HIDE DEF s
    <3>. QED  BY <2>1
  <2>4. g \in Stacks
    BY <1>2, <2>2, <2>3, StackMade
  <2>5. PutStack(p, e) = [p EXCEPT !.stack = g]
    BY <1>2 DEF PutStack
  <2>. HIDE DEF g
  <2>. QED  BY <2>4, <2>5 DEF States
<1>. QED  BY <1>1, <1>2

\* growStack() makes room for an access of n bytes at offset.
LEMMA GrownFacts ==
  ASSUME NEW p \in States, ~p.stack.dead, NEW offset \in Int, NEW n \in Nat, NEW g, g = Grown(p, offset, n)
  PROVE  /\ g \in States /\ ~g.stack.dead /\ g.reg = p.reg /\ g.ok = p.ok
         /\ g.stack = Grow(p.stack, offset, n)
         /\ g.stack.base + offset \in Nat /\ g.stack.base + offset + n <= Size(g.stack.data)
         /\ g.stack.base \in Nat /\ Size(g.stack.data) \in Nat /\ g.stack.data \in Bytes(Size(g.stack.data))
<1>. DEFINE s == Grow(p.stack, offset, n)
<1>1. p.stack \in Stacks
  BY DEF States
<1>2. s \in Stacks /\ ~s.dead /\ s.base + offset \in Nat /\ s.base + offset + n <= Size(s.data)
  BY <1>1, GrowFacts
<1>3. g = [p EXCEPT !.stack = s]
  BY DEF Grown
<1>. HIDE DEF s
<1>4. g \in States /\ g.stack = s /\ g.reg = p.reg /\ g.ok = p.ok
  BY <1>2, <1>3 DEF States
<1>. QED  BY <1>2, <1>4, StackFacts DEF s

\* The elements of a register that an access names are written.
LEMMA WriteRegisterType ==
  ASSUME NEW p \in States, NEW reg \in DOMAIN RegInfo, NEW access \in DOMAIN PartOf,
         NEW v \in Values, NEW cond \in BOOLEAN
  PROVE  WriteRegister(p, GetRegisterData(reg, access), v, cond) \in States
<1>. DEFINE d == GetRegisterData(reg, access)
            n == RegInfo[d.reg].bytes
<1>1. d.reg \in Physical /\ d.o \in Nat /\ d.n \in Nat /\ n \in Nat /\ d.o + d.n <= n
  BY RegisterDataFacts
<1>2. p.reg[d.reg] \in Bytes(n)
  BY <1>1, StateFacts
<1>. HIDE DEF d
<1>3. SetElements(p.reg[d.reg], d.o, d.n, v, cond) \in Bytes(n) \cup {Thrown}
  BY <1>1, <1>2, SetElementsFacts
<1>4. WriteRegister(p, d, v, cond) \in States
  BY <1>1, <1>3, PutRegType DEF WriteRegister
<1>. QED  BY <1>4 DEF d

\* An immediate is a value.
LEMMA ImmType ==
  ASSUME NEW v \in Int
  PROVE  Imm(v) \in Values
BY DEF Imm, DynamicValue, Values, ElementTypes, Tails

\* A value that is neither number nor pointer.
LEMMA PlainType ==
  ASSUME NEW t \in ElementTypes \ Tails
  PROVE  Plain(t) \in Values
BY DEF Plain, DynamicValue, Values

\* setRegister().
LEMMA SetRegisterType ==
  ASSUME NEW p \in States, NEW reg \in DOMAIN RegInfo, NEW access \in DOMAIN PartOf,
         NEW v \in Values, NEW cond \in BOOLEAN
  PROVE  SetRegister(p, reg, access, v, cond) \in States
<1>1. CASE access = "FullZeroParent" /\ ~cond
  <2>. DEFINE z == WriteRegister(p, GetRegisterData(reg, access), Imm(0), FALSE)
  <2>1. z \in States
    <3>1. Imm(0) \in Values /\ FALSE \in BOOLEAN
      BY ImmType
    <3>. QED  BY <3>1, WriteRegisterType, Zenon
  <2>2. "Full" \in DOMAIN PartOf
    BY DEF PartOf
  <2>. HIDE DEF z
  <2>3. WriteRegister(z, GetRegisterData(reg, "Full"), v, FALSE) \in States
    BY <2>1, <2>2, WriteRegisterType, Zenon
  <2>. QED  BY <1>1, <2>3, Zenon DEF SetRegister, z
<1>2. CASE ~(access = "FullZeroParent" /\ ~cond)
  BY <1>2, WriteRegisterType, Zenon DEF SetRegister
<1>. QED  BY <1>1, <1>2

\* setStack().
LEMMA SetStackType ==
  ASSUME NEW p \in States, NEW offset \in Int, NEW n \in Nat, NEW v \in Values, NEW cond \in BOOLEAN
  PROVE  SetStack(p, offset, n, v, cond) \in States
<1>1. CASE p.stack.dead
  BY <1>1 DEF SetStack
<1>2. CASE ~p.stack.dead
  <2>. DEFINE g == Grown(p, offset, n)
              m == Size(g.stack.data)
              e == SetElements(g.stack.data, g.stack.base + offset, n, v, cond)
  <2>1. /\ g \in States /\ g.stack.base + offset \in Nat /\ g.stack.base + offset + n <= m
        /\ m \in Nat /\ g.stack.data \in Bytes(m)
    BY <1>2, GrownFacts
  <2>2. SetStack(p, offset, n, v, cond) = PutStack(g, e)
    BY <1>2 DEF SetStack
  <2>. HIDE DEF g
  <2>3. e \in Bytes(m) \cup {Thrown}
    BY <2>1, SetElementsFacts
  <2>. QED  BY <2>1, <2>2, <2>3, PutStackType
<1>. QED  BY <1>1, <1>2

\* getRegister() returns a value, never a tail.
LEMMA GetRegisterType ==
  ASSUME NEW p \in States, NEW reg \in DOMAIN RegInfo, NEW access \in DOMAIN PartOf
  PROVE  /\ GetRegister(p, reg, access) \in Values
         /\ IsImm(GetRegister(p, reg, access)) => GetRegister(p, reg, access).nr = 0
<1>. DEFINE d == GetRegisterData(reg, access)
            n == RegInfo[d.reg].bytes
<1>1. d.reg \in Physical /\ d.o \in Nat /\ d.n \in Nat /\ n \in Nat /\ d.o + d.n <= n
  BY RegisterDataFacts
<1>2. p.reg[d.reg] \in Bytes(n)
  BY <1>1, StateFacts
<1>3. GetRegister(p, reg, access) = GetElements(p.reg[d.reg], d.o, d.n)
  BY DEF GetRegister, ReadRegister
<1>. HIDE DEF d
<1>. QED  BY <1>1, <1>2, <1>3, ReadType

\* getStack() returns a value, never a tail.
LEMMA GetStackType ==
  ASSUME NEW p \in States, NEW offset \in Int, NEW n \in Nat
  PROVE  GetStack(p, offset, n) \in Values
<1>. DEFINE s == Grow(p.stack, offset, n)
<1>0. GetStack(p, offset, n) = IF s.dead THEN Plain("Tainted") ELSE GetElements(s.data, s.base + offset, n)
  BY DEF GetStack
<1>1. p.stack \in Stacks
  BY StateFacts
<1>2. CASE p.stack.dead
  <2>1. s.dead
    BY <1>2 DEF Grow
  <2>. QED  BY <1>0, <2>1, PlainType DEF ElementTypes, Opaque, Tails
<1>3. CASE ~p.stack.dead
  <2>1. s \in Stacks /\ ~s.dead /\ s.base + offset \in Nat /\ s.base + offset + n <= Size(s.data)
    BY <1>1, <1>3, GrowFacts, Zenon
  <2>2. Size(s.data) \in Nat /\ s.data \in Bytes(Size(s.data))
    BY <2>1, StackFacts
  <2>. HIDE DEF s
  <2>. QED  BY <1>0, <2>1, <2>2, ReadType
<1>. QED  BY <1>2, <1>3

\* Moves between registers and stack, and what ends all knowledge.
LEMMA OwnFacts ==
  ASSUME NEW access \in DOMAIN PartOf
  PROVE  Own(access) \in DOMAIN PartOf
BY DEF Own, PartOf

\* A 32 bit write zeroes the register first.
LEMMA ZeroParentType ==
  ASSUME NEW p \in States, NEW reg \in DOMAIN RegInfo, NEW access \in DOMAIN PartOf
  PROVE  ZeroParent(p, reg, access) \in States
<1>1. Imm(0) \in Values /\ FALSE \in BOOLEAN
  BY ImmType
<1>2. SetRegister(p, reg, access, Imm(0), FALSE) \in States
  BY <1>1, SetRegisterType, Zenon
<1>. QED  BY <1>2, Zenon DEF ZeroParent

\* moveStackStack().
LEMMA MoveStackStackType ==
  ASSUME NEW p \in States, NEW from \in Int, NEW to \in Int, NEW n \in Nat
  PROVE  MoveStackStack(p, from, to, n) \in States
<1>1. CASE p.stack.dead
  BY <1>1 DEF MoveStackStack
<1>2. CASE ~p.stack.dead
  <2>. DEFINE f == Grown(p, from, n)
              g == Grown(f, to, n)
              e == MoveElements(g.stack.data, g.stack.base + from, g.stack.data, g.stack.base + to, n, TRUE)
  <2>1. MoveStackStack(p, from, to, n) = PutStack(g, e)
    BY <1>2 DEF MoveStackStack
  <2>2. /\ f \in States /\ ~f.stack.dead /\ f.stack.base + from \in Nat
        /\ f.stack.base + from + n <= Size(f.stack.data) /\ f.stack \in Stacks
        /\ f.stack.base \in Nat /\ Size(f.stack.data) \in Nat
    BY <1>2, GrownFacts, StateFacts
  <2>. HIDE DEF f
  <2>3. /\ g \in States /\ g.stack = Grow(f.stack, to, n) /\ g.stack.base \in Nat
        /\ g.stack.base + to \in Nat /\ g.stack.base + to + n <= Size(g.stack.data)
        /\ Size(g.stack.data) \in Nat /\ g.stack.data \in Bytes(Size(g.stack.data))
    BY <2>2, GrownFacts
  <2>. HIDE DEF g
  <2>4. /\ g.stack.base = f.stack.base + Down(f.stack, to)
        /\ Size(g.stack.data) = Size(f.stack.data) + Up(f.stack, to, n) + Down(f.stack, to)
    <3>. DEFINE s == f.stack
                h == g.stack
    <3>1. s \in Stacks /\ ~s.dead /\ h = Grow(s, to, n)
      BY <2>2, <2>3
    <3>. HIDE DEF s, h
    <3>2. h.base = s.base + Down(s, to) /\ Size(h.data) = Size(s.data) + Up(s, to, n) + Down(s, to)
      BY <3>1, GrowFacts
    <3>. QED  BY <3>2 DEF s, h
  <2>5. Down(f.stack, to) \in Nat /\ Up(f.stack, to, n) \in Nat
    <3>1. OldStackSize(f.stack) \in Nat
      BY <2>2, StackFacts
    <3>. QED  BY <2>2, <3>1 DEF Down, Up
  <2>6. g.stack.base + from \in Nat /\ g.stack.base + from + n <= Size(g.stack.data)
    BY <2>2, <2>3, <2>4, <2>5
  <2>7. e \in Bytes(Size(g.stack.data)) \cup {Thrown}
    <3>. DEFINE m == Size(g.stack.data)
                o1 == g.stack.base + from
                o2 == g.stack.base + to
                h == g.stack.data
    <3>1. m \in Nat /\ h \in Bytes(m) /\ o1 \in Nat /\ o2 \in Nat /\ o1 + n <= m /\ o2 + n <= m /\ TRUE \in BOOLEAN
      BY <2>3, <2>6
    <3>. HIDE DEF m, o1, o2, h
    <3>2. MoveElements(h, o1, h, o2, n, TRUE) \in Bytes(m) \cup {Thrown}
      BY <3>1, MoveElementsFacts, Zenon
    <3>. QED  BY <3>2, Zenon DEF m, o1, o2, h
  <2>. HIDE DEF e
  <2>. QED  BY <2>1, <2>3, <2>7, PutStackType
<1>. QED  BY <1>1, <1>2

\* moveRegisterRegister().
LEMMA MoveRegisterRegisterType ==
  ASSUME NEW p \in States, NEW reg1 \in DOMAIN RegInfo, NEW access1 \in DOMAIN PartOf,
         NEW reg2 \in DOMAIN RegInfo, NEW access2 \in DOMAIN PartOf
  PROVE  MoveRegisterRegister(p, reg1, access1, reg2, access2) \in States
<1>. DEFINE z == ZeroParent(p, reg2, access2)
            d1 == GetRegisterData(reg1, access1)
            d2 == GetRegisterData(reg2, Own(access2))
            n1 == RegInfo[d1.reg].bytes
            n2 == RegInfo[d2.reg].bytes
            same == d1.reg = d2.reg
            e == MoveElements(z.reg[d1.reg], d1.o, z.reg[d2.reg], d2.o, d1.n, same)
<1>1. MoveRegisterRegister(p, reg1, access1, reg2, access2)
      = IF d1.n # d2.n \/ ~z.ok THEN Fail(z) ELSE PutReg(z, d2.reg, e)
  BY DEF MoveRegisterRegister
<1>2. z \in States
  BY ZeroParentType
<1>3. d1.reg \in Physical /\ d1.o \in Nat /\ d1.n \in Nat /\ n1 \in Nat /\ d1.o + d1.n <= n1
  BY RegisterDataFacts
<1>4. d2.reg \in Physical /\ d2.o \in Nat /\ d2.n \in Nat /\ n2 \in Nat /\ d2.o + d2.n <= n2
  BY RegisterDataFacts, OwnFacts, Zenon
<1>. HIDE DEF z, d1, d2
<1>5. z.reg[d1.reg] \in Bytes(n1) /\ z.reg[d2.reg] \in Bytes(n2)
  BY <1>2, <1>3, <1>4, StateFacts
<1>6. same \in BOOLEAN /\ (same => n1 = n2)
  OBVIOUS
<1>7. d1.n = d2.n => e \in Bytes(n2) \cup {Thrown}
  <2>. DEFINE b == same
  <2>1. b \in BOOLEAN /\ (b => n1 = n2)
    OBVIOUS
  <2>. HIDE DEF b
  <2>2. d1.n = d2.n => MoveElements(z.reg[d1.reg], d1.o, z.reg[d2.reg], d2.o, d1.n, b) \in Bytes(n2) \cup {Thrown}
    BY <1>3, <1>4, <1>5, <2>1, MoveElementsFacts
  <2>. QED  BY <2>2 DEF b
<1>. HIDE DEF e
<1>8. d1.n = d2.n => PutReg(z, d2.reg, e) \in States
  BY <1>2, <1>4, <1>7, PutRegType
<1>. QED  BY <1>1, <1>2, <1>8, FailType

\* moveStackRegister().
LEMMA MoveStackRegisterType ==
  ASSUME NEW p \in States, NEW offset \in Int, NEW n \in Nat, NEW reg \in DOMAIN RegInfo, NEW access \in DOMAIN PartOf
  PROVE  MoveStackRegister(p, offset, n, reg, access) \in States
<1>. DEFINE z == ZeroParent(p, reg, access)
            d == GetRegisterData(reg, Own(access))
            m == RegInfo[d.reg].bytes
            g == Grown(z, offset, n)
            e == MoveElements(g.stack.data, g.stack.base + offset, g.reg[d.reg], d.o, n, FALSE)
<1>1. /\ ~z.ok \/ (~z.stack.dead /\ d.n # n) => MoveStackRegister(p, offset, n, reg, access) = Fail(z)
      /\ z.ok /\ z.stack.dead => MoveStackRegister(p, offset, n, reg, access)
                                 = SetRegister(z, reg, Own(access), Plain("Tainted"), FALSE)
      /\ z.ok /\ ~z.stack.dead /\ d.n = n => MoveStackRegister(p, offset, n, reg, access) = PutReg(g, d.reg, e)
  BY Zenon DEF MoveStackRegister
<1>2. z \in States /\ z.ok \in BOOLEAN
  BY ZeroParentType, StateFacts
<1>3. d.reg \in Physical /\ d.o \in Nat /\ d.n \in Nat /\ m \in Nat /\ d.o + d.n <= m
  BY RegisterDataFacts, OwnFacts, Zenon
<1>. HIDE DEF z
<1>4. SetRegister(z, reg, Own(access), Plain("Tainted"), FALSE) \in States
  <2>1. Plain("Tainted") \in Values /\ FALSE \in BOOLEAN
    BY PlainType DEF ElementTypes, Opaque, Tails
  <2>. QED  BY <1>2, <2>1, OwnFacts, SetRegisterType, Zenon
<1>. HIDE DEF d
<1>5. ASSUME z.ok, ~z.stack.dead, d.n = n PROVE PutReg(g, d.reg, e) \in States
  <2>. DEFINE k == Size(g.stack.data)
              o == g.stack.base + offset
  <2>1. g \in States /\ o \in Nat /\ o + n <= k /\ k \in Nat /\ g.stack.data \in Bytes(k)
    BY <1>2, <1>5, GrownFacts
  <2>. HIDE DEF g
  <2>2. g.reg[d.reg] \in Bytes(m)
    BY <1>3, <2>1, StateFacts
  <2>. HIDE DEF k, o
  <2>3. MoveElements(g.stack.data, o, g.reg[d.reg], d.o, n, FALSE) \in Bytes(m) \cup {Thrown}
    <3>1. FALSE \in BOOLEAN
      OBVIOUS
    <3>. QED  BY <1>3, <1>5, <2>1, <2>2, <3>1, MoveElementsFacts, Zenon
  <2>4. e \in Bytes(m) \cup {Thrown}
    BY <2>3, Zenon DEF o
  <2>. HIDE DEF e
  <2>. QED  BY <1>3, <2>1, <2>4, PutRegType
<1>. HIDE DEF g, e
<1>. QED  BY <1>1, <1>2, <1>4, <1>5, FailType, Zenon

\* moveRegisterStack().
LEMMA MoveRegisterStackType ==
  ASSUME NEW p \in States, NEW reg \in DOMAIN RegInfo, NEW access \in DOMAIN PartOf, NEW offset \in Int, NEW n \in Nat
  PROVE  MoveRegisterStack(p, reg, access, offset, n) \in States
<1>. DEFINE d == GetRegisterData(reg, access)
            m == RegInfo[d.reg].bytes
            g == Grown(p, offset, n)
            e == MoveElements(g.reg[d.reg], d.o, g.stack.data, g.stack.base + offset, n, FALSE)
<1>1. /\ p.stack.dead => MoveRegisterStack(p, reg, access, offset, n) = p
      /\ ~p.stack.dead /\ d.n # n => MoveRegisterStack(p, reg, access, offset, n) = Fail(p)
      /\ ~p.stack.dead /\ d.n = n => MoveRegisterStack(p, reg, access, offset, n) = PutStack(g, e)
  BY Zenon DEF MoveRegisterStack
<1>2. d.reg \in Physical /\ d.o \in Nat /\ d.n \in Nat /\ m \in Nat /\ d.o + d.n <= m
  BY RegisterDataFacts
<1>. HIDE DEF d
<1>3. ASSUME ~p.stack.dead, d.n = n PROVE PutStack(g, e) \in States
  <2>. DEFINE k == Size(g.stack.data)
              o == g.stack.base + offset
  <2>1. g \in States /\ o \in Nat /\ o + n <= k /\ k \in Nat /\ g.stack.data \in Bytes(k)
    BY <1>3, GrownFacts
  <2>. HIDE DEF g
  <2>2. g.reg[d.reg] \in Bytes(m)
    BY <1>2, <2>1, StateFacts
  <2>. HIDE DEF k, o
  <2>3. MoveElements(g.reg[d.reg], d.o, g.stack.data, o, n, FALSE) \in Bytes(k) \cup {Thrown}
    <3>1. FALSE \in BOOLEAN
      OBVIOUS
    <3>. QED  BY <1>2, <1>3, <2>1, <2>2, <3>1, MoveElementsFacts, Zenon
  <2>4. e \in Bytes(k) \cup {Thrown}
    BY <2>3, Zenon DEF o
  <2>. HIDE DEF e
  <2>. QED  BY <2>1, <2>4, PutStackType DEF k
<1>. HIDE DEF g, e
<1>. QED  BY <1>1, <1>3, FailType

\* A stack that is given up has no elements.
LEMMA DeadStackType == DeadStack \in Stacks /\ NewStack \in Stacks
<1>1. Fresh(0) \in Bytes(0)
  BY DEF Fresh, Bytes, Whole
<1>2. NewStack \in [data : {Fresh(0)}, base : {0}, dead : BOOLEAN]
  BY DEF NewStack
<1>3. DeadStack \in [data : {Fresh(0)}, base : {0}, dead : BOOLEAN]
  BY <1>2, Zenon DEF DeadStack
<1>. QED  BY <1>1, <1>2, <1>3 DEF Stacks

\* untrackedStackAccess().
LEMMA UntrackedType ==
  ASSUME NEW p \in States
  PROVE  UntrackedStackAccess(p) \in States
BY DeadStackType DEF UntrackedStackAccess, States

\* nastyInstruction().
LEMMA NastyType ==
  ASSUME NEW p \in States
  PROVE  NastyInstruction(p) \in States
<1>. DEFINE v(r) == Plain(IF RegInfo[r].bytes = 1 THEN "Unknown" ELSE "Tainted")
            after(r) == SetElements(p.reg[r], 0, RegInfo[r].bytes, v(r), FALSE)
            reg == [r \in Physical |-> after(r)]
<1>1. NastyInstruction(p) = IF \E r \in Physical : after(r) = Thrown THEN Fail(p)
                            ELSE [p EXCEPT !.reg = reg, !.stack = DeadStack]
  BY DEF NastyInstruction
<1>2. ASSUME NEW r \in Physical PROVE after(r) \in Bytes(RegInfo[r].bytes) \cup {Thrown}
  <2>1. RegInfo[r].bytes \in Nat /\ p.reg[r] \in Bytes(RegInfo[r].bytes) /\ 0 + RegInfo[r].bytes <= RegInfo[r].bytes
    BY StateFacts, PhysicalFacts DEF Physical
  <2>2. v(r) \in Values /\ FALSE \in BOOLEAN /\ 0 \in Nat
    BY PlainType DEF ElementTypes, Opaque, Tails
  <2>. HIDE DEF v
  <2>. QED  BY <2>1, <2>2, SetElementsFacts, Zenon
<1>3. CASE \A r \in Physical : after(r) # Thrown
  <2>1. \A r \in Physical : reg[r] = after(r)
    OBVIOUS
  <2>2. reg = [r \in Physical |-> reg[r]]
    OBVIOUS
  <2>. HIDE DEF after
  <2>3. \A r \in Physical : reg[r] \in Bytes(RegInfo[r].bytes)
    BY <1>2, <1>3, <2>1
  <2>. HIDE DEF reg
  <2>4. reg \in Registers
    BY <2>2, <2>3, RegistersMade
  <2>5. [p EXCEPT !.reg = reg, !.stack = DeadStack] \in States
    BY <2>4, DeadStackType, Zenon DEF States
  <2>. QED  BY <1>1, <1>3, <2>5
<1>. HIDE DEF after, reg
<1>. QED  BY <1>1, <1>3, FailType

-----------------------------------------------------------------------------
(* The values instructions compute.                                        *)

\* The parts of a value.
LEMMA ValueFacts ==
  ASSUME NEW v \in Values
  PROVE  v.type \in ElementTypes \ Tails /\ v.nr \in Int /\ v.val \in Int
BY DEF Values

\* Types of values without content.
LEMMA OpaqueTypes == {"Dead", "Unknown", "Tainted"} \subseteq ElementTypes \ Tails
BY DEF ElementTypes, Tails, Opaque

\* The unknown value.
LEMMA UnknownType == Unknown \in Values
BY PlainType, OpaqueTypes DEF Unknown

\* What is modulo a word is a number.
LEMMA ModType ==
  ASSUME NEW x \in Int
  PROVE  x % Word \in Int
BY WordType

\* getImm64().
LEMMA Getimm64Type ==
  ASSUME NEW v \in Values
  PROVE  Getimm64(v) \in Int
BY ValueFacts, ModType DEF Getimm64

\* A pointer plus a number.
LEMMA MovedType ==
  ASSUME NEW v \in Values, NEW by \in Int
  PROVE  Moved(v, by) \in Values
<1>1. v.val + by \in Int
  BY ValueFacts
<1>2. (v.val + by) % Word \in Int
  BY <1>1, ModType
<1>. QED  BY <1>2, ValueFacts DEF Moved, DynamicValue, Values

\* multiplyDynamicValue() returns a value.
LEMMA MultiplyType ==
  ASSUME NEW v \in Values, NEW scale \in Int
  PROVE  MultiplyDynamicValue(v, scale) \in Values
<1>1. Imm((scale * Getimm64(v)) % Word) \in Values
  <2>. DEFINE x == Getimm64(v)
  <2>1. x \in Int
    BY Getimm64Type
  <2>. HIDE DEF x
  <2>2. scale * x \in Int
    BY <2>1
  <2>. DEFINE y == scale * x
  <2>3. y \in Int
    BY <2>2
  <2>. HIDE DEF y
  <2>4. Imm(y % Word) \in Values
    BY <2>3, ModType, ImmType
  <2>. QED  BY <2>4 DEF x, y
<1>2. Plain("Tainted") \in Values /\ Plain("Unknown") \in Values /\ Plain(v.type) \in Values
  BY PlainType, OpaqueTypes, ValueFacts
<1>3. MultiplyDynamicValue(v, scale) \in {v, Imm((scale * Getimm64(v)) % Word), Plain("Tainted"), Plain("Unknown"), Plain(v.type)}
  <2>. DEFINE a == Imm((scale * Getimm64(v)) % Word)
              b == Plain("Tainted")
              c == Plain("Unknown")
              d == Plain(v.type)
              A == scale = 1
              B == scale # 1 /\ IsImm(v)
              C == scale # 1 /\ v.type = "StackPtr"
              D == scale # 1 /\ v.type \in {"UsrPtr", "ReturnPtr"}
  <2>1. MultiplyDynamicValue(v, scale) = CASE A -> v [] B -> a [] C -> b [] D -> c [] OTHER -> d
    BY DEF MultiplyDynamicValue
  <2>2. /\ A => ~B /\ ~C /\ ~D
        /\ B => ~C /\ ~D
        /\ C => ~D
    BY DEF IsImm
  <2>. HIDE DEF a, b, c, d, A, B, C, D
  <2>3. MultiplyDynamicValue(v, scale) \in {v, a, b, c, d}
    BY <2>1, <2>2
  <2>. QED  BY <2>3 DEF a, b, c, d
<1>. QED  BY <1>1, <1>2, <1>3

\* addDynamicValues() returns a value.
LEMMA AddType ==
  ASSUME NEW a \in Values, NEW b \in Values
  PROVE  AddDynamicValues(a, b) \in Values
<1>. DEFINE w == Imm((Getimm64(a) + Getimm64(b)) % Word)
            x == Moved(a, Getimm64(b))
            y == Moved(b, Getimm64(a))
            z == Plain(IF {a.type, b.type} \cap {"Tainted", "StackPtr"} # {} THEN "Tainted" ELSE "Unknown")
            A == IsImm(a) /\ IsImm(b)
            B == IsPtr(a) /\ IsImm(b)
            C == IsPtr(b) /\ IsImm(a)
<1>1. AddDynamicValues(a, b) = CASE A -> w [] B -> x [] C -> y [] OTHER -> z
  BY DEF AddDynamicValues
<1>2. /\ A => ~B /\ ~C
      /\ B => ~C
  BY DEF IsImm, IsPtr, Pointers
<1>3. w \in Values
  <2>1. Getimm64(a) + Getimm64(b) \in Int
    BY Getimm64Type
  <2>. QED  BY <2>1, ModType, ImmType
<1>4. x \in Values /\ y \in Values
  BY Getimm64Type, MovedType
<1>5. z \in Values
  BY PlainType, OpaqueTypes
<1>. HIDE DEF w, x, y, z, A, B, C
<1>. QED  BY <1>1, <1>2, <1>3, <1>4, <1>5

\* An offset read as a signed number.
LEMMA SignedType ==
  ASSUME NEW v \in Values
  PROVE  Signed(v.val) \in Int
BY ValueFacts, WordType DEF Signed

-----------------------------------------------------------------------------
(* Operands and their inputs.                                              *)

\* Every byte of host memory is a number.
LEMMA HostByteType ==
  ASSUME NEW a
  PROVE  HostByte(a) \in Int
BY HostAssumption, WordAssumption DEF HostByte

\* Bytes of host memory are a number.
LEMMA HostValueType ==
  ASSUME NEW addr, NEW n \in Nat
  PROVE  HostValue(addr, n) \in Int
<1>. DEFINE t == [i \in 1 .. n |-> HostByte(addr + n - i)]
            Body(f) == [i \in 0 .. n |-> IF i = 0 THEN 0 ELSE f[i - 1] * Radix + HostByte(addr + n - i)]
            c == CHOOSE f : f = Body(f)
<1>1. HostValue(addr, n) = c[n]
  BY DEF HostValue
<1>2. t \in [1 .. n -> Int]
  BY HostByteType
<1>3. ASSUME NEW f PROVE Body(f) = [i \in 0 .. n |-> IF i = 0 THEN 0 ELSE f[i - 1] * Radix + t[i]]
  OBVIOUS
<1>0. n \in Nat /\ Radix \in Int
  BY WordAssumption
<1>. HIDE DEF t
<1>4. \E f : f = Body(f)
  <2>1. PICK f : f = [i \in 0 .. n |-> IF i = 0 THEN 0 ELSE f[i - 1] * Radix + t[i]]
    BY <1>0, <1>2, DigitsExist, Zenon
  <2>2. f = Body(f)
    BY <1>3, <2>1, Zenon
  <2>. QED  BY <2>2
<1>5. c = Body(c)
  BY <1>4, Zenon
<1>. HIDE DEF Body, c
<1>6. c = [i \in 0 .. n |-> IF i = 0 THEN 0 ELSE c[i - 1] * Radix + t[i]]
  BY <1>3, <1>5, Zenon
<1>7. c[n] \in Int
  BY <1>0, <1>2, <1>6, DigitsType, Zenon
<1>. QED  BY <1>1, <1>7

\* The fields of the operands.
LEMMA OperandFacts ==
  ASSUME NEW op \in Operands
  PROVE  /\ op.kind \in {"reg", "imm", "pool", "mem"}
         /\ op.kind = "reg" => op.reg \in DOMAIN RegInfo /\ op.r \in DOMAIN PartOf /\ op.w \in DOMAIN PartOf
         /\ op.kind \in {"imm", "pool"} => op.imm \in Values
         /\ op.kind \in {"pool", "mem"} => op.n \in Nat
         /\ op.kind = "mem" => /\ op.base \in DOMAIN RegInfo \cup {"None"}
                               /\ op.index \in DOMAIN RegInfo \cup {"None"}
                               /\ op.scale \in Int /\ op.disp \in Values
         /\ op.mode \in Modes
BY DEF Operands

\* A mode may be refined.
LEMMA OperandMode ==
  ASSUME NEW op \in Operands, NEW mode \in Modes
  PROVE  [op EXCEPT !.mode = mode] \in Operands
BY DEF Operands

\* A base or index register.
LEMMA AddrValueType ==
  ASSUME NEW p \in States, NEW r \in DOMAIN RegInfo \cup {"None"}
  PROVE  AddrValue(p, r) \in Values
<1>1. Imm(0) \in Values
  BY ImmType
<1>2. "Full" \in DOMAIN PartOf
  BY DEF PartOf
<1>. QED  BY <1>1, <1>2, GetRegisterType DEF AddrValue

\* calculateMemPtr() returns a value.
LEMMA PtrValType ==
  ASSUME NEW p \in States, NEW op \in Operands, op.kind = "mem"
  PROVE  PtrVal(p, op) \in Values
<1>. DEFINE base == AddrValue(p, op.base)
            index == AddrValue(p, op.index)
<1>1. base \in Values /\ index \in Values /\ op.scale \in Int /\ op.disp \in Values
  BY OperandFacts, AddrValueType
<1>. HIDE DEF base, index
<1>2. MultiplyDynamicValue(index, op.scale) \in Values
  BY <1>1, MultiplyType
<1>3. AddDynamicValues(base, MultiplyDynamicValue(index, op.scale)) \in Values
  BY <1>1, <1>2, AddType
<1>4. CalculateMemPtr(base, index, op) \in Values
  BY <1>1, <1>3, AddType DEF CalculateMemPtr
<1>. QED  BY <1>4 DEF PtrVal, base, index

\* emulateReadAccess() returns a value.
LEMMA ReadAccessType ==
  ASSUME NEW p \in States, NEW ptr \in Values, NEW n \in Nat
  PROVE  EmulateReadAccess(p, ptr, n) \in Values
<1>1. Plain("Tainted") \in Values /\ Plain("Unknown") \in Values
  BY PlainType, OpaqueTypes
<1>2. GetStack(p, Signed(ptr.val), n) \in Values
  BY SignedType, GetStackType
<1>3. Imm(HostValue(HostAddr(ptr), n)) \in Values
  BY HostValueType, ImmType
<1>. DEFINE a == Plain("Tainted")
            b == GetStack(p, Signed(ptr.val), n)
            c == Imm(HostValue(HostAddr(ptr), n))
            d == Plain("Unknown")
            A == ptr.type = "Tainted"
            B == ptr.type = "StackPtr"
            C == ptr.type \in {"Immediate", "UsrPtr"} /\ ReadsConstant(ptr, n)
<1>4. EmulateReadAccess(p, ptr, n) = CASE A -> a [] B -> b [] C -> c [] OTHER -> d
  BY DEF EmulateReadAccess
<1>5. (A => ~B /\ ~C) /\ (B => ~C)
  OBVIOUS
<1>6. a \in Values /\ b \in Values /\ c \in Values /\ d \in Values
  BY <1>1, <1>2, <1>3
<1>. HIDE DEF a, b, c, d, A, B, C
<1>. QED  BY <1>4, <1>5, <1>6

\* The input of an operand is a value.
LEMMA InputType ==
  ASSUME NEW p \in States, NEW op \in Operands
  PROVE  Input(p, op) \in Values
<1>. DEFINE a == op.imm
            b == GetRegister(p, op.reg, op.r)
            c == EmulateReadAccess(p, PtrVal(p, op), op.n)
            d == PtrVal(p, op)
            A == op.kind \in {"imm", "pool"}
            B == op.kind = "reg" /\ op.mode \in Reads
            C == op.kind = "mem" /\ op.mode \in Reads
            D == op.kind = "mem" /\ op.mode = "Address"
<1>1. Input(p, op) = CASE A -> a [] B -> b [] C -> c [] D -> d [] OTHER -> Imm(0)
  BY DEF Input
<1>2. /\ A => ~B /\ ~C /\ ~D
      /\ B => ~C /\ ~D
      /\ C => ~D
  BY DEF Reads
<1>3. Imm(0) \in Values
  BY ImmType
<1>4. A => a \in Values
  BY OperandFacts
<1>5. B => b \in Values
  BY OperandFacts, GetRegisterType
<1>6. op.kind = "mem" => c \in Values /\ d \in Values
  <2>. SUFFICES ASSUME op.kind = "mem" PROVE c \in Values /\ d \in Values
    OBVIOUS
  <2>1. op.n \in Nat /\ d \in Values
    BY OperandFacts, PtrValType
  <2>. HIDE DEF d
  <2>2. EmulateReadAccess(p, d, op.n) \in Values
    BY <2>1, ReadAccessType
  <2>. QED  BY <2>1, <2>2 DEF d
<1>7. (C => c \in Values) /\ (D => d \in Values)
  BY <1>6
<1>. HIDE DEF a, b, c, d, A, B, C, D
<1>. QED  BY <1>1, <1>2, <1>3, <1>4, <1>5, <1>7

\* Refining only changes modes.
LEMMA RefineType ==
  ASSUME NEW p, NEW ins, WellFormed(ins)
  PROVE  Refine(p, ins) \in Seq(Operands) /\ Len(Refine(p, ins)) = Len(ins.ops)
<1>. DEFINE ops == ins.ops
            n == Len(ops)
            equal == ops[1].reg = ops[2].reg
            by(count) == IF ~IsImm(count) THEN "MayWrite" ELSE IF count.val = 0 THEN "None" ELSE "Write"
            flags == by(IF ops[2].kind = "imm" THEN ops[2].imm ELSE GetRegister(p, ops[2].reg, "Full"))
            m1 == IF equal THEN "Write" ELSE "ReadWrite"
            m2 == IF equal THEN "None" ELSE "Read"
            a == [ops EXCEPT ![1].mode = m1, ![2].mode = m2]
            b == [k \in DOMAIN ops |-> IF k > 2 THEN [ops[k] EXCEPT !.mode = flags] ELSE ops[k]]
<1>1. ops \in Seq(Operands) /\ n \in Nat /\ ops \in [1 .. n -> Operands] /\ DOMAIN ops = 1 .. n
  BY DEF WellFormed
<1>2. Refine(p, ins) = CASE ins.refine = "xor_rr" -> a [] ins.refine = "sh" -> b [] OTHER -> ops
  BY DEF Refine
<1>3. flags \in Modes
  BY DEF Modes, Writes
<1>4. m1 \in Modes /\ m2 \in Modes
  BY DEF Modes, Reads, Writes
<1>5. ins.refine = "xor_rr" => n >= 2
  BY DEF WellFormed
<1>. HIDE DEF n, flags, m1, m2, ops
<1>6. CASE ins.refine = "xor_rr"
  <2>1. n >= 2 /\ 1 \in 1 .. n /\ 2 \in 1 .. n
    BY <1>1, <1>5, <1>6
  <2>. DEFINE x == [ops[1] EXCEPT !.mode = m1]
              y == [ops[2] EXCEPT !.mode = m2]
  <2>2. x \in Operands /\ y \in Operands
    BY <1>1, <1>4, <2>1, OperandMode
  <2>3. a = [ops EXCEPT ![1] = x, ![2] = y]
    BY <1>1, <2>1
  <2>. HIDE DEF x, y
  <2>4. [ops EXCEPT ![1] = x, ![2] = y] \in [1 .. n -> Operands]
    BY <1>1, <2>2, Zenon
  <2>. HIDE DEF a
  <2>5. a \in [1 .. n -> Operands]
    BY <2>3, <2>4
  <2>6. a \in Seq(Operands) /\ Len(a) = n
    BY <1>1, <2>5
  <2>. QED  BY <1>2, <1>6, <2>6 DEF n, ops
<1>7. CASE ins.refine = "sh"
  <2>1. ASSUME NEW k \in 1 .. n PROVE b[k] \in Operands
    <3>1. ops[k] \in Operands /\ [ops[k] EXCEPT !.mode = flags] \in Operands
      BY <1>1, <1>3, OperandMode
    <3>. QED  BY <1>1, <3>1
  <2>2. b = [k \in 1 .. n |-> b[k]]
    BY <1>1
  <2>. HIDE DEF b
  <2>3. b \in [1 .. n -> Operands]
    BY <2>1, <2>2
  <2>4. b \in Seq(Operands) /\ Len(b) = n
    BY <1>1, <2>3
  <2>. QED  BY <1>2, <1>7, <2>4 DEF n, ops
<1>8. CASE ins.refine \notin {"xor_rr", "sh"}
  BY <1>1, <1>2, <1>8 DEF n, ops
<1>. QED  BY <1>6, <1>7, <1>8

-----------------------------------------------------------------------------
(* The emulators.                                                          *)

\* A bit of a number.
LEMMA BitType ==
  ASSUME NEW a \in Int, NEW k \in 1 .. HostBits
  PROVE  (a \div Power(2, HostBits - k)) % 2 \in Int
<1>1. HostBits - k \in Nat /\ 2 \in Nat \ {0}
  BY DEF HostBits
<1>2. Power(2, HostBits - k) \in Nat \ {0}
  BY <1>1, PowerType
<1>. DEFINE m == Power(2, HostBits - k)
<1>. HIDE DEF m
<1>3. m \in Nat \ {0}
  BY <1>2 DEF m
<1>4. a \div m \in Int
  BY <1>3
<1>5. (a \div m) % 2 \in Int
  BY <1>4
<1>. QED  BY <1>5 DEF m

\* The exclusive or of two numbers.
LEMMA XorType ==
  ASSUME NEW a \in Int, NEW b \in Int
  PROVE  Xor(a, b) \in Int
<1>. DEFINE A(k) == (a \div Power(2, HostBits - k)) % 2
            B(k) == (b \div Power(2, HostBits - k)) % 2
            t == [k \in 1 .. HostBits |-> (A(k) + B(k)) % 2]
            Body(f) == [k \in 0 .. HostBits |-> IF k = 0 THEN 0 ELSE f[k - 1] * 2 + ((A(k) + B(k)) % 2)]
            c == CHOOSE f : f = Body(f)
<1>1. Xor(a, b) = c[HostBits]
  BY DEF Xor, Bitwise
<1>2. t \in [1 .. HostBits -> Int]
  <2>1. \A k \in 1 .. HostBits : A(k) \in Int /\ B(k) \in Int
    BY BitType
  <2>. HIDE DEF A, B
  <2>. QED  BY <2>1
<1>3. ASSUME NEW f PROVE Body(f) = [k \in 0 .. HostBits |-> IF k = 0 THEN 0 ELSE f[k - 1] * 2 + t[k]]
  <2>. HIDE DEF A, B
  <2>. QED  BY DEF HostBits
<1>0. HostBits \in Nat /\ 2 \in Int
  BY DEF HostBits
<1>. HIDE DEF t
<1>4. \E f : f = Body(f)
  <2>1. PICK f : f = [k \in 0 .. HostBits |-> IF k = 0 THEN 0 ELSE f[k - 1] * 2 + t[k]]
    BY <1>0, <1>2, DigitsExist, Zenon
  <2>2. f = Body(f)
    BY <1>3, <2>1, Zenon
  <2>. QED  BY <2>2, Zenon
<1>5. c = Body(c)
  BY <1>4, Zenon
<1>. HIDE DEF Body, c
<1>6. c = [k \in 0 .. HostBits |-> IF k = 0 THEN 0 ELSE c[k - 1] * 2 + t[k]]
  BY <1>3, <1>5, Zenon
<1>7. c[HostBits] \in Int
  BY <1>0, <1>2, <1>6, DigitsType, Zenon
<1>. QED  BY <1>1, <1>7

\* The conjunction of two numbers.
LEMMA AndType ==
  ASSUME NEW a \in Int, NEW b \in Int
  PROVE  And(a, b) \in Int
<1>. DEFINE A(k) == (a \div Power(2, HostBits - k)) % 2
            B(k) == (b \div Power(2, HostBits - k)) % 2
            t == [k \in 1 .. HostBits |-> A(k) * B(k)]
            Body(f) == [k \in 0 .. HostBits |-> IF k = 0 THEN 0 ELSE f[k - 1] * 2 + A(k) * B(k)]
            c == CHOOSE f : f = Body(f)
<1>1. And(a, b) = c[HostBits]
  BY DEF And, Bitwise
<1>2. t \in [1 .. HostBits -> Int]
  <2>1. \A k \in 1 .. HostBits : A(k) \in Int /\ B(k) \in Int
    BY BitType
  <2>. HIDE DEF A, B
  <2>2. \A k \in 1 .. HostBits : A(k) * B(k) \in Int
    BY <2>1
  <2>. QED  BY <2>2
<1>3. ASSUME NEW f PROVE Body(f) = [k \in 0 .. HostBits |-> IF k = 0 THEN 0 ELSE f[k - 1] * 2 + t[k]]
  <2>. HIDE DEF A, B
  <2>. QED  BY DEF HostBits
<1>0. HostBits \in Nat /\ 2 \in Int
  BY DEF HostBits
<1>. HIDE DEF t
<1>4. \E f : f = Body(f)
  <2>1. PICK f : f = [k \in 0 .. HostBits |-> IF k = 0 THEN 0 ELSE f[k - 1] * 2 + t[k]]
    BY <1>0, <1>2, DigitsExist, Zenon
  <2>2. f = Body(f)
    BY <1>3, <2>1, Zenon
  <2>. QED  BY <2>2, Zenon
<1>5. c = Body(c)
  BY <1>4, Zenon
<1>. HIDE DEF Body, c
<1>6. c = [k \in 0 .. HostBits |-> IF k = 0 THEN 0 ELSE c[k - 1] * 2 + t[k]]
  BY <1>3, <1>5, Zenon
<1>7. c[HostBits] \in Int
  BY <1>0, <1>2, <1>6, DigitsType, Zenon
<1>. QED  BY <1>1, <1>7

\* What the host computes is a number.
HostOps == {"add", "addsd", "addpd", "sub", "cmp", "xor", "pxor", "test", "shl", "shr"}
\* What the host computes is a number.
LEMMA HostType ==
  ASSUME NEW f \in HostOps, NEW a \in Int, NEW b \in Nat, NEW n \in Nat
  PROVE  Host(f, a, b, n) \in Int
<1>. DEFINE m == Power(Radix, n)
            q == Power(2, b)
<1>1. m \in Nat \ {0} /\ q \in Nat \ {0}
  BY PowerType, WordAssumption
<1>2. Xor(a, b) \in Int /\ And(a, b) \in Int
  BY XorType, AndType
<1>3. (a + b) % m \in Int /\ (a - b) % m \in Int /\ (a * q) % m \in Int /\ a \div q \in Int
  <2>. HIDE DEF m, q
  <2>. DEFINE x == a + b
              y == a - b
              z == a * q
  <2>1. x \in Int /\ y \in Int /\ z \in Int
    BY <1>1
  <2>. HIDE DEF x, y, z
  <2>2. x % m \in Int /\ y % m \in Int /\ z % m \in Int /\ a \div q \in Int
    BY <1>1, <2>1
  <2>. QED  BY <2>2 DEF x, y, z
<1>. DEFINE r1 == (a + b) % m
            r2 == (a - b) % m
            r3 == (a * q) % m
            r4 == a \div q
<1>4. Host(f, a, b, n) = CASE f \in {"add", "addsd", "addpd"} -> r1
                           [] f \in {"sub", "cmp"} -> r2
                           [] f \in {"xor", "pxor"} -> Xor(a, b)
                           [] f = "test" -> And(a, b)
                           [] f = "shl" -> r3
                           [] f = "shr" -> r4
  BY DEF Host
<1>5. r1 \in Int /\ r2 \in Int /\ r3 \in Int /\ r4 \in Int
  BY <1>3
<1>. HIDE DEF r1, r2, r3, r4
<1>. QED  BY <1>2, <1>4, <1>5 DEF HostOps

\* Four flags.
LEMMA TupleType ==
  ASSUME NEW S, NEW n \in Nat, NEW f \in [1 .. n -> S]
  PROVE  f \in Seq(S) /\ Len(f) = n
OBVIOUS

\* The outputs of an emulator with flags: the value, the instruction pointer's
\* place and four flags.
LEMMA WithFlagsType ==
  ASSUME NEW v \in Values, NEW flags \in [1 .. 4 -> Values]
  PROVE  WithFlags(v, flags) \in Seq(Values) /\ Len(WithFlags(v, flags)) = 6
<1>1. <<v, Unknown>> \in Seq(Values) /\ Len(<<v, Unknown>>) = 2
  BY UnknownType
<1>2. flags \in Seq(Values) /\ Len(flags) = 4
  BY TupleType, Zenon
<1>. DEFINE s == <<v, Unknown>>
<1>. HIDE DEF s
<1>3. s \o flags \in Seq(Values) /\ Len(s \o flags) = Len(s) + Len(flags)
  BY <1>1, <1>2, ConcatProperties, Zenon DEF s
<1>4. Len(s) = 2
  BY <1>1 DEF s
<1>. QED  BY <1>2, <1>3, <1>4 DEF WithFlags, s

\* A result whose flags are unknown.
LEMMA WithoutFlagsType ==
  ASSUME NEW v \in Values
  PROVE  WithoutFlags(v) \in Seq(Values)
<1>1. [k \in 1 .. 4 |-> Unknown] \in [1 .. 4 -> Values]
  BY UnknownType
<1>. QED  BY <1>1, WithFlagsType DEF WithoutFlags

\* A flag is a bit.
LEMMA HostFlagsType ==
  ASSUME NEW f, NEW a, NEW b, NEW n, NEW k \in 1 .. 4
  PROVE  HostFlags(f, a, b, n)[k] \in Int
<1>. DEFINE m == Power(Radix, n)
            r == Host(f, a, b, n)
            Neg(x) == x >= m \div 2
            c1 == CASE f = "add" -> a + b >= m
                    [] f \in {"sub", "cmp"} -> a < b
                    [] f = "shl" -> (a * Power(2, b)) % (2 * m) >= m
                    [] f = "shr" -> b > 0 /\ (a \div Power(2, b - 1)) % 2 = 1
                    [] OTHER -> FALSE
            c2 == r = 0
            c3 == Neg(r)
            c4 == CASE f = "add" -> Neg(a) = Neg(b) /\ Neg(r) # Neg(a)
                    [] f \in {"sub", "cmp"} -> Neg(a) # Neg(b) /\ Neg(r) # Neg(a)
                    [] f \in {"shl", "shr"} -> Neg(a) # Neg(r)
                    [] OTHER -> FALSE
            Flag(c) == IF c THEN 1 ELSE 0
<1>1. HostFlags(f, a, b, n) = <<Flag(c1), Flag(c2), Flag(c3), Flag(c4)>>
  BY DEF HostFlags
<1>. HIDE DEF c1, c2, c3, c4
<1>2. Flag(c1) \in Int /\ Flag(c2) \in Int /\ Flag(c3) \in Int /\ Flag(c4) \in Int
  OBVIOUS
<1>. HIDE DEF Flag
<1>. QED  BY <1>1, <1>2

\* The result and the flags that the host computes.
LEMMA OnHostType ==
  ASSUME NEW f \in HostOps, NEW x \in Values, NEW y \in Values, NEW n \in Nat, NEW in, in[1] = x, in[2] = y
  PROVE  OnHost(f, in, n) \in Seq(Values) /\ Len(OnHost(f, in, n)) = 6
<1>. DEFINE m == Power(Radix, n)
            a == in[1].val % m
            b == in[2].val % m
            v == Imm(Host(f, a, b, n))
            flags == [k \in 1 .. 4 |-> Imm(HostFlags(f, a, b, n)[k])]
<1>1. OnHost(f, in, n) = WithFlags(v, flags)
  BY DEF OnHost
<1>2. m \in Nat \ {0}
  BY PowerType, WordAssumption
<1>3. a \in Nat /\ b \in Nat
  <2>1. in[1].val \in Int /\ in[2].val \in Int
    BY ValueFacts
  <2>. HIDE DEF m
  <2>. QED  BY <1>2, <2>1
<1>. HIDE DEF a, b
<1>4. v \in Values
  <2>1. Host(f, a, b, n) \in Int
    BY <1>3, HostType
  <2>. QED  BY <2>1, ImmType
<1>5. flags \in [1 .. 4 -> Values]
  <2>1. \A k \in 1 .. 4 : Imm(HostFlags(f, a, b, n)[k]) \in Values
    BY HostFlagsType, ImmType
  <2>. QED  BY <2>1
<1>. HIDE DEF v, flags
<1>. QED  BY <1>1, <1>4, <1>5, WithFlagsType

\* An output of an emulator.
LEMMA ElementOf ==
  ASSUME NEW s \in Seq(Values), NEW k \in 1 .. Len(s)
  PROVE  s[k] \in Values
OBVIOUS

\* emulateGeneric() writes unknown or tainted values.
LEMMA TaintOfType ==
  ASSUME NEW vs
  PROVE  TaintOf(vs) \in Values
BY PlainType, OpaqueTypes DEF TaintOf

\* add and sub, which only differ in the sign.
LEMMA EmulateAddType ==
  ASSUME NEW in, in[1] \in Values, in[2] \in Values, NEW n \in Nat
  PROVE  EmulateAdd(in, n) \in Seq(Values)
<1>. DEFINE a == OnHost("add", in, n)
            b == WithoutFlags(Moved(in[1], in[2].val))
            c == WithoutFlags(Moved(in[2], in[1].val))
            d == WithoutFlags(TaintOf(in))
            A == BothImm(in)
            B == IsPtr(in[1]) /\ IsImm(in[2])
            C == IsPtr(in[2]) /\ IsImm(in[1])
<1>1. EmulateAdd(in, n) = CASE A -> a [] B -> b [] C -> c [] OTHER -> d
  BY DEF EmulateAdd
<1>2. (A => ~B /\ ~C) /\ (B => ~C)
  BY DEF BothImm, IsImm, IsPtr, Pointers
<1>3. a \in Seq(Values)
  BY OnHostType DEF HostOps
<1>4. b \in Seq(Values) /\ c \in Seq(Values)
  BY ValueFacts, MovedType, WithoutFlagsType, Zenon
<1>5. d \in Seq(Values)
  BY TaintOfType, WithoutFlagsType
<1>. HIDE DEF a, b, c, d, A, B, C
<1>. QED  BY <1>1, <1>2, <1>3, <1>4, <1>5

\* emulate_sub().
LEMMA EmulateSubType ==
  ASSUME NEW in, in[1] \in Values, in[2] \in Values, NEW n \in Nat
  PROVE  EmulateSub(in, n) \in Seq(Values)
<1>. DEFINE a == OnHost("sub", in, n)
            b == WithoutFlags(Moved(in[1], -in[2].val))
            c == WithoutFlags(Moved(in[2], -in[1].val))
            d == WithoutFlags(TaintOf(in))
            A == BothImm(in)
            B == IsPtr(in[1]) /\ IsImm(in[2])
            C == IsPtr(in[2]) /\ IsImm(in[1])
<1>1. EmulateSub(in, n) = CASE A -> a [] B -> b [] C -> c [] OTHER -> d
  BY DEF EmulateSub
<1>2. (A => ~B /\ ~C) /\ (B => ~C)
  BY DEF BothImm, IsImm, IsPtr, Pointers
<1>3. a \in Seq(Values)
  BY OnHostType DEF HostOps
<1>4. b \in Seq(Values) /\ c \in Seq(Values)
  <2>1. -in[2].val \in Int /\ -in[1].val \in Int
    BY ValueFacts
  <2>. QED  BY <2>1, MovedType, WithoutFlagsType, Zenon
<1>5. d \in Seq(Values)
  BY TaintOfType, WithoutFlagsType
<1>. HIDE DEF a, b, c, d, A, B, C
<1>. QED  BY <1>1, <1>2, <1>3, <1>4, <1>5

\* emulate_cmp().
LEMMA EmulateCmpType ==
  ASSUME NEW in, in[1] \in Values, in[2] \in Values, NEW n \in Nat
  PROVE  EmulateCmp(in, n) \in Seq(Values)
<1>1. OnHost("cmp", in, n) \in Seq(Values)
  BY OnHostType DEF HostOps
<1>2. WithoutFlags(Unknown) \in Seq(Values)
  BY UnknownType, WithoutFlagsType
<1>. QED  BY <1>1, <1>2 DEF EmulateCmp

\* emulate_test().
LEMMA EmulateTestType ==
  ASSUME NEW in, in[1] \in Values, in[2] \in Values, NEW n \in Nat
  PROVE  EmulateTest(in, n) \in Seq(Values)
<1>. DEFINE h == OnHost("test", in, n)
            flag(k) == CASE k \in {1, 4} -> Imm(0)
                         [] k \notin {1, 4} /\ BothImm(in) -> h[2 + k]
                         [] OTHER -> Unknown
            flags == [k \in 1 .. 4 |-> flag(k)]
<1>1. EmulateTest(in, n) = WithFlags(Unknown, flags)
  BY DEF EmulateTest
<1>2. h \in Seq(Values) /\ Len(h) = 6
  BY OnHostType, Zenon DEF HostOps
<1>. HIDE DEF h
<1>3. ASSUME NEW k \in 1 .. 4 PROVE flag(k) \in Values
  <2>1. 2 + k \in 1 .. 6
    OBVIOUS
  <2>2. h[2 + k] \in Values
    BY <1>2, <2>1, ElementOf, Zenon
  <2>3. Imm(0) \in Values
    BY ImmType
  <2>. QED  BY <2>2, <2>3, UnknownType
<1>. HIDE DEF flag
<1>4. flags \in [1 .. 4 -> Values]
  BY <1>3
<1>. HIDE DEF flags
<1>. QED  BY <1>1, <1>4, UnknownType, WithFlagsType

\* emulate_shl() and emulate_shr().
LEMMA EmulateShType ==
  ASSUME NEW f \in {"shl", "shr"}, NEW in, in[1] \in Values, in[2] \in Values, NEW n \in Nat
  PROVE  EmulateSh(f, in, n) \in Seq(Values)
<1>. DEFINE h == OnHost(f, in, n)
            count == in[2].val
            val == CASE BothImm(in) -> h[1]
                     [] in[1].type = "StackPtr" -> Plain("Tainted")
                     [] in[1].type \in {"UsrPtr", "ReturnPtr"} -> Unknown
                     [] OTHER -> in[1]
            known(k) == CASE k = 1 -> Power(2, count) < Power(Radix, n)
                          [] k = 4 -> count = 1
                          [] OTHER -> TRUE
            flag(k) == IF BothImm(in) /\ known(k) THEN h[2 + k] ELSE Unknown
            flags == [k \in 1 .. 4 |-> flag(k)]
<1>1. EmulateSh(f, in, n) = WithFlags(val, flags)
  BY DEF EmulateSh
<1>2. h \in Seq(Values) /\ Len(h) = 6
  BY OnHostType DEF HostOps
<1>. HIDE DEF h, known
<1>3. ASSUME NEW k \in 1 .. 4 PROVE flag(k) \in Values
  <2>1. 2 + k \in 1 .. 6
    OBVIOUS
  <2>2. h[2 + k] \in Values
    BY <1>2, <2>1, ElementOf, Zenon
  <2>. QED  BY <2>2, UnknownType
<1>. HIDE DEF flag
<1>4. flags \in [1 .. 4 -> Values]
  BY <1>3
<1>. HIDE DEF flags
<1>5. val \in Values
  <2>1. 1 \in 1 .. 6
    OBVIOUS
  <2>2. h[1] \in Values /\ Plain("Tainted") \in Values
    BY <1>2, <2>1, ElementOf, PlainType, OpaqueTypes, Zenon
  <2>3. BothImm(in) => in[1].type = "Immediate"
    BY DEF BothImm, IsImm
  <2>. QED  BY <2>2, <2>3, UnknownType
<1>. HIDE DEF val
<1>. QED  BY <1>1, <1>4, <1>5, WithFlagsType

\* The stack pointer, moved by push, pop, call or ret.
LEMMA BumpedType ==
  ASSUME NEW v \in Values, NEW by \in Int
  PROVE  Bumped(v, by) \in Values
<1>1. AddDynamicValues(v, Imm(by % Word)) \in Values
  BY ModType, ImmType, AddType
<1>. QED  BY <1>1 DEF Bumped

\* All emulators.
LEMMA EmulatorType ==
  ASSUME NEW ins, ins.emu \in DOMAIN Arity, NEW in, \A k \in 1 .. Arity[ins.emu] : in[k] \in Values,
         NEW n \in Nat, ins.emu \in {"push", "pop"} => ins.ops[3].n \in Nat
  PROVE  Emulator(ins, in, n) \in Seq(Values)
<1>. DEFINE emu == ins.emu
            o1 == <<in[2]>>
            o2 == EmulateAdd(in, n)
            o3 == EmulateSub(in, n)
            o4 == EmulateCmp(in, n)
            o5 == EmulateTest(in, n)
            o6 == EmulateSh(ins.emu, in, n)
            o7 == OnHost("xor", in, n)
            o8 == <<OnHost(ins.emu, in, n)[1]>>
            o9 == <<Unknown, Bumped(in[2], -ins.ops[3].n), in[1]>>
            o10 == <<in[3], Bumped(in[2], ins.ops[3].n)>>
            o11 == <<Unknown, Bumped(in[2], -PtrBytes), DynamicValue("ReturnPtr", 1, 0)>>
            o12 == <<Bumped(in[1], PtrBytes)>>
<1>1. Emulator(ins, in, n) =
        CASE emu \in {"mov", "movsd", "lea"} -> o1
          [] emu = "add" -> o2
          [] emu = "sub" -> o3
          [] emu = "cmp" -> o4
          [] emu = "test" -> o5
          [] emu \in {"shl", "shr"} -> o6
          [] emu = "xor" -> o7
          [] emu \in {"pxor", "addsd", "addpd"} -> o8
          [] emu = "push" -> o9
          [] emu = "pop" -> o10
          [] emu = "call" -> o11
          [] emu = "ret" -> o12
  BY DEF Emulator
<1>2. Arity[emu] \in {1, 2, 3} /\ (Arity[emu] = 1 => emu = "ret") /\ (emu \in {"push", "pop"} => Arity[emu] = 3)
  BY DEF Arity
<1>3. in[1] \in Values
  BY <1>2
<1>4. emu # "ret" => in[2] \in Values
  BY <1>2
<1>5. emu = "pop" => in[3] \in Values
  BY <1>2
<1>6. emu \in {"mov", "movsd", "lea"} => o1 \in Seq(Values)
  BY <1>4
<1>7. emu # "ret" => o2 \in Seq(Values) /\ o3 \in Seq(Values) /\ o4 \in Seq(Values) /\ o5 \in Seq(Values)
  BY <1>3, <1>4, EmulateAddType, EmulateSubType, EmulateCmpType, EmulateTestType
<1>8. emu \in {"shl", "shr"} => o6 \in Seq(Values)
  BY <1>3, <1>4, EmulateShType, Zenon
<1>9. emu = "xor" => o7 \in Seq(Values)
  BY <1>3, <1>4, OnHostType DEF HostOps
<1>10. emu \in {"pxor", "addsd", "addpd"} => o8 \in Seq(Values)
  <2>. SUFFICES ASSUME emu \in {"pxor", "addsd", "addpd"} PROVE o8 \in Seq(Values)
    OBVIOUS
  <2>. DEFINE h == OnHost(ins.emu, in, n)
  <2>1. h \in Seq(Values) /\ Len(h) = 6
    BY <1>3, <1>4, OnHostType, SMTT(30) DEF HostOps
  <2>. HIDE DEF h
  <2>2. 1 \in 1 .. 6
    OBVIOUS
  <2>3. h[1] \in Values
    BY <2>1, <2>2, ElementOf, Zenon
  <2>. DEFINE x == h[1]
  <2>. HIDE DEF x
  <2>4. <<x>> \in Seq(Values)
    BY <2>3 DEF x
  <2>. QED  BY <2>4 DEF x, h
<1>11. emu = "push" => o9 \in Seq(Values)
  <2>. SUFFICES ASSUME emu = "push" PROVE o9 \in Seq(Values)
    OBVIOUS
  <2>. DEFINE x == Bumped(in[2], -ins.ops[3].n)
  <2>1. -ins.ops[3].n \in Int
    OBVIOUS
  <2>2. x \in Values
    BY <1>4, <2>1, BumpedType
  <2>. HIDE DEF x
  <2>3. <<Unknown, x, in[1]>> \in Seq(Values)
    BY <1>3, <2>2, UnknownType
  <2>. QED  BY <2>3 DEF x
<1>12. emu = "pop" => o10 \in Seq(Values)
  <2>. SUFFICES ASSUME emu = "pop" PROVE o10 \in Seq(Values)
    OBVIOUS
  <2>. DEFINE x == Bumped(in[2], ins.ops[3].n)
  <2>1. ins.ops[3].n \in Int
    OBVIOUS
  <2>2. x \in Values
    BY <1>4, <2>1, BumpedType
  <2>. HIDE DEF x
  <2>3. <<in[3], x>> \in Seq(Values)
    BY <1>5, <2>2
  <2>. QED  BY <2>3 DEF x
<1>13. emu = "call" => o11 \in Seq(Values)
  <2>. SUFFICES ASSUME emu = "call" PROVE o11 \in Seq(Values)
    OBVIOUS
  <2>. DEFINE x == Bumped(in[2], -PtrBytes)
              y == DynamicValue("ReturnPtr", 1, 0)
  <2>1. -PtrBytes \in Int
    BY WordAssumption
  <2>2. x \in Values
    BY <1>4, <2>1, BumpedType
  <2>3. y \in Values
    BY DEF DynamicValue, Values, ElementTypes, Pointers, Tails
  <2>. HIDE DEF x, y
  <2>4. <<Unknown, x, y>> \in Seq(Values)
    BY <2>2, <2>3, UnknownType
  <2>. QED  BY <2>4 DEF x, y
<1>14. o12 \in Seq(Values)
  <2>. DEFINE x == Bumped(in[1], PtrBytes)
  <2>1. x \in Values
    BY <1>3, BumpedType, WordAssumption
  <2>. HIDE DEF x
  <2>2. <<x>> \in Seq(Values)
    BY <2>1
  <2>. QED  BY <2>2 DEF x
<1>15. emu \in {"mov", "movsd", "lea", "add", "sub", "cmp", "test", "shl", "shr", "xor", "pxor", "addsd", "addpd",
                "push", "pop", "call", "ret"}
  BY DEF Arity
<1>. HIDE DEF emu, o1, o2, o3, o4, o5, o6, o7, o8, o9, o10, o11, o12
<1>16. CASE emu \in {"mov", "movsd", "lea", "add", "sub", "cmp", "test"}
  BY <1>1, <1>6, <1>7, <1>16
<1>17. CASE emu \in {"shl", "shr", "xor", "pxor", "addsd", "addpd"}
  BY <1>1, <1>8, <1>9, <1>10, <1>17
<1>18. CASE emu \in {"push", "pop", "call", "ret"}
  BY <1>1, <1>11, <1>12, <1>13, <1>14, <1>18
<1>. QED  BY <1>15, <1>16, <1>17, <1>18

\* The width of an operand.
LEMMA WidthType ==
  ASSUME NEW op \in Operands
  PROVE  Width(op) \in Nat
<1>1. op.kind = "reg" => GetRegisterData(op.reg, op.r).n \in Nat
  BY OperandFacts, RegisterDataFacts
<1>2. op.kind \in {"pool", "mem"} => op.n \in Nat
  BY OperandFacts
<1>3. op.kind \in {"reg", "imm", "pool", "mem"}
  BY OperandFacts
<1>. QED  BY <1>1, <1>2, <1>3, WordAssumption DEF Width

\* The outputs of all operands are values.
LEMMA OutputType ==
  ASSUME NEW ins, WellFormed(ins), NEW ops \in Seq(Operands), Len(ops) = Len(ins.ops),
         NEW in, \A k \in 1 .. Len(ops) : in[k] \in Values, NEW k \in 1 .. Len(ops)
  PROVE  Output(ins, ops, in)[k] \in Values
<1>. DEFINE inputs == {j \in DOMAIN ops : IsInput(ops[j])}
            ptrs == \A j \in inputs : IsImm(in[j]) \/ IsPtr(in[j])
            imms == \A j \in inputs : IsImm(in[j])
            able == CASE ins.can = "Full" -> TRUE
                      [] ins.can = "Ptr" -> ptrs
                      [] ins.can = "Imm" -> imms
                      [] OTHER -> FALSE
            outs == Emulator(ins, in, Width(ops[1]))
            taint == TaintOf([j \in inputs |-> in[j]])
<1>1. Output(ins, ops, in) = IF able THEN [j \in DOMAIN ops |-> IF j \in DOMAIN outs THEN outs[j] ELSE Unknown]
                             ELSE [j \in DOMAIN ops |-> taint]
  BY DEF Output
<1>2. DOMAIN ops = 1 .. Len(ops)
  OBVIOUS
<1>3. able => ins.can # "None"
  <2>. HIDE DEF inputs, ptrs, imms
  <2>. QED  OBVIOUS
<1>4. taint \in Values
  BY TaintOfType
<1>. HIDE DEF able, outs, taint, inputs
<1>5. ASSUME able, k \in DOMAIN outs PROVE outs[k] \in Values
  <2>1. ins.emu \in DOMAIN Arity /\ Len(ops) >= Arity[ins.emu] /\ ins.ops \in Seq(Operands)
        /\ (ins.emu \in {"push", "pop"} => ins.ops[3].kind = "mem")
    BY <1>3, <1>5 DEF WellFormed
  <2>2. Arity[ins.emu] \in {1, 2, 3} /\ (ins.emu \in {"push", "pop"} => Arity[ins.emu] = 3)
    BY <2>1 DEF Arity
  <2>3. Width(ops[1]) \in Nat
    <3>1. 1 \in 1 .. Len(ops)
      BY <2>1, <2>2
    <3>2. ops[1] \in Operands
      BY <3>1
    <3>. QED  BY <3>2, WidthType
  <2>4. ins.emu \in {"push", "pop"} => ins.ops[3].n \in Nat
    <3>. SUFFICES ASSUME ins.emu \in {"push", "pop"} PROVE ins.ops[3].n \in Nat
      OBVIOUS
    <3>1. 3 \in 1 .. Len(ins.ops)
      BY <2>1, <2>2
    <3>2. ins.ops[3] \in Operands
      BY <2>1, <3>1
    <3>. QED  BY <2>1, <3>2, OperandFacts
  <2>5. \A j \in 1 .. Arity[ins.emu] : in[j] \in Values
    BY <2>1, <2>2
  <2>6. outs \in Seq(Values)
    BY <2>1, <2>3, <2>4, <2>5, EmulatorType DEF outs
  <2>. QED  BY <1>5, <2>6
<1>. QED  BY <1>1, <1>2, <1>4, <1>5, UnknownType

\* An output on its way to its operand.
LEMMA WriteOutputType ==
  ASSUME NEW p \in States, NEW op \in Operands, NEW ptr \in Values, NEW v \in Values, NEW cond \in BOOLEAN
  PROVE  WriteOutput(p, op, ptr, v, cond) \in States
<1>. DEFINE idle == op.mode \notin Writes \/ ~p.ok
            reg == op.mode \in Writes /\ p.ok /\ op.kind = "reg"
            stack == op.mode \in Writes /\ p.ok /\ op.kind = "mem" /\ ptr.type = "StackPtr"
            toReg == SetRegister(p, op.reg, op.w, v, cond)
            toStack == SetStack(p, Signed(ptr.val), op.n, v, cond)
            astray == "Tainted" \in {ptr.type, v.type} \/ v.type = "StackPtr"
            rest == IF astray THEN UntrackedStackAccess(p) ELSE p
<1>1. WriteOutput(p, op, ptr, v, cond) =
        CASE idle -> p [] reg -> toReg [] stack -> toStack [] OTHER -> rest
  BY DEF WriteOutput
<1>2. reg => toReg \in States
  BY OperandFacts, SetRegisterType
<1>3. stack => toStack \in States
  BY OperandFacts, SignedType, SetStackType
<1>4. rest \in States
  BY UntrackedType
<1>5. (reg => ~idle) /\ (stack => ~idle /\ ~reg)
  OBVIOUS
<1>. HIDE DEF idle, reg, stack, toReg, toStack, rest
<1>. QED  BY <1>1, <1>2, <1>3, <1>4, <1>5

\* A direct move repeats the write byte by byte.
LEMMA PerformDirectMoveType ==
  ASSUME NEW p \in States, NEW in \in Operands, NEW ptrIn \in Values, NEW out \in Operands, NEW ptrOut \in Values
  PROVE  PerformDirectMove(p, in, ptrIn, out, ptrOut) \in States
<1>. DEFINE rr == in.kind = "reg" /\ out.kind = "reg"
            rs == in.kind = "reg" /\ out.kind = "mem" /\ ptrOut.type = "StackPtr"
            sr == in.kind = "mem" /\ out.kind = "reg" /\ ptrIn.type = "StackPtr"
            ss == in.kind = "mem" /\ out.kind = "mem" /\ ptrIn.type = "StackPtr" /\ ptrOut.type = "StackPtr"
            a1 == MoveRegisterRegister(p, in.reg, in.r, out.reg, out.w)
            a2 == MoveRegisterStack(p, in.reg, in.r, Signed(ptrOut.val), out.n)
            a3 == MoveStackRegister(p, Signed(ptrIn.val), in.n, out.reg, out.w)
            a4 == MoveStackStack(p, Signed(ptrIn.val), Signed(ptrOut.val), in.n)
<1>1. PerformDirectMove(p, in, ptrIn, out, ptrOut) =
        CASE rr -> a1 [] rs -> a2 [] sr -> a3 [] ss -> a4 [] OTHER -> p
  BY DEF PerformDirectMove
<1>2. rr => a1 \in States
  BY OperandFacts, MoveRegisterRegisterType
<1>3. rs => a2 \in States
  BY OperandFacts, SignedType, MoveRegisterStackType
<1>4. sr => a3 \in States
  BY OperandFacts, SignedType, MoveStackRegisterType
<1>5. ss => a4 \in States
  BY OperandFacts, SignedType, MoveStackStackType
<1>6. (rr => ~rs /\ ~sr /\ ~ss) /\ (rs => ~sr /\ ~ss) /\ (sr => ~ss)
  OBVIOUS
<1>. HIDE DEF rr, rs, sr, ss, a1, a2, a3, a4
<1>. QED  BY <1>1, <1>2, <1>3, <1>4, <1>5, <1>6

\* What genDynInfo() returns: values for all operands and addresses.
LEMMA DynInfoType ==
  ASSUME NEW p \in States, NEW ins, WellFormed(ins), NEW d, d = DynInfo(p, ins)
  PROVE  /\ d.ops \in Seq(Operands) /\ Len(d.ops) = Len(ins.ops)
         /\ \A k \in 1 .. Len(d.ops) : d.out[k] \in Values /\ d.ptr[k] \in Values
<1>. DEFINE ops == Refine(p, ins)
            in == [k \in DOMAIN ops |-> Input(p, ops[k])]
            ptr == [k \in DOMAIN ops |-> IF ops[k].kind = "mem" THEN PtrVal(p, ops[k]) ELSE Unknown]
<1>1. d.ops = ops /\ d.out = Output(ins, ops, in) /\ d.ptr = ptr
  BY DEF DynInfo, OperandInfo
<1>2. ops \in Seq(Operands) /\ Len(ops) = Len(ins.ops)
  BY RefineType
<1>. HIDE DEF ops
<1>3. DOMAIN ops = 1 .. Len(ops) /\ \A k \in 1 .. Len(ops) : ops[k] \in Operands
  BY <1>2
<1>4. \A k \in 1 .. Len(ops) : in[k] \in Values
  BY <1>3, InputType
<1>5. \A k \in 1 .. Len(ops) : ptr[k] \in Values
  BY <1>3, PtrValType, UnknownType
<1>. HIDE DEF in, ptr
<1>6. \A k \in 1 .. Len(ops) : Output(ins, ops, in)[k] \in Values
  BY <1>2, <1>4, OutputType
<1>. QED  BY <1>1, <1>2, <1>5, <1>6

\* emulate() makes a program state of a program state.
LEMMA EmulateType ==
  ASSUME NEW p \in States, NEW ins, WellFormed(ins)
  PROVE  Emulate(p, ins) \in States
<1>. DEFINE d == DynInfo(p, ins)
            n == Len(d.ops)
            cond(k) == d.ops[k].mode \in Conditional \/ d.willExecute = "Unknown"
            bad == \E k \in DOMAIN d.ops :
                      d.ops[k].kind = "mem" /\ d.ops[k].mode \in Reads /\ d.ptr[k].type = "ReturnPtr"
            W(i, x) == WriteOutput(x, d.ops[i], d.ptr[i], d.out[i], cond(i))
            Body(f) == [i \in 0 .. n |-> IF i = 0 THEN p ELSE W(i, f[i - 1])]
            c == CHOOSE f : f = Body(f)
            i == DirectMoves[ins.emu][1]
            o == DirectMoves[ins.emu][2]
            move == IF c[n].ok /\ ~cond(o) THEN PerformDirectMove(c[n], d.ops[i], d.ptr[i], d.ops[o], d.ptr[o])
                    ELSE c[n]
            never == d.willExecute = "False"
            nasty == ins.emu = "nasty"
            moves == ins.emu \in DOMAIN DirectMoves
<1>1. Emulate(p, ins) = CASE bad -> Fail(p)
                          [] ~bad /\ never -> p
                          [] ~bad /\ ~never /\ nasty -> NastyInstruction(p)
                          [] ~bad /\ ~never /\ moves -> move
                          [] OTHER -> c[n]
  BY DEF Emulate, EmulateWith
<1>2. d.ops \in Seq(Operands) /\ n = Len(ins.ops) /\ \A k \in 1 .. n : d.out[k] \in Values /\ d.ptr[k] \in Values
  <2>. DEFINE e == d
  <2>1. e = DynInfo(p, ins)
    OBVIOUS
  <2>. HIDE DEF e
  <2>2. e.ops \in Seq(Operands) /\ Len(e.ops) = Len(ins.ops)
        /\ \A k \in 1 .. Len(e.ops) : e.out[k] \in Values /\ e.ptr[k] \in Values
    BY <2>1, DynInfoType
  <2>. QED  BY <2>2 DEF e
<1>. HIDE DEF d
<1>3. n \in Nat /\ \A k \in 1 .. n : d.ops[k] \in Operands
  BY <1>2
<1>4. \A k : cond(k) \in BOOLEAN
  OBVIOUS
<1>. HIDE DEF n, cond
<1>5. \A k \in 1 .. n : \A x \in States : W(k, x) \in States
  BY <1>2, <1>3, <1>4, WriteOutputType
<1>. DEFINE X == [k \in 0 .. n |-> States]
            G == [y \in (1 .. n) \X States |-> W(y[1], y[2])]
<1>. HIDE DEF W
<1>6. \A k \in 0 .. n : X[k] = States
  OBVIOUS
<1>7. \A k \in 1 .. n : \A x \in States : G[<<k, x>>] = W(k, x)
  OBVIOUS
<1>. HIDE DEF X, G, c
<1>8. \A k \in 1 .. n : k \in 0 .. n /\ k - 1 \in 0 .. n
  BY <1>3
<1>9. 0 \in 0 .. n /\ n \in 0 .. n
  BY <1>3
<1>10. p \in X[0] /\ \A k \in 1 .. n : \A x \in X[k - 1] : G[<<k, x>>] \in X[k]
  BY <1>5, <1>6, <1>7, <1>8, <1>9
<1>11. c = Body(c)
  <2>1. PICK f \in [0 .. n -> UNION {X[k] : k \in 0 .. n}] :
                  Looping(f, n, p, G) /\ \A k \in 0 .. n : f[k] \in X[k]
    BY <1>3, <1>10, LoopThrough, Zenon
  <2>2. f[0] = p /\ \A k \in 1 .. n : f[k] = G[<<k, f[k - 1]>>]
    BY <2>1 DEF Looping
  <2>3. \A k \in 1 .. n : f[k - 1] \in States
    BY <1>6, <1>8, <2>1
  <2>4. \A k \in 1 .. n : f[k] = W(k, f[k - 1])
    BY <1>7, <2>2, <2>3, Zenon
  <2>5. \A k \in 0 .. n : f[k] = IF k = 0 THEN p ELSE W(k, f[k - 1])
    BY <1>3, <2>2, <2>4, Turns, Zenon
  <2>6. f = [k \in 0 .. n |-> f[k]]
    BY <2>1
  <2>7. f = Body(f)
    BY <2>5, <2>6, Zenon
  <2>. QED  BY <2>7, Zenon DEF c
<1>12. \A k \in 0 .. n : c[k] = IF k = 0 THEN p ELSE W(k, c[k - 1])
  BY <1>11, Zenon
<1>13. c[0] = p /\ \A k \in 1 .. n : c[k] = W(k, c[k - 1])
  <2>. HIDE DEF Body
  <2>. QED  BY <1>3, <1>12
<1>14. c[0] \in X[0] /\ \A k \in 1 .. n : c[k - 1] \in X[k - 1] => c[k] \in X[k]
  <2>. HIDE DEF Body
  <2>. QED  BY <1>5, <1>6, <1>8, <1>9, <1>13
<1>15. \A k \in 0 .. n : c[k] \in X[k]
  BY <1>3, <1>14, LoopKeeps
<1>16. c[n] \in States
  BY <1>6, <1>9, <1>15
<1>17. ~bad /\ ~never /\ moves => move \in States
  <2>. SUFFICES ASSUME moves PROVE move \in States
    OBVIOUS
  <2>1. ins.emu \in DOMAIN Arity /\ i \in 1 .. Arity[ins.emu] /\ o \in 1 .. Arity[ins.emu] /\ Arity[ins.emu] \in Nat
    BY DEF DirectMoves, Arity
  <2>2. n >= Arity[ins.emu]
    BY <1>2, <2>1 DEF WellFormed
  <2>. HIDE DEF i, o
  <2>3. i \in 1 .. n /\ o \in 1 .. n
    BY <1>3, <2>1, <2>2
  <2>4. PerformDirectMove(c[n], d.ops[i], d.ptr[i], d.ops[o], d.ptr[o]) \in States
    BY <1>2, <1>3, <1>16, <2>3, PerformDirectMoveType, Zenon
  <2>. QED  BY <1>16, <2>4
<1>18. Fail(p) \in States /\ NastyInstruction(p) \in States
  BY FailType, NastyType
<1>19. nasty => ~moves
  BY DEF DirectMoves
<1>. HIDE DEF bad, never, nasty, moves, move
<1>. QED  BY <1>1, <1>16, <1>17, <1>18, <1>19

\* A vector whose elements are all dead or unknown.
Blank(n) == {e \in Bytes(n) : \A k \in 0 .. n - 1 : e[k].type \in {"Dead", "Unknown"}}

\* A vector of elements is no exception.
LEMMA NotThrown ==
  ASSUME NEW n \in Nat, NEW e, DOMAIN e = 0 .. n - 1
  PROVE  e # Thrown
<1>1. DOMAIN Thrown = {-1} /\ -1 \notin 0 .. n - 1
  BY DEF Thrown
<1>. QED  BY <1>1

\* markUnknown() never throws in a blank vector.
LEMMA MarkBlank ==
  ASSUME NEW n \in Nat, NEW e \in Blank(n), NEW i \in 0 .. n - 1
  PROVE  MarkByte(e, 0, i) \in Blank(n)
<1>1. e \in [0 .. n - 1 -> Elements] /\ e[i].type \in {"Dead", "Unknown"} /\ 0 + i = i
  BY DEF Blank, Bytes
<1>2. CASE e[i].type = "Unknown"
  <2>1. MarkByte(e, 0, i) = e
    BY <1>1, <1>2 DEF MarkByte, Tails
  <2>. QED  BY <2>1
<1>3. CASE e[i].type = "Dead"
  <2>. DEFINE h == [e EXCEPT ![i].type = "Unknown"]
  <2>1. MarkByte(e, 0, i) = h
    BY <1>1, <1>3, Zenon DEF MarkByte, Tails
  <2>2. "Unknown" \in ElementTypes
    BY OpaqueTypes
  <2>3. h \in [0 .. n - 1 -> Elements] /\ \A k \in 0 .. n - 1 : h[k].type \in {"Dead", "Unknown"}
    BY <1>1, <2>2 DEF Elements, Blank
  <2>. HIDE DEF h
  <2>4. Whole(h, n)
    BY <2>3 DEF Whole, Pointers
  <2>. QED  BY <2>1, <2>3, <2>4 DEF Blank, Bytes
<1>. QED  BY <1>1, <1>2, <1>3

\* All of markUnknown() in a blank vector.
LEMMA BlankMarked ==
  ASSUME NEW n \in Nat, NEW e \in Blank(n)
  PROVE  MarkUnknown(e, 0, n) \in Blank(n)
<1>. DEFINE Turn(i, x) == IF x = Thrown THEN Thrown ELSE MarkByte(x, 0, i - 1)
            Body(f) == [i \in 0 .. n |-> IF i = 0 THEN e ELSE Turn(i, f[i - 1])]
            c == CHOOSE f : f = Body(f)
            X == [i \in 0 .. n |-> Blank(n)]
            G == [y \in (1 .. n) \X Blank(n) |-> Turn(y[1], y[2])]
<1>1. MarkUnknown(e, 0, n) = c[n]
  BY DEF MarkUnknown
<1>2. \A i \in 1 .. n : \A x \in Blank(n) : Turn(i, x) \in Blank(n)
  <2>1. ASSUME NEW i \in 1 .. n, NEW x \in Blank(n) PROVE Turn(i, x) \in Blank(n)
    <3>1. x # Thrown
      <4>1. DOMAIN x = 0 .. n - 1
        BY DEF Blank, Bytes
      <4>. QED  BY <4>1, NotThrown
    <3>2. i - 1 \in 0 .. n - 1
      OBVIOUS
    <3>. QED  BY <3>1, <3>2, MarkBlank
  <2>. HIDE DEF Turn
  <2>. QED  BY <2>1
<1>. HIDE DEF Turn
<1>3. \A i \in 0 .. n : X[i] = Blank(n)
  OBVIOUS
<1>4. \A i \in 1 .. n : \A x \in Blank(n) : G[<<i, x>>] = Turn(i, x)
  OBVIOUS
<1>. HIDE DEF X, G, c
<1>5. \A i \in 1 .. n : i \in 0 .. n /\ i - 1 \in 0 .. n
  OBVIOUS
<1>6. 0 \in 0 .. n /\ n \in 0 .. n
  OBVIOUS
<1>7. e \in X[0] /\ \A i \in 1 .. n : \A x \in X[i - 1] : G[<<i, x>>] \in X[i]
  BY <1>2, <1>3, <1>4, <1>5, <1>6
<1>8. c = Body(c)
  <2>1. PICK f \in [0 .. n -> UNION {X[i] : i \in 0 .. n}] :
                  Looping(f, n, e, G) /\ \A i \in 0 .. n : f[i] \in X[i]
    BY <1>7, LoopThrough, Zenon
  <2>2. f[0] = e /\ \A i \in 1 .. n : f[i] = G[<<i, f[i - 1]>>]
    BY <2>1, Zenon DEF Looping
  <2>3. \A i \in 1 .. n : f[i - 1] \in Blank(n)
    BY <1>3, <1>5, <2>1, Zenon
  <2>4. \A i \in 1 .. n : f[i] = Turn(i, f[i - 1])
    BY <1>4, <2>2, <2>3, Zenon
  <2>5. \A i \in 0 .. n : f[i] = IF i = 0 THEN e ELSE Turn(i, f[i - 1])
    BY <2>2, <2>4, Turns, Zenon
  <2>6. f = [i \in 0 .. n |-> f[i]]
    BY <2>1
  <2>7. f = Body(f)
    BY <2>5, <2>6, Zenon
  <2>. QED  BY <2>7, Zenon DEF c
<1>9. \A i \in 0 .. n : c[i] = IF i = 0 THEN e ELSE Turn(i, c[i - 1])
  BY <1>8, Zenon
<1>. HIDE DEF Body
<1>10. c[0] = e /\ \A i \in 1 .. n : c[i] = Turn(i, c[i - 1])
  BY <1>9
<1>11. c[0] \in X[0] /\ \A i \in 1 .. n : c[i - 1] \in X[i - 1] => c[i] \in X[i]
  BY <1>2, <1>3, <1>5, <1>6, <1>7, <1>10
<1>12. \A i \in 0 .. n : c[i] \in X[i]
  BY <1>11, LoopKeeps
<1>. QED  BY <1>1, <1>3, <1>6, <1>12

\* A new vector is blank.
LEMMA FreshBlank ==
  ASSUME NEW n \in Nat
  PROVE  Fresh(n) \in Blank(n)
<1>1. Fresh(n) \in [0 .. n - 1 -> Elements] /\ \A k \in 0 .. n - 1 : Fresh(n)[k].type = "Dead"
  BY OpaqueTypes DEF Fresh, Element, Elements
<1>2. Whole(Fresh(n), n)
  BY <1>1 DEF Whole, Pointers
<1>. HIDE DEF Fresh
<1>. QED  BY <1>1, <1>2 DEF Blank, Bytes

\* A value fills a fresh register; a pointer does if it has the size of one.
LEMMA FilledType ==
  ASSUME NEW n \in Nat, NEW v \in Values, IsPtr(v) => n = PtrBytes
  PROVE  SetElements(Fresh(n), 0, n, v, FALSE) \in Bytes(n)
<1>. DEFINE m == MarkUnknown(Fresh(n), 0, n)
            h == SetMarked(m, 0, n, v, FALSE)
<1>1. m \in Blank(n)
  BY FreshBlank, BlankMarked
<1>2. m \in Bytes(n) /\ m \in Freed(n, 0, n) /\ DOMAIN m = 0 .. n - 1
  <2>1. m \in Bytes(n) /\ \A k \in 0 .. n - 1 : m[k].type \in {"Dead", "Unknown"}
    BY <1>1 DEF Blank
  <2>2. n # 0 => m[0].type \notin Tails
    <3>1. n # 0 => 0 \in 0 .. n - 1
      OBVIOUS
    <3>. QED  BY <2>1, <3>1 DEF Tails
  <2>. HIDE DEF m
  <2>. QED  BY <2>1, <2>2 DEF Freed, Bytes
<1>. HIDE DEF m
<1>3. m # Thrown
  BY <1>2, NotThrown
<1>4. h = CASE IsPtr(v) -> SetPtr(m, 0, n, v)
            [] IsImm(v) -> SetImm(m, 0, n, v)
            [] OTHER -> SetType(m, 0, n, v.type)
  BY <1>3 DEF SetMarked
<1>5. DOMAIN h = 0 .. n - 1
  <2>1. IsPtr(v) => DOMAIN SetPtr(m, 0, n, v) = DOMAIN m
    BY DEF SetPtr
  <2>2. DOMAIN SetImm(m, 0, n, v) = DOMAIN m
    BY DEF SetImm
  <2>3. DOMAIN SetType(m, 0, n, v.type) = DOMAIN m
    BY DEF SetType
  <2>4. IsPtr(v) => ~IsImm(v)
    BY DEF IsPtr, IsImm, Pointers
  <2>. HIDE DEF h
  <2>. QED  BY <1>2, <1>4, <2>1, <2>2, <2>3, <2>4
<1>6. h \in Bytes(n) \cup {Thrown}
  <2>1. FALSE \in BOOLEAN /\ 0 \in Nat /\ 0 + n <= n
    OBVIOUS
  <2>. QED  BY <1>2, <2>1, SetMarkedFacts, Zenon
<1>7. h \in Bytes(n)
  <2>. HIDE DEF h
  <2>. QED  BY <1>5, <1>6, NotThrown
<1>. QED  BY <1>7, Zenon DEF m, SetElements

\* The state nothing is known in.
LEMMA InitialType == InitialState \in States
<1>. DEFINE reg == [r \in Physical |-> Fresh(RegInfo[r].bytes)]
<1>1. \A r \in Physical : reg[r] \in Bytes(RegInfo[r].bytes)
  BY PhysicalFacts, FreshBlank DEF Physical, Blank
<1>2. reg = [r \in Physical |-> reg[r]]
  OBVIOUS
<1>3. InitialState = [reg |-> reg, stack |-> NewStack, ok |-> TRUE]
  BY DEF InitialState
<1>. HIDE DEF reg
<1>4. reg \in Registers
  BY <1>1, <1>2, RegistersMade
<1>. QED  BY <1>3, <1>4, DeadStackType DEF States

\* SetStack() leaves the registers alone.
LEMMA SetStackRegisters ==
  ASSUME NEW p \in States, NEW offset \in Int, NEW n \in Nat, NEW v, NEW cond
  PROVE  SetStack(p, offset, n, v, cond).reg = p.reg
<1>1. CASE p.stack.dead
  BY <1>1 DEF SetStack
<1>2. CASE ~p.stack.dead
  <2>. DEFINE g == Grown(p, offset, n)
              e == SetElements(g.stack.data, g.stack.base + offset, n, v, cond)
  <2>1. g \in States /\ g.reg = p.reg
    BY <1>2, GrownFacts
  <2>2. SetStack(p, offset, n, v, cond) = PutStack(g, e)
    BY <1>2 DEF SetStack
  <2>. HIDE DEF g, e
  <2>3. PutStack(g, e).reg = g.reg
    BY <2>1 DEF PutStack, Fail, States
  <2>. QED  BY <2>1, <2>2, <2>3
<1>. QED  BY <1>1, <1>2

\* The state at function entry is one.
LEMMA EntryType == EntryState \in States
<1>. DEFINE start == SetStack(InitialState, 0, PtrBytes, DynamicValue("ReturnPtr", 0, 0), FALSE)
            value(r) == IF r = "rsp" THEN DynamicValue("StackPtr", 0, 0) ELSE EntryRegs[r]
            filled(r) == SetElements(start.reg[r], 0, RegInfo[r].bytes, value(r), FALSE)
            reg == [r \in Physical |-> IF r \in {"rsp"} \cup DOMAIN EntryRegs THEN filled(r) ELSE start.reg[r]]
<1>1. DynamicValue("ReturnPtr", 0, 0) \in Values /\ DynamicValue("StackPtr", 0, 0) \in Values
  BY DEF DynamicValue, Values, ElementTypes, Pointers, Tails
<1>2. PtrBytes \in Nat /\ 0 \in Int /\ FALSE \in BOOLEAN
  BY WordAssumption
<1>3. start \in States /\ start.reg = InitialState.reg
  <2>. DEFINE p == InitialState
              v == DynamicValue("ReturnPtr", 0, 0)
              no == FALSE
  <2>. HIDE DEF p, v, no
  <2>1. p \in States /\ v \in Values /\ no \in BOOLEAN
    BY <1>1, InitialType DEF p, v, no
  <2>2. SetStack(p, 0, PtrBytes, v, no) \in States
    BY <1>2, <2>1, SetStackType
  <2>3. SetStack(p, 0, PtrBytes, v, no).reg = p.reg
    BY <1>2, <2>1, SetStackRegisters
  <2>. QED  BY <2>2, <2>3, Zenon DEF p, v, no
<1>4. \A r \in Physical : start.reg[r] = Fresh(RegInfo[r].bytes)
  BY <1>3, Zenon DEF InitialState
<1>5. EntryState = [start EXCEPT !.reg = reg]
  BY DEF EntryState
<1>. HIDE DEF start
<1>6. ASSUME NEW r \in Physical PROVE reg[r] \in Bytes(RegInfo[r].bytes)
  <2>1. RegInfo[r].bytes \in Nat
    BY PhysicalFacts DEF Physical
  <2>2. r \in {"rsp"} \cup DOMAIN EntryRegs =>
          value(r) \in Values /\ (IsPtr(value(r)) => RegInfo[r].bytes = PtrBytes)
    BY <1>1, EntryAssumption
  <2>. HIDE DEF value
  <2>3. r \in {"rsp"} \cup DOMAIN EntryRegs =>
          SetElements(Fresh(RegInfo[r].bytes), 0, RegInfo[r].bytes, value(r), FALSE) \in Bytes(RegInfo[r].bytes)
    BY <2>1, <2>2, FilledType, Zenon
  <2>4. start.reg[r] \in Bytes(RegInfo[r].bytes)
    BY <1>3, StateFacts
  <2>. QED  BY <1>4, <2>3, <2>4, Zenon
<1>7. reg = [r \in Physical |-> reg[r]]
  OBVIOUS
<1>. HIDE DEF reg
<1>8. reg \in Registers
  BY <1>6, <1>7, RegistersMade
<1>. QED  BY <1>3, <1>5, <1>8 DEF States

-----------------------------------------------------------------------------
(* The program states of EmulationSoundness.                               *)

\* Both paths into a join have well-formed states.
StatesOK == st \in States /\ (saved # <<>> => saved[1] \in States)
\* The other path into a join has settled tails.
SavedBelongs == saved # <<>> => StateBelongs(saved[1])

\* An instruction, the other path, or the join leaves well-formed states.
LEMMA StepStates == StatesOK /\ [Next]_vars => StatesOK'
<1>. SUFFICES ASSUME StatesOK, [Next]_vars PROVE StatesOK'
  OBVIOUS
<1>1. ASSUME NEW ins \in Instructions, Step(ins) PROVE StatesOK'
  <2>1. st' \in States
    BY <1>1, EmulateType, InstructionAssumption DEF Step, StatesOK
  <2>. QED  BY <1>1, <2>1 DEF Step, StatesOK
<1>2. ASSUME OtherPath PROVE StatesOK'
  BY <1>2, EntryType DEF OtherPath, StatesOK
<1>3. ASSUME Join PROVE StatesOK'
  BY <1>3, MergeType DEF Join, StatesOK
<1>4. CASE UNCHANGED vars
  BY <1>4 DEF vars, StatesOK
<1>. QED  BY <1>1, <1>2, <1>3, <1>4 DEF Next

\* After any instructions and joins every pointer in registers and stack is a
\* whole one, and no value is a tail: emulate(), merge() and the entry state
\* of arch_translate_cfg() never make getElements(), clearTail() or
\* moveElements() look for the rest of a pointer behind the end of a vector,
\* nor fail what the constructor of DynamicValue asserts of tails.
THEOREM StatesWellFormed == Spec => []StatesOK
<1>1. Init => StatesOK
  BY EntryType DEF Init, StatesOK
<1>. QED  BY <1>1, StepStates, PTL DEF Spec

\* The path that waits at the join belongs because its state did when it came.
LEMMA StepBelongs == TailsBelong /\ SavedBelongs /\ [Next]_vars => SavedBelongs'
<1>. SUFFICES ASSUME TailsBelong, SavedBelongs, [Next]_vars PROVE SavedBelongs'
  OBVIOUS
<1>1. ASSUME NEW ins \in Instructions, Step(ins) PROVE SavedBelongs'
  BY <1>1 DEF Step, SavedBelongs
<1>2. ASSUME OtherPath PROVE SavedBelongs'
  <2>1. saved'[1] = st /\ StateBelongs(st)
    BY <1>2 DEF OtherPath, TailsBelong, StateBelongs
  <2>. QED  BY <2>1 DEF SavedBelongs
<1>3. ASSUME Join PROVE SavedBelongs'
  BY <1>3 DEF Join, SavedBelongs
<1>4. CASE UNCHANGED vars
  BY <1>4 DEF vars, SavedBelongs
<1>. QED  BY <1>1, <1>2, <1>3, <1>4 DEF Next

\* Settled, from what is known of the two states.
LEMMA StatesSettle == StatesOK /\ SavedBelongs => MergeSettles
<1>. SUFFICES ASSUME StatesOK, SavedBelongs, saved # <<>> PROVE Settled(Merge(saved[1], st))
  BY DEF MergeSettles
<1>. DEFINE once == Merge(saved[1], st)
<1>1. st \in States /\ saved[1] \in States /\ StateBelongs(saved[1]) /\ once = Merge(saved[1], st)
  BY DEF StatesOK, SavedBelongs
<1>. HIDE DEF once
<1>2. /\ ~Merge(once.state, st).diff
      /\ ~Merge(once.state, saved[1]).diff
      /\ ~once.diff => \A r \in DOMAIN RegInfo :
             Sure(GetRegister(saved[1], r, "Full")) =>
                GetRegister(once.state, r, "Full") = GetRegister(saved[1], r, "Full")
  BY <1>1, MergedStates
<1>. QED  BY <1>2 DEF Settled, once

\* As long as tails belong to a head (clearTail(), markUnknown()) merge()
\* settles at every join of every function: merging either path a second time
\* reports no change, so forwardStateToBlock() does not queue the block again
\* for it, and a merge that reported no change lost no register.
THEOREM MergingSettles == Spec /\ []TailsBelong => []MergeSettles
<1>1. Init => SavedBelongs
  BY DEF Init, SavedBelongs
<1>. QED  BY <1>1, StatesWellFormed, StepBelongs, StatesSettle, PTL DEF Spec

-----------------------------------------------------------------------------
(* Predicates.                                                             *)

\* What the machine has on a side of a comparison (Takes).
MachineSide(x) ==
    IF x \in DOMAIN RegInfo THEN CVal(MReg(mach, x, "Full")) ELSE Imm(IF x = "0" THEN 0 ELSE 1)
\* A comparison on the machine.
MachineHolds(c) ==
    LET l == MachineSide(c.lhs)
        r == MachineSide(c.rhs)
    IN  IF ~IsImm(l) \/ ~IsImm(r) THEN "Unknown" ELSE IF (l = r) = c.equal THEN "True" ELSE "False"
\* A comparison on the program state.
Holds(c) == Compare(c, Side(st, c.lhs), Side(st, c.rhs))

\* A side that is known is what the machine has.
LEMMA SideRight ==
  ASSUME StatesOK, ClaimsHold, st.ok, NEW x, IsImm(Side(st, x))
  PROVE  MachineSide(x) = Side(st, x) /\ Side(st, x) \in Values /\ Side(st, x).nr = 0
<1>1. CASE x \in DOMAIN RegInfo
  <2>. DEFINE v == GetRegister(st, x, "Full")
  <2>1. Side(st, x) = v /\ MachineSide(x) = CVal(MReg(mach, x, "Full"))
    BY <1>1 DEF Side, MachineSide
  <2>2. "Full" \in DOMAIN PartOf /\ "Full" \in Accesses(x)
    BY DEF PartOf, Accesses
  <2>3. v \in Values /\ (IsImm(v) => v.nr = 0)
    BY <1>1, <2>2, GetRegisterType DEF StatesOK
  <2>4. Sure(v) => CVal(MReg(mach, x, "Full")) = v
    BY <1>1, <2>2 DEF ClaimsHold
  <2>. HIDE DEF v
  <2>. QED  BY <2>1, <2>3, <2>4 DEF Sure
<1>2. CASE x \notin DOMAIN RegInfo
  <2>1. Side(st, x) = Imm(IF x = "0" THEN 0 ELSE 1) /\ MachineSide(x) = Imm(IF x = "0" THEN 0 ELSE 1)
    BY <1>2 DEF Side, MachineSide
  <2>. QED  BY <2>1, ImmType DEF Imm, DynamicValue
<1>. QED  BY <1>1, <1>2

\* A comparison that is decided is decided as the machine decides it.
LEMMA HoldsRight ==
  ASSUME StatesOK, ClaimsHold, st.ok, NEW c
  PROVE  Holds(c) \in {"True", "False", "Unknown"} /\ (Holds(c) # "Unknown" => MachineHolds(c) = Holds(c))
<1>. DEFINE l == Side(st, c.lhs)
            r == Side(st, c.rhs)
<1>1. Holds(c) = IF ~IsImm(l) \/ ~IsImm(r) THEN "Unknown"
                 ELSE IF (l.val = r.val) = c.equal THEN "True" ELSE "False"
  BY DEF Holds, Compare
<1>2. ASSUME IsImm(l), IsImm(r) PROVE MachineHolds(c) = Holds(c)
  <2>1. /\ MachineSide(c.lhs) = l /\ MachineSide(c.rhs) = r
        /\ l \in Values /\ r \in Values /\ l.nr = 0 /\ r.nr = 0
    BY <1>2, SideRight
  <2>. HIDE DEF l, r
  <2>2. (l.val = r.val) = (l = r)
    BY <1>2, <2>1 DEF Values, IsImm
  <2>3. MachineHolds(c) = IF ~IsImm(l) \/ ~IsImm(r) THEN "Unknown"
                          ELSE IF (l = r) = c.equal THEN "True" ELSE "False"
    BY <2>1 DEF MachineHolds
  <2>. QED  BY <1>1, <1>2, <2>2, <2>3
<1>. HIDE DEF l, r
<1>. QED  BY <1>1, <1>2

\* TriState goes wrong with a conjunction of a true and an unknown comparison
\* only.
Decidable == \A pred \in Predicates : pred.con \in {"Always", "None", "Or"}

\* Whatever willExecute() decides the machine decides.
LEMMA DecidedRight ==
  ASSUME Decidable, StatesOK, ClaimsHold
  PROVE  PredicatesRight
<1>. SUFFICES ASSUME st.ok, NEW pred \in Predicates, WillExecute(st, pred) # "Unknown"
              PROVE  Takes(mach, pred) = WillExecute(st, pred)
  BY DEF PredicatesRight
<1>. DEFINE x == Holds(pred.first)
            y == Holds(pred.second)
            mx == MachineHolds(pred.first)
            my == MachineHolds(pred.second)
<1>1. /\ x \in {"True", "False", "Unknown"} /\ (x # "Unknown" => mx = x)
      /\ y \in {"True", "False", "Unknown"} /\ (y # "Unknown" => my = y)
  BY HoldsRight
<1>2. pred.con \in {"Always", "None", "Or"}
  BY DEF Decidable
<1>3. WillExecute(st, pred) = IF pred.con = "Always" THEN "True"
                              ELSE CASE pred.con = "None" -> x
                                     [] pred.con = "And" -> TriAnd(x, y)
                                     [] pred.con = "Or" -> TriOr(x, y)
  BY DEF WillExecute, Holds
<1>4. Takes(mach, pred) = IF pred.con = "Always" THEN "True"
                          ELSE CASE pred.con = "None" -> mx
                                 [] pred.con = "And" -> IF "False" \in {mx, my} THEN "False"
                                                        ELSE IF "Unknown" \in {mx, my} THEN "Unknown" ELSE "True"
                                 [] pred.con = "Or" -> IF "True" \in {mx, my} THEN "True"
                                                       ELSE IF "Unknown" \in {mx, my} THEN "Unknown" ELSE "False"
  BY DEF Takes, MachineHolds, MachineSide
<1>. HIDE DEF x, y, mx, my
<1>5. CASE pred.con = "Always"
  BY <1>3, <1>4, <1>5
<1>6. CASE pred.con = "None"
  BY <1>1, <1>3, <1>4, <1>6
<1>7. CASE pred.con = "Or"
  <2>1. WillExecute(st, pred) = TriOr(x, y)
    BY <1>3, <1>7
  <2>2. Takes(mach, pred) = IF "True" \in {mx, my} THEN "True"
                            ELSE IF "Unknown" \in {mx, my} THEN "Unknown" ELSE "False"
    BY <1>4, <1>7
  <2>. QED  BY <1>1, <2>1, <2>2 DEF TriOr
<1>. QED  BY <1>2, <1>5, <1>6, <1>7

\* With comparisons that stand alone or are joined by Or (all of
\* x86/Predicate.cpp but NBE and NLE), willExecute() is right whenever
\* registers and flags are: three-valued logic adds no error of its own to
\* what emulate() claims.
THEOREM DecisionsFollow ==
  ASSUME Decidable
  PROVE  Spec /\ []ClaimsHold => []PredicatesRight
<1>1. StatesOK /\ ClaimsHold => PredicatesRight
  BY DecidedRight
<1>. QED  BY <1>1, StatesWellFormed, PTL
=============================================================================
