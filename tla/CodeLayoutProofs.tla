-------------------------- MODULE CodeLayoutProofs --------------------------
(***************************************************************************)
(* Proofs about the two runs of code generation, for every program, page   *)
(* size and alignment: the second run never needs more memory than the     *)
(* first one measured, short branches back still reach their block, and    *)
(* every branch and call lands where its target came to lie.               *)
(***************************************************************************)
EXTENDS CodeLayout, SequenceTheorems, TLAPS

-----------------------------------------------------------------------------
(***************************************************************************)
(* Arithmetic of alignment.                                                *)
(***************************************************************************)

\* Multiplying by a positive number reflects <.
LEMMA MulLess ==
  ASSUME NEW a \in Nat \ {0}, NEW s \in Int, NEW t \in Int, a * s < a * t + a
  PROVE  s <= t
<1>. SUFFICES ASSUME s >= t + 1 PROVE FALSE
  OBVIOUS
<1>1. PICK d \in Nat : s = t + 1 + d
  <2>1. s - t - 1 \in Nat /\ s = t + 1 + (s - t - 1)
    OBVIOUS
  <2>. QED  BY <2>1
<1>2. a * s = a * t + a + a * d
  BY <1>1
<1>3. a * d \in Nat
  OBVIOUS
<1>4. a * t \in Int /\ a * s \in Int
  OBVIOUS
<1>. QED  BY <1>2, <1>3, <1>4

\* ALIGN_DOWN() yields the multiple of a at or right below x.
LEMMA AlignDownMultiple ==
  ASSUME NEW a \in Nat \ {0}, NEW x \in Int
  PROVE  \E q \in Int : AlignDown(x, a) = a * q /\ a * q <= x /\ x < a * q + a
<1>1. x = a * (x \div a) + (x % a) /\ x % a \in 0 .. a - 1 /\ x \div a \in Int
  OBVIOUS
<1>2. a * (x \div a) \in Int
  BY <1>1
<1>3. AlignDown(x, a) = a * (x \div a) /\ a * (x \div a) <= x /\ x < a * (x \div a) + a
  BY <1>1, <1>2 DEF AlignDown
<1>. QED  BY <1>1, <1>3, Zenon

\* ALIGN_UP() yields the multiple of a at or right above x.
LEMMA AlignUpMultiple ==
  ASSUME NEW a \in Nat \ {0}, NEW x \in Int
  PROVE  \E q \in Int : AlignUp(x, a) = a * q /\ x <= a * q /\ a * q < x + a
<1>0. x + a - 1 \in Int
  OBVIOUS
<1>1. PICK q \in Int : AlignDown(x + a - 1, a) = a * q /\ a * q <= x + a - 1 /\ x + a - 1 < a * q + a
  BY <1>0, AlignDownMultiple, Zenon
<1>2. a * q \in Int
  OBVIOUS
<1>. QED  BY <1>1, <1>2 DEF AlignUp

\* The remainder is 0 for multiples only.
LEMMA Multiple ==
  ASSUME NEW a \in Nat \ {0}, NEW x \in Int, x % a = 0
  PROVE  \E q \in Int : x = a * q
<1>1. x = a * (x \div a) + (x % a) /\ x \div a \in Int
  OBVIOUS
<1>2. a * (x \div a) \in Int
  BY <1>1
<1>3. x = a * (x \div a)
  BY <1>1, <1>2
<1>. QED  BY <1>1, <1>3

\* A multiple of a leaves no remainder.
LEMMA MultipleRemainder ==
  ASSUME NEW a \in Nat \ {0}, NEW q \in Int
  PROVE  (a * q) % a = 0
<1>. DEFINE x == a * q
           d == x \div a
           r == x % a
<1>1. x \in Int /\ x = a * d + r /\ r \in 0 .. a - 1 /\ d \in Int
  OBVIOUS
<1>2. a * d \in Int
  BY <1>1
<1>3. a * q < a * d + a /\ a * d < a * q + a
  BY <1>1, <1>2
<1>4. q <= d /\ d <= q
  BY <1>1, <1>3, MulLess
<1>5. d = q
  BY <1>1, <1>4
<1>. QED  BY <1>1, <1>5

\* What is aligned is a multiple (ALIGN_UP, Utils.hpp).
LEMMA AlignUpAligned ==
  ASSUME NEW a \in Nat \ {0}, NEW x \in Int
  PROVE  AlignUp(x, a) % a = 0
<1>1. PICK q \in Int : AlignUp(x, a) = a * q
  BY AlignUpMultiple, Zenon
<1>2. (a * q) % a = 0
  BY MultipleRemainder, Zenon
<1>. QED  BY <1>1, <1>2, Zenon

\* Distances from an aligned place do not grow by aligning (newBlock()).
LEMMA AlignUpDistance ==
  ASSUME NEW a \in Nat \ {0}, NEW m \in Int, NEW n \in Int, NEW p \in Int, NEW r \in Int,
         p % a = 0, r % a = 0, n - r <= m - p
  PROVE  AlignUp(n, a) - r <= AlignUp(m, a) - p
<1>1. PICK i \in Int : AlignUp(m, a) = a * i /\ m <= a * i /\ a * i < m + a
  BY AlignUpMultiple, Zenon
<1>2. PICK j \in Int : AlignUp(n, a) = a * j /\ n <= a * j /\ a * j < n + a
  BY AlignUpMultiple, Zenon
<1>3. PICK k \in Int : p = a * k
  BY Multiple
<1>4. PICK l \in Int : r = a * l
  BY Multiple, Zenon
<1>5. a * (j - l) = a * j - a * l /\ a * (i - k) = a * i - a * k
  OBVIOUS
<1>6. a * i \in Int /\ a * j \in Int /\ a * k \in Int /\ a * l \in Int
  OBVIOUS
<1>7. a * (j - l) < a * (i - k) + a
  BY <1>1, <1>2, <1>3, <1>4, <1>5, <1>6
<1>8. j - l <= i - k
  BY <1>7, MulLess
<1>9. PICK d \in Nat : i - k = (j - l) + d
  <2>1. (i - k) - (j - l) \in Nat
    BY <1>8
  <2>. QED  BY <2>1
<1>10. a * (i - k) = a * (j - l) + a * d /\ a * d \in Nat
  BY <1>9
<1>. QED  BY <1>1, <1>2, <1>3, <1>4, <1>5, <1>6, <1>10

\* ... nor by adding no more than was measured (allocCode()).
LEMMA DistanceStep ==
  ASSUME NEW m \in Int, NEW n \in Int, NEW p \in Int, NEW r \in Int, NEW s \in Int, NEW t \in Int,
         n - r <= m - p, s <= t
  PROVE  (n + s) - r <= (m + t) - p
OBVIOUS

\* Aligning keeps the order.
LEMMA AlignUpMonotone ==
  ASSUME NEW a \in Nat \ {0}, NEW m \in Nat, NEW n \in Nat, n <= m
  PROVE  AlignUp(n, a) <= AlignUp(m, a)
<1>1. 0 % a = 0
  <2>1. (a * 0) % a = 0
    BY MultipleRemainder
  <2>. QED  BY <2>1
<1>2. AlignUp(n, a) - 0 <= AlignUp(m, a) - 0
  BY <1>1, AlignUpDistance
<1>3. AlignUp(n, a) \in Int /\ AlignUp(m, a) \in Int
  BY DEF AlignUp, AlignDown
<1>. QED  BY <1>2, <1>3

\* A block that ends within an aligned limit also begins its successor there.
LEMMA AlignUpWithin ==
  ASSUME NEW a \in Nat \ {0}, NEW x \in Nat, NEW limit \in Nat, limit % a = 0, x <= limit
  PROVE  AlignUp(x, a) \in Nat /\ x <= AlignUp(x, a) /\ AlignUp(x, a) <= limit
<1>0. x \in Int
  OBVIOUS
<1>1. PICK i \in Int : AlignUp(x, a) = a * i /\ x <= a * i /\ a * i < x + a
  BY <1>0, AlignUpMultiple, Zenon
<1>2. PICK j \in Int : limit = a * j
  BY Multiple
<1>3. a * i \in Int /\ a * j \in Int
  OBVIOUS
<1>4. i <= j
  BY <1>1, <1>2, <1>3, MulLess
<1>5. PICK d \in Nat : j = i + d
  <2>1. j - i \in Nat /\ j = i + (j - i)
    BY <1>4
  <2>. QED  BY <2>1
<1>6. a * j = a * i + a * d /\ a * d \in Nat
  BY <1>5
<1>. QED  BY <1>1, <1>2, <1>3, <1>6

-----------------------------------------------------------------------------
(***************************************************************************)
(* The inductive invariant.                                                *)
(***************************************************************************)

\* The bytes an item takes in the first run, in which no branch is short.
Bytes(k) ==
    CASE items[k].kind = "instr"  -> items[k].size
      [] items[k].kind = "branch" -> LongIlen[items[k].class]
      [] items[k].kind = "call"   -> CallIlen
      [] OTHER                    -> 0
MeasuredNext(k) == IF IsPlace(items[k]) THEN AlignUp(measured[k], BlockAlign) ELSE measured[k] + Bytes(k)

TypeInv ==
    /\ LayoutTypeOK
    /\ pool.instrPage = 0
    /\ branches \in Seq([item : 1 .. Len(items), at : Nat, ilen : Nat])
    /\ phase # "failed" => pool.error = "none"
    /\ write => phase # "passes" /\ pool.error = "none"
    /\ ~write => phase \notin {"again", "done"}

\* The first run measured each item as it is handled, all of it in one page.
MeasureInv ==
    /\ measured[1] = 0
    /\ \A k \in 1 .. Len(items) : write \/ (phase = "walk" /\ k < cursor) =>
          measured[k + 1] = MeasuredNext(k) /\ measured[k + 1] <= PageSize

\* Before and in the first run.
FirstInv ==
    /\ ~write /\ phase = "passes" => short = {} /\ branches = <<>>
    /\ ~write /\ phase = "walk" =>
          /\ pool.nextInstr = measured[cursor]
          /\ short \subseteq 1 .. cursor - 1
          /\ \A d \in 1 .. Len(items) :
                /\ place[d] # -1 => d < cursor /\ place[d] = measured[d + 1]
                /\ IsPlace(items[d]) /\ d < cursor => place[d] # -1
          /\ \A j \in 1 .. Len(branches) :
                /\ branches[j].item < cursor /\ items[branches[j].item].kind = "branch"
                /\ items[branches[j].item].dst > branches[j].item

\* A branch back is short only where the first run measured it as such.
ShortInv ==
    \A k \in short :
        /\ items[k].kind = "branch"
        /\ items[k].dst < k =>
              measured[items[k].dst + 1] - (measured[k] + ShortIlen[items[k].class]) >= -128

\* In the second run nothing is further from the beginning, or from a block
\* before it, than was measured.
SecondInv ==
    write /\ phase = "walk" =>
        /\ pool.nextInstr <= measured[cursor]
        /\ \A d \in 1 .. Len(items) : place[d] # -1 =>
              /\ d < cursor /\ IsPlace(items[d]) /\ place[d] % BlockAlign = 0
              /\ pool.nextInstr - place[d] <= measured[cursor] - measured[d + 1]

LayoutInv == TypeInv /\ MeasureInv /\ FirstInv /\ ShortInv /\ SecondInv

-----------------------------------------------------------------------------
(***************************************************************************)
(* Facts about items and the pool.                                         *)
(***************************************************************************)

PoolType == [instrPage : Int, nextInstr : Nat, constPage : Int, nextConst : Int, error : {"none", "full", "memory"}]

\* Moving on in a page changes nothing else of the pool.
LEMMA PoolMove ==
  ASSUME NEW p \in PoolType, NEW n \in Nat, NEW q, q = [p EXCEPT !.nextInstr = n]
  PROVE  /\ q \in PoolType /\ q.nextInstr = n
         /\ q.instrPage = p.instrPage /\ q.error = p.error
         /\ q.constPage = p.constPage /\ q.nextConst = p.nextConst
BY DEF PoolType

\* Giving code back leaves the constants (BinaryPool::resetCodePool()).
LEMMA PoolReset ==
  ASSUME NEW p \in PoolType, NEW q, q = [p EXCEPT !.instrPage = 0, !.nextInstr = 0]
  PROVE  /\ q \in PoolType /\ q.nextInstr = 0 /\ q.instrPage = 0 /\ q.error = p.error
         /\ q.constPage = p.constPage /\ q.nextConst = p.nextConst
<1>1. /\ DOMAIN p = {"instrPage", "nextInstr", "constPage", "nextConst", "error"}
      /\ p = [f \in DOMAIN p |-> p[f]]
  BY DEF PoolType
<1>2. q = [instrPage |-> 0, nextInstr |-> 0, constPage |-> p.constPage, nextConst |-> p.nextConst, error |-> p.error]
  BY <1>1, Zenon
<1>. QED  BY <1>2 DEF PoolType

\* What the types say of lengths and places.
LEMMA TypeFacts ==
  ASSUME TypeInv
  PROVE  /\ Len(items) \in Nat
         /\ pool \in PoolType /\ pool.nextInstr \in Nat /\ pool.instrPage = 0
         /\ pool.nextInstr <= PageSize /\ PageSize \in Nat
         /\ cursor \in Nat /\ 1 <= cursor /\ cursor <= Len(items) + 1
         /\ measured \in [1 .. Len(items) + 1 -> Nat]
         /\ \A k \in 1 .. Len(items) + 1 : measured[k] \in Nat
         /\ place \in [1 .. Len(items) -> Nat \union {-1}]
         /\ \A d \in 1 .. Len(items) : place[d] \in Int
         /\ write \in BOOLEAN
         /\ BlockAlign \in Nat \ {0}
<1>1. Len(items) \in Nat
  BY ProgramsAssumption DEF TypeInv, LayoutTypeOK
<1>2. pool \in PoolType /\ pool.nextInstr \in Nat /\ pool.instrPage = 0
  BY DEF TypeInv, LayoutTypeOK, PoolType
<1>3. pool.nextInstr <= PageSize /\ PageSize \in Nat /\ BlockAlign \in Nat \ {0}
  BY <1>2, PoolAssumption DEF TypeInv, LayoutTypeOK
<1>4. cursor \in 1 .. Len(items) + 1
  BY DEF TypeInv, LayoutTypeOK
<1>5. cursor \in Nat /\ 1 <= cursor /\ cursor <= Len(items) + 1
  BY <1>1, <1>4
<1>6. /\ measured \in [1 .. Len(items) + 1 -> Nat]
      /\ place \in [1 .. Len(items) -> Nat \union {-1}] /\ write \in BOOLEAN
  BY DEF TypeInv, LayoutTypeOK
<1>7. \A k \in 1 .. Len(items) + 1 : measured[k] \in Nat
  BY <1>6
<1>8. \A d \in 1 .. Len(items) : place[d] \in Int
  BY <1>6
<1>. QED  BY <1>1, <1>2, <1>3, <1>5, <1>6, <1>7, <1>8

\* A branch to be fixed up is an item of the program.
LEMMA BranchFacts ==
  ASSUME TypeInv, NEW j \in 1 .. Len(branches)
  PROVE  branches[j].item \in 1 .. Len(items)
<1>1. branches \in Seq([item : 1 .. Len(items), at : Nat, ilen : Nat])
  BY DEF TypeInv
<1>2. branches[j] \in [item : 1 .. Len(items), at : Nat, ilen : Nat]
  BY <1>1, ElementOfSeq, Zenon
<1>. QED  BY <1>2

\* What the types say of the items of a program.
LEMMA ItemFacts ==
  ASSUME LayoutTypeOK
  PROVE  /\ Len(items) \in Nat
         /\ items \in Seq(Item)
         /\ \A k \in 1 .. Len(items) :
               /\ items[k] \in Item /\ items[k].size \in Nat \ {0}
               /\ LongIlen[items[k].class] \in Nat \ {0}
               /\ ShortIlen[items[k].class] \in Nat \ {0}
               /\ ShortIlen[items[k].class] <= LongIlen[items[k].class]
               /\ Bytes(k) \in Nat
               /\ items[k].kind = "branch" =>
                     items[k].dst \in 1 .. Len(items) /\ IsPlace(items[items[k].dst])
<1>1. items \in Seq(Item) /\ Len(items) \in Nat
  BY ProgramsAssumption DEF LayoutTypeOK
<1>2. ASSUME NEW k \in 1 .. Len(items)
      PROVE  /\ items[k] \in Item /\ items[k].size \in Nat \ {0} /\ items[k].class \in Classes
             /\ items[k].kind = "branch" =>
                   items[k].dst \in 1 .. Len(items) /\ IsPlace(items[items[k].dst])
  <2>1. items[k] \in Item
    BY <1>1
  <2>2. items[k].size \in Nat \ {0} /\ items[k].class \in Classes
    BY <2>1 DEF Item
  <2>3. items[k].kind = "branch" =>
          items[k].dst \in 1 .. Len(items) /\ IsPlace(items[items[k].dst])
    BY ProgramsAssumption DEF LayoutTypeOK
  <2>. QED  BY <2>1, <2>2, <2>3
<1>3. \A c \in Classes : /\ LongIlen[c] \in Nat \ {0} /\ ShortIlen[c] \in Nat \ {0}
                        /\ ShortIlen[c] <= LongIlen[c]
  BY DEF LongIlen, ShortIlen, Classes
<1>4. \A k \in 1 .. Len(items) : Bytes(k) \in Nat
  BY <1>2, <1>3 DEF Bytes, CallIlen
<1>. QED  BY <1>1, <1>2, <1>3, <1>4

\* ALIGN_DOWN() to the first page.
LEMMA FirstPage ==
  ASSUME NEW x \in Nat
  PROVE  AlignDown(x, PageSize) = 0 <=> x < PageSize
<1>. PageSize \in Nat \ {0}
  BY PoolAssumption
<1>1. PICK q \in Int : /\ AlignDown(x, PageSize) = PageSize * q
                       /\ PageSize * q <= x /\ x < PageSize * q + PageSize
  <2>1. x \in Int
    OBVIOUS
  <2>. QED  BY <2>1, AlignDownMultiple, Zenon
<1>2. PageSize * q \in Int
  OBVIOUS
<1>3. ASSUME x < PageSize PROVE PageSize * q = 0
  <2>1. PageSize * q < PageSize * 0 + PageSize /\ PageSize * 0 < PageSize * q + PageSize
    BY <1>1, <1>2, <1>3
  <2>2. q <= 0 /\ 0 <= q
    BY <2>1, MulLess
  <2>. QED  BY <2>2
<1>. QED  BY <1>1, <1>2, <1>3

\* No page but the first is ever mapped for code (BinaryPool.cpp:63).
LEMMA AllocCodeFacts ==
  ASSUME TypeInv, NEW size \in Nat \ {0}
  PROVE  /\ pool.nextInstr + size <= PageSize => AllocCode(pool, size) = [pool EXCEPT !.nextInstr = @ + size]
         /\ pool.nextInstr + size > PageSize =>
               /\ AllocCode(pool, size).error # "none"
               /\ AllocCode(pool, size).instrPage = 0
               /\ AllocCode(pool, size).nextInstr = pool.nextInstr
               /\ AllocCode(pool, size).constPage = pool.constPage
               /\ AllocCode(pool, size).nextConst = pool.nextConst
               /\ AllocCode(pool, size) \in PoolType
<1>. DEFINE x == pool.nextInstr + size - 1
<1>1. x \in Nat /\ pool.instrPage = 0 /\ PageSize \in Nat \ {0, 1}
  BY PoolAssumption DEF TypeInv, LayoutTypeOK
<1>2. AlignDown(x, PageSize) = pool.instrPage <=> x < PageSize
  BY <1>1, FirstPage
<1>3. ~CanMap(NextInstrPage(pool))
  <2>1. 1 % PageSize = 1
    BY <1>1
  <2>. QED  BY <1>1, <2>1 DEF CanMap, NextInstrPage
<1>4. pool.nextInstr + size <= PageSize <=> x < PageSize
  BY <1>1 DEF TypeInv, LayoutTypeOK
<1>. HIDE DEF x
<1>5. CASE x < PageSize
  <2>1. AllocCode(pool, size) = [pool EXCEPT !.nextInstr = @ + size]
    BY <1>2, <1>5 DEF AllocCode, x
  <2>. QED  BY <1>1, <1>4, <1>5, <2>1 DEF TypeInv, LayoutTypeOK
<1>6. CASE ~(x < PageSize)
  <2>1. \E e \in {"full", "memory"} : AllocCode(pool, size) = [pool EXCEPT !.error = e]
    BY <1>2, <1>3, <1>6 DEF AllocCode, x
  <2>. QED  BY <1>1, <1>4, <1>6, <2>1, Zenon DEF TypeInv, LayoutTypeOK, PoolType
<1>. QED  BY <1>5, <1>6

-----------------------------------------------------------------------------
(***************************************************************************)
(* The steps.                                                              *)
(***************************************************************************)

\* Before the first run nothing was measured.
LEMMA InitInv == Init => LayoutInv
<1>. SUFFICES ASSUME Init PROVE LayoutInv
  OBVIOUS
<1>1. items \in Programs /\ items \in Seq(Item) /\ Len(items) \in Nat
  BY ProgramsAssumption DEF Init
<1>2. pool = [instrPage |-> 0, nextInstr |-> 0,
              constPage |-> MmapSize - PageSize, nextConst |-> MmapSize - 1, error |-> "none"]
  BY DEF Init, NewPool
<1>3. LayoutTypeOK
  <2>1. MmapSize - PageSize \in Int /\ MmapSize - 1 \in Int /\ PageSize \in Nat
    BY PoolAssumption
  <2>2. pool \in PoolType /\ pool.nextInstr <= pool.instrPage + PageSize
    BY <1>2, <2>1 DEF PoolType
  <2>3. /\ place \in [1 .. Len(items) -> Nat \union {-1}]
        /\ measured \in [1 .. Len(items) + 1 -> Nat] /\ cursor \in 1 .. Len(items) + 1
    BY <1>1 DEF Init, Fresh
  <2>. QED  BY <1>1, <2>2, <2>3, Zenon DEF Init, LayoutTypeOK, PoolType
<1>4. TypeInv
  BY <1>1, <1>2, <1>3 DEF Init, TypeInv
<1>5. MeasureInv /\ FirstInv /\ ShortInv /\ SecondInv
  BY <1>1 DEF Init, MeasureInv, FirstInv, ShortInv, SecondInv
<1>. QED  BY <1>4, <1>5 DEF LayoutInv

\* What an item of code takes is no more than was measured for it, and there.
LEMMA MeasuredRoom ==
  ASSUME LayoutInv, write, phase = "walk", cursor \in 1 .. Len(items), ~IsPlace(items[cursor]),
         NEW size \in Nat, size <= Bytes(cursor)
  PROVE  pool.nextInstr + size <= PageSize
<1>1. measured[cursor + 1] = measured[cursor] + Bytes(cursor) /\ measured[cursor + 1] <= PageSize
  BY DEF LayoutInv, MeasureInv, MeasuredNext
<1>2. pool.nextInstr <= measured[cursor]
  BY DEF LayoutInv, SecondInv
<1>3. measured[cursor] \in Nat /\ pool.nextInstr \in Nat /\ Bytes(cursor) \in Nat /\ PageSize \in Nat
  BY ItemFacts, PoolAssumption, Zenon DEF LayoutInv, TypeInv, LayoutTypeOK
<1>. QED  BY <1>1, <1>2, <1>3

\* After an item of code: it was measured, or takes no more than was measured.
LEMMA CodeAdvance ==
  ASSUME LayoutInv, phase = "walk", cursor \in 1 .. Len(items), ~IsPlace(items[cursor]),
         NEW size \in Nat, size <= Bytes(cursor), ~write => size = Bytes(cursor),
         pool' = [pool EXCEPT !.nextInstr = @ + size], pool.nextInstr + size <= PageSize,
         Advance(pool'.nextInstr), UNCHANGED <<items, write, place, phase>>
  PROVE  /\ measured' \in [1 .. Len(items) + 1 -> Nat] /\ cursor' = cursor + 1
         /\ pool'.nextInstr = pool.nextInstr + size /\ pool'.instrPage = 0 /\ pool'.error = "none"
         /\ pool' \in PoolType
         /\ \A k \in 1 .. cursor : measured'[k] = measured[k]
         /\ ~write => pool'.nextInstr = measured'[cursor + 1]
         /\ MeasureInv' /\ SecondInv'
<1>0. /\ TypeInv /\ LayoutTypeOK /\ MeasureInv /\ FirstInv /\ SecondInv
  BY DEF LayoutInv, TypeInv
<1>1. /\ Len(items) \in Nat /\ pool.nextInstr \in Nat /\ Bytes(cursor) \in Nat /\ PageSize \in Nat
      /\ measured \in [1 .. Len(items) + 1 -> Nat] /\ cursor \in Nat /\ cursor <= Len(items)
      /\ cursor + 1 \in 1 .. Len(items) + 1 /\ cursor \in 1 .. Len(items) + 1 /\ 1 \in 1 .. cursor
  <2>1. Bytes(cursor) \in Nat
    BY <1>0, ItemFacts
  <2>2. /\ Len(items) \in Nat /\ pool.nextInstr \in Nat /\ PageSize \in Nat
        /\ measured \in [1 .. Len(items) + 1 -> Nat]
    BY <1>0, TypeFacts
  <2>. QED  BY <2>1, <2>2
<1>2. /\ pool'.nextInstr = pool.nextInstr + size /\ pool'.instrPage = 0 /\ pool'.error = "none"
      /\ pool' \in PoolType
  <2>1. pool \in PoolType /\ pool.instrPage = 0 /\ pool.nextInstr + size \in Nat /\ pool.error = "none"
    BY <1>0, <1>1, TypeFacts, SMTT(30) DEF TypeInv
  <2>. QED  BY <2>1, PoolMove
<1>3. /\ cursor' = cursor + 1
      /\ measured' = IF write THEN measured ELSE [measured EXCEPT ![cursor + 1] = pool'.nextInstr]
  BY DEF Advance
<1>4. /\ measured' \in [1 .. Len(items) + 1 -> Nat]
      /\ \A k \in 1 .. cursor : measured'[k] = measured[k]
      /\ write => measured' = measured
      /\ ~write => measured'[cursor + 1] = pool'.nextInstr
  <2>1. pool'.nextInstr \in Nat
    BY <1>1, <1>2
  <2>2. CASE write
    BY <2>2, <1>1, <1>3
  <2>3. CASE ~write
    <3>1. measured' = [measured EXCEPT ![cursor + 1] = pool'.nextInstr]
      BY <2>3, <1>3
    <3>. HIDE <1>2, <1>3
    <3>. QED  BY <3>1, <2>1, <2>3, <1>1
  <2>. QED  BY <2>2, <2>3
<1>5. measured'[cursor + 1] = measured[cursor] + Bytes(cursor) /\ measured'[cursor + 1] <= PageSize
  <2>1. CASE write
    BY <2>1, <1>0, <1>4 DEF MeasureInv, MeasuredNext
  <2>2. CASE ~write
    BY <2>2, <1>0, <1>1, <1>2, <1>4 DEF FirstInv
  <2>. QED  BY <2>1, <2>2
<1>6. MeasureInv'
  <2>1. measured'[1] = 0
    BY <1>0, <1>1, <1>4, Zenon DEF MeasureInv
  <2>2. ASSUME NEW k \in 1 .. Len(items), write \/ k < cursor + 1
        PROVE  measured'[k + 1] = MeasuredNext(k)' /\ measured'[k + 1] <= PageSize
    <3>1. CASE k = cursor
      BY <3>1, <1>1, <1>4, <1>5 DEF MeasuredNext, Bytes
    <3>2. CASE k # cursor
      <4>1. measured'[k + 1] = measured[k + 1] /\ measured'[k] = measured[k]
        <5>1. CASE write
          BY <5>1, <1>4
        <5>2. CASE ~write
          <6>1. k + 1 \in 1 .. cursor /\ k \in 1 .. cursor
            BY <5>2, <3>2, <2>2, <1>1
          <6>. QED  BY <6>1, <1>4, Zenon
        <5>. QED  BY <5>1, <5>2
      <4>2. measured[k + 1] = MeasuredNext(k) /\ measured[k + 1] <= PageSize
        BY <3>2, <2>2, <1>0, <1>1 DEF MeasureInv
      <4>. QED  BY <4>1, <4>2 DEF MeasuredNext, Bytes
    <3>. QED  BY <3>1, <3>2
  <2>. QED  BY <2>1, <2>2, <1>3 DEF MeasureInv
<1>7. SecondInv'
  <2>. SUFFICES ASSUME write
                PROVE  /\ pool'.nextInstr <= measured[cursor + 1]
                       /\ \A d \in 1 .. Len(items) : place[d] # -1 =>
                             /\ d < cursor + 1 /\ IsPlace(items[d]) /\ place[d] % BlockAlign = 0
                             /\ pool'.nextInstr - place[d] <= measured[cursor + 1] - measured[d + 1]
    BY <1>3, <1>4 DEF SecondInv
  <2>0. measured[cursor] \in Nat /\ pool.nextInstr <= measured[cursor]
    BY <1>0, <1>1, Zenon DEF SecondInv
  <2>1. pool'.nextInstr <= measured[cursor + 1]
    BY <2>0, <1>1, <1>2, <1>4, <1>5
  <2>2. ASSUME NEW d \in 1 .. Len(items), place[d] # -1
        PROVE  /\ d < cursor + 1 /\ IsPlace(items[d]) /\ place[d] % BlockAlign = 0
               /\ pool'.nextInstr - place[d] <= measured[cursor + 1] - measured[d + 1]
    <3>1. /\ d < cursor /\ IsPlace(items[d]) /\ place[d] % BlockAlign = 0
          /\ pool.nextInstr - place[d] <= measured[cursor] - measured[d + 1]
      BY <2>2, <1>0 DEF SecondInv
    <3>2. place[d] \in Int
      BY <1>0, TypeFacts
    <3>3. d + 1 \in 1 .. Len(items) + 1
      BY <1>1
    <3>4. measured[d + 1] \in Nat
      BY <3>3, <1>1, Zenon
    <3>5. measured[cursor + 1] = measured[cursor] + Bytes(cursor)
      BY <1>4, <1>5
    <3>6. pool'.nextInstr - place[d] <= measured[cursor + 1] - measured[d + 1]
      <4>1. measured[cursor] \in Int /\ pool.nextInstr \in Int /\ measured[d + 1] \in Int /\ size \in Int /\ Bytes(cursor) \in Int
        BY <3>4, <2>0, <1>1
      <4>2. (pool.nextInstr + size) - place[d] <= (measured[cursor] + Bytes(cursor)) - measured[d + 1]
        BY <4>1, <3>1, <3>2, DistanceStep, Zenon
      <4>. QED  BY <4>2, <3>5, <1>2
    <3>7. d < cursor + 1
      BY <3>1, <1>1
    <3>. QED  BY <3>1, <3>6, <3>7
  <2>. QED  BY <2>1, <2>2
<1>. QED  BY <1>1, <1>2, <1>3, <1>4, <1>6, <1>7

\* What was measured for a branch back does not change any more.
LEMMA ShortUnmoved ==
  ASSUME LayoutInv, phase = "walk", cursor \in 1 .. Len(items), UNCHANGED <<items, short>>,
         write => measured' = measured, \A k \in 1 .. cursor : measured'[k] = measured[k]
  PROVE  ShortInv'
<1>. SUFFICES ASSUME NEW k \in short
              PROVE  /\ items[k].kind = "branch"
                     /\ items[k].dst < k =>
                           measured'[items[k].dst + 1] - (measured'[k] + ShortIlen[items[k].class]) >= -128
  BY DEF ShortInv
<1>0. TypeInv /\ LayoutTypeOK
  BY DEF LayoutInv, TypeInv
<1>1. k \in 1 .. Len(items) /\ Len(items) \in Nat /\ cursor \in Nat
  BY <1>0, TypeFacts DEF LayoutTypeOK
<1>2. items[k].kind = "branch" /\ items[k].dst \in 1 .. Len(items)
  BY <1>0, <1>1, ItemFacts DEF LayoutInv, ShortInv
<1>3. ASSUME items[k].dst < k
      PROVE  measured'[items[k].dst + 1] = measured[items[k].dst + 1] /\ measured'[k] = measured[k]
  <2>1. CASE write
    BY <2>1
  <2>2. CASE ~write
    <3>1. k \in 1 .. cursor - 1
      BY <2>2 DEF LayoutInv, FirstInv
    <3>2. k \in 1 .. cursor /\ items[k].dst + 1 \in 1 .. cursor
      BY <3>1, <1>1, <1>2, <1>3
    <3>. QED  BY <3>2
  <2>. QED  BY <2>1, <2>2
<1>. QED  BY <1>2, <1>3 DEF LayoutInv, ShortInv

\* newBlock() at the start of a function or block.
LEMMA BlockStep ==
  ASSUME LayoutInv, HandleBlock
  PROVE  LayoutInv'
<1>0. /\ TypeInv /\ LayoutTypeOK /\ MeasureInv /\ FirstInv /\ ShortInv /\ SecondInv
  BY DEF LayoutInv, TypeInv
<1>. DEFINE n == pool.nextInstr
           up == AlignUp(n, BlockAlign)
<1>1. /\ Len(items) \in Nat /\ n \in Nat /\ n <= PageSize /\ PageSize \in Nat /\ pool \in PoolType
      /\ measured \in [1 .. Len(items) + 1 -> Nat] /\ BlockAlign \in Nat \ {0}
      /\ place \in [1 .. Len(items) -> Nat \union {-1}] /\ pool.instrPage = 0
  BY <1>0, TypeFacts
<1>2. /\ phase = "walk" /\ cursor \in 1 .. Len(items) /\ IsPlace(items[cursor])
      /\ pool' = [pool EXCEPT !.nextInstr = up]
      /\ place' = [place EXCEPT ![cursor] = pool'.nextInstr]
      /\ cursor' = cursor + 1
      /\ measured' = IF write THEN measured ELSE [measured EXCEPT ![cursor + 1] = pool'.nextInstr]
      /\ UNCHANGED <<items, write, branches, short, phase>>
  BY DEF HandleBlock, Walking, NewBlock, Advance, IsPlace
<1>3. up \in Nat /\ n <= up /\ up <= PageSize
  BY <1>1, AlignUpWithin, PoolAssumption, Zenon
<1>4. up % BlockAlign = 0
  BY <1>1, AlignUpAligned
<1>. HIDE DEF up
<1>5. pool' \in PoolType /\ pool'.nextInstr = up /\ pool'.instrPage = 0 /\ pool'.error = pool.error
  BY <1>1, <1>2, <1>3, PoolMove
<1>6. /\ cursor \in Nat /\ cursor \in 1 .. Len(items) + 1 /\ cursor + 1 \in 1 .. Len(items) + 1
      /\ 1 \in 1 .. cursor /\ measured[cursor] \in Nat
  BY <1>1, <1>2
<1>7. /\ measured' \in [1 .. Len(items) + 1 -> Nat]
      /\ \A k \in 1 .. cursor : measured'[k] = measured[k]
      /\ write => measured' = measured
      /\ ~write => measured'[cursor + 1] = up
  <2>1. measured' = IF write THEN measured ELSE [measured EXCEPT ![cursor + 1] = up]
    BY <1>2, <1>5
  <2>2. CASE write
    BY <2>1, <2>2, <1>1
  <2>3. CASE ~write
    <3>1. measured' = [measured EXCEPT ![cursor + 1] = up]
      BY <2>1, <2>3
    <3>. QED  BY <3>1, <2>3, <1>1, <1>3, <1>6
  <2>. QED  BY <2>2, <2>3
<1>8. measured'[cursor + 1] = AlignUp(measured[cursor], BlockAlign) /\ measured'[cursor + 1] <= PageSize
  <2>1. CASE write
    BY <2>1, <1>0, <1>2, <1>7 DEF MeasureInv, MeasuredNext
  <2>2. CASE ~write
    BY <2>2, <1>0, <1>2, <1>3, <1>7 DEF FirstInv, up
  <2>. QED  BY <2>1, <2>2
<1>9. place' \in [1 .. Len(items) -> Nat \union {-1}] /\ place'[cursor] = up
      /\ \A d \in 1 .. Len(items) : d # cursor => place'[d] = place[d]
  BY <1>1, <1>2, <1>3, <1>5
<1>10. TypeInv'
  <2>1. pool'.nextInstr <= pool'.instrPage + PageSize
    BY <1>1, <1>3, <1>5
  <2>2. LayoutTypeOK'
    BY <2>1, <1>0, <1>2, <1>5, <1>6, <1>7, <1>9, Zenon DEF LayoutTypeOK, PoolType
  <2>. QED  BY <2>2, <1>0, <1>2, <1>5 DEF TypeInv
<1>11. MeasureInv'
  <2>1. measured'[1] = 0
    BY <1>0, <1>6, <1>7 DEF MeasureInv
  <2>2. ASSUME NEW k \in 1 .. Len(items), write \/ k < cursor + 1
        PROVE  measured'[k + 1] = MeasuredNext(k)' /\ measured'[k + 1] <= PageSize
    <3>1. CASE k = cursor
      <4>1. measured'[k] = measured[k]
        BY <3>1, <1>6, <1>7
      <4>. QED  BY <4>1, <3>1, <1>2, <1>8 DEF MeasuredNext
    <3>2. CASE k # cursor
      <4>1. measured'[k + 1] = measured[k + 1] /\ measured'[k] = measured[k]
        <5>1. CASE write
          BY <5>1, <1>7
        <5>2. CASE ~write
          <6>1. k + 1 \in 1 .. cursor /\ k \in 1 .. cursor
            BY <5>2, <3>2, <2>2, <1>6
          <6>. QED  BY <6>1, <1>7
        <5>. QED  BY <5>1, <5>2
      <4>2. measured[k + 1] = MeasuredNext(k) /\ measured[k + 1] <= PageSize
        <5>1. write \/ k < cursor
          BY <3>2, <2>2, <1>6
        <5>. QED  BY <5>1, <1>0, <1>2 DEF MeasureInv
      <4>. QED  BY <4>1, <4>2, <1>2 DEF MeasuredNext, Bytes
    <3>. QED  BY <3>1, <3>2
  <2>. QED  BY <2>1, <2>2, <1>2 DEF MeasureInv
<1>12. FirstInv'
  <2>. SUFFICES ASSUME ~write
                PROVE  /\ up = measured'[cursor + 1]
                       /\ short \subseteq 1 .. cursor
                       /\ \A d \in 1 .. Len(items) :
                             /\ place'[d] # -1 => d < cursor + 1 /\ place'[d] = measured'[d + 1]
                             /\ IsPlace(items[d]) /\ d < cursor + 1 => place'[d] # -1
                       /\ \A j \in 1 .. Len(branches) :
                             /\ branches[j].item < cursor + 1 /\ items[branches[j].item].kind = "branch"
                             /\ items[branches[j].item].dst > branches[j].item
    BY <1>2, <1>5, <1>6 DEF FirstInv
  <2>1. /\ short \subseteq 1 .. cursor - 1
        /\ \A d \in 1 .. Len(items) :
              /\ place[d] # -1 => d < cursor /\ place[d] = measured[d + 1]
              /\ IsPlace(items[d]) /\ d < cursor => place[d] # -1
        /\ \A j \in 1 .. Len(branches) :
              /\ branches[j].item < cursor /\ items[branches[j].item].kind = "branch"
              /\ items[branches[j].item].dst > branches[j].item
    BY <1>0, <1>2 DEF FirstInv
  <2>2. short \subseteq 1 .. cursor
    BY <2>1, <1>6
  <2>3. ASSUME NEW d \in 1 .. Len(items)
        PROVE  /\ place'[d] # -1 => d < cursor + 1 /\ place'[d] = measured'[d + 1]
               /\ IsPlace(items[d]) /\ d < cursor + 1 => place'[d] # -1
    <3>1. CASE d = cursor
      <4>1. up # -1 /\ cursor < cursor + 1
        BY <1>3, <1>6
      <4>. QED  BY <4>1, <3>1, <1>7, <1>9
    <3>2. CASE d # cursor
      <4>1. place'[d] = place[d]
        BY <3>2, <1>9
      <4>2. ASSUME place[d] # -1 PROVE d < cursor + 1 /\ place[d] = measured'[d + 1]
        <5>1. d < cursor /\ place[d] = measured[d + 1]
          BY <4>2, <2>1
        <5>2. d + 1 \in 1 .. cursor /\ d < cursor + 1
          BY <5>1, <1>6
        <5>. QED  BY <5>1, <5>2, <1>7
      <4>3. IsPlace(items[d]) /\ d < cursor + 1 => place[d] # -1
        BY <3>2, <2>1, <1>6
      <4>. QED  BY <4>1, <4>2, <4>3
    <3>. QED  BY <3>1, <3>2
  <2>4. ASSUME NEW j \in 1 .. Len(branches)
        PROVE  branches[j].item < cursor + 1
    <3>1. branches[j].item < cursor
      BY <2>1
    <3>2. branches[j].item \in 1 .. Len(items)
      BY <1>0, BranchFacts
    <3>. QED  BY <3>1, <3>2, <1>6
  <2>. QED  BY <2>1, <2>2, <2>3, <2>4, <1>7
<1>13. ShortInv'
  BY <1>2, <1>7, ShortUnmoved
<1>14. SecondInv'
  <2>. SUFFICES ASSUME write
                PROVE  /\ up <= measured[cursor + 1]
                       /\ \A d \in 1 .. Len(items) : place'[d] # -1 =>
                             /\ d < cursor + 1 /\ IsPlace(items[d]) /\ place'[d] % BlockAlign = 0
                             /\ up - place'[d] <= measured[cursor + 1] - measured[d + 1]
    BY <1>2, <1>5, <1>7 DEF SecondInv
  <2>1. n <= measured[cursor]
    BY <1>0, <1>2 DEF SecondInv
  <2>2. measured[cursor + 1] = AlignUp(measured[cursor], BlockAlign)
    BY <1>7, <1>8
  <2>3. up <= measured[cursor + 1]
    BY <2>1, <2>2, <1>1, <1>6, AlignUpMonotone DEF up
  <2>4. ASSUME NEW d \in 1 .. Len(items), place'[d] # -1
        PROVE  /\ d < cursor + 1 /\ IsPlace(items[d]) /\ place'[d] % BlockAlign = 0
               /\ up - place'[d] <= measured[cursor + 1] - measured[d + 1]
    <3>1. CASE d = cursor
      <4>1. measured[cursor + 1] \in Nat
        BY <1>1, <1>6, Zenon
      <4>2. up - up <= measured[cursor + 1] - measured[cursor + 1] /\ cursor < cursor + 1
        BY <4>1, <1>3, <1>6
      <4>. QED  BY <4>2, <3>1, <1>2, <1>4, <1>9
    <3>2. CASE d # cursor
      <4>1. place'[d] = place[d] /\ place[d] # -1
        BY <3>2, <2>4, <1>9
      <4>2. /\ d < cursor /\ IsPlace(items[d]) /\ place[d] % BlockAlign = 0
            /\ n - place[d] <= measured[cursor] - measured[d + 1]
        BY <4>1, <1>0, <1>2 DEF SecondInv
      <4>3. measured[d] \in Nat /\ measured[d + 1] \in Nat /\ place[d] \in Int
        <5>1. d \in 1 .. Len(items) + 1 /\ d + 1 \in 1 .. Len(items) + 1
          BY <1>1
        <5>. QED  BY <5>1, <1>0, <1>1, TypeFacts, Zenon
      <4>4. measured[d + 1] % BlockAlign = 0
        <5>1. measured[d + 1] = AlignUp(measured[d], BlockAlign)
          BY <4>2, <1>0 DEF MeasureInv, MeasuredNext
        <5>. QED  BY <5>1, <4>3, <1>1, AlignUpAligned
      <4>5. measured[cursor] \in Int /\ n \in Int /\ measured[d + 1] \in Int
        BY <4>3, <1>1, <1>6
      <4>. HIDE DEF n
      <4>6. AlignUp(n, BlockAlign) - place[d] <= AlignUp(measured[cursor], BlockAlign) - measured[d + 1]
        BY <4>2, <4>3, <4>4, <4>5, <1>1, AlignUpDistance, Zenon
      <4>7. d < cursor + 1
        BY <4>2, <1>6
      <4>. QED  BY <4>1, <4>2, <4>6, <4>7, <2>2 DEF up
    <3>. QED  BY <3>1, <3>2
  <2>. QED  BY <2>3, <2>4
<1>. QED  BY <1>10, <1>11, <1>12, <1>13, <1>14 DEF LayoutInv

\* What is left to show once an item of code is behind: types and the first run.
LEMMA AfterCode ==
  ASSUME LayoutInv, phase = "walk", cursor \in 1 .. Len(items), ~IsPlace(items[cursor]),
         cursor' = cursor + 1, UNCHANGED <<items, write, place, phase>>,
         pool' \in PoolType, pool'.instrPage = 0, pool'.error = "none", pool'.nextInstr <= PageSize,
         measured' \in [1 .. Len(items) + 1 -> Nat],
         \A k \in 1 .. cursor : measured'[k] = measured[k],
         ~write => pool'.nextInstr = measured'[cursor + 1],
         MeasureInv', ShortInv', SecondInv',
         short' \subseteq 1 .. Len(items), ~write => short' \subseteq 1 .. cursor,
         branches' \in Seq([item : 1 .. Len(items), at : Nat, ilen : Nat]),
         ~write => \A j \in 1 .. Len(branches') :
                      /\ branches'[j].item < cursor + 1 /\ items[branches'[j].item].kind = "branch"
                      /\ items[branches'[j].item].dst > branches'[j].item
  PROVE  LayoutInv'
<1>0. TypeInv /\ LayoutTypeOK /\ FirstInv
  BY DEF LayoutInv, TypeInv
<1>1. /\ Len(items) \in Nat /\ cursor \in Nat /\ cursor + 1 \in 1 .. Len(items) + 1
      /\ place \in [1 .. Len(items) -> Nat \union {-1}] /\ PageSize \in Nat
  <2>1. Len(items) \in Nat /\ PageSize \in Nat /\ place \in [1 .. Len(items) -> Nat \union {-1}]
    BY <1>0, TypeFacts
  <2>. QED  BY <2>1
<1>2. TypeInv'
  <2>1. pool'.nextInstr <= pool'.instrPage + PageSize
    BY <1>1
  <2>2. LayoutTypeOK'
    BY <2>1, <1>0, <1>1, Zenon DEF LayoutTypeOK, PoolType
  <2>. QED  BY <2>2, <1>0 DEF TypeInv
<1>3. FirstInv'
  <2>. SUFFICES ASSUME ~write
                PROVE  /\ short' \subseteq 1 .. cursor
                       /\ \A d \in 1 .. Len(items) :
                             /\ place[d] # -1 => d < cursor + 1 /\ place[d] = measured'[d + 1]
                             /\ IsPlace(items[d]) /\ d < cursor + 1 => place[d] # -1
    BY <1>1 DEF FirstInv
  <2>1. \A d \in 1 .. Len(items) :
              /\ place[d] # -1 => d < cursor /\ place[d] = measured[d + 1]
              /\ IsPlace(items[d]) /\ d < cursor => place[d] # -1
    BY <1>0, Zenon DEF FirstInv
  <2>2. ASSUME NEW d \in 1 .. Len(items), place[d] # -1
        PROVE  d < cursor + 1 /\ place[d] = measured'[d + 1]
    <3>1. d < cursor /\ place[d] = measured[d + 1]
      BY <2>2, <2>1
    <3>2. d + 1 \in 1 .. cursor /\ d < cursor + 1
      BY <3>1, <1>1
    <3>. QED  BY <3>1, <3>2
  <2>3. ASSUME NEW d \in 1 .. Len(items), IsPlace(items[d]), d < cursor + 1
        PROVE  place[d] # -1
    <3>1. d # cursor
      BY <2>3
    <3>2. d < cursor
      BY <3>1, <2>3, <1>1
    <3>. QED  BY <3>2, <2>3, <2>1
  <2>. QED  BY <2>2, <2>3, Zenon
<1>. QED  BY <1>2, <1>3 DEF LayoutInv

\* The region being full ends the first run, never the second one.
LEMMA Failed ==
  ASSUME LayoutInv, ~write, NEW size \in Nat \ {0}, pool.nextInstr + size > PageSize,
         pool' = AllocCode(pool, size), phase' = "failed",
         UNCHANGED <<items, write, cursor, place, branches, short, measured>>
  PROVE  LayoutInv'
<1>0. TypeInv /\ LayoutTypeOK /\ MeasureInv /\ ShortInv
  BY DEF LayoutInv, TypeInv
<1>1. pool'.error # "none" /\ pool'.instrPage = 0 /\ pool'.nextInstr = pool.nextInstr /\ pool' \in PoolType
  BY <1>0, AllocCodeFacts
<1>2. pool'.nextInstr <= pool'.instrPage + PageSize
  BY <1>0, <1>1, TypeFacts
<1>3. TypeInv'
  <2>1. LayoutTypeOK'
    BY <1>0, <1>1, <1>2, Zenon DEF LayoutTypeOK, PoolType
  <2>. QED  BY <2>1, <1>0, <1>1 DEF TypeInv
<1>4. MeasureInv' /\ FirstInv' /\ SecondInv'
  BY <1>0 DEF MeasureInv, FirstInv, SecondInv
<1>5. ShortInv'
  BY <1>0 DEF ShortInv
<1>. QED  BY <1>3, <1>4, <1>5 DEF LayoutInv

\* The branches that wait in the first run still do.
LEMMA WaitingFacts ==
  ASSUME LayoutInv, ~write, phase = "walk", cursor \in 1 .. Len(items), NEW j \in 1 .. Len(branches)
  PROVE  /\ branches[j].item < cursor + 1 /\ items[branches[j].item].kind = "branch"
         /\ items[branches[j].item].dst > branches[j].item
<1>0. TypeInv /\ FirstInv
  BY DEF LayoutInv
<1>1. /\ branches[j].item < cursor /\ items[branches[j].item].kind = "branch"
      /\ items[branches[j].item].dst > branches[j].item
  BY <1>0 DEF FirstInv
<1>2. branches[j].item \in 1 .. Len(items) /\ Len(items) \in Nat
  BY <1>0, BranchFacts, TypeFacts, Zenon
<1>. QED  BY <1>1, <1>2

\* An item of code that is neither a branch nor looked at again.
LEMMA PlainStep ==
  ASSUME LayoutInv, phase = "walk", cursor \in 1 .. Len(items), ~IsPlace(items[cursor]),
         NEW size \in Nat, size = Bytes(cursor),
         pool' = [pool EXCEPT !.nextInstr = @ + size], pool.nextInstr + size <= PageSize,
         Advance(pool'.nextInstr), UNCHANGED <<items, write, place, phase, branches, short>>
  PROVE  LayoutInv'
<1>0. TypeInv /\ LayoutTypeOK /\ FirstInv
  BY DEF LayoutInv, TypeInv
<1>1. /\ measured' \in [1 .. Len(items) + 1 -> Nat] /\ cursor' = cursor + 1
      /\ pool'.nextInstr = pool.nextInstr + size /\ pool'.instrPage = 0 /\ pool'.error = "none"
      /\ pool' \in PoolType
      /\ \A k \in 1 .. cursor : measured'[k] = measured[k]
      /\ ~write => pool'.nextInstr = measured'[cursor + 1]
      /\ MeasureInv' /\ SecondInv'
  <2>1. size <= Bytes(cursor)
    OBVIOUS
  <2>. QED  BY <2>1, CodeAdvance, Zenon
<1>2. ShortInv'
  BY <1>1, ShortUnmoved DEF Advance
<1>3. short \subseteq 1 .. Len(items) /\ (~write => short \subseteq 1 .. cursor)
  <2>1. cursor \in Nat
    BY <1>0, TypeFacts
  <2>. QED  BY <2>1, <1>0 DEF LayoutTypeOK, FirstInv
<1>4. branches \in Seq([item : 1 .. Len(items), at : Nat, ilen : Nat])
  BY <1>0 DEF TypeInv
<1>5. ~write => \A j \in 1 .. Len(branches) :
                   /\ branches[j].item < cursor + 1 /\ items[branches[j].item].kind = "branch"
                   /\ items[branches[j].item].dst > branches[j].item
  BY WaitingFacts
<1>. QED  BY <1>1, <1>2, <1>3, <1>4, <1>5, AfterCode

\* Code of one item gets memory, or the pool is full.
LEMMA AllocateStep ==
  ASSUME LayoutInv, phase = "walk", cursor \in 1 .. Len(items), ~IsPlace(items[cursor]),
         NEW size \in Nat \ {0}, size = Bytes(cursor), Allocate(size),
         UNCHANGED <<items, write, place, branches, short>>
  PROVE  LayoutInv'
<1>0. TypeInv
  BY DEF LayoutInv
<1>1. pool' = AllocCode(pool, size) /\ PageSize \in Nat /\ pool.nextInstr \in Nat
  BY <1>0, TypeFacts DEF Allocate
<1>2. CASE pool.nextInstr + size <= PageSize
  <2>1. pool' = [pool EXCEPT !.nextInstr = @ + size]
    BY <1>0, <1>1, <1>2, AllocCodeFacts
  <2>2. pool'.error = "none"
    <3>1. pool \in PoolType /\ pool.error = "none" /\ pool.nextInstr + size \in Nat
      BY <1>0, <1>1, TypeFacts DEF TypeInv
    <3>. QED  BY <3>1, <2>1, PoolMove
  <2>3. Advance(pool'.nextInstr) /\ UNCHANGED phase
    BY <2>2 DEF Allocate
  <2>4. size \in Nat
    OBVIOUS
  <2>. QED  BY <2>1, <2>3, <2>4, <1>2, PlainStep
<1>3. CASE ~(pool.nextInstr + size <= PageSize)
  <2>1. ~write
    BY <1>3, MeasuredRoom
  <2>2. pool.nextInstr + size > PageSize
    BY <1>1, <1>3
  <2>3. pool'.error # "none"
    BY <2>2, <1>0, <1>1, AllocCodeFacts
  <2>4. phase' = "failed" /\ UNCHANGED <<cursor, measured>>
    BY <2>3 DEF Allocate
  <2>. QED  BY <2>1, <2>2, <2>4, <1>1, Failed
<1>. QED  BY <1>2, <1>3

\* An instruction is copied or encoded.
LEMMA InstructionStep == LayoutInv /\ HandleInstruction => LayoutInv'
<1>. SUFFICES ASSUME LayoutInv, HandleInstruction PROVE LayoutInv'
  OBVIOUS
<1>1. phase = "walk" /\ cursor \in 1 .. Len(items) /\ items[cursor].kind = "instr"
  BY DEF HandleInstruction, Walking
<1>2. items[cursor].size \in Nat \ {0}
  BY <1>1, ItemFacts, Zenon DEF LayoutInv, TypeInv
<1>3. items[cursor].size = Bytes(cursor) /\ ~IsPlace(items[cursor])
  BY <1>1 DEF Bytes, IsPlace
<1>. QED  BY <1>1, <1>2, <1>3, AllocateStep DEF HandleInstruction

\* A call is written to be fixed up later.
LEMMA CallStep == LayoutInv /\ HandleCall => LayoutInv'
<1>. SUFFICES ASSUME LayoutInv, HandleCall PROVE LayoutInv'
  OBVIOUS
<1>1. phase = "walk" /\ cursor \in 1 .. Len(items) /\ items[cursor].kind = "call"
  BY DEF HandleCall, Walking
<1>2. CallIlen \in Nat \ {0} /\ CallIlen = Bytes(cursor) /\ ~IsPlace(items[cursor])
  BY <1>1 DEF Bytes, IsPlace, CallIlen
<1>. QED  BY <1>1, <1>2, AllocateStep DEF HandleCall

\* At the end of a function its branches are fixed up.
LEMMA EndFunctionStep == LayoutInv /\ EndFunction => LayoutInv'
<1>. SUFFICES ASSUME LayoutInv, EndFunction PROVE LayoutInv'
  OBVIOUS
<1>0. TypeInv
  BY DEF LayoutInv
<1>1. phase = "walk" /\ cursor \in 1 .. Len(items) /\ items[cursor].kind = "end"
  BY DEF EndFunction, Walking
<1>2. 0 = Bytes(cursor) /\ ~IsPlace(items[cursor])
  BY <1>1 DEF Bytes, IsPlace
<1>3. pool \in PoolType /\ pool.nextInstr \in Nat /\ pool.nextInstr <= PageSize /\ PageSize \in Nat
  BY <1>0, TypeFacts
<1>4. pool' = [pool EXCEPT !.nextInstr = @ + 0] /\ pool.nextInstr + 0 <= PageSize
  BY <1>3 DEF EndFunction, PoolType
<1>5. Advance(pool'.nextInstr) /\ UNCHANGED <<items, write, place, phase, branches, short>>
  BY DEF EndFunction
<1>. QED  BY <1>1, <1>2, <1>4, <1>5, PlainStep

\* arch_prepare_branch(), and arch_fixup_branch() if the target is known.
LEMMA BranchStep == LayoutInv /\ HandleBranch => LayoutInv'
<1>. SUFFICES ASSUME LayoutInv, HandleBranch PROVE LayoutInv'
  OBVIOUS
<1>. DEFINE size == BranchIlen(cursor)
           b == Location(cursor, size)
           next == AllocCode(pool, size)
           dst == items[cursor].dst
<1>0. TypeInv /\ LayoutTypeOK /\ MeasureInv /\ FirstInv /\ ShortInv /\ SecondInv
  BY DEF LayoutInv, TypeInv
<1>1. /\ phase = "walk" /\ cursor \in 1 .. Len(items) /\ items[cursor].kind = "branch"
      /\ UNCHANGED <<items, write, place>>
  BY DEF HandleBranch, Walking
<1>2. /\ Len(items) \in Nat /\ cursor \in Nat /\ PageSize \in Nat /\ pool.nextInstr \in Nat
      /\ measured \in [1 .. Len(items) + 1 -> Nat] /\ measured[cursor] \in Nat
      /\ branches \in Seq([item : 1 .. Len(items), at : Nat, ilen : Nat])
      /\ short \subseteq 1 .. Len(items)
  <2>1. cursor \in 1 .. Len(items) + 1
    BY <1>0 DEF LayoutTypeOK
  <2>. QED  BY <2>1, <1>0, TypeFacts, Zenon DEF TypeInv, LayoutTypeOK
<1>3. /\ ~IsPlace(items[cursor]) /\ Bytes(cursor) = LongIlen[items[cursor].class]
      /\ dst \in 1 .. Len(items) /\ IsPlace(items[dst])
  BY <1>0, <1>1, ItemFacts DEF IsPlace, Bytes
<1>4. size \in Nat \ {0} /\ size <= Bytes(cursor) /\ (~write => size = Bytes(cursor))
  <2>1. LongIlen[items[cursor].class] \in Nat \ {0} /\ ShortIlen[items[cursor].class] \in Nat \ {0}
        /\ ShortIlen[items[cursor].class] <= LongIlen[items[cursor].class]
    BY <1>0, <1>1, ItemFacts
  <2>2. ~write => cursor \notin short
    BY <1>0, <1>1, <1>2 DEF FirstInv
  <2>. QED  BY <2>1, <2>2, <1>3 DEF BranchIlen
<1>5. b = [item |-> cursor, at |-> pool.nextInstr, ilen |-> size] /\ b.ilen = size
  BY DEF Location
<1>. DEFINE ok == next.error = "none" /\ (write /\ Known(cursor) => AssertedShort(b, place[dst]))
<1>5a. /\ pool' = next
       /\ IF next.error = "none" /\ Known(cursor) THEN FixupBranch(b, place[dst]) ELSE UNCHANGED <<short, landed>>
       /\ branches' = IF next.error = "none" /\ ~Known(cursor) THEN Append(branches, b) ELSE branches
       /\ IF ok THEN Advance(next.nextInstr) /\ UNCHANGED phase
          ELSE phase' = "failed" /\ UNCHANGED <<code, cursor, measured>>
  BY <1>5, Zenon DEF HandleBranch
<1>. HIDE DEF size, b
<1>6. CASE ~(pool.nextInstr + size <= PageSize)
  <2>1. ~write
    BY <1>1, <1>3, <1>4, <1>6, MeasuredRoom
  <2>2. pool.nextInstr + size > PageSize
    BY <1>2, <1>4, <1>6
  <2>3. next.error # "none"
    BY <2>2, <1>0, <1>4, AllocCodeFacts
  <2>4. pool' = next /\ phase' = "failed" /\ UNCHANGED <<short, branches, cursor, measured>>
    BY <2>3, <1>5a
  <2>. QED  BY <2>1, <2>2, <2>4, <1>1, <1>4, Failed
<1>7. CASE pool.nextInstr + size <= PageSize
  <2>1. next = [pool EXCEPT !.nextInstr = @ + size] /\ pool' = next
    BY <1>0, <1>4, <1>5a, <1>7, AllocCodeFacts
  <2>2. next.error = "none" /\ next.nextInstr = pool.nextInstr + size /\ next.instrPage = 0 /\ next \in PoolType
    <3>1. pool \in PoolType /\ pool.error = "none" /\ pool.instrPage = 0 /\ pool.nextInstr + size \in Nat
      BY <1>0, <1>1, <1>2, <1>4, TypeFacts DEF TypeInv
    <3>. QED  BY <3>1, <2>1, PoolMove
  <2>3. /\ Known(cursor) => FixupBranch(b, place[dst]) /\ branches' = branches
        /\ ~Known(cursor) => UNCHANGED short /\ branches' = Append(branches, b)
    BY <2>2, <1>5a
  <2>4. \/ Advance(next.nextInstr) /\ UNCHANGED phase
        \/ write /\ phase' = "failed" /\ UNCHANGED <<cursor, measured>>
    BY <2>2, <1>5a
  <2>5. branches' \in Seq([item : 1 .. Len(items), at : Nat, ilen : Nat])
    <3>1. b \in [item : 1 .. Len(items), at : Nat, ilen : Nat]
      BY <1>1, <1>2, <1>4, <1>5
    <3>2. Append(branches, b) \in Seq([item : 1 .. Len(items), at : Nat, ilen : Nat])
      BY <3>1, <1>2, AppendProperties, Zenon
    <3>. QED  BY <3>2, <2>3, <1>2, Zenon
  <2>6. /\ write => short' = short
        /\ short' \subseteq short \union {cursor}
    BY <2>3, <1>5 DEF FixupBranch
  <2>7. short' \subseteq 1 .. Len(items)
    BY <2>6, <1>1, <1>2
  <2>8. CASE write /\ phase' = "failed" /\ UNCHANGED <<cursor, measured>>
    <3>1. pool'.nextInstr <= pool'.instrPage + PageSize
      BY <2>1, <2>2, <1>2, <1>7
    <3>2. LayoutTypeOK'
      BY <3>1, <2>1, <2>2, <2>7, <2>8, <1>0, <1>1, Zenon DEF LayoutTypeOK, PoolType
    <3>3. TypeInv'
      BY <3>2, <2>1, <2>2, <2>5, <2>8, <1>0, <1>1 DEF TypeInv
    <3>4. MeasureInv'
      BY <2>8, <1>0, <1>1 DEF MeasureInv, MeasuredNext, Bytes
    <3>5. ShortInv'
      BY <2>6, <2>8, <1>0, <1>1 DEF ShortInv
    <3>6. FirstInv' /\ SecondInv'
      BY <2>8, <1>1 DEF FirstInv, SecondInv
    <3>. QED  BY <3>3, <3>4, <3>5, <3>6 DEF LayoutInv
  <2>9. CASE Advance(next.nextInstr) /\ UNCHANGED phase
    <3>1. /\ measured' \in [1 .. Len(items) + 1 -> Nat] /\ cursor' = cursor + 1
          /\ pool'.nextInstr = pool.nextInstr + size /\ pool'.instrPage = 0 /\ pool'.error = "none"
          /\ pool' \in PoolType
          /\ \A k \in 1 .. cursor : measured'[k] = measured[k]
          /\ ~write => pool'.nextInstr = measured'[cursor + 1]
          /\ MeasureInv' /\ SecondInv'
      <4>1. size \in Nat
        BY <1>4
      <4>. QED  BY <4>1, <2>1, <2>9, <1>1, <1>3, <1>4, <1>7, CodeAdvance, Zenon
    <3>2. write => measured' = measured
      BY <2>9 DEF Advance
    <3>3. ShortInv'
      <4>1. CASE short' = short
        BY <4>1, <3>1, <3>2, <1>1, ShortUnmoved
      <4>2. CASE short' # short
        <5>1. ~write /\ Known(cursor) /\ Remembered(b, place[dst]) /\ short' = short \union {cursor}
          BY <4>2, <2>3, <1>5 DEF FixupBranch
        <5>2. place[dst] = measured[dst + 1] /\ dst < cursor
          BY <5>1, <1>0, <1>1, <1>3 DEF FirstInv, Known
        <5>3. dst + 1 \in 1 .. cursor /\ cursor \in 1 .. cursor
          BY <5>2, <1>1, <1>2, <1>3
        <5>4. pool.nextInstr = measured[cursor]
          BY <5>1, <1>0, <1>1 DEF FirstInv
        <5>5. place[dst] - (pool.nextInstr + ShortIlen[items[cursor].class]) >= -128
          <6>1. place[dst] - (pool.nextInstr + ShortIlen[items[cursor].class]) \in -128 .. 127
            BY <5>1, <1>5 DEF Remembered, IsRel8
          <6>. QED  BY <6>1
        <5>6. measured'[dst + 1] - (measured'[cursor] + ShortIlen[items[cursor].class]) >= -128
          BY <5>2, <5>3, <5>4, <5>5, <3>1
        <5>7. ASSUME NEW k \in short, items[k].dst < k
              PROVE  measured'[items[k].dst + 1] - (measured'[k] + ShortIlen[items[k].class]) >= -128
          <6>1. k \in 1 .. cursor - 1
            BY <5>1, <1>0, <1>1 DEF FirstInv
          <6>2. items[k].dst \in 1 .. Len(items)
            <7>1. k \in 1 .. Len(items) /\ items[k].kind = "branch"
              BY <1>0, <1>2 DEF ShortInv
            <7>. QED  BY <7>1, <1>0, ItemFacts
          <6>3. k \in 1 .. cursor /\ items[k].dst + 1 \in 1 .. cursor
            <7>. DEFINE e == items[k].dst
            <7>1. e \in Nat /\ e >= 1 /\ e < k
              BY <6>2, <5>7, <1>2
            <7>. HIDE DEF e
            <7>2. k \in 1 .. cursor /\ e + 1 \in 1 .. cursor
              BY <7>1, <6>1, <1>2
            <7>. QED  BY <7>2 DEF e
          <6>4. measured[items[k].dst + 1] - (measured[k] + ShortIlen[items[k].class]) >= -128
            BY <5>7, <1>0 DEF ShortInv
          <6>. QED  BY <6>3, <6>4, <3>1
        <5>8. \A k \in short : items[k].kind = "branch"
          BY <1>0 DEF ShortInv
        <5>. QED  BY <5>1, <5>6, <5>7, <5>8, <1>1 DEF ShortInv
      <4>. QED  BY <4>1, <4>2
    <3>4. ~write => short' \subseteq 1 .. cursor
      BY <2>6, <1>0, <1>1, <1>2 DEF FirstInv
    <3>5. ASSUME ~write, NEW j \in 1 .. Len(branches')
          PROVE  /\ branches'[j].item < cursor + 1 /\ items[branches'[j].item].kind = "branch"
                 /\ items[branches'[j].item].dst > branches'[j].item
      <4>1. CASE Known(cursor)
        BY <4>1, <3>5, <2>3, <1>1, WaitingFacts
      <4>2. CASE ~Known(cursor)
        <5>1. /\ Len(branches') = Len(branches) + 1 /\ branches'[Len(branches) + 1] = b
              /\ \A i \in 1 .. Len(branches) : branches'[i] = branches[i]
          <6>1. branches' = Append(branches, b) /\ b \in [item : 1 .. Len(items), at : Nat, ilen : Nat]
            BY <4>2, <2>3, <1>1, <1>2, <1>4, <1>5
          <6>. QED  BY <6>1, <1>2
        <5>2. CASE j \in 1 .. Len(branches)
          BY <5>1, <5>2, <3>5, <1>1, WaitingFacts
        <5>3. CASE j = Len(branches) + 1
          <6>1. branches'[j].item = cursor
            BY <5>1, <5>3, <1>5
          <6>2. place[dst] = -1
            BY <4>2 DEF Known
          <6>3. ~(dst < cursor) /\ dst # cursor
            BY <6>2, <3>5, <1>0, <1>1, <1>3 DEF FirstInv
          <6>4. dst > cursor /\ cursor < cursor + 1
            BY <6>3, <1>2, <1>3
          <6>. QED  BY <6>1, <6>4, <1>1
        <5>4. Len(branches) \in Nat
          BY <1>2
        <5>. QED  BY <5>1, <5>2, <5>3, <5>4
      <4>. QED  BY <4>1, <4>2
    <3>6. pool'.nextInstr <= PageSize
      BY <3>1, <1>7
    <3>. QED  BY <3>1, <3>3, <3>4, <3>5, <3>6, <2>5, <2>7, <2>9, <1>1, <1>3, AfterCode
  <2>. QED  BY <2>4, <2>8, <2>9
<1>. QED  BY <1>6, <1>7

\* A branch forward that is fixed up at the end of its function.
LEMMA FixupStep == LayoutInv /\ FixupNext => LayoutInv'
<1>. SUFFICES ASSUME LayoutInv, FixupNext PROVE LayoutInv'
  OBVIOUS
<1>. DEFINE b == Head(branches)
           T == [item : 1 .. Len(items), at : Nat, ilen : Nat]
<1>0. TypeInv /\ LayoutTypeOK /\ MeasureInv /\ FirstInv /\ ShortInv /\ SecondInv
  BY DEF LayoutInv, TypeInv
<1>1. /\ phase = "walk" /\ cursor \in 1 .. Len(items) /\ branches # <<>> /\ branches' = Tail(branches)
      /\ UNCHANGED <<items, pool, write, cursor, place, measured>>
      /\ phase' \in {"walk", "failed"}
  BY DEF FixupNext, Walking
<1>2. /\ branches \in Seq(T) /\ Len(branches) \in Nat /\ Len(branches) >= 1 /\ b = branches[1]
      /\ Tail(branches) \in Seq(T) /\ Len(Tail(branches)) = Len(branches) - 1
      /\ \A j \in 1 .. Len(Tail(branches)) : Tail(branches)[j] = branches[j + 1]
  <2>1. branches \in Seq(T)
    BY <1>0 DEF TypeInv
  <2>2. Len(branches) \in Nat /\ Len(branches) >= 1
    BY <2>1, <1>1, EmptySeq
  <2>. QED  BY <2>1, <2>2, <1>1, HeadTailProperties
<1>3. b.item \in 1 .. Len(items)
  BY <1>0, <1>2, BranchFacts
<1>4. ~write => items[b.item].kind = "branch" /\ items[b.item].dst > b.item /\ b.item < cursor
  BY <1>0, <1>1, <1>2 DEF FirstInv
<1>5. short' \subseteq short \union {b.item} /\ (write => short' = short)
  BY DEF FixupNext, FixupBranch
<1>. HIDE DEF b
<1>6. short' \subseteq 1 .. Len(items)
  BY <1>0, <1>3, <1>5 DEF LayoutTypeOK
<1>7. TypeInv'
  <2>1. LayoutTypeOK'
    BY <1>0, <1>1, <1>6 DEF LayoutTypeOK
  <2>. QED  BY <2>1, <1>0, <1>1, <1>2 DEF TypeInv
<1>8. MeasureInv' /\ SecondInv'
  BY <1>0, <1>1 DEF MeasureInv, MeasuredNext, Bytes, SecondInv
<1>9. ShortInv'
  <2>1. \A k \in short : /\ items[k].kind = "branch"
                         /\ items[k].dst < k =>
                               measured[items[k].dst + 1] - (measured[k] + ShortIlen[items[k].class]) >= -128
    BY <1>0 DEF ShortInv
  <2>2. ~write => ~(items[b.item].dst < b.item)
    <3>1. ~write => items[b.item].dst \in 1 .. Len(items)
      BY <1>0, <1>3, <1>4, ItemFacts
    <3>2. Len(items) \in Nat
      BY <1>0, TypeFacts
    <3>. QED  BY <3>1, <3>2, <1>3, <1>4
  <2>. QED  BY <2>1, <2>2, <1>1, <1>4, <1>5 DEF ShortInv
<1>10. FirstInv'
  <2>. SUFFICES ASSUME ~write, phase' = "walk"
                PROVE  /\ short' \subseteq 1 .. cursor - 1
                       /\ \A j \in 1 .. Len(branches') :
                             /\ branches'[j].item < cursor /\ items[branches'[j].item].kind = "branch"
                             /\ items[branches'[j].item].dst > branches'[j].item
    BY <1>0, <1>1 DEF FirstInv
  <2>1. cursor \in Nat /\ Len(items) \in Nat
    BY <1>0, TypeFacts
  <2>2. short' \subseteq 1 .. cursor - 1
    <3>1. b.item \in 1 .. cursor - 1
      BY <2>1, <1>3, <1>4
    <3>. QED  BY <3>1, <1>0, <1>1, <1>5 DEF FirstInv
  <2>3. ASSUME NEW j \in 1 .. Len(branches')
        PROVE  /\ branches'[j].item < cursor /\ items[branches'[j].item].kind = "branch"
               /\ items[branches'[j].item].dst > branches'[j].item
    <3>1. branches'[j] = branches[j + 1] /\ j + 1 \in 1 .. Len(branches)
      BY <1>1, <1>2
    <3>. QED  BY <3>1, <1>0, <1>1 DEF FirstInv
  <2>. QED  BY <2>2, <2>3
<1>. QED  BY <1>7, <1>8, <1>9, <1>10 DEF LayoutInv

\* resetCodePool() and the beginning of a run.
LEMMA StartStep == LayoutInv /\ StartRun => LayoutInv'
<1>. SUFFICES ASSUME LayoutInv, StartRun PROVE LayoutInv'
  OBVIOUS
<1>0. TypeInv /\ LayoutTypeOK /\ MeasureInv /\ FirstInv /\ ShortInv
  BY DEF LayoutInv, TypeInv
<1>1. /\ phase \in {"passes", "again"} /\ cursor' = 1 /\ phase' = "walk" /\ place' = Fresh
      /\ UNCHANGED <<items, write, branches, short, measured>>
  BY DEF StartRun
<1>2. pool \in PoolType /\ pool.error = "none" /\ PageSize \in Nat /\ Len(items) \in Nat
  BY <1>0, <1>1, TypeFacts DEF TypeInv
<1>3. pool' \in PoolType /\ pool'.error = "none" /\ pool'.nextInstr = 0 /\ pool'.instrPage = 0
  <2>1. pool' = [pool EXCEPT !.instrPage = 0, !.nextInstr = 0]
    BY DEF StartRun, ResetCodePool
  <2>. QED  BY <2>1, <1>2, PoolReset, Zenon
<1>4. /\ place' \in [1 .. Len(items) -> Nat \union {-1}]
      /\ \A d \in 1 .. Len(items) : place'[d] = -1
  BY <1>1 DEF Fresh
<1>5. TypeInv'
  <2>1. pool'.nextInstr <= pool'.instrPage + PageSize /\ 1 \in 1 .. Len(items) + 1
    BY <1>2, <1>3
  <2>2. LayoutTypeOK'
    BY <2>1, <1>0, <1>1, <1>3, <1>4 DEF LayoutTypeOK, PoolType
  <2>. QED  BY <2>2, <1>0, <1>1, <1>3 DEF TypeInv
<1>6. MeasureInv'
  BY <1>0, <1>1, <1>2 DEF MeasureInv, MeasuredNext, Bytes
<1>7. FirstInv'
  <2>1. ~write => phase = "passes"
    BY <1>0, <1>1 DEF TypeInv
  <2>2. ~write => short = {} /\ Len(branches) = 0
    BY <2>1, <1>0 DEF FirstInv
  <2>. QED  BY <2>2, <1>0, <1>1, <1>2, <1>3, <1>4 DEF FirstInv, MeasureInv
<1>8. ShortInv'
  BY <1>0, <1>1 DEF ShortInv
<1>9. SecondInv'
  BY <1>0, <1>1, <1>3, <1>4 DEF SecondInv, MeasureInv
<1>. QED  BY <1>5, <1>6, <1>7, <1>8, <1>9 DEF LayoutInv

\* The first run ends with what it measured, the second with the code.
LEMMA EndStep == LayoutInv /\ EndRun => LayoutInv'
<1>. SUFFICES ASSUME LayoutInv, EndRun PROVE LayoutInv'
  OBVIOUS
<1>0. TypeInv /\ LayoutTypeOK /\ MeasureInv /\ ShortInv
  BY DEF LayoutInv, TypeInv
<1>1. /\ phase = "walk" /\ cursor = Len(items) + 1 /\ phase' \in {"done", "again"} /\ write' = TRUE
      /\ UNCHANGED <<items, pool, cursor, place, branches, short, measured>>
  BY DEF EndRun
<1>2. TypeInv'
  <2>1. LayoutTypeOK'
    BY <1>0, <1>1 DEF LayoutTypeOK
  <2>. QED  BY <2>1, <1>0, <1>1 DEF TypeInv
<1>3. MeasureInv'
  <2>1. Len(items) \in Nat
    BY <1>0, TypeFacts
  <2>2. \A k \in 1 .. Len(items) : k < cursor
    BY <2>1, <1>1
  <2>. QED  BY <2>2, <1>0, <1>1 DEF MeasureInv, MeasuredNext, Bytes
<1>4. FirstInv' /\ SecondInv'
  BY <1>1 DEF FirstInv, SecondInv
<1>5. ShortInv'
  BY <1>0, <1>1 DEF ShortInv
<1>. QED  BY <1>2, <1>3, <1>4, <1>5 DEF LayoutInv

\* A constant changes nothing that code generation looks at.
LEMMA ConstantStep ==
  ASSUME LayoutInv, NEW c \in Constants, AddConstant(c)
  PROVE  LayoutInv'
<1>0. TypeInv /\ LayoutTypeOK /\ MeasureInv /\ FirstInv /\ ShortInv
  BY DEF LayoutInv, TypeInv
<1>1. phase = "passes" /\ ~write /\ UNCHANGED <<items, write, cursor, place, branches, short, measured>>
  BY <1>0 DEF AddConstant, TypeInv
<1>2. pool \in PoolType /\ pool.error = "none"
  BY <1>0, <1>1, TypeFacts DEF TypeInv
<1>3. /\ AllocConstant(pool, c.size) \in PoolType
      /\ AllocConstant(pool, c.size).instrPage = pool.instrPage
      /\ AllocConstant(pool, c.size).nextInstr = pool.nextInstr
  <2>1. c.size \in Nat \ {0}
    BY ConstantsAssumption
  <2>2. ConstantAt(pool, c.size) - 1 \in Int /\ NextConstPage(pool) \in Int
    <3>1. pool.nextConst \in Int /\ pool.constPage \in Int
      BY <1>2 DEF PoolType
    <3>2. pool.nextConst - c.size + 1 \in Int
      BY <3>1, <2>1
    <3>3. (pool.nextConst - c.size + 1) % c.size \in Int
      BY <3>2, <2>1
    <3>. QED  BY <3>1, <3>2, <3>3 DEF ConstantAt, AlignDown, NextConstPage
  <2>3. \/ AllocConstant(pool, c.size) = [pool EXCEPT !.nextConst = ConstantAt(pool, c.size) - 1]
        \/ AllocConstant(pool, c.size) = [pool EXCEPT !.error = "full"]
        \/ AllocConstant(pool, c.size) = [pool EXCEPT !.error = "memory"]
        \/ AllocConstant(pool, c.size) = [[pool EXCEPT !.nextConst = ConstantAt(pool, c.size) - 1]
                                           EXCEPT !.constPage = NextConstPage(pool)]
    BY DEF AllocConstant
  <2>. QED  BY <2>2, <2>3, <1>2, Zenon DEF PoolType
<1>4. /\ pool' \in PoolType /\ pool'.instrPage = pool.instrPage /\ pool'.nextInstr = pool.nextInstr
      /\ \/ phase' = "passes" /\ pool'.error = "none"
         \/ phase' = "failed"
  <2>1. CASE UNCHANGED <<pool, consts, phase>>
    BY <2>1, <1>1, <1>2
  <2>2. CASE ~UNCHANGED <<pool, consts, phase>>
    BY <2>2, <1>1, <1>3 DEF AddConstant
  <2>. QED  BY <2>1, <2>2
<1>5. TypeInv'
  <2>1. LayoutTypeOK'
    BY <1>0, <1>1, <1>4, Zenon DEF LayoutTypeOK, PoolType
  <2>. QED  BY <2>1, <1>0, <1>1, <1>4 DEF TypeInv
<1>6. MeasureInv' /\ FirstInv' /\ SecondInv'
  BY <1>0, <1>1, <1>4 DEF MeasureInv, FirstInv, SecondInv
<1>7. ShortInv'
  BY <1>0, <1>1 DEF ShortInv
<1>. QED  BY <1>5, <1>6, <1>7 DEF LayoutInv

\* Steps that leave alone what the invariant is about.
LEMMA SameStep ==
  ASSUME LayoutInv, UNCHANGED <<items, pool, write, cursor, place, branches, short, measured, phase>>
  PROVE  LayoutInv'
BY DEF LayoutInv, TypeInv, LayoutTypeOK, MeasureInv, MeasuredNext, Bytes, FirstInv, ShortInv, SecondInv

\* The invariant is inductive.
LEMMA NextInv == LayoutInv /\ [Next]_vars => LayoutInv'
<1>. SUFFICES ASSUME LayoutInv, [Next]_vars PROVE LayoutInv'
  OBVIOUS
<1>1. CASE FixupCall
  BY <1>1, SameStep DEF FixupCall
<1>2. CASE Stopped \/ UNCHANGED vars
  BY <1>2, SameStep DEF Stopped, vars
<1>3. CASE \E c \in Constants : AddConstant(c)
  BY <1>3, ConstantStep
<1>. QED  BY <1>1, <1>2, <1>3, StartStep, BlockStep, InstructionStep, BranchStep, CallStep,
             FixupStep, EndFunctionStep, EndStep DEF Next, Step

\* Code generation keeps its types, and within the page it may write to.
THEOREM LayoutTypes == Spec => []LayoutTypeOK
<1>1. LayoutInv => LayoutTypeOK
  BY DEF LayoutInv, TypeInv
<1>. QED  BY <1>1, InitInv, NextInv, PTL DEF Spec

\* The second run of code generation is nowhere further than the first one
\* was, whatever branches became short and whatever newBlock() pads.
THEOREM SecondRunNeverLonger == Spec => []NeverLonger
<1>1. LayoutInv => NeverLonger
  BY DEF LayoutInv, SecondInv, NeverLonger
<1>. QED  BY <1>1, InitInv, NextInv, PTL DEF Spec

\* allocCode() and allocConstant() do not fail any more in the second run.
THEOREM SecondRunHasMemory == Spec => []MeasuredSuffices
<1>1. LayoutInv => MeasuredSuffices
  BY DEF LayoutInv, TypeInv, MeasuredSuffices
<1>. QED  BY <1>1, InitInv, NextInv, PTL DEF Spec

\* A branch back that the first run found short reaches its block in the
\* second run: arch_fixup_branch()'s assertion holds for it.
THEOREM BackwardBranchesFit == Spec => []BackwardFits
<1>1. LayoutInv => BackwardFits
  <2>. SUFFICES ASSUME LayoutInv, phase = "walk", write, cursor \in short, Known(cursor)
                PROVE  place[items[cursor].dst] - (pool.nextInstr + ShortIlen[items[cursor].class]) >= -128
    BY DEF BackwardFits
  <2>. DEFINE d == items[cursor].dst
             n == ShortIlen[items[cursor].class]
  <2>0. TypeInv /\ LayoutTypeOK /\ ShortInv /\ SecondInv
    BY DEF LayoutInv, TypeInv
  <2>1. cursor \in 1 .. Len(items) /\ Len(items) \in Nat /\ items[cursor].kind = "branch"
    BY <2>0, TypeFacts DEF LayoutTypeOK, ShortInv
  <2>2. d \in 1 .. Len(items) /\ n \in Nat
    BY <2>0, <2>1, ItemFacts
  <2>3. d < cursor /\ pool.nextInstr - place[d] <= measured[cursor] - measured[d + 1]
    BY <2>0, <2>2 DEF SecondInv, Known
  <2>4. measured[d + 1] - (measured[cursor] + n) >= -128
    BY <2>0, <2>3 DEF ShortInv
  <2>5. /\ measured[d + 1] \in Int /\ measured[cursor] \in Int /\ place[d] \in Int
        /\ pool.nextInstr \in Int
    <3>1. d + 1 \in 1 .. Len(items) + 1 /\ cursor \in 1 .. Len(items) + 1
      BY <2>1, <2>2
    <3>. QED  BY <3>1, <2>0, <2>2, TypeFacts
  <2>. HIDE DEF d, n
  <2>6. place[d] - (pool.nextInstr + n) >= -128
    BY <2>2, <2>3, <2>4, <2>5, SMTT(30)
  <2>. QED  BY <2>6 DEF d, n
<1>. QED  BY <1>1, InitInv, NextInv, PTL DEF Spec

-----------------------------------------------------------------------------
(***************************************************************************)
(* The pool implements the allocator.                                      *)
(***************************************************************************)

\* Code is below nextInstr in the first page, constants are above nextConst
\* in the last one.
CodeInv == \A r \in code : r.at \in Nat /\ r.size \in Nat \ {0} /\ r.at + r.size <= pool.nextInstr
ConstInv ==
    /\ pool.constPage = MmapSize - PageSize /\ pool.nextConst < MmapSize
    /\ \A c \in consts : /\ c.at \in Nat /\ c.size \in Nat \ {0}
                         /\ pool.nextConst < c.at /\ pool.constPage <= c.at /\ c.at + c.size <= MmapSize
PoolInv == LayoutInv /\ CodeInv /\ ConstInv /\ (phase = "passes" => code = {})

\* A region is its address and its size.
LEMMA RegionFacts ==
  ASSUME NEW at, NEW size
  PROVE  Region(at, size).at = at /\ Region(at, size).size = size
BY DEF Region

\* mmap() does not take what allocConstant() asks for (BinaryPool.cpp:153).
LEMMA NoConstPage ==
  ASSUME pool.constPage = MmapSize - PageSize
  PROVE  ~CanMap(NextConstPage(pool))
<1>. DEFINE x == MmapSize - PageSize - 1
<1>0. PageSize \in Nat \ {0} /\ PageSize \in Nat \ {0, 1} /\ MmapSize \in Int /\ MmapSize % PageSize = 0
  BY PoolAssumption
<1>. SUFFICES ASSUME x % PageSize = 0 PROVE FALSE
  BY DEF CanMap, NextConstPage
<1>1. PICK q \in Int : MmapSize = PageSize * q
  BY <1>0, Multiple
<1>2. PICK k \in Int : x = PageSize * k
  <2>1. x \in Int
    BY <1>0
  <2>. QED  BY <2>1, <1>0, Multiple
<1>3. PageSize * (q - 1) = PageSize * q - PageSize /\ PageSize * q \in Int /\ PageSize * k \in Int
  BY <1>0
<1>4. PageSize * (q - 1) < PageSize * k + PageSize /\ PageSize * k < PageSize * (q - 2) + PageSize
  <2>1. PageSize * (q - 2) = PageSize * q - PageSize - PageSize
    BY <1>0
  <2>. QED  BY <2>1, <1>0, <1>1, <1>2, <1>3
<1>5. q - 1 <= k /\ k <= q - 2
  <2>1. q - 1 \in Int /\ q - 2 \in Int
    OBVIOUS
  <2>. QED  BY <2>1, <1>0, <1>4, MulLess
<1>. QED  BY <1>5

\* What allocConstant() returns is in the last page and below what it
\* returned before.
LEMMA ConstantFacts ==
  ASSUME PoolInv, NEW c \in Constants, AllocConstant(pool, c.size).error = "none", pool.error = "none"
  PROVE  /\ ConstantAt(pool, c.size) \in Nat /\ pool.constPage <= ConstantAt(pool, c.size)
         /\ ConstantAt(pool, c.size) + c.size <= pool.nextConst + 1
         /\ AllocConstant(pool, c.size).nextConst = ConstantAt(pool, c.size) - 1
         /\ AllocConstant(pool, c.size).constPage = pool.constPage
<1>. DEFINE at == ConstantAt(pool, c.size)
<1>0. /\ pool \in PoolType /\ PageSize \in Nat \ {0} /\ c.size \in Nat \ {0} /\ pool.nextConst \in Int
      /\ pool.constPage = MmapSize - PageSize /\ MmapSize \in Nat /\ MmapSize >= PageSize
  <2>1. pool \in PoolType
    BY TypeFacts DEF PoolInv, LayoutInv
  <2>2. PageSize \in Nat \ {0} /\ MmapSize \in Nat /\ MmapSize >= PageSize
    BY PoolAssumption
  <2>. QED  BY <2>1, <2>2, ConstantsAssumption DEF PoolInv, ConstInv, PoolType
<1>1. at \in Int /\ at <= pool.nextConst - c.size + 1
  <2>1. pool.nextConst - c.size + 1 \in Int
    BY <1>0
  <2>2. PICK q \in Int : /\ AlignDown(pool.nextConst - c.size + 1, c.size) = c.size * q
                         /\ c.size * q <= pool.nextConst - c.size + 1
    BY <2>1, <1>0, AlignDownMultiple, Zenon
  <2>3. c.size * q \in Int
    BY <1>0
  <2>. QED  BY <2>2, <2>3 DEF ConstantAt
<1>. HIDE DEF at
<1>2. AlignDown(at, PageSize) = pool.constPage
  <2>. SUFFICES ASSUME AlignDown(at, PageSize) # pool.constPage PROVE FALSE
    OBVIOUS
  <2>1. ~CanMap(NextConstPage(pool))
    BY <1>0, NoConstPage
  <2>2. \E e \in {"full", "memory"} : AllocConstant(pool, c.size) = [pool EXCEPT !.error = e]
    BY <2>1 DEF AllocConstant, at
  <2>. QED  BY <2>2, <1>0 DEF PoolType
<1>3. AllocConstant(pool, c.size) = [pool EXCEPT !.nextConst = at - 1]
  BY <1>2 DEF AllocConstant, at
<1>4. pool.constPage <= at
  <2>1. PICK q \in Int : AlignDown(at, PageSize) = PageSize * q /\ PageSize * q <= at
    BY <1>0, <1>1, AlignDownMultiple, Zenon
  <2>. QED  BY <2>1, <1>2
<1>5. at \in Nat /\ at + c.size <= pool.nextConst + 1
  BY <1>0, <1>1, <1>4
<1>6. AllocConstant(pool, c.size).nextConst = at - 1 /\ AllocConstant(pool, c.size).constPage = pool.constPage
  BY <1>0, <1>1, <1>3 DEF PoolType
<1>. QED  BY <1>4, <1>5, <1>6 DEF at

\* A step that neither allocates nor frees.
LEMMA KeepStep ==
  ASSUME PoolInv, LayoutInv', code' = code, consts' = consts, pool.nextInstr <= pool'.nextInstr,
         pool'.constPage = pool.constPage, pool'.nextConst = pool.nextConst,
         phase' = "passes" => phase = "passes"
  PROVE  PoolInv' /\ Held' = Held
<1>1. pool.nextInstr \in Nat /\ pool'.nextInstr \in Nat
  BY DEF PoolInv, LayoutInv, TypeInv, LayoutTypeOK
<1>2. CodeInv'
  <2>. SUFFICES ASSUME NEW r \in code
                PROVE  r.at \in Nat /\ r.size \in Nat \ {0} /\ r.at + r.size <= pool'.nextInstr
    BY DEF CodeInv
  <2>1. r.at \in Nat /\ r.size \in Nat \ {0} /\ r.at + r.size <= pool.nextInstr
    BY DEF PoolInv, CodeInv
  <2>. QED  BY <2>1, <1>1
<1>3. ConstInv'
  BY DEF PoolInv, ConstInv
<1>4. phase' = "passes" => code' = {}
  BY DEF PoolInv
<1>. QED  BY <1>2, <1>3, <1>4 DEF PoolInv, Held

\* A step that takes the next bytes for code: nobody holds them.
LEMMA GrowStep ==
  ASSUME PoolInv, LayoutInv', NEW s \in Nat \ {0}, code' = code \union {Region(pool.nextInstr, s)},
         consts' = consts, pool'.nextInstr = pool.nextInstr + s,
         pool'.constPage = pool.constPage, pool'.nextConst = pool.nextConst, phase' # "passes"
  PROVE  PoolInv' /\ Pool!Next
<1>. DEFINE r == Region(pool.nextInstr, s)
<1>1. /\ pool.nextInstr \in Nat /\ PageSize \in Nat /\ pool'.nextInstr <= PageSize
      /\ MmapSize \in Nat /\ MmapSize >= 2 * PageSize /\ pool.constPage = MmapSize - PageSize
  <2>1. pool.nextInstr \in Nat /\ pool'.nextInstr <= pool'.instrPage + PageSize /\ pool'.instrPage = 0
    BY DEF PoolInv, LayoutInv, TypeInv, LayoutTypeOK
  <2>2. pool.constPage = MmapSize - PageSize
    BY DEF PoolInv, ConstInv
  <2>3. PageSize \in Nat /\ MmapSize \in Nat /\ MmapSize >= 2 * PageSize
    BY PoolAssumption
  <2>4. pool'.nextInstr <= PageSize
    BY <2>1, <2>3
  <2>. QED  BY <2>1, <2>2, <2>3, <2>4
<1>2. r.at = pool.nextInstr /\ r.size = s
  BY RegionFacts
<1>. HIDE DEF r
<1>3. ASSUME NEW h \in code
      PROVE  h.at \in Nat /\ h.size \in Nat \ {0} /\ h.at + h.size <= pool.nextInstr
  BY DEF PoolInv, CodeInv
<1>4. CodeInv'
  <2>1. \A h \in code : h.at + h.size <= pool'.nextInstr
    BY <1>1, <1>3
  <2>2. r.at + r.size <= pool'.nextInstr
    BY <1>1, <1>2
  <2>. QED  BY <2>1, <2>2, <1>1, <1>2, <1>3 DEF CodeInv, r
<1>5. PoolInv'
  BY <1>4 DEF PoolInv, ConstInv
<1>6. Pool!Inside(r)
  BY <1>1, <1>2 DEF Pool!Inside
<1>7. ASSUME NEW h \in Held PROVE Pool!Disjoint(r, h)
  <2>1. CASE h \in code
    BY <2>1, <1>2, <1>3 DEF Pool!Disjoint
  <2>2. CASE h \notin code
    <3>1. PICK c \in consts : h = Region(c.at, c.size)
      BY <2>2, <1>7 DEF Held
    <3>2. h.at = c.at /\ c.at \in Nat /\ pool.constPage <= c.at
      BY <3>1, RegionFacts DEF PoolInv, ConstInv
    <3>3. r.at + r.size <= h.at
      BY <3>2, <1>1, <1>2
    <3>. QED  BY <3>3 DEF Pool!Disjoint
  <2>. QED  BY <2>1, <2>2
<1>8. Held' = Held \union {r}
  BY DEF Held, r
<1>9. Pool!Get(r) /\ r \in Held'
  BY <1>6, <1>7, <1>8 DEF Pool!Get
<1>. QED  BY <1>5, <1>9 DEF Pool!Next

\* allocConstant() returns memory nobody holds.
LEMMA ConstantGets ==
  ASSUME PoolInv, LayoutInv', NEW c \in Constants, AddConstant(c)
  PROVE  PoolInv' /\ (Pool!Next \/ Held' = Held)
<1>0. phase = "passes" /\ code' = code /\ code = {} /\ pool.error = "none" /\ pool \in PoolType
  BY TypeFacts DEF AddConstant, PoolInv, LayoutInv, TypeInv
<1>. DEFINE at == ConstantAt(pool, c.size)
           new == [at |-> at, size |-> c.size, val |-> c.val]
           r == Region(at, c.size)
<1>1. CASE UNCHANGED <<pool, consts>>
  <2>1. pool.nextInstr <= pool'.nextInstr
    BY <1>0, <1>1 DEF PoolType
  <2>. QED  BY <2>1, <1>0, <1>1, KeepStep
<1>2. CASE ~UNCHANGED <<pool, consts>> /\ pool'.error # "none"
  <2>1. phase' = "failed" /\ consts' = consts
    BY <1>2 DEF AddConstant
  <2>2. pool' = AllocConstant(pool, c.size)
    BY <1>2 DEF AddConstant
  <2>3. pool'.constPage = pool.constPage /\ pool'.nextConst = pool.nextConst /\ pool'.nextInstr = pool.nextInstr
    <3>1. ~CanMap(NextConstPage(pool))
      BY NoConstPage DEF PoolInv, ConstInv
    <3>2. \/ \E e \in {"full", "memory"} : pool' = [pool EXCEPT !.error = e]
          \/ pool' = [pool EXCEPT !.nextConst = ConstantAt(pool, c.size) - 1]
      BY <3>1, <2>2 DEF AllocConstant
    <3>. QED  BY <3>2, <1>0, <1>2 DEF PoolType
  <2>4. pool.nextInstr <= pool'.nextInstr
    BY <2>3, <1>0 DEF PoolType
  <2>. QED  BY <2>1, <2>3, <2>4, <1>0, KeepStep
<1>3. CASE ~UNCHANGED <<pool, consts>> /\ pool'.error = "none"
  <2>1. pool' = AllocConstant(pool, c.size) /\ consts' = consts \union {new}
    BY <1>3 DEF AddConstant
  <2>2. /\ at \in Nat /\ pool.constPage <= at /\ at + c.size <= pool.nextConst + 1
        /\ pool'.nextConst = at - 1 /\ pool'.constPage = pool.constPage
    BY <2>1, <1>0, <1>3, ConstantFacts
  <2>3. /\ c.size \in Nat \ {0} /\ MmapSize \in Nat /\ pool.nextConst \in Int /\ pool.nextConst < MmapSize
        /\ pool.constPage = MmapSize - PageSize
    BY <1>0, ConstantsAssumption, PoolAssumption DEF PoolInv, ConstInv, PoolType
  <2>4. new.at = at /\ new.size = c.size /\ r.at = at /\ r.size = c.size
    BY RegionFacts
  <2>. HIDE DEF at, new, r
  <2>5. \A d \in consts : /\ d.at \in Nat /\ d.size \in Nat \ {0}
                          /\ pool.nextConst < d.at /\ pool.constPage <= d.at /\ d.at + d.size <= MmapSize
    BY DEF PoolInv, ConstInv
  <2>6. ASSUME NEW d \in consts'
        PROVE  /\ d.at \in Nat /\ d.size \in Nat \ {0}
               /\ pool'.nextConst < d.at /\ pool'.constPage <= d.at /\ d.at + d.size <= MmapSize
    <3>1. CASE d \in consts
      BY <3>1, <2>2, <2>3, <2>5
    <3>2. CASE d = new
      BY <3>2, <2>2, <2>3, <2>4
    <3>. QED  BY <3>1, <3>2, <2>1
  <2>7. ConstInv'
    <3>1. pool'.nextConst < MmapSize
      BY <2>2, <2>3
    <3>. QED  BY <3>1, <2>2, <2>3, <2>6 DEF ConstInv
  <2>8. PoolInv'
    BY <2>7, <1>0 DEF PoolInv, CodeInv
  <2>9. Pool!Inside(r)
    BY <2>2, <2>3, <2>4 DEF Pool!Inside
  <2>10. ASSUME NEW h \in Held PROVE Pool!Disjoint(r, h)
    <3>1. PICK d \in consts : h = Region(d.at, d.size)
      BY <2>10, <1>0 DEF Held
    <3>2. h.at = d.at /\ d.at \in Nat /\ pool.nextConst < d.at
      BY <3>1, <2>5, RegionFacts
    <3>3. r.at + r.size <= h.at
      BY <3>2, <2>2, <2>3, <2>4
    <3>. QED  BY <3>3 DEF Pool!Disjoint
  <2>11. Held' = Held \union {r}
    BY <2>1, <2>4, <1>0 DEF Held, r
  <2>12. Pool!Get(r) /\ r \in Held'
    BY <2>9, <2>10, <2>11 DEF Pool!Get
  <2>. QED  BY <2>8, <2>12 DEF Pool!Next
<1>. QED  BY <1>1, <1>2, <1>3

\* Every step of code generation is one of the allocator or none.
LEMMA PoolStep ==
  ASSUME PoolInv, [Next]_vars
  PROVE  PoolInv' /\ (Pool!Next \/ Held' = Held)
<1>0. LayoutInv' /\ TypeInv /\ pool \in PoolType /\ pool.nextInstr \in Nat /\ PageSize \in Nat
  BY NextInv, TypeFacts DEF PoolInv, LayoutInv
<1>1. ASSUME NEW s \in Nat \ {0}, Allocate(s), phase = "walk", consts' = consts
      PROVE  PoolInv' /\ (Pool!Next \/ Held' = Held)
  <2>1. pool' = AllocCode(pool, s) /\ pool.error = "none"
    BY <1>0, <1>1 DEF Allocate, TypeInv
  <2>2. CASE pool.nextInstr + s <= PageSize
    <3>1. pool' = [pool EXCEPT !.nextInstr = @ + s] /\ pool.nextInstr + s \in Nat
      BY <2>1, <2>2, <1>0, AllocCodeFacts
    <3>2. /\ pool'.nextInstr = pool.nextInstr + s /\ pool'.error = "none"
          /\ pool'.constPage = pool.constPage /\ pool'.nextConst = pool.nextConst
      BY <3>1, <2>1, <1>0, PoolMove
    <3>3. code' = code \union {Region(pool.nextInstr, s)} /\ phase' = phase
      BY <3>2, <1>1 DEF Allocate
    <3>. QED  BY <3>2, <3>3, <1>0, <1>1, GrowStep
  <2>3. CASE pool.nextInstr + s > PageSize
    <3>1. /\ pool'.error # "none" /\ pool'.nextInstr = pool.nextInstr
          /\ pool'.constPage = pool.constPage /\ pool'.nextConst = pool.nextConst
      BY <2>1, <2>3, <1>0, AllocCodeFacts
    <3>2. phase' = "failed" /\ code' = code
      BY <3>1, <1>1 DEF Allocate
    <3>3. pool.nextInstr <= pool'.nextInstr
      BY <3>1, <1>0
    <3>. QED  BY <3>1, <3>2, <3>3, <1>0, <1>1, KeepStep
  <2>. QED  BY <2>2, <2>3, <1>0
<1>2. CASE HandleInstruction
  <2>1. phase = "walk" /\ cursor \in 1 .. Len(items) /\ Allocate(items[cursor].size) /\ consts' = consts
    BY <1>2 DEF HandleInstruction, Walking
  <2>2. items[cursor].size \in Nat \ {0}
    BY <2>1, <1>0, ItemFacts DEF TypeInv
  <2>. QED  BY <2>1, <2>2, <1>1
<1>3. CASE HandleCall
  BY <1>3, <1>1 DEF HandleCall, Walking, CallIlen
<1>4. CASE HandleBranch
  <2>. DEFINE s == BranchIlen(cursor)
             next == AllocCode(pool, s)
             loc == Location(cursor, s)
             ok == next.error = "none" /\ (write /\ Known(cursor) => AssertedShort(loc, place[items[cursor].dst]))
  <2>1. /\ phase = "walk" /\ cursor \in 1 .. Len(items) /\ consts' = consts /\ pool.error = "none"
        /\ items[cursor].kind = "branch"
    BY <1>0, <1>4 DEF HandleBranch, Walking, TypeInv
  <2>2. s \in Nat \ {0}
    BY <2>1, <1>0, ItemFacts, Zenon DEF BranchIlen, TypeInv
  <2>3. loc.ilen = s
    BY DEF Location
  <2>4. /\ pool' = next
        /\ IF ok THEN code' = code \union {Region(pool.nextInstr, s)} /\ UNCHANGED phase
           ELSE phase' = "failed" /\ UNCHANGED code
    BY <2>3, <1>4, Zenon DEF HandleBranch
  <2>. HIDE DEF s, loc
  <2>5. CASE ok
    <3>1. ~(pool.nextInstr + s > PageSize)
      BY <2>2, <2>5, <1>0, AllocCodeFacts
    <3>2. pool.nextInstr + s <= PageSize /\ pool.nextInstr + s \in Nat
      BY <3>1, <2>2, <1>0
    <3>3. pool' = [pool EXCEPT !.nextInstr = @ + s]
      BY <3>2, <2>2, <2>4, <1>0, AllocCodeFacts
    <3>4. /\ pool'.nextInstr = pool.nextInstr + s
          /\ pool'.constPage = pool.constPage /\ pool'.nextConst = pool.nextConst
      BY <3>2, <3>3, <1>0, PoolMove
    <3>5. code' = code \union {Region(pool.nextInstr, s)} /\ phase' = phase
      BY <2>4, <2>5
    <3>. QED  BY <3>4, <3>5, <2>1, <2>2, <1>0, GrowStep
  <2>6. CASE ~ok
    <3>1. phase' = "failed" /\ code' = code
      BY <2>4, <2>6
    <3>2. pool.nextInstr <= pool'.nextInstr /\ pool'.constPage = pool.constPage /\ pool'.nextConst = pool.nextConst
      <4>1. CASE pool.nextInstr + s > PageSize
        <5>1. /\ pool'.nextInstr = pool.nextInstr
              /\ pool'.constPage = pool.constPage /\ pool'.nextConst = pool.nextConst
          BY <4>1, <2>2, <2>4, <1>0, AllocCodeFacts
        <5>. QED  BY <5>1, <1>0
      <4>2. CASE pool.nextInstr + s <= PageSize
        <5>1. pool' = [pool EXCEPT !.nextInstr = @ + s] /\ pool.nextInstr + s \in Nat
          BY <4>2, <2>2, <2>4, <1>0, AllocCodeFacts
        <5>2. /\ pool'.nextInstr = pool.nextInstr + s
              /\ pool'.constPage = pool.constPage /\ pool'.nextConst = pool.nextConst
          BY <5>1, <1>0, PoolMove
        <5>. QED  BY <5>2, <2>2, <1>0
      <4>. QED  BY <4>1, <4>2, <2>2, <1>0
    <3>. QED  BY <3>1, <3>2, <2>1, <1>0, KeepStep
  <2>. QED  BY <2>5, <2>6
<1>5. CASE HandleBlock
  <2>. DEFINE up == AlignUp(pool.nextInstr, BlockAlign)
  <2>1. /\ phase = "walk" /\ phase' = phase /\ consts' = consts
        /\ pool' = [pool EXCEPT !.nextInstr = up]
        /\ code' = IF pool'.nextInstr = pool.nextInstr THEN code
                   ELSE code \union {Region(pool.nextInstr, pool'.nextInstr - pool.nextInstr)}
    BY <1>5 DEF HandleBlock, Walking, NewBlock
  <2>2. up \in Nat /\ pool.nextInstr <= up
    <3>1. pool.nextInstr <= PageSize
      BY <1>0, TypeFacts
    <3>. QED  BY <3>1, <1>0, PoolAssumption, AlignUpWithin
  <2>. HIDE DEF up
  <2>3. /\ pool'.nextInstr = up /\ pool'.constPage = pool.constPage /\ pool'.nextConst = pool.nextConst
    BY <2>1, <2>2, <1>0, PoolMove
  <2>4. CASE up = pool.nextInstr
    BY <2>1, <2>2, <2>3, <2>4, <1>0, KeepStep
  <2>5. CASE up # pool.nextInstr
    <3>. DEFINE gap == up - pool.nextInstr
    <3>1. gap \in Nat \ {0} /\ pool'.nextInstr = pool.nextInstr + gap
      BY <2>2, <2>3, <2>5, <1>0
    <3>2. code' = code \union {Region(pool.nextInstr, gap)}
      BY <2>1, <2>3, <2>5
    <3>. HIDE DEF gap
    <3>. QED  BY <3>1, <3>2, <2>1, <2>3, <1>0, GrowStep
  <2>. QED  BY <2>4, <2>5
<1>6. CASE StartRun
  <2>1. /\ code' = {} /\ consts' = consts /\ phase' = "walk"
        /\ pool' = [pool EXCEPT !.instrPage = 0, !.nextInstr = 0]
    BY <1>6 DEF StartRun, ResetCodePool
  <2>2. pool'.constPage = pool.constPage /\ pool'.nextConst = pool.nextConst
    BY <2>1, <1>0, PoolReset, Zenon
  <2>3. CodeInv' /\ ConstInv'
    BY <2>1, <2>2 DEF CodeInv, ConstInv, PoolInv
  <2>4. Held' \subseteq Held
    BY <2>1 DEF Held
  <2>. QED  BY <2>1, <2>3, <2>4, <1>0 DEF PoolInv, Pool!Next, Pool!GiveBack
<1>7. CASE FixupNext \/ EndFunction \/ FixupCall \/ EndRun \/ Stopped \/ UNCHANGED vars
  <2>1. pool' = pool /\ code' = code /\ consts' = consts /\ (phase' = "passes" => phase = "passes")
    BY <1>7 DEF FixupNext, EndFunction, FixupCall, EndRun, Stopped, Walking, vars
  <2>2. pool.nextInstr <= pool'.nextInstr
    BY <2>1, <1>0
  <2>. QED  BY <2>1, <2>2, <1>0, KeepStep
<1>8. CASE \E c \in Constants : AddConstant(c)
  BY <1>8, <1>0, ConstantGets
<1>. QED  BY <1>2, <1>3, <1>4, <1>5, <1>6, <1>7, <1>8 DEF Next, Step

\* BinaryPool is an allocator: allocCode(), newBlock() and allocConstant()
\* hand out memory of the region that nobody holds, however code and
\* constants are allocated and code generation starts again.
THEOREM PoolIsAllocator == Spec => IsAllocator
<1>1. Init => PoolInv /\ Pool!Init
  <2>. SUFFICES ASSUME Init PROVE PoolInv /\ Pool!Init
    OBVIOUS
  <2>1. code = {} /\ consts = {} /\ LayoutInv
    BY InitInv DEF Init
  <2>2. pool.constPage = MmapSize - PageSize /\ pool.nextConst < MmapSize
    <3>1. pool.constPage = MmapSize - PageSize /\ pool.nextConst = MmapSize - 1
      BY DEF Init, NewPool
    <3>. QED  BY <3>1, PoolAssumption
  <2>. QED  BY <2>1, <2>2 DEF PoolInv, CodeInv, ConstInv, Held, Pool!Init
<1>2. PoolInv /\ [Next]_vars => PoolInv' /\ [Pool!Next]_Held
  BY PoolStep
<1>. QED  BY <1>1, <1>2, PTL DEF Spec, IsAllocator, Pool!Spec

-----------------------------------------------------------------------------
(***************************************************************************)
(* Every branch and call lands where its block or function came to lie in  *)
(* the second run, whichever branches are short, wherever blocks are       *)
(* aligned and whether a branch is fixed up at once or at the end of its   *)
(* function.                                                               *)
(***************************************************************************)

\* The displacement of a branch that was fixed up leads to its block.
Placed(k) ==
  /\ place[items[k].dst] # -1
  /\ ~CountedTooFar(k) => landed[k].to = place[items[k].dst]

\* A branch the second run has passed is placed or still to be fixed up, ...
BranchesPlaced ==
  \A k \in 1 .. Len(items) : k < cursor /\ items[k].kind = "branch" =>
    Placed(k) \/ \E j \in 1 .. Len(branches) : branches[j].item = k

\* ... a call is to be fixed up until the end of the run, ...
CallsPlaced ==
  \A k \in 1 .. Len(items) : k < cursor /\ items[k].kind = "call" =>
    \/ \E j \in 1 .. Len(calls) : calls[j].item = k
    \/ cursor = Len(items) + 1 /\ landed[k].to = place[items[k].dst]

\* ... and beyond the end of a function no branch waits.
NoneBehindEnd == cursor > 1 /\ items[cursor - 1].kind = "end" => branches = <<>>

LandedShape == landed = [k \in 1 .. Len(items) |-> landed[k]]

CallsInv ==
  /\ calls \in Seq([item : 1 .. Len(items), at : Nat, ilen : Nat])
  /\ \A j \in 1 .. Len(calls) : items[calls[j].item].kind = "call"

LandInv ==
  /\ LandedShape /\ CallsInv
  /\ write /\ phase \in {"walk", "done"} => BranchesPlaced /\ CallsPlaced /\ NoneBehindEnd
  /\ phase = "done" => cursor = Len(items) + 1 /\ calls = <<>>

LandedInv == LayoutInv /\ LandInv

\* The displacement counts from the end of the instruction: for JMP, Jcc and
\* the short form of JCXZ (Encoder.cpp:1797, :1693).
LEMMA CountedRight ==
  ASSUME LayoutTypeOK, NEW k \in 1 .. Len(items), ~CountedTooFar(k), NEW x \in Int
  PROVE  x - CountedFrom(k) + EndsAt(k) = x
<1>1. items[k].class \in Classes
  BY ItemFacts DEF Item
<1>2. BranchIlen(k) \in Int
  BY <1>1, ItemFacts DEF BranchIlen
<1>3. items[k].class = "jcxz32" /\ k \in short => CountedFrom(k) = 2 /\ EndsAt(k) = 2
  BY DEF CountedFrom, EndsAt, BranchIlen, ShortIlen, Classes
<1>4. items[k].class \in {"cond", "jmp"} => CountedFrom(k) = EndsAt(k) /\ EndsAt(k) \in Int
  BY <1>2 DEF CountedFrom, EndsAt
<1>. QED  BY <1>1, <1>3, <1>4 DEF CountedTooFar, Classes

\* arch_fixup_branch() in the second run: the branch is placed, the others
\* are left alone.
LEMMA FixupPlaces ==
  ASSUME LayoutTypeOK, LandedShape, write,
         UNCHANGED items,
         NEW b, b.item \in 1 .. Len(items), NEW target \in Int, FixupBranch(b, target)
  PROVE  /\ short' = short
         /\ LandedShape'
         /\ \A k \in 1 .. Len(items) : k # b.item => landed'[k] = landed[k]
         /\ AssertedShort(b, target) /\ ~CountedTooFar(b.item) => landed'[b.item].to = target
<1>1. short' = short
  BY DEF FixupBranch
<1>2. \/ landed' = landed /\ ~AssertedShort(b, target)
      \/ landed' = [landed EXCEPT ![b.item] = Written(b, target)]
  BY DEF FixupBranch
<1>3. ~CountedTooFar(b.item) => Written(b, target).to = target
  BY CountedRight DEF Written
<1>4. CASE landed' = landed /\ ~AssertedShort(b, target)
  BY <1>1, <1>4 DEF LandedShape
<1>5. CASE landed' = [landed EXCEPT ![b.item] = Written(b, target)]
  <2>1. landed'[b.item] = Written(b, target) /\ \A k \in 1 .. Len(items) : k # b.item => landed'[k] = landed[k]
    BY <1>5 DEF LandedShape
  <2>2. LandedShape'
    BY <1>5, Zenon DEF LandedShape, FixupBranch
  <2>. QED  BY <1>1, <1>3, <2>1, <2>2
<1>. QED  BY <1>2, <1>4, <1>5

\* Nothing is written yet.
LEMMA InitLanded == Init => LandedInv
<1>. SUFFICES ASSUME Init PROVE LandInv
  BY InitInv DEF LandedInv
<1>. QED  BY DEF Init, LandInv, LandedShape, CallsInv, Nothing

\* What is placed stays where it is while the second run goes on: placed
\* blocks are behind the cursor (CodeGenerationPass.hpp:103).
LEMMA PlacedStays ==
  ASSUME place \in [1 .. Len(items) -> Nat \union {-1}],
         NEW k \in 1 .. Len(items), Placed(k), items' = items, short' = short,
         landed'[k] = landed[k], items[k].dst \in 1 .. Len(items),
         place' = place \/ (place' = [place EXCEPT ![cursor] = place'[cursor]]
                            /\ place[cursor] = -1)
  PROVE  Placed(k)'
BY Zenon DEF Placed, CountedTooFar

\* The facts about the state that the steps below share.
LEMMA LandFacts ==
  ASSUME LandedInv
  PROVE  /\ TypeInv /\ LayoutTypeOK /\ Len(items) \in Nat /\ write \in BOOLEAN
         /\ cursor \in Nat /\ 1 <= cursor /\ cursor <= Len(items) + 1
         /\ place \in [1 .. Len(items) -> Nat \union {-1}]
         /\ Len(branches) \in Nat /\ Len(calls) \in Nat
         /\ \A k \in 1 .. Len(items) : items[k].kind = "branch" => items[k].dst \in 1 .. Len(items)
<1>1. TypeInv /\ LayoutTypeOK
  BY DEF LandedInv, LayoutInv, TypeInv
<1>2. Len(branches) \in Nat /\ Len(calls) \in Nat
  BY <1>1, LenProperties DEF TypeInv, LandedInv, LandInv
<1>. QED  BY <1>1, <1>2, TypeFacts, ItemFacts, Zenon

\* The oldest element of a list is taken away.
LEMMA OldestFacts ==
  ASSUME NEW T, NEW q \in Seq(T), q # <<>>
  PROVE  /\ Len(q) \in Nat /\ Len(q) >= 1 /\ Head(q) = q[1] /\ q[1] \in T
         /\ Tail(q) \in Seq(T)
         /\ \A j \in 1 .. Len(q) : j # 1 => j - 1 \in 1 .. Len(Tail(q)) /\ Tail(q)[j - 1] = q[j]
         /\ \A j \in 1 .. Len(Tail(q)) : j + 1 \in 1 .. Len(q) /\ Tail(q)[j] = q[j + 1]
<1>1. Len(q) \in Nat /\ Len(q) >= 1
  BY EmptySeq
<1>2. /\ Head(q) = q[1] /\ Tail(q) \in Seq(T) /\ Len(Tail(q)) = Len(q) - 1
      /\ \A j \in 1 .. Len(Tail(q)) : Tail(q)[j] = q[j + 1]
  BY <1>1, HeadTailProperties
<1>3. q[1] \in T
  BY <1>1, ElementOfSeq
<1>. QED  BY <1>1, <1>2, <1>3

\* The end of rewriting.
LEMMA FailedLanded ==
  ASSUME LandInv, items' = items, phase' = "failed", LandedShape', calls' = calls
  PROVE  LandInv'
BY DEF LandInv, CallsInv

\* Items that are neither branch nor call.
LEMMA PassLanded ==
  ASSUME LandedInv, phase = "walk", cursor \in 1 .. Len(items),
         items[cursor].kind \notin {"branch", "call"},
         items[cursor].kind = "end" => branches = <<>>,
         cursor' = cursor + 1,
         UNCHANGED <<items, write, branches, calls, short, landed, phase>>,
         \/ place' = place
         \/ place' = [place EXCEPT ![cursor] = place'[cursor]] /\ (write => place[cursor] = -1)
  PROVE  LandInv'
<1>. USE LandFacts
<1>1. LandInv
  BY DEF LandedInv
<1>2. write => BranchesPlaced'
  <2>. SUFFICES ASSUME write, NEW k \in 1 .. Len(items), k < cursor', items[k].kind = "branch"
                PROVE  Placed(k)' \/ \E j \in 1 .. Len(branches) : branches[j].item = k
    BY Zenon DEF BranchesPlaced
  <2>1. k < cursor
    OBVIOUS
  <2>2. Placed(k) \/ \E j \in 1 .. Len(branches) : branches[j].item = k
    BY <1>1, <2>1 DEF LandInv, BranchesPlaced
  <2>3. Placed(k) => Placed(k)'
    BY PlacedStays, Zenon
  <2>. QED  BY <2>2, <2>3
<1>3. write => CallsPlaced'
  <2>. SUFFICES ASSUME write, NEW k \in 1 .. Len(items), k < cursor', items[k].kind = "call"
                PROVE  \E j \in 1 .. Len(calls) : calls[j].item = k
    BY Zenon DEF CallsPlaced
  <2>1. k < cursor /\ cursor # Len(items) + 1
    OBVIOUS
  <2>. QED  BY <1>1, <2>1 DEF LandInv, CallsPlaced
<1>4. NoneBehindEnd'
  BY DEF NoneBehindEnd
<1>. QED  BY <1>1, <1>2, <1>3, <1>4 DEF LandInv, LandedShape, CallsInv

\* A block is placed where no block was.
LEMMA BlockLanded == LandedInv /\ HandleBlock => LandInv'
<1>. SUFFICES ASSUME LandedInv, HandleBlock PROVE LandInv'
  OBVIOUS
<1>1. /\ phase = "walk" /\ cursor \in 1 .. Len(items) /\ items[cursor].kind \in {"function", "block"}
      /\ cursor' = cursor + 1 /\ place' = [place EXCEPT ![cursor] = pool'.nextInstr]
      /\ UNCHANGED <<items, write, branches, calls, short, landed, phase>>
  BY DEF HandleBlock, Walking, Advance
<1>2. write => place[cursor] = -1
  <2>1. SecondInv
    BY DEF LandedInv, LayoutInv
  <2>. QED  BY <1>1, <2>1, LandFacts DEF SecondInv
<1>3. place' = [place EXCEPT ![cursor] = place'[cursor]]
  BY <1>1, LandFacts
<1>. QED  BY <1>1, <1>2, <1>3, PassLanded

\* Plain instructions lead nowhere.
LEMMA InstructionLanded == LandedInv /\ HandleInstruction => LandInv'
<1>. SUFFICES ASSUME LandedInv, HandleInstruction PROVE LandInv'
  OBVIOUS
<1>1. /\ phase = "walk" /\ cursor \in 1 .. Len(items) /\ items[cursor].kind = "instr"
      /\ UNCHANGED <<items, write, place, branches, calls, short, landed>>
      /\ (cursor' = cursor + 1 /\ phase' = phase) \/ phase' = "failed"
  BY DEF HandleInstruction, Walking, Allocate, Advance
<1>2. CASE phase' = "failed"
  BY <1>1, <1>2, FailedLanded DEF LandedInv, LandInv, LandedShape
<1>3. CASE cursor' = cursor + 1 /\ phase' = phase
  BY <1>1, <1>3, PassLanded
<1>. QED  BY <1>1, <1>2, <1>3

\* No branch waits behind the end of its function (CodeGenerationPass.hpp).
LEMMA EndFunctionLanded == LandedInv /\ EndFunction => LandInv'
<1>. SUFFICES ASSUME LandedInv, EndFunction PROVE LandInv'
  OBVIOUS
<1>1. /\ phase = "walk" /\ cursor \in 1 .. Len(items) /\ items[cursor].kind = "end"
      /\ branches = <<>> /\ cursor' = cursor + 1
      /\ UNCHANGED <<items, write, place, branches, calls, short, landed, phase>>
  BY DEF EndFunction, Walking, Advance
<1>. QED  BY <1>1, PassLanded

\* The call is remembered until the end of the run.
LEMMA CallLanded == LandedInv /\ HandleCall => LandInv'
<1>. SUFFICES ASSUME LandedInv, HandleCall PROVE LandInv'
  OBVIOUS
<1>. DEFINE T == [item : 1 .. Len(items), at : Nat, ilen : Nat]
            c == Location(cursor, CallIlen)
<1>. USE LandFacts
<1>0. LandInv
  BY DEF LandedInv
<1>1. /\ phase = "walk" /\ cursor \in 1 .. Len(items) /\ items[cursor].kind = "call"
      /\ UNCHANGED <<items, write, place, branches, short, landed>>
  BY DEF HandleCall, Walking
<1>2. CASE pool'.error # "none"
  <2>1. phase' = "failed" /\ calls' = calls
    BY <1>2 DEF HandleCall, Allocate
  <2>. QED  BY <2>1, <1>0, <1>1, FailedLanded DEF LandInv, LandedShape
<1>3. CASE pool'.error = "none"
  <2>1. cursor' = cursor + 1 /\ phase' = phase /\ calls' = Append(calls, c)
    BY <1>3 DEF HandleCall, Allocate, Advance
  <2>2. c \in T /\ c.item = cursor /\ calls \in Seq(T)
    BY <1>0, <1>1, TypeFacts DEF Location, CallIlen, LandInv, CallsInv
  <2>. HIDE DEF c, T
  <2>3. /\ calls' \in Seq(T) /\ Len(calls') = Len(calls) + 1
        /\ \A j \in 1 .. Len(calls) : calls'[j] = calls[j]
        /\ calls'[Len(calls) + 1] = c
    BY <2>1, <2>2, AppendProperties
  <2>4. write => BranchesPlaced'
    <3>. SUFFICES ASSUME write, NEW k \in 1 .. Len(items), k < cursor', items[k].kind = "branch"
                  PROVE  Placed(k)' \/ \E j \in 1 .. Len(branches) : branches[j].item = k
      BY <1>1 DEF BranchesPlaced
    <3>1. k < cursor
      BY <2>1, <1>1
    <3>2. Placed(k) \/ \E j \in 1 .. Len(branches) : branches[j].item = k
      BY <1>0, <1>1, <3>1 DEF LandInv, BranchesPlaced
    <3>3. Placed(k) => Placed(k)'
      BY <1>1, PlacedStays
    <3>. QED  BY <3>2, <3>3
  <2>5. write => CallsPlaced'
    <3>. SUFFICES ASSUME write, NEW k \in 1 .. Len(items), k < cursor', items[k].kind = "call"
                  PROVE  \E j \in 1 .. Len(calls') : calls'[j].item = k
      BY <1>1, Zenon DEF CallsPlaced
    <3>1. CASE k = cursor
      BY <2>2, <2>3, <3>1
    <3>2. CASE k # cursor
      <4>1. k < cursor /\ cursor # Len(items) + 1
        BY <2>1, <3>2, <1>1
      <4>2. PICK j \in 1 .. Len(calls) : calls[j].item = k
        BY <1>0, <1>1, <4>1 DEF LandInv, CallsPlaced
      <4>. QED  BY <4>2, <2>3
    <3>. QED  BY <3>1, <3>2
  <2>6. NoneBehindEnd'
    BY <1>1, <2>1 DEF NoneBehindEnd
  <2>7. CallsInv'
    <3>1. ASSUME NEW j \in 1 .. Len(calls') PROVE items[calls'[j].item].kind = "call"
      <4>1. CASE j = Len(calls) + 1
        BY <4>1, <1>1, <2>2, <2>3
      <4>2. CASE j # Len(calls) + 1
        <5>1. j \in 1 .. Len(calls)
          BY <4>2, <2>3
        <5>. QED  BY <5>1, <1>0, <2>3, Zenon DEF LandInv, CallsInv
      <4>. QED  BY <4>1, <4>2
    <3>. QED  BY <1>1, <2>3, <3>1 DEF CallsInv, T
  <2>. QED  BY <1>0, <1>1, <2>1, <2>4, <2>5, <2>6, <2>7 DEF LandInv, LandedShape
<1>. QED  BY <1>2, <1>3

\* A branch is placed at once if its block was walked before, and waits for
\* the end of the function otherwise.
LEMMA BranchLanded == LandedInv /\ HandleBranch => LandInv'
<1>. SUFFICES ASSUME LandedInv, HandleBranch PROVE LandInv'
  OBVIOUS
<1>. DEFINE b    == Location(cursor, BranchIlen(cursor))
            next == AllocCode(pool, b.ilen)
            dst  == items[cursor].dst
            ok   == next.error = "none" /\ (write /\ Known(cursor) => AssertedShort(b, place[dst]))
<1>. USE LandFacts
<1>0. LandInv
  BY DEF LandedInv
<1>1. /\ phase = "walk" /\ cursor \in 1 .. Len(items) /\ items[cursor].kind = "branch"
      /\ UNCHANGED <<items, write, place, calls>>
      /\ b.item = cursor /\ dst \in 1 .. Len(items) /\ place[dst] \in Int
  BY DEF HandleBranch, Walking, Location
<1>2. /\ IF next.error = "none" /\ Known(cursor) THEN FixupBranch(b, place[dst])
         ELSE UNCHANGED <<short, landed>>
      /\ branches' = IF next.error = "none" /\ ~Known(cursor) THEN Append(branches, b) ELSE branches
      /\ IF ok THEN cursor' = cursor + 1 /\ phase' = phase ELSE phase' = "failed"
  BY DEF HandleBranch, Advance
<1>t. /\ BranchIlen(cursor) \in Nat
      /\ b \in [item : 1 .. Len(items), at : Nat, ilen : Nat]
  <2>1. BranchIlen(cursor) \in Nat
    BY <1>1, ItemFacts, Zenon DEF BranchIlen
  <2>. QED  BY <2>1, <1>1, TypeFacts DEF Location
<1>. HIDE DEF b, next, dst, ok
<1>3. LandedShape'
  BY <1>0, <1>1, <1>2 DEF LandInv, FixupBranch, LandedShape
<1>4. CASE ~ok
  BY <1>0, <1>1, <1>2, <1>3, <1>4, FailedLanded
<1>5. CASE ok /\ ~write
  BY <1>0, <1>1, <1>2, <1>3, <1>5 DEF LandInv, CallsInv
<1>6. CASE ok /\ write
  <2>1. /\ short' = short
        /\ \A k \in 1 .. Len(items) : k # cursor => landed'[k] = landed[k]
        /\ \A k \in 1 .. Len(items) : k = cursor /\ Known(k) => Placed(k)'
    <3>1. CASE Known(cursor)
      <4>1. FixupBranch(b, place[dst]) /\ AssertedShort(b, place[dst])
        BY <1>2, <1>6, <3>1 DEF ok
      <4>2. /\ short' = short
            /\ \A k \in 1 .. Len(items) : k # cursor => landed'[k] = landed[k]
            /\ ~CountedTooFar(cursor) => landed'[cursor].to = place[dst]
        BY <4>1, <1>0, <1>1, <1>6, FixupPlaces, Zenon DEF LandInv
      <4>3. ASSUME NEW k \in 1 .. Len(items), k = cursor PROVE Placed(k)'
        BY <4>2, <4>3, <1>1, <3>1 DEF Placed, Known, CountedTooFar, dst
      <4>. QED  BY <4>2, <4>3
    <3>2. CASE ~Known(cursor)
      BY <1>2, <3>2
    <3>. QED  BY <3>1, <3>2
  <2>2. /\ \A j \in 1 .. Len(branches) : j \in 1 .. Len(branches') /\ branches'[j] = branches[j]
        /\ ~Known(cursor) => \E j \in 1 .. Len(branches') : branches'[j].item = cursor
    <3>1. CASE Known(cursor)
      BY <1>2, <3>1
    <3>2. CASE ~Known(cursor)
      <4>. DEFINE T == [item : 1 .. Len(items), at : Nat, ilen : Nat]
      <4>1. branches' = Append(branches, b) /\ branches \in Seq(T) /\ b \in T
        BY <1>2, <1>6, <1>t, <3>2 DEF TypeInv, ok
      <4>. HIDE DEF T
      <4>2. /\ Len(branches') = Len(branches) + 1
            /\ \A j \in 1 .. Len(branches) : branches'[j] = branches[j]
            /\ branches'[Len(branches) + 1] = b
        BY <4>1, AppendProperties
      <4>. QED  BY <4>2, <1>1
    <3>. QED  BY <3>1, <3>2
  <2>3. BranchesPlaced'
    <3>. SUFFICES ASSUME NEW k \in 1 .. Len(items), k < cursor', items[k].kind = "branch"
                  PROVE  Placed(k)' \/ \E j \in 1 .. Len(branches') : branches'[j].item = k
      BY <1>1, Zenon DEF BranchesPlaced
    <3>1. CASE k = cursor
      BY <2>1, <2>2, <3>1
    <3>2. CASE k # cursor
      <4>1. k < cursor
        BY <1>1, <1>2, <1>6, <3>2
      <4>2. Placed(k) \/ \E j \in 1 .. Len(branches) : branches[j].item = k
        BY <1>0, <1>1, <1>6, <4>1 DEF LandInv, BranchesPlaced
      <4>3. Placed(k) => Placed(k)'
        BY <1>1, <2>1, <3>2, PlacedStays, Zenon
      <4>. QED  BY <2>2, <4>2, <4>3, Zenon
    <3>. QED  BY <3>1, <3>2
  <2>4. CallsPlaced'
    <3>. SUFFICES ASSUME NEW k \in 1 .. Len(items), k < cursor', items[k].kind = "call"
                  PROVE  \E j \in 1 .. Len(calls) : calls[j].item = k
      BY <1>1 DEF CallsPlaced
    <3>1. k < cursor /\ cursor # Len(items) + 1
      BY <1>1, <1>2, <1>6
    <3>. QED  BY <1>0, <1>1, <1>6, <3>1 DEF LandInv, CallsPlaced
  <2>5. NoneBehindEnd'
    BY <1>1, <1>2, <1>6 DEF NoneBehindEnd
  <2>. QED  BY <1>0, <1>1, <1>2, <1>3, <1>6, <2>3, <2>4, <2>5 DEF LandInv, CallsInv
<1>. QED  BY <1>4, <1>5, <1>6

\* The oldest branch that waits is placed.
LEMMA FixupLanded == LandedInv /\ FixupNext => LandInv'
<1>. SUFFICES ASSUME LandedInv, FixupNext PROVE LandInv'
  OBVIOUS
<1>. DEFINE b == Head(branches)
            target == place[items[b.item].dst]
<1>. USE LandFacts
<1>0. LandInv
  BY DEF LandedInv
<1>1. /\ phase = "walk" /\ cursor \in 1 .. Len(items) /\ items[cursor].kind = "end"
      /\ branches # <<>> /\ branches' = Tail(branches)
      /\ UNCHANGED <<items, write, cursor, place, calls>>
      /\ FixupBranch(b, target)
      /\ phase' = IF target = -1 \/ (write /\ ~AssertedShort(b, target)) THEN "failed" ELSE phase
  BY DEF FixupNext, Walking
<1>2. /\ Len(branches) >= 1 /\ b = branches[1]
      /\ \A j \in 1 .. Len(branches) : j # 1 => j - 1 \in 1 .. Len(branches') /\ branches'[j - 1] = branches[j]
  <2>1. branches \in Seq([item : 1 .. Len(items), at : Nat, ilen : Nat])
    BY DEF TypeInv
  <2>. QED  BY <2>1, <1>1, OldestFacts
<1>3. b.item \in 1 .. Len(items)
  BY <1>2, BranchFacts
<1>. HIDE DEF b, target
<1>4. LandedShape'
  BY <1>0, <1>1, <1>3, Zenon DEF LandInv, FixupBranch, LandedShape
<1>5. CASE phase' = "failed"
  BY <1>0, <1>1, <1>4, <1>5, FailedLanded
<1>6. CASE phase' = "walk" /\ ~write
  BY <1>0, <1>1, <1>4, <1>6 DEF LandInv, CallsInv
<1>7. CASE phase' = "walk" /\ write
  <2>1. target # -1 /\ AssertedShort(b, target)
    BY <1>1, <1>7
  <2>2. ASSUME NEW k \in 1 .. Len(items), k < cursor, items[k].kind = "branch"
        PROVE  Placed(k)' \/ \E j \in 1 .. Len(branches') : branches'[j].item = k
    <3>1. Placed(k) \/ \E j \in 1 .. Len(branches) : branches[j].item = k
      BY <1>0, <1>1, <1>7, <2>2, Zenon DEF LandInv, BranchesPlaced
    <3>2. items[k].dst \in 1 .. Len(items) /\ place[items[k].dst] \in Int
      BY <2>2
    <3>3. CASE k = b.item
      <4>1. target = place[items[k].dst] /\ target \in Int
        BY <3>2, <3>3 DEF target
      <4>2. short' = short /\ (~CountedTooFar(k) => landed'[k].to = target)
        BY <1>0, <1>1, <1>3, <1>7, <2>1, <3>3, <4>1, FixupPlaces, Zenon DEF LandInv
      <4>. QED  BY <4>1, <4>2, <1>1, <2>1 DEF Placed, CountedTooFar
    <3>4. CASE k # b.item
      <4>1. short' = short /\ landed'[k] = landed[k]
        BY <1>1, <1>3, <1>7, <3>4, <1>0 DEF FixupBranch, LandInv, LandedShape
      <4>2. Placed(k) => Placed(k)'
        BY <1>1, <2>2, <4>1, PlacedStays
      <4>3. (\E j \in 1 .. Len(branches) : branches[j].item = k)
              => \E j \in 1 .. Len(branches') : branches'[j].item = k
        BY <1>2, <3>4, Zenon
      <4>. QED  BY <3>1, <4>2, <4>3
    <3>. QED  BY <3>3, <3>4, Zenon
  <2>3. BranchesPlaced'
    BY <1>1, <2>2, Zenon DEF BranchesPlaced
  <2>4. CallsPlaced'
    <3>. SUFFICES ASSUME NEW k \in 1 .. Len(items), k < cursor, items[k].kind = "call"
                  PROVE  \E j \in 1 .. Len(calls) : calls[j].item = k
      BY <1>1 DEF CallsPlaced
    <3>. QED  BY <1>0, <1>1, <1>7 DEF LandInv, CallsPlaced
  <2>5. NoneBehindEnd'
    BY <1>0, <1>1, <1>7 DEF LandInv, NoneBehindEnd
  <2>. QED  BY <1>0, <1>1, <1>4, <1>7, <2>3, <2>4, <2>5 DEF LandInv, CallsInv
<1>. QED  BY <1>1, <1>5, <1>6, <1>7

\* The oldest call that waits gets the address of its function.
LEMMA FixupCallLanded == LandedInv /\ FixupCall => LandInv'
<1>. SUFFICES ASSUME LandedInv, FixupCall PROVE LandInv'
  OBVIOUS
<1>. DEFINE T == [item : 1 .. Len(items), at : Nat, ilen : Nat]
<1>. USE LandFacts
<1>0. LandInv
  BY DEF LandedInv
<1>1. /\ phase = "walk" /\ cursor = Len(items) + 1 /\ calls # <<>> /\ calls' = Tail(calls)
      /\ UNCHANGED <<items, write, cursor, place, branches, short, phase>>
  BY DEF FixupCall
<1>2. calls \in Seq(T)
  BY <1>0 DEF LandInv, CallsInv
<1>3. /\ calls[1] \in T /\ Head(calls) = calls[1] /\ 1 \in 1 .. Len(calls)
      /\ calls' \in Seq(T)
      /\ \A j \in 1 .. Len(calls) : j # 1 => j - 1 \in 1 .. Len(calls') /\ calls'[j - 1] = calls[j]
      /\ \A j \in 1 .. Len(calls') : j + 1 \in 1 .. Len(calls) /\ calls'[j] = calls[j + 1]
  <2>. HIDE DEF T
  <2>. QED  BY <1>1, <1>2, OldestFacts
<1>4. PICK c \in T : c = calls[1]
  BY <1>3, Zenon
<1>5. items[c.item].kind = "call" /\ c.item \in 1 .. Len(items)
  BY <1>0, <1>3, <1>4, Zenon DEF LandInv, CallsInv
<1>6. /\ LandedShape'
      /\ \A k \in 1 .. Len(items) : k # c.item => landed'[k] = landed[k]
      /\ write => landed'[c.item].to = place[items[c.item].dst]
  <2>1. landed' = IF write THEN [landed EXCEPT ![c.item] =
                                   [at |-> c.at, ilen |-> c.ilen, to |-> place[items[c.item].dst]]]
                           ELSE landed
    BY <1>3, <1>4, Zenon DEF FixupCall
  <2>. QED  BY <2>1, <1>0, <1>1, <1>5, Zenon DEF LandInv, LandedShape
<1>7. write => BranchesPlaced'
  <2>. SUFFICES ASSUME write, NEW k \in 1 .. Len(items), items[k].kind = "branch"
                PROVE  Placed(k)' \/ \E j \in 1 .. Len(branches) : branches[j].item = k
    BY <1>1, Zenon DEF BranchesPlaced
  <2>1. Placed(k) \/ \E j \in 1 .. Len(branches) : branches[j].item = k
    BY <1>0, <1>1 DEF LandInv, BranchesPlaced
  <2>2. landed'[k] = landed[k]
    BY <1>5, <1>6, Zenon
  <2>3. Placed(k) => Placed(k)'
    BY <1>1, <2>2, PlacedStays, Zenon
  <2>. QED  BY <2>1, <2>3
<1>8. write => CallsPlaced'
  <2>. SUFFICES ASSUME write, NEW k \in 1 .. Len(items), items[k].kind = "call"
                PROVE  \/ \E j \in 1 .. Len(calls') : calls'[j].item = k
                       \/ landed'[k].to = place[items[k].dst]
    BY <1>1, Zenon DEF CallsPlaced
  <2>1. \/ \E j \in 1 .. Len(calls) : calls[j].item = k
        \/ landed[k].to = place[items[k].dst]
    BY <1>0, <1>1 DEF LandInv, CallsPlaced
  <2>2. CASE k = c.item
    BY <1>6, <2>2
  <2>3. CASE k # c.item
    <3>1. landed'[k] = landed[k]
      BY <1>6, <2>3, Zenon
    <3>2. \A j \in 1 .. Len(calls) : calls[j].item = k => j # 1
      BY <1>4, <2>3
    <3>3. (\E j \in 1 .. Len(calls) : calls[j].item = k)
            => \E j \in 1 .. Len(calls') : calls'[j].item = k
      BY <1>3, <3>2, Zenon
    <3>. QED  BY <2>1, <3>1, <3>3, Zenon
  <2>. QED  BY <2>2, <2>3
<1>9. CallsInv'
  <2>1. ASSUME NEW j \in 1 .. Len(calls') PROVE items[calls'[j].item].kind = "call"
    <3>1. j + 1 \in 1 .. Len(calls) /\ calls'[j] = calls[j + 1]
      BY <1>3
    <3>2. items[calls[j + 1].item].kind = "call"
      BY <1>0, <3>1 DEF LandInv, CallsInv
    <3>. QED  BY <3>1, <3>2
  <2>. QED  BY <1>1, <1>3, <2>1 DEF CallsInv
<1>. QED  BY <1>0, <1>1, <1>6, <1>7, <1>8, <1>9 DEF LandInv, NoneBehindEnd

\* A run begins with an empty record of what it placed, and the walk has come
\* to the end of a function when it ends.
LEMMA RunLanded == LandedInv /\ (StartRun \/ EndRun) => LandInv'
<1>. SUFFICES ASSUME LandedInv, StartRun \/ EndRun PROVE LandInv'
  OBVIOUS
<1>. USE LandFacts
<1>0. LandInv
  BY DEF LandedInv
<1>1. CASE StartRun
  <2>1. /\ UNCHANGED <<items, write, branches, calls, short, landed>>
        /\ cursor' = 1 /\ phase' = "walk"
    BY <1>1 DEF StartRun
  <2>2. \A k \in 1 .. Len(items) : ~(k < 1)
    OBVIOUS
  <2>3. BranchesPlaced' /\ CallsPlaced' /\ NoneBehindEnd'
    BY <2>1, <2>2 DEF BranchesPlaced, CallsPlaced, NoneBehindEnd
  <2>. QED  BY <1>0, <2>1, <2>3 DEF LandInv, LandedShape, CallsInv
<1>2. CASE EndRun
  <2>1. /\ UNCHANGED <<items, cursor, place, branches, calls, short, landed>>
        /\ phase = "walk" /\ cursor = Len(items) + 1 /\ calls = <<>>
        /\ phase' = IF write THEN "done" ELSE "again"
    BY <1>2 DEF EndRun
  <2>2. ASSUME NEW k \in 1 .. Len(items) PROVE Placed(k)' <=> Placed(k)
    BY <2>1 DEF Placed, CountedTooFar
  <2>3. (BranchesPlaced' <=> BranchesPlaced) /\ (CallsPlaced' <=> CallsPlaced)
        /\ (NoneBehindEnd' <=> NoneBehindEnd)
    BY <2>1, <2>2 DEF BranchesPlaced, CallsPlaced, NoneBehindEnd
  <2>. QED  BY <1>0, <2>1, <2>3 DEF LandInv, LandedShape, CallsInv
<1>. QED  BY <1>1, <1>2

\* Steps that write nothing leave everything landed.
LEMMA SameLanded ==
  ASSUME LandInv,
         UNCHANGED <<items, write, cursor, place, branches, calls, short, landed>>,
         phase' = phase \/ phase' \notin {"walk", "done"}
  PROVE  LandInv'
<1>1. \A k \in 1 .. Len(items) : Placed(k)' <=> Placed(k)
  BY DEF Placed, CountedTooFar
<1>. QED  BY <1>1 DEF LandInv, LandedShape, CallsInv, BranchesPlaced, CallsPlaced, NoneBehindEnd

\* The invariant is inductive.
LEMMA NextLanded == LandedInv /\ [Next]_vars => LandedInv'
<1>. SUFFICES ASSUME LandedInv, [Next]_vars PROVE LandInv'
  BY NextInv DEF LandedInv
<1>1. CASE Stopped \/ UNCHANGED vars
  BY <1>1, SameLanded DEF Stopped, vars, LandedInv
<1>2. CASE \E c \in Constants : AddConstant(c)
  <2>1. phase = "passes" /\ phase' \in {"passes", "failed"}
        /\ UNCHANGED <<items, write, cursor, place, branches, calls, short, landed>>
    BY <1>2 DEF AddConstant
  <2>. QED  BY <2>1, SameLanded DEF LandedInv
<1>. QED  BY <1>1, <1>2, RunLanded, BlockLanded, InstructionLanded, BranchLanded, CallLanded,
             FixupLanded, EndFunctionLanded, FixupCallLanded DEF Next, Step

\* arch_fixup_branch() and arch_fixup_call(): when code generation is done,
\* every branch and every call leads to where its block or function is.
THEOREM BranchesLand == Spec => []Lands
<1>1. LandedInv => Lands
  <2>. SUFFICES ASSUME LandedInv, phase = "done" PROVE Lands
    BY DEF Lands
  <2>. USE LandFacts
  <2>1. LandInv /\ write /\ cursor = Len(items) + 1 /\ calls = <<>>
    BY DEF LandedInv, LandInv, TypeInv
  <2>2. Len(items) # 0 => branches = <<>>
    <3>1. items # <<>> => items[Len(items)].kind = "end"
      BY ProgramsAssumption DEF LayoutTypeOK
    <3>2. Len(items) # 0 => items # <<>>
      OBVIOUS
    <3>. QED  BY <2>1, <3>1, <3>2 DEF LandInv, NoneBehindEnd
  <2>3. \A k \in 1 .. Len(items) : k < cursor
    BY <2>1
  <2>4. Len(calls) = 0 /\ (Len(items) # 0 => Len(branches) = 0)
    BY <2>1, <2>2
  <2>. QED  BY <2>1, <2>3, <2>4 DEF LandInv, BranchesPlaced, CallsPlaced, Lands, Placed
<1>. QED  BY <1>1, InitLanded, NextLanded, PTL DEF Spec
=============================================================================
