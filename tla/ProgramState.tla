---------------------------- MODULE ProgramState ----------------------------
(***************************************************************************)
(* What the stack analysis knows of registers and stack, byte by byte      *)
(* (src/src/ProgramState.cpp).  A byte is an element [type, nr, data]; a   *)
(* pointer takes PtrBytes elements, a head and its tails, whose data hold  *)
(* the offset.  The code has PtrBytes = 8 and Radix = 256; both are        *)
(* parameters so that TLC sees small words.  A drob_throw() or a failing   *)
(* drob_assert() yields Thrown.                                            *)
(***************************************************************************)
EXTENDS Integers, FiniteSets

CONSTANTS PtrBytes,     \* bytes of a pointer
          Radix,        \* values of a byte
          RegInfo       \* register -> [parent, byteOffs, bytes]

ASSUME WordAssumption == PtrBytes \in Nat \ {0, 1} /\ Radix \in Nat \ {0, 1}

(* A register is some bytes of its parent, which is its own parent.        *)
ASSUME RegisterAssumption ==
    \A r \in DOMAIN RegInfo :
        /\ RegInfo[r].parent \in DOMAIN RegInfo
        /\ RegInfo[RegInfo[r].parent].parent = RegInfo[r].parent
        /\ RegInfo[r].byteOffs \in Nat /\ RegInfo[r].bytes \in Nat \ {0}
        /\ RegInfo[r].byteOffs + RegInfo[r].bytes <= RegInfo[RegInfo[r].parent].bytes

Pointers == {"StackPtr", "UsrPtr", "ReturnPtr"}
Tails == {"Tail", "StackPtrTail"}
Opaque == {"Dead", "Unknown", "Tainted"}
ElementTypes == Opaque \cup {"Immediate"} \cup Pointers \cup Tails

Power(b, n) == LET p[k \in 0 .. n] == IF k = 0 THEN 1 ELSE b * p[k - 1] IN p[n]
Word == Power(Radix, PtrBytes)
Signed(v) == IF v >= Word \div 2 THEN v - Word ELSE v
Digit(v, k) == (v \div Power(Radix, k)) % Radix

-----------------------------------------------------------------------------
(* DynamicValue: val is the immediate or the offset, and 0 otherwise.  No  *)
(* value is a tail.                                                        *)
Values == [type : ElementTypes \ Tails, nr : Int, val : Int]
DynamicValue(type, nr, val) == [type |-> type, nr |-> nr, val |-> val]
Imm(v) == DynamicValue("Immediate", 0, v)
Plain(type) == DynamicValue(type, 0, 0)
IsImm(v) == v.type = "Immediate"
IsPtr(v) == v.type \in Pointers
Getimm64(v) == v.val % Word

MultiplyDynamicValue(v, scale) ==
    CASE scale = 1 -> v
      [] scale # 1 /\ IsImm(v) -> Imm((scale * Getimm64(v)) % Word)
      [] scale # 1 /\ v.type = "StackPtr" -> Plain("Tainted")
      [] scale # 1 /\ v.type \in {"UsrPtr", "ReturnPtr"} -> Plain("Unknown")
      [] OTHER -> Plain(v.type)

Moved(p, by) == DynamicValue(p.type, p.nr, (p.val + by) % Word)

AddDynamicValues(a, b) ==
    CASE IsImm(a) /\ IsImm(b) -> Imm((Getimm64(a) + Getimm64(b)) % Word)
      [] IsPtr(a) /\ IsImm(b) -> Moved(a, Getimm64(b))
      [] IsPtr(b) /\ IsImm(a) -> Moved(b, Getimm64(a))
      [] OTHER -> Plain(IF {a.type, b.type} \cap {"Tainted", "StackPtr"} # {}
                        THEN "Tainted" ELSE "Unknown")

-----------------------------------------------------------------------------
(* Elements are functions from 0 .. size - 1.                              *)
Element == [type |-> "Dead", nr |-> 0, data |-> 0]
Fresh(size) == [k \in 0 .. size - 1 |-> Element]
Thrown == [k \in {-1} |-> Element]
Size(e) == Cardinality(DOMAIN e)
AsInt(e, o, n) ==
    LET sum[k \in 0 .. n] == IF k = 0 THEN 0 ELSE sum[k - 1] * Radix + e[o + n - k].data
    IN  sum[n]

(* The whole pointer that starts at o becomes opaque.                      *)
ClearTail(e, o) ==
    LET mine(k) == \A j \in o + 1 .. k : e[j].type \in Tails
        as == [StackPtr |-> "Tainted", StackPtrTail |-> "Tainted", Tail |-> "Unknown"]
        cleared(t) == IF t \in DOMAIN as THEN as[t] ELSE "Unknown"
    IN  [k \in DOMAIN e |-> IF k >= o /\ mine(k)
                            THEN [e[k] EXCEPT !.type = cleared(@)] ELSE e[k]]

MarkByte_KeepsPointer(e, o, i) ==
    IF e[o + i].type \in {"Dead", "Immediate"} THEN [e EXCEPT ![o + i].type = "Unknown"] ELSE e
(* One turn of the loop: a tail is only expected as the first byte, and a  *)
(* pointer that starts later is cleared at byteOffset, not where it is.    *)
MarkByte(e, o, i) ==
    LET t     == e[o + i].type
        IsHead(k) == e[k].type \notin Tails /\ \A j \in k + 1 .. o - 1 : e[j].type \in Tails
    IN  CASE t \in {"Dead", "Immediate"} -> [e EXCEPT ![o + i].type = "Unknown"]
          [] t \in Tails ->
                IF i # 0 \/ \A k \in 0 .. o - 1 : e[k].type \in Tails THEN Thrown
                ELSE ClearTail(e, CHOOSE k \in 0 .. o - 1 : IsHead(k))
          [] t \in {"Tainted", "Unknown"} -> e
          [] OTHER -> ClearTail(e, o)

MarkUnknown(e, o, n) ==
    LET mark[i \in 0 .. n] ==
            IF i = 0 THEN e
            ELSE IF mark[i - 1] = Thrown THEN Thrown ELSE MarkByte(mark[i - 1], o, i - 1)
    IN  mark[n]

SetPtr(e, o, n, v) ==
    IF n # PtrBytes THEN Thrown
    ELSE [k \in DOMAIN e |->
            CASE k = o -> [type |-> v.type, nr |-> v.nr, data |-> Digit(v.val, 0)]
              [] k \in o + 1 .. o + n - 1 ->
                    [type |-> IF v.type = "StackPtr" THEN "StackPtrTail" ELSE "Tail",
                     nr |-> e[k].nr, data |-> Digit(v.val, k - o)]
              [] OTHER -> e[k]]

SetImm_Untruncated(e, o, n, v) ==
    [k \in DOMAIN e |-> IF k \in o .. o + n - 1
                        THEN [type |-> "Immediate", nr |-> e[k].nr, data |-> v.val \div Power(Radix, k - o)]
                        ELSE e[k]]
SetImm(e, o, n, v) ==
    [k \in DOMAIN e |-> IF k \in o .. o + n - 1
                        THEN [type |-> "Immediate", nr |-> e[k].nr, data |-> Digit(v.val, k - o)]
                        ELSE e[k]]

SetType(e, o, n, type) ==
    [k \in DOMAIN e |-> IF k \in o .. o + n - 1
                        THEN [type |-> type, nr |-> e[k].nr, data |-> 0] ELSE e[k]]

SetMarked(m, o, n, v, cond) ==
    CASE cond \/ m = Thrown -> Thrown
      [] ~cond /\ m # Thrown /\ IsPtr(v) -> SetPtr(m, o, n, v)
      [] ~cond /\ m # Thrown /\ IsImm(v) -> SetImm(m, o, n, v)
      [] OTHER -> SetType(m, o, n, v.type)
SetElements(e, o, n, v, cond) == SetMarked(MarkUnknown(e, o, n), o, n, v, cond)

(* The loops that walk elements go past the tails of a pointer they met.   *)
Walked(e, o, n) ==
    LET met[i \in 0 .. n - 1] ==
            \A k \in 1 .. PtrBytes - 1 :
                i >= k /\ met[i - k] => e[o + i - k].type \notin Pointers
    IN  {i \in 0 .. n - 1 : met[i]}

Sort == [Immediate |-> "imm", Dead |-> "dead", UsrPtr |-> "ptr", ReturnPtr |-> "ptr",
         StackPtr |-> "stack", Unknown |-> "unknown", Tainted |-> "tainted",
         StackPtrTail |-> "tainted"]
(* What the elements at, of the sorts in has, are together.                *)
Together(e, o, n, at, has) ==
    LET mixed == \/ \E i \in at : i # 0 /\ e[o + i].type \in Pointers
                 \/ e[o].type = "Tail"
                 \/ Cardinality(has) > 1
    IN  CASE "tainted" \in has \/ ("stack" \in has /\ (mixed \/ n # PtrBytes)) -> Plain("Tainted")
          [] mixed /\ has \cap {"tainted", "stack"} = {} -> Plain("Unknown")
          [] ~mixed /\ n = PtrBytes /\ has \in {{"stack"}, {"ptr"}} ->
                DynamicValue(e[o].type, e[o].nr, AsInt(e, o, PtrBytes))
          [] ~mixed /\ has = {"imm"} -> Imm(AsInt(e, o, n))
          [] ~mixed /\ has = {"dead"} -> Plain("Dead")
          [] OTHER -> Plain("Unknown")
GetElements(e, o, n) ==
    Together(e, o, n, Walked(e, o, n),
             {Sort[e[o + i].type] : i \in {j \in Walked(e, o, n) : e[o + j].type # "Tail"}})

(* Byte i of a move; src and dst are the same elements if same holds.      *)
MoveByte(src, dst, o1, o2, n, i) ==
    LET el == src[o1 + i]
        part(j) == IF el.type = "StackPtr" THEN [dst[o2 + j] EXCEPT !.type = "Tainted"]
                   ELSE [dst[o2 + j] EXCEPT !.type = "Unknown"]
        onto(f(_), last) == [k \in DOMAIN dst |-> IF k - o2 \in i .. last THEN f(k - o2) ELSE dst[k]]
        whole(j) == src[o1 + j]
    IN  CASE el.type \in Pointers /\ n - i < PtrBytes -> onto(part, n - 1)
          [] el.type \in Pointers /\ n - i >= PtrBytes -> onto(whole, i + PtrBytes - 1)
          [] el.type \in {"Immediate", "Dead"} ->
                [dst EXCEPT ![o2 + i].type = el.type, ![o2 + i].data = el.data]
          [] el.type \in {"Tail", "Unknown"} -> [dst EXCEPT ![o2 + i].type = "Unknown"]
          [] OTHER -> [dst EXCEPT ![o2 + i].type = "Tainted"]

MoveMarked(e1, o1, marked, o2, n, same) ==
    LET step(src, dst, i) == [e |-> MoveByte(src, dst, o1, o2, n, i),
                              next |-> IF src[o1 + i].type \in Pointers THEN i + PtrBytes ELSE i + 1]
        (* after the first i bytes: the destination and the next byte to look at *)
        move[i \in 0 .. n] ==
            IF i = 0 THEN [e |-> marked, next |-> 0]
            ELSE LET m == move[i - 1]
                 IN  IF m.next # i - 1 THEN m ELSE step(IF same THEN m.e ELSE e1, m.e, i - 1)
    IN  IF marked = Thrown THEN Thrown ELSE move[n].e
MoveElements(e1, o1, e2, o2, n, same) ==
    IF same /\ o1 = o2 THEN e2 ELSE MoveMarked(e1, o1, MarkUnknown(e2, o2, n), o2, n, same)

MergeByte_AlwaysDiff(l, r, i) ==
    LET types == {l[i].type, r[i].type}
    IN  IF Cardinality(types) = 1 THEN [e |-> l, diff |-> FALSE, next |-> i + 1]
        ELSE [e |-> [l EXCEPT ![i].type = IF types \cap {"StackPtr", "StackPtrTail", "Tainted"} # {}
                                          THEN "Tainted" ELSE "Unknown"],
              diff |-> TRUE, next |-> i + 1]
(* Element i of lhs meets element i of rhs: the new lhs, whether that is a *)
(* change, and the next element to look at.                                *)
MergeByte(l, r, i) ==
    LET lt == l[i].type
        rt == r[i].type
        becomes(t) == [e |-> [l EXCEPT ![i].type = t], diff |-> lt # t, next |-> i + 1]
        kept == [e |-> l, diff |-> FALSE, next |-> i + 1]
    IN  CASE lt = rt /\ lt \in Pointers ->
                LET equal == l[i].nr = r[i].nr /\ AsInt(l, i, PtrBytes) = AsInt(r, i, PtrBytes)
                IN  [e |-> IF equal THEN l ELSE ClearTail(l, i), diff |-> ~equal,
                     next |-> i + PtrBytes]
          [] lt = rt /\ lt = "Immediate" /\ l[i].data # r[i].data -> becomes("Unknown")
          [] lt = rt /\ lt \notin Pointers /\ (lt # "Immediate" \/ l[i].data = r[i].data) -> kept
          [] {lt, rt} = {"Dead", "Unknown"} -> [becomes("Dead") EXCEPT !.diff = FALSE]
          [] OTHER -> becomes(IF {lt, rt} \cap {"StackPtr", "StackPtrTail", "Tainted"} # {}
                              THEN "Tainted" ELSE "Unknown")

MergeElements(l, r) ==
    LET n == Size(l)
        merge[i \in 0 .. n] ==
            IF i = 0 THEN [e |-> l, diff |-> FALSE, next |-> 0]
            ELSE LET m == merge[i - 1]
                 IN  IF m.next # i - 1 THEN m ELSE [MergeByte(m.e, r, i - 1) EXCEPT !.diff = @ \/ m.diff]
    IN  merge[n]

-----------------------------------------------------------------------------
(* The stack: elements around base, the stack pointer at function entry.   *)
NewStack == [data |-> Fresh(0), base |-> 0, dead |-> FALSE]
DeadStack == [NewStack EXCEPT !.dead = TRUE]
OldStackSize(s) == Size(s.data) - s.base

Grow(s, offset, n) ==
    LET up   == IF offset + n > OldStackSize(s) THEN offset + n - OldStackSize(s) ELSE 0
        down == IF -offset > s.base THEN -offset - s.base ELSE 0
        size == Size(s.data) + up + down
    IN  IF s.dead THEN s
        ELSE [data |-> [k \in 0 .. size - 1 |-> IF k - down \in DOMAIN s.data
                                                THEN s.data[k - down] ELSE Element],
              base |-> s.base + down, dead |-> FALSE]

-----------------------------------------------------------------------------
(* A program state p is [reg, stack, ok]; ok falls with an exception.      *)
Physical == {r \in DOMAIN RegInfo : RegInfo[r].parent = r}

InitialState == [reg |-> [r \in Physical |-> Fresh(RegInfo[r].bytes)],
                 stack |-> NewStack, ok |-> TRUE]
Fail(p) == [p EXCEPT !.ok = FALSE]
PutReg(p, r, e) == IF e = Thrown THEN Fail(p) ELSE [p EXCEPT !.reg[r] = e]
PutStack(p, e) == IF e = Thrown THEN Fail(p) ELSE [p EXCEPT !.stack.data = e]

(* getRegisterData(): where a register is kept.                            *)
PartOf == [Full |-> <<0, 1>>, FullZeroParent |-> <<0, 1>>, H0 |-> <<0, 2>>, H1 |-> <<1, 2>>,
           F0 |-> <<0, 4>>, F1 |-> <<1, 4>>, F2 |-> <<2, 4>>, F3 |-> <<3, 4>>]
GetRegisterData(reg, access) ==
    LET i == RegInfo[IF access = "FullZeroParent" THEN RegInfo[reg].parent ELSE reg]
    IN  [reg |-> i.parent,
         o |-> i.byteOffs + (PartOf[access][1] * i.bytes) \div PartOf[access][2],
         n |-> i.bytes \div PartOf[access][2]]

WriteRegister(p, d, v, cond) == PutReg(p, d.reg, SetElements(p.reg[d.reg], d.o, d.n, v, cond))

SetRegister_KeepsParent(p, reg, access, v, cond) ==
    WriteRegister(p, GetRegisterData(reg, IF access = "FullZeroParent" THEN "Full" ELSE access), v, cond)
SetRegister(p, reg, access, v, cond) ==
    IF access = "FullZeroParent" /\ ~cond
    THEN WriteRegister(WriteRegister(p, GetRegisterData(reg, access), Imm(0), FALSE),
                       GetRegisterData(reg, "Full"), v, FALSE)
    ELSE WriteRegister(p, GetRegisterData(reg, access), v, cond)

ReadRegister(p, d) == GetElements(p.reg[d.reg], d.o, d.n)
GetRegister(p, reg, access) == ReadRegister(p, GetRegisterData(reg, access))

Grown(p, offset, n) == [p EXCEPT !.stack = Grow(@, offset, n)]

SetStack(p, offset, n, v, cond) ==
    LET set(g) == PutStack(g, SetElements(g.stack.data, g.stack.base + offset, n, v, cond))
    IN  IF p.stack.dead THEN p ELSE set(Grown(p, offset, n))

GetStack(p, offset, n) ==
    LET get(s) == IF s.dead THEN Plain("Tainted") ELSE GetElements(s.data, s.base + offset, n)
    IN  get(Grow(p.stack, offset, n))

MoveStackStack(p, from, to, n) ==
    LET move(g) == PutStack(g, MoveElements(g.stack.data, g.stack.base + from,
                                            g.stack.data, g.stack.base + to, n, TRUE))
    IN  IF p.stack.dead THEN p ELSE move(Grown(Grown(p, from, n), to, n))

(* What moves into a register share: first the parent is zeroed.           *)
ZeroParent(p, reg, access) ==
    IF access = "FullZeroParent" THEN SetRegister(p, reg, access, Imm(0), FALSE) ELSE p
Own(access) == IF access = "FullZeroParent" THEN "Full" ELSE access

MoveRegisterRegister(p, reg1, access1, reg2, access2) ==
    LET move(z, d1, d2) ==
            IF d1.n # d2.n \/ ~z.ok THEN Fail(z)
            ELSE PutReg(z, d2.reg, MoveElements(z.reg[d1.reg], d1.o, z.reg[d2.reg], d2.o, d1.n,
                                                d1.reg = d2.reg))
    IN  move(ZeroParent(p, reg2, access2), GetRegisterData(reg1, access1),
             GetRegisterData(reg2, Own(access2)))

MoveStackRegister(p, offset, n, reg, access) ==
    LET d == GetRegisterData(reg, Own(access))
        move(g) == PutReg(g, d.reg, MoveElements(g.stack.data, g.stack.base + offset,
                                                 g.reg[d.reg], d.o, n, FALSE))
        from(z) == CASE ~z.ok \/ (~z.stack.dead /\ d.n # n) -> Fail(z)
                     [] z.ok /\ z.stack.dead -> SetRegister(z, reg, Own(access), Plain("Tainted"), FALSE)
                     [] OTHER -> move(Grown(z, offset, n))
    IN  from(ZeroParent(p, reg, access))

MoveRegisterStack(p, reg, access, offset, n) ==
    LET d == GetRegisterData(reg, access)
        move(g) == PutStack(g, MoveElements(g.reg[d.reg], d.o, g.stack.data,
                                            g.stack.base + offset, n, FALSE))
    IN  CASE p.stack.dead -> p
          [] ~p.stack.dead /\ d.n # n -> Fail(p)
          [] OTHER -> move(Grown(p, offset, n))

UntrackedStackAccess(p) == [p EXCEPT !.stack = DeadStack]

(* Flags (registers of one byte) become unknown, all else tainted.         *)
NastyInstruction(p) ==
    LET after(r) == SetElements(p.reg[r], 0, RegInfo[r].bytes,
                                Plain(IF RegInfo[r].bytes = 1 THEN "Unknown" ELSE "Tainted"), FALSE)
    IN  IF \E r \in Physical : after(r) = Thrown THEN Fail(p)
        ELSE [p EXCEPT !.reg = [r \in Physical |-> after(r)], !.stack = DeadStack]

(* merge(): rhs is grown too, but only for the comparison.                 *)
MergeStack(s, t) ==
    LET merged(both, data) == [s |-> [both EXCEPT !.data = data.e], diff |-> data.diff]
        old   == IF OldStackSize(s) > OldStackSize(t) THEN OldStackSize(s) ELSE OldStackSize(t)
        new   == IF s.base > t.base THEN s.base ELSE t.base
        both(x) == Grow(Grow(x, old, 0), -new, 0)
    IN  CASE s.dead -> [s |-> s, diff |-> FALSE]
          [] ~s.dead /\ t.dead -> [s |-> DeadStack, diff |-> TRUE]
          [] OTHER -> merged(both(s), MergeElements(both(s).data, both(t).data))

Merge(p, q) ==
    LET merged(regs, stack) ==
            [state |-> [reg |-> [r \in Physical |-> regs[r].e], stack |-> stack.s, ok |-> TRUE],
             diff |-> stack.diff \/ \E r \in Physical : regs[r].diff]
    IN  merged([r \in Physical |-> MergeElements(p.reg[r], q.reg[r])], MergeStack(p.stack, q.stack))

=============================================================================
