-------------------------------- MODULE Isa ---------------------------------
(***************************************************************************)
(* What the machine makes of a few bytes (Intel SDM, long mode), in the    *)
(* form in which the XED library hands it to src/src/x86/Converter.cpp.    *)
(* External: the reference for Encoder and the input of Converter.  Only   *)
(* the opcodes drob writes are known; anything else is "bad".              *)
(***************************************************************************)
EXTENDS Encoder

Reg(r) == [kind |-> "reg", reg |-> r]
Imm(x) == [kind |-> "imm", val |-> x]
Mem(base, index, scale, disp) ==
    [kind |-> "mem", base |-> base, index |-> index, scale |-> scale, disp |-> disp]

Item(code, k) == IF k \in DOMAIN code THEN code[k] ELSE [w |-> 0, v |-> -1]
IsPrefix(item) == item.w = 1 /\ item.v \in {\h66, \h67, \hF2}
NrPrefixes(code) == CHOOSE n \in 0 .. Len(code) :
    (\A k \in 1 .. n : IsPrefix(code[k])) /\ ~IsPrefix(Item(code, n + 1))

(* The bits of a REX byte, and whether there is one.                       *)
RexOf(item) ==
    LET is == item.w = 1 /\ item.v \in \h40 .. \h4F
        Bit(n) == IF is THEN (item.v \div n) % 2 ELSE 0
    IN  [is |-> is, w |-> Bit(8), r |-> Bit(4), x |-> Bit(2), b |-> Bit(1)]

(* Opcode to instruction and operand encoding: MR, RM (ModRM), MI (with an *)
(* immediate of width z, or of one byte for Ms), M, M1 (by one), MC (by    *)
(* CL), AI (accumulator), O and OI (register in the opcode), I and Is, FD  *)
(* and TD (moffs).  size "b" is one byte, "v" by prefix, "q" 64 bits       *)
(* unless 0x66, "f" always 64 bits, "x" an XMM register.                   *)
Alu == [e \in 0 .. 7 |-> CASE e = 0 -> "add" [] e = 5 -> "sub" [] e = 6 -> "xor" [] e = 7 -> "cmp" [] OTHER -> "bad"]
Shape(mn, enc, size) == [mn |-> mn, enc |-> enc, size |-> size]
OneByte(oc, ext) ==
    CASE oc < \h40 /\ oc % 8 \in {0, 2} -> Shape(Alu[oc \div 8], IF oc % 8 = 0 THEN "MR" ELSE "RM", "b")
      [] oc < \h40 /\ oc % 8 \in {1, 3} -> Shape(Alu[oc \div 8], IF oc % 8 = 1 THEN "MR" ELSE "RM", "v")
      [] oc < \h40 /\ oc % 8 \in {4, 5} -> Shape(Alu[oc \div 8], "AI", IF oc % 8 = 4 THEN "b" ELSE "v")
      [] oc = \h80 -> Shape(Alu[ext], "MI", "b")
      [] oc = \h81 -> Shape(Alu[ext], "MI", "v")
      [] oc = \h83 -> Shape(Alu[ext], "Ms", "v")
      [] oc \in {\h84, \h85} -> Shape("test", "MR", IF oc = \h84 THEN "b" ELSE "v")
      [] oc \in {\hA8, \hA9} -> Shape("test", "AI", IF oc = \hA8 THEN "b" ELSE "v")
      [] oc \in {\hF6, \hF7} /\ ext = 0 -> Shape("test", "MI", IF oc = \hF6 THEN "b" ELSE "v")
      [] oc = \h89 -> Shape("mov", "MR", "v")
      [] oc = \h8B -> Shape("mov", "RM", "v")
      [] oc = \hC7 /\ ext = 0 -> Shape("mov", "MI", "v")
      [] oc \in \hB8 .. \hBF -> Shape("mov", "OI", "v")
      [] oc \in {\hA1, \hA3} -> Shape("mov", IF oc = \hA1 THEN "FD" ELSE "TD", "v")
      [] oc = \h8D -> Shape("lea", "RM", "v")
      [] oc \in \h50 .. \h57 -> Shape("push", "O", "q")
      [] oc \in \h58 .. \h5F -> Shape("pop", "O", "q")
      [] oc = \h8F /\ ext = 0 -> Shape("pop", "M", "q")
      [] oc = \h68 -> Shape("push", "I", "q")
      [] oc = \h6A -> Shape("push", "Is", "q")
      [] oc = \hFF /\ ext = 2 -> Shape("call", "M", "f")
      [] oc = \hFF /\ ext = 4 -> Shape("jmp", "M", "f")
      [] oc = \hFF /\ ext = 6 -> Shape("push", "M", "q")
      [] oc \in {\hC1, \hD1, \hD3} /\ ext \in {4, 5} ->
            Shape(IF ext = 4 THEN "shl" ELSE "shr",
                  CASE oc = \hC1 -> "Ms" [] oc = \hD1 -> "M1" [] oc = \hD3 -> "MC", "v")
      [] oc = \hC3 -> Shape("ret", "none", "f")
      [] OTHER -> Shape("bad", "none", "f")
TwoByte(oc, p) ==
    LET s  == CASE "F2" \in p -> "sd" [] "F2" \notin p /\ "66" \in p -> "pd" [] OTHER -> "ps"
        mn == CASE oc \in {\h10, \h11} -> [sd |-> "movsd", pd |-> "movupd", ps |-> "movups"][s]
                [] oc \in {\h28, \h29} -> [sd |-> "bad", pd |-> "movapd", ps |-> "bad"][s]
                [] oc = \h58 -> [sd |-> "addsd", pd |-> "addpd", ps |-> "bad"][s]
                [] oc = \h59 -> [sd |-> "mulsd", pd |-> "mulpd", ps |-> "bad"][s]
                [] oc = \hEF -> [sd |-> "bad", pd |-> "pxor", ps |-> "bad"][s]
                [] OTHER -> "bad"
    IN  Shape(mn, IF oc \in {\h11, \h29} THEN "MR" ELSE "RM", "x")

Width(size, p, rex) ==
    CASE size = "b" -> 1
      [] size = "x" -> 16
      [] size = "f" -> 8
      [] size = "q" -> IF "66" \in p THEN 2 ELSE 8
      [] size = "v" -> CASE rex.w = 1 -> 8 [] rex.w = 0 /\ "66" \in p -> 2 [] OTHER -> 4
RegOf(nr, width, rex) ==
    CASE width = 1 -> IF rex.is THEN Gprs.b[nr + 1] ELSE Gprs.h[nr + 1]
      [] width = 2 -> Gprs.w[nr + 1]
      [] width = 4 -> Gprs.d[nr + 1]
      [] width = 8 -> Gprs.q[nr + 1]
      [] width = 16 -> Gprs.x[nr + 1]
AddrRegOf(nr, p) == IF "67" \in p THEN Gprs.d[nr + 1] ELSE Gprs.q[nr + 1]

(* The r/m operand of the ModRM byte at k and where it ends.               *)
RmOf(code, k, width, p, rex) ==
    LET m     == Item(code, k).v
        mod   == m \div 64
        rm    == m % 8
        sib   == Item(code, k + 1).v
        isSib == mod # 3 /\ rm = 4
        base  == (IF isSib THEN sib ELSE rm) % 8
        index == ((sib \div 8) % 8) + 8 * rex.x
        rip   == mod = 0 /\ rm = 5
        none  == isSib /\ mod = 0 /\ base = 5
        dw    == CASE mod = 1 -> 1 [] mod = 2 \/ rip \/ none -> 4 [] OTHER -> 0
        at    == k + 1 + (IF isSib THEN 1 ELSE 0)
    IN  IF mod = 3 THEN [op |-> Reg(RegOf(rm + 8 * rex.b, width, rex)), next |-> k + 1, ok |-> TRUE]
        ELSE [op   |-> Mem(CASE rip -> "rip" [] none -> "INVALID" [] OTHER -> AddrRegOf(base + 8 * rex.b, p),
                           IF isSib /\ index # 4 THEN AddrRegOf(index, p) ELSE "INVALID",
                           IF isSib /\ index # 4 THEN 2 ^ (sib \div 64) ELSE 0,
                           IF dw = 0 THEN 0 ELSE Item(code, at).v),
              next |-> at + (IF dw = 0 THEN 0 ELSE 1),
              ok   |-> m >= 0 /\ (isSib => sib >= 0) /\ (dw # 0 => Item(code, at).w = dw)]

Bad == [mn |-> "bad", width |-> 0, ops |-> <<>>, len |-> 0]
(* Everything there is to know of the instruction that code holds.         *)
XedDecode(code) ==
    LET n     == NrPrefixes(code)
        p     == {CASE code[k].v = \h66 -> "66" [] code[k].v = \h67 -> "67" [] OTHER -> "F2" : k \in 1 .. n}
        rex   == RexOf(Item(code, n + 1))
        first == n + (IF rex.is THEN 2 ELSE 1)
        two   == Item(code, first).v = \h0F
        at    == IF two THEN first + 1 ELSE first
        oc    == Item(code, at).v
        modrm == Item(code, at + 1).v
        shape == IF two THEN TwoByte(oc, p) ELSE OneByte(oc, (modrm \div 8) % 8)
        width == Width(shape.size, p, rex)
        z     == IF width = 8 THEN 4 ELSE width
        rm    == RmOf(code, at + 1, width, p, rex)
        reg   == Reg(RegOf(((modrm \div 8) % 8) + 8 * rex.r, width, rex))
        low   == Reg(RegOf((oc % 8) + 8 * rex.b, width, rex))
        acc   == Reg(RegOf(0, width, rex))
        Value(k) == Imm(Item(code, k).v)
        Whole(ops, next, w, isOk) ==
            IF /\ isOk
               /\ Len(code) = IF w = 0 THEN next - 1 ELSE next
               /\ w # 0 => code[next].w = w
            THEN [mn |-> shape.mn, width |-> width, ops |-> ops, len |-> Length(code)]
            ELSE Bad
    IN  CASE shape.mn = "bad" -> Bad
          [] shape.mn # "bad" /\ shape.enc = "none" -> Whole(<<>>, at + 1, 0, TRUE)
          [] shape.enc = "MR" -> Whole(<<rm.op, reg>>, rm.next, 0, rm.ok)
          [] shape.enc = "RM" -> Whole(<<reg, rm.op>>, rm.next, 0, rm.ok)
          [] shape.enc = "MI" -> Whole(<<rm.op, Value(rm.next)>>, rm.next, z, rm.ok)
          [] shape.enc = "Ms" -> Whole(<<rm.op, Value(rm.next)>>, rm.next, 1, rm.ok)
          [] shape.enc = "M" -> Whole(<<rm.op>>, rm.next, 0, rm.ok)
          [] shape.enc = "M1" -> Whole(<<rm.op, Imm(1)>>, rm.next, 0, rm.ok)
          [] shape.enc = "MC" -> Whole(<<rm.op, Reg("cl")>>, rm.next, 0, rm.ok)
          [] shape.enc = "AI" -> Whole(<<acc, Value(at + 1)>>, at + 1, z, TRUE)
          [] shape.enc = "O" -> Whole(<<low>>, at + 1, 0, TRUE)
          [] shape.enc = "OI" -> Whole(<<low, Value(at + 1)>>, at + 1, width, TRUE)
          [] shape.enc = "I" -> Whole(<<Value(at + 1)>>, at + 1, z, TRUE)
          [] shape.enc = "Is" -> Whole(<<Value(at + 1)>>, at + 1, 1, TRUE)
          [] shape.enc = "FD" -> Whole(<<acc, Mem("INVALID", "INVALID", 0, Item(code, at + 1).v)>>, at + 1, 8, TRUE)
          [] shape.enc = "TD" -> Whole(<<Mem("INVALID", "INVALID", 0, Item(code, at + 1).v), acc>>, at + 1, 8, TRUE)

(* What an operand stands for, in code at addr of so many bytes; no        *)
(* register is "INVALID" to XED and "None" to drob.                        *)
No == {"INVALID", "None"}
Named(reg) == IF reg \in No THEN "None" ELSE reg
Denoted(op, addr, len, width) ==
    CASE op.kind = "mem" /\ op.base = "rip" -> [kind |-> "abs", to |-> Trunc(8, addr + len + op.disp)]
      [] op.kind = "mem" /\ op.base \in No /\ op.index \in No -> [kind |-> "abs", to |-> op.disp]
      [] op.kind = "mem" /\ op.base # "rip" /\ ~(op.base \in No /\ op.index \in No) ->
            Mem(Named(op.base), Named(op.index),
                IF op.index \in No THEN 0 ELSE IF op.scale = 0 THEN 1 ELSE op.scale, op.disp)
      [] op.kind = "imm" -> Imm(Trunc(IF width \in DOMAIN Limit THEN width ELSE 8, op.val))
      [] OTHER -> op
(* What the machine does with code at addr.                                *)
Executed(code, addr) ==
    LET d == XedDecode(code)
    IN  [mn |-> d.mn, width |-> d.width, ops |-> [k \in DOMAIN d.ops |-> Denoted(d.ops[k], addr, d.len, d.width)]]

=============================================================================
