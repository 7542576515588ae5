------------------------------ MODULE Recoding ------------------------------
(***************************************************************************)
(* One instruction on its way through the rewriter: decoded                *)
(* (arch_decode_one()), possibly changed by a pass, written to the code    *)
(* page at an address that is not its own (Instruction::generateCode()),   *)
(* and read again by a later rewriting of the generated function.          *)
(***************************************************************************)
EXTENDS Converter

MaxIlen == 15     \* ARCH_MAX_ILEN

CONSTANTS Inputs,      \* instructions as passes make them
          Addresses,   \* where code may be written
          Rounds       \* bound: how often the instruction is written

VARIABLES orig,      \* the instruction at the beginning (history)
          instr,     \* Instruction: opcode, rawOperands and reencode
          text,      \* Instruction::itext, then the code that was written
          at,        \* its address
          phase, rounds
vars == <<orig, instr, text, at, phase, rounds>>

(* What an instruction means: the meaning of its opcode and operands.      *)
Meaning(i) ==
    LET args == IF i.mn \in {"shl", "shr"} /\ i.form \in {"m", "r"} THEN Append(i.o, Reg("cl")) ELSE i.o
    IN  [mn |-> i.mn, width |-> i.size, ops |-> [k \in DOMAIN args |-> Denoted(args[k], 0, 0, i.size)]]

Init ==
    /\ orig \in Inputs
    /\ instr = [i |-> orig, reencode |-> TRUE]
    /\ text = <<>> /\ at = 0 /\ phase = "instr" /\ rounds = 0

(* A changed instruction is encoded for its new address, any other one is  *)
(* copied.                                                                 *)
GenerateCode(addr, stale) ==
    /\ phase = "instr" /\ rounds < Rounds
    /\ text' = IF instr.reencode THEN Encode(instr.i, addr, stale) ELSE text
    /\ at' = addr /\ phase' = "code" /\ rounds' = rounds + 1
    /\ UNCHANGED <<orig, instr>>

DecodeOne ==
    /\ phase = "code"
    /\ LET d == XedDecode(text)
       IN  instr' = [i |-> ConvertDecoded(d, at), reencode |-> IsRipRelative(d)]
    /\ phase' = "instr"
    /\ UNCHANGED <<orig, text, at, rounds>>

(* A pass that touches the instruction makes it be encoded again.          *)
Modified ==
    /\ phase = "instr" /\ ~instr.reencode
    /\ instr' = [instr EXCEPT !.reencode = TRUE]
    /\ UNCHANGED <<orig, text, at, phase, rounds>>

Next == DecodeOne \/ Modified \/ \E addr \in Addresses, stale \in BOOLEAN : GenerateCode(addr, stale)
Spec == Init /\ [][Next]_vars

-----------------------------------------------------------------------------
(* No instruction outgrows buf[ARCH_MAX_ILEN] (Instruction::generateCode()).*)
RecodingTypeOK ==
    /\ Length(text) <= MaxIlen
    /\ instr.reencode \in BOOLEAN
    /\ at \in Addresses \union {0} /\ phase \in {"instr", "code"} /\ rounds \in 0 .. Rounds
    /\ \A k \in DOMAIN text : text[k].w \in {1, 2, 4, 8} /\ text[k].v \in Int

(* Wherever and however often the instruction is written, copied or        *)
(* encoded, the machine does what the instruction meant at first: the same *)
(* operation on the same registers, addresses and immediates               *)
(* (Instruction::generateCode(), x86/Encoder.cpp).                         *)
EncodedSame == phase = "code" => Executed(text, at) = Meaning(orig)

(* What decoding finds in generated code is the instruction that was       *)
(* written (convert_decoded()).                                            *)
ConvertedSame == phase = "instr" => Meaning(instr.i) = Meaning(orig)

=============================================================================
