------------------------------ MODULE MCLiveness ------------------------------
(***************************************************************************)
(* Small functions for the liveness analysis: every graph of three blocks  *)
(* in layout order whose blocks hold at most one plain instruction before  *)
(* the one that ends or leaves them, and every graph of two blocks holding *)
(* two instructions of every kind.                                         *)
(***************************************************************************)
EXTENDS LivenessAnalysis, TLC

CONSTANTS b1, b2, b3, r1, r2

Plain(reads, writes, will) ==
  [kind |-> "plain", readRegs |-> reads, writtenRegs |-> writes,
   condWrittenRegs |-> {}, predicateRegs |-> {}, mayWriteMem |-> FALSE,
   willExecute |-> will, dst |-> None]

Move  == Plain({r1}, {r2}, "True")
Const == Plain({}, {r1}, "True")
Store == [Plain({r2}, {}, "True") EXCEPT !.mayWriteMem = TRUE]
Shift == [Plain({r1}, {}, "True") EXCEPT !.condWrittenRegs = {r2}]
Cmov  == [Plain({}, {r1}, "Unknown") EXCEPT !.predicateRegs = {r2}]
CmovNever == [Cmov EXCEPT !.willExecute = "False"]
Call  == [Plain({}, {r1}, "True") EXCEPT !.kind = "call"]
Ret   == [Plain({}, {}, "True") EXCEPT !.kind = "ret"]
Jmp(d)  == [Plain({}, {}, "True") EXCEPT !.kind = "branch", !.dst = d]
Jcc(d)  == [Jmp(d) EXCEPT !.willExecute = "Unknown", !.predicateRegs = {r2}]
JccNever(d) == [Jcc(d) EXCEPT !.willExecute = "False"]

Successor(b) ==
  CASE b = b1 -> b2 [] b = b2 /\ b3 \in Block -> b3 [] OTHER -> None

\* How a block may end: its last instructions, and whether it falls through.
Endings(b) ==
  {<<<<Ret>>, FALSE>>, <<<<Call>>, FALSE>>, <<<<Jmp(None)>>, FALSE>>}
    \cup {<<<<Jmp(d)>>, FALSE>> : d \in Block}
    \cup IF Successor(b) = None THEN {}
         ELSE {<<<<>>, TRUE>>} \cup {<<<<Jcc(d)>>, TRUE>> : d \in Block}

Programs(bodies) ==
  { [entry |-> b1, liveRet |-> {r1},
     next |-> [b \in Block |-> IF e[b][2] THEN Successor(b) ELSE None],
     code |-> [b \in Block |-> body[b] \o e[b][1]]] :
       body \in [Block -> bodies],
       e \in {g \in [Block -> UNION {Endings(b) : b \in Block}] :
                \A b \in Block : g[b] \in Endings(b)} }

GraphBodies == {<<>>, <<Move>>, <<Const>>}
InstrBodies == {Move, Store, Shift, Cmov, CmovNever, Call, JccNever(b1)}

MCGraphs == Programs(GraphBodies)
MCInstrs == Programs({<<i, j>> : i, j \in InstrBodies})

\* Functions the decoder can produce (every block is reached from the entry)
\* that can return, and in which a store is executed.
Reached(f) ==
  LET Step(S) == S \cup ({f.next[s] : s \in S} \ {None})
                   \cup {d \in Block : Incoming(f, d) \cap S # {}}
      Iter[n \in Nat] == IF n = 0 THEN {f.entry} ELSE Step(Iter[n - 1])
  IN  Iter[Cardinality(Block)]

MCStores == {f \in Programs({<<Store>>}) : Returning(f) # {} /\ Reached(f) = Block}
=============================================================================
