------------------------------ MODULE MCRewriting ------------------------------
(***************************************************************************)
(* Small pieces of machine code: everything of a given length that can be  *)
(* written with the given instructions and ends with one that does not     *)
(* fall through.                                                           *)
(***************************************************************************)
EXTENDS FunctionRewriting

CONSTANTS Size, Plain, Direct

Instruction == [kind : Plain, to : {0}] \cup [kind : Direct, to : 1 .. Size]

MCTexts == {t \in [1 .. Size -> Instruction] : t[Size].kind \in EndOfBlock}

\* Machine code with a branch backward, and one or two branches in all
MCLoops == {t \in MCTexts : /\ \E l \in 1 .. Size : t[l].to \in 1 .. l
                           /\ Cardinality({l \in 1 .. Size : t[l].to # 0}) <= 2}
=============================================================================
