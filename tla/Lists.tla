--------------------------------- MODULE Lists ---------------------------------
(***************************************************************************)
(* Lists the passes walk and collect from.                                 *)
(***************************************************************************)
EXTENDS Integers, Sequences, SequencesExt

(***************************************************************************)
(* The elements of s that are in S, in their order: SelectSeq with a set   *)
(* for the test, so that lemmas can be stated about it.                    *)
(***************************************************************************)
Only(s, S) ==
  LET part[n \in 0 .. Len(s)] ==
        IF n = 0 THEN <<>>
        ELSE IF s[n] \in S THEN Append(part[n - 1], s[n]) ELSE part[n - 1]
  IN  part[Len(s)]

Without(s, S) == Only(s, ToSet(s) \ S)
=============================================================================
