------------------------- MODULE SequenceSelection -------------------------
(***************************************************************************)
(* An operator on sequences that several components' models use.           *)
(***************************************************************************)
EXTENDS Integers, Sequences

(* The elements of s that are in S, in their order: what SelectSeq gives,  *)
(* as a recursive function, for which the proofs have induction.           *)
Only(s, S) ==
  LET kept[i \in 0..Len(s)] ==
        IF i = 0 THEN <<>>
        ELSE IF s[i] \in S THEN Append(kept[i-1], s[i])
        ELSE kept[i-1]
  IN  kept[Len(s)]
=============================================================================
