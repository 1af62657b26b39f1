---------------------------- MODULE MCDelayTask ----------------------------
(* Small instances of DelayTask for TLC. *)
EXTENDS DelayTask, TLC

Symmetry == Permutations(Task) \cup Permutations(Arg)
===========================================================================
