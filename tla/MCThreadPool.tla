---------------------------- MODULE MCThreadPool ----------------------------
(* Small instances of ThreadPool for TLC. *)
EXTENDS ThreadPool, TLC

(* The tasks and the users are alike; only safety runs may use this. *)
Symmetry == Permutations(Task) \cup Permutations(User)
=============================================================================
