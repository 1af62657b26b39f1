--------------------------- MODULE MCInterleaved ---------------------------
(* Streams of up to MaxMessages messages for TLC. *)
EXTENDS Interleaved

CONSTANT MaxMessages

(* A packet may have a '$' in its payload; a line of an answer may end     *)
(* before the answer does.                                                 *)
Samples == {[kind |-> "packet", len |-> 4, dollars |-> {1}, ends |-> {}],
            [kind |-> "packet", len |-> 4, dollars |-> {1, 3}, ends |-> {4}],
            [kind |-> "answer", len |-> 5, dollars |-> {}, ends |-> {3, 5}]}

AllStreams == UNION {[1..n -> Samples] : n \in 1..MaxMessages}
============================================================================
