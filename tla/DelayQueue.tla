---------------------------- MODULE DelayQueue ----------------------------
(***************************************************************************)
(* The delta list of libRtspServer's delay_task.c, as operators on         *)
(* sequences.  An entry is a record with at least a field `delta', its     *)
(* delay relative to the entry before it, and a field `arg', the argument  *)
(* of its callback.  The list nodes themselves (list.h) are left out: the  *)
(* list is the sequence of its entries.                                    *)
(***************************************************************************)
EXTENDS Integers, Sequences

TIME_UP == 0

Floor(n) == IF n < 0 THEN 0 ELSE n

(* DueTimes(q)[i] is the time left until entry i is due: the sum of the    *)
(* deltas up to it, which is what every loop over the list adds up or      *)
(* takes away one entry at a time.                                         *)
DueTimes(q) ==
  LET due[i \in 0..Len(q)] == IF i = 0 THEN 0 ELSE due[i-1] + q[i].delta
  IN  due

(* sync_delay_time's `elapsed': nothing when the clock went back, and      *)
(* nothing when the time since the last sync does not fit an int.          *)
Elapsed(skew, intMax) == IF skew < 0 \/ skew >= intMax THEN 0 ELSE skew

(* A seeded fault: an entry gives up all the elapsed time, due or not.     *)
ElapseBeyondDue(q, e) ==
  LET due == DueTimes(q)
  IN  [i \in 1..Len(q) |->
         [q[i] EXCEPT !.delta = @ - Floor(e - due[i-1])]]

(* The loop of sync_delay_time: an entry whose delta the elapsed time      *)
(* covers is due and uses that much of it up; the first entry it does not  *)
(* cover takes the rest.                                                   *)
Elapse(q, e) ==
  LET due == DueTimes(q)
  IN  [i \in 1..Len(q) |->
         [q[i] EXCEPT !.delta = Floor(@ - Floor(e - due[i-1]))]]

(* A seeded fault: the new entry goes before those that are due with it.   *)
InsertPosBeforeTies(q, delay) ==
  LET due == DueTimes(q)
  IN  CHOOSE p \in 1..Len(q)+1 :
        /\ p <= Len(q) => due[p] >= delay
        /\ \A i \in 1..p-1 : due[i] < delay

(* Where add_delay_task puts an entry with this delay: before the first    *)
(* entry that is due later, at the end when there is none.                 *)
InsertPos(q, delay) ==
  LET due == DueTimes(q)
  IN  CHOOSE p \in 1..Len(q)+1 :
        /\ p <= Len(q) => due[p] > delay
        /\ \A i \in 1..p-1 : due[i] <= delay

(* add_delay_task after its sync: the new entry keeps what the entries     *)
(* before it leave of its delay, and the entry after it gives that up.     *)
Insert(q, task) ==
  LET p    == InsertPos(q, task.delta)
      rest == task.delta - DueTimes(q)[p-1]
  IN  [i \in 1..Len(q)+1 |->
         IF i < p THEN q[i]
         ELSE IF i = p THEN [task EXCEPT !.delta = rest]
         ELSE IF i = p+1 THEN [q[p] EXCEPT !.delta = @ - rest]
         ELSE q[i-1]]

(* A seeded fault: the deleted entry's delta is lost.                      *)
DeleteLosingDelta(q, i) ==
  [k \in 1..Len(q)-1 |-> IF k < i THEN q[k] ELSE q[k+1]]

(* del_delay_task: the entry after the deleted one inherits its delta.     *)
Delete(q, i) ==
  [k \in 1..Len(q)-1 |->
     IF k < i THEN q[k]
     ELSE IF k = i THEN [q[k+1] EXCEPT !.delta = @ + q[i].delta]
     ELSE q[k+1]]

(* The last entry has no entry after it, and del_delay_task adds its delta *)
(* to whatever lies behind the list head instead.                          *)
DeleteSpills(q, i) == Len(q) > 1 /\ i = Len(q) /\ q[i].delta # 0

(* destroy_sess_task: the list is walked once and every entry with this    *)
(* argument is deleted from what is left of it.                            *)
DeleteArg(q, a) ==
  LET Pos(i, rest) == i - (Len(q) - Len(rest))
      rest[i \in 0..Len(q)] ==
        IF i = 0 THEN q
        ELSE IF q[i].arg = a THEN Delete(rest[i-1], Pos(i, rest[i-1]))
        ELSE rest[i-1]
  IN  rest[Len(q)]

(* The walk ends by deleting the last entry while another one is kept, and *)
(* the deltas of the entries deleted just before it have been added to it. *)
DeleteArgSpills(q, a) ==
  LET kept == {i \in 1..Len(q) : q[i].arg # a}
      due  == DueTimes(q)
  IN  /\ Len(q) > 0
      /\ q[Len(q)].arg = a
      /\ \E i \in kept : /\ \A j \in kept : j <= i
                         /\ due[Len(q)] # due[i]
===========================================================================
