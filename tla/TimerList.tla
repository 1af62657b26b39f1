----------------------------- MODULE TimerList -----------------------------
(***************************************************************************)
(* What libRtspServer's delay tasks promise the rest of the server.  Every *)
(* task has a time left of its own, which nothing but the clock changes:   *)
(* not the arrival of another task, nor its removal.  Tasks run one at a   *)
(* time, in the order in which they are due, and those due together in the *)
(* order in which they were put on the list.                               *)
(***************************************************************************)
EXTENDS Integers

CONSTANTS Task, Arg, Delays, IntMax, NoTask

VARIABLES
  timer,      \* for each task waiting or running: whose it is, time left
  before,     \* the pairs of tasks the first of which goes first
  skew,       \* time the clock shows and the timers have not accounted for
  running     \* the task whose callback runs

vars == <<timer, before, skew, running>>

Init ==
  /\ timer = [t \in {} |-> 0]
  /\ before = {}
  /\ skew = 0
  /\ running = NoTask

(* Unaccounted time that is negative, or too much, is forgotten.           *)
Passed == IF skew < 0 \/ skew >= IntMax THEN 0 ELSE skew

Left(t) == IF timer[t].left <= Passed THEN 0 ELSE timer[t].left - Passed

Aged == [t \in DOMAIN timer |-> [timer[t] EXCEPT !.left = Left(t)]]

(* Task t joins those of S that wait: behind all that are due no later.    *)
JoinedOrder(S, t, d) ==
  {p \in before : p[1] \in S /\ p[2] \in S}
    \cup {<<s, t>> : s \in {r \in S : Left(r) <= d}}
    \cup {<<t, s>> : s \in {r \in S : Left(r) > d}}

Joined(S, t, a, d) ==
  [s \in S \cup {t} |-> IF s = t THEN [arg |-> a, left |-> d] ELSE Aged[s]]

---------------------------------------------------------------------------
Clock ==
  /\ skew' \in Int
  /\ UNCHANGED <<timer, before, running>>

Account ==
  /\ timer' = Aged
  /\ skew' = 0
  /\ UNCHANGED <<before, running>>

Add(t, a, d) ==
  /\ t \notin DOMAIN timer
  /\ timer' = Joined(DOMAIN timer, t, a, d)
  /\ before' = JoinedOrder(DOMAIN timer, t, d)
  /\ skew' = 0
  /\ UNCHANGED running

Remove(S) ==
  /\ timer' = [t \in DOMAIN timer \ S |-> timer[t]]
  /\ before' = {p \in before : p[1] \notin S /\ p[2] \notin S}
  /\ UNCHANGED skew

RemoveAll(a) ==
  /\ Remove({t \in DOMAIN timer : timer[t].arg = a})
  /\ UNCHANGED running

(* A task starts when its own time is over and no task goes before it.     *)
Start(t) ==
  /\ running = NoTask
  /\ \A p \in before : p[2] # t
  /\ \/ timer[t].left = 0 /\ UNCHANGED <<timer, skew>>
     \/ Left(t) = 0 /\ timer' = Aged /\ skew' = 0
  /\ running' = t
  /\ UNCHANGED before

(* The task's next delay counts from the moment its callback returns.      *)
Again(d) ==
  /\ running \in DOMAIN timer
  /\ LET others == DOMAIN timer \ {running}
     IN  /\ timer' = Joined(others, running, timer[running].arg, d)
         /\ before' = JoinedOrder(others, running, d)
  /\ skew' = 0
  /\ running' = NoTask

Done ==
  /\ running # NoTask
  /\ Remove({running})
  /\ running' = NoTask

Next ==
  \/ Clock
  \/ Account
  \/ \E t \in Task, a \in Arg, d \in Delays : Add(t, a, d)
  \/ \E a \in Arg : RemoveAll(a)
  \/ \E t \in DOMAIN timer : Start(t)
  \/ \E d \in Delays : Again(d)
  \/ Done

Spec == Init /\ [][Next]_vars
===========================================================================
