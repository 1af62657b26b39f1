----------------------------- MODULE WorkQueue -----------------------------
(***************************************************************************)
(* What ThreadPool.h promises: tasks wait in a bounded queue and are       *)
(* started in the order in which they were accepted, each by one worker.   *)
(* Once the pool is being destroyed it accepts none; destroyed gracefully  *)
(* it still starts those that wait, destroyed at once it starts no more.   *)
(* The pool is released when no task runs and, after a graceful destroy,   *)
(* none is left.                                                           *)
(***************************************************************************)
EXTENDS Integers, Sequences

CONSTANTS Task, Worker, QueueSize, NoTask

VARIABLES
  pending,    \* accepted tasks that have not been started
  active,     \* for each worker, the task it runs
  closing,    \* "open", "graceful" or "immediate"
  released

vars == <<pending, active, closing, released>>

Init ==
  /\ pending = <<>>
  /\ active = [w \in Worker |-> NoTask]
  /\ closing = "open"
  /\ released = FALSE

Submit(t) ==
  /\ closing = "open"
  /\ Len(pending) < QueueSize
  /\ pending' = Append(pending, t)
  /\ UNCHANGED <<active, closing, released>>

Begin(w) ==
  /\ closing # "immediate"
  /\ pending # <<>>
  /\ active[w] = NoTask
  /\ active' = [active EXCEPT ![w] = Head(pending)]
  /\ pending' = Tail(pending)
  /\ UNCHANGED <<closing, released>>

End(w) ==
  /\ active' = [active EXCEPT ![w] = NoTask]
  /\ UNCHANGED <<pending, closing, released>>

Close(how) ==
  /\ closing = "open"
  /\ closing' = how
  /\ UNCHANGED <<pending, active, released>>

Release ==
  /\ closing # "open"
  /\ \A w \in Worker : active[w] = NoTask
  /\ closing = "graceful" => pending = <<>>
  /\ released' = TRUE
  /\ UNCHANGED <<pending, active, closing>>

Next ==
  \/ \E t \in Task : Submit(t)
  \/ \E w \in Worker : Begin(w) \/ End(w)
  \/ \E how \in {"graceful", "immediate"} : Close(how)
  \/ Release

Spec == Init /\ [][Next]_vars
===========================================================================
