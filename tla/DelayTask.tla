----------------------------- MODULE DelayTask -----------------------------
(***************************************************************************)
(* The delayed tasks of libRtspServer (delay_task.c): one list of tasks,   *)
(* each with its delay relative to the task before it, brought up to date  *)
(* with the wall clock at every use.  The server's loop runs the first     *)
(* task when it is due; the task's callback may add tasks and may destroy  *)
(* every task of a session, its own included, before it returns the delay  *)
(* after which it wants to run again, or -1.                               *)
(*                                                                         *)
(* Only the server thread calls these functions, so a call is one step.    *)
(* The one call another call happens inside is the callback, and it is the *)
(* step between StartTask and the two Finish actions.                      *)
(***************************************************************************)
EXTENDS DelayQueue, FiniteSets

CONSTANTS
  Task,       \* the memory a delay_task can occupy
  Arg,        \* the sessions tasks are created for
  Delays,     \* the delays asked for
  IntMax,     \* INT_MAX, in the unit of the delays
  MaxSkew,    \* bound: the most the clock runs ahead of the last sync
  MaxBack,    \* bound: the most it is behind, after it was set back
  NoTask

ASSUME DelaysAssumption == Delays \subseteq Nat
ASSUME ClockAssumption  == /\ IntMax \in Nat \ {0}
                           /\ MaxSkew \in Nat
                           /\ MaxBack \in Nat
ASSUME NoTaskAssumption == NoTask \notin Task

VARIABLES
  queue,      \* rtsp_srv.delay_task_queue
  skew,       \* time_now() - last_sync_time
  running,    \* dtp in do_delay_task while its callback runs, else NoTask
  spilled     \* del_delay_task wrote behind the list head

vars == <<queue, skew, running, spilled>>

Entry == [id : Task, arg : Arg, delta : Nat]

Queued == {queue[i].id : i \in 1..Len(queue)}

---------------------------------------------------------------------------
Init ==                                          \* init_delay_task_queue
  /\ queue = <<>>
  /\ skew = 0
  /\ running = NoTask
  /\ spilled = FALSE

(* The list after sync_delay_time, which also resets the skew.             *)
Synced == Elapse(queue, Elapsed(skew, IntMax))

(* The wall clock, gettimeofday: it advances, and it may be set back to    *)
(* before the last sync.  A smaller step back looks like a clock that has  *)
(* advanced less.                                                          *)
Tick ==
  /\ skew < MaxSkew
  /\ skew' = skew + 1
  /\ UNCHANGED <<queue, running, spilled>>

SetBack ==
  /\ skew' \in (-MaxBack)..(-1)
  /\ UNCHANGED <<queue, running, spilled>>

(* get_min_delay_time, before the loop waits for events.                   *)
GetMinDelayTime ==
  /\ running = NoTask
  /\ queue # <<>>
  /\ queue' = Synced
  /\ skew' = 0
  /\ UNCHANGED <<running, spilled>>

(* create_delay_task, by an event handler or by the callback that runs.    *)
(* No callback creates a task after it destroyed its own session.          *)
CreateDelayTask(t, a, d) ==
  /\ t \notin Queued
  /\ running \in Queued \cup {NoTask}
  /\ queue' = Insert(Synced, [id |-> t, arg |-> a, delta |-> d])
  /\ skew' = 0
  /\ UNCHANGED <<running, spilled>>

(* destroy_sess_task, from destroy_rtsp_sess.                              *)
DestroySessTask(a) ==
  /\ queue # <<>>
  /\ queue' = DeleteArg(queue, a)
  /\ spilled' = (spilled \/ DeleteArgSpills(queue, a))
  /\ UNCHANGED <<skew, running>>

(* do_delay_task up to the call of the callback: the clock is looked at    *)
(* only when the first task is not known to be due already.                *)
StartTask ==
  /\ running = NoTask
  /\ queue # <<>>
  /\ IF queue[1].delta = TIME_UP
     THEN UNCHANGED <<queue, skew>>
     ELSE /\ queue' = Synced
          /\ skew' = 0
  /\ running' = IF queue'[1].delta = TIME_UP THEN queue[1].id ELSE NoTask
  /\ UNCHANGED spilled

(* A seeded fault: the task is added again without being taken off.        *)
FinishDelayedStillQueued(d) ==
  /\ running \in Queued
  /\ \E i \in 1..Len(queue) :
       /\ queue[i].id = running
       /\ queue' = Insert(Synced, [queue[i] EXCEPT !.delta = d])
       /\ spilled' = spilled
  /\ skew' = 0
  /\ running' = NoTask

(* update_delay_time: the task is taken off the list and added again.      *)
(* A callback that destroyed its own session returns -1.                   *)
FinishDelayed(d) ==
  /\ running \in Queued
  /\ \E i \in 1..Len(queue) :
       /\ queue[i].id = running
       /\ LET synced == Elapse(Delete(queue, i), Elapsed(skew, IntMax))
          IN  queue' = Insert(synced, [queue[i] EXCEPT !.delta = d])
       /\ spilled' = (spilled \/ DeleteSpills(queue, i))
  /\ skew' = 0
  /\ running' = NoTask

(* destroy_delay_task: the pointer is looked up in the list, because the   *)
(* callback may have destroyed the task itself.                            *)
FinishDone ==
  /\ running # NoTask
  /\ \/ /\ running \notin Queued
        /\ UNCHANGED <<queue, spilled>>
     \/ \E i \in 1..Len(queue) :
          /\ queue[i].id = running
          /\ queue' = Delete(queue, i)
          /\ spilled' = (spilled \/ DeleteSpills(queue, i))
  /\ running' = NoTask
  /\ UNCHANGED skew

Next ==
  \/ Tick
  \/ SetBack
  \/ GetMinDelayTime
  \/ \E t \in Task, a \in Arg, d \in Delays : CreateDelayTask(t, a, d)
  \/ \E a \in Arg : DestroySessTask(a)
  \/ StartTask
  \/ \E d \in Delays : FinishDelayed(d)
  \/ FinishDone

Spec == Init /\ [][Next]_vars

(* The loop comes back to do_delay_task, callbacks return and the clock    *)
(* runs.                                                                   *)
Fairness ==
  /\ WF_vars(Tick)
  /\ WF_vars(StartTask)
  /\ WF_vars(FinishDone \/ \E d \in Delays : FinishDelayed(d))

FairSpec == Spec /\ Fairness

---------------------------------------------------------------------------
TypeOK ==
  /\ queue \in Seq(Entry)
  /\ skew \in Int
  /\ running \in Task \cup {NoTask}
  /\ spilled \in BOOLEAN

(* A task is on the list once: a second entry would be freed twice.        *)
QueuedOnce ==
  \A i, j \in 1..Len(queue) : queue[i].id = queue[j].id => i = j

(* Whatever the callback added or destroyed, do_delay_task still finds its *)
(* task, if it is on the list at all, at the head and due: that is why the *)
(* deletion that follows can neither shift another task's time nor spill.  *)
RunningAtHead ==
  running \in Queued => queue[1].id = running /\ queue[1].delta = TIME_UP

(* del_delay_task's comment: next_dtp is "the task just after @dtp in the  *)
(* delay queue", so the delta is never added to anything but a task.       *)
DeltaGoesToATask == ~spilled

(* No task waits for ever behind tasks that keep coming back: it is        *)
(* started, or destroyed with its session.  Time that sync_delay_time      *)
(* forgets (a clock set back, a jump of INT_MAX or more) must stop.        *)
EveryTaskIsServed ==
  <>[](skew \in 0..IntMax-1) =>
    \A t \in Task : t \in Queued ~> (running = t \/ t \notin Queued)

---------------------------------------------------------------------------
(* What the list stands for: each task's own time left, and the order.     *)
timer == [t \in Queued |->
            LET i == CHOOSE i \in 1..Len(queue) : queue[i].id = t
            IN  [arg |-> queue[i].arg, left |-> DueTimes(queue)[i]]]

before == {<<queue[p[1]].id, queue[p[2]].id>> :
             p \in {r \in (1..Len(queue)) \X (1..Len(queue)) : r[1] < r[2]}}

Timers == INSTANCE TimerList

(* The delta list implements independent timers.                           *)
ImplementsTimers == Timers!Spec
===========================================================================
